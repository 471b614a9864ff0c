---------------------------- MODULE KeyValueStore ----------------------------
(***************************************************************************)
(* What the store the Lua scripts share promises: store_value, get_value   *)
(* and delete_value, called by any number of threads, take effect one at a *)
(* time, each at some moment between its call and its return.              *)
(***************************************************************************)
CONSTANTS Threads, Keys, Values, Empty, Nil

VARIABLES
    store,   \* the value of every key, Nil if it has none
    calls    \* what each thread is asking for and what it was told

storeVars == <<store, calls>>

Ops == {"store", "get", "delete"}
Request(state, op, k, v) == [state |-> state, op |-> op, key |-> k, value |-> v,
                             result |-> Nil]
Idle == Request("idle", "get", << >>, Empty)

StoreInit ==
    /\ store = [k \in Keys |-> Nil]
    /\ calls = [t \in Threads |-> Idle]

Invoke(t, op, k, v) ==
    /\ calls[t].state = "idle"
    /\ calls' = [calls EXCEPT ![t] = Request("pending", op, k, v)]
    /\ UNCHANGED store

Done(t, result) == calls' = [calls EXCEPT ![t].state = "done", ![t].result = result]

ApplyStore(t) ==
    /\ calls[t].state = "pending" /\ calls[t].op = "store"
    /\ store' = [store EXCEPT ![calls[t].key] = calls[t].value]
    /\ Done(t, Nil)

ApplyGet(t) ==
    /\ calls[t].state = "pending" /\ calls[t].op = "get"
    /\ Done(t, store[calls[t].key])
    /\ UNCHANGED store

ApplyDelete(t) ==
    /\ calls[t].state = "pending" /\ calls[t].op = "delete"
    /\ store' = [store EXCEPT ![calls[t].key] = Nil]
    /\ Done(t, store[calls[t].key])

Answer(t) ==
    /\ calls[t].state = "done"
    /\ calls' = [calls EXCEPT ![t] = Idle]
    /\ UNCHANGED store

StoreNext ==
    \E t \in Threads :
        \/ \E op \in Ops, k \in Keys, v \in Values : Invoke(t, op, k, v)
        \/ ApplyStore(t) \/ ApplyGet(t) \/ ApplyDelete(t) \/ Answer(t)

StoreSpec == StoreInit /\ [][StoreNext]_storeVars
=============================================================================
