------------------------------ MODULE LuaStore ------------------------------
(***************************************************************************)
(* The key-value store shared by the Lua scripts of all worker and offload *)
(* threads (common_lua.cc): a table of std::maps, each under a mutex of    *)
(* its own, the bucket chosen by the sum of the bytes of the key.  A key   *)
(* is a sequence of bytes; what is done under the mutex is several steps,  *)
(* so that a wrong mutex would show.                                       *)
(***************************************************************************)
EXTENDS Integers, Sequences, SequencesExt

CONSTANTS
    Threads,   \* threads that run scripts
    Keys,      \* keys the scripts use, sequences of bytes
    Values,    \* values the scripts store
    Empty,     \* the empty string, as a value
    Nil,       \* no value
    Nobody     \* no thread

ASSUME StoreAssumption ==
    /\ << >> \in Keys          \* the key of a call with a wrong argument count
    /\ Empty \in Values /\ Nil \notin Values
    /\ Nobody \notin Threads

VARIABLES
    global_datas,   \* value of every key in the map of its bucket
    mutexOwner,     \* holder of each of global_data_mutexes
    calls           \* where each thread is in store_value, get_value, delete_value

vars == <<global_datas, mutexOwner, calls>>

\* get_u16_sum; the row is the part a 16-bit sum does not have.
get_u16_sum(key) == FoldLeft(LAMBDA sum, c : (sum + c) % (2^16), 0, key)
Bucket(key) == <<get_u16_sum(key) \div 2^16, get_u16_sum(key) % 2^8>>
Buckets == {Bucket(k) : k \in Keys}

Ops == {"store", "get", "delete"}
PCs == {"idle", "lock", "body", "erase", "unlock"}
Calls == [pc : PCs, op : Ops, key : Keys, value : Values, result : Values \cup {Nil}]

TypeOK ==
    /\ global_datas \in [Keys -> Values \cup {Nil}]
    /\ mutexOwner \in [Buckets -> Threads \cup {Nobody}]
    /\ calls \in [Threads -> Calls]

\* Arguments a call does not have, or has not got right, are empty strings.
NewCall(pc, op, k, v) == [pc |-> pc, op |-> op, key |-> k, value |-> v, result |-> Nil]
NoCall == NewCall("idle", "get", << >>, Empty)

Init ==
    /\ global_datas = [k \in Keys |-> Nil]
    /\ mutexOwner = [b \in Buckets |-> Nobody]
    /\ calls = [t \in Threads |-> NoCall]

\* A script calls store_value(k, v), get_value(k) or delete_value(k).
Call(t, op, k, v) ==
    /\ calls[t].pc = "idle"
    /\ op # "store" => v = Empty
    /\ calls' = [calls EXCEPT ![t] = NewCall("lock", op, k, v)]
    /\ UNCHANGED <<global_datas, mutexOwner>>

\* A call with a wrong number of arguments is reported and goes on, with an
\* empty key and an empty value.
CallInvalid(t, op) ==
    /\ calls[t].pc = "idle"
    /\ calls' = [calls EXCEPT ![t] = NewCall("lock", op, << >>, Empty)]
    /\ UNCHANGED <<global_datas, mutexOwner>>

\* Mutant: the lock_guard is forgotten.
Lock_Forgotten(t) ==
    /\ calls[t].pc = "lock"
    /\ calls' = [calls EXCEPT ![t].pc = "body"]
    /\ UNCHANGED <<global_datas, mutexOwner>>

\* std::lock_guard on the mutex of the key's bucket.
Lock(t) ==
    /\ calls[t].pc = "lock"
    /\ mutexOwner[Bucket(calls[t].key)] = Nobody
    /\ mutexOwner' = [mutexOwner EXCEPT ![Bucket(calls[t].key)] = t]
    /\ calls' = [calls EXCEPT ![t].pc = "body"]
    /\ UNCHANGED global_datas

Store(t) ==
    /\ calls[t].pc = "body"
    /\ calls[t].op = "store"
    /\ global_datas' = [global_datas EXCEPT ![calls[t].key] = calls[t].value]
    /\ calls' = [calls EXCEPT ![t].pc = "unlock"]
    /\ UNCHANGED mutexOwner

\* global_data.find(key), and lua_pushlstring of what it found.
Find(t) ==
    /\ calls[t].pc = "body"
    /\ calls[t].op \in {"get", "delete"}
    /\ LET found == global_datas[calls[t].key]
           next  == IF calls[t].op = "delete" /\ found # Nil THEN "erase" ELSE "unlock"
       IN  calls' = [calls EXCEPT ![t].pc = next, ![t].result = found]
    /\ UNCHANGED <<global_datas, mutexOwner>>

\* Mutant: delete_value leaves the entry where it is.
Erase_Keeps(t) ==
    /\ calls[t].pc = "erase"
    /\ calls' = [calls EXCEPT ![t].pc = "unlock"]
    /\ UNCHANGED <<global_datas, mutexOwner>>

Erase(t) ==
    /\ calls[t].pc = "erase"
    /\ global_datas' = [global_datas EXCEPT ![calls[t].key] = Nil]
    /\ calls' = [calls EXCEPT ![t].pc = "unlock"]
    /\ UNCHANGED mutexOwner

\* Mutant: get_value tries again until there is a value.
Return_Retries(t) ==
    /\ calls[t].pc = "unlock"
    /\ mutexOwner' = [mutexOwner EXCEPT ![Bucket(calls[t].key)] = Nobody]
    /\ \/ /\ calls[t].op # "get" \/ calls[t].result # Nil
          /\ calls' = [calls EXCEPT ![t] = NoCall]
       \/ /\ calls[t].op = "get" /\ calls[t].result = Nil
          /\ calls' = [calls EXCEPT ![t].pc = "lock"]
    /\ UNCHANGED global_datas

\* The guard's destructor, and the return to the script.
Return(t) ==
    /\ calls[t].pc = "unlock"
    /\ mutexOwner' = [mutexOwner EXCEPT ![Bucket(calls[t].key)] = Nobody]
    /\ calls' = [calls EXCEPT ![t] = NoCall]
    /\ UNCHANGED global_datas

Step(t) == Lock(t) \/ Store(t) \/ Find(t) \/ Erase(t) \/ Return(t)

Next ==
    \E t \in Threads :
        \/ \E op \in Ops, k \in Keys, v \in Values : Call(t, op, k, v)
        \/ \E op \in Ops : CallInvalid(t, op)
        \/ Step(t)

Spec == Init /\ [][Next]_vars

\* Threads run, and a mutex that keeps becoming free is obtained.
FairSpec == Spec /\ \A t \in Threads : SF_vars(Step(t))

-----------------------------------------------------------------------------

Inside(t) == calls[t].pc \in {"body", "erase", "unlock"}

\* Two threads are never inside the same std::map: an unsynchronised access
\* to it would be undefined behaviour.
BucketExclusive ==
    \A t, u \in Threads :
        (Inside(t) /\ Inside(u) /\ Bucket(calls[t].key) = Bucket(calls[u].key)) => t = u

\* The call as the script sees it: pending until it took effect.
AbstractCall(c) ==
    LET state == CASE c.pc = "idle"   -> "idle"
                   [] c.pc = "unlock" -> "done"
                   [] OTHER           -> "pending"
    IN  [state |-> state, op |-> c.op, key |-> c.key, value |-> c.value,
         result |-> IF c.pc = "unlock" THEN c.result ELSE Nil]

KV == INSTANCE KeyValueStore WITH
          store <- global_datas, calls <- [t \in Threads |-> AbstractCall(calls[t])]

\* store_value, get_value and delete_value are atomic operations on one map,
\* although only a bucket is locked and find and erase are separate steps.
AtomicStore == KV!StoreSpec

\* Every call returns: no thread waits for ever for a bucket.
CallReturns == \A t \in Threads : calls[t].pc # "idle" ~> calls[t].pc = "idle"
=============================================================================
