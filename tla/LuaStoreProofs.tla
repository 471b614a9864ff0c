--------------------------- MODULE LuaStoreProofs ---------------------------
(***************************************************************************)
(* For any threads, keys and values: the mutexes of the shared store keep  *)
(* two threads out of one bucket, and its three operations are atomic.     *)
(***************************************************************************)
EXTENDS LuaStore, TLAPS

\* A thread inside a bucket holds its mutex, and an entry a delete is about to
\* erase still has the value it is going to return.
LockInv ==
    \A t \in Threads :
        /\ Inside(t) => mutexOwner[Bucket(calls[t].key)] = t
        /\ calls[t].pc \in {"lock", "body"} => calls[t].result = Nil
        /\ calls[t].pc = "unlock" /\ calls[t].op = "store" => calls[t].result = Nil
        /\ calls[t].pc = "erase" =>
              /\ calls[t].op = "delete"
              /\ calls[t].result = global_datas[calls[t].key]

IInv == TypeOK /\ LockInv

LEMMA BucketType == \A k \in Keys : Bucket(k) \in Buckets
BY DEF Buckets

LEMMA InitIInv == Init => IInv
<1> SUFFICES ASSUME Init PROVE IInv
  OBVIOUS
<1>1. TypeOK
  BY StoreAssumption DEF Init, TypeOK, NoCall, NewCall, Calls, PCs, Ops
<1>2. LockInv
  BY DEF Init, LockInv, NoCall, NewCall, Inside
<1> QED BY <1>1, <1>2 DEF IInv

LEMMA NextType == TypeOK /\ [Next]_vars => TypeOK'
<1> SUFFICES ASSUME TypeOK, [Next]_vars PROVE TypeOK'
  OBVIOUS
<1> USE BucketType DEF TypeOK, Calls, PCs
<1>1. ASSUME NEW t \in Threads, NEW op \in Ops, NEW k \in Keys, NEW v \in Values,
             Call(t, op, k, v)
      PROVE  TypeOK'
  BY <1>1 DEF Call, NewCall
<1>2. ASSUME NEW t \in Threads, NEW op \in Ops, CallInvalid(t, op) PROVE TypeOK'
  BY <1>2, StoreAssumption DEF CallInvalid, NewCall
<1>3. ASSUME NEW t \in Threads, Lock(t) PROVE TypeOK'
  BY <1>3 DEF Lock
<1>4. ASSUME NEW t \in Threads, Store(t) PROVE TypeOK'
  BY <1>4 DEF Store
<1>5. ASSUME NEW t \in Threads, Find(t) PROVE TypeOK'
  <2> DEFINE found == global_datas[calls[t].key]
             next  == IF calls[t].op = "delete" /\ found # Nil THEN "erase" ELSE "unlock"
  <2>1. found \in Values \cup {Nil} /\ next \in PCs
    OBVIOUS
  <2>2. calls' = [calls EXCEPT ![t].pc = next, ![t].result = found]
    BY <1>5 DEF Find
  <2> HIDE DEF found, next
  <2>3. calls' \in [Threads -> Calls]
    <3> DEFINE mid == [calls EXCEPT ![t].pc = next]
    <3>1. mid \in [Threads -> Calls]
      BY <2>1
    <3>2. calls' = [mid EXCEPT ![t].result = found]
      BY <2>2
    <3> HIDE DEF mid
    <3> QED BY <2>1, <3>1, <3>2
  <2> QED BY <1>5, <2>3 DEF Find
<1>6. ASSUME NEW t \in Threads, Erase(t) PROVE TypeOK'
  BY <1>6 DEF Erase
<1>7. ASSUME NEW t \in Threads, Return(t) PROVE TypeOK'
  BY <1>7, StoreAssumption DEF Return, NoCall, NewCall, Ops
<1>8. CASE UNCHANGED vars
  BY <1>8 DEF vars
<1> QED
  BY <1>1, <1>2, <1>3, <1>4, <1>5, <1>6, <1>7, <1>8 DEF Next, Step

LEMMA NextLock == IInv /\ [Next]_vars => LockInv'
<1> SUFFICES ASSUME TypeOK, LockInv, [Next]_vars,
                    NEW u \in Threads
             PROVE  /\ Inside(u)' => mutexOwner'[Bucket(calls'[u].key)] = u
                    /\ calls'[u].pc \in {"lock", "body"} => calls'[u].result = Nil
                    /\ calls'[u].pc = "unlock" /\ calls'[u].op = "store" =>
                          calls'[u].result = Nil
                    /\ calls'[u].pc = "erase" =>
                          /\ calls'[u].op = "delete"
                          /\ calls'[u].result = global_datas'[calls'[u].key]
  BY DEF IInv, LockInv, Inside
<1> DEFINE Goal == /\ Inside(u)' => mutexOwner'[Bucket(calls'[u].key)] = u
                   /\ calls'[u].pc \in {"lock", "body"} => calls'[u].result = Nil
                   /\ calls'[u].pc = "unlock" /\ calls'[u].op = "store" =>
                         calls'[u].result = Nil
                   /\ calls'[u].pc = "erase" =>
                         /\ calls'[u].op = "delete"
                         /\ calls'[u].result = global_datas'[calls'[u].key]
<1> SUFFICES Goal
  OBVIOUS
<1> USE BucketType DEF TypeOK, Calls, PCs, LockInv, Inside
<1>1. ASSUME NEW t \in Threads, NEW op \in Ops, NEW k \in Keys, NEW v \in Values,
             Call(t, op, k, v)
      PROVE  Goal
  BY <1>1 DEF Call, NewCall
<1>2. ASSUME NEW t \in Threads, NEW op \in Ops, CallInvalid(t, op) PROVE Goal
  BY <1>2 DEF CallInvalid, NewCall
<1>3. ASSUME NEW t \in Threads, Lock(t) PROVE Goal
  BY <1>3, StoreAssumption DEF Lock
<1>4. ASSUME NEW t \in Threads, Store(t) PROVE Goal
  BY <1>4 DEF Store
<1>5. ASSUME NEW t \in Threads, Find(t) PROVE Goal
  BY <1>5 DEF Find
<1>6. ASSUME NEW t \in Threads, Erase(t) PROVE Goal
  BY <1>6 DEF Erase
<1>7. ASSUME NEW t \in Threads, Return(t) PROVE Goal
  BY <1>7 DEF Return, NoCall, NewCall
<1>8. CASE UNCHANGED vars
  BY <1>8 DEF vars
<1> QED
  BY <1>1, <1>2, <1>3, <1>4, <1>5, <1>6, <1>7, <1>8 DEF Next, Step

\* The inductive invariant holds of every reachable state of common_lua.cc's
\* store.
THEOREM StoreInvariant == Spec => []IInv
<1>1. Init => IInv
  BY InitIInv
<1>2. IInv /\ [Next]_vars => IInv'
  BY NextType, NextLock DEF IInv
<1> QED BY <1>1, <1>2, PTL DEF Spec

\* Two threads are never inside the std::map of one bucket (the lock_guards of
\* store_value, get_value and delete_value).
THEOREM BucketExclusion == Spec => []BucketExclusive
<1>1. IInv => BucketExclusive
  BY DEF IInv, LockInv, BucketExclusive
<1> QED BY <1>1, StoreInvariant, PTL

-----------------------------------------------------------------------------

LEMMA InitAtomic == Init => KV!StoreInit
BY DEF Init, KV!StoreInit, KV!Idle, KV!Request, NoCall, NewCall, AbstractCall

LEMMA NextAtomic == IInv /\ [Next]_vars => [KV!StoreNext]_(KV!storeVars)
<1> SUFFICES ASSUME TypeOK, LockInv, [Next]_vars
             PROVE  KV!StoreNext \/ UNCHANGED KV!storeVars
  BY DEF IInv
<1> USE DEF TypeOK, Calls, PCs
<1>1. ASSUME NEW t \in Threads, NEW op \in Ops, NEW k \in Keys, NEW v \in Values,
             Call(t, op, k, v)
      PROVE  KV!Invoke(t, op, k, v)
  BY <1>1 DEF Call, NewCall, KV!Invoke, KV!Request, AbstractCall
<1>2. ASSUME NEW t \in Threads, NEW op \in Ops, CallInvalid(t, op)
      PROVE  KV!Invoke(t, op, << >>, Empty)
  BY <1>2 DEF CallInvalid, NewCall, KV!Invoke, KV!Request, AbstractCall
<1>3. ASSUME NEW t \in Threads, Lock(t) PROVE UNCHANGED KV!storeVars
  BY <1>3 DEF Lock, KV!storeVars, AbstractCall
<1>4. ASSUME NEW t \in Threads, Store(t) PROVE KV!ApplyStore(t)
  BY <1>4 DEF Store, LockInv, KV!ApplyStore, KV!Done, AbstractCall
<1>5. ASSUME NEW t \in Threads, Find(t)
      PROVE  KV!ApplyGet(t) \/ KV!ApplyDelete(t) \/ UNCHANGED KV!storeVars
  <2>1. CASE calls[t].op = "get"
    BY <1>5, <2>1 DEF Find, KV!ApplyGet, KV!Done, AbstractCall
  <2>2. CASE calls[t].op = "delete" /\ global_datas[calls[t].key] = Nil
    BY <1>5, <2>2 DEF Find, KV!ApplyDelete, KV!Done, AbstractCall
  <2>3. CASE calls[t].op = "delete" /\ global_datas[calls[t].key] # Nil
    BY <1>5, <2>3 DEF Find, KV!storeVars, AbstractCall
  <2> QED BY <1>5, <2>1, <2>2, <2>3 DEF Find
<1>6. ASSUME NEW t \in Threads, Erase(t) PROVE KV!ApplyDelete(t)
  BY <1>6 DEF Erase, LockInv, KV!ApplyDelete, KV!Done, AbstractCall
<1>7. ASSUME NEW t \in Threads, Return(t) PROVE KV!Answer(t)
  BY <1>7 DEF Return, NoCall, NewCall, KV!Answer, KV!Idle, KV!Request, AbstractCall
<1>8. CASE UNCHANGED vars
  BY <1>8 DEF vars, KV!storeVars, AbstractCall
<1>9. Ops = KV!Ops /\ << >> \in Keys /\ Empty \in Values
  BY StoreAssumption DEF Ops, KV!Ops
<1> QED
  BY <1>1, <1>2, <1>3, <1>4, <1>5, <1>6, <1>7, <1>8, <1>9 DEF Next, Step, KV!StoreNext

\* store_value, get_value and delete_value implement atomic operations on one
\* map, for any number of threads and keys: a value is handed out by at most
\* one delete_value, and no store is lost.
THEOREM StoreIsAtomic == Spec => AtomicStore
<1>1. Init => KV!StoreInit
  BY InitAtomic
<1>2. IInv /\ [Next]_vars => [KV!StoreNext]_(KV!storeVars)
  BY NextAtomic
<1> QED BY <1>1, <1>2, StoreInvariant, PTL DEF Spec, AtomicStore, KV!StoreSpec
=============================================================================
