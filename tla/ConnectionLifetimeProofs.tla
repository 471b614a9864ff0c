---------------------- MODULE ConnectionLifetimeProofs ----------------------
(***************************************************************************)
(* TLAPS proofs about ConnectionLifetime, for any number of connections,   *)
(* workers and events and any timeout.                                     *)
(***************************************************************************)
EXTENDS ConnectionLifetime, FiniteSetTheorems, QueueLemmas

-----------------------------------------------------------------------------
(* Types of what the handlers are made of                                  *)

\* Cancelled operations are a sequence of entries.
LEMMA AbortedSeq ==
    ASSUME NEW c \in Conns, NEW S \in SUBSET Ops
    PROVE  LET T == {Entry(k, c, FALSE) : k \in S}
           IN  \E n \in Nat : n = Cardinality(T) /\ SetToSeq(T) \in [1..n -> T]
<1> DEFINE T == {Entry(k, c, FALSE) : k \in S}
<1>1. IsFiniteSet(T)
  <2>1. IsFiniteSet(Ops)
    <3>1. IsFiniteSet({"wait"})
      BY FS_Singleton
    <3>2. IsFiniteSet({"wait"} \cup {"handshake"})
      BY <3>1, FS_AddElement
    <3>3. IsFiniteSet(({"wait"} \cup {"handshake"}) \cup {"read"})
      BY <3>2, FS_AddElement
    <3>4. IsFiniteSet((({"wait"} \cup {"handshake"}) \cup {"read"}) \cup {"write"})
      BY <3>3, FS_AddElement
    <3>5. Ops = (({"wait"} \cup {"handshake"}) \cup {"read"}) \cup {"write"}
      BY DEF Ops
    <3> QED BY <3>4, <3>5
  <2>2. IsFiniteSet(S)
    BY <2>1, FS_Subset
  <2>3. [k \in S |-> Entry(k, c, FALSE)] \in Surjection(S, T)
    BY DEF Surjection
  <2> HIDE DEF T
  <2> QED BY <2>2, <2>3, FS_Surjection
<1> HIDE DEF T
<1>2. PICK n \in Nat : n = Cardinality(T)
  BY <1>1, FS_CardinalityType
<1>3. \E f \in [1..n -> T] : IsInjective(f)
  BY <1>1, <1>2, FS_CardinalityType DEF ExistsBijection, Bijection, Injection
<1>4. SetToSeq(T) \in [1..n -> T]
  BY <1>2, <1>3 DEF SetToSeq
<1> QED BY <1>2, <1>4 DEF T

\* Cancelled operations become entries of the queue.
LEMMA AbortedType ==
    ASSUME NEW c \in Conns, NEW S \in SUBSET Ops
    PROVE  Aborted(c, S) \in Seq(Entries)
<1> DEFINE T == {Entry(k, c, FALSE) : k \in S}
<1>1. T \in SUBSET Entries
  <2>1. ASSUME NEW k \in S PROVE Entry(k, c, FALSE) \in Entries
    BY DEF Entry, Entries
  <2> QED BY <2>1
<1>2. PICK n \in Nat : n = Cardinality(T) /\ SetToSeq(T) \in [1..n -> T]
  BY AbortedSeq
<1> HIDE DEF T
<1>3. SetToSeq(T) \in Seq(Entries)
  BY <1>1, <1>2
<1> QED BY <1>3 DEF Aborted, T

\* Whatever the connection's own functions do, the deadline and the time
\* since it was pushed back stay in step.
InStep(r) == r \in Connection /\ r.left + r.idle = Timeout

LEMMA FunctionsInStep ==
    ASSUME NEW r, InStep(r)
    PROVE  /\ InStep(Stop(r))
           /\ InStep(StopIfRunning(r))
           /\ InStep(PushBack(r))
           /\ InStep(DoRead(r))
           /\ \A outcome \in WriteOutcomes(r) : InStep(DoWrite(r, outcome))
           /\ InStep([r EXCEPT !.ops = @ \cup {"wait"}])
           /\ InStep([r EXCEPT !.writing = FALSE])
           /\ InStep([r EXCEPT !.handler = "live"])
<1> USE LifetimeAssumption DEF InStep, Connection, Ops
<1>1. InStep(Stop(r))
  BY DEF Stop
<1>2. InStep(StopIfRunning(r))
  BY <1>1 DEF StopIfRunning
<1>3. InStep(PushBack(r))
  <2>1. Timeout \in 0..Timeout /\ 0 \in 0..Timeout /\ Timeout + 0 = Timeout
    OBVIOUS
  <2>2. /\ PushBack(r) \in Connection
        /\ PushBack(r).left = Timeout /\ PushBack(r).idle = 0
    BY <2>1 DEF PushBack
  <2> QED BY <2>1, <2>2
<1>4. InStep(DoRead(r))
  BY <1>3 DEF DoRead
<1>5. ASSUME NEW outcome \in WriteOutcomes(r) PROVE InStep(DoWrite(r, outcome))
  <2>1. CASE r.stopped \/ r.writing \/ outcome = "nothing"
    BY <2>1 DEF DoWrite
  <2>2. CASE outcome = "stop"
    BY <1>1, <2>2 DEF DoWrite
  <2>3. CASE outcome = "bytes" /\ ~(r.stopped \/ r.writing)
    <3>1. r.events + 1 \in 0..MaxEvents
      BY <1>5, <2>3 DEF WriteOutcomes
    <3>2. PushBack(r).events = r.events
      BY DEF PushBack
    <3> QED BY <1>3, <2>3, <3>1, <3>2 DEF DoWrite
  <2> QED BY <1>5, <2>1, <2>2, <2>3 DEF WriteOutcomes
<1>6. InStep([r EXCEPT !.ops = @ \cup {"wait"}])
  OBVIOUS
<1>7. InStep([r EXCEPT !.writing = FALSE])
  OBVIOUS
<1>8. InStep([r EXCEPT !.handler = "live"])
  OBVIOUS
<1> QED BY <1>1, <1>2, <1>3, <1>4, <1>5, <1>6, <1>7, <1>8

LEMMA FunctionsAborts ==
    ASSUME NEW c \in Conns, NEW r \in Connection
    PROVE  /\ StopAborts(c, r) \in Seq(Entries)
           /\ DoReadAborts(c, r) \in Seq(Entries)
           /\ \A outcome : DoWriteAborts(c, r, outcome) \in Seq(Entries)
<1>1. << >> \in Seq(Entries)
  OBVIOUS
<1>2. r.ops \in SUBSET Ops
  BY DEF Connection
<1>3. StopAborts(c, r) \in Seq(Entries)
  BY <1>1, <1>2, AbortedType DEF StopAborts
<1>4. PushBackAborts(c, r) \in Seq(Entries)
  <2>1. r.ops \cap {"wait"} \in SUBSET Ops
    BY <1>2
  <2> QED BY <2>1, AbortedType DEF PushBackAborts
<1> QED BY <1>1, <1>3, <1>4 DEF DoReadAborts, DoWriteAborts

-----------------------------------------------------------------------------
(* The inductive invariant                                                 *)

\* The clock of every connection is in step, and the connection the listener
\* works on exists.
IInv ==
    /\ TypeOK
    /\ \A c \in Conns : conn[c].left + conn[c].idle = Timeout
    /\ accepting \/ lpc # "idle" => made \in Conns

LEMMA InvInit == Init => IInv
<1> SUFFICES ASSUME Init PROVE IInv
  OBVIOUS
<1> USE LifetimeAssumption
<1>1. 1 \in Conns /\ 1 \in WorkerIds /\ (1 % Workers) + 1 \in WorkerIds
  BY DEF Conns, WorkerIds
<1>2. NewConnection(1) \in Connection /\ NewConnection(1).left + NewConnection(1).idle = Timeout
  BY <1>1 DEF NewConnection, Connection
<1>3. << >> \in Seq(Entries)
  OBVIOUS
<1> QED BY <1>1, <1>2, <1>3 DEF Init, IInv, TypeOK, Conns

\* A handler that leaves connection c as r and makes `more` ready.
LEMMA DoneInv ==
    ASSUME IInv, NEW w \in WorkerIds, queue[w] # << >>, NEW c \in Conns,
           NEW r, InStep(r), NEW more \in Seq(Entries),
           conn' = [conn EXCEPT ![c] = r],
           queue' = [queue EXCEPT ![w] = Tail(queue[w]) \o more],
           UNCHANGED <<lifetimeVars, failed, ended>>,
           registered' \subseteq Conns
    PROVE  IInv'
<1>1. PICK q \in Seq(Entries) : q = queue[w]
  BY DEF IInv, TypeOK
<1>2. Tail(q) \o more \in Seq(Entries)
  <2>1. Tail(q) \in Seq(Entries)
    BY <1>1, QueueOps
  <2> QED BY <2>1, QueueOps
<1>3. queue' \in [WorkerIds -> Seq(Entries)]
  BY <1>1, <1>2 DEF IInv, TypeOK
<1>4. /\ conn' \in [Conns -> Connection]
      /\ \A d \in Conns : conn'[d].left + conn'[d].idle = Timeout
  BY DEF IInv, TypeOK, InStep
<1> QED BY <1>3, <1>4 DEF IInv, TypeOK, lifetimeVars

\* The same for a handler that ends in Done.
LEMMA DoneStep ==
    ASSUME IInv, NEW w \in WorkerIds, queue[w] # << >>, NEW c \in Conns,
           NEW r, InStep(r), NEW more \in Seq(Entries), Done(w, c, r, more)
    PROVE  IInv'
<1>1. registered' \subseteq Conns
  BY DEF Done, DestroyedByWorker, IInv, TypeOK
<1> QED BY <1>1, DoneInv DEF Done

LEMMA InvStep == IInv /\ [Next]_vars => IInv'
<1> SUFFICES ASSUME IInv, [Next]_vars PROVE IInv'
  OBVIOUS
<1> USE LifetimeAssumption
<1>n. nextIo \in WorkerIds /\ (nextIo % Workers) + 1 \in WorkerIds
  BY DEF IInv, TypeOK, WorkerIds
<1>m. \A w \in WorkerIds : InStep(NewConnection(w))
  BY DEF NewConnection, Connection, InStep
<1>r. \A c \in Conns : conn[c] \in Connection /\ InStep(conn[c])
  BY DEF IInv, TypeOK, InStep
\* One connection and nothing of the queues changes.
<1>o. ASSUME NEW c \in Conns, NEW r, InStep(r), conn' = [conn EXCEPT ![c] = r]
      PROVE  /\ conn' \in [Conns -> Connection]
             /\ \A d \in Conns : conn'[d].left + conn'[d].idle = Timeout
  BY <1>o DEF IInv, TypeOK, InStep
<1>1. CASE Accept
  <2> DEFINE r == [conn[made] EXCEPT !.ops = {"wait"}, !.left = Timeout, !.idle = 0]
  <2>1. made \in Conns
    BY <1>1 DEF Accept, IInv
  <2>2. InStep(r)
    <3>1. Timeout \in 0..Timeout /\ 0 \in 0..Timeout /\ Timeout + 0 = Timeout
      OBVIOUS
    <3>2. r \in Connection /\ r.left = Timeout /\ r.idle = 0
      BY <1>r, <2>1, <3>1 DEF Connection, Ops
    <3> HIDE DEF r
    <3> QED BY <3>1, <3>2 DEF InStep
  <2>3. conn' = [conn EXCEPT ![made] = r]
    BY <1>1, <2>1 DEF Accept, IInv, TypeOK
  <2> HIDE DEF r
  <2>4. /\ conn' \in [Conns -> Connection]
        /\ \A d \in Conns : conn'[d].left + conn'[d].idle = Timeout
    BY <1>o, <2>1, <2>2, <2>3
  <2> QED BY <1>1, <2>1, <2>4 DEF Accept, IInv, TypeOK
<1>2. CASE Begin
  <2> DEFINE c == made
             e == Entry(IF tls THEN "handshake" ELSE "start", made, ~tls)
             r == [conn[made] EXCEPT !.ops = @ \cup {"handshake"}]
  <2>1. made \in Conns /\ conn[made].io \in WorkerIds
    BY <1>2, <1>r DEF Begin, IInv, Connection
  <2>2. InStep(r)
    BY <1>r, <2>1 DEF InStep, Connection, Ops
  <2>3. CASE conn' = [conn EXCEPT ![made] = r] /\ queue' = queue
    <3> HIDE DEF r
    <3>1. /\ conn' \in [Conns -> Connection]
          /\ \A d \in Conns : conn'[d].left + conn'[d].idle = Timeout
      BY <1>o, <2>1, <2>2, <2>3
    <3> QED BY <1>2, <2>1, <2>3, <3>1 DEF Begin, IInv, TypeOK, DestroyedByListener
  <2>4. CASE conn' = conn /\ queue' = [queue EXCEPT ![conn[made].io] = Append(@, e)]
    <3>1. e \in Entries
      BY <1>2, <2>1 DEF Entry, Entries, Ops, IInv, TypeOK
    <3>2. PICK q \in Seq(Entries) : q = queue[conn[made].io]
      BY <2>1 DEF IInv, TypeOK
    <3>3. Append(q, e) \in Seq(Entries)
      BY <3>1, QueueOps
    <3>4. queue' \in [WorkerIds -> Seq(Entries)]
      BY <2>4, <3>2, <3>3 DEF IInv, TypeOK
    <3> QED BY <1>2, <2>1, <2>4, <3>4 DEF Begin, IInv, TypeOK, DestroyedByListener
  <2> QED BY <1>2, <2>1, <2>3, <2>4 DEF Begin, IInv, TypeOK
<1>3. CASE Return
  <2>1. CASE serving /\ made < MaxConns
    <3>1. made + 1 \in Conns
      BY <2>1 DEF IInv, TypeOK, Conns
    <3>2. conn' = [conn EXCEPT ![made + 1] = NewConnection(nextIo)]
      BY <1>3, <2>1 DEF Return, StartAccept
    <3>3. /\ conn' \in [Conns -> Connection]
          /\ \A d \in Conns : conn'[d].left + conn'[d].idle = Timeout
      BY <1>o, <1>m, <1>n, <3>1, <3>2
    <3>4. made' = made + 1 /\ made' \in 0..MaxConns
      BY <1>3, <2>1 DEF Return, StartAccept, IInv, TypeOK
    <3>5. nextIo' \in WorkerIds /\ accepting' \in BOOLEAN
      BY <1>3, <1>n, <2>1 DEF Return, StartAccept
    <3> QED BY <1>3, <3>1, <3>3, <3>4, <3>5 DEF Return, IInv, TypeOK, DestroyedByListener
  <2>2. CASE ~(serving /\ made < MaxConns)
    BY <1>3, <2>2 DEF Return, StartAccept, IInv, TypeOK, DestroyedByListener
  <2> QED BY <2>1, <2>2
<1>4. CASE AcceptError
  <2>1. made \in Conns
    BY <1>4 DEF AcceptError, IInv
  <2>2. conn' = [conn EXCEPT ![made] = NewConnection(nextIo)] /\ nextIo' \in WorkerIds
    BY <1>4, <1>n DEF AcceptError
  <2>3. /\ conn' \in [Conns -> Connection]
        /\ \A d \in Conns : conn'[d].left + conn'[d].idle = Timeout
    BY <1>o, <1>m, <1>n, <2>1, <2>2
  <2> QED BY <1>4, <2>1, <2>2, <2>3 DEF AcceptError, IInv, TypeOK
<1>5. CASE AcceptNoDescriptors \/ AcceptAborted
  <2>1. made' \in 0..MaxConns
    BY <1>5 DEF AcceptNoDescriptors, AcceptAborted, IInv, TypeOK, Conns
  <2> QED BY <1>5, <2>1 DEF AcceptNoDescriptors, AcceptAborted, IInv, TypeOK
<1>6. CASE StopServer
  BY <1>6 DEF StopServer, IInv, TypeOK
<1>7. CASE Tick
  <2>1. ASSUME NEW c \in Conns, conn[c].left > 0
        PROVE  InStep([conn[c] EXCEPT !.left = @ - 1, !.idle = @ + 1])
    <3>1. PICK l \in 0..Timeout, i \in 0..Timeout :
            l = conn[c].left /\ i = conn[c].idle /\ l > 0 /\ l + i = Timeout
      BY <1>r, <2>1 DEF InStep, Connection
    <3>2. l - 1 \in 0..Timeout /\ i + 1 \in 0..Timeout /\ (l - 1) + (i + 1) = Timeout
      BY <3>1
    <3> QED BY <1>r, <3>1, <3>2 DEF InStep, Connection
  <2>2. \A c \in Conns : InStep(conn'[c])
    BY <1>7, <1>r, <2>1 DEF Tick
  <2>3. conn' \in [Conns -> Connection]
    BY <1>7, <2>2 DEF Tick, InStep
  <2> QED BY <1>7, <2>2, <2>3 DEF Tick, IInv, TypeOK, InStep, lifetimeVars
<1>8. ASSUME NEW c \in Conns, NEW k \in Ops, NEW ok \in BOOLEAN, Complete(c, k, ok)
      PROVE  IInv'
  <2> DEFINE r == [conn[c] EXCEPT !.ops = @ \ {k},
                                  !.events = IF k = "read" /\ ok THEN @ + 1 ELSE @]
  <2>1. InStep(r)
    <3>1. (IF k = "read" /\ ok THEN conn[c].events + 1 ELSE conn[c].events) \in 0..MaxEvents
      BY <1>8, <1>r DEF Complete, Connection
    <3> QED BY <1>r, <3>1 DEF InStep, Connection
  <2>2. conn' = [conn EXCEPT ![c] = r]
    BY <1>8 DEF Complete, IInv, TypeOK
  <2> HIDE DEF r
  <2>3. /\ conn' \in [Conns -> Connection]
        /\ \A d \in Conns : conn'[d].left + conn'[d].idle = Timeout
    BY <1>o, <2>1, <2>2
  <2>4. Entry(k, c, ok) \in Entries
    BY DEF Entry, Entries
  <2>5. PICK q \in Seq(Entries) : q = queue[conn[c].io]
    BY <1>r DEF Connection, IInv, TypeOK
  <2>6. Append(q, Entry(k, c, ok)) \in Seq(Entries)
    BY <2>4, QueueOps
  <2>7. queue' \in [WorkerIds -> Seq(Entries)]
    BY <1>8, <2>5, <2>6 DEF Complete, IInv, TypeOK
  <2> QED BY <1>8, <2>3, <2>7 DEF Complete, IInv, TypeOK, lifetimeVars
<1>9. ASSUME NEW w \in WorkerIds, Worker(w) PROVE IInv'
  <2>1. CASE StartAfterFree(w)
    BY <2>1 DEF StartAfterFree, IInv, TypeOK, lifetimeVars
  <2> SUFFICES ASSUME ~StartAfterFree(w) PROVE IInv'
    BY <2>1
  <2>2. queue[w] # << >>
    BY <1>9 DEF Worker, HandleDeadline, HandleHandshake, StartInOwnThread, HandleRead,
                HandleWrite, Runs
  <2>3. PICK e \in Entries : e = Head(queue[w])
    BY <2>2, QueueOps DEF IInv, TypeOK
  <2>4. PICK c \in Conns : c = e.conn
    BY DEF Entries
  <2>5. conn[c] \in Connection /\ InStep(conn[c])
    BY <1>r
  <2>6. << >> \in Seq(Entries)
    OBVIOUS
  <2>7. CASE HandleDeadline(w)
    BY <2>2, <2>3, <2>4, <2>5, <2>6, <2>7, DoneStep, FunctionsInStep, FunctionsAborts
       DEF HandleDeadline
  <2>8. CASE HandleHandshake(w)
    <3>1. <<Entry("start", c, TRUE)>> \in Seq(Entries)
      BY DEF Entry, Entries
    <3> QED
      BY <2>2, <2>3, <2>4, <2>5, <2>8, <3>1, DoneStep, FunctionsInStep, FunctionsAborts
         DEF HandleHandshake
  <2>9. CASE StartInOwnThread(w)
    <3>1. PICK r : r = [conn[c] EXCEPT !.handler = "live"]
      OBVIOUS
    <3>2. InStep(r) /\ r \in Connection
      BY <2>5, <3>1, FunctionsInStep DEF InStep
    <3>3. PICK started \in BOOLEAN :
            /\ conn' = [conn EXCEPT ![c] = IF started THEN DoRead(r) ELSE StopIfRunning(r)]
            /\ queue' = [queue EXCEPT ![w] = Tail(queue[w]) \o
                           (IF started THEN DoReadAborts(c, r) ELSE StopAborts(c, r))]
      BY <2>3, <2>4, <2>9, <3>1 DEF StartInOwnThread
    <3>4. registered' \subseteq Conns /\ UNCHANGED <<lifetimeVars, failed, ended>>
      BY <2>3, <2>4, <2>9 DEF StartInOwnThread, IInv, TypeOK
    <3>5. InStep(DoRead(r)) /\ InStep(StopIfRunning(r))
      BY <3>2, FunctionsInStep
    <3>6. DoReadAborts(c, r) \in Seq(Entries) /\ StopAborts(c, r) \in Seq(Entries)
      BY <3>2, FunctionsAborts
    <3> QED BY <2>2, <3>3, <3>4, <3>5, <3>6, DoneInv
  <2>10. CASE HandleRead(w)
    <3>1. CASE Done(w, c, StopIfRunning(conn[c]), StopAborts(c, conn[c]))
      BY <2>2, <2>5, <3>1, DoneStep, FunctionsInStep, FunctionsAborts
    <3>2. ASSUME NEW outcome \in WriteOutcomes(conn[c]),
                 LET r1 == DoWrite(conn[c], outcome)
                     a1 == DoWriteAborts(c, conn[c], outcome)
                 IN  \/ Done(w, c, DoRead(r1), a1 \o DoReadAborts(c, r1))
                     \/ Done(w, c, StopIfRunning(r1), a1 \o StopAborts(c, r1))
          PROVE  IInv'
      <4>1. PICK r1 : r1 = DoWrite(conn[c], outcome) /\ InStep(r1) /\ r1 \in Connection
        BY <2>5, FunctionsInStep DEF InStep
      <4>2. PICK a1 \in Seq(Entries) : a1 = DoWriteAborts(c, conn[c], outcome)
        BY <2>5, FunctionsAborts
      <4>3. a1 \o DoReadAborts(c, r1) \in Seq(Entries) /\ a1 \o StopAborts(c, r1) \in Seq(Entries)
        BY <4>1, FunctionsAborts, QueueOps
      <4>4. InStep(DoRead(r1)) /\ InStep(StopIfRunning(r1))
        BY <4>1, FunctionsInStep
      <4> QED BY <2>2, <3>2, <4>1, <4>2, <4>3, <4>4, DoneStep
    <3> QED BY <2>3, <2>4, <2>10, <3>1, <3>2 DEF HandleRead
  <2>11. CASE HandleWrite(w)
    <3>1. PICK r : r = [conn[c] EXCEPT !.writing = FALSE]
      OBVIOUS
    <3>2. InStep(r) /\ r \in Connection
      BY <2>5, <3>1, FunctionsInStep DEF InStep
    <3>3. CASE Done(w, c, StopIfRunning(conn[c]), StopAborts(c, conn[c]))
      BY <2>2, <2>5, <3>3, DoneStep, FunctionsInStep, FunctionsAborts
    <3>4. ASSUME NEW outcome \in WriteOutcomes(r),
                 Done(w, c, DoWrite(r, outcome), DoWriteAborts(c, r, outcome))
          PROVE  IInv'
      BY <2>2, <3>2, <3>4, DoneStep, FunctionsInStep, FunctionsAborts
    <3> QED BY <2>3, <2>4, <2>11, <3>1, <3>3, <3>4 DEF HandleWrite
  <2> QED BY <1>9, <2>7, <2>8, <2>9, <2>10, <2>11 DEF Worker
<1>10. ASSUME NEW w \in WorkerIds, RunReturns(w) PROVE IInv'
  BY <1>10 DEF RunReturns, IInv, TypeOK, lifetimeVars
<1>11. ASSUME NEW w \in WorkerIds, NEW c \in Conns, InitiateWrite(w, c) PROVE IInv'
  <2>1. PICK outcome \in WriteOutcomes(conn[c]) :
          /\ conn' = [conn EXCEPT ![c] = DoWrite(conn[c], outcome)]
          /\ queue' = [queue EXCEPT ![w] = queue[w] \o DoWriteAborts(c, conn[c], outcome)]
    BY <1>11 DEF InitiateWrite, IInv, TypeOK
  <2>2. InStep(DoWrite(conn[c], outcome))
    BY <1>r, FunctionsInStep
  <2>3. /\ conn' \in [Conns -> Connection]
        /\ \A d \in Conns : conn'[d].left + conn'[d].idle = Timeout
    BY <1>o, <2>1, <2>2
  <2>4. queue[w] \o DoWriteAborts(c, conn[c], outcome) \in Seq(Entries)
    <3>1. PICK q \in Seq(Entries) : q = queue[w]
      BY DEF IInv, TypeOK
    <3>2. PICK a \in Seq(Entries) : a = DoWriteAborts(c, conn[c], outcome)
      BY <1>r, FunctionsAborts
    <3> QED BY <3>1, <3>2, QueueOps
  <2>5. queue' \in [WorkerIds -> Seq(Entries)]
    BY <2>1, <2>4 DEF IInv, TypeOK
  <2>6. registered' \subseteq Conns
    BY <1>11 DEF InitiateWrite, DestroyedByWorker, IInv, TypeOK
  <2> QED BY <1>11, <2>3, <2>5, <2>6 DEF InitiateWrite, IInv, TypeOK, lifetimeVars
<1>12. CASE UNCHANGED vars
  BY <1>12 DEF vars, lifetimeVars, IInv, TypeOK
<1> QED
  BY <1>1, <1>2, <1>3, <1>4, <1>5, <1>6, <1>7, <1>8, <1>9, <1>10, <1>11, <1>12
     DEF Next, Listener

-----------------------------------------------------------------------------
(* The theorems                                                            *)

LEMMA LifetimeInvariant == Spec => []IInv
BY InvInit, InvStep, PTL DEF Spec

\* Every variable keeps its type, for any number of connections and workers.
THEOREM TypeCorrect == Spec => []TypeOK
<1>1. IInv => TypeOK
  BY DEF IInv
<1> QED BY <1>1, LifetimeInvariant, PTL

\* What handle_deadline does when w runs it, whether or not the deadline was
\* pushed back since the wait completed.
LEMMA HandleDeadlineStops ==
    ASSUME IInv, NEW w \in WorkerIds, HandleDeadline(w), NEW c \in Conns,
           conn'[c].stopped, ~conn[c].stopped
    PROVE  conn[c].idle = Timeout
<1>1. PICK e \in Entries : e = Head(queue[w])
  BY QueueOps DEF HandleDeadline, Runs, IInv, TypeOK
<1>2. PICK d \in Conns : d = e.conn
  BY DEF Entries
<1>3. conn \in [Conns -> Connection]
  BY DEF IInv, TypeOK
<1>4. \A r, more : Done(w, d, r, more) => conn' = [conn EXCEPT ![d] = r]
  BY DEF Done
<1>5. c = d
  BY <1>1, <1>2, <1>3, <1>4 DEF HandleDeadline
<1>6. conn[c].left = 0
  <2>1. ASSUME conn[c].left # 0 PROVE FALSE
    <3>1. conn' = [conn EXCEPT ![c] = [conn[c] EXCEPT !.ops = @ \cup {"wait"}]]
      BY <1>1, <1>2, <1>4, <1>5, <2>1 DEF HandleDeadline
    <3>2. conn'[c].stopped = conn[c].stopped
      BY <1>3, <3>1 DEF Connection
    <3> QED BY <3>2
  <2> QED BY <2>1
<1>7. conn[c].left + conn[c].idle = Timeout /\ conn[c].idle \in 0..Timeout
  BY <1>3 DEF IInv, Connection
<1> QED BY <1>6, <1>7, LifetimeAssumption

\* handle_deadline stops no connection that was not idle for the whole
\* timeout: a completed wait that a read or a write overtook stops nobody.
THEOREM ExpiryIsHonest == Spec => OnlyIdleExpire
<1> DEFINE A == \A w \in WorkerIds : HandleDeadline(w) =>
                    \A c \in Conns : conn'[c].stopped /\ ~conn[c].stopped =>
                        conn[c].idle = Timeout
<1>1. IInv => A
  BY HandleDeadlineStops
<1>2. IInv /\ [Next]_vars => [A]_vars
  BY <1>1
<1> HIDE DEF A
<1>3. Spec => [][A]_vars
  BY <1>2, LifetimeInvariant, PTL DEF Spec
<1> QED BY <1>3 DEF A, OnlyIdleExpire

-----------------------------------------------------------------------------
(* The deadline is never lost                                              *)

\* handle_deadline is ready to run for c.
WaitReady(c) == \E e \in Range(queue[conn[c].io]) : e.kind = "wait" /\ e.conn = c

\* Every open connection has its wait, outstanding or with its handler ready.
DeadlineArmed ==
    \A c \in Conns : Accepted(c) /\ ~conn[c].stopped => "wait" \in conn[c].ops \/ WaitReady(c)

\* Every open connection is owned by somebody.
OpenIsOwned == \A c \in Conns : Accepted(c) /\ ~conn[c].stopped => Owned(c)

\* Handlers are ready for accepted connections only, in the io_service of each.
Placed == \A w \in WorkerIds : \A e \in Range(queue[w]) : Accepted(e.conn) /\ conn[e.conn].io = w

\* Nothing is begun on a connection before it is accepted.
Begun == \A c \in Conns : conn[c].ops # {} \/ conn[c].handler = "live" => Accepted(c)

Armed == (lpc # "idle" => ~accepting) /\ Placed /\ Begun /\ DeadlineArmed

\* A function of the connection that makes r of r0 and `more` handlers ready gives
\* up a wait only for its handler.
Keeps(c, r0, r, more) ==
    /\ more \in Seq(Entries) /\ r.io = r0.io
    /\ \A e \in Range(more) : e.conn = c
    /\ ~r.stopped => /\ ~r0.stopped
                     /\ "wait" \in r0.ops =>
                          "wait" \in r.ops \/ \E e \in Range(more) : e.kind = "wait"

\* Cancelled operations are ready for their own connection, a cancelled wait too.
LEMMA AbortedFacts ==
    ASSUME NEW c \in Conns, NEW S \in SUBSET Ops
    PROVE  /\ \A e \in Range(Aborted(c, S)) : e.conn = c
           /\ S = {"wait"} => \E e \in Range(Aborted(c, S)) : e.kind = "wait"
<1> DEFINE T == {Entry(k, c, FALSE) : k \in S}
           q == Aborted(c, S)
<1>1. PICK n \in Nat : n = Cardinality(T) /\ q \in [1..n -> T]
  BY AbortedSeq DEF Aborted
<1>2. \A e \in T : e.conn = c
  BY DEF Entry
<1>3. \A e \in Range(q) : e \in T
  BY <1>1 DEF Range
<1>4. ASSUME S = {"wait"} PROVE \E e \in Range(q) : e.kind = "wait"
  <2>1. T = {Entry("wait", c, FALSE)}
    BY <1>4
  <2> HIDE DEF T, q
  <2>2. n = 1
    BY <1>1, <2>1, FS_Singleton
  <2>3. q[1] = Entry("wait", c, FALSE) /\ q[1] \in Range(q)
    <3>1. 1 \in 1..n /\ DOMAIN q = 1..n /\ q[1] \in T
      BY <1>1, <2>2
    <3> QED BY <2>1, <3>1 DEF Range
  <2> QED BY <2>3 DEF Entry
<1> QED BY <1>2, <1>3, <1>4

LEMMA KeepsNothing ==
    ASSUME NEW c \in Conns, NEW r, NEW s, s.io = r.io, s.stopped = r.stopped,
           "wait" \in r.ops => "wait" \in s.ops
    PROVE  Keeps(c, r, s, << >>)
<1>1. << >> \in Seq(Entries)
  OBVIOUS
<1> QED BY <1>1, RangeEmpty DEF Keeps

LEMMA KeepsTwice ==
    ASSUME NEW c, NEW r0, NEW r1, NEW r2, NEW a, NEW b, Keeps(c, r0, r1, a), Keeps(c, r1, r2, b)
    PROVE  Keeps(c, r0, r2, a \o b)
<1>1. a \in Seq(Entries) /\ b \in Seq(Entries)
  BY DEF Keeps
<1>2. a \o b \in Seq(Entries) /\ Range(a \o b) = Range(a) \cup Range(b)
  BY <1>1, QueueOps, RangeConcat
<1> QED BY <1>2 DEF Keeps

LEMMA FunctionsKeep ==
    ASSUME NEW c \in Conns, NEW r \in Connection
    PROVE  /\ Keeps(c, r, r, << >>)
           /\ Keeps(c, r, StopIfRunning(r), StopAborts(c, r))
           /\ Keeps(c, r, DoRead(r), DoReadAborts(c, r))
           /\ \A outcome : Keeps(c, r, DoWrite(r, outcome), DoWriteAborts(c, r, outcome))
<1>1. Keeps(c, r, r, << >>)
  BY KeepsNothing
<1>2. r.ops \in SUBSET Ops /\ r.ops \cap {"wait"} \in SUBSET Ops
  BY DEF Connection
<1>3. Stop(r).io = r.io /\ Stop(r).stopped
  BY DEF Stop, Connection
<1>4. Keeps(c, r, Stop(r), Aborted(c, r.ops))
  BY <1>2, <1>3, AbortedFacts, AbortedType DEF Keeps
<1>5. Keeps(c, r, PushBack(r), PushBackAborts(c, r))
  <2>1. PushBack(r).io = r.io /\ PushBack(r).stopped = r.stopped
    BY DEF PushBack, Connection
  <2>2. PushBackAborts(c, r) \in Seq(Entries) /\ \A e \in Range(PushBackAborts(c, r)) : e.conn = c
    BY <1>2, AbortedFacts, AbortedType DEF PushBackAborts
  <2>3. "wait" \in r.ops => \E e \in Range(PushBackAborts(c, r)) : e.kind = "wait"
    <3> SUFFICES ASSUME "wait" \in r.ops
                 PROVE  \E e \in Range(PushBackAborts(c, r)) : e.kind = "wait"
      OBVIOUS
    <3>1. r.ops \cap {"wait"} = {"wait"}
      OBVIOUS
    <3> QED BY <1>2, <3>1, AbortedFacts DEF PushBackAborts
  <2> QED BY <2>1, <2>2, <2>3 DEF Keeps
<1>6. PushBack(r) \in [io : WorkerIds, stopped : BOOLEAN, left : {Timeout}, idle : {0},
                       ops : SUBSET Ops, writing : BOOLEAN,
                       handler : {"none", "live", "cut"}, events : 0..MaxEvents]
  BY DEF PushBack, Connection
<1>7. Keeps(c, r, DoRead(r), DoReadAborts(c, r))
  <2>1. CASE r.stopped
    BY <1>1, <2>1 DEF DoRead, DoReadAborts
  <2>2. CASE ~r.stopped
    <3> DEFINE s == [PushBack(r) EXCEPT !.ops = @ \cup {"read"}]
    <3>1. /\ s.io = PushBack(r).io /\ s.stopped = PushBack(r).stopped
          /\ "wait" \in PushBack(r).ops => "wait" \in s.ops
      BY <1>6
    <3>2. DoRead(r) = s /\ DoReadAborts(c, r) = PushBackAborts(c, r)
      BY <2>2 DEF DoRead, DoReadAborts
    <3> HIDE DEF s
    <3> QED BY <1>5, <3>1, <3>2 DEF Keeps
  <2> QED BY <2>1, <2>2
<1>8. ASSUME NEW outcome PROVE Keeps(c, r, DoWrite(r, outcome), DoWriteAborts(c, r, outcome))
  <2>1. CASE r.stopped \/ r.writing \/ outcome = "nothing"
    BY <1>1, <2>1 DEF DoWrite, DoWriteAborts
  <2>2. CASE ~(r.stopped \/ r.writing \/ outcome = "nothing") /\ outcome = "stop"
    BY <1>4, <2>2 DEF DoWrite, DoWriteAborts, StopAborts
  <2>3. CASE ~(r.stopped \/ r.writing \/ outcome = "nothing") /\ outcome # "stop"
    <3> DEFINE s == [PushBack(r) EXCEPT !.ops = @ \cup {"write"}, !.writing = TRUE,
                                        !.events = @ + 1]
    <3>1. /\ s.io = PushBack(r).io /\ s.stopped = PushBack(r).stopped
          /\ "wait" \in PushBack(r).ops => "wait" \in s.ops
      BY <1>6
    <3>2. DoWrite(r, outcome) = s /\ DoWriteAborts(c, r, outcome) = PushBackAborts(c, r)
      BY <2>3 DEF DoWrite, DoWriteAborts
    <3> HIDE DEF s
    <3> QED BY <1>5, <3>1, <3>2 DEF Keeps
  <2> QED BY <2>1, <2>2, <2>3
<1>9. Keeps(c, r, StopIfRunning(r), StopAborts(c, r))
  BY <1>1, <1>4 DEF StopIfRunning, StopAborts
<1> QED BY <1>1, <1>7, <1>8, <1>9

LEMMA ArmedInit == Init => Armed
<1> SUFFICES ASSUME Init PROVE Armed
  OBVIOUS
<1>1. Placed
  BY RangeEmpty DEF Init, Placed
<1>2. /\ \A c \in Conns : conn[c].ops = {} /\ conn[c].handler = "none"
      /\ \A c \in Conns : ~Accepted(c)
  BY DEF Init, NewConnection, Accepted, Conns
<1> QED BY <1>1, <1>2 DEF Armed, Begun, DeadlineArmed, Init

\* One connection c becomes r; of w's handlers the ones in q are left and `more`
\* are added; a wait that is gone has been dealt with.
LEMMA ArmedStep ==
    ASSUME IInv, Armed, NEW w \in WorkerIds, NEW c \in Conns, Accepted(c), conn[c].io = w,
           NEW r, NEW q \in Seq(Entries), NEW more, Keeps(c, conn[c], r, more),
           conn' = [conn EXCEPT ![c] = r], queue' = [queue EXCEPT ![w] = q \o more],
           Range(q) \subseteq Range(queue[w]),
           \A e \in Range(queue[w]) : e.kind = "wait" /\ e \notin Range(q) =>
               e.conn = c /\ (r.stopped \/ "wait" \in r.ops),
           UNCHANGED lifetimeVars
    PROVE  Armed'
<1>1. /\ conn \in [Conns -> Connection] /\ queue \in [WorkerIds -> Seq(Entries)]
      /\ \A d : Accepted(d)' <=> Accepted(d)
  BY DEF IInv, TypeOK, lifetimeVars, Accepted
<1>2. /\ \A d \in Conns : conn'[d].io = conn[d].io
      /\ \A d \in Conns : d # c => conn'[d] = conn[d]
      /\ conn'[c] = r
  BY <1>1 DEF Keeps
<1>3. /\ Range(queue'[w]) = Range(q) \cup Range(more)
      /\ \A v \in WorkerIds : v # w => queue'[v] = queue[v]
  <2>1. queue'[w] = q \o more /\ \A v \in WorkerIds : v # w => queue'[v] = queue[v]
    BY <1>1
  <2>2. more \in Seq(Entries)
    BY DEF Keeps
  <2>3. Range(q \o more) = Range(q) \cup Range(more)
    BY <2>2, RangeConcat
  <2> QED BY <2>1, <2>3
<1>4. Placed'
  <2> SUFFICES ASSUME NEW v \in WorkerIds, NEW e \in Range(queue'[v])
               PROVE  Accepted(e.conn)' /\ conn'[e.conn].io = v
    BY DEF Placed
  <2>1. CASE e \in Range(queue[v])
    <3>1. PICK p \in Seq(Entries) : p = queue[v]
      BY <1>1
    <3>2. e \in Entries
      BY <2>1, <3>1 DEF Range
    <3>3. e.conn \in Conns
      BY <3>2 DEF Entries
    <3> QED BY <1>1, <1>2, <2>1, <3>3 DEF Armed, Placed
  <2>2. CASE e \notin Range(queue[v])
    <3>1. v = w /\ e \in Range(more)
      BY <1>3, <2>2
    <3> QED BY <1>1, <1>2, <3>1 DEF Keeps
  <2> QED BY <2>1, <2>2
<1>5. Begun'
  BY <1>1, <1>2 DEF Armed, Begun
<1>6. ASSUME NEW d \in Conns, Accepted(d)', ~conn'[d].stopped
      PROVE  "wait" \in conn'[d].ops \/ WaitReady(d)'
  <2>1. ~conn[d].stopped /\ Accepted(d) /\ conn[d].io \in WorkerIds
    BY <1>1, <1>2, <1>6 DEF Keeps, Connection
  <2>2. "wait" \in conn[d].ops \/ WaitReady(d)
    BY <2>1 DEF Armed, DeadlineArmed
  <2>3. CASE "wait" \in conn[d].ops /\ d # c
    BY <1>2, <2>3
  <2>4. CASE "wait" \in conn[d].ops /\ d = c
    <3>1. "wait" \in r.ops \/ \E e \in Range(more) : e.kind = "wait" /\ e.conn = c
      BY <1>2, <1>6, <2>4 DEF Keeps
    <3> QED BY <1>2, <1>3, <2>4, <3>1 DEF WaitReady
  <2>5. CASE WaitReady(d)
    <3>1. PICK e \in Range(queue[conn[d].io]) : e.kind = "wait" /\ e.conn = d
      BY <2>5 DEF WaitReady
    <3>2. CASE e \in Range(queue'[conn[d].io])
      BY <1>2, <3>1, <3>2 DEF WaitReady
    <3>3. CASE e \notin Range(queue'[conn[d].io])
      <4>1. conn[d].io = w /\ e \notin Range(q)
        BY <1>3, <2>1, <3>1, <3>3
      <4> QED BY <1>2, <1>6, <3>1, <4>1
    <3> QED BY <3>2, <3>3
  <2> QED BY <2>2, <2>3, <2>4, <2>5
<1>7. lpc' # "idle" => ~accepting'
  BY DEF lifetimeVars, Armed
<1> QED BY <1>4, <1>5, <1>6, <1>7 DEF Armed, DeadlineArmed

\* The handler at the head of w's queue has run.
LEMMA ArmedHandler ==
    ASSUME IInv, Armed, NEW w \in WorkerIds, queue[w] # << >>, NEW r, NEW more,
           Keeps(Head(queue[w]).conn, conn[Head(queue[w]).conn], r, more),
           conn' = [conn EXCEPT ![Head(queue[w]).conn] = r],
           queue' = [queue EXCEPT ![w] = Tail(queue[w]) \o more],
           Head(queue[w]).kind = "wait" => r.stopped \/ "wait" \in r.ops,
           UNCHANGED lifetimeVars
    PROVE  Armed'
<1>1. PICK p \in Seq(Entries) : p = queue[w] /\ p # << >>
  BY DEF IInv, TypeOK
<1>2. /\ Tail(p) \in Seq(Entries) /\ Head(p) \in Entries
      /\ Head(p) \in Range(p) /\ Range(p) = {Head(p)} \cup Range(Tail(p))
  BY <1>1, QueueOps, RangeHeadTail
<1>3. Head(p).conn \in Conns /\ Accepted(Head(p).conn) /\ conn[Head(p).conn].io = w
  BY <1>1, <1>2 DEF Entries, Armed, Placed
<1>4. \A e \in Range(queue[w]) : e.kind = "wait" /\ e \notin Range(Tail(p)) =>
        e.conn = Head(p).conn /\ (r.stopped \/ "wait" \in r.ops)
  BY <1>1, <1>2
<1> QED BY <1>1, <1>2, <1>3, <1>4, ArmedStep

LEMMA ArmedNext == IInv /\ Armed /\ [Next]_vars => Armed'
<1> SUFFICES ASSUME IInv, Armed, [Next]_vars PROVE Armed'
  OBVIOUS
<1> USE LifetimeAssumption
<1>c. conn \in [Conns -> Connection] /\ queue \in [WorkerIds -> Seq(Entries)] /\ made \in 0..MaxConns
  BY DEF IInv, TypeOK
<1>p. \A w \in WorkerIds : \A e \in Range(queue[w]) : e.conn \in Conns
  <2> SUFFICES ASSUME NEW w \in WorkerIds, NEW e \in Range(queue[w]) PROVE e.conn \in Conns
    OBVIOUS
  <2>1. PICK p \in Seq(Entries) : p = queue[w]
    BY <1>c
  <2>2. e \in Entries
    BY <2>1 DEF Range
  <2> QED BY <2>2 DEF Entries
\* What changes nothing but the connection that is not accepted yet.
<1>u. ASSUME queue' = queue, NEW d \in Conns, NEW r, r.ops = {}, r.handler = "none",
             conn' = [conn EXCEPT ![d] = r], ~Accepted(d),
             \A c \in Conns : Accepted(c)' <=> Accepted(c), lpc' # "idle" => ~accepting'
      PROVE  Armed'
  <2>1. \A c \in Conns : c # d => conn'[c] = conn[c]
    BY <1>c, <1>u
  <2>2. conn'[d] = r
    BY <1>c, <1>u
  <2>3. Placed'
    BY <1>p, <1>u, <2>1 DEF Armed, Placed
  <2>4. Begun'
    BY <1>u, <2>1, <2>2 DEF Armed, Begun
  <2>5. DeadlineArmed'
    BY <1>u, <2>1 DEF Armed, DeadlineArmed, WaitReady
  <2> QED BY <1>u, <2>3, <2>4, <2>5 DEF Armed
\* What changes no connection and no queue.
<1>s. ASSUME queue' = queue, conn' = conn, \A c \in Conns : Accepted(c)' <=> Accepted(c),
             lpc' # "idle" => ~accepting'
      PROVE  Armed'
  <2>1. Placed'
    BY <1>p, <1>s DEF Armed, Placed
  <2> QED BY <1>s, <2>1 DEF Armed, Begun, DeadlineArmed, WaitReady
<1>1. CASE Accept
  <2> DEFINE r == [conn[made] EXCEPT !.ops = {"wait"}, !.left = Timeout, !.idle = 0]
  <2>1. made \in Conns /\ accepting
    BY <1>1 DEF Accept, IInv
  <2>2. conn' = [conn EXCEPT ![made] = r]
    BY <1>1, <1>c, <2>1 DEF Accept
  <2>3. r.ops = {"wait"} /\ r.io = conn[made].io
    BY <1>c, <2>1 DEF Connection
  <2> HIDE DEF r
  <2>4. /\ \A c \in Conns : c # made => conn'[c] = conn[c]
        /\ conn'[made].ops = {"wait"} /\ conn'[made].io = conn[made].io
    BY <1>c, <2>1, <2>2, <2>3
  <2>5. \A c \in Conns : Accepted(c)' <=> Accepted(c) \/ c = made
    BY <1>1, <2>1 DEF Accept, Accepted
  <2>6. queue' = queue /\ ~accepting'
    BY <1>1 DEF Accept
  <2>7. Placed'
    <3> SUFFICES ASSUME NEW w \in WorkerIds, NEW e \in Range(queue[w])
                 PROVE  Accepted(e.conn)' /\ conn'[e.conn].io = w
      BY <2>6 DEF Placed
    <3>1. e.conn \in Conns /\ Accepted(e.conn) /\ conn[e.conn].io = w
      BY <1>p DEF Armed, Placed
    <3> QED BY <2>4, <2>5, <3>1
  <2>8. Begun'
    <3> SUFFICES ASSUME NEW c \in Conns, conn'[c].ops # {} \/ conn'[c].handler = "live"
                 PROVE  Accepted(c)'
      BY DEF Begun
    <3> QED BY <2>4, <2>5 DEF Armed, Begun
  <2>9. DeadlineArmed'
    BY <2>4, <2>5, <2>6 DEF Armed, DeadlineArmed, WaitReady
  <2> QED BY <2>6, <2>7, <2>8, <2>9 DEF Armed
<1>2. CASE Begin
  <2> DEFINE e == Entry(IF tls THEN "handshake" ELSE "start", made, ~tls)
             r == [conn[made] EXCEPT !.ops = @ \cup {"handshake"}]
  <2>1. made \in Conns /\ ~accepting /\ Accepted(made) /\ conn[made].io \in WorkerIds
    BY <1>2, <1>c DEF Begin, IInv, Armed, Accepted, Connection
  <2>2. UNCHANGED lifetimeVars \/ (lpc' = "begun" /\ UNCHANGED <<accepting, made>>)
    BY <1>2 DEF Begin
  <2>3. (\A c : Accepted(c)' <=> Accepted(c)) /\ (lpc' # "idle" => ~accepting')
    BY <1>2, <2>1 DEF Begin, Accepted
  <2>4. CASE conn' = [conn EXCEPT ![made] = r] /\ queue' = queue
    <3>1. r.io = conn[made].io /\ r.stopped = conn[made].stopped
          /\ ("wait" \in conn[made].ops => "wait" \in r.ops)
      BY <1>c, <2>1 DEF Connection
    <3> HIDE DEF r
    <3>2. /\ \A c \in Conns : c # made => conn'[c] = conn[c]
          /\ conn'[made] = r
      BY <1>c, <2>1, <2>4
    <3>3. Placed'
      BY <1>p, <2>3, <2>4, <3>1, <3>2 DEF Armed, Placed
    <3>4. Begun'
      BY <2>1, <2>3, <3>2 DEF Armed, Begun
    <3>5. DeadlineArmed'
      BY <2>3, <2>4, <3>1, <3>2 DEF Armed, DeadlineArmed, WaitReady
    <3> QED BY <2>3, <3>3, <3>4, <3>5 DEF Armed
  <2>5. CASE conn' = conn /\ queue' = [queue EXCEPT ![conn[made].io] = Append(@, e)]
    <3>1. e \in Entries /\ e.conn = made
      BY <1>2, <2>1 DEF Entry, Entries, Ops, IInv, TypeOK
    <3> HIDE DEF e
    <3>2. PICK q \in Seq(Entries) : q = queue[conn[made].io]
      BY <1>c, <2>1
    <3>3. Range(Append(q, e)) = Range(q) \cup {e}
      BY <3>1, RangeAppend
    <3>4. \A w \in WorkerIds : /\ Range(queue[w]) \subseteq Range(queue'[w])
                               /\ w # conn[made].io => queue'[w] = queue[w]
                               /\ w = conn[made].io => Range(queue'[w]) = Range(queue[w]) \cup {e}
      BY <1>c, <2>5, <3>2, <3>3
    <3>5. Placed'
      <4> SUFFICES ASSUME NEW w \in WorkerIds, NEW x \in Range(queue'[w])
                   PROVE  Accepted(x.conn)' /\ conn'[x.conn].io = w
        BY DEF Placed
      <4>1. CASE x \in Range(queue[w])
        BY <2>3, <2>5, <4>1 DEF Armed, Placed
      <4>2. CASE x \notin Range(queue[w])
        BY <2>1, <2>3, <2>5, <3>1, <3>4, <4>2
      <4> QED BY <4>1, <4>2
    <3>6. DeadlineArmed'
      BY <1>c, <2>3, <2>5, <3>4 DEF Armed, DeadlineArmed, WaitReady, Connection
    <3> QED BY <2>3, <2>5, <3>5, <3>6 DEF Armed, Begun
  <2> QED BY <1>2, <2>1, <2>4, <2>5 DEF Begin, IInv, TypeOK
<1>3. CASE Return
  <2>1. made \in Conns /\ ~accepting /\ lpc' = "idle" /\ queue' = queue
    BY <1>3 DEF Return, IInv, Armed
  <2>2. CASE serving /\ made < MaxConns
    <3>1. made + 1 \in Conns
      BY <2>1, <2>2 DEF Conns
    <3>2. /\ conn' = [conn EXCEPT ![made + 1] = NewConnection(nextIo)]
          /\ made' = made + 1 /\ accepting' = TRUE
      BY <1>3, <2>2 DEF Return, StartAccept
    <3>3. /\ ~Accepted(made + 1)
          /\ \A c \in Conns : Accepted(c)' <=> Accepted(c)
      BY <1>c, <2>1, <3>2 DEF Accepted, Conns
    <3>4. NewConnection(nextIo).ops = {} /\ NewConnection(nextIo).handler = "none"
      BY DEF NewConnection
    <3> QED BY <1>u, <2>1, <3>1, <3>2, <3>3, <3>4
  <2>3. CASE ~(serving /\ made < MaxConns)
    <3>1. accepting' = FALSE /\ made' = made /\ conn' = conn
      BY <1>3, <2>3 DEF Return, StartAccept
    <3>2. \A c \in Conns : Accepted(c)' <=> Accepted(c)
      BY <2>1, <3>1 DEF Accepted
    <3> QED BY <1>s, <2>1, <3>1, <3>2
  <2> QED BY <2>2, <2>3
<1>4. CASE AcceptError
  <2>1. made \in Conns /\ accepting /\ queue' = queue /\ lpc' = lpc /\ accepting' = accepting
    BY <1>4 DEF AcceptError, IInv
  <2>2. conn' = [conn EXCEPT ![made] = NewConnection(nextIo)]
    BY <1>4 DEF AcceptError
  <2>3. ~Accepted(made) /\ \A c \in Conns : Accepted(c)' <=> Accepted(c)
    BY <1>4, <1>c, <2>1 DEF AcceptError, Accepted
  <2>4. NewConnection(nextIo).ops = {} /\ NewConnection(nextIo).handler = "none"
    BY DEF NewConnection
  <2> QED BY <1>u, <2>1, <2>2, <2>3, <2>4 DEF Armed
<1>5. CASE AcceptNoDescriptors \/ AcceptAborted
  <2>1. /\ made \in Conns /\ accepting /\ ~accepting' /\ made' = made - 1
        /\ queue' = queue /\ conn' = conn
    BY <1>5 DEF AcceptNoDescriptors, AcceptAborted, IInv
  <2>2. \A c \in Conns : Accepted(c)' <=> Accepted(c)
    BY <1>c, <2>1 DEF Accepted, Conns
  <2> QED BY <1>s, <2>1, <2>2
<1>6. CASE StopServer
  <2>1. queue' = queue /\ conn' = conn /\ lpc' = lpc /\ accepting' = accepting /\ made' = made
    BY <1>6 DEF StopServer
  <2> QED BY <1>s, <2>1 DEF Armed, Accepted
<1>7. CASE Tick
  <2>1. \A c \in Conns : /\ conn'[c].io = conn[c].io /\ conn'[c].stopped = conn[c].stopped
                         /\ conn'[c].ops = conn[c].ops /\ conn'[c].handler = conn[c].handler
    BY <1>7, <1>c DEF Tick, Connection
  <2>2. queue' = queue /\ lpc' = lpc /\ accepting' = accepting /\ made' = made
    BY <1>7 DEF Tick, lifetimeVars
  <2>3. \A c : Accepted(c)' <=> Accepted(c)
    BY <2>2 DEF Accepted
  <2>4. Placed'
    BY <1>p, <2>1, <2>2, <2>3 DEF Armed, Placed
  <2> QED BY <2>1, <2>2, <2>3, <2>4 DEF Armed, Begun, DeadlineArmed, WaitReady
<1>8. ASSUME NEW c \in Conns, NEW k \in Ops, NEW ok \in BOOLEAN, Complete(c, k, ok)
      PROVE  Armed'
  <2> DEFINE r == [conn[c] EXCEPT !.ops = @ \ {k},
                                  !.events = IF k = "read" /\ ok THEN @ + 1 ELSE @]
             e == Entry(k, c, ok)
  <2>1. Accepted(c) /\ conn[c].io \in WorkerIds
    BY <1>8, <1>c DEF Complete, Armed, Begun, Connection
  <2>2. conn' = [conn EXCEPT ![c] = r]
    BY <1>8, <1>c DEF Complete
  <2>3. r.io = conn[c].io /\ r.stopped = conn[c].stopped /\ r.ops = conn[c].ops \ {k}
    BY <1>c DEF Connection
  <2>4. e \in Entries /\ e.conn = c /\ e.kind = k
    BY DEF Entry, Entries
  <2> HIDE DEF r, e
  <2>5. PICK q \in Seq(Entries) : q = queue[conn[c].io]
    BY <1>c, <2>1
  <2>6. queue' = [queue EXCEPT ![conn[c].io] = q \o <<e>>]
    <3>1. queue' = [queue EXCEPT ![conn[c].io] = Append(q, e)]
      BY <1>8, <2>5 DEF Complete, e
    <3>2. Append(q, e) = q \o <<e>>
      OBVIOUS
    <3> QED BY <3>1, <3>2
  <2>7. <<e>> \in Seq(Entries) /\ Range(<<e>>) = {e}
    BY <2>4 DEF Range
  <2>8. Keeps(c, conn[c], r, <<e>>)
    BY <2>3, <2>4, <2>7 DEF Keeps
  <2>9. UNCHANGED lifetimeVars
    BY <1>8 DEF Complete
  <2> QED BY <2>1, <2>2, <2>5, <2>6, <2>8, <2>9, ArmedStep
<1>9. ASSUME NEW w \in WorkerIds, Worker(w) PROVE Armed'
  <2>1. CASE StartAfterFree(w)
    <3>1. queue' = queue /\ conn' = conn /\ lpc' = lpc /\ accepting' = accepting /\ made' = made
      BY <2>1 DEF StartAfterFree, lifetimeVars
    <3> QED BY <1>s, <3>1 DEF Armed, Accepted
  <2> SUFFICES ASSUME ~StartAfterFree(w) PROVE Armed'
    BY <2>1
  <2>2. queue[w] # << >>
    BY <1>9 DEF Worker, HandleDeadline, HandleHandshake, StartInOwnThread, HandleRead,
                HandleWrite, Runs
  <2>3. PICK e \in Entries : e = Head(queue[w])
    BY <2>2, QueueOps DEF IInv, TypeOK
  <2>4. PICK c \in Conns : c = e.conn
    BY DEF Entries
  <2>5. conn[c] \in Connection /\ InStep(conn[c])
    BY <1>c DEF IInv, InStep
  \* A handler that is not the deadline's, or leaves no wait to be missed.
  <2>d. ASSUME NEW r, NEW more, Keeps(c, conn[c], r, more), Done(w, c, r, more),
               e.kind = "wait" => r.stopped \/ "wait" \in r.ops
        PROVE  Armed'
    BY <2>2, <2>3, <2>4, <2>d, ArmedHandler DEF Done
  <2>7. CASE HandleDeadline(w)
    <3> DEFINE r == [conn[c] EXCEPT !.ops = @ \cup {"wait"}]
    <3>1. CASE conn[c].stopped
      <4>1. Done(w, c, conn[c], << >>)
        BY <2>3, <2>4, <2>7, <3>1 DEF HandleDeadline
      <4> QED BY <2>5, <2>d, <3>1, <4>1, FunctionsKeep
    <3>2. CASE ~conn[c].stopped /\ conn[c].left = 0
      <4>1. Done(w, c, Stop(conn[c]), StopAborts(c, conn[c]))
        BY <2>3, <2>4, <2>7, <3>2 DEF HandleDeadline
      <4>2. Stop(conn[c]) = StopIfRunning(conn[c]) /\ Stop(conn[c]).stopped
        BY <2>5, <3>2 DEF StopIfRunning, Stop, Connection
      <4> QED BY <2>5, <2>d, <4>1, <4>2, FunctionsKeep
    <3>3. CASE ~conn[c].stopped /\ conn[c].left # 0
      <4>1. Done(w, c, r, << >>)
        BY <2>3, <2>4, <2>7, <3>3 DEF HandleDeadline
      <4>2. r.io = conn[c].io /\ r.stopped = conn[c].stopped /\ "wait" \in r.ops
        BY <2>5 DEF Connection
      <4> HIDE DEF r
      <4>3. Keeps(c, conn[c], r, << >>)
        BY <4>2, KeepsNothing
      <4> QED BY <2>d, <4>1, <4>2, <4>3
    <3> QED BY <3>1, <3>2, <3>3
  <2>8. CASE HandleHandshake(w)
    <3>1. e.kind # "wait"
      BY <2>3, <2>8 DEF HandleHandshake, Runs
    <3>2. CASE e.ok
      <4> DEFINE more == <<Entry("start", c, TRUE)>>
      <4>1. more \in Seq(Entries) /\ \A x \in Range(more) : x.conn = c
        BY DEF Entry, Entries, Range
      <4>2. Done(w, c, conn[c], more)
        BY <2>3, <2>4, <2>8, <3>2 DEF HandleHandshake
      <4> HIDE DEF more
      <4>3. Keeps(c, conn[c], conn[c], more)
        BY <4>1 DEF Keeps
      <4> QED BY <2>d, <3>1, <4>2, <4>3
    <3>3. CASE ~e.ok
      <4>1. Done(w, c, StopIfRunning(conn[c]), StopAborts(c, conn[c]))
        BY <2>3, <2>4, <2>8, <3>3 DEF HandleHandshake
      <4> QED BY <2>5, <2>d, <3>1, <4>1, FunctionsKeep
    <3> QED BY <3>2, <3>3
  <2>9. CASE StartInOwnThread(w)
    <3>0. e.kind # "wait"
      BY <2>3, <2>9 DEF StartInOwnThread, Runs
    <3>1. PICK r : r = [conn[c] EXCEPT !.handler = "live"]
      OBVIOUS
    <3>2. r \in Connection
      BY <2>5, <3>1, FunctionsInStep DEF InStep
    <3>3. r.io = conn[c].io /\ r.stopped = conn[c].stopped /\ r.ops = conn[c].ops
      BY <2>5, <3>1 DEF Connection
    <3>4. PICK started \in BOOLEAN :
            /\ conn' = [conn EXCEPT ![c] = IF started THEN DoRead(r) ELSE StopIfRunning(r)]
            /\ queue' = [queue EXCEPT ![w] = Tail(queue[w]) \o
                           (IF started THEN DoReadAborts(c, r) ELSE StopAborts(c, r))]
            /\ UNCHANGED lifetimeVars
      BY <2>3, <2>4, <2>9, <3>1 DEF StartInOwnThread
    <3>5. /\ Keeps(c, conn[c], DoRead(r), DoReadAborts(c, r))
          /\ Keeps(c, conn[c], StopIfRunning(r), StopAborts(c, r))
      BY <3>2, <3>3, FunctionsKeep DEF Keeps
    <3>6. CASE started
      BY <2>2, <2>3, <2>4, <3>0, <3>4, <3>5, <3>6, ArmedHandler
    <3>7. CASE ~started
      BY <2>2, <2>3, <2>4, <3>0, <3>4, <3>5, <3>7, ArmedHandler
    <3> QED BY <3>6, <3>7
  <2>10. CASE HandleRead(w)
    <3>0. e.kind # "wait"
      BY <2>3, <2>10 DEF HandleRead, Runs
    <3>1. CASE Done(w, c, StopIfRunning(conn[c]), StopAborts(c, conn[c]))
      BY <2>5, <2>d, <3>0, <3>1, FunctionsKeep
    <3>2. ASSUME NEW outcome \in WriteOutcomes(conn[c]),
                 LET r1 == DoWrite(conn[c], outcome)
                     a1 == DoWriteAborts(c, conn[c], outcome)
                 IN  \/ Done(w, c, DoRead(r1), a1 \o DoReadAborts(c, r1))
                     \/ Done(w, c, StopIfRunning(r1), a1 \o StopAborts(c, r1))
          PROVE  Armed'
      <4>1. PICK r1 \in Connection : r1 = DoWrite(conn[c], outcome)
        BY <2>5, FunctionsInStep DEF InStep
      <4>2. PICK a1 : a1 = DoWriteAborts(c, conn[c], outcome)
        OBVIOUS
      <4>3. Keeps(c, conn[c], r1, a1)
        BY <2>5, <4>1, <4>2, FunctionsKeep
      <4>4. /\ Keeps(c, conn[c], DoRead(r1), a1 \o DoReadAborts(c, r1))
            /\ Keeps(c, conn[c], StopIfRunning(r1), a1 \o StopAborts(c, r1))
        BY <4>1, <4>3, FunctionsKeep, KeepsTwice
      <4>5. \/ Done(w, c, DoRead(r1), a1 \o DoReadAborts(c, r1))
            \/ Done(w, c, StopIfRunning(r1), a1 \o StopAborts(c, r1))
        BY <3>2, <4>1, <4>2
      <4> QED BY <2>d, <3>0, <4>4, <4>5
    <3> QED BY <2>3, <2>4, <2>10, <3>1, <3>2 DEF HandleRead
  <2>11. CASE HandleWrite(w)
    <3>0. e.kind # "wait"
      BY <2>3, <2>11 DEF HandleWrite, Runs
    <3>1. PICK r : r = [conn[c] EXCEPT !.writing = FALSE]
      OBVIOUS
    <3>2. r \in Connection
      BY <2>5, <3>1, FunctionsInStep DEF InStep
    <3>3. r.io = conn[c].io /\ r.stopped = conn[c].stopped /\ r.ops = conn[c].ops
      BY <2>5, <3>1 DEF Connection
    <3>4. CASE Done(w, c, StopIfRunning(conn[c]), StopAborts(c, conn[c]))
      BY <2>5, <2>d, <3>0, <3>4, FunctionsKeep
    <3>5. ASSUME NEW outcome \in WriteOutcomes(r),
                 Done(w, c, DoWrite(r, outcome), DoWriteAborts(c, r, outcome))
          PROVE  Armed'
      <4>1. Keeps(c, conn[c], DoWrite(r, outcome), DoWriteAborts(c, r, outcome))
        BY <3>2, <3>3, FunctionsKeep DEF Keeps
      <4> QED BY <2>d, <3>0, <3>5, <4>1
    <3> QED BY <2>3, <2>4, <2>11, <3>1, <3>4, <3>5 DEF HandleWrite
  <2> QED BY <1>9, <2>7, <2>8, <2>9, <2>10, <2>11 DEF Worker
<1>10. ASSUME NEW w \in WorkerIds, RunReturns(w) PROVE Armed'
  <2>1. queue' = queue /\ conn' = conn /\ lpc' = lpc /\ accepting' = accepting /\ made' = made
    BY <1>10 DEF RunReturns, lifetimeVars
  <2> QED BY <1>s, <2>1 DEF Armed, Accepted
<1>11. ASSUME NEW w \in WorkerIds, NEW c \in Conns, InitiateWrite(w, c) PROVE Armed'
  <2>1. PICK outcome \in WriteOutcomes(conn[c]) :
          /\ conn' = [conn EXCEPT ![c] = DoWrite(conn[c], outcome)]
          /\ queue' = [queue EXCEPT ![w] = queue[w] \o DoWriteAborts(c, conn[c], outcome)]
    BY <1>11, <1>c DEF InitiateWrite
  <2>2. Accepted(c) /\ conn[c].io = w /\ UNCHANGED lifetimeVars
    BY <1>11 DEF InitiateWrite, Armed, Begun
  <2>3. conn[c] \in Connection /\ queue[w] \in Seq(Entries)
    BY <1>c
  <2>4. Keeps(c, conn[c], DoWrite(conn[c], outcome), DoWriteAborts(c, conn[c], outcome))
    BY <2>3, FunctionsKeep
  <2> QED BY <2>1, <2>2, <2>3, <2>4, ArmedStep
<1>12. CASE UNCHANGED vars
  <2>1. queue' = queue /\ conn' = conn /\ lpc' = lpc /\ accepting' = accepting /\ made' = made
    BY <1>12 DEF vars, lifetimeVars
  <2> QED BY <1>s, <2>1 DEF Armed, Accepted
<1> QED
  BY <1>1, <1>2, <1>3, <1>4, <1>5, <1>6, <1>7, <1>8, <1>9, <1>10, <1>11, <1>12
     DEF Next, Listener

LEMMA ArmedInvariant == Spec => []Armed
BY InvInit, InvStep, ArmedInit, ArmedNext, PTL DEF Spec

\* The deadline of an open connection is never lost: whatever reads, writes and
\* handshakes cancel it, a wait is outstanding or its handler is about to arm it
\* again or to end the connection.
THEOREM DeadlineNeverLost == Spec => []DeadlineArmed
<1>1. Armed => DeadlineArmed
  BY DEF Armed
<1> QED BY <1>1, ArmedInvariant, PTL

\* No open connection is destroyed: its wait, if nothing else, holds a shared_ptr.
\* The lambda of start, which captures this alone, can therefore outlive only a
\* connection that was stopped before.
THEOREM OpenConnectionsAreOwned == Spec => []OpenIsOwned
<1>1. IInv /\ Armed => OpenIsOwned
  <2> SUFFICES ASSUME IInv, Armed, NEW c \in Conns, Accepted(c), ~conn[c].stopped
               PROVE  Owned(c)
    BY DEF OpenIsOwned
  <2>1. CASE "wait" \in conn[c].ops
    BY <2>1 DEF Owned
  <2>2. CASE WaitReady(c)
    <3>1. PICK e \in Range(queue[conn[c].io]) : e.kind = "wait" /\ e.conn = c
      BY <2>2 DEF WaitReady
    <3>2. PICK i \in DOMAIN queue[conn[c].io] : queue[conn[c].io][i] = e
      BY <3>1 DEF Range
    <3>3. i \in Queued(c)
      BY <3>1, <3>2 DEF Queued
    <3> QED BY <3>3 DEF Owned
  <2> QED BY <2>1, <2>2 DEF Armed, DeadlineArmed
<1> QED BY <1>1, ArmedInvariant, LifetimeInvariant, PTL

\* A worker's run() returns over no open connection of its own.
ReturnsOverNobody ==
    [][\A w \in WorkerIds : RunReturns(w) =>
         \A c \in Conns : Accepted(c) /\ conn[c].io = w => conn[c].stopped]_vars

\* After stop_server a worker thread ends only when all its connections have: an
\* open one still has its wait, and an io_service with a wait has work left.
THEOREM NobodyIsCutOff == Spec => ReturnsOverNobody
<1> DEFINE A == \A w \in WorkerIds : RunReturns(w) =>
                    \A c \in Conns : Accepted(c) /\ conn[c].io = w => conn[c].stopped
<1>1. Armed => A
  <2> SUFFICES ASSUME Armed, NEW w \in WorkerIds, RunReturns(w), NEW c \in Conns,
                      Accepted(c), conn[c].io = w, ~conn[c].stopped
               PROVE  FALSE
    OBVIOUS
  <2>1. conn[c].ops = {} /\ Range(queue[conn[c].io]) = {}
    BY RangeEmpty DEF RunReturns
  <2> QED BY <2>1 DEF Armed, DeadlineArmed, WaitReady
<1>2. Armed /\ [Next]_vars => [A]_vars
  BY <1>1
<1> HIDE DEF A
<1>3. Spec => [][A]_vars
  BY <1>2, ArmedInvariant, PTL DEF Spec
<1> QED BY <1>3 DEF A, ReturnsOverNobody
=============================================================================
