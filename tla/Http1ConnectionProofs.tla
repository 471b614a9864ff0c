------------------------ MODULE Http1ConnectionProofs ------------------------
(***************************************************************************)
(* TLAPS proofs about Http1Connection, for any number of requests, any set *)
(* of strands and any outcomes.                                            *)
(***************************************************************************)
EXTENDS Http1Connection, QueueLemmas

-----------------------------------------------------------------------------
(* Batches                                                                 *)

\* What get_consecutive_stream_ids_to_respond returns, serialised, is an
\* increasing sequence of exactly the requests first..last.
LEMMA SerialisedFacts ==
    ASSUME NEW first \in Requests, NEW last \in Requests, first <= last
    PROVE  /\ Serialised(first, last) \in Seq(Requests)
           /\ Serialised(first, last) # << >>
           /\ Increasing(Serialised(first, last))
           /\ Range(Serialised(first, last)) = first..last
<1> DEFINE q == Serialised(first, last)
<1> USE Http1Assumption DEF Requests
<1>1. last - first + 1 \in Nat \ {0}
  OBVIOUS
<1>2. DOMAIN q = 1..(last - first + 1) /\ \A k \in DOMAIN q : q[k] = first + k - 1
  BY DEF Serialised
<1>3. q \in Seq(Requests) /\ Len(q) = last - first + 1
  <2>1. \A k \in 1..(last - first + 1) : first + k - 1 \in Requests
    OBVIOUS
  <2>2. q \in [1..(last - first + 1) -> Requests]
    BY <2>1 DEF Serialised
  <2> QED BY <1>1, <2>2
<1>4. q # << >>
  BY <1>1, <1>3
<1>5. Increasing(q)
  BY <1>2 DEF Increasing
<1>6. Range(q) = first..last
  <2>1. ASSUME NEW i \in first..last PROVE i \in Range(q)
    <3>1. i - first + 1 \in DOMAIN q /\ q[i - first + 1] = i
      BY <1>2
    <3> QED BY <3>1 DEF Range
  <2>2. ASSUME NEW i \in Range(q) PROVE i \in first..last
    BY <1>2, <2>2 DEF Range
  <2> QED BY <2>1, <2>2
<1> QED BY <1>3, <1>4, <1>5, <1>6

-----------------------------------------------------------------------------
(* Increasing sequences and queues of tasks                                *)

\* Joining two increasing sequences, the first below the second.
LEMMA IncreasingConcat ==
    ASSUME NEW p \in Seq(Requests), NEW q \in Seq(Requests),
           Increasing(p), Increasing(q),
           \A i \in Range(p), j \in Range(q) : i < j
    PROVE  Increasing(p \o q)
<1>1. /\ Len(p) \in Nat
      /\ Len(q) \in Nat
      /\ DOMAIN p = 1..Len(p)
      /\ DOMAIN q = 1..Len(q)
      /\ DOMAIN (p \o q) = 1..(Len(p) + Len(q))
  OBVIOUS
<1>2. /\ \A k \in 1..Len(p) : (p \o q)[k] = p[k]
      /\ \A k \in 1..Len(q) : (p \o q)[Len(p) + k] = q[k]
  OBVIOUS
<1> SUFFICES ASSUME NEW j \in DOMAIN (p \o q), NEW k \in DOMAIN (p \o q), j < k
             PROVE  (p \o q)[j] < (p \o q)[k]
  BY DEF Increasing
<1>3. CASE k <= Len(p)
  BY <1>1, <1>2, <1>3 DEF Increasing
<1>4. CASE j <= Len(p) /\ k > Len(p)
  <2>1. (p \o q)[j] \in Range(p)
    BY <1>1, <1>2, <1>4 DEF Range
  <2>2. k - Len(p) \in 1..Len(q) /\ (p \o q)[k] = q[k - Len(p)]
    BY <1>1, <1>2, <1>4
  <2>3. (p \o q)[k] \in Range(q)
    BY <1>1, <2>2 DEF Range
  <2> QED BY <2>1, <2>3
<1>5. CASE j > Len(p)
  <2>1. /\ j - Len(p) \in 1..Len(q) /\ (p \o q)[j] = q[j - Len(p)]
        /\ k - Len(p) \in 1..Len(q) /\ (p \o q)[k] = q[k - Len(p)]
        /\ j - Len(p) < k - Len(p)
    BY <1>1, <1>2, <1>5
  <2> QED BY <1>1, <2>1 DEF Increasing
<1> QED BY <1>1, <1>3, <1>4, <1>5

\* A prefix of an increasing sequence is increasing.
LEMMA IncreasingPrefix ==
    ASSUME NEW p \in Seq(Requests), NEW q \in Seq(Requests), Increasing(p \o q)
    PROVE  Increasing(p)
<1>1. /\ Len(p) \in Nat /\ Len(q) \in Nat
      /\ DOMAIN p = 1..Len(p)
      /\ DOMAIN (p \o q) = 1..(Len(p) + Len(q))
      /\ \A k \in 1..Len(p) : (p \o q)[k] = p[k]
  OBVIOUS
<1> QED BY <1>1 DEF Increasing

\* The same for the answers in a queue of tasks.
LEMMA PostedAppend ==
    ASSUME NEW q \in Seq(Tasks), NEW e \in Tasks, PostedOnce(q),
           e.kind = "send_response" => e.id \notin Posted(q)
    PROVE  /\ PostedOnce(Append(q, e))
           /\ Posted(Append(q, e)) =
                  Posted(q) \cup (IF e.kind = "send_response" THEN {e.id} ELSE {})
<1>1. /\ Len(q) \in Nat
      /\ DOMAIN q = 1..Len(q)
      /\ DOMAIN Append(q, e) = 1..(Len(q) + 1)
      /\ \A k \in 1..Len(q) : Append(q, e)[k] = q[k]
      /\ Append(q, e)[Len(q) + 1] = e
  OBVIOUS
<1>2. ASSUME NEW k \in 1..Len(q), q[k].kind = "send_response",
             e.kind = "send_response"
      PROVE  q[k].id # e.id
  BY <1>1, <1>2 DEF Range, Posted
<1>3. PostedOnce(Append(q, e))
  BY <1>1, <1>2 DEF PostedOnce
<1>4. Range(Append(q, e)) = Range(q) \cup {e}
  BY RangeAppend
<1> QED BY <1>3, <1>4 DEF Posted

LEMMA PostedTail ==
    ASSUME NEW q \in Seq(Tasks), q # << >>, PostedOnce(q)
    PROVE  /\ PostedOnce(Tail(q))
           /\ Posted(Tail(q)) \subseteq Posted(q)
           /\ Head(q).kind = "send_response" =>
                  Head(q).id \in Posted(q) /\ Head(q).id \notin Posted(Tail(q))
<1>1. /\ Len(q) \in Nat \ {0}
      /\ DOMAIN q = 1..Len(q)
      /\ DOMAIN Tail(q) = 1..(Len(q) - 1)
      /\ \A k \in 1..(Len(q) - 1) : Tail(q)[k] = q[k + 1]
      /\ Head(q) = q[1]
  OBVIOUS
<1>2. PostedOnce(Tail(q))
  BY <1>1 DEF PostedOnce
<1>3. Head(q) \in Range(q) /\ Range(Tail(q)) \subseteq Range(q)
  BY RangeHeadTail
<1>4. ASSUME Head(q).kind = "send_response", Head(q).id \in Posted(Tail(q))
      PROVE  FALSE
  <2>1. PICK k \in 1..(Len(q) - 1) :
          q[k + 1].kind = "send_response" /\ q[k + 1].id = q[1].id
    BY <1>1, <1>4 DEF Posted, Range
  <2> QED BY <1>1, <1>4, <2>1 DEF PostedOnce
<1> QED BY <1>2, <1>3, <1>4 DEF Posted

-----------------------------------------------------------------------------
(* Type correctness                                                        *)

LEMMA TypeInit == Init => TypeOK
<1>1. << >> \in Seq(Requests) /\ << >> \in Seq(Tasks)
  BY QueueOps
<1>2. [s \in Strands |-> << >>] \in [Strands -> Seq(Requests)]
  BY <1>1
<1>3. 0 \in 0..MaxRequests
  BY Http1Assumption
<1> QED BY <1>1, <1>2, <1>3 DEF Init, TypeOK, StopCauses

LEMMA DoWriteIdleType ==
    ASSUME TypeOK, DoWriteIdle
    PROVE  /\ stopped' \in BOOLEAN
           /\ stopCause' \in StopCauses
           /\ writing' \in BOOLEAN
           /\ outbuf' \in Seq(Requests)
           /\ toRespond' \in SUBSET Requests
           /\ streams' \in SUBSET Requests
<1>1. CASE \E first, last \in toRespond :
          /\ IsBatch(first, last)
          /\ writing' = TRUE
          /\ outbuf' = Serialised(first, last)
          /\ streams' = streams \ (first..last)
          /\ toRespond' = toRespond \ (first..last)
          /\ UNCHANGED <<stopped, stopCause>>
  BY <1>1, SerialisedFacts DEF TypeOK, IsBatch
<1>2. CASE /\ ~HeadAnswered
           /\ writing' = FALSE
           /\ outbuf' = << >>
           /\ IF keepAlive THEN UNCHANGED <<stopped, stopCause>>
                           ELSE Stop("should_stop")
           /\ UNCHANGED <<toRespond, streams>>
  BY <1>2, QueueOps DEF TypeOK, Stop, StopCauses
<1> QED BY <1>1, <1>2 DEF DoWriteIdle

LEMMA TaskTypes ==
    /\ InitiateWriteTask \in Tasks
    /\ \A i \in Requests, a \in {"respond", "close"} : SendResponseTask(i, a) \in Tasks
BY Http1Assumption DEF InitiateWriteTask, SendResponseTask, Tasks, Requests

LEMMA TypeStep == TypeOK /\ StreamBookkeeping /\ [Next]_vars => TypeOK'
<1> SUFFICES ASSUME TypeOK, StreamBookkeeping, [Next]_vars PROVE TypeOK'
  OBVIOUS
<1> USE Http1Assumption
<1>q. /\ << >> \in Seq(Requests)
      /\ \A q \in Seq(Requests) : q # << >> => Head(q) \in Requests /\ Tail(q) \in Seq(Requests)
      /\ \A q \in Seq(Requests), e \in Requests : Append(q, e) \in Seq(Requests)
      /\ \A p, q \in Seq(Requests) : p \o q \in Seq(Requests)
  BY QueueOps
<1>t. /\ \A q \in Seq(Tasks) : q # << >> => Head(q) \in Tasks /\ Tail(q) \in Seq(Tasks)
      /\ \A q \in Seq(Tasks), e \in Tasks : Append(q, e) \in Seq(Tasks)
  BY QueueOps
<1>1. CASE WriteOk
  <2>1. CASE DoWriteIdle
    BY <1>1, <2>1, <1>q, DoWriteIdleType DEF TypeOK, WriteOk
  <2>2. CASE ~DoWriteIdle
    BY <1>1, <2>2, <1>q DEF TypeOK, WriteOk
  <2> QED BY <2>1, <2>2
<1>2. CASE WriteError
  BY <1>2, <1>q DEF TypeOK, WriteError, Stop, StopCauses, handlerVars
<1>3. CASE ReadSome
  BY <1>3 DEF TypeOK, ReadSome
<1>4. CASE ReadError
  BY <1>4 DEF TypeOK, ReadError, Stop, StopCauses, handlerVars
<1>5. CASE MsgBegin
  BY <1>5 DEF TypeOK, MsgBegin, Requests, connVars
<1>6. CASE ReadDone
  <2>1. CASE DoWriteIdle
    BY <1>6, <2>1, DoWriteIdleType DEF TypeOK, ReadDone
  <2>2. CASE ~DoWriteIdle
    BY <1>6, <2>2 DEF TypeOK, ReadDone
  <2> QED BY <2>1, <2>2
<1>7. CASE ParseError
  BY <1>7 DEF TypeOK, ParseError, Stop, StopCauses
<1>8. ASSUME NEW o \in Outcomes, NEW alive \in BOOLEAN, MsgComplete(o, alive)
      PROVE  TypeOK'
  <2>1. /\ streams' \in SUBSET Requests
        /\ toRespond' \in SUBSET Requests
        /\ strandQ' \in [Strands -> Seq(Requests)]
    <3>1. requestCount \in Requests
      BY <1>8 DEF TypeOK, StreamBookkeeping, MsgComplete
    <3>2. CASE Respond(requestCount)
      BY <3>1, <3>2 DEF TypeOK, Respond
    <3>3. CASE CloseStream(requestCount)
      BY <3>1, <3>3 DEF TypeOK, CloseStream
    <3>4. CASE Offload(requestCount)
      BY <3>1, <3>4, <1>q DEF TypeOK, Offload
    <3> QED BY <1>8, <3>2, <3>3, <3>4 DEF MsgComplete
  <2> QED BY <1>8, <2>1 DEF TypeOK, MsgComplete, connVars
<1>9. CASE InitiateWrite
  <2>1. tasks' \in Seq(Tasks)
    BY <1>9, <1>t DEF TypeOK, InitiateWrite
  <2>2. CASE DoWriteIdle
    BY <1>9, <2>1, <2>2, DoWriteIdleType DEF TypeOK, InitiateWrite
  <2>3. CASE ~DoWriteIdle
    BY <1>9, <2>1, <2>3 DEF TypeOK, InitiateWrite
  <2> QED BY <2>2, <2>3
<1>10. CASE SendResponse
  <2>1. Tail(tasks) \in Seq(Tasks) /\ Append(Tail(tasks), InitiateWriteTask) \in Seq(Tasks)
    BY <1>10, <1>t, TaskTypes DEF TypeOK, SendResponse
  <2>2. tasks' \in Seq(Tasks)
    BY <1>10, <2>1 DEF SendResponse
  <2>3. /\ toRespond' \in SUBSET Requests
        /\ streams' \in SUBSET Requests
        /\ writeSignaled' \in BOOLEAN
    BY <1>10 DEF TypeOK, SendResponse
  <2> QED BY <1>10, <2>2, <2>3 DEF TypeOK, SendResponse, connVars
<1>11. ASSUME NEW s \in Strands, NEW a \in LuaOutcomes, OffloadRun(s, a)
       PROVE  TypeOK'
  <2>1. strandQ[s] \in Seq(Requests) /\ strandQ[s] # << >>
    BY <1>11 DEF TypeOK, OffloadRun
  <2>2. Head(strandQ[s]) \in Requests /\ Tail(strandQ[s]) \in Seq(Requests)
    BY <2>1, <1>q
  <2>3. strandQ' \in [Strands -> Seq(Requests)]
    BY <1>11, <2>2 DEF TypeOK, OffloadRun
  <2>4. tasks' \in Seq(Tasks)
    BY <1>11, <1>t, <2>2, TaskTypes DEF TypeOK, OffloadRun
  <2> QED BY <1>11, <2>3, <2>4 DEF TypeOK, OffloadRun, connVars, handlerVars
<1>12. CASE Deadline
  BY <1>12 DEF TypeOK, Deadline, Stop, StopCauses, handlerVars
<1>13. CASE UNCHANGED vars
  BY <1>13 DEF TypeOK, vars, connVars, handlerVars
<1> QED
  BY <1>1, <1>2, <1>3, <1>4, <1>5, <1>6, <1>7, <1>8, <1>9, <1>10, <1>11, <1>12,
     <1>13 DEF Next

-----------------------------------------------------------------------------
(* Bookkeeping of the streams                                              *)

\* do_write takes one interval of answered streams, oldest first, or nothing.
LEMMA DoWriteIdleEffect ==
    ASSUME TypeOK, toRespond \subseteq streams, DoWriteIdle
    PROVE  /\ outbuf' \in Seq(Requests)
           /\ outbuf' # << >> => writing'
           /\ Increasing(outbuf')
           /\ Range(outbuf') \subseteq toRespond
           /\ toRespond' = toRespond \ Range(outbuf')
           /\ streams' = streams \ Range(outbuf')
           /\ \A i \in Range(outbuf'), j \in streams' : i < j
<1>1. CASE \E first, last \in toRespond :
          /\ IsBatch(first, last)
          /\ writing' = TRUE
          /\ outbuf' = Serialised(first, last)
          /\ streams' = streams \ (first..last)
          /\ toRespond' = toRespond \ (first..last)
          /\ UNCHANGED <<stopped, stopCause>>
  <2>1. PICK first \in toRespond, last \in toRespond :
          /\ IsBatch(first, last)
          /\ writing' = TRUE
          /\ outbuf' = Serialised(first, last)
          /\ streams' = streams \ (first..last)
          /\ toRespond' = toRespond \ (first..last)
    BY <1>1
  <2>2. first \in Requests /\ last \in Requests /\ first <= last
    BY <2>1 DEF TypeOK, IsBatch
  <2>3. /\ outbuf' \in Seq(Requests)
        /\ Increasing(outbuf')
        /\ Range(outbuf') = first..last
    BY <2>1, <2>2, SerialisedFacts
  <2>4. first..last \subseteq toRespond
    BY <2>1 DEF IsBatch
  <2>5. ASSUME NEW i \in first..last, NEW j \in streams \ (first..last) PROVE i < j
    <3>1. first <= j
      BY <2>1 DEF IsBatch
    <3> QED BY <2>2, <3>1, Http1Assumption DEF TypeOK, Requests
  <2> QED BY <2>1, <2>3, <2>4, <2>5
<1>2. CASE /\ ~HeadAnswered
           /\ writing' = FALSE
           /\ outbuf' = << >>
           /\ IF keepAlive THEN UNCHANGED <<stopped, stopCause>>
                           ELSE Stop("should_stop")
           /\ UNCHANGED <<toRespond, streams>>
  <2>1. outbuf' \in Seq(Requests) /\ Range(outbuf') = {} /\ Increasing(outbuf')
    BY <1>2, QueueOps, RangeEmpty DEF Increasing
  <2> QED BY <1>2, <2>1
<1> QED BY <1>1, <1>2 DEF DoWriteIdle

LEMMA BookkeepingInit == Init => StreamBookkeeping
BY RangeEmpty DEF Init, StreamBookkeeping

\* A do_write leaves the bookkeeping intact.
LEMMA DoWriteIdleBookkeeping ==
    ASSUME TypeOK, StreamBookkeeping, DoWriteIdle,
           UNCHANGED <<requestCount, parsing, strandQ>>, Range(tasks') \subseteq Range(tasks)
    PROVE  StreamBookkeeping'
<1>1. Range(outbuf') \subseteq toRespond
      /\ toRespond' = toRespond \ Range(outbuf')
      /\ streams' = streams \ Range(outbuf')
  BY DoWriteIdleEffect DEF StreamBookkeeping
<1> QED BY <1>1 DEF StreamBookkeeping, Completed

LEMMA BookkeepingStep ==
    TypeOK /\ StreamBookkeeping /\ AnswerOnce /\ [Next]_vars => StreamBookkeeping'
<1> SUFFICES ASSUME TypeOK, StreamBookkeeping, AnswerOnce, [Next]_vars
             PROVE  StreamBookkeeping'
  OBVIOUS
<1> USE Http1Assumption
<1>t. tasks \in Seq(Tasks) /\ requestCount \in Nat
  BY DEF TypeOK
<1>1. CASE WriteOk
  <2>1. CASE DoWriteIdle
    BY <1>1, <2>1, DoWriteIdleBookkeeping DEF WriteOk
  <2>2. CASE ~DoWriteIdle
    BY <1>1, <2>2 DEF WriteOk, StreamBookkeeping, Completed
  <2> QED BY <2>1, <2>2
<1>2. CASE WriteError
  BY <1>2 DEF WriteError, StreamBookkeeping, Completed, handlerVars
<1>3. CASE ReadSome
  BY <1>3 DEF ReadSome, StreamBookkeeping, Completed
<1>4. CASE ReadError
  BY <1>4 DEF ReadError, StreamBookkeeping, Completed, handlerVars
<1>5. CASE MsgBegin
  <2>1. Completed' = Completed
    BY <1>5, <1>t DEF MsgBegin, Completed
  <2>2. /\ toRespond' \subseteq streams'
        /\ streams' \subseteq 1..requestCount'
        /\ requestCount' \in streams' \ toRespond'
    <3>1. /\ requestCount' = requestCount + 1
          /\ streams' = streams \cup {requestCount + 1}
          /\ toRespond' = toRespond
      BY <1>5 DEF MsgBegin
    <3>2. toRespond \subseteq streams /\ streams \subseteq 1..requestCount
      BY DEF StreamBookkeeping
    <3> QED BY <1>t, <3>1, <3>2
  <2> QED BY <1>5, <2>1, <2>2 DEF MsgBegin, StreamBookkeeping
<1>6. CASE ReadDone
  <2>1. CASE DoWriteIdle
    BY <1>6, <2>1, DoWriteIdleBookkeeping DEF ReadDone
  <2>2. CASE ~DoWriteIdle
    BY <1>6, <2>2 DEF ReadDone, StreamBookkeeping, Completed
  <2> QED BY <2>1, <2>2
<1>7. CASE ParseError
  BY <1>7 DEF ParseError, StreamBookkeeping, Completed
<1>8. ASSUME NEW o \in Outcomes, NEW alive \in BOOLEAN, MsgComplete(o, alive)
      PROVE  StreamBookkeeping'
  <2>1. /\ requestCount \in Requests /\ requestCount \in streams
        /\ Completed = requestCount - 1 /\ Completed' = requestCount
        /\ 1..Completed \subseteq 1..Completed'
    BY <1>8 DEF TypeOK, StreamBookkeeping, MsgComplete, Completed
  <2>2. /\ toRespond' \subseteq streams'
        /\ streams' \subseteq 1..requestCount'
        /\ ~parsing'
    BY <1>8, <2>1 DEF StreamBookkeeping, MsgComplete, Respond, CloseStream, Offload
  <2>3. ASSUME NEW s \in Strands PROVE Range(strandQ'[s]) \subseteq 1..Completed'
    <3>1. CASE strandQ' = strandQ
      BY <2>1, <3>1 DEF StreamBookkeeping
    <3>2. CASE Offload(requestCount)
      <4>1. PICK r \in Strands :
              strandQ' = [strandQ EXCEPT ![r] = Append(strandQ[r], requestCount)]
        BY <3>2 DEF Offload
      <4>2. CASE s = r
        <5>1. strandQ'[s] = Append(strandQ[s], requestCount)
          BY <4>1, <4>2 DEF TypeOK
        <5>2. Range(strandQ'[s]) = Range(strandQ[s]) \cup {requestCount}
          BY <5>1, <2>1, RangeAppend DEF TypeOK
        <5> QED BY <5>2, <2>1 DEF StreamBookkeeping, Requests
      <4>3. CASE s # r
        BY <4>1, <4>3, <2>1 DEF TypeOK, StreamBookkeeping
      <4> QED BY <4>2, <4>3
    <3> QED BY <1>8, <3>1, <3>2 DEF MsgComplete, Respond, CloseStream
  <2>4. tasks' = tasks
    BY <1>8 DEF MsgComplete
  <2> QED BY <2>1, <2>2, <2>3, <2>4 DEF StreamBookkeeping
<1>9. CASE InitiateWrite
  <2>1. Range(tasks') \subseteq Range(tasks)
    BY <1>9, <1>t, RangeHeadTail DEF InitiateWrite
  <2>2. CASE DoWriteIdle
    BY <1>9, <2>1, <2>2, DoWriteIdleBookkeeping DEF InitiateWrite
  <2>3. CASE ~DoWriteIdle
    BY <1>9, <2>1, <2>3 DEF InitiateWrite, StreamBookkeeping, Completed
  <2> QED BY <2>2, <2>3
<1>10. CASE SendResponse
  <2>1. Head(tasks) \in Range(tasks) /\ Range(Tail(tasks)) \subseteq Range(tasks)
    BY <1>10, <1>t, RangeHeadTail DEF SendResponse
  <2>2. Head(tasks).id \in 1..Completed
    BY <1>10, <2>1 DEF SendResponse, StreamBookkeeping
  <2>3. Tail(tasks) \in Seq(Tasks)
    BY <1>10, <1>t, QueueOps DEF SendResponse
  <2>4. Range(Append(Tail(tasks), InitiateWriteTask)) = Range(Tail(tasks)) \cup {InitiateWriteTask}
    <3>1. InitiateWriteTask \in Tasks
      BY TaskTypes
    <3>2. \A q \in Seq(Tasks), e \in Tasks : Range(Append(q, e)) = Range(q) \cup {e}
      BY RangeAppend
    <3> QED BY <2>3, <3>1, <3>2, Zenon
  <2>5. \A t \in Range(tasks') : t.kind = "send_response" => t.id \in 1..Completed'
    <3>1. Completed' = Completed
      BY <1>10 DEF SendResponse, Completed
    <3>2. InitiateWriteTask.kind # "send_response"
      BY DEF InitiateWriteTask
    <3>3. \A t \in Range(tasks) : t.kind = "send_response" => t.id \in 1..Completed
      BY DEF StreamBookkeeping
    <3>4. tasks' \in {Tail(tasks), Append(Tail(tasks), InitiateWriteTask)}
      BY <1>10 DEF SendResponse
    <3> QED BY <2>1, <2>4, <3>1, <3>2, <3>3, <3>4
  <2>6. toRespond' \subseteq streams' /\ streams' \subseteq 1..requestCount'
    <3>1. Head(tasks).id \in Posted(tasks)
      BY <1>10, <2>1 DEF SendResponse, Posted
    <3>2. Head(tasks).id \notin toRespond
      BY <3>1 DEF AnswerOnce
    <3> QED BY <1>10, <3>2 DEF SendResponse, StreamBookkeeping
  <2>7. parsing' => requestCount' \in streams' \ toRespond'
    BY <1>10, <1>t, <2>2 DEF SendResponse, StreamBookkeeping, Completed
  <2> QED BY <1>10, <2>5, <2>6, <2>7 DEF SendResponse, StreamBookkeeping, Completed
<1>11. ASSUME NEW s \in Strands, NEW a \in LuaOutcomes, OffloadRun(s, a)
       PROVE  StreamBookkeeping'
  <2>1. strandQ[s] \in Seq(Requests) /\ strandQ[s] # << >>
    BY <1>11 DEF TypeOK, OffloadRun
  <2>2. /\ Head(strandQ[s]) \in Range(strandQ[s])
        /\ Range(Tail(strandQ[s])) \subseteq Range(strandQ[s])
    BY <2>1, RangeHeadTail
  <2>3. \A r \in Strands : Range(strandQ'[r]) \subseteq 1..Completed
    BY <1>11, <2>2 DEF TypeOK, StreamBookkeeping, OffloadRun
  <2>4. Head(strandQ[s]) \in Requests /\ a \in {"respond", "close"}
    BY <2>1, QueueOps
  <2>5. Range(tasks') = Range(tasks) \cup {SendResponseTask(Head(strandQ[s]), a)}
    BY <1>11, <1>t, <2>4, TaskTypes, RangeAppend DEF OffloadRun
  <2>6. \A t \in Range(tasks') : t.kind = "send_response" => t.id \in 1..Completed
    BY <2>2, <2>5 DEF StreamBookkeeping, SendResponseTask
  <2> QED BY <1>11, <2>3, <2>6 DEF OffloadRun, StreamBookkeeping, Completed, handlerVars
<1>12. CASE Deadline
  BY <1>12 DEF Deadline, StreamBookkeeping, Completed, handlerVars
<1>13. CASE UNCHANGED vars
  BY <1>13 DEF StreamBookkeeping, Completed, vars, connVars, handlerVars
<1> QED
  BY <1>1, <1>2, <1>3, <1>4, <1>5, <1>6, <1>7, <1>8, <1>9, <1>10, <1>11, <1>12,
     <1>13 DEF Next

-----------------------------------------------------------------------------
(* One answer for one request                                              *)

LEMMA AnswerOnceInit == Init => AnswerOnce
<1>1. ASSUME Init PROVE \A s \in Strands : strandQ[s] = << >>
  BY <1>1 DEF Init
<1>2. IsInjective(<< >>) /\ PostedOnce(<< >>) /\ Posted(<< >>) = {}
  BY RangeEmpty DEF IsInjective, PostedOnce, Posted
<1> QED BY <1>1, <1>2, RangeEmpty DEF Init, AnswerOnce

LEMMA AnswerOnceStep ==
    TypeOK /\ StreamBookkeeping /\ AnswerOnce /\ [Next]_vars => AnswerOnce'
<1> SUFFICES ASSUME TypeOK, StreamBookkeeping, AnswerOnce, [Next]_vars
             PROVE  AnswerOnce'
  OBVIOUS
<1> USE Http1Assumption
<1>t. tasks \in Seq(Tasks) /\ requestCount \in Nat /\ PostedOnce(tasks)
  BY DEF TypeOK, AnswerOnce
\* A step that takes answers out of toRespond or tasks and adds none.
<1>d. ASSUME toRespond' \subseteq toRespond, PostedOnce(tasks'),
             Posted(tasks') \subseteq Posted(tasks), strandQ' = strandQ
      PROVE  AnswerOnce'
  BY <1>d DEF AnswerOnce
<1>1. CASE tasks' = tasks /\ strandQ' = strandQ /\ toRespond' \subseteq toRespond
  BY <1>1, <1>d, <1>t
<1>2. CASE WriteOk \/ ReadDone
  <2>1. CASE DoWriteIdle
    <3>1. toRespond' \subseteq toRespond
      BY <2>1, DoWriteIdleEffect DEF StreamBookkeeping
    <3> QED BY <1>2, <3>1, <1>1 DEF WriteOk, ReadDone
  <2>2. CASE ~DoWriteIdle
    BY <1>2, <2>2, <1>1 DEF WriteOk, ReadDone
  <2> QED BY <2>1, <2>2
<1>3. CASE WriteError \/ ReadSome \/ ReadError \/ MsgBegin \/ ParseError \/ Deadline
  BY <1>3, <1>1 DEF WriteError, ReadSome, ReadError, MsgBegin, ParseError, Deadline,
                    handlerVars
<1>4. ASSUME NEW o \in Outcomes, NEW alive \in BOOLEAN, MsgComplete(o, alive)
      PROVE  AnswerOnce'
  <2>1. /\ requestCount \in Requests
        /\ requestCount \notin toRespond
        /\ requestCount \notin 1..Completed
    BY <1>4, <1>t DEF TypeOK, StreamBookkeeping, MsgComplete, Completed
  <2>2. requestCount \notin Posted(tasks)
    BY <2>1 DEF StreamBookkeeping, Posted
  <2>3. \A s \in Strands : requestCount \notin Range(strandQ[s])
    BY <2>1 DEF StreamBookkeeping
  <2>4. tasks' = tasks
    BY <1>4 DEF MsgComplete
  <2>5. CASE Respond(requestCount)
    BY <2>2, <2>3, <2>4, <2>5 DEF AnswerOnce, Respond
  <2>6. CASE CloseStream(requestCount)
    BY <2>4, <2>6, <1>1 DEF CloseStream
  <2>7. CASE Offload(requestCount)
    <3>1. PICK r \in Strands :
            strandQ' = [strandQ EXCEPT ![r] = Append(strandQ[r], requestCount)]
      BY <2>7 DEF Offload
    <3>2. /\ strandQ[r] \in Seq(Requests)
          /\ strandQ'[r] = Append(strandQ[r], requestCount)
          /\ \A s \in Strands \ {r} : strandQ'[s] = strandQ[s]
      BY <3>1 DEF TypeOK
    <3>3. Range(strandQ'[r]) = Range(strandQ[r]) \cup {requestCount}
      BY <2>1, <3>2, RangeAppend
    <3>4. IsInjective(strandQ'[r])
      BY <2>1, <2>3, <3>2, InjectiveAppend DEF AnswerOnce
    <3>5. \A s \in Strands : IsInjective(strandQ'[s])
      BY <3>2, <3>4 DEF AnswerOnce
    <3>6. \A s \in Strands :
             Range(strandQ'[s]) = Range(strandQ[s])
                 \cup (IF s = r THEN {requestCount} ELSE {})
      BY <3>2, <3>3
    <3>7. toRespond' = toRespond
      BY <2>7 DEF Offload
    <3>8. \A p, s \in Strands : p # s => Range(strandQ'[p]) \cap Range(strandQ'[s]) = {}
      BY <2>3, <3>6 DEF AnswerOnce
    <3>9. \A s \in Strands : Range(strandQ'[s]) \cap (Posted(tasks) \cup toRespond) = {}
      BY <2>1, <2>2, <3>6 DEF AnswerOnce
    <3> QED BY <2>4, <3>5, <3>7, <3>8, <3>9 DEF AnswerOnce
  <2> QED BY <1>4, <2>5, <2>6, <2>7 DEF MsgComplete
<1>5. CASE InitiateWrite
  <2>1. PostedOnce(tasks') /\ Posted(tasks') \subseteq Posted(tasks)
    BY <1>5, <1>t, PostedTail DEF InitiateWrite
  <2>2. toRespond' \subseteq toRespond
    <3>1. CASE DoWriteIdle
      BY <3>1, DoWriteIdleEffect DEF StreamBookkeeping
    <3>2. CASE ~DoWriteIdle
      BY <1>5, <3>2 DEF InitiateWrite
    <3> QED BY <3>1, <3>2
  <2> QED BY <1>5, <2>1, <2>2, <1>d DEF InitiateWrite
<1>6. CASE SendResponse
  <2> DEFINE i == Head(tasks).id
  <2>1. /\ Tail(tasks) \in Seq(Tasks)
        /\ PostedOnce(Tail(tasks))
        /\ Posted(Tail(tasks)) \subseteq Posted(tasks)
        /\ i \in Posted(tasks)
        /\ i \notin Posted(Tail(tasks))
    BY <1>6, <1>t, PostedTail, QueueOps DEF SendResponse
  <2>2. /\ PostedOnce(Append(Tail(tasks), InitiateWriteTask))
        /\ Posted(Append(Tail(tasks), InitiateWriteTask)) = Posted(Tail(tasks))
    <3>1. InitiateWriteTask \in Tasks /\ InitiateWriteTask.kind # "send_response"
      BY TaskTypes DEF InitiateWriteTask
    <3> QED BY <2>1, <3>1, PostedAppend
  <2>3. tasks' \in {Tail(tasks), Append(Tail(tasks), InitiateWriteTask)}
    BY <1>6 DEF SendResponse
  <2>4. PostedOnce(tasks') /\ Posted(tasks') = Posted(Tail(tasks))
    BY <2>1, <2>2, <2>3
  <2>5. strandQ' = strandQ /\ toRespond' \subseteq toRespond \cup {i}
    BY <1>6 DEF SendResponse
  <2>6. \A s \in Strands : i \notin Range(strandQ[s])
    BY <2>1 DEF AnswerOnce
  <2> HIDE DEF i
  <2> QED BY <2>1, <2>4, <2>5, <2>6 DEF AnswerOnce
<1>7. ASSUME NEW s \in Strands, NEW a \in LuaOutcomes, OffloadRun(s, a)
      PROVE  AnswerOnce'
  <2> DEFINE i == Head(strandQ[s])
             e == SendResponseTask(i, a)
  <2>1. strandQ[s] \in Seq(Requests) /\ strandQ[s] # << >> /\ IsInjective(strandQ[s])
    BY <1>7 DEF TypeOK, OffloadRun, AnswerOnce
  <2>2. /\ i \in Requests
        /\ i \in Range(strandQ[s])
        /\ Range(Tail(strandQ[s])) \subseteq Range(strandQ[s])
        /\ IsInjective(Tail(strandQ[s]))
        /\ i \notin Range(Tail(strandQ[s]))
    BY <2>1, QueueOps, RangeHeadTail, InjectiveTail
  <2>3. /\ strandQ'[s] = Tail(strandQ[s])
        /\ \A r \in Strands \ {s} : strandQ'[r] = strandQ[r]
    BY <1>7 DEF TypeOK, OffloadRun
  <2>4. /\ i \notin Posted(tasks)
        /\ i \notin toRespond
        /\ \A r \in Strands : i \notin Range(strandQ'[r])
    BY <2>2, <2>3 DEF AnswerOnce
  <2>5. e \in Tasks /\ e.kind = "send_response" /\ e.id = i
    BY <2>2, TaskTypes DEF SendResponseTask
  <2>6. PostedOnce(tasks') /\ Posted(tasks') = Posted(tasks) \cup {i}
    BY <1>7, <1>t, <2>4, <2>5, PostedAppend DEF OffloadRun
  <2>7. \A r \in Strands :
           /\ IsInjective(strandQ'[r])
           /\ Range(strandQ'[r]) \subseteq Range(strandQ[r])
    BY <2>2, <2>3 DEF AnswerOnce
  <2>8. toRespond' = toRespond
    BY <1>7 DEF OffloadRun, handlerVars
  <2> HIDE DEF i, e
  <2> QED BY <2>4, <2>6, <2>7, <2>8 DEF AnswerOnce
<1>8. CASE UNCHANGED vars
  BY <1>8, <1>1 DEF vars, handlerVars
<1> QED
  BY <1>2, <1>3, <1>4, <1>5, <1>6, <1>7, <1>8 DEF Next

LEMMA BookkeepingInvariant == Spec => [](TypeOK /\ StreamBookkeeping /\ AnswerOnce)
BY TypeInit, BookkeepingInit, AnswerOnceInit, TypeStep, BookkeepingStep, AnswerOnceStep,
   PTL DEF Spec

\* Every variable keeps its type, whatever the bound and the outcomes.
THEOREM TypeCorrect == Spec => []TypeOK
BY BookkeepingInvariant, PTL

\* Every stream number that on_write or a parser callback looks up names an
\* open stream.
THEOREM BookkeepingCorrect == Spec => []StreamBookkeeping
BY BookkeepingInvariant, PTL

\* No request is answered twice, whatever order the strands finish in.
THEOREM AnsweredAtMostOnce == Spec => []AnswerOnce
BY BookkeepingInvariant, PTL

-----------------------------------------------------------------------------
(* Responses in the order of the requests                                  *)

\* What is written next goes behind what is written: with nothing in flight
\* that is w, the responses written so far.
LEMMA OrderExtends ==
    ASSUME TypeOK, StreamBookkeeping, DoWriteIdle, UNCHANGED requestCount,
           NEW w \in Seq(Requests), Increasing(w), Range(w) \subseteq 1..requestCount,
           \A i \in Range(w), j \in streams : i < j
    PROVE  /\ outbuf' # << >> => writing'
           /\ Increasing(w \o outbuf')
           /\ Range(w \o outbuf') \subseteq 1..requestCount'
           /\ \A i \in Range(w \o outbuf'), j \in streams' : i < j
<1>1. /\ outbuf' \in Seq(Requests)
      /\ outbuf' # << >> => writing'
      /\ Increasing(outbuf')
      /\ Range(outbuf') \subseteq streams
      /\ streams' \subseteq streams
      /\ \A i \in Range(outbuf'), j \in streams' : i < j
  BY DoWriteIdleEffect DEF StreamBookkeeping
<1>2. Increasing(w \o outbuf')
  BY <1>1, IncreasingConcat
<1>3. Range(w \o outbuf') = Range(w) \cup Range(outbuf')
  BY <1>1, RangeConcat
<1>4. streams \subseteq 1..requestCount
  BY DEF StreamBookkeeping
<1> QED BY <1>1, <1>2, <1>3, <1>4

LEMMA OrderInit == Init => OrderOnWire
<1>1. << >> \o << >> = << >>
  OBVIOUS
<1>2. Increasing(<< >>)
  BY DEF Increasing
<1> QED BY <1>1, <1>2, RangeEmpty DEF Init, OrderOnWire

LEMMA OrderStep ==
    TypeOK /\ StreamBookkeeping /\ OrderOnWire /\ [Next]_vars => OrderOnWire'
<1> SUFFICES ASSUME TypeOK, StreamBookkeeping, OrderOnWire, [Next]_vars
             PROVE  OrderOnWire'
  OBVIOUS
<1> USE Http1Assumption
<1>w. /\ wire \in Seq(Requests) /\ outbuf \in Seq(Requests)
      /\ wire \o outbuf \in Seq(Requests)
      /\ wire \o << >> = wire
      /\ (wire \o outbuf) \o << >> = wire \o outbuf
  BY QueueOps DEF TypeOK
\* A step that leaves the socket alone and opens no stream.
<1>s. ASSUME UNCHANGED <<outbuf, writing, wire, requestCount>>, streams' \subseteq streams
      PROVE  OrderOnWire'
  BY <1>s DEF OrderOnWire
\* The outstanding write is lost.
<1>p. /\ Increasing(wire)
      /\ Range(wire) \subseteq 1..requestCount
      /\ \A i \in Range(wire), j \in streams : i < j
  <2>1. Range(wire) \subseteq Range(wire \o outbuf)
    BY <1>w, RangeConcat
  <2> QED BY <1>w, <2>1, IncreasingPrefix DEF OrderOnWire
<1>1. CASE WriteOk
  <2>1. wire' = wire \o outbuf /\ requestCount' = requestCount
    BY <1>1 DEF WriteOk
  <2>2. CASE DoWriteIdle
    BY <2>1, <2>2, <1>w, OrderExtends DEF OrderOnWire
  <2>3. CASE ~DoWriteIdle
    BY <1>1, <2>1, <2>3, <1>w DEF WriteOk, OrderOnWire
  <2> QED BY <2>2, <2>3
<1>2. CASE WriteError
  BY <1>2, <1>w, <1>p DEF WriteError, OrderOnWire, handlerVars
<1>3. CASE ReadSome \/ ReadError \/ ParseError \/ Deadline
  BY <1>3, <1>s DEF ReadSome, ReadError, ParseError, Deadline, handlerVars
<1>4. CASE MsgBegin
  <2>1. /\ requestCount' = requestCount + 1
        /\ streams' = streams \cup {requestCount + 1}
        /\ UNCHANGED <<outbuf, writing, wire>>
        /\ requestCount \in Nat
    BY <1>4 DEF MsgBegin, connVars, TypeOK
  <2>2. Range(wire \o outbuf) \subseteq 1..requestCount
    BY DEF OrderOnWire
  <2>3. /\ Range(wire \o outbuf) \subseteq 1..requestCount'
        /\ \A i \in Range(wire \o outbuf) : i < requestCount + 1
    BY <2>1, <2>2
  <2> QED BY <2>1, <2>3 DEF OrderOnWire
<1>5. ASSUME ~writing, DoWriteIdle, UNCHANGED <<requestCount, wire>>
      PROVE  OrderOnWire'
  <2>1. /\ outbuf' # << >> => writing'
        /\ Increasing(wire \o outbuf')
        /\ Range(wire \o outbuf') \subseteq 1..requestCount'
        /\ \A i \in Range(wire \o outbuf'), j \in streams' : i < j
    BY <1>5, <1>p, <1>w, OrderExtends
  <2> QED BY <1>5, <2>1 DEF OrderOnWire
<1>6. CASE ReadDone
  <2>1. CASE ~writing /\ DoWriteIdle
    BY <1>5, <1>6, <2>1 DEF ReadDone
  <2>2. CASE ~(~writing /\ DoWriteIdle)
    BY <1>6, <1>s, <2>2 DEF ReadDone
  <2> QED BY <2>1, <2>2
<1>7. ASSUME NEW o \in Outcomes, NEW alive \in BOOLEAN, MsgComplete(o, alive)
      PROVE  OrderOnWire'
  BY <1>7, <1>s DEF MsgComplete, Respond, CloseStream, Offload, connVars
<1>8. CASE InitiateWrite
  <2>1. CASE ~writing /\ DoWriteIdle
    BY <1>5, <1>8, <2>1 DEF InitiateWrite
  <2>2. CASE ~(~writing /\ DoWriteIdle)
    BY <1>8, <1>s, <2>2 DEF InitiateWrite
  <2> QED BY <2>1, <2>2
<1>9. CASE SendResponse
  BY <1>9, <1>s DEF SendResponse, connVars
<1>10. ASSUME NEW s \in Strands, NEW a \in LuaOutcomes, OffloadRun(s, a)
       PROVE  OrderOnWire'
  BY <1>10, <1>s DEF OffloadRun, connVars, handlerVars
<1>11. CASE UNCHANGED vars
  BY <1>11, <1>s DEF vars, connVars, handlerVars
<1> QED
  BY <1>1, <1>2, <1>3, <1>4, <1>6, <1>7, <1>8, <1>9, <1>10, <1>11 DEF Next

LEMMA OrderInvariant ==
    Spec => [](TypeOK /\ StreamBookkeeping /\ AnswerOnce /\ OrderOnWire)
BY TypeInit, BookkeepingInit, AnswerOnceInit, OrderInit, TypeStep, BookkeepingStep,
   AnswerOnceStep, OrderStep, PTL DEF Spec

\* Responses leave the connection in the order of their requests, for any
\* number of pipelined requests and any number of strands.
THEOREM ResponsesInOrder == Spec => []OrderOnWire
BY OrderInvariant, PTL

-----------------------------------------------------------------------------
(* Http1Connection implements PipelineServer                               *)

\* What do_write starts is a batch the abstract server may write.
LEMMA DoWriteIdleFlush ==
    ASSUME TypeOK, StreamBookkeeping, DoWriteIdle, ~stopped,
           UNCHANGED requestCount, wire' = wire \o outbuf
    PROVE  Pipeline!Next
<1> USE Http1Assumption
<1>1. /\ outbuf' \in Seq(Requests)
      /\ Increasing(outbuf')
      /\ Range(outbuf') \subseteq toRespond
      /\ toRespond' = toRespond \ Range(outbuf')
      /\ streams' = streams \ Range(outbuf')
      /\ \A i \in Range(outbuf'), j \in streams' : i < j
  BY DoWriteIdleEffect DEF StreamBookkeeping
<1>2. toRespond \subseteq streams
  BY DEF StreamBookkeeping
<1>3. streams' \ toRespond' = streams \ toRespond
  BY <1>1, <1>2
<1>4. Len(outbuf') \in 0..MaxRequests
  <2>1. CASE outbuf' = << >>
    BY <2>1
  <2>2. CASE outbuf' # << >>
    <3>1. PICK first \in toRespond, last \in toRespond :
            IsBatch(first, last) /\ outbuf' = Serialised(first, last)
      BY <2>2 DEF DoWriteIdle
    <3>2. first \in Requests /\ last \in Requests /\ first <= last
      BY <3>1 DEF TypeOK, IsBatch
    <3>3. DOMAIN outbuf' = 1..(last - first + 1)
      BY <3>1 DEF Serialised
    <3>4. DOMAIN outbuf' = 1..Len(outbuf') /\ Len(outbuf') \in Nat
      BY <1>1
    <3>5. last - first + 1 \in 1..MaxRequests
      BY <3>2 DEF Requests
    <3> QED BY <3>3, <3>4, <3>5
  <2> QED BY <2>1, <2>2
<1>5. outbuf' \in [1..Len(outbuf') -> toRespond]
  <2>1. outbuf' \in [1..Len(outbuf') -> Requests] /\ DOMAIN outbuf' = 1..Len(outbuf')
    BY <1>1
  <2>2. \A k \in 1..Len(outbuf') : outbuf'[k] \in toRespond
    BY <1>1, <2>1 DEF Range
  <2> QED BY <2>1, <2>2
<1>6. outbuf' \in Pipeline!Batches
  BY <1>4, <1>5 DEF Pipeline!Batches
<1>7. Pipeline!MayWrite(outbuf')
  <2>1. \A j, k \in DOMAIN outbuf' : j < k => outbuf'[j] < outbuf'[k]
    BY <1>1 DEF Increasing
  <2>2. streams \ toRespond \subseteq streams' /\ toRespond \ Range(outbuf') \subseteq streams'
    BY <1>1, <1>2
  <2> QED BY <1>1, <2>1, <2>2 DEF Pipeline!MayWrite, Range, Pipeline!Range
<1>8. stopped' \in {stopped, TRUE}
  BY DEF DoWriteIdle, Stop
<1>9. Pipeline!Flush(outbuf')
  BY <1>1, <1>3, <1>7, <1>8 DEF Pipeline!Flush, Range, Pipeline!Range
<1> QED BY <1>6, <1>9 DEF Pipeline!Next

LEMMA PipelineInit == Init => Pipeline!Init
BY DEF Init, Pipeline!Init

LEMMA PipelineStep ==
    TypeOK /\ StreamBookkeeping /\ AnswerOnce /\ OrderOnWire /\ [Next]_vars
        => [Pipeline!Next]_(Pipeline!vars)
<1> SUFFICES ASSUME TypeOK, StreamBookkeeping, AnswerOnce, OrderOnWire, [Next]_vars
             PROVE  [Pipeline!Next]_(Pipeline!vars)
  OBVIOUS
<1> USE Http1Assumption
<1>w. wire \in Seq(Requests) /\ wire \o << >> = wire
  BY DEF TypeOK
<1>1. CASE WriteOk
  <2>1. wire' = wire \o outbuf /\ requestCount' = requestCount
    BY <1>1 DEF WriteOk
  <2>2. CASE ~stopped
    BY <1>1, <2>1, <2>2, DoWriteIdleFlush DEF WriteOk
  <2>3. CASE stopped
    <3>1. outbuf' = << >> /\ UNCHANGED <<stopped, toRespond, streams>>
      BY <1>1, <2>3 DEF WriteOk
    <3>2. << >> \in Pipeline!Batches
      <4>1. << >> \in [1..0 -> toRespond]
        OBVIOUS
      <4> QED BY <4>1 DEF Pipeline!Batches
    <3>3. Pipeline!Flush(<< >>)
      BY <2>1, <3>1 DEF Pipeline!Flush, Pipeline!MayWrite, Pipeline!Range
    <3> QED BY <3>2, <3>3 DEF Pipeline!Next
  <2> QED BY <2>2, <2>3
<1>2. CASE WriteError \/ ReadError \/ ParseError \/ Deadline
  <2>1. Pipeline!Close
    BY <1>2 DEF WriteError, ReadError, ParseError, Deadline, Stop, handlerVars,
                Pipeline!Close
  <2> QED BY <2>1 DEF Pipeline!Next
<1>3. CASE ReadSome
  BY <1>3 DEF ReadSome, Pipeline!vars
<1>4. CASE MsgBegin
  <2>1. requestCount + 1 \notin toRespond
    BY DEF TypeOK, StreamBookkeeping
  <2>2. Pipeline!Receive
    BY <1>4, <2>1 DEF MsgBegin, connVars, Pipeline!Receive
  <2> QED BY <2>2 DEF Pipeline!Next
<1>5. ASSUME ~writing, ~stopped, DoWriteIdle, UNCHANGED <<requestCount, wire>>
      PROVE  Pipeline!Next
  <2>1. outbuf = << >>
    BY <1>5 DEF OrderOnWire
  <2> QED BY <1>5, <1>w, <2>1, DoWriteIdleFlush
<1>6. CASE ReadDone
  <2>1. CASE ~stopped /\ ~writing
    BY <1>5, <1>6, <2>1 DEF ReadDone
  <2>2. CASE stopped \/ writing
    BY <1>6, <2>2 DEF ReadDone, Pipeline!vars
  <2> QED BY <2>1, <2>2
<1>7. ASSUME NEW o \in Outcomes, NEW alive \in BOOLEAN, MsgComplete(o, alive)
      PROVE  [Pipeline!Next]_(Pipeline!vars)
  <2>1. requestCount \in streams \ toRespond /\ toRespond \subseteq streams
    BY <1>7 DEF MsgComplete, StreamBookkeeping
  <2>2. UNCHANGED <<requestCount, outbuf, wire, stopped>>
    BY <1>7 DEF MsgComplete, connVars
  <2>3. CASE Respond(requestCount)
    <3>1. Pipeline!Answer(requestCount)
      BY <2>1, <2>2, <2>3 DEF Respond, Pipeline!Answer
    <3> QED BY <2>1, <3>1 DEF Pipeline!Next
  <2>4. CASE CloseStream(requestCount)
    <3>1. Pipeline!Drop(requestCount)
      BY <2>1, <2>2, <2>4 DEF CloseStream, Pipeline!Drop
    <3> QED BY <2>1, <3>1 DEF Pipeline!Next
  <2>5. CASE Offload(requestCount)
    BY <2>2, <2>5 DEF Offload, Pipeline!vars
  <2> QED BY <1>7, <2>3, <2>4, <2>5 DEF MsgComplete
<1>8. CASE InitiateWrite
  <2>1. CASE ~stopped /\ ~writing
    BY <1>5, <1>8, <2>1 DEF InitiateWrite
  <2>2. CASE stopped \/ writing
    BY <1>8, <2>2 DEF InitiateWrite, Pipeline!vars
  <2> QED BY <2>1, <2>2
<1>9. CASE SendResponse
  <2> DEFINE i == Head(tasks).id
  <2>1. UNCHANGED <<requestCount, outbuf, wire, stopped>>
    BY <1>9 DEF SendResponse, connVars
  <2>2. i \notin toRespond
    <3>1. Head(tasks) \in Range(tasks)
      BY <1>9, RangeHeadTail DEF SendResponse, TypeOK
    <3>2. i \in Posted(tasks)
      BY <1>9, <3>1 DEF SendResponse, Posted
    <3> QED BY <3>2 DEF AnswerOnce
  <2>3. CASE UNCHANGED <<streams, toRespond>>
    BY <2>1, <2>3 DEF Pipeline!vars
  <2>4. CASE i \in streams /\ streams' = streams \ {i} /\ toRespond' = toRespond
    <3>1. Pipeline!Drop(i)
      BY <2>1, <2>2, <2>4 DEF Pipeline!Drop
    <3> QED BY <2>2, <2>4, <3>1 DEF Pipeline!Next
  <2>5. CASE i \in streams /\ streams' = streams /\ toRespond' = toRespond \cup {i}
    <3>1. Pipeline!Answer(i)
      BY <2>1, <2>2, <2>5 DEF Pipeline!Answer
    <3> QED BY <2>2, <2>5, <3>1 DEF Pipeline!Next
  <2>6. \/ UNCHANGED <<streams, toRespond>>
        \/ i \in streams /\ streams' = streams \ {i} /\ toRespond' = toRespond
        \/ i \in streams /\ streams' = streams /\ toRespond' = toRespond \cup {i}
    BY <1>9 DEF SendResponse
  <2> QED BY <2>3, <2>4, <2>5, <2>6
<1>10. ASSUME NEW s \in Strands, NEW a \in LuaOutcomes, OffloadRun(s, a)
       PROVE  UNCHANGED Pipeline!vars
  BY <1>10 DEF OffloadRun, connVars, handlerVars, Pipeline!vars
<1>11. CASE UNCHANGED vars
  BY <1>11 DEF vars, connVars, handlerVars, Pipeline!vars
<1> QED
  BY <1>1, <1>2, <1>3, <1>4, <1>6, <1>7, <1>8, <1>9, <1>10, <1>11 DEF Next

\* The connection, with its callbacks, strands, posted handlers and deadline,
\* implements the PipelineServer its client relies on.
THEOREM ConnectionIsPipeline == Spec => PipelineSpec
BY PipelineInit, PipelineStep, OrderInvariant, PTL DEF Spec, PipelineSpec, Pipeline!Spec

\* No write replaces the buffer of a write that is still outstanding.
THEOREM OutbufNeverOverwritten == Spec => OutbufStable
<1>1. ASSUME TypeOK, StreamBookkeeping, OrderOnWire, [Next]_vars
      PROVE  [outbuf = << >> \/ outbuf' = outbuf \/ wire' = wire \o outbuf \/ stopped']_vars
  <2>1. CASE outbuf = << >>
    BY <2>1
  <2>2. CASE outbuf # << >>
    <3>1. writing
      BY <1>1, <2>2 DEF OrderOnWire
    <3>2. CASE WriteOk \/ WriteError
      BY <3>2 DEF WriteOk, WriteError, Stop
    <3>3. CASE ReadDone \/ InitiateWrite
      BY <3>1, <3>3 DEF ReadDone, InitiateWrite
    <3>4. CASE ReadSome \/ ReadError \/ MsgBegin \/ ParseError \/ SendResponse \/ Deadline
      BY <3>4 DEF ReadSome, ReadError, MsgBegin, ParseError, SendResponse, Deadline, connVars
    <3>5. ASSUME NEW o \in Outcomes, NEW alive \in BOOLEAN, MsgComplete(o, alive)
          PROVE  outbuf' = outbuf
      BY <3>5 DEF MsgComplete, connVars
    <3>6. ASSUME NEW s \in Strands, NEW a \in LuaOutcomes, OffloadRun(s, a)
          PROVE  outbuf' = outbuf
      BY <3>6 DEF OffloadRun, connVars
    <3>7. CASE UNCHANGED vars
      BY <3>7
    <3> QED BY <1>1, <3>2, <3>3, <3>4, <3>5, <3>6, <3>7 DEF Next
  <2> QED BY <2>1, <2>2
<1> QED BY <1>1, OrderInvariant, PTL DEF Spec, OutbufStable

-----------------------------------------------------------------------------
(* No response is forgotten                                                *)

\* What a posted send_response carries is what some script made of it.
AnswersFromScripts ==
    \A t \in Range(tasks) : t.kind = "send_response" => t.answer \in LuaOutcomes

LEMMA AnswersFromScriptsStep ==
    TypeOK /\ AnswersFromScripts /\ [Next]_vars => AnswersFromScripts'
<1> SUFFICES ASSUME TypeOK, AnswersFromScripts, [Next]_vars
             PROVE  AnswersFromScripts'
  OBVIOUS
<1>t. tasks \in Seq(Tasks)
  BY DEF TypeOK
<1>1. CASE tasks' = tasks
  BY <1>1 DEF AnswersFromScripts
<1>2. CASE InitiateWrite
  <2>1. Range(tasks') \subseteq Range(tasks)
    BY <1>2, <1>t, RangeHeadTail DEF InitiateWrite
  <2> QED BY <2>1 DEF AnswersFromScripts
<1>3. CASE SendResponse
  <2>1. Range(Tail(tasks)) \subseteq Range(tasks)
    BY <1>3, <1>t, RangeHeadTail DEF SendResponse
  <2>2. PICK rest \in Seq(Tasks) : rest = Tail(tasks)
    BY <1>3, <1>t, QueueOps DEF SendResponse
  <2>3. Range(Append(rest, InitiateWriteTask)) = Range(rest) \cup {InitiateWriteTask}
    BY TaskTypes, RangeAppend
  <2>4. Range(tasks') \subseteq Range(tasks) \cup {InitiateWriteTask}
    BY <1>3, <2>1, <2>2, <2>3 DEF SendResponse
  <2>5. InitiateWriteTask.kind # "send_response"
    BY DEF InitiateWriteTask
  <2> QED BY <2>4, <2>5 DEF AnswersFromScripts
<1>4. ASSUME NEW s \in Strands, NEW a \in LuaOutcomes, OffloadRun(s, a)
      PROVE  AnswersFromScripts'
  <2>1. PICK q \in Seq(Requests) : q = strandQ[s] /\ q # << >>
    BY <1>4 DEF TypeOK, OffloadRun
  <2>2. PICK e \in Tasks : e = SendResponseTask(Head(q), a)
    BY <2>1, QueueOps, TaskTypes, Http1Assumption
  <2>3. tasks' = Append(tasks, e)
    BY <1>4, <2>1, <2>2 DEF OffloadRun
  <2>4. Range(tasks') = Range(tasks) \cup {e}
    BY <1>t, <2>3, RangeAppend
  <2>5. e.answer = a
    BY <2>2 DEF SendResponseTask
  <2> QED BY <2>4, <2>5 DEF AnswersFromScripts
<1>5. ASSUME NEW o \in Outcomes, NEW alive \in BOOLEAN, MsgComplete(o, alive)
      PROVE  tasks' = tasks
  BY <1>5 DEF MsgComplete
<1>6. CASE WriteOk \/ WriteError \/ ReadSome \/ ReadError \/ MsgBegin \/ ReadDone
           \/ ParseError \/ Deadline
  BY <1>6, <1>1 DEF WriteOk, WriteError, ReadSome, ReadError, MsgBegin, ReadDone,
                    ParseError, Deadline
<1>7. CASE UNCHANGED vars
  BY <1>1, <1>7 DEF vars
<1> QED BY <1>1, <1>2, <1>3, <1>4, <1>5, <1>6, <1>7 DEF Next

\* After do_write has looked, either it writes or the oldest open stream has
\* no answer.
LEMMA DoWriteIdleLooks == DoWriteIdle => writing' \/ ~HeadAnswered'
<1> SUFFICES ASSUME DoWriteIdle, ~writing' PROVE ~HeadAnswered'
  OBVIOUS
<1>1. ~HeadAnswered /\ toRespond' = toRespond /\ streams' = streams
  BY DEF DoWriteIdle
<1> QED BY <1>1 DEF HeadAnswered

LEMMA WakeupStep ==
    /\ LuaOutcomes \subseteq {"respond"}
    /\ TypeOK /\ AnswersFromScripts /\ NoLostWakeup /\ [Next]_vars
    => NoLostWakeup'
<1> SUFFICES ASSUME LuaOutcomes \subseteq {"respond"},
                    TypeOK, AnswersFromScripts, NoLostWakeup, [Next]_vars
             PROVE  NoLostWakeup'
  OBVIOUS
<1>1. CASE UNCHANGED <<stopped, streams, toRespond, insideCallback, writing, writeSignaled>>
  BY <1>1 DEF NoLostWakeup, HeadAnswered
<1>2. CASE stopped' \/ insideCallback' \/ writeSignaled'
  BY <1>2 DEF NoLostWakeup
<1>3. CASE DoWriteIdle
  BY <1>3, DoWriteIdleLooks DEF NoLostWakeup
<1>4. CASE WriteOk
  BY <1>2, <1>3, <1>4 DEF WriteOk
<1>5. CASE WriteError \/ ReadError \/ ParseError \/ Deadline
  BY <1>2, <1>5 DEF WriteError, ReadError, ParseError, Deadline, Stop
<1>6. CASE ReadSome \/ MsgBegin
  BY <1>2, <1>6 DEF ReadSome, MsgBegin
<1>7. ASSUME NEW o \in Outcomes, NEW alive \in BOOLEAN, MsgComplete(o, alive)
      PROVE  insideCallback'
  BY <1>7 DEF MsgComplete
<1>8. CASE ReadDone
  <2>1. CASE ~stopped /\ ~writing
    BY <1>3, <1>8, <2>1 DEF ReadDone
  <2>2. CASE stopped \/ writing
    BY <1>8, <2>2 DEF ReadDone, NoLostWakeup
  <2> QED BY <2>1, <2>2
<1>9. CASE InitiateWrite
  <2>1. CASE ~stopped /\ ~writing
    BY <1>3, <1>9, <2>1 DEF InitiateWrite
  <2>2. CASE stopped \/ writing
    BY <1>9, <2>2 DEF InitiateWrite, NoLostWakeup
  <2> QED BY <2>1, <2>2
<1>10. CASE SendResponse
  <2>1. Head(tasks) \in Range(tasks)
    BY <1>10, RangeHeadTail DEF SendResponse, TypeOK
  <2>2. Head(tasks).answer # "close"
    BY <1>10, <2>1 DEF SendResponse, AnswersFromScripts
  <2>3. \/ UNCHANGED <<streams, toRespond, writeSignaled>>
        \/ writeSignaled' = TRUE
    BY <1>10, <2>2 DEF SendResponse
  <2>4. UNCHANGED <<stopped, insideCallback, writing>>
    BY <1>10 DEF SendResponse, connVars
  <2> QED BY <1>1, <1>2, <2>3, <2>4
<1>11. ASSUME NEW s \in Strands, NEW a \in LuaOutcomes, OffloadRun(s, a)
       PROVE  UNCHANGED <<stopped, streams, toRespond, insideCallback, writing,
                          writeSignaled>>
  BY <1>11 DEF OffloadRun, connVars, handlerVars
<1>12. CASE UNCHANGED vars
  BY <1>1, <1>12 DEF vars, connVars, handlerVars
<1> QED BY <1>1, <1>2, <1>4, <1>5, <1>6, <1>7, <1>8, <1>9, <1>10, <1>11, <1>12 DEF Next

\* As long as scripts answer (status code 0 closes a stream without
\* signal_write), a response that may be written is always looked at again:
\* by the read callback, the completion of the write or a posted
\* initiate_write.
THEOREM WakeupsArrive == LuaOutcomes \subseteq {"respond"} => (Spec => []NoLostWakeup)
<1>1. Init => AnswersFromScripts /\ NoLostWakeup
  BY RangeEmpty DEF Init, AnswersFromScripts, NoLostWakeup, HeadAnswered
<1> SUFFICES ASSUME LuaOutcomes \subseteq {"respond"} PROVE Spec => []NoLostWakeup
  OBVIOUS
<1>2. TypeOK /\ AnswersFromScripts /\ NoLostWakeup /\ [Next]_vars => NoLostWakeup'
  BY WakeupStep
<1> QED BY <1>1, <1>2, TypeCorrect, AnswersFromScriptsStep, PTL DEF Spec

-----------------------------------------------------------------------------
(* Ending at the client's wish                                             *)

\* An open stream without an answer is being parsed or is with its script:
\* there is no third place where a request could be forgotten.  (A stopped
\* connection drops the answers that come too late.)
WithScript ==
    /\ ~stopped => \A i \in streams \ toRespond :
                       i \in AtScript \/ (parsing /\ i = requestCount)
    /\ ~keepAlive => ~parsing

LEMMA WithScriptInit == Init => WithScript
BY DEF Init, WithScript

LEMMA WithScriptStep ==
    TypeOK /\ StreamBookkeeping /\ AnswerOnce /\ WithScript /\ [Next]_vars => WithScript'
<1> SUFFICES ASSUME TypeOK, StreamBookkeeping, AnswerOnce, WithScript, [Next]_vars
             PROVE  WithScript'
  OBVIOUS
<1>t. tasks \in Seq(Tasks) /\ requestCount \in Nat /\ PostedOnce(tasks)
  BY DEF TypeOK, AnswerOnce
<1>k. (stopped => stopped') /\ (~keepAlive' => ~parsing')
  <2>1. DoWriteIdle => (stopped => stopped')
    BY DEF DoWriteIdle, Stop
  <2> QED
    BY <2>1 DEF Next, vars, WriteOk, WriteError, ReadSome, ReadError, MsgBegin, ReadDone,
       ParseError, MsgComplete, InitiateWrite, SendResponse, OffloadRun, Deadline, Stop,
       connVars, handlerVars, WithScript
<1> DEFINE Goal == \A i \in streams \ toRespond :
                       i \in AtScript \/ (parsing /\ i = requestCount)
<1>g. Goal' => WithScript'
  BY <1>k DEF WithScript
<1>h. stopped' => WithScript'
  BY <1>k DEF WithScript
<1> SUFFICES ASSUME ~stopped' PROVE Goal'
  BY <1>g, <1>h
<1>i. ~stopped /\ Goal
  BY <1>k DEF WithScript
\* A step that opens no stream, takes none from its script and ends no message.
<1>s. ASSUME streams' \ toRespond' \subseteq streams \ toRespond,
             AtScript \cap (streams' \ toRespond') \subseteq AtScript',
             UNCHANGED <<parsing, requestCount>>
      PROVE  Goal'
  BY <1>s, <1>i
<1>1. CASE UNCHANGED <<streams, toRespond, tasks, strandQ, parsing, requestCount>>
  <2>1. AtScript' = AtScript
    BY <1>1 DEF AtScript
  <2> QED BY <1>1, <1>s, <2>1
<1>2. ASSUME DoWriteIdle PROVE streams' \ toRespond' \subseteq streams \ toRespond
  BY <1>2, DoWriteIdleEffect DEF StreamBookkeeping
<1>3. CASE WriteOk \/ ReadDone
  <2>1. AtScript' = AtScript /\ UNCHANGED <<parsing, requestCount>>
    BY <1>3 DEF WriteOk, ReadDone, AtScript
  <2>2. streams' \ toRespond' \subseteq streams \ toRespond
    BY <1>2, <1>3 DEF WriteOk, ReadDone
  <2> QED BY <1>s, <2>1, <2>2
<1>4. CASE WriteError \/ ReadSome \/ ReadError \/ ParseError \/ Deadline
  BY <1>1, <1>4 DEF WriteError, ReadSome, ReadError, ParseError, Deadline, handlerVars
<1>5. CASE MsgBegin
  <2>1. AtScript' = AtScript
    BY <1>5 DEF MsgBegin, AtScript
  <2>2. /\  parsing' /\ ~parsing
        /\ requestCount' = requestCount + 1
        /\ streams' = streams \cup {requestCount + 1}
        /\ toRespond' = toRespond
    BY <1>5 DEF MsgBegin
  <2> QED BY <1>i, <2>1, <2>2
<1>6. ASSUME NEW o \in Outcomes, NEW alive \in BOOLEAN, MsgComplete(o, alive)
      PROVE  Goal'
  <2>1. /\ ~parsing'
        /\ requestCount' = requestCount
        /\ tasks' = tasks
        /\ requestCount \in Requests
    BY <1>6 DEF MsgComplete, StreamBookkeeping, TypeOK
  <2>2. CASE Respond(requestCount) \/ CloseStream(requestCount)
    <3>1. AtScript' = AtScript /\ streams' \ toRespond' \subseteq (streams \ toRespond) \ {requestCount}
      BY <2>1, <2>2 DEF Respond, CloseStream, AtScript
    <3> QED BY <1>i, <2>1, <3>1
  <2>3. CASE Offload(requestCount)
    <3>1. PICK r \in Strands :
            strandQ' = [strandQ EXCEPT ![r] = Append(strandQ[r], requestCount)]
      BY <2>3 DEF Offload
    <3>2. PICK q \in Seq(Requests) : q = strandQ[r]
      BY DEF TypeOK
    <3>3. /\ Range(strandQ'[r]) = Range(q) \cup {requestCount}
          /\ \A s \in Strands \ {r} : strandQ'[s] = strandQ[s]
      BY <2>1, <3>1, <3>2, RangeAppend DEF TypeOK
    <3>4. \A s \in Strands : Range(strandQ[s]) \subseteq Range(strandQ'[s])
      BY <3>2, <3>3
    <3>5. AtScript \cup {requestCount} \subseteq AtScript'
      BY <2>1, <3>3, <3>4 DEF AtScript
    <3>6. UNCHANGED <<streams, toRespond>>
      BY <2>3 DEF Offload
    <3> QED BY <1>i, <2>1, <3>5, <3>6
  <2> QED BY <1>6, <2>2, <2>3 DEF MsgComplete
<1>7. CASE InitiateWrite
  <2>1. Posted(tasks') = Posted(tasks)
    <3>1. Range(tasks) = {Head(tasks)} \cup Range(Tail(tasks)) /\ tasks' = Tail(tasks)
      BY <1>7, <1>t, RangeHeadTail DEF InitiateWrite
    <3>2. Head(tasks).kind # "send_response"
      BY <1>7 DEF InitiateWrite, InitiateWriteTask
    <3> QED BY <3>1, <3>2 DEF Posted
  <2>2. AtScript' = AtScript /\ UNCHANGED <<parsing, requestCount>>
    BY <1>7, <2>1 DEF InitiateWrite, AtScript
  <2>3. streams' \ toRespond' \subseteq streams \ toRespond
    BY <1>2, <1>7 DEF InitiateWrite
  <2> QED BY <1>s, <2>2, <2>3
<1>8. CASE SendResponse
  <2> DEFINE i == Head(tasks).id
  <2>1. Range(tasks) = {Head(tasks)} \cup Range(Tail(tasks))
    BY <1>8, <1>t, RangeHeadTail DEF SendResponse
  <2>2. Posted(tasks) \subseteq {i} \cup Posted(Tail(tasks))
    BY <2>1 DEF Posted
  <2>3. Posted(Tail(tasks)) \subseteq Posted(tasks')
    <3>1. PICK rest \in Seq(Tasks) : rest = Tail(tasks)
      BY <1>8, <1>t, QueueOps DEF SendResponse
    <3>2. Range(Append(rest, InitiateWriteTask)) = Range(rest) \cup {InitiateWriteTask}
      BY TaskTypes, RangeAppend
    <3>3. tasks' = rest \/ tasks' = Append(rest, InitiateWriteTask)
      BY <1>8, <3>1 DEF SendResponse
    <3>4. Range(rest) \subseteq Range(tasks')
      BY <3>2, <3>3
    <3> QED BY <3>1, <3>4 DEF Posted
  <2>4. AtScript \ {i} \subseteq AtScript'
    BY <1>8, <2>2, <2>3 DEF SendResponse, AtScript
  <2>5. HandlerAlive
    BY <1>i DEF HandlerAlive
  <2>6. streams' \ toRespond' \subseteq (streams \ toRespond) \ {i}
    BY <1>8, <2>5 DEF SendResponse
  <2> QED BY <1>8, <1>s, <2>4, <2>6 DEF SendResponse
<1>9. ASSUME NEW s \in Strands, NEW a \in LuaOutcomes, OffloadRun(s, a)
      PROVE  Goal'
  <2>1. PICK q \in Seq(Requests) : q = strandQ[s] /\ q # << >>
    BY <1>9 DEF TypeOK, OffloadRun
  <2>2. Range(q) = {Head(q)} \cup Range(Tail(q))
    BY <2>1, RangeHeadTail
  <2>3. PICK e \in Tasks : e = SendResponseTask(Head(q), a)
    BY <2>1, QueueOps, TaskTypes, Http1Assumption
  <2>4. Range(tasks') = Range(tasks) \cup {e}
    BY <1>9, <1>t, <2>1, <2>3, RangeAppend DEF OffloadRun
  <2>5. e.kind = "send_response" /\ e.id = Head(q)
    BY <2>3 DEF SendResponseTask
  <2>6. Posted(tasks') = Posted(tasks) \cup {Head(q)}
    BY <2>4, <2>5 DEF Posted
  <2>7. /\ strandQ'[s] = Tail(q)
        /\ \A r \in Strands \ {s} : strandQ'[r] = strandQ[r]
    BY <1>9, <2>1 DEF OffloadRun, TypeOK
  <2>8. AtScript \subseteq AtScript'
    <3>1. ASSUME NEW r \in Strands PROVE Range(strandQ[r]) \subseteq AtScript'
      BY <2>1, <2>2, <2>6, <2>7 DEF AtScript
    <3> QED BY <2>6, <3>1 DEF AtScript
  <2> QED BY <1>9, <1>s, <2>8 DEF OffloadRun, handlerVars
<1>10. CASE UNCHANGED vars
  BY <1>1, <1>10 DEF vars, handlerVars
<1> QED BY <1>3, <1>4, <1>5, <1>6, <1>7, <1>8, <1>9, <1>10 DEF Next

\* When do_write has nothing to write on an open connection that is not to be
\* kept alive, the oldest open stream is with its script.
LEMMA OldestWithScript ==
    ASSUME TypeOK, StreamBookkeeping, WithScript, ~stopped, ~HeadAnswered, ~keepAlive,
           NEW i \in streams
    PROVE  \E j \in AtScript \cap streams : j <= i
<1>1. PICK m \in streams : \A j \in streams : m <= j
  <2>1. streams \in SUBSET Nat /\ streams # {}
    BY Http1Assumption DEF TypeOK, Requests
  <2> QED BY <2>1, LeastNumber
<1>2. m \notin toRespond
  BY <1>1 DEF HeadAnswered, StreamBookkeeping
<1>3. m \in AtScript
  BY <1>2 DEF WithScript
<1> QED BY <1>1, <1>3

\* A connection ends at its client's wish only over requests that wait
\* behind one whose script still runs: do_write never gives up a response it
\* could have written.
THEOREM ClosesOnlyOverScripts == Spec => CloseOnlyOverScripts
<1> DEFINE Gone == stopCause # "should_stop" /\ stopCause' = "should_stop"
           Excused == \A i \in streams' : \E j \in AtScript' \cap streams' : j <= i
<1>1. ASSUME TypeOK, StreamBookkeeping, WithScript, [Next]_vars, Gone
      PROVE  Excused
  <2>1. ASSUME DoWriteIdle, ~stopped, AtScript' = AtScript PROVE Excused
    <3>1. /\ ~HeadAnswered
          /\ ~keepAlive
          /\ streams' = streams
      BY <1>1, <2>1 DEF DoWriteIdle, Stop
    <3> QED BY <1>1, <2>1, <3>1, OldestWithScript
  <2>2. CASE WriteOk
    <3>1. ~stopped /\ DoWriteIdle
      BY <1>1, <2>2 DEF WriteOk
    <3>2. AtScript' = AtScript
      BY <2>2 DEF WriteOk, AtScript
    <3> QED BY <2>1, <3>1, <3>2
  <2>3. CASE ReadDone
    <3>1. ~stopped /\ DoWriteIdle
      BY <1>1, <2>3 DEF ReadDone
    <3>2. AtScript' = AtScript
      BY <2>3 DEF ReadDone, AtScript
    <3> QED BY <2>1, <3>1, <3>2
  <2>4. CASE InitiateWrite
    <3>1. ~stopped /\ DoWriteIdle
      BY <1>1, <2>4 DEF InitiateWrite
    <3>2. Range(tasks) = {Head(tasks)} \cup Range(Tail(tasks)) /\ tasks' = Tail(tasks)
      BY <1>1, <2>4, RangeHeadTail DEF InitiateWrite, TypeOK
    <3>3. Head(tasks).kind # "send_response"
      BY <2>4 DEF InitiateWrite, InitiateWriteTask
    <3>4. Posted(tasks') = Posted(tasks)
      BY <3>2, <3>3 DEF Posted
    <3>5. AtScript' = AtScript
      BY <2>4, <3>4 DEF InitiateWrite, AtScript
    <3> QED BY <2>1, <3>1, <3>5
  <2>5. CASE WriteError \/ ReadError \/ ParseError \/ Deadline
    BY <1>1, <2>5 DEF WriteError, ReadError, ParseError, Deadline, Stop
  <2>6. CASE ReadSome \/ MsgBegin \/ SendResponse
    BY <1>1, <2>6 DEF ReadSome, MsgBegin, SendResponse, connVars
  <2>7. ASSUME NEW o \in Outcomes, NEW alive \in BOOLEAN, MsgComplete(o, alive)
        PROVE  FALSE
    BY <1>1, <2>7 DEF MsgComplete, connVars
  <2>8. ASSUME NEW s \in Strands, NEW a \in LuaOutcomes, OffloadRun(s, a)
        PROVE  FALSE
    BY <1>1, <2>8 DEF OffloadRun, connVars
  <2>9. CASE UNCHANGED vars
    BY <1>1, <2>9 DEF vars, connVars
  <2> QED BY <1>1, <2>2, <2>3, <2>4, <2>5, <2>6, <2>7, <2>8, <2>9 DEF Next
<1>2. TypeOK /\ StreamBookkeeping /\ WithScript /\ [Next]_vars => [Gone => Excused]_vars
  BY <1>1
<1> HIDE DEF Gone, Excused
<1>3. Spec => [][Gone => Excused]_vars
  BY <1>2, WithScriptInit, WithScriptStep, BookkeepingInvariant, PTL DEF Spec
<1> QED BY <1>3 DEF Gone, Excused, CloseOnlyOverScripts
=============================================================================
