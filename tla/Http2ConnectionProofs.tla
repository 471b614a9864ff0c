------------------------ MODULE Http2ConnectionProofs ------------------------
(***************************************************************************)
(* TLAPS proofs about Http2Connection, for any number of streams, any size *)
(* of the output buffer and any outcomes of callbacks and scripts.         *)
(***************************************************************************)
EXTENDS Http2Connection, QueueLemmas

-----------------------------------------------------------------------------
(* The inductive invariant                                                 *)

\* The ids of the answers in a queue of posted handlers.
Posted(q) == {t.id : t \in {u \in Range(q) : u.kind = "send_response"}}

\* No two of them answer the same stream.
PostedOnce(q) ==
    \A j, k \in DOMAIN q :
        /\ q[j].kind = "send_response"
        /\ q[k].kind = "send_response"
        /\ q[j].id = q[k].id
        => j = k

\* The frames nghttp2 still has to deal with.
FrameSet == Range(queue) \cup Range(aob)

\* The streams whose response was submitted and is not yet wholly pulled, and
\* those among them with a body.
Pulling   == {i \in Ids : provider[i] # "none"}
Responded == Pulling \cup {f.id : f \in {g \in FrameSet : g.type = "headers"}}
Bodies    == Pulling \cup {f.id : f \in {g \in FrameSet : g.type = "headers" /\ g.kind # "head"}}

\* A request is dispatched once, when it ends; then it is with a script, with
\* a posted answer, or answered: never with two of them.
OneAnswer ==
    /\ \A i \in dispatched : sess[i] \in {"half_closed", "closed"}
    /\ scripts \cup Posted(tasks) \cup Responded \subseteq dispatched
    /\ scripts \cap Posted(tasks) = {}
    /\ (scripts \cup Posted(tasks)) \cap Responded = {}
    /\ PostedOnce(tasks)

\* on_write runs with an empty stash on a connection that neither writes nor
\* is stopped; outside it, outbuf_ and buf_ hold chunks only during a write.
Buffers ==
    /\ pc = "send" => stash = << >> /\ ~stopped /\ ~writing
    /\ pc # "send" /\ ~writing => outbuf = << >> /\ (stopped \/ stash = << >>)
    /\ writing /\ outbuf = << >> => stopped
    /\ unsent = outbuf \o stash \/ (stopped /\ outbuf = << >>)
    /\ ~garbled

\* write_signaled_ is set only while initiate_write is posted.
Signals ==
    /\ writeSignaled => InitiateWriteTask \in Range(tasks)
    /\ NoLostWakeup

\* should_stop is the cause only of a connection with nothing left to write,
\* and with no stream left to open.
Endings ==
    /\ stopped <=> stopCause # "none"
    /\ stopCause = "should_stop" =>
          /\ unsent = << >>
          /\ goaway # "none"
          /\ goaway # "sent" => Active = {}

IInv == TypeOK /\ OneAnswer /\ ProviderAlive /\ Buffers /\ Signals /\ Endings

-----------------------------------------------------------------------------
(* Frames, tasks and queues                                                *)

\* What is queued and posted has its type.
LEMMA ElementTypes ==
    /\ \A i \in Ids, k \in Kinds \cup {"none"} : /\ Frame(i, "headers", k) \in Frames
                                               /\ Frame(i, "data", k) \in Frames
    /\ \A i \in 0..MaxStreams : /\ Frame(i, "rst", "none") \in Frames
                                /\ Frame(i, "trailers", "none") \in Frames
    /\ Frame(0, "goaway", "none") \in Frames
    /\ InitiateWriteTask \in Tasks
    /\ \A i \in Ids, a \in LuaOutcomes : SendResponseTask(i, a) \in Tasks
BY Http2Assumption DEF Ids, Kinds, Types, Frame, Frames, InitiateWriteTask, SendResponseTask, Tasks

\* What start queues is typed and answers nothing.
LEMMA PrefaceFrames ==
    /\ Preface \in Seq(Frames)
    /\ \A f \in Range(Preface) : f.type # "headers"
<1>1. /\ Frame(0, "settings", "none") \in Frames /\ Frame(0, "window_update", "none") \in Frames
      /\ Frame(0, "settings", "none").type = "settings"
      /\ Frame(0, "window_update", "none").type = "window_update"
  BY Http2Assumption DEF Types, Frame, Frames
<1> DEFINE settings == <<Frame(0, "settings", "none")>>
           update   == <<Frame(0, "window_update", "none")>>
<1>2. /\ settings \in Seq(Frames) /\ update \in Seq(Frames)
      /\ Range(settings) = {Frame(0, "settings", "none")}
      /\ Range(update) = {Frame(0, "window_update", "none")}
  BY <1>1 DEF Range
<1>3. CASE WideWindow
  <2>1. Preface = settings \o update
    BY <1>3 DEF Preface
  <2> HIDE DEF settings, update
  <2>2. Preface \in Seq(Frames) /\ Range(Preface) = Range(settings) \cup Range(update)
    BY <1>2, <2>1, RangeConcat, ConcatProperties
  <2> QED BY <1>1, <1>2, <2>2
<1>4. CASE ~WideWindow
  <2>1. Preface = settings \o << >>
    BY <1>4 DEF Preface
  <2> HIDE DEF settings
  <2>2. Preface = settings
    BY <1>2, <2>1, ConcatEmptySeq
  <2> QED BY <1>1, <1>2, <2>2
<1> QED BY <1>3, <1>4

\* The answers in the queue of posted handlers after a handler is appended or
\* taken.
LEMMA PostedAppend ==
    ASSUME NEW q \in Seq(Tasks), NEW e \in Tasks, PostedOnce(q),
           e.kind = "send_response" => e.id \notin Posted(q)
    PROVE  /\ PostedOnce(Append(q, e))
           /\ Posted(Append(q, e)) =
                  Posted(q) \cup (IF e.kind = "send_response" THEN {e.id} ELSE {})
<1>1. /\ Len(q) \in Nat
      /\ DOMAIN q = 1..Len(q)
      /\ DOMAIN Append(q, e) = 1..(Len(q) + 1)
      /\ \A k \in 1..Len(q) : Append(q, e)[k] = q[k]
      /\ Append(q, e)[Len(q) + 1] = e
  OBVIOUS
<1>2. ASSUME NEW k \in 1..Len(q), q[k].kind = "send_response",
             e.kind = "send_response"
      PROVE  q[k].id # e.id
  BY <1>1, <1>2 DEF Range, Posted
<1>3. PostedOnce(Append(q, e))
  BY <1>1, <1>2 DEF PostedOnce
<1>4. Range(Append(q, e)) = Range(q) \cup {e}
  BY RangeAppend
<1> QED BY <1>3, <1>4 DEF Posted

LEMMA PostedTail ==
    ASSUME NEW q \in Seq(Tasks), q # << >>, PostedOnce(q)
    PROVE  /\ PostedOnce(Tail(q))
           /\ Posted(Tail(q)) \subseteq Posted(q)
           /\ Head(q).kind = "send_response" =>
                  Head(q).id \in Posted(q) /\ Head(q).id \notin Posted(Tail(q))
<1>1. /\ Len(q) \in Nat \ {0}
      /\ DOMAIN q = 1..Len(q)
      /\ DOMAIN Tail(q) = 1..(Len(q) - 1)
      /\ \A k \in 1..(Len(q) - 1) : Tail(q)[k] = q[k + 1]
      /\ Head(q) = q[1]
  OBVIOUS
<1>2. PostedOnce(Tail(q))
  BY <1>1 DEF PostedOnce
<1>3. Head(q) \in Range(q) /\ Range(Tail(q)) \subseteq Range(q)
  BY RangeHeadTail
<1>4. ASSUME Head(q).kind = "send_response", Head(q).id \in Posted(Tail(q))
      PROVE  FALSE
  <2>1. PICK k \in 1..(Len(q) - 1) :
          q[k + 1].kind = "send_response" /\ q[k + 1].id = q[1].id
    BY <1>1, <1>4 DEF Posted, Range
  <2> QED BY <1>1, <1>4, <2>1 DEF PostedOnce
<1> QED BY <1>2, <1>3, <1>4 DEF Posted

-----------------------------------------------------------------------------
(* Type correctness                                                        *)

LEMMA TypeInit == Init => TypeOK
<1>1. << >> \in Seq(Frames) /\ << >> \in Seq(Tasks) /\ Len(<< >>) = 0
  BY QueueOps
<1>2. 0 <= BufferChunks /\ 0 <= 1
  BY Http2Assumption
<1>3. ASSUME Init PROVE Len(outbuf) <= BufferChunks /\ Len(stash) <= 1
  BY <1>1, <1>2, <1>3 DEF Init
<1> QED BY <1>1, <1>3, PrefaceFrames DEF Init, TypeOK, StopCauses, Kinds

\* Entering on_write and taking a chunk in it.
LEMMA EnterWriteType ==
    ASSUME TypeOK, NEW read \in BOOLEAN, EnterWrite(read)
    PROVE  /\ pc' \in {"idle", "recv", "send"} /\ fromRead' \in BOOLEAN
           /\ outbuf' \in Seq(Frames) /\ Len(outbuf') <= BufferChunks
           /\ stash' \in Seq(Frames) /\ Len(stash') <= 1
<1>1. << >> \in Seq(Frames) /\ Len(<< >>) = 0
  BY QueueOps
<1>2. Len(stash) \in Nat /\ Len(stash) <= 1
  BY DEF TypeOK
<1> QED BY <1>1, <1>2, Http2Assumption DEF TypeOK, EnterWrite

LEMMA TakeType ==
    ASSUME TypeOK, NEW f \in Frames, Take(f)
    PROVE  /\ aob' \in Seq(Frames) /\ unsent' \in Seq(Frames)
           /\ outbuf' \in Seq(Frames) /\ Len(outbuf') <= BufferChunks
           /\ stash' \in Seq(Frames) /\ Len(stash') <= 1
           /\ pc' \in {"idle", "recv", "send"}
           /\ writing' \in BOOLEAN /\ reading' \in BOOLEAN
<1>1. <<f>> \in Seq(Frames) /\ Len(<<f>>) = 1
  OBVIOUS
<1>2. Append(unsent, f) \in Seq(Frames)
  BY DEF TypeOK
<1>3. /\ Append(outbuf, f) \in Seq(Frames)
      /\ Len(Append(outbuf, f)) = Len(outbuf) + 1
      /\ Len(outbuf) \in Nat
  BY DEF TypeOK
<1>4. Len(outbuf') <= BufferChunks /\ Len(stash') <= 1
  <2>1. CASE /\ Len(outbuf) < BufferChunks
             /\ outbuf' = Append(outbuf, f) /\ stash' = stash
    BY <1>3, <2>1, Http2Assumption DEF TypeOK
  <2>2. CASE outbuf' = outbuf /\ stash' = <<f>>
    BY <1>1, <2>2 DEF TypeOK
  <2> QED BY <2>1, <2>2 DEF Take
<1> QED BY <1>1, <1>2, <1>3, <1>4 DEF TypeOK, Take

LEMMA TypeStep == TypeOK /\ [Next]_vars => TypeOK'
<1> SUFFICES ASSUME TypeOK, [Next]_vars PROVE TypeOK'
  OBVIOUS
<1>f. /\ << >> \in Seq(Frames)
      /\ \A q \in Seq(Frames) : q # << >> => Head(q) \in Frames /\ Tail(q) \in Seq(Frames)
      /\ \A q \in Seq(Frames), e \in Frames : Append(q, e) \in Seq(Frames)
  BY QueueOps
<1>t. /\ \A q \in Seq(Tasks) : q # << >> => Head(q) \in Tasks /\ Tail(q) \in Seq(Tasks)
      /\ \A q \in Seq(Tasks), e \in Tasks : Append(q, e) \in Seq(Tasks)
  BY QueueOps
<1>0. 0 <= BufferChunks /\ Len(<< >>) = 0
  BY Http2Assumption
<1>1. CASE ReadSome
  BY <1>1 DEF TypeOK, ReadSome, sessVars, histVars
<1>2. CASE ReadError
  BY <1>2 DEF TypeOK, ReadError, Stop, StopCauses, sessVars, histVars
<1>3. CASE RecvGoaway
  BY <1>3 DEF TypeOK, RecvGoaway, connVars, histVars
<1>4. CASE RecvBadFrame
  BY <1>4, <1>f, ElementTypes DEF TypeOK, RecvBadFrame, connVars, histVars
<1>5. CASE RecvFails
  BY <1>5 DEF TypeOK, RecvFails, Stop, StopCauses, sessVars, histVars
<1>6. CASE RecvDone
  <2>1. CASE EnterWrite(TRUE) /\ UNCHANGED reading
    BY <1>6, <2>1, EnterWriteType DEF TypeOK, RecvDone, sessVars, histVars
  <2>2. CASE ~(EnterWrite(TRUE) /\ UNCHANGED reading)
    BY <1>6, <2>2 DEF TypeOK, RecvDone, sessVars, histVars
  <2> QED BY <2>1, <2>2
<1>7. ASSUME NEW i \in Ids, RecvHeaders(i) PROVE TypeOK'
  BY <1>7 DEF TypeOK, RecvHeaders, connVars, histVars
<1>8. ASSUME NEW i \in Ids, RecvTrailers(i) PROVE TypeOK'
  BY <1>8 DEF TypeOK, RecvTrailers, connVars, histVars
<1>9. ASSUME NEW i \in Ids, RecvOversizedHeader(i) PROVE TypeOK'
  <2>1. Frame(i, "rst", "none") \in Frames
    BY ElementTypes, Http2Assumption DEF Ids
  <2> QED BY <1>9, <1>f, <2>1 DEF TypeOK, RecvOversizedHeader, connVars, histVars
<1>10. ASSUME NEW i \in Ids, RecvRst(i) PROVE TypeOK'
  BY <1>10 DEF TypeOK, RecvRst, SessionClose, connVars, histVars
<1>11. ASSUME NEW i \in Ids, RecvWindowUpdate(i) PROVE TypeOK'
  BY <1>11 DEF TypeOK, RecvWindowUpdate, connVars, histVars
<1>12. ASSUME NEW i \in Ids, SendData(i) PROVE TypeOK'
  <2>1. Frame(i, "data", provider[i]) \in Frames
    BY ElementTypes DEF TypeOK
  <2>2. queue' \in Seq(Frames)
    <3>1. Frame(i, "trailers", "none") \in Frames
      BY ElementTypes, Http2Assumption DEF Ids
    <3> QED BY <1>12, <3>1 DEF SendData
  <2>3. provider' \in [Ids -> Kinds \cup {"none"}]
    BY <1>12 DEF TypeOK, SendData
  <2>4. Take(Frame(i, "data", provider[i]))
    BY <1>12 DEF SendData
  <2> QED BY <1>12, <2>1, <2>2, <2>3, <2>4, TakeType DEF TypeOK, SendData
<1>13. ASSUME NEW i \in Ids, NEW o \in Outcomes, RecvEnd(i, o) PROVE TypeOK'
  <2>1. CASE Dispatch(i, o)
    <3>1. /\ dispatched' \in SUBSET Ids /\ streams' \in SUBSET Ids
          /\ scripts' \in SUBSET Ids /\ queue' \in Seq(Frames)
      BY <2>1, <1>f, ElementTypes DEF TypeOK, Dispatch, SubmitResponse
    <3> QED BY <1>13, <3>1 DEF TypeOK, RecvEnd, connVars, histVars
  <2>2. CASE ~Dispatch(i, o)
    BY <1>13, <2>2 DEF TypeOK, RecvEnd, connVars, histVars
  <2> QED BY <2>1, <2>2
<1>14. ASSUME NEW i \in Ids, NEW a \in LuaOutcomes, OffloadRun(i, a) PROVE TypeOK'
  BY <1>14, <1>t, ElementTypes DEF TypeOK, OffloadRun, connVars, sessVars, histVars
<1>15. CASE AfterSent
  <2>1. Head(aob) \in Frames
    BY <1>15, <1>f DEF TypeOK, AfterSent
  <2>2. Head(aob).kind \in Kinds \cup {"none"}
    BY <2>1 DEF Frames
  <2>3. /\ sess' \in [Ids -> {"idle", "open", "half_closed", "closed"}]
        /\ provider' \in [Ids -> Kinds \cup {"none"}]
        /\ streams' \in SUBSET Ids
        /\ goaway' \in {"none", "received", "terminating", "sent"}
    BY <1>15, <2>2 DEF TypeOK, AfterSent, SessionClose
  <2> QED BY <1>15, <1>f, <2>3 DEF TypeOK, AfterSent, connVars, histVars
<1>16. CASE DropFrame
  <2>1. Head(queue) \in Frames /\ Tail(queue) \in Seq(Frames)
    BY <1>16, <1>f DEF TypeOK, DropFrame
  <2>2. Frame(Head(queue).id, "rst", "none") \in Frames
    BY <2>1, ElementTypes DEF Frames
  <2>3. queue' \in Seq(Frames)
    BY <1>16, <1>f, <2>1, <2>2 DEF DropFrame
  <2> QED BY <1>16, <2>3 DEF TypeOK, DropFrame, connVars, histVars
<1>17. CASE SendFrame
  <2>1. Head(queue) \in Frames /\ Tail(queue) \in Seq(Frames)
    BY <1>17, <1>f DEF TypeOK, SendFrame
  <2>2. Take(Head(queue))
    BY <1>17 DEF SendFrame
  <2> QED BY <1>17, <2>1, <2>2, TakeType DEF TypeOK, SendFrame
<1>18. CASE SendDone
  BY <1>18 DEF TypeOK, SendDone, Stop, StopCauses, sessVars, histVars
<1>19. CASE WriteOk
  <2>1. unsent' \in Seq(Frames) /\ garbled' \in BOOLEAN
    <3>1. CASE IsPrefix(outbuf, unsent)
      <4>1. SubSeq(unsent, Len(outbuf) + 1, Len(unsent)) \in Seq(Frames)
        BY SubSeqProperties DEF TypeOK
      <4> QED BY <1>19, <3>1, <4>1 DEF WriteOk, Written, TypeOK
    <3>2. CASE ~IsPrefix(outbuf, unsent)
      BY <1>19, <3>2 DEF WriteOk, Written, TypeOK
    <3> QED BY <3>1, <3>2
  <2>2. CASE EnterWrite(FALSE)
    BY <1>19, <2>1, <2>2, EnterWriteType DEF TypeOK, WriteOk, sessVars
  <2>3. CASE ~EnterWrite(FALSE)
    BY <1>19, <1>0, <1>f, <2>1, <2>3 DEF TypeOK, WriteOk, sessVars
  <2> QED BY <2>2, <2>3
<1>20. CASE WriteError
  BY <1>20, <1>0, <1>f DEF TypeOK, WriteError, Stop, StopCauses, sessVars, histVars
<1>21. CASE InitiateWrite
  <2>1. CASE EnterWrite(FALSE)
    BY <1>21, <1>t, <2>1, EnterWriteType DEF TypeOK, InitiateWrite, sessVars, histVars
  <2>2. CASE ~EnterWrite(FALSE)
    BY <1>21, <1>t, <2>2 DEF TypeOK, InitiateWrite, sessVars, histVars
  <2> QED BY <2>1, <2>2
<1>22. CASE SendResponse
  <2>1. Head(tasks) \in Tasks /\ Tail(tasks) \in Seq(Tasks)
    BY <1>22, <1>t DEF TypeOK, SendResponse
  <2>2. tasks' \in Seq(Tasks)
    BY <1>22, <1>t, <2>1, ElementTypes DEF SendResponse
  <2>3. queue' \in Seq(Frames)
    <3>1. CASE queue' = queue
      BY <3>1 DEF TypeOK
    <3>2. CASE /\ Head(tasks).id \in streams /\ Head(tasks).answer # "close"
               /\ SubmitResponse(Head(tasks).id, Head(tasks).answer)
      <4>1. Head(tasks).answer \in Kinds \cup {"none"}
        BY <2>1, <3>2 DEF Tasks, Kinds
      <4> QED BY <1>f, <3>2, <4>1, ElementTypes DEF TypeOK, SubmitResponse
    <3> QED BY <1>22, <3>1, <3>2 DEF SendResponse
  <2>4. streams' \in SUBSET Ids /\ writeSignaled' \in BOOLEAN
    BY <1>22 DEF TypeOK, SendResponse
  <2> QED BY <1>22, <2>2, <2>3, <2>4 DEF TypeOK, SendResponse, connVars, histVars
<1>23. CASE Deadline
  BY <1>23 DEF TypeOK, Deadline, Stop, StopCauses, sessVars, histVars
<1>24. CASE UNCHANGED vars
  BY <1>24 DEF TypeOK, vars, connVars, sessVars, histVars
<1> QED BY <1>1, <1>2, <1>3, <1>4, <1>5, <1>6, <1>7, <1>8, <1>9, <1>10, <1>11, <1>12,
           <1>13, <1>14, <1>15, <1>16, <1>17, <1>18, <1>19, <1>20, <1>21, <1>22,
           <1>23, <1>24 DEF Next

-----------------------------------------------------------------------------
(* The buffers                                                             *)

LEMMA BuffersInit == Init => Buffers
BY ConcatEmptySeq, QueueOps DEF Init, Buffers

\* What is written is a prefix of what the session handed out; the rest of
\* that is the stash.
LEMMA WrittenPrefix ==
    ASSUME NEW p \in Seq(Frames), NEW q \in Seq(Frames)
    PROVE  /\ IsPrefix(p, p \o q)
           /\ SubSeq(p \o q, Len(p) + 1, Len(p \o q)) = q
<1>1. p \o q \in Seq(Frames) /\ Len(p \o q) = Len(p) + Len(q)
  BY ConcatProperties
<1>2. IsPrefix(p, p \o q)
  BY <1>1 DEF IsPrefix
<1> QED BY <1>1, <1>2, SubSeqOfConcat2

LEMMA EnterWriteBuffers ==
    ASSUME TypeOK, NEW read, EnterWrite(read), ~stopped, stopped' = stopped,
           ~writing', unsent' = stash, ~garbled'
    PROVE  Buffers'
<1>1. outbuf' \o stash' = stash
  BY ConcatEmptySeq DEF TypeOK, EnterWrite
<1> QED BY <1>1 DEF Buffers, EnterWrite

LEMMA TakeBuffers ==
    ASSUME TypeOK, Buffers, NEW f \in Frames, pc = "send", Take(f),
           UNCHANGED <<stopped, garbled>>
    PROVE  Buffers'
<1>1. stash = << >> /\ ~stopped /\ ~writing /\ unsent = outbuf
  BY ConcatEmptySeq DEF TypeOK, Buffers
<1>2. /\ Append(outbuf, f) \o << >> = Append(outbuf, f)
      /\ outbuf \o <<f>> = Append(outbuf, f)
      /\ Append(outbuf, f) # << >>
  <2>1. outbuf \in Seq(Frames) /\ Append(outbuf, f) \in Seq(Frames)
    BY QueueOps DEF TypeOK
  <2>2. Append(outbuf, f) \o << >> = Append(outbuf, f)
    BY <2>1, ConcatEmptySeq
  <2>3. outbuf \o <<f>> = Append(outbuf, f)
    BY <2>1, AppendIsConcat
  <2>4. Append(outbuf, f) # << >>
    BY <2>1, AppendProperties
  <2> QED BY <2>2, <2>3, <2>4
<1>3. Len(outbuf) = BufferChunks => outbuf # << >>
  BY Http2Assumption
<1>4. CASE outbuf' = Append(outbuf, f) /\ UNCHANGED <<stash, pc, writing, reading>>
  BY <1>1, <1>2, <1>4 DEF Buffers, Take
<1>5. CASE /\ Len(outbuf) = BufferChunks /\ UNCHANGED outbuf
           /\ stash' = <<f>> /\ writing' = TRUE /\ pc' = "idle"
  BY <1>1, <1>2, <1>3, <1>5 DEF Buffers, Take
<1> QED BY <1>4, <1>5 DEF Take

LEMMA BuffersStep == TypeOK /\ Buffers /\ [Next]_vars => Buffers'
<1> SUFFICES ASSUME TypeOK, Buffers, [Next]_vars PROVE Buffers'
  OBVIOUS
<1>e. \A q \in Seq(Frames) : q \o << >> = q /\ << >> \o q = q
  BY ConcatEmptySeq
<1>1. CASE ReadSome
  BY <1>1 DEF Buffers, ReadSome, histVars
<1>2. CASE ReadError
  BY <1>2 DEF Buffers, ReadError, Stop, histVars
<1>3. CASE RecvGoaway
  BY <1>3 DEF Buffers, RecvGoaway, connVars, histVars
<1>4. CASE RecvBadFrame
  BY <1>4 DEF Buffers, RecvBadFrame, connVars, histVars
<1>5. CASE RecvFails
  BY <1>5 DEF Buffers, RecvFails, Stop, histVars
<1>6. CASE RecvDone
  <2>1. CASE ~stopped /\ ~writing /\ EnterWrite(TRUE)
    <3>1. unsent = stash /\ ~garbled
      BY <1>6, <1>e, <2>1 DEF Buffers, TypeOK, RecvDone
    <3> QED BY <1>6, <2>1, <3>1, EnterWriteBuffers DEF RecvDone, histVars
  <2>2. CASE stopped \/ writing
    BY <1>6, <2>2 DEF Buffers, RecvDone, histVars
  <2> QED BY <1>6, <2>1, <2>2 DEF RecvDone
<1>7. ASSUME NEW i \in Ids,
             \/ RecvHeaders(i) \/ RecvTrailers(i) \/ RecvOversizedHeader(i)
             \/ RecvRst(i) \/ RecvWindowUpdate(i)
      PROVE  Buffers'
  BY <1>7 DEF Buffers, RecvHeaders, RecvTrailers, RecvOversizedHeader, RecvRst,
              RecvWindowUpdate, connVars, histVars
<1>8. ASSUME NEW i \in Ids, SendData(i) PROVE Buffers'
  <2>1. Frame(i, "data", provider[i]) \in Frames
    BY ElementTypes DEF TypeOK
  <2> QED BY <1>8, <2>1, TakeBuffers DEF SendData
<1>9. ASSUME NEW i \in Ids, NEW o \in Outcomes, RecvEnd(i, o) PROVE Buffers'
  BY <1>9 DEF Buffers, RecvEnd, connVars, histVars
<1>10. ASSUME NEW i \in Ids, NEW a \in LuaOutcomes, OffloadRun(i, a) PROVE Buffers'
  BY <1>10 DEF Buffers, OffloadRun, connVars, histVars
<1>11. CASE AfterSent
  BY <1>11 DEF Buffers, AfterSent, connVars, histVars
<1>12. CASE DropFrame
  BY <1>12 DEF Buffers, DropFrame, connVars, histVars
<1>13. CASE SendFrame
  <2>1. Head(queue) \in Frames
    BY <1>13, QueueOps DEF TypeOK, SendFrame
  <2> QED BY <1>13, <2>1, TakeBuffers DEF SendFrame
<1>14. CASE SendDone
  BY <1>14 DEF Buffers, SendDone, Stop, histVars
<1>15. CASE WriteOk
  <2>1. unsent = outbuf \o stash
    BY <1>15 DEF Buffers, WriteOk
  <2>2. unsent' = stash /\ ~garbled'
    BY <1>15, <2>1, WrittenPrefix DEF TypeOK, Buffers, WriteOk, Written
  <2>3. CASE ~stopped /\ EnterWrite(FALSE)
    BY <1>15, <2>2, <2>3, EnterWriteBuffers DEF WriteOk
  <2>4. CASE stopped /\ outbuf' = << >> /\ UNCHANGED <<pc, fromRead, stash>>
    BY <1>15, <1>e, <2>2, <2>4 DEF TypeOK, Buffers, WriteOk
  <2> QED BY <1>15, <2>3, <2>4 DEF WriteOk
<1>16. CASE WriteError
  BY <1>16 DEF Buffers, WriteError, Stop, histVars
<1>17. CASE InitiateWrite
  <2>1. CASE ~stopped /\ ~writing /\ EnterWrite(FALSE)
    <3>1. unsent = stash /\ ~garbled
      BY <1>17, <1>e, <2>1 DEF Buffers, TypeOK, InitiateWrite
    <3> QED BY <1>17, <2>1, <3>1, EnterWriteBuffers DEF InitiateWrite, histVars
  <2>2. CASE (stopped \/ writing) /\ UNCHANGED <<pc, fromRead, outbuf, stash>>
    BY <1>17, <2>2 DEF Buffers, InitiateWrite, histVars
  <2> QED BY <1>17, <2>1, <2>2 DEF InitiateWrite
<1>18. CASE SendResponse
  BY <1>18 DEF Buffers, SendResponse, connVars, histVars
<1>19. CASE Deadline
  BY <1>19 DEF Buffers, Deadline, Stop, histVars
<1>20. CASE UNCHANGED vars
  BY <1>20 DEF Buffers, vars, connVars, histVars
<1> QED BY <1>1, <1>2, <1>3, <1>4, <1>5, <1>6, <1>7, <1>8, <1>9, <1>10, <1>11, <1>12,
           <1>13, <1>14, <1>15, <1>16, <1>17, <1>18, <1>19, <1>20 DEF Next

-----------------------------------------------------------------------------
(* Wake-ups                                                                *)

\* The preface is queued; the first read is outstanding.
LEMMA SignalsInit == Init => Signals
BY DEF Init, Signals, NoLostWakeup, BeforeFirstRead

\* What WantWrite depends on.
LEMMA WantWriteStable ==
    ASSUME UNCHANGED <<sess, queue, aob, provider, blocked, goaway>>
    PROVE  WantWrite' = WantWrite
BY DEF WantWrite, Sendable, Active, Ending

\* A step that leaves the session and the buffers alone and keeps a posted
\* initiate_write loses no wake-up.
LEMMA SignalsKept ==
    ASSUME Signals,
           UNCHANGED <<sess, queue, aob, provider, blocked, goaway, writing,
                       stash, writeSignaled>>,
           stopped => stopped', pc' = "idle" => stopped' \/ pc = "idle",
           stopped' \/ UNCHANGED reading,
           InitiateWriteTask \in Range(tasks) => InitiateWriteTask \in Range(tasks')
    PROVE  Signals'
BY WantWriteStable DEF Signals, NoLostWakeup, BeforeFirstRead

\* Nor does one that ends in a handler.
LEMMA SignalsInside ==
    ASSUME Signals, pc' # "idle", UNCHANGED <<writeSignaled, tasks>>
    PROVE  Signals'
BY DEF Signals, NoLostWakeup

LEMMA SignalsStep == TypeOK /\ Buffers /\ Signals /\ [Next]_vars => Signals'
<1> SUFFICES ASSUME TypeOK, Buffers, Signals, [Next]_vars PROVE Signals'
  OBVIOUS
<1>1. CASE ReadSome
  BY <1>1, SignalsInside DEF ReadSome
<1>2. CASE ReadError \/ Deadline
  BY <1>2, SignalsKept DEF ReadError, Deadline, Stop, sessVars
<1>3. CASE RecvGoaway \/ RecvBadFrame
  BY <1>3, SignalsInside DEF RecvGoaway, RecvBadFrame, Receiving
<1>4. CASE RecvFails
  BY <1>4, SignalsKept DEF RecvFails, Stop, sessVars
<1>5. CASE RecvDone
  BY <1>5 DEF RecvDone, EnterWrite, Signals, NoLostWakeup
<1>6. ASSUME NEW i \in Ids,
             \/ RecvHeaders(i) \/ RecvTrailers(i) \/ RecvOversizedHeader(i)
             \/ RecvRst(i) \/ RecvWindowUpdate(i) \/ \E o \in Outcomes : RecvEnd(i, o)
      PROVE  Signals'
  BY <1>6, SignalsInside DEF RecvHeaders, MayOpen, RecvTrailers, RecvOversizedHeader,
     RecvRst, RecvWindowUpdate, RecvEnd, Receiving
<1>7. ASSUME NEW i \in Ids, SendData(i) PROVE Signals'
  BY <1>7 DEF SendData, Take, Signals, NoLostWakeup
<1>8. ASSUME NEW i \in Ids, NEW a \in LuaOutcomes, OffloadRun(i, a) PROVE Signals'
  <2>1. Range(tasks') = Range(tasks) \cup {SendResponseTask(i, a)}
    BY <1>8, ElementTypes, RangeAppend DEF TypeOK, OffloadRun
  <2> QED BY <1>8, <2>1, SignalsKept DEF OffloadRun, connVars, sessVars
<1>9. CASE AfterSent \/ DropFrame
  BY <1>9, SignalsInside DEF AfterSent, DropFrame
<1>10. CASE SendFrame
  BY <1>10 DEF SendFrame, Take, Signals, NoLostWakeup
<1>11. CASE SendDone
  <2>1. stash' = << >> /\ ~WantWrite'
    <3>1. ~WantWrite
      BY <1>11 DEF SendDone, WantWrite
    <3> QED BY <1>11, <3>1, WantWriteStable DEF SendDone, Buffers, sessVars
  <2> QED BY <1>11, <2>1 DEF SendDone, Signals, NoLostWakeup
<1>12. CASE WriteOk
  BY <1>12 DEF WriteOk, EnterWrite, Signals, NoLostWakeup
<1>13. CASE WriteError
  BY <1>13 DEF WriteError, Stop, Signals, NoLostWakeup
<1>14. CASE InitiateWrite
  BY <1>14 DEF InitiateWrite, EnterWrite, Signals, NoLostWakeup
<1>15. CASE SendResponse
  <2>1. /\ Tail(tasks) \in Seq(Tasks)
        /\ InitiateWriteTask \in Range(tasks) => InitiateWriteTask \in Range(Tail(tasks))
    <3>1. Range(tasks) = {Head(tasks)} \cup Range(Tail(tasks))
      BY <1>15, RangeHeadTail DEF TypeOK, SendResponse
    <3>2. Head(tasks) # InitiateWriteTask
      BY <1>15 DEF SendResponse, InitiateWriteTask
    <3> QED BY <1>15, <3>1, <3>2, QueueOps DEF TypeOK, SendResponse
  <2>2. CASE tasks' = Tail(tasks) /\ UNCHANGED <<queue, writeSignaled>>
    BY <1>15, <2>1, <2>2, SignalsKept DEF SendResponse, connVars
  <2>3. CASE tasks' = IF writeSignaled THEN Tail(tasks)
                      ELSE Append(Tail(tasks), InitiateWriteTask)
    <3>1. Range(Append(Tail(tasks), InitiateWriteTask))
             = Range(Tail(tasks)) \cup {InitiateWriteTask}
      <4>1. InitiateWriteTask \in Tasks
        BY ElementTypes
      <4> QED BY <1>15, <4>1, RangeAppendTail DEF TypeOK, SendResponse
    <3>2. InitiateWriteTask \in Range(tasks')
      BY <2>1, <2>3, <3>1 DEF Signals
    <3> QED BY <3>2 DEF Signals, NoLostWakeup
  <2> QED BY <1>15, <2>2, <2>3 DEF SendResponse
<1>16. CASE UNCHANGED vars
  BY <1>16, SignalsKept DEF vars, connVars, sessVars
<1> QED BY <1>1, <1>2, <1>3, <1>4, <1>5, <1>6, <1>7, <1>8, <1>9, <1>10, <1>11, <1>12,
           <1>13, <1>14, <1>15, <1>16 DEF Next

-----------------------------------------------------------------------------
(* The end of the connection                                               *)

LEMMA EndingsInit == Init => Endings
BY DEF Init, Endings

\* A connection that has ended stays as it ended while the session is left
\* alone.
LEMMA EndingsKept ==
    ASSUME Endings, UNCHANGED <<stopped, stopCause, unsent, sess, goaway>>
    PROVE  Endings'
BY DEF Endings, Active

\* It ends once.
LEMMA EndingsStop ==
    ASSUME Endings, NEW cause \in {"read", "session", "write", "deadline"},
           Stop(cause), UNCHANGED <<unsent, sess, goaway>>
    PROVE  Endings'
BY DEF Endings, Active, Stop

\* Nothing is opened, answered or handed out after should_stop.
LEMMA EndingsStep == TypeOK /\ Buffers /\ Endings /\ [Next]_vars => Endings'
<1> SUFFICES ASSUME TypeOK, Buffers, Endings, [Next]_vars PROVE Endings'
  OBVIOUS
<1>1. CASE ReadSome \/ RecvDone
  BY <1>1, EndingsKept DEF ReadSome, RecvDone, sessVars, histVars
<1>2. CASE ReadError \/ RecvFails \/ WriteError \/ Deadline
  BY <1>2, EndingsStop DEF ReadError, RecvFails, WriteError, Deadline, sessVars, histVars
<1>3. CASE RecvGoaway \/ RecvBadFrame
  BY <1>3 DEF RecvGoaway, RecvBadFrame, Receiving, Endings, Active, connVars, histVars
<1>4. ASSUME NEW i \in Ids, RecvHeaders(i) PROVE Endings'
  BY <1>4 DEF RecvHeaders, MayOpen, Endings, connVars, histVars
<1>5. ASSUME NEW i \in Ids,
             RecvTrailers(i) \/ RecvRst(i) \/ \E o \in Outcomes : RecvEnd(i, o)
      PROVE  Endings'
  <2>1. i \in Active /\ goaway # "sent"
    BY <1>5 DEF RecvTrailers, RecvRst, RecvEnd, Receiving, Active
  <2> QED BY <1>5, <2>1 DEF RecvTrailers, RecvRst, RecvEnd, Endings, connVars, histVars
<1>6. ASSUME NEW i \in Ids, RecvOversizedHeader(i) \/ RecvWindowUpdate(i) PROVE Endings'
  BY <1>6, EndingsKept DEF RecvOversizedHeader, RecvWindowUpdate, connVars, histVars
<1>7. ASSUME NEW i \in Ids, SendData(i) PROVE Endings'
  BY <1>7 DEF SendData, Buffers, Endings
<1>8. ASSUME NEW i \in Ids, NEW a \in LuaOutcomes, OffloadRun(i, a) PROVE Endings'
  BY <1>8, EndingsKept DEF OffloadRun, connVars, sessVars, histVars
<1>9. CASE AfterSent
  BY <1>9 DEF AfterSent, Buffers, Endings, connVars
<1>10. CASE DropFrame \/ SendFrame
  BY <1>10 DEF DropFrame, SendFrame, Buffers, Endings, connVars
<1>11. CASE SendDone
  <2>1. CASE UNCHANGED <<stopped, stopCause>>
    BY <1>11, <2>1, EndingsKept DEF SendDone, sessVars, histVars
  <2>2. CASE outbuf = << >> /\ ShouldStop /\ Stop("should_stop")
    <3>1. unsent = << >>
      BY <1>11, <2>2, ConcatEmptySeq, QueueOps DEF SendDone, Buffers
    <3>2. goaway = "sent" \/ (Active = {} /\ goaway = "received")
      BY <2>2 DEF ShouldStop, WantRead
    <3>3. unsent' = << >> /\ goaway' = goaway /\ Active' = Active
      BY <1>11, <3>1 DEF SendDone, sessVars, histVars, Active
    <3> QED BY <2>2, <3>2, <3>3 DEF Endings, Stop
  <2> QED BY <1>11, <2>1, <2>2 DEF SendDone
<1>12. CASE WriteOk
  <2>1. unsent # << >>
    BY <1>12, ConcatEqualIffEmpty DEF TypeOK, WriteOk, Buffers
  <2> QED BY <1>12, <2>1 DEF WriteOk, Endings
<1>13. CASE InitiateWrite \/ SendResponse
  BY <1>13, EndingsKept DEF InitiateWrite, SendResponse, connVars, sessVars, histVars
<1>14. CASE UNCHANGED vars
  BY <1>14, EndingsKept DEF vars, connVars, sessVars, histVars
<1> QED BY <1>1, <1>2, <1>3, <1>4, <1>5, <1>6, <1>7, <1>8, <1>9, <1>10, <1>11, <1>12,
           <1>13, <1>14 DEF Next

-----------------------------------------------------------------------------
(* One answer per request                                                  *)

\* Pointed, without the concatenation.
PointedAreBodies == Pointed = Active \cap Bodies

LEMMA PointedBodies == TypeOK => PointedAreBodies
<1> SUFFICES ASSUME TypeOK PROVE PointedAreBodies
  OBVIOUS
<1>1. Range(queue \o aob) = FrameSet
  BY RangeConcat DEF TypeOK, FrameSet
<1> QED BY <1>1 DEF PointedAreBodies, Pointed, Active, Bodies, Pulling

LEMMA PointedBodiesNext == TypeOK' => PointedAreBodies'
BY PointedBodies, PTL

LEMMA OneAnswerInit == Init => OneAnswer /\ ProviderAlive
<1> SUFFICES ASSUME Init PROVE OneAnswer /\ ProviderAlive
  OBVIOUS
<1>1. FrameSet = Range(Preface) /\ Posted(tasks) = {} /\ PostedOnce(tasks)
  BY RangeEmpty DEF Init, FrameSet, Posted, PostedOnce
<1>2. Responded = {} /\ Bodies = {} /\ Active = {}
  BY <1>1, PrefaceFrames DEF Init, Responded, Bodies, Pulling, Active
<1> QED BY <1>1, <1>2, TypeInit, PointedBodies DEF Init, OneAnswer, ProviderAlive, PointedAreBodies

\* The frames after nghttp2 queues one more.
LEMMA FramesAppend ==
    ASSUME TypeOK, NEW f \in Frames, queue' = Append(queue, f), aob' = aob
    PROVE  FrameSet' = FrameSet \cup {f}
BY RangeAppend DEF TypeOK, FrameSet

LEMMA SubmitFrames ==
    ASSUME NEW i, NEW k, FrameSet' = FrameSet \cup {Frame(i, "headers", k)},
           provider' = provider
    PROVE  Responded' = Responded \cup {i} /\ Bodies' \subseteq Bodies \cup {i}
<1> DEFINE f == Frame(i, "headers", k)
<1>1. f.type = "headers" /\ f.id = i /\ f \in FrameSet'
  BY DEF Frame
<1>2. Pulling' = Pulling
  BY DEF Pulling
<1>3. ASSUME NEW g \in FrameSet' PROVE g \in FrameSet \/ g = f
  OBVIOUS
<1> HIDE DEF f
<1>4. Responded' \subseteq Responded \cup {i} /\ Bodies' \subseteq Bodies \cup {i}
  BY <1>1, <1>2, <1>3 DEF Responded, Bodies
<1>5. i \in Responded'
  BY <1>1 DEF Responded
<1>6. Responded \subseteq Responded'
  BY <1>2 DEF Responded
<1> QED BY <1>4, <1>5, <1>6

\* Only the callback and send_response submit a response.
NoNewHeaders == \A f \in FrameSet' : f \in FrameSet \/ f.type # "headers"

LEMMA FramesStep ==
    ASSUME TypeOK, [Next]_vars, ~SendResponse,
           \A i \in Ids, o \in Outcomes : ~RecvEnd(i, o)
    PROVE  NoNewHeaders
<1>1. CASE UNCHANGED <<queue, aob>>
  BY <1>1 DEF NoNewHeaders, FrameSet
<1>2. CASE RecvBadFrame
  BY <1>2, FramesAppend, ElementTypes DEF RecvBadFrame, NoNewHeaders, Frame
<1>3. ASSUME NEW i \in Ids, RecvOversizedHeader(i) PROVE NoNewHeaders
  <2>1. Frame(i, "rst", "none") \in Frames
    BY ElementTypes, Http2Assumption DEF Ids
  <2> QED BY <1>3, <2>1, FramesAppend DEF RecvOversizedHeader, NoNewHeaders, Frame
<1>4. ASSUME NEW i \in Ids, SendData(i) PROVE NoNewHeaders
  <2>1. Range(aob') = {Frame(i, "data", provider[i])}
    BY <1>4 DEF SendData, Take, Range
  <2>2. Range(queue') \subseteq {Frame(i, "trailers", "none")}
    BY <1>4 DEF SendData, Range
  <2> QED BY <2>1, <2>2 DEF NoNewHeaders, FrameSet, Frame
<1>5. CASE AfterSent
  BY <1>5, RangeEmpty DEF AfterSent, NoNewHeaders, FrameSet
<1>6. CASE DropFrame
  <2>1. /\ Head(queue) \in Frames /\ Tail(queue) \in Seq(Frames)
        /\ Range(Tail(queue)) \subseteq Range(queue)
    BY <1>6, QueueOps, RangeHeadTail DEF TypeOK, DropFrame
  <2>2. Frame(Head(queue).id, "rst", "none") \in Frames
    BY <2>1, ElementTypes DEF Frames
  <2>3. Range(queue') \subseteq Range(Tail(queue)) \cup {Frame(Head(queue).id, "rst", "none")}
    BY <1>6, <2>2, RangeAppendTail DEF TypeOK, DropFrame
  <2> QED BY <1>6, <2>1, <2>3 DEF DropFrame, NoNewHeaders, FrameSet, Frame
<1>7. CASE SendFrame
  <2>1. Head(queue) \in Range(queue) /\ Range(Tail(queue)) \subseteq Range(queue)
    BY <1>7, RangeHeadTail DEF TypeOK, SendFrame
  <2>2. Range(aob') = {Head(queue)}
    BY <1>7 DEF SendFrame, Take, Range
  <2> QED BY <1>7, <2>1, <2>2 DEF SendFrame, NoNewHeaders, FrameSet
<1>8. CASE \/ ReadSome \/ ReadError \/ RecvGoaway \/ RecvFails \/ RecvDone \/ SendDone
           \/ WriteOk \/ WriteError \/ InitiateWrite \/ Deadline \/ UNCHANGED vars
  BY <1>1, <1>8 DEF ReadSome, ReadError, RecvGoaway, RecvFails, RecvDone, SendDone, WriteOk,
     WriteError, InitiateWrite, Deadline, vars, sessVars
<1>9. ASSUME NEW i \in Ids,
             \/ RecvHeaders(i) \/ RecvTrailers(i) \/ RecvRst(i) \/ RecvWindowUpdate(i)
             \/ \E a \in LuaOutcomes : OffloadRun(i, a)
      PROVE  NoNewHeaders
  BY <1>1, <1>9 DEF RecvHeaders, RecvTrailers, RecvRst, RecvWindowUpdate, OffloadRun, sessVars
<1> QED BY <1>2, <1>3, <1>4, <1>5, <1>6, <1>7, <1>8, <1>9 DEF Next

\* Every other step only brings the pending responses forward.
LEMMA ResponsesShrink ==
    ASSUME TypeOK, [Next]_vars, ~SendResponse,
           \A i \in Ids, o \in Outcomes : ~RecvEnd(i, o)
    PROVE  Responded' \subseteq Responded /\ Bodies' \subseteq Bodies
<1>1. NoNewHeaders
  BY FramesStep
<1>2. CASE Pulling' \subseteq Pulling
  BY <1>1, <1>2 DEF NoNewHeaders, Responded, Bodies
<1>3. CASE AfterSent
  <2>1. Head(aob) \in FrameSet
    BY <1>3, RangeHeadTail DEF TypeOK, AfterSent, FrameSet
  <2>2. CASE /\ Head(aob).type = "headers" /\ ~Ends(Head(aob))
             /\ provider' = [provider EXCEPT ![Head(aob).id] = Head(aob).kind]
    <3>1. Head(aob).kind # "head"
      BY <2>2 DEF Ends
    <3>2. Pulling' \subseteq Pulling \cup {Head(aob).id}
      BY <2>2 DEF TypeOK, Pulling
    <3>3. Head(aob).id \in Responded /\ Head(aob).id \in Bodies
      BY <2>1, <2>2, <3>1 DEF Responded, Bodies
    <3> QED BY <1>1, <3>2, <3>3 DEF NoNewHeaders, Responded, Bodies
  <2>3. CASE UNCHANGED provider \/ SessionClose(Head(aob).id)
    <3>1. Pulling' \subseteq Pulling
      BY <2>3 DEF TypeOK, Pulling, SessionClose
    <3> QED BY <1>2, <3>1
  <2> QED BY <1>3, <2>2, <2>3 DEF AfterSent
<1>4. CASE UNCHANGED provider
  BY <1>2, <1>4 DEF Pulling
<1>5. ASSUME NEW i \in Ids, RecvRst(i) \/ SendData(i) PROVE Pulling' \subseteq Pulling
  BY <1>5 DEF TypeOK, RecvRst, SessionClose, SendData, Pulling
<1>6. CASE \/ ReadSome \/ ReadError \/ RecvGoaway \/ RecvBadFrame \/ RecvFails \/ RecvDone
           \/ DropFrame \/ SendFrame \/ SendDone \/ WriteOk \/ WriteError \/ InitiateWrite
           \/ Deadline \/ UNCHANGED vars
  BY <1>4, <1>6 DEF ReadSome, ReadError, RecvGoaway, RecvBadFrame, RecvFails, RecvDone, DropFrame,
     SendFrame, SendDone, WriteOk, WriteError, InitiateWrite, Deadline, vars, sessVars
<1>7. ASSUME NEW i \in Ids,
             \/ RecvHeaders(i) \/ RecvTrailers(i) \/ RecvOversizedHeader(i)
             \/ RecvWindowUpdate(i) \/ \E a \in LuaOutcomes : OffloadRun(i, a)
      PROVE  UNCHANGED provider
  BY <1>7 DEF RecvHeaders, RecvTrailers, RecvOversizedHeader, RecvWindowUpdate, OffloadRun, sessVars
<1> QED BY <1>2, <1>3, <1>4, <1>5, <1>6, <1>7 DEF Next

\* A step that leaves scripts and posted answers alone.
LEMMA OneAnswerKept ==
    ASSUME OneAnswer, Responded' \subseteq Responded,
           UNCHANGED <<dispatched, scripts, tasks>>,
           \A i \in dispatched : sess'[i] = sess[i] \/ sess'[i] = "closed"
    PROVE  OneAnswer'
BY DEF OneAnswer

LEMMA OneAnswerStep == TypeOK /\ OneAnswer /\ [Next]_vars => OneAnswer'
<1> SUFFICES ASSUME TypeOK, OneAnswer, [Next]_vars PROVE OneAnswer'
  OBVIOUS
<1>1. ASSUME NEW i \in Ids, NEW o \in Outcomes, RecvEnd(i, o) PROVE OneAnswer'
  <2>1. i \notin dispatched /\ i \notin scripts \cup Posted(tasks) \cup Responded
    BY <1>1 DEF OneAnswer, RecvEnd
  <2>2. /\ UNCHANGED <<tasks, aob, provider>>
        /\ sess'[i] = "half_closed"
        /\ \A j \in dispatched : sess'[j] = sess[j]
    BY <1>1, <2>1 DEF TypeOK, RecvEnd
  <2>3. CASE Dispatch(i, o) /\ o \in Kinds
    <3>1. Frame(i, "headers", o) \in Frames /\ queue' = Append(queue, Frame(i, "headers", o))
      BY <2>3, ElementTypes DEF Dispatch, SubmitResponse, Kinds
    <3>2. FrameSet' = FrameSet \cup {Frame(i, "headers", o)}
      BY <2>2, <3>1, FramesAppend
    <3>3. Responded' = Responded \cup {i}
      BY <2>2, <3>2, SubmitFrames
    <3>4. dispatched' = dispatched \cup {i} /\ scripts' = scripts
      BY <2>3 DEF Dispatch, Kinds
    <3> QED BY <2>1, <2>2, <3>3, <3>4 DEF OneAnswer
  <2>4. CASE Dispatch(i, o) /\ o \notin Kinds
    <3>1. Responded' = Responded
      BY <2>2, <2>4 DEF Dispatch, Responded, Pulling, FrameSet
    <3>2. /\ dispatched' = dispatched \cup {i}
          /\ scripts' \subseteq scripts \cup {i} /\ scripts \subseteq scripts'
      BY <2>4 DEF Dispatch
    <3> QED BY <2>1, <2>2, <3>1, <3>2 DEF OneAnswer
  <2>5. CASE UNCHANGED <<dispatched, queue, streams, scripts>>
    <3>1. Responded' = Responded
      BY <2>2, <2>5 DEF Responded, Pulling, FrameSet
    <3> QED BY <2>2, <2>5, <3>1 DEF OneAnswer
  <2> QED BY <1>1, <2>3, <2>4, <2>5 DEF RecvEnd
<1>2. CASE SendResponse
  <2> DEFINE i == Head(tasks).id
             rest == Tail(tasks)
  <2>1. /\ rest \in Seq(Tasks) /\ PostedOnce(rest) /\ Posted(rest) \subseteq Posted(tasks)
        /\ i \in Posted(tasks) /\ i \notin Posted(rest)
    BY <1>2, PostedTail, QueueOps DEF TypeOK, OneAnswer, SendResponse
  <2>2. UNCHANGED <<scripts, sess, aob, provider, dispatched>>
    BY <1>2 DEF SendResponse
  <2>3. CASE tasks' = rest /\ UNCHANGED queue
    <3>1. Responded' = Responded
      BY <2>2, <2>3 DEF Responded, Pulling, FrameSet
    <3> QED BY <2>1, <2>2, <2>3, <3>1 DEF OneAnswer
  <2>4. CASE /\ i \in streams
             /\ SubmitResponse(i, Head(tasks).answer)
             /\ tasks' = IF writeSignaled THEN rest ELSE Append(rest, InitiateWriteTask)
    <3>1. Frame(i, "headers", Head(tasks).answer) \in Frames
      <4>0. Head(tasks) \in Tasks
        BY <1>2, QueueOps DEF TypeOK, SendResponse
      <4>1. Head(tasks).answer \in Kinds \cup {"none", "close"}
        BY <4>0 DEF Tasks, Kinds
      <4>2. Head(tasks).answer # "close"
        BY <1>2, <2>4 DEF SendResponse, SubmitResponse
      <4> QED BY <2>4, <4>1, <4>2, ElementTypes DEF TypeOK
    <3>2. FrameSet' = FrameSet \cup {Frame(i, "headers", Head(tasks).answer)}
      BY <2>2, <2>4, <3>1, FramesAppend DEF SubmitResponse
    <3>3. Responded' = Responded \cup {i}
      BY <2>2, <3>2, SubmitFrames
    <3>4. PostedOnce(tasks') /\ Posted(tasks') = Posted(rest)
      <4>1. InitiateWriteTask \in Tasks /\ InitiateWriteTask.kind # "send_response"
        BY ElementTypes DEF InitiateWriteTask
      <4>2. /\ PostedOnce(Append(rest, InitiateWriteTask))
            /\ Posted(Append(rest, InitiateWriteTask)) = Posted(rest)
        <5> HIDE DEF rest
        <5> QED BY <2>1, <4>1, PostedAppend
      <4> QED BY <2>1, <2>4, <4>2
    <3>5. i \in dispatched /\ i \notin scripts
      BY <2>1 DEF OneAnswer
    <3> QED BY <2>1, <2>2, <3>3, <3>4, <3>5 DEF OneAnswer
  <2> QED BY <1>2, <2>3, <2>4 DEF SendResponse
<1>3. CASE ~SendResponse /\ \A i \in Ids, o \in Outcomes : ~RecvEnd(i, o)
  <2>r. Responded' \subseteq Responded
    BY <1>3, ResponsesShrink
  <2>1. CASE InitiateWrite
    <3>1. Posted(tasks') \subseteq Posted(tasks) /\ PostedOnce(tasks')
      BY <2>1, PostedTail DEF TypeOK, OneAnswer, InitiateWrite
    <3> QED BY <2>1, <2>r, <3>1 DEF OneAnswer, InitiateWrite, sessVars
  <2>2. ASSUME NEW i \in Ids, NEW a \in LuaOutcomes, OffloadRun(i, a) PROVE OneAnswer'
    <3>1. /\ SendResponseTask(i, a) \in Tasks
          /\ SendResponseTask(i, a).kind = "send_response" /\ SendResponseTask(i, a).id = i
      BY ElementTypes DEF SendResponseTask
    <3>2. i \in dispatched /\ i \notin Posted(tasks) /\ i \notin Responded
      BY <2>2 DEF OneAnswer, OffloadRun
    <3>3. Posted(tasks') = Posted(tasks) \cup {i} /\ PostedOnce(tasks')
      BY <2>2, <3>1, <3>2, PostedAppend DEF TypeOK, OneAnswer, OffloadRun
    <3> QED BY <2>2, <2>r, <3>2, <3>3 DEF OneAnswer, OffloadRun, sessVars
  <2>3. ASSUME NEW i \in Ids, RecvHeaders(i) \/ RecvTrailers(i) \/ RecvRst(i)
        PROVE  OneAnswer'
    <3>1. \A j \in dispatched : sess'[j] = sess[j] \/ sess'[j] = "closed"
      BY <2>3 DEF TypeOK, OneAnswer, RecvHeaders, MayOpen, RecvTrailers, RecvRst, SessionClose
    <3> QED BY <2>3, <2>r, <3>1, OneAnswerKept DEF RecvHeaders, RecvTrailers, RecvRst
  <2>4. CASE AfterSent
    <3>1. \A j \in dispatched : sess'[j] = sess[j] \/ sess'[j] = "closed"
      BY <2>4 DEF TypeOK, AfterSent, SessionClose
    <3> QED BY <2>4, <2>r, <3>1, OneAnswerKept DEF AfterSent
  <2>5. ASSUME NEW i \in Ids, RecvOversizedHeader(i) \/ RecvWindowUpdate(i) \/ SendData(i)
        PROVE  OneAnswer'
    BY <2>5, <2>r, OneAnswerKept DEF RecvOversizedHeader, RecvWindowUpdate, SendData
  <2>6. CASE \/ ReadSome \/ ReadError \/ RecvGoaway \/ RecvBadFrame \/ RecvFails \/ RecvDone
             \/ DropFrame \/ SendFrame \/ SendDone \/ WriteOk \/ WriteError \/ Deadline
             \/ UNCHANGED vars
    BY <2>6, <2>r, OneAnswerKept DEF ReadSome, ReadError, RecvGoaway, RecvBadFrame, RecvFails,
       RecvDone, DropFrame, SendFrame, SendDone, WriteOk, WriteError, Deadline, vars, sessVars
  <2> QED BY <1>3, <2>1, <2>2, <2>3, <2>4, <2>5, <2>6 DEF Next
<1> QED BY <1>1, <1>2, <1>3

-----------------------------------------------------------------------------
(* The streams nghttp2 points at                                           *)

LEMMA BodiesResponded == Bodies \subseteq Responded
BY DEF Bodies, Responded

\* Closing a stream of the session takes it out of everything at once.
LEMMA AliveClose ==
    ASSUME TypeOK, TypeOK', ProviderAlive, NEW i \in Ids, SessionClose(i),
           Bodies' \subseteq Bodies
    PROVE  ProviderAlive'
<1>1. Active' = Active \ {i}
  BY DEF TypeOK, SessionClose, Active
<1> QED BY <1>1, PointedBodies, PointedBodiesNext DEF ProviderAlive, PointedAreBodies, SessionClose

\* Everything else leaves the session's streams as they are.
LEMMA AliveKept ==
    ASSUME TypeOK, TypeOK', ProviderAlive, UNCHANGED streams, Active' = Active,
           Bodies' \subseteq Bodies
    PROVE  ProviderAlive'
BY PointedBodies, PointedBodiesNext DEF ProviderAlive, PointedAreBodies

LEMMA AliveStep == TypeOK /\ TypeOK' /\ OneAnswer /\ ProviderAlive /\ [Next]_vars => ProviderAlive'
<1> SUFFICES ASSUME TypeOK, TypeOK', OneAnswer, ProviderAlive, [Next]_vars
             PROVE  ProviderAlive'
  OBVIOUS
<1>p. Pointed = Active \cap Bodies /\ Pointed' = Active' \cap Bodies'
  BY PointedBodies, PointedBodiesNext DEF PointedAreBodies
<1>1. ASSUME NEW i \in Ids, NEW o \in Outcomes, RecvEnd(i, o) PROVE ProviderAlive'
  <2>1. Active' = Active
    BY <1>1 DEF TypeOK, RecvEnd, Active
  <2>2. UNCHANGED <<aob, provider>>
    BY <1>1 DEF RecvEnd
  <2>3. CASE i \in streams /\ Dispatch(i, o) /\ o \in Kinds
    <3>1. /\ Frame(i, "headers", o) \in Frames /\ queue' = Append(queue, Frame(i, "headers", o))
          /\ streams' = streams
      BY <2>3, ElementTypes DEF Dispatch, SubmitResponse, Kinds
    <3>2. FrameSet' = FrameSet \cup {Frame(i, "headers", o)}
      BY <2>2, <3>1, FramesAppend
    <3>3. Bodies' \subseteq Bodies \cup {i}
      BY <2>2, <3>2, SubmitFrames
    <3> QED BY <1>p, <2>1, <2>3, <3>1, <3>3 DEF ProviderAlive
  <2>4. CASE Dispatch(i, o) /\ o \notin Kinds
    <3>1. Bodies' = Bodies
      BY <2>2, <2>4 DEF Dispatch, Bodies, Pulling, FrameSet
    <3>2. i \notin Bodies
      BY <1>1, BodiesResponded DEF OneAnswer, RecvEnd
    <3>3. streams' = streams \/ streams' = streams \ {i}
      BY <2>4 DEF Dispatch
    <3> QED BY <1>p, <2>1, <3>1, <3>2, <3>3 DEF ProviderAlive
  <2>5. CASE UNCHANGED <<dispatched, queue, streams, scripts>>
    <3>1. Bodies' = Bodies
      BY <2>2, <2>5 DEF Bodies, Pulling, FrameSet
    <3> QED BY <2>1, <2>5, <3>1, AliveKept
  <2> QED BY <1>1, <2>3, <2>4, <2>5 DEF RecvEnd
<1>2. CASE SendResponse
  <2> DEFINE i == Head(tasks).id
             a == Head(tasks).answer
  <2>1. i \notin Bodies
    BY <1>2, BodiesResponded, PostedTail DEF TypeOK, OneAnswer, SendResponse
  <2>2. UNCHANGED <<sess, aob, provider>> /\ Active' = Active
    BY <1>2 DEF SendResponse, Active
  <2>3. CASE UNCHANGED queue /\ (streams' = streams \/ streams' = streams \ {i})
    <3>1. Bodies' = Bodies
      BY <2>2, <2>3 DEF Bodies, Pulling, FrameSet
    <3> QED BY <1>p, <2>1, <2>2, <2>3, <3>1 DEF ProviderAlive
  <2>4. CASE i \in streams /\ a # "close" /\ SubmitResponse(i, a) /\ UNCHANGED streams
    <3>1. Frame(i, "headers", a) \in Frames
      <4>1. Head(tasks) \in Tasks
        BY <1>2, QueueOps DEF TypeOK, SendResponse
      <4>2. a \in Kinds \cup {"none"}
        BY <2>4, <4>1 DEF Tasks, Kinds
      <4> QED BY <2>4, <4>2, ElementTypes DEF TypeOK
    <3>2. FrameSet' = FrameSet \cup {Frame(i, "headers", a)}
      BY <2>2, <2>4, <3>1, FramesAppend DEF SubmitResponse
    <3>3. Bodies' \subseteq Bodies \cup {i}
      BY <2>2, <3>2, SubmitFrames
    <3> QED BY <1>p, <2>2, <2>4, <3>3 DEF ProviderAlive
  <2> QED BY <1>2, <2>3, <2>4 DEF SendResponse
<1>3. CASE ~SendResponse /\ \A i \in Ids, o \in Outcomes : ~RecvEnd(i, o)
  <2>b. Bodies' \subseteq Bodies
    BY <1>3, ResponsesShrink
  <2>1. ASSUME NEW i \in Ids, RecvHeaders(i) PROVE ProviderAlive'
    <3>1. Active' = Active \cup {i} /\ streams' = streams \cup {i}
      BY <2>1 DEF TypeOK, RecvHeaders, Active
    <3> QED BY <1>p, <2>b, <3>1 DEF ProviderAlive
  <2>2. ASSUME NEW i \in Ids, RecvRst(i) PROVE ProviderAlive'
    BY <2>2, <2>b, AliveClose DEF RecvRst
  <2>3. ASSUME NEW i \in Ids, RecvTrailers(i) PROVE ProviderAlive'
    <3>1. Active' = Active
      BY <2>3 DEF TypeOK, RecvTrailers, Active
    <3> QED BY <2>3, <2>b, <3>1, AliveKept DEF RecvTrailers
  <2>4. CASE AfterSent
    <3>1. CASE Head(aob).id \in Active /\ SessionClose(Head(aob).id)
      BY <2>b, <3>1, AliveClose DEF Active
    <3>2. CASE UNCHANGED <<sess, streams>>
      BY <2>b, <3>2, AliveKept DEF Active
    <3> QED BY <2>4, <3>1, <3>2 DEF AfterSent
  <2>5. ASSUME UNCHANGED <<sess, streams>> PROVE ProviderAlive'
    BY <2>b, <2>5, AliveKept DEF Active
  <2>6. ASSUME NEW i \in Ids,
               \/ RecvOversizedHeader(i) \/ RecvWindowUpdate(i) \/ SendData(i)
               \/ \E a \in LuaOutcomes : OffloadRun(i, a)
        PROVE  UNCHANGED <<sess, streams>>
    BY <2>6 DEF RecvOversizedHeader, RecvWindowUpdate, SendData, OffloadRun, sessVars
  <2>7. CASE \/ ReadSome \/ ReadError \/ RecvGoaway \/ RecvBadFrame \/ RecvFails \/ RecvDone
             \/ DropFrame \/ SendFrame \/ SendDone \/ WriteOk \/ WriteError \/ InitiateWrite
             \/ Deadline \/ UNCHANGED vars
    BY <2>5, <2>7 DEF ReadSome, ReadError, RecvGoaway, RecvBadFrame, RecvFails, RecvDone,
       DropFrame, SendFrame, SendDone, WriteOk, WriteError, InitiateWrite, Deadline, vars, sessVars
  <2> QED BY <1>3, <2>1, <2>2, <2>3, <2>4, <2>5, <2>6, <2>7 DEF Next
<1> QED BY <1>1, <1>2, <1>3

-----------------------------------------------------------------------------
(* The theorems                                                            *)

LEMMA InvariantHolds == Spec => []IInv
<1>1. Init => IInv
  BY TypeInit, OneAnswerInit, BuffersInit, SignalsInit, EndingsInit DEF IInv
<1>2. IInv /\ [Next]_vars => IInv'
  BY TypeStep, OneAnswerStep, AliveStep, BuffersStep, SignalsStep, EndingsStep DEF IInv
<1> QED BY <1>1, <1>2, PTL DEF Spec

\* Type correctness of the connection, its handler and the session, among
\* them that outbuf_ never holds more than it has room for.
THEOREM TypeCorrect == Spec => []TypeOK
<1>1. IInv => TypeOK
  BY DEF IInv
<1> QED BY <1>1, InvariantHolds, PTL

\* No request of an HTTP/2 connection is dispatched or answered twice: a second
\* nghttp2_submit_response for a stream would find the first one's provider.
THEOREM AnsweredAtMostOnce == Spec => []OneAnswer
<1>1. IInv => OneAnswer
  BY DEF IInv
<1> QED BY <1>1, InvariantHolds, PTL

\* nghttp2 never reads a body through a pointer to a stream that
\* base_handler::streams_ no longer owns, and streams_ never holds one the
\* session has closed, for any number of streams and any racing resets,
\* closes and late answers of scripts.
THEOREM ProviderNeverDangles == Spec => []ProviderAlive
<1>1. IInv => ProviderAlive
  BY DEF IInv
<1> QED BY <1>1, InvariantHolds, PTL

\* on_write hands every chunk of the session to the socket once and in order,
\* for every size of outbuf_.
THEOREM WireIsSession == Spec => []WireMatchesSession
<1>1. IInv => WireMatchesSession
  BY DEF IInv, TypeOK, Buffers, WireMatchesSession
<1> QED BY <1>1, InvariantHolds, PTL

\* Whatever the session has to send outside the handler, a write completion
\* or a posted initiate_write is on its way to look for it; only the SETTINGS
\* of start, and nothing submitted later, may wait for the first read instead.
THEOREM WakeupsArrive == Spec => []NoLostWakeup
<1>1. IInv => NoLostWakeup
  BY DEF IInv, Signals
<1> QED BY <1>1, InvariantHolds, PTL

\* should_stop ends no connection that still owes a chunk or an answer.
THEOREM EndsGracefully == Spec => []GracefulEnd
<1>1. IInv => GracefulEnd
  BY DEF IInv, Endings, GracefulEnd
<1> QED BY <1>1, InvariantHolds, PTL

=============================================================================
