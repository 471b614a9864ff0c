--------------------------- MODULE Http1Connection ---------------------------
(***************************************************************************)
(* One HTTP/1.1 connection of maock: asio_server_connection drives the     *)
(* socket, base_handler/http1_handler own the streams, and send_response   *)
(* brings the application's answers back.                                  *)
(*                                                                         *)
(* Everything below except OffloadRun runs on the one worker thread of     *)
(* the connection's io_service.  Handlers of that thread are atomic with   *)
(* respect to each other; on_read is opened up into one action per llhttp  *)
(* callback (insideCallback holds in between), because the offload threads *)
(* run meanwhile.  A request is its number: http1_handler numbers streams  *)
(* 1, 2, 3, ... in the order the messages begin.                           *)
(***************************************************************************)
EXTENDS Naturals, Sequences, Functions

CONSTANTS
    MaxRequests,   \* bound: messages begun on the connection
    Strands,       \* boost strands, one per offloaded Response of the thread
    Outcomes,      \* what the request callback may do with a request
    LuaOutcomes    \* what an offloaded script may make of a request

(***************************************************************************)
(* "respond": write_head and end are called.  "close": the stream is       *)
(* erased without an answer (throttled, or status code 0).  "offload": a   *)
(* strand will run the Lua script and post send_response afterwards.       *)
(***************************************************************************)
ASSUME Http1Assumption ==
    /\ MaxRequests \in Nat
    /\ Outcomes \subseteq {"respond", "close", "offload"}
    /\ LuaOutcomes \subseteq {"respond", "close"}

VARIABLES
    stopped,         \* asio_server_connection::stopped_
    stopCause,       \* history: which path called stop() first
    reading,         \* an async_read_some is outstanding
    writing,         \* asio_server_connection::writing_
    outbuf,          \* outbuf_ while an async_write of it is outstanding
    waiting,         \* a wait on deadline_ is outstanding
    insideCallback,  \* base_handler::inside_callback_
    writeSignaled,   \* base_handler::write_signaled_
    streams,         \* keys of base_handler::streams_
    requestCount,    \* http1_handler::request_count
    keepAlive,       \* http1_handler::should_keep_alive
    toRespond,       \* http1_handler::stream_ids_to_respond
    parsing,         \* llhttp is inside a message
    tasks,           \* handlers posted to the connection's io_service
    strandQ,         \* requests handed to each strand
    wire             \* history: responses written to the socket, in order

connVars    == <<stopped, stopCause, reading, writing, outbuf, waiting>>
handlerVars == <<insideCallback, writeSignaled, streams, requestCount,
                 keepAlive, toRespond, parsing>>
vars        == <<connVars, handlerVars, tasks, strandQ, wire>>

Requests == 1..MaxRequests

StopCauses == {"none", "should_stop", "read", "parse", "write", "deadline"}

InitiateWriteTask   == [kind |-> "initiate_write", id |-> 0, answer |-> "none"]
SendResponseTask(i, a) == [kind |-> "send_response", id |-> i, answer |-> a]

Tasks == [kind : {"initiate_write", "send_response"}, id : 0..MaxRequests,
          answer : {"none", "respond", "close"}]

TypeOK ==
    /\ stopped \in BOOLEAN
    /\ stopCause \in StopCauses
    /\ reading \in BOOLEAN
    /\ writing \in BOOLEAN
    /\ outbuf \in Seq(Requests)
    /\ waiting \in BOOLEAN
    /\ insideCallback \in BOOLEAN
    /\ writeSignaled \in BOOLEAN
    /\ streams \in SUBSET Requests
    /\ requestCount \in 0..MaxRequests
    /\ keepAlive \in BOOLEAN
    /\ toRespond \in SUBSET Requests
    /\ parsing \in BOOLEAN
    /\ tasks \in Seq(Tasks)
    /\ strandQ \in [Strands -> Seq(Requests)]
    /\ wire \in Seq(Requests)

(***************************************************************************)
(* The connection right after start_in_own_thread: the handler exists, the *)
(* first read is outstanding and the read deadline is being waited for.    *)
(***************************************************************************)
Init ==
    /\ stopped = FALSE
    /\ stopCause = "none"
    /\ reading = TRUE
    /\ writing = FALSE
    /\ outbuf = << >>
    /\ waiting = TRUE
    /\ insideCallback = FALSE
    /\ writeSignaled = FALSE
    /\ streams = {}
    /\ requestCount = 0
    /\ keepAlive = TRUE
    /\ toRespond = {}
    /\ parsing = FALSE
    /\ tasks = << >>
    /\ strandQ = [s \in Strands |-> << >>]
    /\ wire = << >>

-----------------------------------------------------------------------------
(* Writing                                                                 *)

\* The oldest open stream has its answer.
HeadAnswered ==
    \E first \in toRespond \cap streams :
        \A j \in toRespond \cup streams : first <= j

\* Mutant: the oldest answered stream is not compared with the oldest open one.
IsBatch_SkipsOpen(first, last) ==
    /\ \A j \in toRespond : first <= j
    /\ first <= last
    /\ first..last \subseteq toRespond
    /\ last + 1 \notin toRespond

(***************************************************************************)
(* get_consecutive_stream_ids_to_respond returns first..last: the oldest   *)
(* open stream, which has its answer, and the answered streams numbered    *)
(* right after it.                                                         *)
(***************************************************************************)
IsBatch(first, last) ==
    /\ first \in streams
    /\ \A j \in toRespond \cup streams : first <= j
    /\ first <= last
    /\ first..last \subseteq toRespond
    /\ last + 1 \notin toRespond

\* on_write serialises the responses of a batch smallest number first.
Serialised(first, last) == [k \in 1..(last - first + 1) |-> first + k - 1]

Stop(cause) ==
    /\ stopped' = TRUE
    /\ stopCause' = IF stopped THEN stopCause ELSE cause

\* Mutant: the numbers taken are not erased from stream_ids_to_respond.
DoWriteIdle_KeepsIds ==
    \/ \E first, last \in toRespond :
          /\ IsBatch(first, last)
          /\ writing' = TRUE
          /\ outbuf' = Serialised(first, last)
          /\ streams' = streams \ (first..last)
          /\ UNCHANGED <<stopped, stopCause, toRespond>>
    \/ /\ ~HeadAnswered
       /\ writing' = FALSE
       /\ outbuf' = << >>
       /\ IF keepAlive THEN UNCHANGED <<stopped, stopCause>>
                       ELSE Stop("should_stop")
       /\ UNCHANGED <<toRespond, streams>>

(***************************************************************************)
(* do_write once its early returns are passed.  on_write serialises the    *)
(* ready batch and erases their streams; with nothing to write the     *)
(* connection stops if it is not to be kept alive.                         *)
(***************************************************************************)
DoWriteIdle ==
    \/ \E first, last \in toRespond :
          /\ IsBatch(first, last)
          /\ writing' = TRUE
          /\ outbuf' = Serialised(first, last)
          /\ streams' = streams \ (first..last)
          /\ toRespond' = toRespond \ (first..last)
          /\ UNCHANGED <<stopped, stopCause>>
    \/ /\ ~HeadAnswered
       /\ writing' = FALSE
       /\ outbuf' = << >>
       /\ IF keepAlive THEN UNCHANGED <<stopped, stopCause>>
                       ELSE Stop("should_stop")
       /\ UNCHANGED <<toRespond, streams>>

\* Mutant: the completion handler does not look for further responses.
WriteOk_NoRefill ==
    /\ ~insideCallback
    /\ outbuf # << >>
    /\ wire' = wire \o outbuf
    /\ writing' = FALSE
    /\ outbuf' = << >>
    /\ UNCHANGED <<stopped, stopCause, reading, waiting, handlerVars, tasks,
                   strandQ>>

\* Mutant: the completion handler of a stopped connection still writes.
WriteOk_IgnoresStop ==
    /\ ~insideCallback
    /\ outbuf # << >>
    /\ wire' = wire \o outbuf
    /\ DoWriteIdle
    /\ UNCHANGED <<reading, waiting, insideCallback, writeSignaled,
                   requestCount, keepAlive, parsing, tasks, strandQ>>

\* Mutant: should_stop is asked before the remaining responses are written.
WriteOk_StopsEarly ==
    /\ ~insideCallback
    /\ outbuf # << >>
    /\ wire' = wire \o outbuf
    /\ IF stopped \/ ~keepAlive
       THEN /\ Stop("should_stop")
            /\ writing' = FALSE
            /\ outbuf' = << >>
            /\ UNCHANGED <<toRespond, streams>>
       ELSE DoWriteIdle
    /\ UNCHANGED <<reading, waiting, insideCallback, writeSignaled,
                   requestCount, keepAlive, parsing, tasks, strandQ>>

\* The completion handler of async_write, without error.
WriteOk ==
    /\ ~insideCallback
    /\ outbuf # << >>
    /\ wire' = wire \o outbuf
    /\ \/ /\ ~stopped
          /\ DoWriteIdle
       \/ /\ stopped
          /\ writing' = FALSE
          /\ outbuf' = << >>
          /\ UNCHANGED <<stopped, stopCause, toRespond, streams>>
    /\ UNCHANGED <<reading, waiting, insideCallback, writeSignaled,
                   requestCount, keepAlive, parsing, tasks, strandQ>>

\* The completion handler of async_write, with an error.
WriteError ==
    /\ ~insideCallback
    /\ outbuf # << >>
    /\ outbuf' = << >>
    /\ Stop("write")
    /\ UNCHANGED <<reading, writing, waiting, handlerVars, tasks, strandQ, wire>>

-----------------------------------------------------------------------------
(* Reading                                                                 *)

\* async_read_some delivers bytes: on_read enters llhttp_execute.  A read
\* that completed before stop() closed the socket is still processed.
ReadSome ==
    /\ ~insideCallback
    /\ reading
    /\ reading' = FALSE
    /\ insideCallback' = TRUE
    /\ UNCHANGED <<stopped, stopCause, writing, outbuf, waiting, writeSignaled,
                   streams, requestCount, keepAlive, toRespond, parsing, tasks,
                   strandQ, wire>>

\* async_read_some fails: the client closed, or stop() cancelled the read.
ReadError ==
    /\ ~insideCallback
    /\ reading
    /\ reading' = FALSE
    /\ Stop("read")
    /\ UNCHANGED <<writing, outbuf, waiting, handlerVars, tasks, strandQ, wire>>

\* http1_msg_begincb.  llhttp begins no message after one that does not keep
\* the connection alive.
MsgBegin ==
    /\ insideCallback
    /\ ~parsing
    /\ keepAlive
    /\ requestCount < MaxRequests
    /\ requestCount' = requestCount + 1
    /\ streams' = streams \cup {requestCount + 1}
    /\ parsing' = TRUE
    /\ UNCHANGED <<connVars, insideCallback, writeSignaled, keepAlive, toRespond,
                   tasks, strandQ, wire>>

\* The end of a request callback that answered at once.  start_response
\* records the stream; signal_write does nothing inside the read callback.
Respond(i) ==
    /\ toRespond' = toRespond \cup {i}
    /\ UNCHANGED <<streams, strandQ>>

\* close_stream, called with the stream still unanswered.
CloseStream(i) ==
    /\ streams' = streams \ {i}
    /\ UNCHANGED <<toRespond, strandQ>>

\* The request callback posts the Lua script to the strand of its Response.
Offload(i) ==
    /\ \E s \in Strands : strandQ' = [strandQ EXCEPT ![s] = Append(@, i)]
    /\ UNCHANGED <<streams, toRespond>>

\* Mutant: the request callback goes on to send_response after the strand got
\* the request.
MsgComplete_NoReturn(outcome, alive) ==
    /\ insideCallback
    /\ parsing
    /\ parsing' = FALSE
    /\ keepAlive' = alive
    /\ \/ outcome = "respond" /\ Respond(requestCount)
       \/ outcome = "close" /\ CloseStream(requestCount)
       \/ /\ outcome = "offload"
          /\ \E s \in Strands :
                strandQ' = [strandQ EXCEPT ![s] = Append(@, requestCount)]
          /\ toRespond' = toRespond \cup {requestCount}
          /\ UNCHANGED streams
    /\ UNCHANGED <<connVars, insideCallback, writeSignaled, requestCount, tasks,
                   wire>>

\* http1_msg_completecb, the request callback included.
MsgComplete(outcome, alive) ==
    /\ insideCallback
    /\ parsing
    /\ parsing' = FALSE
    /\ keepAlive' = alive
    /\ \/ outcome = "respond" /\ Respond(requestCount)
       \/ outcome = "close" /\ CloseStream(requestCount)
       \/ outcome = "offload" /\ Offload(requestCount)
    /\ UNCHANGED <<connVars, insideCallback, writeSignaled, requestCount, tasks,
                   wire>>

\* llhttp_execute consumed the buffer: do_write, then do_read unless stopped.
ReadDone ==
    /\ insideCallback
    /\ insideCallback' = FALSE
    /\ \/ /\ ~stopped
          /\ ~writing
          /\ DoWriteIdle
          /\ reading' = ~stopped'
       \/ /\ stopped \/ writing
          /\ reading' = ~stopped
          /\ UNCHANGED <<stopped, stopCause, writing, outbuf, toRespond, streams>>
    /\ UNCHANGED <<waiting, writeSignaled, requestCount, keepAlive, parsing,
                   tasks, strandQ, wire>>

\* llhttp_execute fails: on_read returns -1 and the connection stops.
ParseError ==
    /\ insideCallback
    /\ insideCallback' = FALSE
    /\ Stop("parse")
    /\ UNCHANGED <<reading, writing, outbuf, waiting, writeSignaled, streams,
                   requestCount, keepAlive, toRespond, parsing, tasks, strandQ,
                   wire>>

-----------------------------------------------------------------------------
(* Posted handlers, the strands, the deadline                              *)

(***************************************************************************)
(* base_handler::find_handler finds the handler as long as something owns  *)
(* it: the connection (kept by its outstanding operations and, until       *)
(* stop() resets it, by writefun_) or a posted initiate_write.             *)
(***************************************************************************)
HandlerAlive ==
    \/ ~stopped \/ reading \/ insideCallback \/ outbuf # << >> \/ waiting
    \/ \E k \in DOMAIN tasks : tasks[k] = InitiateWriteTask

\* Mutant: do_write does not return while a write is outstanding.
InitiateWrite_Overwrites ==
    /\ ~insideCallback
    /\ tasks # << >>
    /\ Head(tasks) = InitiateWriteTask
    /\ tasks' = Tail(tasks)
    /\ writeSignaled' = FALSE
    /\ IF ~stopped THEN DoWriteIdle
       ELSE UNCHANGED <<stopped, stopCause, writing, outbuf, toRespond, streams>>
    /\ UNCHANGED <<reading, waiting, insideCallback, requestCount, keepAlive,
                   parsing, strandQ, wire>>

\* initiate_write; writefun_ is empty once the connection has stopped.
InitiateWrite ==
    /\ ~insideCallback
    /\ tasks # << >>
    /\ Head(tasks) = InitiateWriteTask
    /\ tasks' = Tail(tasks)
    /\ writeSignaled' = FALSE
    /\ \/ /\ ~stopped
          /\ ~writing
          /\ DoWriteIdle
       \/ /\ stopped \/ writing
          /\ UNCHANGED <<stopped, stopCause, writing, outbuf, toRespond, streams>>
    /\ UNCHANGED <<reading, waiting, insideCallback, requestCount, keepAlive,
                   parsing, strandQ, wire>>

\* Mutant: start_response records the stream without signal_write.
SendResponse_NoSignal ==
    /\ ~insideCallback
    /\ tasks # << >>
    /\ Head(tasks).kind = "send_response"
    /\ LET i == Head(tasks).id IN
       /\ tasks' = Tail(tasks)
       /\ toRespond' = IF HandlerAlive /\ i \in streams
                       THEN toRespond \cup {i} ELSE toRespond
    /\ UNCHANGED <<connVars, insideCallback, writeSignaled, streams, requestCount,
                   keepAlive, parsing, strandQ, wire>>

(***************************************************************************)
(* send_response as posted by an offload thread: dropped if the handler or *)
(* the stream is gone; status code 0 erases the stream; otherwise          *)
(* start_response records it and signal_write posts initiate_write unless  *)
(* one is already posted.                                                  *)
(***************************************************************************)
SendResponse ==
    /\ ~insideCallback
    /\ tasks # << >>
    /\ Head(tasks).kind = "send_response"
    /\ LET i == Head(tasks).id IN
       \/ /\ ~HandlerAlive \/ i \notin streams
          /\ tasks' = Tail(tasks)
          /\ UNCHANGED <<streams, toRespond, writeSignaled>>
       \/ /\ HandlerAlive /\ i \in streams
          /\ Head(tasks).answer = "close"
          /\ streams' = streams \ {i}
          /\ tasks' = Tail(tasks)
          /\ UNCHANGED <<toRespond, writeSignaled>>
       \/ /\ HandlerAlive /\ i \in streams
          /\ Head(tasks).answer = "respond"
          /\ toRespond' = toRespond \cup {i}
          /\ writeSignaled' = TRUE
          /\ tasks' = IF writeSignaled THEN Tail(tasks)
                      ELSE Append(Tail(tasks), InitiateWriteTask)
          /\ UNCHANGED streams
    /\ UNCHANGED <<connVars, insideCallback, requestCount, keepAlive, parsing,
                   strandQ, wire>>

\* An offload thread runs the script at the head of a strand and posts
\* send_response to the io_service of the worker thread.
OffloadRun(s, answer) ==
    /\ strandQ[s] # << >>
    /\ strandQ' = [strandQ EXCEPT ![s] = Tail(@)]
    /\ tasks' = Append(tasks, SendResponseTask(Head(strandQ[s]), answer))
    /\ UNCHANGED <<connVars, handlerVars, wire>>

\* handle_deadline: the read deadline has passed, or stop() cancelled it.
Deadline ==
    /\ ~insideCallback
    /\ waiting
    /\ waiting' = FALSE
    /\ Stop("deadline")
    /\ UNCHANGED <<reading, writing, outbuf, handlerVars, tasks, strandQ, wire>>

-----------------------------------------------------------------------------

Next ==
    \/ WriteOk \/ WriteError
    \/ ReadSome \/ ReadError \/ MsgBegin \/ ReadDone \/ ParseError
    \/ \E o \in Outcomes, alive \in BOOLEAN : MsgComplete(o, alive)
    \/ InitiateWrite \/ SendResponse
    \/ \E s \in Strands, a \in LuaOutcomes : OffloadRun(s, a)
    \/ Deadline

Spec == Init /\ [][Next]_vars

(***************************************************************************)
(* Fairness.  One worker thread runs the handlers of an io_service in the  *)
(* order they become ready, so a handler that is ready again and again is  *)
(* run: strong fairness, because a read in progress disables it for a      *)
(* while.  The offload threads keep running the strands; the kernel        *)
(* completes a write or fails it.  Nothing is assumed of the client or of  *)
(* the deadline.                                                           *)
(***************************************************************************)
Fairness ==
    /\ WF_vars(ReadDone \/ ParseError)
    /\ SF_vars(InitiateWrite \/ SendResponse)
    /\ SF_vars(WriteOk \/ WriteError)
    /\ \A s \in Strands : WF_vars(\E a \in LuaOutcomes : OffloadRun(s, a))

FairSpec == Spec /\ Fairness

-----------------------------------------------------------------------------
(* Properties                                                              *)

Increasing(q) == \A j, k \in DOMAIN q : j < k => q[j] < q[k]

\* Responses leave in the order of their requests, although scripts on
\* different strands finish in any order: what was written and what is being
\* written is increasing, and older than every stream still open (on_write
\* takes only get_consecutive_stream_ids_to_respond).
OrderOnWire ==
    /\ outbuf # << >> => writing
    /\ Increasing(wire \o outbuf)
    /\ Range(wire \o outbuf) \subseteq 1..requestCount
    /\ \A i \in Range(wire \o outbuf), j \in streams : i < j

\* Requests whose message is complete.
Completed == IF parsing THEN requestCount - 1 ELSE requestCount

\* Every number the code looks up without testing the result is an open
\* stream: on_write dereferences find_stream for each of
\* stream_ids_to_respond, and the parser callbacks work on stream
\* request_count, which nobody may answer or close while it is being parsed:
\* the strands and the posted answers only hold complete requests.
StreamBookkeeping ==
    /\ toRespond \subseteq streams
    /\ streams \subseteq 1..requestCount
    /\ parsing => requestCount \in streams \ toRespond
    /\ \A s \in Strands : Range(strandQ[s]) \subseteq 1..Completed
    /\ \A t \in Range(tasks) : t.kind = "send_response" => t.id \in 1..Completed

\* The requests whose answer waits in a queue q of tasks, and that none of
\* them waits there twice.
Posted(q) == {t.id : t \in {u \in Range(q) : u.kind = "send_response"}}

PostedOnce(q) ==
    \A j, k \in DOMAIN q :
        /\ q[j].kind = "send_response"
        /\ q[k].kind = "send_response"
        /\ q[j].id = q[k].id
        => j = k

\* A request is answered at most once: no number occurs twice among the
\* queued scripts and the posted answers, and none is already in
\* stream_ids_to_respond.  A second send_response with status code 0 would
\* close a stream that on_write is about to dereference.
AnswerOnce ==
    /\ \A s \in Strands : IsInjective(strandQ[s])
    /\ \A r, s \in Strands : r # s => Range(strandQ[r]) \cap Range(strandQ[s]) = {}
    /\ \A s \in Strands : Range(strandQ[s]) \cap (Posted(tasks) \cup toRespond) = {}
    /\ Posted(tasks) \cap toRespond = {}
    /\ PostedOnce(tasks)

\* While async_write is outstanding nobody replaces the contents of outbuf_:
\* the next contents come only once the write has completed.
OutbufStable ==
    [][outbuf = << >> \/ outbuf' = outbuf \/ wire' = wire \o outbuf \/ stopped']_vars

\* A response that may be written is never forgotten: the read callback, the
\* completion of the outstanding write or a posted initiate_write will look
\* at it again.
NoLostWakeup ==
    ~stopped /\ HeadAnswered => insideCallback \/ writing \/ writeSignaled

\* Every request whose message is complete is answered on the wire, unless
\* its stream was closed on purpose or the connection stopped.
AnswerDelivered ==
    \A i \in Requests :
        (i \in streams /\ (i < requestCount \/ ~parsing))
            ~> (i \notin streams /\ i \notin Range(outbuf)) \/ stopped

\* A connection that ends because its client asked for that
\* (should_keep_alive is FALSE) has no request left to answer.
GracefulClose == stopCause = "should_stop" => streams = {}

\* The requests whose script is queued on a strand or has posted its answer.
AtScript == Posted(tasks) \cup UNION {Range(strandQ[s]) : s \in Strands}

\* The one excuse for ending at the client's wish with requests unanswered:
\* do_write stops for should_keep_alive only when the oldest open request is
\* still with its script, never with a response it could have written.
CloseOnlyOverScripts ==
    [][stopCause # "should_stop" /\ stopCause' = "should_stop" =>
        \A i \in streams' : \E j \in AtScript' \cap streams' : j <= i]_vars

Pipeline == INSTANCE PipelineServer WITH
    count    <- requestCount,
    open     <- streams \ toRespond,
    answered <- toRespond,
    batch    <- outbuf,
    closed   <- stopped

\* Whatever the strands, the callbacks and the client do, the connection is
\* a PipelineServer: do_write overtakes nobody, writes one batch at a time
\* and writes nothing once stop() was called.
PipelineSpec == Pipeline!Spec
=============================================================================
