--------------------------- MODULE Http2Connection ---------------------------
(***************************************************************************)
(* One HTTP/2 connection of maock: asio_server_connection drives the       *)
(* socket, http2_handler sits between it and an nghttp2 session, and       *)
(* send_response brings the answers of offloaded scripts back.             *)
(*                                                                         *)
(* nghttp2 is external: its streams (sess), its outbound queue, the frame  *)
(* whose after-send work is still to be done (aob) and the bodies it will  *)
(* pull (provider) are modelled from how http2_handler uses them.  A frame *)
(* is one chunk of nghttp2_session_mem_send; buffer sizes are counted in   *)
(* chunks.  Left out are the frames nghttp2 answers by itself while it     *)
(* receives (SETTINGS and PING acknowledgements, WINDOW_UPDATE): they go   *)
(* the way of RST_STREAM in RecvOversizedHeader.                           *)
(***************************************************************************)
EXTENDS Naturals, Sequences, SequencesExt, FiniteSets

CONSTANTS
    MaxStreams,      \* bound: streams the client opens
    MaxConcurrent,   \* config.max_concurrent_streams
    WideWindow,      \* config.connection_window_bits > 16, as by default
    BufferChunks,    \* outbuf_.size(), in chunks
    Outcomes,        \* what the request callback may do with a request
    LuaOutcomes,     \* what an offloaded script may make of a request
    RequestTrailers  \* whether the client ends requests with trailers

ASSUME Http2Assumption ==
    /\ MaxStreams \in Nat
    /\ MaxConcurrent \in Nat \ {0}
    /\ WideWindow \in BOOLEAN
    /\ BufferChunks \in Nat \ {0}
    /\ Outcomes \subseteq {"head", "body", "trailer", "close", "offload"}
    /\ LuaOutcomes \subseteq {"head", "body", "close"}
    /\ RequestTrailers \in BOOLEAN

VARIABLES
    stopped,        \* asio_server_connection::stopped_
    stopCause,      \* history: which path called stop() first
    reading,        \* an async_read_some is outstanding
    writing,        \* asio_server_connection::writing_
    outbuf,         \* outbuf_, while on_write fills it and while it is written
    pc,             \* "recv", "send": inside on_read, on_write; "idle": neither
    fromRead,       \* do_write was called by the read handler
    stash,          \* http2_handler::buf_: the chunk that did not fit
    writeSignaled,  \* base_handler::write_signaled_
    streams,        \* keys of base_handler::streams_
    tasks,          \* handlers posted to the connection's io_service
    scripts,        \* requests handed to the offload threads
    sess,           \* nghttp2: state of each stream
    queue,          \* nghttp2: outbound frames
    aob,            \* nghttp2: the frame handed out last, not yet accounted
    provider,       \* nghttp2: streams whose body it will pull
    blocked,        \* nghttp2: streams without flow-control window
    goaway,         \* nghttp2: "none", "received", "terminating", "sent"
    dispatched,     \* history: streams whose request reached the callback
    unsent,         \* history: chunks the session handed out, not yet written
    garbled         \* history: something else than the oldest unsent was written

connVars == <<stopped, stopCause, reading, writing, outbuf, fromRead>>
sessVars == <<sess, queue, aob, provider, blocked, goaway>>
histVars == <<unsent, garbled>>
vars     == <<connVars, pc, stash, writeSignaled, streams, tasks, scripts,
              sessVars, dispatched, histVars>>

Ids == 1..MaxStreams

Kinds  == {"head", "body", "trailer"}
Types  == {"headers", "data", "trailers", "rst", "goaway", "settings", "window_update"}
Frames == [id : 0..MaxStreams, type : Types, kind : Kinds \cup {"none"}]

Frame(i, t, k)    == [id |-> i, type |-> t, kind |-> k]

\* What http2_handler::start leaves in the session: SETTINGS, and WINDOW_UPDATE
\* for a connection window wider than nghttp2's own.
Preface == <<Frame(0, "settings", "none")>>
           \o (IF WideWindow THEN <<Frame(0, "window_update", "none")>> ELSE << >>)

InitiateWriteTask == [kind |-> "initiate_write", id |-> 0, answer |-> "none"]
SendResponseTask(i, a) == [kind |-> "send_response", id |-> i, answer |-> a]
Tasks == [kind : {"initiate_write", "send_response"}, id : 0..MaxStreams,
          answer : {"none", "head", "body", "close"}]

StopCauses == {"none", "should_stop", "read", "session", "write", "deadline"}
Active == {i \in Ids : sess[i] \in {"open", "half_closed"}}

TypeOK ==
    /\ stopped \in BOOLEAN /\ stopCause \in StopCauses
    /\ reading \in BOOLEAN /\ writing \in BOOLEAN /\ fromRead \in BOOLEAN
    /\ outbuf \in Seq(Frames) /\ Len(outbuf) <= BufferChunks
    /\ pc \in {"idle", "recv", "send"}
    /\ stash \in Seq(Frames) /\ Len(stash) <= 1
    /\ writeSignaled \in BOOLEAN
    /\ streams \in SUBSET Ids
    /\ tasks \in Seq(Tasks)
    /\ scripts \in SUBSET Ids
    /\ sess \in [Ids -> {"idle", "open", "half_closed", "closed"}]
    /\ queue \in Seq(Frames) /\ aob \in Seq(Frames)
    /\ provider \in [Ids -> Kinds \cup {"none"}]
    /\ blocked \in SUBSET Ids
    /\ goaway \in {"none", "received", "terminating", "sent"}
    /\ dispatched \in SUBSET Ids
    /\ unsent \in Seq(Frames) /\ garbled \in BOOLEAN

\* The connection after start_in_own_thread, which calls do_read and not
\* do_write: the preface waits in the session.
Init ==
    /\ stopped = FALSE /\ stopCause = "none"
    /\ reading = TRUE /\ writing = FALSE /\ fromRead = FALSE
    /\ outbuf = << >> /\ pc = "idle" /\ stash = << >>
    /\ writeSignaled = FALSE
    /\ streams = {} /\ tasks = << >> /\ scripts = {}
    /\ sess = [i \in Ids |-> "idle"]
    /\ queue = Preface /\ aob = << >>
    /\ provider = [i \in Ids |-> "none"]
    /\ blocked = {} /\ goaway = "none"
    /\ dispatched = {} /\ unsent = << >> /\ garbled = FALSE

-----------------------------------------------------------------------------
(* The application's side: answering, dropping, offloading a request       *)

Stop(cause) ==
    /\ stopped' = TRUE
    /\ stopCause' = IF stopped THEN stopCause ELSE cause

\* nghttp2_submit_response, with the data provider that points at the stream.
SubmitResponse(i, kind) == queue' = Append(queue, Frame(i, "headers", kind))

\* The request callback, called inside on_read: signal_write does nothing.
Dispatch(i, outcome) ==
    /\ dispatched' = dispatched \cup {i}
    /\ \/ /\ outcome \in Kinds
          /\ SubmitResponse(i, outcome)
          /\ UNCHANGED <<streams, scripts>>
       \/ /\ outcome = "close"
          /\ streams' = streams \ {i}
          /\ UNCHANGED <<queue, scripts>>
       \/ /\ outcome = "offload"
          /\ scripts' = scripts \cup {i}
          /\ UNCHANGED <<queue, streams>>

-----------------------------------------------------------------------------
(* on_read: nghttp2_session_mem_recv and its callbacks                     *)

ReadSome ==
    /\ pc = "idle"
    /\ reading
    /\ reading' = FALSE
    /\ pc' = "recv"
    /\ UNCHANGED <<stopped, stopCause, writing, outbuf, fromRead, stash,
                   writeSignaled, streams, tasks, scripts, sessVars, dispatched,
                   histVars>>

ReadError ==
    /\ pc = "idle"
    /\ reading
    /\ reading' = FALSE
    /\ Stop("read")
    /\ UNCHANGED <<writing, outbuf, fromRead, pc, stash, writeSignaled, streams,
                   tasks, scripts, sessVars, dispatched, histVars>>

\* nghttp2 ignores what it receives once it has decided to end the session.
Receiving == pc = "recv" /\ goaway \in {"none", "received"}

\* A client that keeps to MAX_CONCURRENT_STREAMS opens stream i.
MayOpen(i) ==
    /\ Receiving
    /\ goaway = "none"
    /\ sess[i] = "idle"
    /\ \A j \in Ids : j < i => sess[j] # "idle"
    /\ Cardinality(Active) < MaxConcurrent

\* Request HEADERS that leave the request open: on_begin_headers_callback
\* creates the stream.  The client may give the stream no window.
RecvHeaders(i) ==
    /\ MayOpen(i)
    /\ streams' = streams \cup {i}
    /\ sess' = [sess EXCEPT ![i] = "open"]
    /\ blocked' \in {blocked, blocked \cup {i}}
    /\ UNCHANGED <<connVars, pc, stash, writeSignaled, tasks, scripts, queue,
                   aob, provider, goaway, dispatched, histVars>>

\* HEADERS or DATA with END_STREAM: on_frame_recv_callback dispatches the
\* request, if its stream still exists.
RecvEnd(i, outcome) ==
    /\ Receiving
    /\ sess[i] = "open"
    /\ sess' = [sess EXCEPT ![i] = "half_closed"]
    /\ IF i \in streams THEN Dispatch(i, outcome)
       ELSE UNCHANGED <<dispatched, queue, streams, scripts>>
    /\ UNCHANGED <<connVars, pc, stash, writeSignaled, tasks, aob, provider,
                   blocked, goaway, histVars>>

\* Trailing HEADERS with END_STREAM: their category is not REQUEST, so
\* on_frame_recv_callback leaves them alone.
RecvTrailers(i) ==
    /\ RequestTrailers
    /\ Receiving
    /\ sess[i] = "open"
    /\ sess' = [sess EXCEPT ![i] = "half_closed"]
    /\ UNCHANGED <<connVars, pc, stash, writeSignaled, streams, tasks, scripts,
                   queue, aob, provider, blocked, goaway, dispatched,
                   histVars>>

\* A header that exceeds the 64k of a request: it is dropped and RST_STREAM
\* is submitted; the request stays open.
RecvOversizedHeader(i) ==
    /\ Receiving
    /\ sess[i] = "open"
    /\ \A k \in DOMAIN queue : queue[k] # Frame(i, "rst", "none")
    /\ queue' = Append(queue, Frame(i, "rst", "none"))
    /\ UNCHANGED <<connVars, pc, stash, writeSignaled, streams, tasks, scripts,
                   sess, aob, provider, blocked, goaway, dispatched,
                   histVars>>

\* nghttp2 closes stream i: on_stream_close_callback.
SessionClose(i) ==
    /\ sess' = [sess EXCEPT ![i] = "closed"]
    /\ provider' = [provider EXCEPT ![i] = "none"]
    /\ streams' = streams \ {i}

RecvRst(i) ==
    /\ Receiving
    /\ i \in Active
    /\ SessionClose(i)
    /\ UNCHANGED <<connVars, pc, stash, writeSignaled, tasks, scripts, queue,
                   aob, blocked, goaway, dispatched, histVars>>

RecvWindowUpdate(i) ==
    /\ Receiving
    /\ i \in blocked
    /\ blocked' = blocked \ {i}
    /\ UNCHANGED <<connVars, pc, stash, writeSignaled, streams, tasks, scripts,
                   sess, queue, aob, provider, goaway, dispatched, histVars>>

\* GOAWAY from the client.
RecvGoaway ==
    /\ Receiving
    /\ goaway = "none"
    /\ goaway' = "received"
    /\ UNCHANGED <<connVars, pc, stash, writeSignaled, streams, tasks, scripts,
                   sess, queue, aob, provider, blocked, dispatched, histVars>>

\* A protocol error of the client: nghttp2 queues a GOAWAY and ends once it
\* has been sent.
RecvBadFrame ==
    /\ Receiving
    /\ goaway' = "terminating"
    /\ queue' = Append(queue, Frame(0, "goaway", "none"))
    /\ UNCHANGED <<connVars, pc, stash, writeSignaled, streams, tasks, scripts,
                   sess, aob, provider, blocked, dispatched, histVars>>

\* nghttp2_session_mem_recv fails (bad client magic, flooding).
RecvFails ==
    /\ pc = "recv"
    /\ pc' = "idle"
    /\ Stop("session")
    /\ UNCHANGED <<reading, writing, outbuf, fromRead, stash, writeSignaled,
                   streams, tasks, scripts, sessVars, dispatched, histVars>>

-----------------------------------------------------------------------------
(* do_write and on_write                                                   *)

\* Mutant: on_write forgets to clear buf_ after copying it.
EnterWrite_KeepsStash(read) ==
    /\ pc' = "send"
    /\ fromRead' = read
    /\ outbuf' = stash
    /\ UNCHANGED stash

\* on_write begins with the chunk that did not fit the last time.
EnterWrite(read) ==
    /\ pc' = "send"
    /\ fromRead' = read
    /\ outbuf' = stash
    /\ stash' = << >>

RecvDone ==
    /\ pc = "recv"
    /\ \/ /\ ~stopped /\ ~writing
          /\ EnterWrite(TRUE)
          /\ UNCHANGED reading
       \/ /\ stopped \/ writing
          /\ pc' = "idle"
          /\ reading' = ~stopped
          /\ UNCHANGED <<fromRead, outbuf, stash>>
    /\ UNCHANGED <<stopped, stopCause, writing, writeSignaled, streams, tasks,
                   scripts, sessVars, dispatched, histVars>>

\* What nghttp2 does, on the next nghttp2_session_mem_send, about the frame
\* it handed out last: it starts pulling the body after the HEADERS and closes
\* a stream that has ended on both sides.
Ends(f) == \/ f.type \in {"rst", "trailers"}
           \/ f.type = "headers" /\ f.kind = "head"
           \/ f.type = "data" /\ f.kind = "body"

AfterSent ==
    /\ pc = "send"
    /\ aob # << >>
    /\ aob' = << >>
    /\ LET f == Head(aob) IN
       \/ /\ f.type = "goaway"
          /\ goaway' = "sent"
          /\ UNCHANGED <<sess, provider, streams>>
       \/ /\ f.id \in Active
          /\ Ends(f)
          /\ SessionClose(f.id)
          /\ UNCHANGED goaway
       \/ /\ f.id \in Active
          /\ f.type = "headers" /\ ~Ends(f)
          /\ provider' = [provider EXCEPT ![f.id] = f.kind]
          /\ UNCHANGED <<sess, streams, goaway>>
       \/ /\ f.type # "goaway"
          /\ f.id \notin Active \/ (f.type = "data" /\ ~Ends(f))
          /\ UNCHANGED <<sess, provider, streams, goaway>>
    /\ UNCHANGED <<connVars, pc, stash, writeSignaled, tasks, scripts, queue,
                   blocked, dispatched, histVars>>

Ending == goaway \in {"terminating", "sent"}

\* nghttp2 sends a frame only while its stream lives (RST_STREAM is sent for a
\* closed stream too), and once the session ends only those of the connection
\* (SETTINGS, WINDOW_UPDATE, GOAWAY).
CanSend(f) == f.id = 0 \/ (~Ending /\ (f.type = "rst" \/ f.id \in Active))

\* on_frame_not_send_callback: RST_STREAM follows HEADERS that were not sent.
DropFrame ==
    /\ pc = "send"
    /\ aob = << >>
    /\ queue # << >>
    /\ LET f == Head(queue) IN
       /\ ~CanSend(f)
       /\ queue' = IF f.type \in {"headers", "trailers"}
                   THEN Append(Tail(queue), Frame(f.id, "rst", "none"))
                   ELSE Tail(queue)
    /\ UNCHANGED <<connVars, pc, stash, writeSignaled, streams, tasks, scripts,
                   sess, aob, provider, blocked, goaway, dispatched,
                   histVars>>

\* on_write takes one more chunk: into outbuf_ if it fits, else into buf_,
\* which ends the loop.
Take(f) ==
    /\ aob' = <<f>>
    /\ unsent' = Append(unsent, f)
    /\ \/ /\ Len(outbuf) < BufferChunks
          /\ outbuf' = Append(outbuf, f)
          /\ UNCHANGED <<stash, pc, writing, reading>>
       \/ /\ Len(outbuf) = BufferChunks
          /\ stash' = <<f>>
          /\ writing' = TRUE
          /\ pc' = "idle"
          /\ reading' = (reading \/ fromRead)
          /\ UNCHANGED outbuf

SendFrame ==
    /\ pc = "send"
    /\ aob = << >>
    /\ queue # << >>
    /\ CanSend(Head(queue))
    /\ Take(Head(queue))
    /\ queue' = Tail(queue)
    /\ UNCHANGED <<stopped, stopCause, fromRead, writeSignaled, streams, tasks,
                   scripts, sess, provider, blocked, goaway, dispatched, garbled>>

\* Streams whose body nghttp2 may pull now.
Sendable == {i \in Active \ blocked : ~Ending /\ provider[i] # "none"}

\* The read callback of the data provider dereferences the stream; at the end
\* of the body it submits the trailers.  A body is one DATA frame here.
SendData(i) ==
    /\ pc = "send"
    /\ aob = << >>
    /\ queue = << >>
    /\ i \in Sendable
    /\ Take(Frame(i, "data", provider[i]))
    /\ queue' = IF provider[i] = "trailer"
                THEN <<Frame(i, "trailers", "none")>> ELSE << >>
    /\ provider' = [provider EXCEPT ![i] = "none"]
    /\ UNCHANGED <<stopped, stopCause, fromRead, writeSignaled, streams, tasks,
                   scripts, sess, blocked, goaway, dispatched, garbled>>

\* nghttp2_session_want_write and nghttp2_session_want_read.
WantWrite ==
    /\ goaway # "sent"
    /\ aob # << >> \/ queue # << >> \/ Sendable # {}

WantRead == goaway # "sent" /\ (Active # {} \/ goaway # "received")

ShouldStop == ~WantRead /\ ~WantWrite

\* Mutant: do_write does not ask should_stop when there is nothing to write.
SendDone_NeverStops ==
    /\ pc = "send"
    /\ aob = << >>
    /\ queue = << >> /\ Sendable = {}
    /\ pc' = "idle"
    /\ writing' = (outbuf # << >>)
    /\ reading' = (reading \/ fromRead)
    /\ UNCHANGED <<stopped, stopCause, outbuf, fromRead, stash, writeSignaled,
                   streams, tasks, scripts, sessVars, dispatched, histVars>>

\* Mutant: do_write stops the connection as soon as the session is done.
SendDone_StopsFirst ==
    /\ pc = "send"
    /\ aob = << >>
    /\ queue = << >> /\ Sendable = {}
    /\ pc' = "idle"
    /\ IF ShouldStop THEN Stop("should_stop") ELSE UNCHANGED <<stopped, stopCause>>
    /\ writing' = (outbuf # << >> /\ ~stopped')
    /\ outbuf' = IF stopped' THEN << >> ELSE outbuf
    /\ reading' = (reading \/ (fromRead /\ ~stopped'))
    /\ UNCHANGED <<fromRead, stash, writeSignaled, streams, tasks, scripts,
                   sessVars, dispatched, histVars>>

\* nghttp2_session_mem_send has nothing more: async_write, or the end of the
\* connection if there is nothing to write and should_stop.
SendDone ==
    /\ pc = "send"
    /\ aob = << >>
    /\ queue = << >> /\ Sendable = {}
    /\ pc' = "idle"
    /\ writing' = (outbuf # << >>)
    /\ \/ /\ outbuf = << >> /\ ShouldStop
          /\ Stop("should_stop")
       \/ /\ outbuf # << >> \/ ~ShouldStop
          /\ UNCHANGED <<stopped, stopCause>>
    /\ reading' = (reading \/ (fromRead /\ ~stopped'))
    /\ UNCHANGED <<outbuf, fromRead, stash, writeSignaled, streams, tasks,
                   scripts, sessVars, dispatched, histVars>>

\* The contents of outbuf_ are on the wire.
Written ==
    LET ok == IsPrefix(outbuf, unsent) IN
    /\ garbled' = (garbled \/ ~ok)
    /\ unsent' = IF ok THEN SubSeq(unsent, Len(outbuf) + 1, Len(unsent)) ELSE unsent

\* Mutant: the completion handler does not call do_write.
WriteOk_NoRefill ==
    /\ pc = "idle"
    /\ writing
    /\ outbuf # << >>
    /\ Written
    /\ writing' = FALSE
    /\ outbuf' = << >>
    /\ UNCHANGED <<stopped, stopCause, reading, fromRead, pc, stash, writeSignaled,
                   streams, tasks, scripts, sessVars, dispatched>>

\* The completion handler of async_write.
WriteOk ==
    /\ pc = "idle"
    /\ writing
    /\ outbuf # << >>
    /\ Written
    /\ writing' = FALSE
    /\ \/ ~stopped /\ EnterWrite(FALSE)
       \/ stopped /\ outbuf' = << >> /\ UNCHANGED <<pc, fromRead, stash>>
    /\ UNCHANGED <<stopped, stopCause, reading, writeSignaled, streams, tasks,
                   scripts, sessVars, dispatched>>

WriteError ==
    /\ pc = "idle"
    /\ writing
    /\ outbuf # << >>
    /\ outbuf' = << >>
    /\ Stop("write")
    /\ UNCHANGED <<reading, writing, fromRead, pc, stash, writeSignaled, streams,
                   tasks, scripts, sessVars, dispatched, histVars>>

-----------------------------------------------------------------------------
(* Posted handlers, offload threads, the deadline                          *)

InitiateWrite ==
    /\ pc = "idle"
    /\ tasks # << >>
    /\ Head(tasks).kind = "initiate_write"
    /\ tasks' = Tail(tasks)
    /\ writeSignaled' = FALSE
    /\ \/ ~stopped /\ ~writing /\ EnterWrite(FALSE)
       \/ (stopped \/ writing) /\ UNCHANGED <<pc, fromRead, outbuf, stash>>
    /\ UNCHANGED <<stopped, stopCause, reading, writing, streams, scripts,
                   sessVars, dispatched, histVars>>

\* Mutant: send_response closes the stream once it is answered, as HTTP/1 does.
SendResponse_Closes ==
    /\ pc = "idle"
    /\ tasks # << >>
    /\ Head(tasks).kind = "send_response"
    /\ LET i == Head(tasks).id
           a == Head(tasks).answer
       IN  \/ /\ stopped \/ i \notin streams
              /\ tasks' = Tail(tasks)
              /\ UNCHANGED <<streams, queue, writeSignaled>>
           \/ /\ i \in streams /\ a # "close"
              /\ SubmitResponse(i, a)
              /\ streams' = streams \ {i}
              /\ writeSignaled' = TRUE
              /\ tasks' = IF writeSignaled THEN Tail(tasks)
                          ELSE Append(Tail(tasks), InitiateWriteTask)
    /\ UNCHANGED <<connVars, pc, stash, scripts, sess, aob, provider, blocked,
                   goaway, dispatched, histVars>>

\* Mutant: start_response does not call signal_write.
SendResponse_NoSignal ==
    /\ pc = "idle"
    /\ tasks # << >>
    /\ Head(tasks).kind = "send_response"
    /\ LET i == Head(tasks).id
           a == Head(tasks).answer
       IN  \/ /\ stopped \/ i \notin streams
              /\ tasks' = Tail(tasks)
              /\ UNCHANGED <<streams, queue, writeSignaled>>
           \/ /\ i \in streams /\ a # "close"
              /\ SubmitResponse(i, a)
              /\ tasks' = Tail(tasks)
              /\ UNCHANGED <<streams, writeSignaled>>
    /\ UNCHANGED <<connVars, pc, stash, scripts, sess, aob, provider, blocked,
                   goaway, dispatched, histVars>>

\* send_response as posted by an offload thread.  After stop() find_handler
\* finds the handler only as long as a pending operation owns it.
SendResponse ==
    /\ pc = "idle"
    /\ tasks # << >>
    /\ Head(tasks).kind = "send_response"
    /\ LET i == Head(tasks).id
           a == Head(tasks).answer
       IN  \/ /\ stopped \/ i \notin streams
              /\ tasks' = Tail(tasks)
              /\ UNCHANGED <<streams, queue, writeSignaled>>
           \/ /\ i \in streams /\ a = "close"
              /\ streams' = streams \ {i}
              /\ tasks' = Tail(tasks)
              /\ UNCHANGED <<queue, writeSignaled>>
           \/ /\ i \in streams /\ a # "close"
              /\ SubmitResponse(i, a)
              /\ writeSignaled' = TRUE
              /\ tasks' = IF writeSignaled THEN Tail(tasks)
                          ELSE Append(Tail(tasks), InitiateWriteTask)
              /\ UNCHANGED streams
    /\ UNCHANGED <<connVars, pc, stash, scripts, sess, aob, provider, blocked,
                   goaway, dispatched, histVars>>

\* An offload thread runs the script of request i and posts send_response.
OffloadRun(i, answer) ==
    /\ i \in scripts
    /\ scripts' = scripts \ {i}
    /\ tasks' = Append(tasks, SendResponseTask(i, answer))
    /\ UNCHANGED <<connVars, pc, stash, writeSignaled, streams, sessVars,
                   dispatched, histVars>>

Deadline ==
    /\ pc = "idle"
    /\ ~stopped
    /\ Stop("deadline")
    /\ UNCHANGED <<reading, writing, outbuf, fromRead, pc, stash, writeSignaled,
                   streams, tasks, scripts, sessVars, dispatched, histVars>>

-----------------------------------------------------------------------------

Next ==
    \/ ReadSome \/ ReadError \/ RecvGoaway \/ RecvBadFrame \/ RecvFails \/ RecvDone
    \/ \E i \in Ids : \/ RecvHeaders(i) \/ RecvTrailers(i) \/ RecvOversizedHeader(i)
                      \/ RecvRst(i) \/ RecvWindowUpdate(i) \/ SendData(i)
                      \/ \E o \in Outcomes : RecvEnd(i, o)
                      \/ \E a \in LuaOutcomes : OffloadRun(i, a)
    \/ AfterSent \/ DropFrame \/ SendFrame \/ SendDone
    \/ WriteOk \/ WriteError \/ InitiateWrite \/ SendResponse \/ Deadline

Spec == Init /\ [][Next]_vars

OnRead  == RecvDone
OnWrite == AfterSent \/ DropFrame \/ SendFrame \/ SendDone \/ \E i \in Ids : SendData(i)

(***************************************************************************)
(* The worker thread finishes the handler it is in; posted handlers and    *)
(* completed writes are run although reads keep coming; every outstanding  *)
(* write completes or fails; the offload threads run every script.  The    *)
(* client and the deadline owe nothing.                                    *)
(***************************************************************************)
FairSpec ==
    /\ Spec
    /\ WF_vars(OnRead) /\ WF_vars(OnWrite)
    /\ SF_vars(InitiateWrite) /\ SF_vars(SendResponse)
    /\ SF_vars(WriteOk \/ WriteError)
    /\ \A i \in Ids : WF_vars(\E a \in LuaOutcomes : OffloadRun(i, a))

-----------------------------------------------------------------------------
(* Properties                                                              *)

\* Streams that have a submitted response whose body nghttp2 will read
\* through the raw pointer prd.source.ptr.
Pointed == {i \in Active : \/ provider[i] # "none"
                           \/ \E f \in Range(queue \o aob) :
                                /\ f.type = "headers" /\ f.id = i
                                /\ f.kind # "head"}

\* start_response gives nghttp2 a raw pointer to the asio_server_stream.  As
\* long as the read callback may still be called, base_handler::streams_ owns
\* that stream, although scripts, resets and closes race the transmission; and
\* no stream outlives the session's, so that a late answer of a script finds
\* either a stream nghttp2 knows or none.
ProviderAlive == Pointed \subseteq streams /\ streams \subseteq Active

\* on_write copies every chunk of the session to the socket exactly once and
\* in order, across the chunk that did not fit and was kept in buf_, and never
\* more of them than outbuf_ has room for.
WireMatchesSession ==
    /\ Len(outbuf) <= BufferChunks
    /\ ~garbled
    /\ ~stopped => unsent = outbuf \o stash

\* The first read is outstanding and the session holds nothing but what start
\* left in it.
BeforeFirstRead ==
    /\ reading
    /\ queue = Preface /\ aob = << >> /\ stash = << >>
    /\ \A i \in Ids : sess[i] = "idle"

\* Whenever the worker thread is outside the handler and the session has
\* something to send, a write is outstanding, whose completion looks again,
\* or an initiate_write is posted.  The one exception is the preface: start
\* queues SETTINGS and nobody calls do_write before the first read completes,
\* so what may wait for the client is the preface and nothing else.
NoLostWakeup ==
    (~stopped /\ pc = "idle" /\ (stash # << >> \/ WantWrite)) =>
        writing \/ InitiateWriteTask \in Range(tasks) \/ BeforeFirstRead

\* should_stop ends the connection only after everything the session produced
\* was written and, unless the session failed, every request was concluded.
GracefulEnd ==
    stopCause = "should_stop" =>
        /\ unsent = << >>
        /\ goaway # "sent" => Active = {}

\* A request whose client grants it a window is answered, so that its slot in
\* the session is free again, or the session or the connection ends.
StreamReleased ==
    \A i \in Ids : (i \in dispatched /\ i \notin blocked) ~>
                       (sess[i] = "closed" \/ stopped \/ Ending)

\* A session nghttp2 has given up ends the connection, after its GOAWAY.
EndedSessionCloses == Ending ~> stopped

=============================================================================
