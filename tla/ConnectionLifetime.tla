-------------------------- MODULE ConnectionLifetime --------------------------
(***************************************************************************)
(* How connections come and go: the listener thread accepts a socket and   *)
(* hands it to a worker thread chosen round robin; the worker runs the     *)
(* completion handlers of its io_service in the order they became ready;   *)
(* a deadline ends idle connections; stop_server ends everything.          *)
(*                                                                         *)
(* A connection has no owner but the handlers that hold a shared_ptr to    *)
(* it: outstanding and queued operations, the accept handler while it      *)
(* runs, and the handler's writefun_ until reset_writefun breaks that      *)
(* cycle.  What is read and written is the subject of Http1Connection and  *)
(* Http2Connection; here a read or a write may lead to any of the outcomes *)
(* do_read and do_write distinguish.                                       *)
(***************************************************************************)
EXTENDS Naturals, Sequences, SequencesExt, FiniteSets

CONSTANTS
    MaxConns,   \* bound: connections accepted
    MaxOpen,    \* bound: sockets open at a time
    MaxEvents,  \* bound: reads with data and writes per connection
    Workers,    \* io_service_pool size without the listener's io_service
    Timeout,    \* tls_handshake_timeout_ and read_timeout_, in ticks
    TlsModes    \* whether listen_and_serve is given a TLS context

ASSUME LifetimeAssumption ==
    /\ MaxConns \in Nat \ {0} /\ MaxOpen \in Nat /\ MaxEvents \in Nat /\ Workers \in Nat \ {0}
    /\ Timeout \in Nat \ {0}
    /\ TlsModes \subseteq BOOLEAN

VARIABLES
    tls,         \* listen_and_serve was given a TLS context
    serving,     \* stop_server was not called: acceptors open, work_ not empty
    accepting,   \* an async_accept is outstanding, for connection `made`
    made,        \* connections made by start_accept
    lpc,         \* where the listener is inside the accept handler
    nextIo,      \* io_service_pool::next_io_service_
    conn,        \* the connections, see Connection
    queue,       \* ready handlers of each worker's io_service
    registered,  \* handlers in the alive_handlers of their worker thread
    failed,      \* workers whose run() was left by an exception
    ended        \* workers whose run() returned: out of work

lifetimeVars == <<tls, serving, accepting, made, lpc, nextIo>>
vars == <<lifetimeVars, conn, queue, registered, failed, ended>>

Conns == 1..MaxConns
WorkerIds == 1..Workers

Ops == {"wait", "handshake", "read", "write"}

(***************************************************************************)
(* io: the worker; left: ticks until deadline_.expires_at(); ops: the      *)
(* outstanding operations; handler: handler_ does not exist, has its       *)
(* writefun_, or was cut by reset_writefun; idle: history, ticks since     *)
(* the deadline was last pushed back.                                      *)
(***************************************************************************)
Connection ==
    [io : WorkerIds, stopped : BOOLEAN, left : 0..Timeout, idle : 0..Timeout,
     ops : SUBSET Ops, writing : BOOLEAN,
     handler : {"none", "live", "cut"}, events : 0..MaxEvents]

NewConnection(w) ==
    [io |-> w, stopped |-> FALSE, left |-> Timeout, idle |-> 0, ops |-> {},
     writing |-> FALSE, handler |-> "none", events |-> 0]

Entries == [kind : Ops \cup {"start"}, conn : Conns, ok : BOOLEAN]
Entry(k, c, ok) == [kind |-> k, conn |-> c, ok |-> ok]

TypeOK ==
    /\ tls \in TlsModes /\ serving \in BOOLEAN /\ accepting \in BOOLEAN
    /\ made \in 0..MaxConns
    /\ lpc \in {"idle", "accepted", "begun"}
    /\ nextIo \in WorkerIds
    /\ conn \in [Conns -> Connection]
    /\ queue \in [WorkerIds -> Seq(Entries)]
    /\ registered \subseteq Conns
    /\ failed \subseteq WorkerIds /\ ended \subseteq WorkerIds

-----------------------------------------------------------------------------
(* Ownership                                                               *)

\* Handlers queued for c that hold a shared_ptr; the lambda posted by start
\* captures `this` alone.
Queued(c) == {i \in DOMAIN queue[conn[c].io] :
                 /\ queue[conn[c].io][i].conn = c
                 /\ queue[conn[c].io][i].kind # "start"}

\* Somebody holds a shared_ptr to c.
Owned(c) ==
    \/ accepting /\ c = made
    \/ lpc # "idle" /\ c = made
    \/ conn[c].ops # {}
    \/ Queued(c) # {}
    \/ conn[c].handler = "live"

\* c was accepted (a connection whose accept is outstanding has no socket).
Accepted(c) == c < made \/ (c = made /\ ~accepting)

\* ~base_handler runs in the thread that drops the last reference and takes
\* the handler out of the alive_handlers of that thread.
DestroyedByWorker == registered' = {c \in registered : Owned(c)'}
DestroyedByListener == UNCHANGED registered

-----------------------------------------------------------------------------
(* The connection's own functions                                          *)

\* Operations that are cancelled complete at once, with an error.
Aborted(c, S) == SetToSeq({Entry(k, c, FALSE) : k \in S})

\* Mutant: the socket is not closed and the timer not cancelled.
Stop_KeepsOps(r) == [r EXCEPT !.stopped = TRUE,
                              !.handler = IF @ = "live" THEN "cut" ELSE @]

\* stop()
Stop(r) == [r EXCEPT !.stopped = TRUE, !.ops = {},
                     !.handler = IF @ = "live" THEN "cut" ELSE @]
StopAborts(c, r) == IF r.stopped THEN << >> ELSE Aborted(c, r.ops)
StopIfRunning(r) == IF r.stopped THEN r ELSE Stop(r)

\* deadline_.expires_from_now(): the pending wait is cancelled.
PushBack(r) == [r EXCEPT !.left = Timeout, !.idle = 0, !.ops = @ \ {"wait"}]

\* The handler of the cancelled wait is ready.
PushBackAborts(c, r) == Aborted(c, r.ops \cap {"wait"})

\* do_read()
DoRead(r) == IF r.stopped THEN r
             ELSE [PushBack(r) EXCEPT !.ops = @ \cup {"read"}]
DoReadAborts(c, r) == IF r.stopped THEN << >> ELSE PushBackAborts(c, r)

\* do_write() with what on_write may return: nothing, bytes, or an end
\* (an error, or no bytes and should_stop()).
DoWrite(r, outcome) ==
    IF r.stopped \/ r.writing \/ outcome = "nothing" THEN r
    ELSE IF outcome = "stop" THEN Stop(r)
    ELSE [PushBack(r) EXCEPT !.ops = @ \cup {"write"}, !.writing = TRUE,
                             !.events = @ + 1]
DoWriteAborts(c, r, outcome) ==
    IF r.stopped \/ r.writing \/ outcome = "nothing" THEN << >>
    ELSE IF outcome = "stop" THEN StopAborts(c, r)
    ELSE PushBackAborts(c, r)

WriteOutcomes(r) ==
    {"nothing", "stop"} \cup (IF r.events < MaxEvents THEN {"bytes"} ELSE {})

-----------------------------------------------------------------------------
Init ==
    /\ tls \in TlsModes
    /\ serving = TRUE /\ accepting = TRUE /\ made = 1 /\ lpc = "idle"
    /\ nextIo = (1 % Workers) + 1
    /\ conn = [c \in Conns |-> NewConnection(1)]
    /\ queue = [w \in WorkerIds |-> << >>]
    /\ registered = {} /\ failed = {} /\ ended = {}

(* The listener thread                                                     *)

\* async_accept succeeded: the deadline is started on this thread.
Accept ==
    /\ accepting /\ serving /\ lpc = "idle"
    /\ Cardinality({c \in Conns : Accepted(c) /\ ~conn[c].stopped}) < MaxOpen
    /\ accepting' = FALSE
    /\ lpc' = "accepted"
    /\ conn' = [conn EXCEPT ![made].ops = {"wait"}, ![made].left = Timeout,
                            ![made].idle = 0]
    /\ UNCHANGED <<tls, serving, made, nextIo, queue, registered, failed, ended>>

\* The rest of the accept handler: async_handshake (which fails at once on a
\* socket that was closed meanwhile) or start(), which posts a lambda.
Begin ==
    /\ lpc = "accepted"
    /\ lpc' = "begun"
    /\ LET c == made
           w == conn[c].io
       IN  IF tls /\ ~conn[c].stopped
           THEN /\ conn' = [conn EXCEPT ![c].ops = @ \cup {"handshake"}]
                /\ UNCHANGED queue
           ELSE /\ queue' = [queue EXCEPT ![w] = Append(@,
                       Entry(IF tls THEN "handshake" ELSE "start", c, ~tls))]
                /\ UNCHANGED conn
    /\ DestroyedByListener
    /\ UNCHANGED <<tls, serving, accepting, made, nextIo, failed, ended>>

\* start_accept(): a connection on the next io_service, unless closed.
StartAccept ==
    IF serving /\ made < MaxConns
    THEN /\ accepting' = TRUE
         /\ made' = made + 1
         /\ conn' = [conn EXCEPT ![made + 1] = NewConnection(nextIo)]
         /\ nextIo' = (nextIo % Workers) + 1
    ELSE /\ accepting' = FALSE
         /\ UNCHANGED <<made, conn, nextIo>>

\* The accept handler starts the next accept and returns.
Return ==
    /\ lpc = "begun"
    /\ lpc' = "idle"
    /\ StartAccept
    /\ DestroyedByListener
    /\ UNCHANGED <<tls, serving, queue, failed, ended>>

\* async_accept failed for another reason: the connection is dropped and a
\* new one, on the next io_service, takes its place.
AcceptError ==
    /\ accepting /\ serving /\ lpc = "idle"
    /\ conn' = [conn EXCEPT ![made] = NewConnection(nextIo)]
    /\ nextIo' = (nextIo % Workers) + 1
    /\ UNCHANGED <<tls, serving, accepting, made, lpc, queue, registered, failed, ended>>

\* no_descriptors (the limit is the process's): reset_acceptor looks its timer up under the address of the
\* acceptor in acceptors_, but the timers were stored under the address of a
\* local variable of bind_and_listen: no timer is found, nothing restarts.
AcceptNoDescriptors ==
    /\ accepting /\ serving /\ lpc = "idle"
    /\ accepting' = FALSE
    /\ made' = made - 1
    /\ UNCHANGED <<tls, serving, lpc, nextIo, conn, queue, registered, failed, ended>>

\* The acceptor was closed: start_accept returns at once.
AcceptAborted ==
    /\ accepting /\ ~serving /\ lpc = "idle"
    /\ accepting' = FALSE
    /\ made' = made - 1
    /\ UNCHANGED <<tls, serving, lpc, nextIo, conn, queue, registered, failed, ended>>

\* stop_server(): close the acceptors and clear work_.
StopServer ==
    /\ serving
    /\ serving' = FALSE
    /\ UNCHANGED <<tls, accepting, made, lpc, nextIo, conn, queue, registered, failed, ended>>

-----------------------------------------------------------------------------
(* The kernel and the clock                                                *)

Tick ==
    /\ \E c \in Conns : Accepted(c) /\ ~conn[c].stopped /\ conn[c].left > 0
    /\ conn' = [c \in Conns |->
                  IF Accepted(c) /\ ~conn[c].stopped /\ conn[c].left > 0
                  THEN [conn[c] EXCEPT !.left = @ - 1, !.idle = @ + 1]
                  ELSE conn[c]]
    /\ UNCHANGED <<lifetimeVars, queue, registered, failed, ended>>

\* An operation of c is complete and its handler becomes ready.
Complete(c, k, ok) ==
    /\ k \in conn[c].ops
    /\ k = "wait" => conn[c].left = 0 /\ ok
    /\ k = "read" /\ ok => conn[c].events < MaxEvents
    /\ conn' = [conn EXCEPT ![c].ops = @ \ {k},
                            ![c].events = IF k = "read" /\ ok THEN @ + 1 ELSE @]
    /\ queue' = [queue EXCEPT ![conn[c].io] = Append(@, Entry(k, c, ok))]
    /\ UNCHANGED <<lifetimeVars, registered, failed, ended>>

-----------------------------------------------------------------------------
(* The worker threads                                                      *)

\* w runs the handler at the head of its queue, which is of kind k.
Runs(w, k) ==
    /\ w \notin failed \cup ended
    /\ queue[w] # << >>
    /\ Head(queue[w]).kind = k

\* The handler leaves connection c as r and makes more handlers ready.
Done(w, c, r, more) ==
    /\ conn' = [conn EXCEPT ![c] = r]
    /\ queue' = [queue EXCEPT ![w] = Tail(@) \o more]
    /\ UNCHANGED <<lifetimeVars, failed, ended>>
    /\ DestroyedByWorker

\* Mutant: any completed wait ends the connection.
HandleDeadline_NoCompare(w) ==
    /\ Runs(w, "wait")
    /\ LET c == Head(queue[w]).conn
           r == conn[c]
       IN  Done(w, c, StopIfRunning(r), StopAborts(c, r))

\* Mutant: an expired connection is waited for again instead of stopped.
HandleDeadline_NeverStops(w) ==
    /\ Runs(w, "wait")
    /\ LET c == Head(queue[w]).conn
           r == conn[c]
       IN  Done(w, c, IF r.stopped THEN r ELSE [r EXCEPT !.ops = @ \cup {"wait"}], << >>)

\* handle_deadline()
HandleDeadline(w) ==
    /\ Runs(w, "wait")
    /\ LET c == Head(queue[w]).conn
           r == conn[c]
       IN  IF r.stopped THEN Done(w, c, r, << >>)
           ELSE IF r.left = 0 THEN Done(w, c, Stop(r), StopAborts(c, r))
           ELSE Done(w, c, [r EXCEPT !.ops = @ \cup {"wait"}], << >>)

\* The handshake's handler: stop, or post the lambda of start.
HandleHandshake(w) ==
    /\ Runs(w, "handshake")
    /\ LET e == Head(queue[w])
           r == conn[e.conn]
       IN  IF e.ok THEN Done(w, e.conn, r, <<Entry("start", e.conn, TRUE)>>)
           ELSE Done(w, e.conn, StopIfRunning(r), StopAborts(e.conn, r))

\* start_in_own_thread: makes the handler, registers it and starts to read;
\* handler_->start() may fail.
StartInOwnThread(w) ==
    /\ Runs(w, "start")
    /\ LET c == Head(queue[w]).conn
           r == [conn[c] EXCEPT !.handler = "live"]
       IN  /\ Owned(c)
           /\ \E started \in BOOLEAN :
                /\ conn' = [conn EXCEPT ![c] =
                              IF started THEN DoRead(r) ELSE StopIfRunning(r)]
                /\ queue' = [queue EXCEPT ![w] = Tail(@) \o
                              (IF started THEN DoReadAborts(c, r)
                               ELSE StopAborts(c, r))]
           /\ UNCHANGED <<lifetimeVars, failed, ended>>
           /\ registered' = {d \in registered \cup {c} : Owned(d)'}

\* The lambda of start finds its connection destroyed: shared_from_this()
\* throws at best, and the exception leaves run().
StartAfterFree(w) ==
    /\ Runs(w, "start")
    /\ ~Owned(Head(queue[w]).conn)
    /\ failed' = failed \cup {w}
    /\ UNCHANGED <<lifetimeVars, conn, queue, registered, ended>>

\* The read's handler: error, error of on_read, or do_write, should_stop and
\* do_read.
HandleRead(w) ==
    /\ Runs(w, "read")
    /\ LET e == Head(queue[w])
           c == e.conn
           r == conn[c]
       IN  \/ Done(w, c, StopIfRunning(r), StopAborts(c, r))
           \/ /\ e.ok
              /\ \E outcome \in WriteOutcomes(r) :
                   LET r1 == DoWrite(r, outcome)
                       a1 == DoWriteAborts(c, r, outcome)
                   IN  \/ Done(w, c, DoRead(r1), a1 \o DoReadAborts(c, r1))
                       \/ /\ ~r1.writing
                          /\ Done(w, c, StopIfRunning(r1), a1 \o StopAborts(c, r1))

\* The write's handler.
HandleWrite(w) ==
    /\ Runs(w, "write")
    /\ LET e == Head(queue[w])
           c == e.conn
           r == [conn[c] EXCEPT !.writing = FALSE]
       IN  IF e.ok
           THEN \E outcome \in WriteOutcomes(r) :
                    Done(w, c, DoWrite(r, outcome), DoWriteAborts(c, r, outcome))
           ELSE Done(w, c, StopIfRunning(conn[c]), StopAborts(c, conn[c]))

\* The initiate_write that signal_write posted for a finished answer.
InitiateWrite(w, c) ==
    /\ w \notin failed \cup ended
    /\ conn[c].io = w /\ conn[c].handler = "live"
    /\ \E outcome \in WriteOutcomes(conn[c]) :
         /\ conn' = [conn EXCEPT ![c] = DoWrite(@, outcome)]
         /\ queue' = [queue EXCEPT ![w] = @ \o DoWriteAborts(c, conn[c], outcome)]
    /\ UNCHANGED <<lifetimeVars, failed, ended>>
    /\ DestroyedByWorker

\* run() returns: work_ is gone, nothing is outstanding and nothing ready.
RunReturns(w) ==
    /\ ~serving /\ w \notin failed \cup ended
    /\ queue[w] = << >>
    /\ \A c \in Conns : conn[c].io = w => conn[c].ops = {}
    /\ ended' = ended \cup {w}
    /\ UNCHANGED <<lifetimeVars, conn, queue, registered, failed>>

Listener == Begin \/ Return
Worker(w) ==
    \/ HandleDeadline(w) \/ HandleHandshake(w) \/ StartInOwnThread(w)
    \/ StartAfterFree(w) \/ HandleRead(w) \/ HandleWrite(w)

Next ==
    \/ Accept \/ Listener \/ AcceptError \/ AcceptNoDescriptors
    \/ AcceptAborted \/ StopServer \/ Tick
    \/ \E c \in Conns, k \in Ops, ok \in BOOLEAN : Complete(c, k, ok)
    \/ \E w \in WorkerIds : Worker(w) \/ RunReturns(w)
    \/ \E w \in WorkerIds, c \in Conns : InitiateWrite(w, c)

Spec == Init /\ [][Next]_vars

(***************************************************************************)
(* Threads run what is ready, time passes and expired waits complete, a    *)
(* closed acceptor reports it and idle io_services return.  Clients,       *)
(* sockets and stop_server owe nothing.                                    *)
(***************************************************************************)
FairSpec ==
    /\ Spec
    /\ WF_vars(Listener) /\ WF_vars(AcceptAborted) /\ WF_vars(Tick)
    /\ \A c \in Conns : WF_vars(Complete(c, "wait", TRUE))
    /\ \A w \in WorkerIds : SF_vars(Worker(w)) /\ WF_vars(RunReturns(w))

-----------------------------------------------------------------------------
(* Properties                                                              *)

\* An expiry that was ready when the deadline was pushed back stops nobody:
\* handle_deadline ends only connections that were idle for the timeout.
OnlyIdleExpire ==
    [][\A w \in WorkerIds : HandleDeadline(w) =>
         \A c \in Conns : conn'[c].stopped /\ ~conn[c].stopped =>
             conn[c].idle = Timeout]_vars

\* Every accepted connection whose client falls silent (MaxEvents) is stopped
\* by the deadline if by nothing else, unless its thread used memory of a
\* destroyed connection (StartAfterFree) or the whole server ended before.
ConnectionEnds ==
    \A c \in Conns :
        Accepted(c) ~> \/ conn[c].stopped
                       \/ conn[c].io \in failed
                       \/ failed \cup ended = WorkerIds

\* stop_server makes every worker's run() return.
ServerStops == ~serving ~> (failed \cup ended = WorkerIds)
=============================================================================
