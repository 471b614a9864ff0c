--------------------------- MODULE RequestDispatch ---------------------------
(***************************************************************************)
(* The request callback that asio_svr_entry installs, as the worker        *)
(* threads, the offload threads, an application thread and the statistics  *)
(* thread run it together (asio_util.cc).                                  *)
(*                                                                         *)
(* Every worker thread owns an io_service, an index into the matchers and  *)
(* the counters, and its own table of handlers: handler ids are counted    *)
(* per thread, so the same id names different connections in different     *)
(* threads.  A script runs on the worker thread, or on an offload thread   *)
(* through a strand of its own, after which the answer is posted back.     *)
(* A connection is abstracted to the one request it carries.               *)
(***************************************************************************)
EXTENDS Integers, Sequences, FiniteSets, FiniteSetsExt

CONSTANTS Worker, Pool,     \* threads of the io_service pool, offload threads
          Request,          \* requests that may arrive
          Response,         \* configured responses, each of a service of its own
          Inline, Offload,  \* responses with a script, and with lua_offload
          CanThrottle,      \* responses with a throttle_ratio
          CanProcess,       \* responses whose service may get a request processor
          Instances,        \* values of server_thread_index the application uses
          Zero,             \* responses whose script may set status 0
          IntWidth          \* totals are accumulated in an int of that many bits

None == "none"              \* no thread, no response, no answer

ASSUME DispatchAssumption ==
    /\ None \notin Worker \cup Response \cup Request
    /\ Inline \subseteq Response /\ Offload \subseteq Response \ Inline
    /\ CanThrottle \subseteq Response /\ CanProcess \subseteq Response
    /\ Zero \subseteq Response /\ Instances \subseteq Nat
    /\ IntWidth \in Nat \ {0}
    /\ IsFiniteSet(Worker) /\ IsFiniteSet(Request) /\ IsFiniteSet(Response)

NoIndex == -1
Index == 0 .. Cardinality(Worker) - 1       \* the vectors have one entry per thread
Matcher == Index \X Response                \* the response objects of all matchers

VARIABLES
    threadIndex,    \* the atomic counter new threads draw their index from
    thread_index,   \* worker -> its index, or NoIndex before its first request
    io_service,     \* index -> the worker whose io_service the matcher knows
    processor,      \* index -> responses whose service has a request processor
    installs,       \* posted calls of install_request_callback: <<worker, index, response>>
    home, hid,      \* request -> the thread and the handler id of its connection
    nextId,         \* worker -> its handler_unique_id
    alive,          \* worker -> handler ids of its alive handlers with their stream
    phase,          \* request -> where its handling is
    resp,           \* request -> the response selected for it
    target,         \* request -> the worker its send_response was posted to
    answer,         \* request -> the request whose answer was written to its stream
    strandQ,        \* matcher -> the requests waiting in its strand
    inLua,          \* matcher -> the threads inside its Lua state
    received, unmatched,    \* index -> counter
    sent, throttled,        \* matcher -> counter
    stat            \* the statistics thread

threads  == <<threadIndex, thread_index, io_service, processor, installs>>
conns    == <<home, hid, nextId, alive, answer>>
handling == <<phase, resp, target>>
scripts  == <<strandQ, inLua>>
counters == <<received, unmatched, sent, throttled>>
vars     == <<threads, conns, handling, scripts, counters, stat>>

Phases == {"new", "callback", "inline", "strand", "pool", "processor",
           "posted", "answered", "done"}

NoTotals == [req |-> 0, unm |-> 0, sent |-> [p \in Response |-> 0], thr |-> [p \in Response |-> 0]]

Init ==
    /\ threadIndex = 0 /\ thread_index = [w \in Worker |-> NoIndex]
    /\ io_service = [i \in Index |-> None]
    /\ processor = [i \in Index |-> {}] /\ installs = {}
    /\ home = [r \in Request |-> None] /\ hid = [r \in Request |-> 0]
    /\ nextId = [w \in Worker |-> 0] /\ alive = [w \in Worker |-> {}]
    /\ phase = [r \in Request |-> "new"] /\ resp = [r \in Request |-> None]
    /\ target = [r \in Request |-> None] /\ answer = [r \in Request |-> None]
    /\ strandQ = [x \in Matcher |-> <<>>] /\ inLua = [x \in Matcher |-> {}]
    /\ received = [i \in Index |-> 0] /\ unmatched = [i \in Index |-> 0]
    /\ sent = [x \in Matcher |-> 0] /\ throttled = [x \in Matcher |-> 0]
    /\ stat = [pc |-> "sleep", now |-> NoTotals, last |-> NoTotals, shown |-> NoTotals]

(***************************************************************************)
(* Threads                                                                 *)
(***************************************************************************)

Busy(w) == \E r \in Request : home[r] = w /\ phase[r] \in {"callback", "inline"}
IndexOf(w) == thread_index[w]
MatcherOf(r) == <<IndexOf(home[r]), resp[r]>>

Found_AnyThread(w, id) == {r \in Request : hid[r] = id /\ home[r] # None}

(* The request that a handler id and stream id name in the tables of w.    *)
Found(w, id) == {r \in Request : home[r] = w /\ hid[r] = id /\ id \in alive[w]}

(* The index a thread draws at its first request.                          *)
DrawIndex(w) == IF thread_index[w] = NoIndex THEN threadIndex ELSE thread_index[w]

Callback_StoresOnce(w, r) ==
    /\ phase[r] = "new" /\ ~ Busy(w)
    /\ home' = [home EXCEPT ![r] = w]
    /\ hid' = [hid EXCEPT ![r] = nextId[w]]
    /\ nextId' = [nextId EXCEPT ![w] = @ + 1]
    /\ alive' = [alive EXCEPT ![w] = @ \cup {nextId[w]}]
    /\ LET i == DrawIndex(w) IN
       /\ thread_index' = [thread_index EXCEPT ![w] = i]
       /\ threadIndex' = IF thread_index[w] = NoIndex THEN threadIndex + 1 ELSE threadIndex
       /\ io_service' = IF threadIndex = 0 THEN [io_service EXCEPT ![i] = w]
                                                  ELSE io_service
       /\ received' = [received EXCEPT ![i] = @ + 1]
    /\ phase' = [phase EXCEPT ![r] = "callback"]
    /\ UNCHANGED <<processor, installs, answer, resp, target, scripts, unmatched, sent, throttled, stat>>

(***************************************************************************)
(* A request is complete on a connection of worker w: the static           *)
(* thread_local variables of the callback are initialised, the matcher     *)
(* learns the io_service, the request is counted.                          *)
(***************************************************************************)
Callback(w, r) ==
    /\ phase[r] = "new" /\ ~ Busy(w)
    /\ home' = [home EXCEPT ![r] = w]
    /\ hid' = [hid EXCEPT ![r] = nextId[w]]
    /\ nextId' = [nextId EXCEPT ![w] = @ + 1]
    /\ alive' = [alive EXCEPT ![w] = @ \cup {nextId[w]}]
    /\ LET i == DrawIndex(w) IN
       /\ thread_index' = [thread_index EXCEPT ![w] = i]
       /\ threadIndex' = IF thread_index[w] = NoIndex THEN threadIndex + 1 ELSE threadIndex
       /\ io_service' = IF thread_index[w] = NoIndex THEN [io_service EXCEPT ![i] = w]
                                                  ELSE io_service
       /\ received' = [received EXCEPT ![i] = @ + 1]
    /\ phase' = [phase EXCEPT ![r] = "callback"]
    /\ UNCHANGED <<processor, installs, answer, resp, target, scripts, unmatched, sent, throttled, stat>>

(* No service matches: answered with 404 at once.                          *)
Unmatched(r) ==
    /\ phase[r] = "callback"
    /\ unmatched' = [unmatched EXCEPT ![IndexOf(home[r])] = @ + 1]
    /\ answer' = [answer EXCEPT ![r] = r]
    /\ phase' = [phase EXCEPT ![r] = "done"]
    /\ UNCHANGED <<threads, home, hid, nextId, alive, resp, target, scripts, received, sent, throttled, stat>>

(* The service has a request processor, which takes the request over.      *)
Process(r, p) ==
    /\ phase[r] = "callback" /\ p \in processor[IndexOf(home[r])]
    /\ resp' = [resp EXCEPT ![r] = p]
    /\ target' = [target EXCEPT ![r] = io_service[IndexOf(home[r])]]
    /\ phase' = [phase EXCEPT ![r] = "processor"]
    /\ UNCHANGED <<threads, conns, scripts, counters, stat>>

Selected(r, p) == phase[r] = "callback" /\ p \notin processor[IndexOf(home[r])]

(* is_response_throttled: the stream is closed without an answer.          *)
ThrottleResponse(r, p) ==
    /\ Selected(r, p) /\ p \in CanThrottle
    /\ alive' = [alive EXCEPT ![home[r]] = @ \ {hid[r]}]
    /\ throttled' = [throttled EXCEPT ![<<IndexOf(home[r]), p>>] = @ + 1]
    /\ resp' = [resp EXCEPT ![r] = p]
    /\ phase' = [phase EXCEPT ![r] = "done"]
    /\ UNCHANGED <<threads, home, hid, nextId, answer, target, scripts, received, unmatched, sent, stat>>

SendResponse_CountsFirst(w, r, zero, counted) ==
    LET found == Found(w, hid[r]) IN
    /\ answer' = [q \in Request |-> IF q \in found /\ ~ zero THEN r ELSE answer[q]]
    /\ alive' = IF zero THEN [alive EXCEPT ![w] = @ \ {hid[r]}] ELSE alive
    /\ sent' = IF counted
               THEN [sent EXCEPT ![MatcherOf(r)] = @ + 1] ELSE sent
    /\ phase' = [phase EXCEPT ![r] = "done"]
    /\ UNCHANGED <<threads, home, hid, nextId, received, unmatched, throttled, stat>>

(***************************************************************************)
(* send_response, run on worker w for request r: the handler and the       *)
(* stream are looked up by their ids in the tables of w; a script may ask  *)
(* for status 0, which closes the stream instead of answering it.          *)
(***************************************************************************)
SendResponse(w, r, zero, counted) ==
    LET found == Found(w, hid[r]) IN
    /\ answer' = [q \in Request |-> IF q \in found /\ ~ zero THEN r ELSE answer[q]]
    /\ alive' = IF zero THEN [alive EXCEPT ![w] = @ \ {hid[r]}] ELSE alive
    /\ sent' = IF counted /\ found # {} /\ ~ zero
               THEN [sent EXCEPT ![MatcherOf(r)] = @ + 1] ELSE sent
    /\ phase' = [phase EXCEPT ![r] = "done"]
    /\ UNCHANGED <<threads, home, hid, nextId, received, unmatched, throttled, stat>>

(* No script: the answer is sent from the callback.                        *)
SendPlain(r, p) ==
    /\ Selected(r, p) /\ p \notin Inline \cup Offload
    /\ LET w == home[r] IN
       /\ answer' = [q \in Request |-> IF q \in Found(w, hid[r]) THEN r ELSE answer[q]]
       /\ sent' = [sent EXCEPT ![<<IndexOf(w), p>>] = @ + 1]
    /\ resp' = [resp EXCEPT ![r] = p]
    /\ phase' = [phase EXCEPT ![r] = "done"]
    /\ UNCHANGED <<threads, home, hid, nextId, alive, target, scripts, received, unmatched, throttled, stat>>

(* The script runs on the worker thread, in the Lua state of its matcher.  *)
StartInline(r, p) ==
    /\ Selected(r, p) /\ p \in Inline
    /\ inLua' = [inLua EXCEPT ![<<IndexOf(home[r]), p>>] = @ \cup {home[r]}]
    /\ resp' = [resp EXCEPT ![r] = p]
    /\ phase' = [phase EXCEPT ![r] = "inline"]
    /\ UNCHANGED <<threads, conns, target, strandQ, counters, stat>>

(* The script returns and its answer is sent.                              *)
EndInline(r, zero) ==
    /\ phase[r] = "inline" /\ (zero => resp[r] \in Zero)
    /\ inLua' = [inLua EXCEPT ![MatcherOf(r)] = @ \ {home[r]}]
    /\ SendResponse(home[r], r, zero, TRUE)
    /\ UNCHANGED <<resp, target, strandQ>>

(* The strand the script is posted to: one per thread and response.        *)
StrandOf(r, p) == <<IndexOf(home[r]), p>>

OffloadScript(r, p) ==
    /\ Selected(r, p) /\ p \in Offload
    /\ strandQ' = [strandQ EXCEPT ![StrandOf(r, p)] = Append(@, r)]
    /\ resp' = [resp EXCEPT ![r] = p]
    /\ target' = [target EXCEPT ![r] = io_service[IndexOf(home[r])]]
    /\ phase' = [phase EXCEPT ![r] = "strand"]
    /\ UNCHANGED <<threads, conns, inLua, counters, stat>>

StrandReady_Posted(x, r) == strandQ[x] # <<>> /\ Head(strandQ[x]) = r

(***************************************************************************)
(* Offload threads.  A strand runs one of its handlers at a time, in the   *)
(* order they were posted.                                                 *)
(***************************************************************************)

StrandReady(x, r) ==
    /\ strandQ[x] # <<>> /\ Head(strandQ[x]) = r
    /\ \A q \in Request : ~ (phase[q] = "pool" /\ StrandOf(q, resp[q]) = x)

Free(t) == \A x \in Matcher : t \notin inLua[x]

RunScript(t, r) ==
    /\ phase[r] = "strand" /\ Free(t)
    /\ \E x \in Matcher :
         /\ StrandReady(x, r)
         /\ strandQ' = [strandQ EXCEPT ![x] = Tail(@)]
    /\ inLua' = [inLua EXCEPT ![MatcherOf(r)] = @ \cup {t}]
    /\ phase' = [phase EXCEPT ![r] = "pool"]
    /\ UNCHANGED <<threads, conns, resp, target, counters, stat>>

(* The script returns; send_response is posted to the io_service that was  *)
(* bound with the call.  Without one there is no answer.                   *)
PostAnswer(t, r) ==
    /\ phase[r] = "pool" /\ t \in inLua[MatcherOf(r)]
    /\ inLua' = [inLua EXCEPT ![MatcherOf(r)] = @ \ {t}]
    /\ phase' = [phase EXCEPT ![r] = IF target[r] = None THEN "done" ELSE "posted"]
    /\ UNCHANGED <<threads, conns, resp, target, strandQ, counters, stat>>

SendPosted(w, r, zero) ==
    /\ phase[r] \in {"posted", "answered"} /\ target[r] = w /\ ~ Busy(w)
    /\ zero => resp[r] \in Zero
    /\ SendResponse(w, r, zero, phase[r] = "posted")
    /\ UNCHANGED <<resp, target, scripts>>

(***************************************************************************)
(* The application: it installs request processors and answers what they   *)
(* took, from threads of its own.                                          *)
(***************************************************************************)

(* The matcher has no io_service yet: the processor is set directly.       *)
InstallDirect(i, p) ==
    /\ p \in CanProcess \ processor[i] /\ io_service[i] = None
    /\ processor' = [processor EXCEPT ![i] = @ \cup {p}]
    /\ UNCHANGED <<threadIndex, thread_index, io_service, installs, conns, handling, scripts, counters, stat>>

InstallPosted(i, p) ==
    /\ p \in CanProcess \ processor[i] /\ io_service[i] # None
    /\ <<io_service[i], i, p>> \notin installs
    /\ installs' = installs \cup {<<io_service[i], i, p>>}
    /\ UNCHANGED <<threadIndex, thread_index, io_service, processor, conns, handling, scripts, counters, stat>>

RunInstall(w, i, p) ==
    /\ <<w, i, p>> \in installs /\ ~ Busy(w)
    /\ installs' = installs \ {<<w, i, p>>}
    /\ processor' = [processor EXCEPT ![i] = @ \cup {p}]
    /\ UNCHANGED <<threadIndex, thread_index, io_service, conns, handling, scripts, counters, stat>>

(* send_response_from_another_thread: what it sends is not counted.        *)
AnswerFromApplication(r) ==
    /\ phase[r] = "processor" /\ target[r] # None
    /\ phase' = [phase EXCEPT ![r] = "answered"]
    /\ UNCHANGED <<threads, conns, resp, target, scripts, counters, stat>>

(* The peer resets the stream or the connection ends.                      *)
StreamGone(w, id) ==
    /\ id \in alive[w] /\ ~ Busy(w)
    /\ \E r \in Found(w, id) : phase[r] \in {"strand", "pool", "processor", "posted", "answered"}
    /\ alive' = [alive EXCEPT ![w] = @ \ {id}]
    /\ UNCHANGED <<threads, home, hid, nextId, answer, handling, scripts, counters, stat>>

(***************************************************************************)
(* The statistics thread                                                   *)
(***************************************************************************)

(* std::accumulate with the initial value 0, an int: the total wraps at    *)
(* the width of an int.                                                    *)
Accumulate(f, S) ==
    LET n == MapThenSumSet(LAMBDA x : f[x], S) % 2^IntWidth
    IN  IF n < 2^(IntWidth - 1) THEN n ELSE n - 2^IntWidth

StatsWake ==
    /\ stat.pc = "sleep"
    /\ stat' = [stat EXCEPT !.pc = "reading", !.last = stat.now,
                            !.now.req = Accumulate(received, Index)]
    /\ UNCHANGED <<threads, conns, handling, scripts, counters>>

Moved_RequestsOnly(now, last) == now.req # last.req

Total(f) == MapThenSumSet(LAMBDA p : f[p], Response)
Moved(now, last) ==
    \/ now.req # last.req
    \/ Total(now.sent) + Total(now.thr) # Total(last.sent) + Total(last.thr)

(* The other totals are read after that of the requests; a report is       *)
(* written only when requests or responses were counted.                   *)
StatsReport ==
    /\ stat.pc = "reading"
    /\ LET now == [req  |-> stat.now.req, unm |-> Accumulate(unmatched, Index),
                   sent |-> [p \in Response |-> Accumulate(sent, Index \X {p})],
                   thr  |-> [p \in Response |-> Accumulate(throttled, Index \X {p})]]
       IN  stat' = [pc |-> "sleep", now |-> now, last |-> now,
                    shown |-> IF Moved(now, stat.last) THEN now ELSE stat.shown]
    /\ UNCHANGED <<threads, conns, handling, scripts, counters>>

(* What a worker goes on with once the callback was entered.              *)
Handle(r) ==
    \/ Unmatched(r)
    \/ \E z \in BOOLEAN : EndInline(r, z)
    \/ \E p \in Response : \/ Process(r, p) \/ ThrottleResponse(r, p) \/ SendPlain(r, p)
                           \/ StartInline(r, p) \/ OffloadScript(r, p)

Next ==
    \/ \E w \in Worker, r \in Request : Callback(w, r)
    \/ \E r \in Request : Handle(r) \/ AnswerFromApplication(r)
    \/ \E t \in Pool, r \in Request : RunScript(t, r) \/ PostAnswer(t, r)
    \/ \E w \in Worker, r \in Request, z \in BOOLEAN : SendPosted(w, r, z)
    \/ \E i \in Index \cap Instances, p \in Response : InstallDirect(i, p) \/ InstallPosted(i, p)
    \/ \E w \in Worker, i \in Index, p \in Response : RunInstall(w, i, p)
    \/ \E w \in Worker, id \in 0 .. Cardinality(Request) : StreamGone(w, id)
    \/ StatsWake \/ StatsReport

Spec == Init /\ [][Next]_vars

(* The threads go on as long as they have something to do; nothing is      *)
(* assumed of the peers and of the application.                            *)
Fairness ==
    /\ \A w \in Worker :
         WF_vars(\E r \in Request : \/ home[r] = w /\ Handle(r)
                                    \/ \E z \in BOOLEAN : SendPosted(w, r, z))
    /\ WF_vars(\E t \in Pool, r \in Request : RunScript(t, r) \/ PostAnswer(t, r))
    /\ WF_stat(StatsWake \/ StatsReport)

FairSpec == Spec /\ Fairness

(***************************************************************************)
(* Properties                                                              *)
(***************************************************************************)

(* An answer is written to the stream of the request it was made for, and  *)
(* to no other, although the ids it is looked up by are unique within one  *)
(* thread only and a script ran on another one.                            *)
AnswerReachesRequester == \A r \in Request : answer[r] \in {None, r}

(* No two threads are ever in the same Lua state, which nothing locks: the *)
(* strand is what keeps the offload threads apart.                         *)
LuaStateExclusive == \A x \in Matcher : Cardinality(inLua[x]) <= 1

(* The requests counted by thread i, and those it is done with that were    *)
(* given the response p; p is None for a request no service matched.        *)
Arrived(i) == {r \in Request : home[r] # None /\ thread_index[home[r]] = i}
Finished(i, p) == {r \in Arrived(i) : phase[r] = "done" /\ resp[r] = p}

(* Every request is counted once by its thread, and at most once as        *)
(* answered, throttled or unmatched, by the response that was selected for *)
(* it, and what is counted as answered was: the offload threads hold       *)
(* references into the same vectors.                                       *)
CountersTruthful ==
    \A i \in Index :
      /\ received[i] = Cardinality(Arrived(i))
      /\ unmatched[i] = Cardinality(Finished(i, None))
      /\ \A p \in Response :
           /\ sent[<<i, p>>] + throttled[<<i, p>>] <= Cardinality(Finished(i, p))
           /\ sent[<<i, p>>] <= Cardinality({r \in Finished(i, p) : answer[r] = r})

(* A request whose script was offloaded is answered, unless its stream is  *)
(* gone by then.                                                           *)
OffloadedIsAnswered ==
    \A r \in Request :
      phase[r] = "strand" ~> (answer[r] = r \/ (home[r] # None /\ hid[r] \notin alive[home[r]]))

(* When the last of the requests has been handled, the last report shows   *)
(* every answer and every throttled request, also those that came after    *)
(* the report that showed the request.                                     *)
ReportCatchesUp ==
    <>[](\A p \in Response : /\ stat.shown.sent[p] = Accumulate(sent, Index \X {p})
                             /\ stat.shown.thr[p] = Accumulate(throttled, Index \X {p}))
=============================================================================
