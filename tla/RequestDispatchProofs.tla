------------------------ MODULE RequestDispatchProofs ------------------------
(***************************************************************************)
(* TLAPS proofs about RequestDispatch, for any finite set of workers and   *)
(* requests, any offload threads, responses and scripts.                   *)
(***************************************************************************)
EXTENDS RequestDispatch, QueueLemmas, FiniteSetTheorems

-----------------------------------------------------------------------------
(* The inductive invariant                                                 *)

\* The workers that have initialised their thread_local variables.
Drawn == {w \in Worker : thread_index[w] # NoIndex}

\* The indices are drawn one after the other, so that every thread has one of
\* its own, and the matcher of an index knows the io_service of its thread.
Threads ==
    /\ thread_index \in [Worker -> Index \cup {NoIndex}]
    /\ threadIndex = Cardinality(Drawn)
    /\ io_service \in [Index -> Worker \cup {None}]
    /\ \A w \in Drawn : /\ thread_index[w] < threadIndex
                        /\ io_service[thread_index[w]] = w
    /\ \A v, w \in Drawn : thread_index[v] = thread_index[w] => v = w

\* A handler id names one connection of a thread, and an answer is posted to
\* no other thread than that of the connection.
Connections ==
    /\ home \in [Request -> Worker \cup {None}]
    /\ hid \in [Request -> Nat] /\ nextId \in [Worker -> Nat]
    /\ \A r \in Request : home[r] # None => home[r] \in Drawn /\ hid[r] < nextId[home[r]]
    /\ \A q, r \in Request :
         home[q] # None /\ home[q] = home[r] /\ hid[q] = hid[r] => q = r

\* Where the handling of a request may be.
Handling ==
    /\ phase \in [Request -> Phases]
    /\ resp \in [Request -> Response \cup {None}]
    /\ target \in [Request -> Worker \cup {None}]
    /\ \A r \in Request :
         /\ phase[r] = "new" <=> home[r] = None
         /\ phase[r] \in {"new", "callback"} => resp[r] = None /\ target[r] = None
         /\ phase[r] \in {"inline", "strand", "pool", "processor", "posted", "answered"}
               => resp[r] \in Response
         /\ target[r] \in {None, home[r]}

\* The stream of a request is there as long as the callback runs.
Alive ==
    /\ alive \in [Worker -> SUBSET Nat]
    /\ \A r \in Request : phase[r] = "callback" => hid[r] \in alive[home[r]]

\* What waits in a strand is of its matcher; whoever is in a Lua state is the
\* thread of its matcher, or alone with the strand's running handler.
Strands ==
    /\ strandQ \in [Matcher -> Seq(Request)]
    /\ \A x \in Matcher :
         /\ IsInjective(strandQ[x])
         /\ \A r \in Range(strandQ[x]) :
              phase[r] = "strand" /\ MatcherOf(r) = x /\ resp[r] \in Offload

LuaStates ==
    /\ inLua \in [Matcher -> SUBSET (Worker \cup Pool)]
    /\ \A x \in Matcher : \A t \in inLua[x] :
         \/ x[2] \in Inline /\ t \in Drawn /\ thread_index[t] = x[1]
         \/ x[2] \in Offload /\ \E r \in Request : phase[r] = "pool" /\ MatcherOf(r) = x
    /\ \A x \in Matcher : \A t, u \in inLua[x] : t = u

\* Answers come last, and are counted with it.
Answers ==
    /\ answer \in [Request -> Request \cup {None}]
    /\ AnswerReachesRequester
    /\ \A r \in Request : answer[r] = r => phase[r] = "done"

Counts ==
    /\ received \in [Index -> Nat] /\ unmatched \in [Index -> Nat]
    /\ sent \in [Matcher -> Nat] /\ throttled \in [Matcher -> Nat]
    /\ CountersTruthful

IInv == /\ Threads /\ Connections /\ Handling /\ Alive
        /\ Strands /\ LuaStates /\ Answers /\ Counts

-----------------------------------------------------------------------------
(* Threads and connections                                                 *)

\* Only a new request changes what identifies threads and connections.
NoCallback == \A w \in Worker, r \in Request : ~Callback(w, r)

LEMMA OnlyCallback ==
    ASSUME [Next]_vars, NoCallback
    PROVE  UNCHANGED <<threadIndex, thread_index, io_service, home, hid, nextId, received>>
<1> DEFINE Same == UNCHANGED <<threadIndex, thread_index, io_service, home, hid, nextId, received>>
<1>1. ASSUME NEW r \in Request, Handle(r) \/ AnswerFromApplication(r) PROVE Same
  BY <1>1 DEF Handle, Unmatched, EndInline, SendResponse, Process, ThrottleResponse, SendPlain,
     StartInline, OffloadScript, AnswerFromApplication, threads, conns, counters
<1>2. ASSUME NEW t \in Pool, NEW r \in Request, RunScript(t, r) \/ PostAnswer(t, r) PROVE Same
  BY <1>2 DEF RunScript, PostAnswer, threads, conns, counters
<1>3. ASSUME NEW w \in Worker, NEW r \in Request, NEW z \in BOOLEAN, SendPosted(w, r, z) PROVE Same
  BY <1>3 DEF SendPosted, SendResponse, threads, conns, counters
<1>4. ASSUME NEW i \in Index, NEW p \in Response, InstallDirect(i, p) \/ InstallPosted(i, p) PROVE Same
  BY <1>4 DEF InstallDirect, InstallPosted, conns, counters
<1>5. ASSUME NEW w \in Worker, NEW i \in Index, NEW p \in Response, RunInstall(w, i, p) PROVE Same
  BY <1>5 DEF RunInstall, conns, counters
<1>6. ASSUME NEW w \in Worker, NEW id, StreamGone(w, id) PROVE Same
  BY <1>6 DEF StreamGone, threads, counters
<1>7. CASE StatsWake \/ StatsReport \/ UNCHANGED vars
  BY <1>7 DEF StatsWake, StatsReport, vars, threads, conns, counters
<1> QED BY <1>1, <1>2, <1>3, <1>4, <1>5, <1>6, <1>7 DEF Next, NoCallback

\* There is an index left for a thread that has none.
LEMMA DrawInRange ==
    ASSUME Threads, NEW w \in Worker
    PROVE  /\ IsFiniteSet(Drawn) /\ Cardinality(Drawn) \in Nat
           /\ Cardinality(Worker) \in Nat
           /\ DrawIndex(w) \in Index
           /\ w \notin Drawn => DrawIndex(w) = threadIndex
<1>1. /\ Drawn \in SUBSET Worker /\ IsFiniteSet(Worker)
  BY DispatchAssumption DEF Drawn
<1>2. /\ IsFiniteSet(Drawn) /\ Cardinality(Drawn) <= Cardinality(Worker)
      /\ Cardinality(Worker) = Cardinality(Drawn) => Worker = Drawn
  BY <1>1, FS_Subset
<1>3. Cardinality(Drawn) \in Nat /\ Cardinality(Worker) \in Nat
  BY <1>1, <1>2, FS_CardinalityType
<1>4. CASE w \in Drawn
  BY <1>2, <1>3, <1>4 DEF Threads, Drawn, DrawIndex
<1>5. CASE w \notin Drawn
  <2>1. Cardinality(Drawn) < Cardinality(Worker)
    BY <1>2, <1>3, <1>5
  <2> QED BY <1>2, <1>3, <1>5, <2>1 DEF Threads, Drawn, DrawIndex, Index
<1> QED BY <1>4, <1>5

LEMMA ThreadsInit == Init => Threads
<1> SUFFICES ASSUME Init PROVE Threads
  OBVIOUS
<1>1. Drawn = {}
  BY DEF Init, Drawn, NoIndex
<1> QED BY <1>1, FS_EmptySet DEF Init, Threads

\* What the first request of a thread changes.
LEMMA CallbackDraws ==
    ASSUME Threads, NEW w \in Worker, NEW r \in Request, Callback(w, r)
    PROVE  /\ thread_index' = [thread_index EXCEPT ![w] = DrawIndex(w)]
           /\ Drawn' = Drawn \cup {w}
           /\ \A v \in Drawn : thread_index'[v] = thread_index[v]
<1>1. DrawIndex(w) \in Index /\ NoIndex \notin Index
  BY DrawInRange DEF Index, NoIndex
<1> QED BY <1>1 DEF Callback, Threads, Drawn, DrawIndex

LEMMA ThreadsStep == Threads /\ [Next]_vars => Threads'
<1> SUFFICES ASSUME Threads, [Next]_vars PROVE Threads'
  OBVIOUS
<1>1. CASE NoCallback
  BY <1>1, OnlyCallback DEF Threads, Drawn
<1>2. ASSUME NEW w \in Worker, NEW r \in Request, Callback(w, r) PROVE Threads'
  <2>1. /\ IsFiniteSet(Drawn) /\ Cardinality(Drawn) \in Nat
        /\ DrawIndex(w) \in Index
        /\ w \notin Drawn => DrawIndex(w) = threadIndex
    BY DrawInRange
  <2>2. /\ thread_index' = [thread_index EXCEPT ![w] = DrawIndex(w)]
        /\ Drawn' = Drawn \cup {w}
        /\ \A v \in Drawn : thread_index'[v] = thread_index[v]
    BY <1>2, CallbackDraws
  <2>3. thread_index' \in [Worker -> Index \cup {NoIndex}]
    BY <2>1, <2>2 DEF Threads
  <2>4. CASE w \in Drawn
    <3>1. UNCHANGED <<threadIndex, io_service>> /\ Drawn' = Drawn
      BY <1>2, <2>2, <2>4 DEF Callback, Drawn
    <3> QED BY <2>2, <2>3, <3>1 DEF Threads
  <2>5. CASE w \notin Drawn
    <3>1. /\ threadIndex' = threadIndex + 1
          /\ io_service' = [io_service EXCEPT ![threadIndex] = w]
          /\ thread_index'[w] = threadIndex
      BY <1>2, <2>1, <2>2, <2>5 DEF Callback, Drawn, Threads
    <3>2. threadIndex' = Cardinality(Drawn')
      <4>1. Cardinality(Drawn \cup {w}) = Cardinality(Drawn) + 1
        BY <2>1, <2>5, FS_AddElement
      <4> QED BY <2>2, <3>1, <4>1 DEF Threads
    <3>3. io_service' \in [Index -> Worker \cup {None}]
      BY <3>1 DEF Threads
    <3>4. ASSUME NEW v \in Drawn'
          PROVE  thread_index'[v] < threadIndex' /\ io_service'[thread_index'[v]] = v
      <4>1. CASE v \in Drawn
        <5>1. thread_index[v] < threadIndex /\ thread_index[v] \in Index /\ threadIndex \in Nat
          BY <2>1, <4>1 DEF Threads, Drawn
        <5>2. thread_index[v] < threadIndex + 1 /\ thread_index[v] # threadIndex
          BY <5>1 DEF Index
        <5> QED BY <2>2, <3>1, <4>1, <5>1, <5>2 DEF Threads
      <4>2. CASE v = w
        BY <2>1, <2>5, <3>1, <4>2 DEF Threads
      <4> QED BY <2>2, <4>1, <4>2
    <3>5. ASSUME NEW u \in Drawn', NEW v \in Drawn', thread_index'[u] = thread_index'[v]
          PROVE  u = v
      <4>1. \A x \in Drawn : thread_index'[x] # threadIndex
        <5>1. ASSUME NEW x \in Drawn PROVE thread_index[x] # threadIndex
          <6>1. thread_index[x] < threadIndex /\ thread_index[x] \in Index /\ threadIndex \in Nat
            BY <2>1 DEF Threads, Drawn
          <6> QED BY <6>1 DEF Index
        <5> QED BY <2>2, <5>1
      <4> QED BY <2>2, <3>1, <3>5, <4>1 DEF Threads
    <3> QED BY <2>3, <3>2, <3>3, <3>4, <3>5 DEF Threads
  <2> QED BY <2>4, <2>5
<1> QED BY <1>1, <1>2 DEF NoCallback

LEMMA ConnectionsInit == Init => Connections
BY DEF Init, Connections

LEMMA ConnectionsStep == Threads /\ Connections /\ Handling /\ [Next]_vars => Connections'
<1> SUFFICES ASSUME Threads, Connections, Handling, [Next]_vars PROVE Connections'
  OBVIOUS
<1>1. CASE NoCallback
  BY <1>1, OnlyCallback DEF Connections, Drawn
<1>2. ASSUME NEW w \in Worker, NEW r \in Request, Callback(w, r) PROVE Connections'
  <2>1. Drawn' = Drawn \cup {w} /\ home[r] = None /\ w # None
    BY <1>2, CallbackDraws, DispatchAssumption DEF Callback, Handling
  <2>2. /\ home' = [home EXCEPT ![r] = w]
        /\ hid' = [hid EXCEPT ![r] = nextId[w]]
        /\ nextId' = [nextId EXCEPT ![w] = @ + 1]
    BY <1>2 DEF Callback
  <2>3. /\ home' \in [Request -> Worker \cup {None}]
        /\ hid' \in [Request -> Nat] /\ nextId' \in [Worker -> Nat]
    BY <2>2 DEF Connections
  <2>4. ASSUME NEW q \in Request, home'[q] # None
        PROVE  home'[q] \in Drawn' /\ hid'[q] < nextId'[home'[q]]
    <3>1. CASE q = r
      BY <2>1, <2>2, <3>1 DEF Connections
    <3>2. CASE q # r
      <4>1. home'[q] = home[q] /\ hid'[q] = hid[q] /\ home[q] \in Drawn /\ hid[q] < nextId[home[q]]
        BY <2>2, <2>4, <3>2 DEF Connections
      <4>2. home[q] \in Worker /\ nextId[home[q]] \in Nat /\ hid[q] \in Nat
        BY <4>1 DEF Connections, Drawn
      <4>3. nextId'[home[q]] = nextId[home[q]] \/ nextId'[home[q]] = nextId[home[q]] + 1
        BY <2>2, <4>2 DEF Connections
      <4> QED BY <2>1, <4>1, <4>2, <4>3
    <3> QED BY <3>1, <3>2
  <2>5. ASSUME NEW p \in Request, NEW q \in Request, home'[p] # None,
               home'[p] = home'[q], hid'[p] = hid'[q]
        PROVE  p = q
    <3>1. \A x \in Request : x # r /\ home[x] = w => hid[x] # nextId[w]
      <4>1. ASSUME NEW x \in Request, home[x] = w PROVE hid[x] # nextId[w]
        <5>1. hid[x] < nextId[w] /\ hid[x] \in Nat /\ nextId[w] \in Nat
          BY <2>1, <4>1 DEF Connections
        <5> QED BY <5>1
      <4> QED BY <4>1
    <3>2. /\ home'[r] = w /\ hid'[r] = nextId[w]
          /\ \A x \in Request : x # r => home'[x] = home[x] /\ hid'[x] = hid[x]
      BY <2>2 DEF Connections
    <3>3. CASE p # r /\ q # r
      BY <2>5, <3>2, <3>3 DEF Connections
    <3>4. CASE p = r \/ q = r
      BY <2>5, <3>1, <3>2, <3>4
    <3> QED BY <3>3, <3>4
  <2> QED BY <2>3, <2>4, <2>5 DEF Connections
<1> QED BY <1>1, <1>2 DEF NoCallback

-----------------------------------------------------------------------------
(* The handling of a request                                               *)

\* A thread that has a request has an index, and the matcher knows its
\* io_service.
LEMMA HomeIndexed ==
    ASSUME Threads, Connections, NEW r \in Request, home[r] # None
    PROVE  /\ home[r] \in Worker /\ home[r] \in Drawn
           /\ IndexOf(home[r]) \in Index
           /\ io_service[IndexOf(home[r])] = home[r]
BY DEF Threads, Connections, Drawn, IndexOf

LEMMA HandlingInit == Init => Handling
BY DEF Init, Handling, Phases

\* A step of the handling of one request.
LEMMA HandlingMove ==
    ASSUME Handling, NEW r \in Request, phase[r] # "new", home' = home,
           NEW x \in Phases \ {"new", "callback"}, phase' = [phase EXCEPT ![r] = x],
           resp' = resp \/ \E p \in Response : resp' = [resp EXCEPT ![r] = p],
           target' = target \/ (home[r] \in Worker /\ target' = [target EXCEPT ![r] = home[r]]),
           x = "done" \/ resp'[r] \in Response
    PROVE  Handling'
<1>1. /\ phase' \in [Request -> Phases] /\ resp' \in [Request -> Response \cup {None}]
      /\ target' \in [Request -> Worker \cup {None}]
  BY DEF Handling
<1>2. ASSUME NEW q \in Request, q # r
      PROVE  phase'[q] = phase[q] /\ resp'[q] = resp[q] /\ target'[q] = target[q]
  BY <1>2 DEF Handling
<1>3. phase'[r] = x /\ target'[r] \in {None, home[r]}
  BY DEF Handling
<1> QED BY <1>1, <1>2, <1>3 DEF Handling

LEMMA HandlingStep == Threads /\ Connections /\ Handling /\ [Next]_vars => Handling'
<1> SUFFICES ASSUME Threads, Connections, Handling, [Next]_vars PROVE Handling'
  OBVIOUS
<1>1. ASSUME NEW w \in Worker, NEW r \in Request, Callback(w, r) PROVE Handling'
  <2>1. w # None
    BY DispatchAssumption
  <2> QED BY <1>1, <2>1 DEF Callback, Handling, Connections, Phases
<1>2. ASSUME NEW r \in Request, Unmatched(r) \/ \E z \in BOOLEAN : EndInline(r, z)
      PROVE  Handling'
  BY <1>2, HandlingMove DEF Unmatched, EndInline, SendResponse, Phases
<1>3. ASSUME NEW r \in Request, NEW p \in Response,
             ThrottleResponse(r, p) \/ SendPlain(r, p) \/ StartInline(r, p)
      PROVE  Handling'
  <2>1. resp'[r] = p
    BY <1>3 DEF ThrottleResponse, SendPlain, StartInline, Handling
  <2> QED BY <1>3, <2>1, HandlingMove DEF ThrottleResponse, SendPlain, StartInline, Selected,
          conns, Phases
<1>4. ASSUME NEW r \in Request, NEW p \in Response, Process(r, p) \/ OffloadScript(r, p)
      PROVE  Handling'
  <2>1. resp'[r] = p /\ phase[r] = "callback" /\ home[r] # None
    BY <1>4 DEF Process, OffloadScript, Selected, Handling
  <2>2. home[r] \in Worker /\ io_service[IndexOf(home[r])] = home[r]
    BY <2>1, HomeIndexed
  <2> QED BY <1>4, <2>1, <2>2, HandlingMove DEF Process, OffloadScript, conns, Phases
<1>5. ASSUME NEW t \in Pool, NEW r \in Request, RunScript(t, r) \/ PostAnswer(t, r)
      PROVE  Handling'
  <2>1. resp[r] \in Response
    BY <1>5 DEF RunScript, PostAnswer, Handling
  <2> QED BY <1>5, <2>1, HandlingMove DEF RunScript, PostAnswer, conns, Phases
<1>6. ASSUME NEW w \in Worker, NEW r \in Request, NEW z \in BOOLEAN, SendPosted(w, r, z)
      PROVE  Handling'
  BY <1>6, HandlingMove DEF SendPosted, SendResponse, Phases
<1>7. ASSUME NEW r \in Request, AnswerFromApplication(r) PROVE Handling'
  <2>1. resp[r] \in Response
    BY <1>7 DEF AnswerFromApplication, Handling
  <2> QED BY <1>7, <2>1, HandlingMove DEF AnswerFromApplication, conns, Phases
<1>8. CASE UNCHANGED <<handling, home>>
  BY <1>8 DEF Handling, handling
<1>9. ASSUME NEW i \in Index, NEW p \in Response,
             InstallDirect(i, p) \/ InstallPosted(i, p) \/ \E w \in Worker : RunInstall(w, i, p)
      PROVE  UNCHANGED <<handling, home>>
  BY <1>9 DEF InstallDirect, InstallPosted, RunInstall, conns
<1>10. ASSUME NEW w \in Worker, NEW id, StreamGone(w, id) PROVE UNCHANGED <<handling, home>>
  BY <1>10 DEF StreamGone
<1>11. CASE StatsWake \/ StatsReport \/ UNCHANGED vars
  BY <1>8, <1>11 DEF StatsWake, StatsReport, vars, conns
<1> QED BY <1>1, <1>2, <1>3, <1>4, <1>5, <1>6, <1>7, <1>8, <1>9, <1>10, <1>11 DEF Next, Handle

\* The thread that send_response runs on is that of the connection.
LEMMA PostedHome ==
    ASSUME Threads, Connections, Handling, NEW w \in Worker, NEW r \in Request, NEW z \in BOOLEAN,
           SendPosted(w, r, z)
    PROVE  w = home[r] /\ home[r] # None
BY DispatchAssumption DEF SendPosted, Handling

-----------------------------------------------------------------------------
(* The streams of requests in the callback                                 *)

LEMMA AliveInit == Init => Alive
BY DEF Init, Alive

\* A step that enters no callback and takes at most the stream of a request
\* that is outside it, or leaves it.
LEMMA AliveKept ==
    ASSUME Connections, Handling, Alive, UNCHANGED <<home, hid>>, NEW q \in Request,
           phase'[q] # "callback", home[q] # None,
           \A r \in Request : phase'[r] = "callback" => phase[r] = "callback",
           alive' = alive \/ alive' = [alive EXCEPT ![home[q]] = @ \ {hid[q]}]
    PROVE  Alive'
<1>1. alive' \in [Worker -> SUBSET Nat]
  BY DEF Alive
<1>2. ASSUME NEW r \in Request, phase'[r] = "callback" PROVE hid'[r] \in alive'[home'[r]]
  <2>1. r # q /\ hid[r] \in alive[home[r]] /\ home[r] # None /\ home[r] \in Worker
    BY <1>2 DEF Alive, Handling, Connections
  <2>2. home[r] # home[q] \/ hid[r] # hid[q]
    BY <2>1 DEF Connections
  <2> QED BY <2>1, <2>2 DEF Alive
<1> QED BY <1>1, <1>2 DEF Alive

LEMMA AliveSame ==
    ASSUME Alive, UNCHANGED <<home, hid, alive>>,
           \A r \in Request : phase'[r] = "callback" => phase[r] = "callback"
    PROVE  Alive'
BY DEF Alive

LEMMA AliveStep ==
    Threads /\ Connections /\ Handling /\ Alive /\ [Next]_vars => Alive'
<1> SUFFICES ASSUME Threads, Connections, Handling, Alive, [Next]_vars PROVE Alive'
  OBVIOUS
<1>p. phase \in [Request -> Phases]
  BY DEF Handling
<1>1. ASSUME NEW w \in Worker, NEW r \in Request, Callback(w, r) PROVE Alive'
  <2>1. alive' = [alive EXCEPT ![w] = @ \cup {nextId[w]}] /\ nextId[w] \in Nat
    BY <1>1 DEF Callback, Connections
  <2>2. alive' \in [Worker -> SUBSET Nat] /\ \A v \in Worker : alive[v] \subseteq alive'[v]
    BY <2>1 DEF Alive
  <2>3. hid'[r] \in alive'[home'[r]]
    BY <1>1, <2>1 DEF Callback, Connections, Alive
  <2>4. ASSUME NEW q \in Request, q # r, phase'[q] = "callback" PROVE hid'[q] \in alive'[home'[q]]
    <3>1. phase[q] = "callback" /\ home'[q] = home[q] /\ hid'[q] = hid[q]
      BY <1>1, <1>p, <2>4 DEF Callback, Connections
    <3>2. home[q] \in Worker
      BY <3>1 DEF Handling, Connections
    <3> QED BY <2>2, <3>1, <3>2 DEF Alive
  <2> QED BY <2>2, <2>3, <2>4 DEF Alive
<1>2. ASSUME NEW r \in Request, Unmatched(r) PROVE Alive'
  BY <1>2, <1>p, AliveSame DEF Unmatched
<1>3. ASSUME NEW r \in Request, NEW z \in BOOLEAN, EndInline(r, z) PROVE Alive'
  BY <1>3, <1>p, AliveKept DEF EndInline, SendResponse, Handling
<1>4. ASSUME NEW r \in Request, NEW p \in Response, ThrottleResponse(r, p) PROVE Alive'
  BY <1>4, <1>p, AliveKept DEF ThrottleResponse, Selected, Handling
<1>5. ASSUME NEW r \in Request, NEW p \in Response,
             SendPlain(r, p) \/ StartInline(r, p) \/ Process(r, p) \/ OffloadScript(r, p)
      PROVE  Alive'
  BY <1>5, <1>p, AliveSame DEF SendPlain, StartInline, Process, OffloadScript, conns
<1>6. ASSUME NEW t \in Pool, NEW r \in Request, RunScript(t, r) \/ PostAnswer(t, r) PROVE Alive'
  BY <1>6, <1>p, AliveSame DEF RunScript, PostAnswer, conns
<1>7. ASSUME NEW w \in Worker, NEW r \in Request, NEW z \in BOOLEAN, SendPosted(w, r, z)
      PROVE  Alive'
  <2>1. w = home[r] /\ home[r] # None
    BY <1>7, PostedHome
  <2> QED BY <1>7, <1>p, <2>1, AliveKept DEF SendPosted, SendResponse
<1>8. ASSUME NEW r \in Request, AnswerFromApplication(r) PROVE Alive'
  BY <1>8, <1>p, AliveSame DEF AnswerFromApplication, conns
<1>9. ASSUME NEW w \in Worker, NEW id, StreamGone(w, id) PROVE Alive'
  <2>1. PICK q \in Found(w, id) : phase[q] # "callback"
    BY <1>9 DEF StreamGone
  <2>2. q \in Request /\ home[q] = w /\ hid[q] = id /\ w # None
    BY <2>1, DispatchAssumption DEF Found
  <2> QED BY <1>9, <2>1, <2>2, AliveKept DEF StreamGone, handling
<1>10. CASE UNCHANGED <<conns, phase>>
  BY <1>10, AliveSame DEF conns
<1>11. ASSUME NEW i \in Index, NEW p \in Response,
             InstallDirect(i, p) \/ InstallPosted(i, p) \/ \E w \in Worker : RunInstall(w, i, p)
      PROVE  UNCHANGED <<conns, phase>>
  BY <1>11 DEF InstallDirect, InstallPosted, RunInstall, handling
<1>12. CASE StatsWake \/ StatsReport \/ UNCHANGED vars
  BY <1>10, <1>12 DEF StatsWake, StatsReport, vars, handling
<1> QED BY <1>1, <1>2, <1>3, <1>4, <1>5, <1>6, <1>7, <1>8, <1>9, <1>10, <1>11, <1>12 DEF Next, Handle

-----------------------------------------------------------------------------
(* Answers                                                                 *)

LEMMA AnswersInit == Init => Answers
<1> SUFFICES ASSUME Init PROVE Answers
  OBVIOUS
<1>1. ASSUME NEW r \in Request, answer[r] = r PROVE phase[r] = "done"
  BY <1>1, DispatchAssumption DEF Init
<1> QED BY <1>1 DEF Init, Answers, AnswerReachesRequester

\* The ids of a request find it, or nothing, in the tables of its thread.
LEMMA FoundIsRequester ==
    ASSUME Connections, NEW r \in Request, home[r] # None
    PROVE  Found(home[r], hid[r]) \subseteq {r}
BY DEF Connections, Found

\* send_response on the thread of the connection, and the callback's own.
LEMMA AnswersFinish ==
    ASSUME Connections, Answers, NEW r \in Request, home[r] # None, phase[r] # "done",
           NEW writes \in BOOLEAN, phase \in [Request -> Phases],
           phase' = [phase EXCEPT ![r] = "done"],
           answer' = [q \in Request |-> IF q \in Found(home[r], hid[r]) /\ writes
                                        THEN r ELSE answer[q]]
    PROVE  /\ Answers'
           /\ \A q \in Request : q # r => answer'[q] = answer[q]
           /\ Found(home[r], hid[r]) # {} /\ writes => answer'[r] = r
<1>1. Found(home[r], hid[r]) \subseteq {r}
  BY FoundIsRequester
<1>2. answer' \in [Request -> Request \cup {None}]
  BY DEF Answers
<1>3. \A q \in Request : q # r => answer'[q] = answer[q] /\ phase'[q] = phase[q]
  BY <1>1
<1>4. answer'[r] \in {r, answer[r]} /\ phase'[r] = "done"
  OBVIOUS
<1>5. Found(home[r], hid[r]) # {} /\ writes => answer'[r] = r
  BY <1>1
<1> QED BY <1>2, <1>3, <1>4, <1>5 DEF Answers, AnswerReachesRequester

LEMMA AnswersKept ==
    ASSUME Answers, UNCHANGED answer,
           \A r \in Request : phase[r] = "done" => phase'[r] = "done"
    PROVE  Answers'
BY DEF Answers, AnswerReachesRequester

LEMMA AnswersStep ==
    Threads /\ Connections /\ Handling /\ Answers /\ [Next]_vars => Answers'
<1> SUFFICES ASSUME Threads, Connections, Handling, Answers, [Next]_vars PROVE Answers'
  OBVIOUS
<1>p. phase \in [Request -> Phases]
  BY DEF Handling
<1>1. ASSUME NEW w \in Worker, NEW r \in Request, Callback(w, r) PROVE Answers'
  BY <1>1, <1>p, AnswersKept DEF Callback
<1>2. ASSUME NEW r \in Request, Unmatched(r) PROVE Answers'
  BY <1>2, <1>p DEF Unmatched, Answers, AnswerReachesRequester
<1>3. ASSUME NEW r \in Request, NEW z \in BOOLEAN, EndInline(r, z) PROVE Answers'
  <2>1. home[r] # None /\ phase[r] # "done"
    BY <1>3 DEF EndInline, Handling
  <2>2. /\ phase' = [phase EXCEPT ![r] = "done"]
        /\ answer' = [q \in Request |-> IF q \in Found(home[r], hid[r]) /\ ~z
                                        THEN r ELSE answer[q]]
    BY <1>3 DEF EndInline, SendResponse
  <2>3. (~z) \in BOOLEAN
    OBVIOUS
  <2> QED BY <1>p, <2>1, <2>2, <2>3, AnswersFinish
<1>4. ASSUME NEW r \in Request, NEW p \in Response, SendPlain(r, p) PROVE Answers'
  <2>1. home[r] # None /\ phase[r] # "done"
    BY <1>4 DEF SendPlain, Selected, Handling
  <2>2. /\ phase' = [phase EXCEPT ![r] = "done"]
        /\ answer' = [q \in Request |-> IF q \in Found(home[r], hid[r]) /\ TRUE
                                        THEN r ELSE answer[q]]
    BY <1>4 DEF SendPlain
  <2> QED BY <1>p, <2>1, <2>2, AnswersFinish
<1>5. ASSUME NEW r \in Request, NEW p \in Response,
             ThrottleResponse(r, p) \/ StartInline(r, p) \/ Process(r, p) \/ OffloadScript(r, p)
      PROVE  Answers'
  BY <1>5, <1>p, AnswersKept DEF ThrottleResponse, StartInline, Process, OffloadScript, Selected, conns
<1>6. ASSUME NEW t \in Pool, NEW r \in Request, RunScript(t, r) \/ PostAnswer(t, r)
      PROVE  Answers'
  BY <1>6, <1>p, AnswersKept DEF RunScript, PostAnswer, conns
<1>7. ASSUME NEW w \in Worker, NEW r \in Request, NEW z \in BOOLEAN, SendPosted(w, r, z)
      PROVE  Answers'
  <2>1. w = home[r] /\ home[r] # None /\ phase[r] # "done"
    BY <1>7, PostedHome DEF SendPosted
  <2>2. /\ phase' = [phase EXCEPT ![r] = "done"]
        /\ answer' = [q \in Request |-> IF q \in Found(home[r], hid[r]) /\ ~z
                                        THEN r ELSE answer[q]]
    BY <1>7, <2>1 DEF SendPosted, SendResponse
  <2>3. (~z) \in BOOLEAN
    OBVIOUS
  <2> QED BY <1>p, <2>1, <2>2, <2>3, AnswersFinish
<1>8. ASSUME NEW r \in Request, AnswerFromApplication(r) PROVE Answers'
  BY <1>8, <1>p, AnswersKept DEF AnswerFromApplication, conns
<1>9. CASE UNCHANGED <<answer, phase>>
  BY <1>9, AnswersKept
<1>10. ASSUME NEW i \in Index, NEW p \in Response,
             InstallDirect(i, p) \/ InstallPosted(i, p) \/ \E w \in Worker : RunInstall(w, i, p)
      PROVE  UNCHANGED <<answer, phase>>
  BY <1>10 DEF InstallDirect, InstallPosted, RunInstall, conns, handling
<1>11. ASSUME NEW w \in Worker, NEW id, StreamGone(w, id) PROVE UNCHANGED <<answer, phase>>
  BY <1>11 DEF StreamGone, handling
<1>12. CASE StatsWake \/ StatsReport \/ UNCHANGED vars
  BY <1>9, <1>12 DEF StatsWake, StatsReport, vars, conns, handling
<1> QED BY <1>1, <1>2, <1>3, <1>4, <1>5, <1>6, <1>7, <1>8, <1>9, <1>10, <1>11, <1>12 DEF Next, Handle

-----------------------------------------------------------------------------
(* Strands and Lua states                                                  *)

LEMMA ScriptsInit == Init => Strands /\ LuaStates
<1>1. << >> \in Seq(Request) /\ Range(<< >>) = {} /\ IsInjective(<< >>)
  BY RangeEmpty, QueueOps DEF IsInjective
<1> QED BY <1>1 DEF Init, Strands, LuaStates

\* The matcher of a request that has one does not change any more.
LEMMA MatcherStable ==
    ASSUME Threads, Connections, Handling, [Next]_vars, NEW r \in Request,
           home[r] # None, resp'[r] = resp[r]
    PROVE  MatcherOf(r)' = MatcherOf(r)
<1>1. CASE NoCallback
  BY <1>1, OnlyCallback DEF MatcherOf, IndexOf
<1>2. ASSUME NEW w \in Worker, NEW q \in Request, Callback(w, q)
      PROVE  MatcherOf(r)' = MatcherOf(r)
  <2>1. home[q] = None /\ home'[r] = home[r]
    BY <1>2 DEF Callback, Handling, Connections
  <2>2. thread_index'[home[r]] = thread_index[home[r]]
    BY <1>2, CallbackDraws, HomeIndexed
  <2> QED BY <2>1, <2>2 DEF MatcherOf, IndexOf
<1> QED BY <1>1, <1>2 DEF NoCallback

LEMMA StrandsKept ==
    ASSUME Threads, Connections, Handling, Strands, [Next]_vars, UNCHANGED strandQ,
           \A r \in Request : phase[r] = "strand" => phase'[r] = "strand" /\ resp'[r] = resp[r]
    PROVE  Strands'
<1>1. ASSUME NEW x \in Matcher, NEW r \in Range(strandQ[x])
      PROVE  phase'[r] = "strand" /\ MatcherOf(r)' = x /\ resp'[r] \in Offload
  <2>1. r \in Request
    BY RangeOfSeq DEF Strands
  <2>2. phase[r] = "strand" /\ MatcherOf(r) = x /\ resp[r] \in Offload
    BY DEF Strands
  <2>3. home[r] # None /\ phase'[r] = "strand" /\ resp'[r] = resp[r]
    BY <2>1, <2>2 DEF Handling
  <2> QED BY <2>1, <2>2, <2>3, MatcherStable
<1> QED BY <1>1 DEF Strands

LEMMA StrandsStep ==
    Threads /\ Connections /\ Handling /\ Strands /\ [Next]_vars => Strands'
<1> SUFFICES ASSUME Threads, Connections, Handling, Strands, [Next]_vars PROVE Strands'
  OBVIOUS
<1>p. phase \in [Request -> Phases] /\ resp \in [Request -> Response \cup {None}]
  BY DEF Handling
<1>r. \A x \in Matcher : Range(strandQ[x]) \subseteq Request
  BY RangeOfSeq DEF Strands
<1>1. ASSUME NEW w \in Worker, NEW r \in Request, Callback(w, r) PROVE Strands'
  BY <1>1, <1>p, StrandsKept DEF Callback, scripts
<1>2. ASSUME NEW r \in Request, Unmatched(r) \/ \E z \in BOOLEAN : EndInline(r, z) PROVE Strands'
  BY <1>2, <1>p, StrandsKept DEF Unmatched, EndInline, SendResponse, scripts
<1>3. ASSUME NEW r \in Request, NEW p \in Response,
             ThrottleResponse(r, p) \/ SendPlain(r, p) \/ StartInline(r, p) \/ Process(r, p)
      PROVE  Strands'
  BY <1>3, <1>p, StrandsKept DEF ThrottleResponse, SendPlain, StartInline, Process, Selected, scripts
<1>4. ASSUME NEW r \in Request, NEW p \in Response, OffloadScript(r, p) PROVE Strands'
  <2>1. phase[r] = "callback" /\ p \in Offload /\ home[r] # None
    BY <1>4 DEF OffloadScript, Selected, Handling
  <2>2. /\ phase' = [phase EXCEPT ![r] = "strand"] /\ resp' = [resp EXCEPT ![r] = p]
        /\ UNCHANGED <<home, thread_index>>
        /\ strandQ' = [strandQ EXCEPT ![StrandOf(r, p)] = Append(@, r)]
    BY <1>4 DEF OffloadScript, threads, conns
  <2>3. StrandOf(r, p) \in Matcher
    BY <2>1, HomeIndexed DEF StrandOf, Matcher
  <2>4. \A x \in Matcher : r \notin Range(strandQ[x])
    BY <2>1 DEF Strands
  <2>5. MatcherOf(r)' = StrandOf(r, p) /\ phase'[r] = "strand" /\ resp'[r] = p
    BY <1>p, <2>2 DEF MatcherOf, StrandOf, IndexOf
  <2>6. ASSUME NEW x \in Matcher, NEW q \in Range(strandQ[x])
        PROVE  phase'[q] = "strand" /\ MatcherOf(q)' = x /\ resp'[q] \in Offload
    <3>1. q \in Request /\ q # r
      BY <1>r, <2>4
    <3> QED BY <1>p, <2>2, <3>1 DEF Strands, MatcherOf, IndexOf
  <2>7. /\ Append(strandQ[StrandOf(r, p)], r) \in Seq(Request)
        /\ IsInjective(Append(strandQ[StrandOf(r, p)], r))
        /\ Range(Append(strandQ[StrandOf(r, p)], r)) = Range(strandQ[StrandOf(r, p)]) \cup {r}
    <3>1. PICK q \in Seq(Request) : q = strandQ[StrandOf(r, p)]
      BY <2>3 DEF Strands
    <3>2. IsInjective(q) /\ r \notin Range(q)
      BY <2>3, <2>4, <3>1 DEF Strands
    <3>3. /\ Append(q, r) \in Seq(Request) /\ IsInjective(Append(q, r))
          /\ Range(Append(q, r)) = Range(q) \cup {r}
      BY <3>2, QueueOps, InjectiveAppend, RangeAppend
    <3> QED BY <3>1, <3>3
  <2>8. strandQ' \in [Matcher -> Seq(Request)]
    BY <2>2, <2>7 DEF Strands
  <2>9. ASSUME NEW x \in Matcher
        PROVE  /\ IsInjective(strandQ'[x])
               /\ \A q \in Range(strandQ'[x]) :
                     phase'[q] = "strand" /\ MatcherOf(q)' = x /\ resp'[q] \in Offload
    <3>1. CASE x = StrandOf(r, p)
      <4>1. strandQ'[x] = Append(strandQ[StrandOf(r, p)], r)
        BY <2>2, <2>3, <3>1 DEF Strands
      <4> QED BY <2>1, <2>5, <2>6, <2>7, <3>1, <4>1
    <3>2. CASE x # StrandOf(r, p)
      <4>1. strandQ'[x] = strandQ[x]
        BY <2>2, <3>2 DEF Strands
      <4> QED BY <2>6, <4>1 DEF Strands
    <3> QED BY <3>1, <3>2
  <2> QED BY <2>8, <2>9 DEF Strands
<1>5. ASSUME NEW t \in Pool, NEW r \in Request, RunScript(t, r) PROVE Strands'
  <2>1. PICK x \in Matcher : StrandReady(x, r) /\ strandQ' = [strandQ EXCEPT ![x] = Tail(@)]
    BY <1>5 DEF RunScript
  <2>2. /\ phase' = [phase EXCEPT ![r] = "pool"] /\ resp' = resp
        /\ UNCHANGED <<home, thread_index>>
    BY <1>5 DEF RunScript, threads, conns
  <2>3. PICK q \in Seq(Request) : q = strandQ[x] /\ q # << >> /\ Head(q) = r
    BY <2>1 DEF Strands, StrandReady
  <2>4. /\ Tail(q) \in Seq(Request) /\ IsInjective(Tail(q))
        /\ r \notin Range(Tail(q)) /\ Range(Tail(q)) \subseteq Range(q) /\ r \in Range(q)
    BY <2>3, QueueOps, InjectiveTail, RangeHeadTail DEF Strands
  <2>5. strandQ' \in [Matcher -> Seq(Request)] /\ strandQ'[x] = Tail(q)
    BY <2>1, <2>3, <2>4 DEF Strands
  <2>6. ASSUME NEW y \in Matcher
        PROVE  /\ IsInjective(strandQ'[y])
               /\ \A u \in Range(strandQ'[y]) : u \in Range(strandQ[y]) /\ u # r
    <3>1. CASE y = x
      BY <2>3, <2>4, <2>5, <3>1
    <3>2. CASE y # x
      <4>1. strandQ'[y] = strandQ[y]
        BY <2>1, <3>2 DEF Strands
      <4>2. MatcherOf(r) = x
        BY <2>3, <2>4 DEF Strands
      <4> QED BY <3>2, <4>1, <4>2 DEF Strands
    <3> QED BY <3>1, <3>2
  <2>7. ASSUME NEW y \in Matcher, NEW u \in Range(strandQ'[y])
        PROVE  phase'[u] = "strand" /\ MatcherOf(u)' = y /\ resp'[u] \in Offload
    <3>1. u \in Range(strandQ[y]) /\ u # r /\ u \in Request
      BY <1>r, <2>6
    <3> QED BY <1>p, <2>2, <3>1 DEF Strands, MatcherOf, IndexOf
  <2> QED BY <2>5, <2>6, <2>7 DEF Strands
<1>6. ASSUME NEW t \in Pool, NEW r \in Request, PostAnswer(t, r) PROVE Strands'
  BY <1>6, <1>p, StrandsKept DEF PostAnswer
<1>7. ASSUME NEW w \in Worker, NEW r \in Request, NEW z \in BOOLEAN, SendPosted(w, r, z)
      PROVE  Strands'
  BY <1>7, <1>p, StrandsKept DEF SendPosted, SendResponse, scripts
<1>8. ASSUME NEW r \in Request, AnswerFromApplication(r) PROVE Strands'
  BY <1>8, <1>p, StrandsKept DEF AnswerFromApplication, scripts
<1>9. CASE UNCHANGED <<handling, strandQ>>
  BY <1>9, StrandsKept DEF handling
<1>10. ASSUME NEW i \in Index, NEW p \in Response,
             InstallDirect(i, p) \/ InstallPosted(i, p) \/ \E w \in Worker : RunInstall(w, i, p)
      PROVE  UNCHANGED <<handling, strandQ>>
  BY <1>10 DEF InstallDirect, InstallPosted, RunInstall, scripts
<1>11. ASSUME NEW w \in Worker, NEW id, StreamGone(w, id) PROVE UNCHANGED <<handling, strandQ>>
  BY <1>11 DEF StreamGone, scripts
<1>12. CASE StatsWake \/ StatsReport \/ UNCHANGED vars
  BY <1>9, <1>12 DEF StatsWake, StatsReport, vars, scripts
<1> QED BY <1>1, <1>2, <1>3, <1>4, <1>5, <1>6, <1>7, <1>8, <1>9, <1>10, <1>11, <1>12 DEF Next, Handle

\* A thread keeps its index.
LEMMA DrawnStable ==
    ASSUME Threads, [Next]_vars, NEW w \in Drawn
    PROVE  w \in Drawn' /\ thread_index'[w] = thread_index[w]
<1>1. CASE NoCallback
  BY <1>1, OnlyCallback DEF Drawn
<1>2. ASSUME NEW v \in Worker, NEW r \in Request, Callback(v, r)
      PROVE  w \in Drawn' /\ thread_index'[w] = thread_index[w]
  BY <1>2, CallbackDraws
<1> QED BY <1>1, <1>2 DEF NoCallback

\* Who was in a Lua state and stays there is still entitled to it, as long as
\* no script returns.
LEMMA LuaStatesKept ==
    ASSUME Threads, Connections, Handling, LuaStates, [Next]_vars,
           \A r \in Request : phase[r] = "pool" => phase'[r] = "pool" /\ resp'[r] = resp[r],
           NEW x \in Matcher, NEW t \in inLua[x]
    PROVE  \/ x[2] \in Inline /\ t \in Drawn' /\ thread_index'[t] = x[1]
           \/ x[2] \in Offload /\ \E r \in Request : phase'[r] = "pool" /\ MatcherOf(r)' = x
<1>1. CASE x[2] \in Inline /\ t \in Drawn /\ thread_index[t] = x[1]
  BY <1>1, DrawnStable
<1>2. CASE x[2] \in Offload /\ \E r \in Request : phase[r] = "pool" /\ MatcherOf(r) = x
  <2>1. PICK r \in Request : phase[r] = "pool" /\ MatcherOf(r) = x
    BY <1>2
  <2>2. home[r] # None /\ resp'[r] = resp[r] /\ phase'[r] = "pool"
    BY <2>1 DEF Handling
  <2>3. MatcherOf(r)' = MatcherOf(r)
    BY <2>2, MatcherStable
  <2> QED BY <1>2, <2>1, <2>2, <2>3
<1> QED BY <1>1, <1>2 DEF LuaStates

LEMMA LuaStatesStep ==
    Threads /\ Connections /\ Handling /\ Strands /\ LuaStates /\ [Next]_vars => LuaStates'
<1> SUFFICES ASSUME Threads, Connections, Handling, Strands, LuaStates, [Next]_vars
             PROVE  LuaStates'
  OBVIOUS
<1>p. phase \in [Request -> Phases] /\ resp \in [Request -> Response \cup {None}]
  BY DEF Handling
<1> DEFINE PoolKept == \A r \in Request :
             phase[r] = "pool" => phase'[r] = "pool" /\ resp'[r] = resp[r]
<1>k. ASSUME PoolKept, UNCHANGED inLua PROVE LuaStates'
  BY <1>k, LuaStatesKept DEF LuaStates
<1>1. ASSUME NEW w \in Worker, NEW r \in Request, Callback(w, r) PROVE LuaStates'
  BY <1>1, <1>p, <1>k DEF Callback, scripts
<1>2. ASSUME NEW r \in Request, Unmatched(r) PROVE LuaStates'
  BY <1>2, <1>p, <1>k DEF Unmatched, scripts
<1>3. ASSUME NEW r \in Request, NEW z \in BOOLEAN, EndInline(r, z) PROVE LuaStates'
  <2>1. PoolKept
    BY <1>3, <1>p DEF EndInline, SendResponse
  <2>2. /\ inLua' \in [Matcher -> SUBSET (Worker \cup Pool)]
        /\ \A x \in Matcher : inLua'[x] \subseteq inLua[x]
    BY <1>3 DEF EndInline, LuaStates
  <2> QED BY <2>1, <2>2, LuaStatesKept DEF LuaStates
<1>4. ASSUME NEW r \in Request, NEW p \in Response,
             ThrottleResponse(r, p) \/ SendPlain(r, p) \/ OffloadScript(r, p) \/ Process(r, p)
      PROVE  LuaStates'
  BY <1>4, <1>p, <1>k DEF ThrottleResponse, SendPlain, OffloadScript, Process, Selected, scripts
<1>5. ASSUME NEW r \in Request, NEW p \in Response, StartInline(r, p) PROVE LuaStates'
  <2> DEFINE x == <<IndexOf(home[r]), p>>
  <2>1. PoolKept
    BY <1>5, <1>p DEF StartInline, Selected
  <2>2. /\ home[r] \in Worker /\ home[r] \in Drawn /\ x \in Matcher
        /\ x[1] = thread_index[home[r]] /\ x[2] = p /\ p \in Inline /\ p \notin Offload
    BY <1>5, HomeIndexed, DispatchAssumption DEF StartInline, Selected, Handling, Matcher, IndexOf
  <2>3. inLua' = [inLua EXCEPT ![x] = @ \cup {home[r]}]
    BY <1>5 DEF StartInline
  <2> HIDE DEF x
  <2>4. \A t \in inLua[x] : t = home[r]
    BY <2>2 DEF LuaStates, Threads
  <2>5. /\ inLua' \in [Matcher -> SUBSET (Worker \cup Pool)]
        /\ inLua'[x] = {home[r]}
        /\ \A y \in Matcher : y # x => inLua'[y] = inLua[y]
    BY <2>2, <2>3, <2>4 DEF LuaStates
  <2>6. home[r] \in Drawn' /\ thread_index'[home[r]] = x[1]
    BY <2>2, DrawnStable
  <2>7. ASSUME NEW y \in Matcher, NEW t \in inLua'[y]
        PROVE  \/ y[2] \in Inline /\ t \in Drawn' /\ thread_index'[t] = y[1]
               \/ y[2] \in Offload /\ \E q \in Request : phase'[q] = "pool" /\ MatcherOf(q)' = y
    BY <2>1, <2>2, <2>5, <2>6, LuaStatesKept
  <2>8. \A y \in Matcher : \A t, u \in inLua'[y] : t = u
    BY <2>5 DEF LuaStates
  <2> QED BY <2>5, <2>7, <2>8 DEF LuaStates
<1>6. ASSUME NEW t \in Pool, NEW r \in Request, RunScript(t, r) PROVE LuaStates'
  <2>1. PICK x \in Matcher : StrandReady(x, r)
    BY <1>6 DEF RunScript
  <2>2. MatcherOf(r) = x /\ x[2] \in Offload /\ x[2] \notin Inline
    <3>1. PICK q \in Seq(Request) : q = strandQ[x] /\ q # << >> /\ Head(q) = r
      BY <2>1 DEF Strands, StrandReady
    <3>2. r \in Range(strandQ[x])
      BY <3>1, RangeHeadTail
    <3>3. MatcherOf(r) = x /\ resp[r] \in Offload
      BY <3>2 DEF Strands
    <3> QED BY <3>3, DispatchAssumption DEF MatcherOf
  <2>3. PoolKept /\ phase'[r] = "pool" /\ resp'[r] = resp[r]
    BY <1>6, <1>p DEF RunScript
  <2>4. inLua[x] = {}
    BY <2>1, <2>2 DEF LuaStates, StrandReady, StrandOf, MatcherOf
  <2>5. inLua' = [inLua EXCEPT ![x] = @ \cup {t}]
    BY <1>6, <2>2 DEF RunScript
  <2>6. /\ inLua' \in [Matcher -> SUBSET (Worker \cup Pool)]
        /\ inLua'[x] = {t}
        /\ \A y \in Matcher : y # x => inLua'[y] = inLua[y]
    BY <2>4, <2>5 DEF LuaStates
  <2>7. MatcherOf(r)' = x
    BY <1>6, <2>2, <2>3, MatcherStable DEF RunScript, Handling
  <2>8. ASSUME NEW y \in Matcher, NEW u \in inLua'[y]
        PROVE  \/ y[2] \in Inline /\ u \in Drawn' /\ thread_index'[u] = y[1]
               \/ y[2] \in Offload /\ \E q \in Request : phase'[q] = "pool" /\ MatcherOf(q)' = y
    BY <2>2, <2>3, <2>6, <2>7, LuaStatesKept
  <2>9. \A y \in Matcher : \A u, v \in inLua'[y] : u = v
    BY <2>6 DEF LuaStates
  <2> QED BY <2>6, <2>8, <2>9 DEF LuaStates
<1>7. ASSUME NEW t \in Pool, NEW r \in Request, PostAnswer(t, r) PROVE LuaStates'
  <2> DEFINE x == MatcherOf(r)
  <2>1. x \in Matcher
    BY <1>7, HomeIndexed DEF PostAnswer, Handling, MatcherOf, Matcher
  <2>2. t \in inLua[x] /\ inLua' = [inLua EXCEPT ![x] = @ \ {t}]
    BY <1>7 DEF PostAnswer
  <2>3. /\ UNCHANGED <<home, thread_index, resp>>
        /\ \A q \in Request : q # r => phase'[q] = phase[q]
    BY <1>7, <1>p DEF PostAnswer, threads, conns
  <2>m. \A q \in Request : MatcherOf(q)' = MatcherOf(q)
    BY <2>3 DEF MatcherOf, IndexOf
  <2>d. Drawn' = Drawn
    BY <2>3 DEF Drawn
  <2>n. \A q \in Request : MatcherOf(q) # x => q # r
    OBVIOUS
  <2> HIDE DEF x
  <2>4. /\ inLua' \in [Matcher -> SUBSET (Worker \cup Pool)]
        /\ inLua'[x] = {}
        /\ \A y \in Matcher : y # x => inLua'[y] = inLua[y]
    BY <2>1, <2>2 DEF LuaStates
  <2>5. ASSUME NEW y \in Matcher, NEW u \in inLua'[y]
        PROVE  \/ y[2] \in Inline /\ u \in Drawn' /\ thread_index'[u] = y[1]
               \/ y[2] \in Offload /\ \E q \in Request : phase'[q] = "pool" /\ MatcherOf(q)' = y
    <3>1. y # x /\ u \in inLua[y]
      BY <2>4
    <3>2. CASE y[2] \in Inline /\ u \in Drawn /\ thread_index[u] = y[1]
      BY <2>3, <2>d, <3>2
    <3>3. CASE y[2] \in Offload /\ \E q \in Request : phase[q] = "pool" /\ MatcherOf(q) = y
      BY <2>3, <2>m, <2>n, <3>1, <3>3
    <3> QED BY <3>1, <3>2, <3>3 DEF LuaStates
  <2>6. \A y \in Matcher : \A u, v \in inLua'[y] : u = v
    BY <2>4 DEF LuaStates
  <2> QED BY <2>4, <2>5, <2>6 DEF LuaStates
<1>8. ASSUME NEW w \in Worker, NEW r \in Request, NEW z \in BOOLEAN, SendPosted(w, r, z)
      PROVE  LuaStates'
  BY <1>8, <1>p, <1>k DEF SendPosted, SendResponse, scripts
<1>9. ASSUME NEW r \in Request, AnswerFromApplication(r) PROVE LuaStates'
  BY <1>9, <1>p, <1>k DEF AnswerFromApplication, scripts
<1>10. CASE UNCHANGED <<handling, inLua>>
  BY <1>10, <1>k DEF handling
<1>11. ASSUME NEW i \in Index, NEW p \in Response,
             InstallDirect(i, p) \/ InstallPosted(i, p) \/ \E w \in Worker : RunInstall(w, i, p)
      PROVE  UNCHANGED <<handling, inLua>>
  BY <1>11 DEF InstallDirect, InstallPosted, RunInstall, scripts
<1>12. ASSUME NEW w \in Worker, NEW id, StreamGone(w, id) PROVE UNCHANGED <<handling, inLua>>
  BY <1>12 DEF StreamGone, scripts
<1>13. CASE StatsWake \/ StatsReport \/ UNCHANGED vars
  BY <1>10, <1>13 DEF StatsWake, StatsReport, vars, scripts
<1> QED BY <1>1, <1>2, <1>3, <1>4, <1>5, <1>6, <1>7, <1>8, <1>9, <1>10, <1>11, <1>12, <1>13
    DEF Next, Handle

-----------------------------------------------------------------------------
(* Counters                                                                *)

\* The requests that were answered with response p.
Answered(i, p) == {r \in Finished(i, p) : answer[r] = r}

\* All these sets are finite.
LEMMA CountsFinite ==
    ASSUME NEW S \in SUBSET Request
    PROVE  /\ IsFiniteSet(S) /\ Cardinality(S) \in Nat
           /\ \A r \in Request \ S : Cardinality(S \cup {r}) = Cardinality(S) + 1
<1>1. IsFiniteSet(S)
  BY FS_Subset, DispatchAssumption
<1>2. Cardinality(S) \in Nat
  BY <1>1, FS_CardinalityType
<1>3. \A r \in Request \ S : Cardinality(S \cup {r}) = Cardinality(S) + 1
  BY <1>1, FS_AddElement
<1> QED BY <1>1, <1>2, <1>3

LEMMA CountedSets ==
    \A i, p : /\ Arrived(i) \in SUBSET Request /\ Finished(i, p) \in SUBSET Request
              /\ Answered(i, p) \in SUBSET Request
BY DEF Arrived, Finished, Answered

LEMMA CountsInit == Init => Counts
<1> SUFFICES ASSUME Init PROVE Counts
  OBVIOUS
<1>1. \A i \in Index : \A p : Arrived(i) = {} /\ Finished(i, p) = {} /\ Answered(i, p) = {}
  BY DEF Init, Arrived, Finished, Answered
<1>2. Cardinality({}) = 0
  BY FS_EmptySet
<1>3. \A i \in Index, p \in Response : <<i, p>> \in Matcher
  BY DEF Matcher
<1>4. \A i \in Index : received[i] = 0 /\ unmatched[i] = 0
  BY DEF Init
<1>5. \A x \in Matcher : sent[x] = 0 /\ throttled[x] = 0
  BY DEF Init
<1>6. ASSUME NEW i \in Index
      PROVE  received[i] = Cardinality(Arrived(i)) /\ unmatched[i] = Cardinality(Finished(i, None))
  BY <1>1, <1>2, <1>4
<1>7. ASSUME NEW i \in Index, NEW p \in Response
      PROVE  /\ sent[<<i, p>>] + throttled[<<i, p>>] <= Cardinality(Finished(i, p))
             /\ sent[<<i, p>>] <= Cardinality(Answered(i, p))
  <2>1. /\ sent[<<i, p>>] = 0 /\ throttled[<<i, p>>] = 0
        /\ Cardinality(Finished(i, p)) = 0 /\ Cardinality(Answered(i, p)) = 0
    BY <1>1, <1>2, <1>3, <1>5
  <2> QED BY <2>1
<1> QED BY <1>6, <1>7 DEF Init, Counts, CountersTruthful, Answered

\* A step that finishes no request moves nobody from one count to another.
LEMMA CountsKept ==
    ASSUME Counts, UNCHANGED <<home, thread_index, received, unmatched, sent, throttled>>,
           \A r \in Request : phase'[r] = "done" <=> phase[r] = "done",
           \A r \in Request : phase[r] = "done" => resp'[r] = resp[r] /\ answer'[r] = answer[r]
    PROVE  Counts'
<1>1. \A i, p : /\ Arrived(i)' = Arrived(i) /\ Finished(i, p)' = Finished(i, p)
                /\ Answered(i, p)' = Answered(i, p)
  BY DEF Arrived, Finished, Answered
<1> QED BY <1>1 DEF Counts, CountersTruthful, Answered

\* A step that finishes request r with response p, and what it may count.
LEMMA CountsFinish ==
    ASSUME Counts, NEW r \in Request, NEW i \in Index, NEW p \in Response \cup {None},
           home[r] # None, thread_index[home[r]] = i, phase[r] # "done",
           phase \in [Request -> Phases], resp \in [Request -> Response \cup {None}],
           UNCHANGED <<home, thread_index, received>>,
           phase' = [phase EXCEPT ![r] = "done"], resp' = [resp EXCEPT ![r] = p],
           \A q \in Request : q # r => answer'[q] = answer[q],
           \/ /\ p = None /\ unmatched' = [unmatched EXCEPT ![i] = @ + 1]
              /\ UNCHANGED <<sent, throttled>>
           \/ /\ p # None /\ throttled' = [throttled EXCEPT ![<<i, p>>] = @ + 1]
              /\ UNCHANGED <<unmatched, sent>>
           \/ /\ p # None /\ sent' = [sent EXCEPT ![<<i, p>>] = @ + 1]
              /\ answer'[r] = r /\ UNCHANGED <<unmatched, throttled>>
           \/ p # None /\ UNCHANGED <<unmatched, sent, throttled>>
    PROVE  Counts'
<1>1. /\ phase'[r] = "done" /\ resp'[r] = p
      /\ \A q \in Request : q # r => /\ phase'[q] = phase[q] /\ resp'[q] = resp[q]
                                      /\ answer'[q] = answer[q]
  OBVIOUS
<1>2. \A j : Arrived(j)' = Arrived(j)
  BY DEF Arrived
<1>3. r \in Arrived(i) /\ (\A j : j # i => r \notin Arrived(j))
      /\ \A j, o : r \notin Finished(j, o)
  BY DEF Arrived, Finished
<1>4. \A j, o : /\ Finished(j, o)' = IF j = i /\ o = p THEN Finished(j, o) \cup {r} ELSE Finished(j, o)
                /\ Answered(j, o) \subseteq Answered(j, o)'
  <2>1. ASSUME NEW j, NEW o
        PROVE  Finished(j, o)' = IF j = i /\ o = p THEN Finished(j, o) \cup {r} ELSE Finished(j, o)
    <3>1. \A q \in Request : q # r => (q \in Finished(j, o)' <=> q \in Finished(j, o))
      BY <1>1, <1>2 DEF Finished, Arrived
    <3>2. r \in Finished(j, o)' <=> j = i /\ o = p
      BY <1>1, <1>2, <1>3 DEF Finished
    <3> QED BY <1>3, <3>1, <3>2 DEF Finished, Arrived
  <2>2. ASSUME NEW j, NEW o PROVE Answered(j, o) \subseteq Answered(j, o)'
    <3>1. ASSUME NEW q \in Answered(j, o) PROVE q \in Answered(j, o)'
      <4>1. q \in Finished(j, o) /\ answer[q] = q /\ q # r /\ q \in Request
        BY <1>3 DEF Answered, Finished, Arrived
      <4> QED BY <1>1, <2>1, <4>1 DEF Answered
    <3> QED BY <3>1
  <2> QED BY <2>1, <2>2
<1>5. answer'[r] = r => Answered(i, p)' = Answered(i, p) \cup {r} /\ r \notin Answered(i, p)
  <2>1. ASSUME answer'[r] = r, NEW q
        PROVE  q \in Answered(i, p)' <=> q \in Answered(i, p) \/ q = r
    <3>1. CASE q = r
      BY <1>4, <2>1, <3>1 DEF Answered
    <3>2. CASE q # r
      <4>1. q \in Finished(i, p)' <=> q \in Finished(i, p)
        BY <1>4, <3>2
      <4>2. q \in Finished(i, p) => answer'[q] = answer[q]
        BY <1>1, <3>2 DEF Finished, Arrived
      <4> QED BY <3>2, <4>1, <4>2 DEF Answered
    <3> QED BY <3>1, <3>2
  <2> QED BY <1>3, <2>1 DEF Answered
<1>6. \A j, o : /\ Cardinality(Finished(j, o)) \in Nat /\ Cardinality(Answered(j, o)) \in Nat
                /\ Cardinality(Finished(j, o)') = IF j = i /\ o = p THEN Cardinality(Finished(j, o)) + 1
                                                  ELSE Cardinality(Finished(j, o))
                /\ Cardinality(Answered(j, o)) <= Cardinality(Answered(j, o)')
                /\ Cardinality(Answered(j, o)') \in Nat
  <2> TAKE j, o
  <2>1. /\ Finished(j, o) \in SUBSET Request /\ Answered(j, o) \in SUBSET Request
        /\ Answered(j, o)' \in SUBSET Request
    BY <1>2 DEF Arrived, Finished, Answered
  <2>2. /\ Cardinality(Finished(j, o)) \in Nat /\ Cardinality(Answered(j, o)) \in Nat
        /\ Cardinality(Answered(j, o)') \in Nat /\ IsFiniteSet(Answered(j, o)')
        /\ Cardinality(Finished(j, o) \cup {r}) = Cardinality(Finished(j, o)) + 1
    <3>1. Cardinality(Finished(j, o)) \in Nat
          /\ Cardinality(Finished(j, o) \cup {r}) = Cardinality(Finished(j, o)) + 1
      BY <1>3, <2>1, CountsFinite
    <3>2. Cardinality(Answered(j, o)) \in Nat
      BY <2>1, CountsFinite
    <3>3. Cardinality(Answered(j, o)') \in Nat /\ IsFiniteSet(Answered(j, o)')
      BY <2>1, CountsFinite
    <3> QED BY <3>1, <3>2, <3>3
  <2>3. Cardinality(Answered(j, o)) <= Cardinality(Answered(j, o)')
    BY <1>4, <2>2, FS_Subset
  <2>4. Cardinality(Finished(j, o)') = IF j = i /\ o = p THEN Cardinality(Finished(j, o)) + 1
                                       ELSE Cardinality(Finished(j, o))
    BY <1>4, <2>2
  <2> QED BY <2>2, <2>3, <2>4
<1>7. answer'[r] = r => Cardinality(Answered(i, p)') = Cardinality(Answered(i, p)) + 1
  <2>1. Answered(i, p) \in SUBSET Request
    BY CountedSets
  <2> QED BY <1>5, <2>1, CountsFinite
<1>8. /\ received' \in [Index -> Nat] /\ unmatched' \in [Index -> Nat]
      /\ sent' \in [Matcher -> Nat] /\ throttled' \in [Matcher -> Nat]
  <2>1. \A n \in Nat : n + 1 \in Nat
    OBVIOUS
  <2>2. p # None => <<i, p>> \in Matcher
    BY DEF Matcher
  <2>3. unmatched' \in [Index -> Nat] /\ received' \in [Index -> Nat]
    BY <2>1 DEF Counts
  <2>4. sent' \in [Matcher -> Nat]
    BY <2>1, <2>2 DEF Counts
  <2>5. throttled' \in [Matcher -> Nat]
    BY <2>1, <2>2 DEF Counts
  <2> QED BY <2>3, <2>4, <2>5
<1>9. ASSUME NEW j \in Index
      PROVE  /\ received'[j] = Cardinality(Arrived(j)')
             /\ unmatched'[j] = Cardinality(Finished(j, None)')
  <2>1. unmatched[j] = Cardinality(Finished(j, None)) /\ received[j] = Cardinality(Arrived(j))
    BY DEF Counts, CountersTruthful
  <2>2. unmatched'[j] = IF j = i /\ p = None THEN unmatched[j] + 1 ELSE unmatched[j]
    BY DEF Counts
  <2> QED BY <1>2, <1>6, <2>1, <2>2
<1>10. ASSUME NEW j \in Index, NEW o \in Response
       PROVE  /\ sent'[<<j, o>>] + throttled'[<<j, o>>] <= Cardinality(Finished(j, o)')
              /\ sent'[<<j, o>>] <= Cardinality(Answered(j, o)')
  <2>1. /\ sent[<<j, o>>] + throttled[<<j, o>>] <= Cardinality(Finished(j, o))
        /\ sent[<<j, o>>] <= Cardinality(Answered(j, o))
    BY DEF Counts, CountersTruthful, Answered
  <2>2. <<j, o>> \in Matcher /\ sent[<<j, o>>] \in Nat /\ throttled[<<j, o>>] \in Nat
    BY DEF Counts, Matcher
  <2>3. CASE <<j, o>> # <<i, p>>
    <3>1. sent'[<<j, o>>] = sent[<<j, o>>] /\ throttled'[<<j, o>>] = throttled[<<j, o>>]
      BY <2>2, <2>3 DEF Counts
    <3>2. ~(j = i /\ o = p)
      BY <2>3
    <3> QED BY <1>6, <2>1, <2>2, <3>1, <3>2
  <2>4. CASE j = i /\ o = p
    <3>1. /\ Cardinality(Finished(j, o)') = Cardinality(Finished(j, o)) + 1
          /\ Cardinality(Finished(j, o)) \in Nat /\ Cardinality(Answered(j, o)) \in Nat
          /\ Cardinality(Answered(j, o)') \in Nat
          /\ Cardinality(Answered(j, o)) <= Cardinality(Answered(j, o)')
      BY <1>6, <2>4
    <3>2. \/ /\ sent'[<<j, o>>] = sent[<<j, o>>]
             /\ throttled'[<<j, o>>] \in {throttled[<<j, o>>], throttled[<<j, o>>] + 1}
          \/ /\ sent'[<<j, o>>] = sent[<<j, o>>] + 1 /\ answer'[r] = r
             /\ throttled'[<<j, o>>] = throttled[<<j, o>>]
      BY <2>2, <2>4 DEF Counts
    <3>3. answer'[r] = r => Cardinality(Answered(j, o)') = Cardinality(Answered(j, o)) + 1
      BY <1>7, <2>4
    <3> QED BY <2>1, <2>2, <3>1, <3>2, <3>3
  <2> QED BY <2>3, <2>4
<1> QED BY <1>8, <1>9, <1>10 DEF Counts, CountersTruthful, Answered

\* A request that arrives is counted by its thread, and only by it.
LEMMA CountsArrive ==
    ASSUME Threads, Connections, Handling, Counts, NEW w \in Worker, NEW r \in Request,
           Callback(w, r)
    PROVE  Counts'
<1> DEFINE i == DrawIndex(w)
<1>1. /\ thread_index'[w] = i /\ i \in Index
      /\ \A v \in Drawn : thread_index'[v] = thread_index[v]
  BY CallbackDraws, DrawInRange DEF Threads
<1>2. /\ received' = [received EXCEPT ![i] = @ + 1]
      /\ home' = [home EXCEPT ![r] = w]
      /\ UNCHANGED <<unmatched, sent, throttled, resp, answer>>
      /\ home[r] = None /\ w # None /\ phase[r] = "new"
      /\ phase' = [phase EXCEPT ![r] = "callback"]
  BY DispatchAssumption DEF Callback, Handling
<1> HIDE DEF i
<1>3. ASSUME NEW q \in Request, q # r, NEW j
      PROVE  q \in Arrived(j)' <=> q \in Arrived(j)
  <2>1. home'[q] = home[q] /\ (home[q] # None => thread_index'[home[q]] = thread_index[home[q]])
    BY <1>1, <1>2, <1>3 DEF Connections
  <2> QED BY <2>1 DEF Arrived
<1>4. ASSUME NEW j PROVE (r \in Arrived(j)' <=> j = i) /\ r \notin Arrived(j)
  BY <1>1, <1>2 DEF Arrived, Connections
<1>5. ASSUME NEW j PROVE Arrived(j)' = IF j = i THEN Arrived(j) \cup {r} ELSE Arrived(j)
  BY <1>3, <1>4 DEF Arrived
<1>6. ASSUME NEW j, NEW p PROVE Finished(j, p)' = Finished(j, p) /\ Answered(j, p)' = Answered(j, p)
  <2>1. ASSUME NEW q PROVE q \in Finished(j, p)' <=> q \in Finished(j, p)
    <3>1. CASE q = r
      BY <1>2, <3>1 DEF Finished, Handling
    <3>2. CASE q # r
      <4>1. q \in Arrived(j)' <=> q \in Arrived(j)
        BY <1>5, <3>2
      <4>2. q \in Request => phase'[q] = phase[q] /\ resp'[q] = resp[q]
        BY <1>2, <3>2 DEF Handling
      <4> QED BY <4>1, <4>2 DEF Finished, Arrived
    <3> QED BY <3>1, <3>2
  <2> QED BY <1>2, <2>1 DEF Answered
<1>7. \A j \in Index : received'[j] = Cardinality(Arrived(j)')
  <2> TAKE j \in Index
  <2>1. Arrived(j) \in SUBSET Request
    BY CountedSets
  <2>2. Cardinality(Arrived(j) \cup {r}) = Cardinality(Arrived(j)) + 1
    BY <1>4, <2>1, CountsFinite
  <2>3. received[j] = Cardinality(Arrived(j))
    BY DEF Counts, CountersTruthful
  <2>4. received'[j] = IF j = i THEN received[j] + 1 ELSE received[j]
    BY <1>2 DEF Counts
  <2> QED BY <1>5, <2>2, <2>3, <2>4
<1>8. received' \in [Index -> Nat]
  BY <1>1, <1>2 DEF Counts
<1>9. /\ UNCHANGED <<unmatched, sent, throttled>>
      /\ unmatched \in [Index -> Nat] /\ sent \in [Matcher -> Nat] /\ throttled \in [Matcher -> Nat]
  BY <1>2 DEF Counts
<1>10. \A j \in Index :
         /\ unmatched'[j] = Cardinality(Finished(j, None)')
         /\ \A p \in Response :
              /\ sent'[<<j, p>>] + throttled'[<<j, p>>] <= Cardinality(Finished(j, p)')
              /\ sent'[<<j, p>>] <= Cardinality(Answered(j, p)')
  BY <1>6, <1>9 DEF Counts, CountersTruthful, Answered
<1> QED BY <1>7, <1>8, <1>9, <1>10 DEF Counts, CountersTruthful, Answered

\* send_response on the thread of the connection counts what it writes.
LEMMA CountsSend ==
    ASSUME Threads, Connections, Handling, Answers, Counts, NEW r \in Request,
           phase[r] \notin {"new", "callback", "done"},
           NEW zero \in BOOLEAN, NEW counted \in BOOLEAN,
           SendResponse(home[r], r, zero, counted), UNCHANGED resp
    PROVE  Counts'
<1>1. home[r] # None /\ resp[r] \in Response /\ resp[r] # None
  BY DispatchAssumption DEF Handling, Phases
<1>2. IndexOf(home[r]) \in Index
  BY <1>1, HomeIndexed
<1>3. /\ phase \in [Request -> Phases] /\ resp \in [Request -> Response \cup {None}]
      /\ resp' = [resp EXCEPT ![r] = resp[r]]
  BY DEF Handling
<1>4. /\ phase' = [phase EXCEPT ![r] = "done"]
      /\ answer' = [q \in Request |-> IF q \in Found(home[r], hid[r]) /\ ~zero
                                      THEN r ELSE answer[q]]
      /\ UNCHANGED <<home, thread_index, received, unmatched, throttled>>
      /\ sent' = IF counted /\ Found(home[r], hid[r]) # {} /\ ~zero
                 THEN [sent EXCEPT ![MatcherOf(r)] = @ + 1] ELSE sent
  BY DEF SendResponse, threads
<1>5. /\ \A q \in Request : q # r => answer'[q] = answer[q]
      /\ Found(home[r], hid[r]) # {} /\ ~zero => answer'[r] = r
  <2>1. (~zero) \in BOOLEAN
    OBVIOUS
  <2> QED BY <1>1, <1>3, <1>4, <2>1, AnswersFinish
<1>6. PICK i \in Index : i = thread_index[home[r]]
  BY <1>2 DEF IndexOf
<1>7. PICK p \in Response \cup {None} : p = resp[r]
  BY <1>1
<1>8. \/ /\ p # None /\ sent' = [sent EXCEPT ![<<i, p>>] = @ + 1]
         /\ answer'[r] = r /\ UNCHANGED <<unmatched, throttled>>
      \/ p # None /\ UNCHANGED <<unmatched, sent, throttled>>
  BY <1>1, <1>4, <1>5, <1>6, <1>7 DEF MatcherOf, IndexOf
<1>9. /\ phase' = [phase EXCEPT ![r] = "done"] /\ resp' = [resp EXCEPT ![r] = p]
      /\ phase[r] # "done" /\ UNCHANGED <<home, thread_index, received>>
  BY <1>3, <1>4, <1>7
<1>10. /\ phase \in [Request -> Phases] /\ resp \in [Request -> Response \cup {None}]
       /\ \A q \in Request : q # r => answer'[q] = answer[q]
  BY <1>3, <1>5
<1> QED BY <1>1, <1>6, <1>8, <1>9, <1>10, CountsFinish

LEMMA CountsStep ==
    Threads /\ Connections /\ Handling /\ Alive /\ Answers /\ Counts /\ [Next]_vars => Counts'
<1> SUFFICES ASSUME Threads, Connections, Handling, Alive, Answers, Counts, [Next]_vars
             PROVE  Counts'
  OBVIOUS
<1>p. /\ phase \in [Request -> Phases] /\ resp \in [Request -> Response \cup {None}]
      /\ answer \in [Request -> Request \cup {None}]
  BY DEF Handling, Answers
<1>1. ASSUME NEW w \in Worker, NEW r \in Request, Callback(w, r) PROVE Counts'
  BY <1>1, CountsArrive
<1>2. ASSUME NEW r \in Request, Unmatched(r) PROVE Counts'
  <2>1. home[r] # None /\ resp[r] = None /\ phase[r] = "callback"
    BY <1>2 DEF Unmatched, Handling
  <2>2. IndexOf(home[r]) \in Index
    BY <2>1, HomeIndexed
  <2>3. resp' = [resp EXCEPT ![r] = None] /\ \A q \in Request : q # r => answer'[q] = answer[q]
    BY <1>2, <1>p, <2>1 DEF Unmatched
  <2>4. PICK i \in Index : i = thread_index[home[r]]
    BY <2>2 DEF IndexOf
  <2>5. PICK p \in Response \cup {None} : p = None
    OBVIOUS
  <2>6. /\ p = None /\ unmatched' = [unmatched EXCEPT ![i] = @ + 1]
        /\ UNCHANGED <<sent, throttled>>
    BY <1>2, <2>4, <2>5 DEF Unmatched, IndexOf
  <2>7. /\ phase' = [phase EXCEPT ![r] = "done"] /\ resp' = [resp EXCEPT ![r] = p]
        /\ phase[r] # "done" /\ UNCHANGED <<home, thread_index, received>>
    BY <1>2, <2>1, <2>3, <2>5 DEF Unmatched, threads
  <2> QED BY <1>p, <2>1, <2>3, <2>4, <2>6, <2>7, CountsFinish
<1>3. ASSUME NEW r \in Request, NEW z \in BOOLEAN, EndInline(r, z) PROVE Counts'
  BY <1>3, CountsSend DEF EndInline
<1>4. ASSUME NEW r \in Request, NEW p \in Response, ThrottleResponse(r, p) \/ SendPlain(r, p)
      PROVE  Counts'
  <2>1. home[r] # None /\ phase[r] = "callback" /\ p # None
    BY <1>4, DispatchAssumption DEF ThrottleResponse, SendPlain, Selected, Handling
  <2>2. IndexOf(home[r]) \in Index
    BY <2>1, HomeIndexed
  <2>3. CASE ThrottleResponse(r, p)
    BY <1>p, <2>1, <2>2, <2>3, CountsFinish DEF ThrottleResponse, IndexOf, threads
  <2>4. CASE SendPlain(r, p)
    <3>1. answer' = [q \in Request |-> IF q \in Found(home[r], hid[r]) /\ TRUE
                                        THEN r ELSE answer[q]]
      BY <2>4 DEF SendPlain
    <3>2. /\ \A q \in Request : q # r => answer'[q] = answer[q]
          /\ answer'[r] = r
      <4>1. r \in Found(home[r], hid[r])
        BY <2>1 DEF Alive, Found
      <4> QED BY <1>p, <2>1, <2>4, <3>1, <4>1, AnswersFinish DEF SendPlain
    <3> QED BY <1>p, <2>1, <2>2, <2>4, <3>2, CountsFinish DEF SendPlain, IndexOf, threads
  <2> QED BY <1>4, <2>3, <2>4
<1>5. ASSUME NEW r \in Request, NEW p \in Response,
             StartInline(r, p) \/ Process(r, p) \/ OffloadScript(r, p)
      PROVE  Counts'
  BY <1>5, <1>p, CountsKept DEF StartInline, Process, OffloadScript, Selected, threads, conns, counters
<1>6. ASSUME NEW t \in Pool, NEW r \in Request, RunScript(t, r) PROVE Counts'
  BY <1>6, <1>p, CountsKept DEF RunScript, threads, conns, counters
<1>7. ASSUME NEW t \in Pool, NEW r \in Request, PostAnswer(t, r) PROVE Counts'
  <2>1. home[r] # None /\ resp[r] \in Response /\ resp[r] # None /\ phase[r] = "pool"
    BY <1>7, DispatchAssumption DEF PostAnswer, Handling
  <2>2. IndexOf(home[r]) \in Index
    BY <2>1, HomeIndexed
  <2>3. CASE target[r] = None
    <3>1. resp' = [resp EXCEPT ![r] = resp[r]] /\ phase' = [phase EXCEPT ![r] = "done"]
          /\ UNCHANGED <<home, thread_index, counters, answer>>
      BY <1>7, <1>p, <2>3 DEF PostAnswer, threads, conns
    <3> QED BY <1>p, <2>1, <2>2, <3>1, CountsFinish DEF IndexOf, counters
  <2>4. CASE target[r] # None
    BY <1>7, <1>p, <2>4, CountsKept DEF PostAnswer, threads, conns, counters
  <2> QED BY <2>3, <2>4
<1>8. ASSUME NEW w \in Worker, NEW r \in Request, NEW z \in BOOLEAN, SendPosted(w, r, z)
      PROVE  Counts'
  <2>1. w = home[r]
    BY <1>8, PostedHome
  <2>2. (phase[r] = "posted") \in BOOLEAN
    OBVIOUS
  <2> QED BY <1>8, <2>1, <2>2, CountsSend DEF SendPosted
<1>9. ASSUME NEW r \in Request, AnswerFromApplication(r) PROVE Counts'
  BY <1>9, <1>p, CountsKept DEF AnswerFromApplication, threads, conns, counters
<1>10. CASE UNCHANGED <<home, thread_index, counters, handling, answer>>
  BY <1>10, CountsKept DEF handling, counters
<1>11. ASSUME NEW i \in Index, NEW p \in Response,
             InstallDirect(i, p) \/ InstallPosted(i, p) \/ \E w \in Worker : RunInstall(w, i, p)
      PROVE  UNCHANGED <<home, thread_index, counters, handling, answer>>
  BY <1>11 DEF InstallDirect, InstallPosted, RunInstall, conns
<1>12. ASSUME NEW w \in Worker, NEW id, StreamGone(w, id)
       PROVE  UNCHANGED <<home, thread_index, counters, handling, answer>>
  BY <1>12 DEF StreamGone, threads
<1>13. CASE StatsWake \/ StatsReport \/ UNCHANGED vars
  BY <1>10, <1>13 DEF StatsWake, StatsReport, vars, threads, conns
<1> QED BY <1>1, <1>2, <1>3, <1>4, <1>5, <1>6, <1>7, <1>8, <1>9, <1>10, <1>11, <1>12, <1>13
    DEF Next, Handle

-----------------------------------------------------------------------------
(* The theorems                                                            *)

\* Every thread has an index and an io_service of its own, every connection
\* an id of its own within its thread, and every request is where its phase
\* says it is.
THEOREM DispatchInvariant == Spec => []IInv
<1>1. Init => IInv
  BY ThreadsInit, ConnectionsInit, HandlingInit, AliveInit, ScriptsInit, AnswersInit, CountsInit DEF IInv
<1>2. IInv /\ [Next]_vars => IInv'
  BY ThreadsStep, ConnectionsStep, HandlingStep, AliveStep, StrandsStep, LuaStatesStep,
     AnswersStep, CountsStep DEF IInv
<1> QED BY <1>1, <1>2, PTL DEF Spec

\* send_response writes an answer to the stream of the request it was made
\* for and to no other, for any number of threads with equal handler ids.
THEOREM AnswersReachRequesters == Spec => []AnswerReachesRequester
<1>1. IInv => AnswerReachesRequester
  BY DEF IInv, Answers
<1> QED BY <1>1, DispatchInvariant, PTL

\* The strands and the matchers per thread keep every Lua state to one thread
\* at a time, for any workers, offload threads and responses.
THEOREM LuaStatesExclusive == Spec => []LuaStateExclusive
<1>1. ASSUME IInv PROVE LuaStateExclusive
  <2>1. ASSUME NEW x \in Matcher PROVE Cardinality(inLua[x]) <= 1
    <3>1. inLua[x] = {} \/ \E t : inLua[x] = {t}
      BY <1>1 DEF IInv, LuaStates
    <3>2. CASE inLua[x] = {}
      BY <3>2, FS_EmptySet
    <3>3. CASE \E t : inLua[x] = {t}
      <4>1. PICK t : inLua[x] = {t}
        BY <3>3
      <4>2. Cardinality({t}) = 1
        BY FS_Singleton
      <4> QED BY <4>1, <4>2
    <3> QED BY <3>1, <3>2, <3>3
  <2> QED BY <2>1 DEF LuaStateExclusive
<1> QED BY <1>1, DispatchInvariant, PTL

\* The counters of the callback and of send_response count every request once
\* and every outcome at most once, although the offload threads carry
\* references to them.
THEOREM CountersAreTruthful == Spec => []CountersTruthful
<1>1. IInv => CountersTruthful
  BY DEF IInv, Counts
<1> QED BY <1>1, DispatchInvariant, PTL

=============================================================================
