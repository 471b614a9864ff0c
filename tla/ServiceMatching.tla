--------------------------- MODULE ServiceMatching ---------------------------
(***************************************************************************)
(* How a worker thread finds the service that answers a request: the       *)
(* services of the configuration are loaded into a std::map ordered by     *)
(* H2Server_Request::operator<, rules get unique ids, and a request is     *)
(* compared with the services from the greatest down, the outcome of each  *)
(* rule being cached under its id.                                         *)
(*                                                                         *)
(* A rule is what Match_Rule keeps: header name or JSON pointer, the kind  *)
(* of comparison and the text to compare with, strings being sequences of  *)
(* characters because operator< concatenates them.  A request is the set   *)
(* of rules it satisfies.                                                  *)
(***************************************************************************)
EXTENDS Naturals, Sequences, FiniteSets, Functions

CONSTANTS
    Rules,         \* the rules configurations are made of
    MaxServices,   \* bound: services in the configuration
    MaxRules       \* bound: rules of one service

ASSUME MatchingAssumption ==
    /\ MaxServices \in Nat /\ MaxRules \in Nat
    /\ IsFiniteSet(Rules)
    /\ \A r \in Rules : r \in [header : Seq(Nat), json_pointer : Seq(Nat),
                               match_type : 0..4, object : Seq(Nat)]

VARIABLES
    config,     \* the rules of each configured service
    services,   \* H2Server::services
    loaded,     \* services of the configuration inserted so far
    phase,      \* "load", "scan", "rules", "done"
    msg,        \* the rules the request satisfies
    cache,      \* H2Server_Request_Message::match_result
    rejected,   \* services already compared with the request
    current,    \* the service being compared
    left,       \* its rules not yet compared
    verdict     \* matched_request_index, counted from 1; 0 if there is none

vars == <<config, services, loaded, phase, msg, cache, rejected, current, left,
          verdict>>

-----------------------------------------------------------------------------
(* The order of rules and of services                                      *)

EQUALS_TO == 0

\* std::string::operator<
LexLess(s, t) ==
    \E n \in 0..Len(s) :
        /\ n < Len(t)
        /\ SubSeq(s, 1, n) = SubSeq(t, 1, n)
        /\ n = Len(s) \/ s[n + 1] < t[n + 1]

Concatenated(r) == <<r.match_type>> \o r.header \o r.json_pointer \o r.object

\* Match_Rule::operator<: payload rules first, then other rules than EqualsTo.
RuleLess(r, q) ==
    \/ r.header = << >> /\ q.header # << >>
    \/ /\ r.header = << >> <=> q.header = << >>
       /\ \/ r.match_type # EQUALS_TO /\ q.match_type = EQUALS_TO
          \/ /\ r.match_type = EQUALS_TO <=> q.match_type = EQUALS_TO
             /\ LexLess(Concatenated(r), Concatenated(q))

\* To a std::set two rules are one if neither is less.
SameRule(r, q) == ~RuleLess(r, q) /\ ~RuleLess(q, r)

\* Rules that std::set takes for one are one.  Not so for every configuration:
\* Concatenated puts no separator between its parts.
RulesDistinct == \A r, q \in Rules : SameRule(r, q) => r = q

\* std::set<Match_Rule>::emplace of each rule in turn keeps the first of equals.
RuleSet(seq) == {seq[n] : n \in {k \in DOMAIN seq : \A j \in 1..(k - 1) : ~SameRule(seq[j], seq[k])}}

\* The rules of a service, from rbegin to rend.
Descending(rules) ==
    CHOOSE s \in [1..Cardinality(rules) -> rules] :
        \A j, k \in DOMAIN s : j < k => RuleLess(s[k], s[j])

\* H2Server_Request::operator<: fewer rules first, then the greatest rules.
RequestLess(a, b) ==
    \/ Cardinality(a) < Cardinality(b)
    \/ /\ Cardinality(a) = Cardinality(b)
       /\ LET da == Descending(a)
              db == Descending(b)
          IN  \E n \in DOMAIN da :
                 /\ RuleLess(da[n], db[n])
                 /\ \A k \in 1..(n - 1) : SameRule(da[k], db[k])

\* build_match_rule_unique_id: the position of r among the rules of all
\* services, equal rules counted once.
UniqueId(r) ==
    LET all == UNION {s.rules : s \in services}
    IN  Cardinality({{p \in all : SameRule(p, q)} : q \in {q \in all : RuleLess(q, r)}})

-----------------------------------------------------------------------------

Nothing == [index |-> 0, rules |-> {}]

\* What one service may be configured with; a rule may be given twice.
RuleLists == UNION {[1..n -> Rules] : n \in 0..MaxRules}

Init ==
    /\ config \in UNION {[1..n -> RuleLists] : n \in 0..MaxServices}
    /\ services = {} /\ loaded = 0 /\ phase = "load"
    /\ msg = {} /\ cache = << >> /\ rejected = {} /\ current = Nothing
    /\ left = {} /\ verdict = 0

\* The constructor of H2Server: services.insert keeps the first of equals.
LoadService ==
    /\ phase = "load"
    /\ loaded < Len(config)
    /\ loaded' = loaded + 1
    /\ LET s == [index |-> loaded + 1, rules |-> RuleSet(config[loaded + 1])]
           isNew == \A o \in services : RequestLess(o.rules, s.rules) \/ RequestLess(s.rules, o.rules)
       IN  services' = IF isNew THEN services \cup {s} ELSE services
    /\ UNCHANGED <<config, phase, msg, cache, rejected, current, left, verdict>>

\* Mutant: the cache of the previous request is kept.
Receive_KeepsCache(m) ==
    /\ \/ phase = "load" /\ loaded = Len(config)
       \/ phase = "done"
    /\ phase' = "scan"
    /\ msg' = m
    /\ rejected' = {} /\ current' = Nothing /\ left' = {} /\ verdict' = 0
    /\ UNCHANGED <<config, services, loaded, cache>>

\* A request arrives: H2Server_Request_Message, and get_matched_request.
Receive(m) ==
    /\ \/ phase = "load" /\ loaded = Len(config)
       \/ phase = "done"
    /\ phase' = "scan"
    /\ msg' = m
    /\ cache' = << >> /\ rejected' = {} /\ current' = Nothing /\ left' = {}
    /\ verdict' = 0
    /\ UNCHANGED <<config, services, loaded>>

Remaining == services \ rejected

\* Mutant: the services are tried from the smallest up.
Scan_FromBegin ==
    /\ phase = "scan"
    /\ \E s \in Remaining :
          /\ \A o \in Remaining \ {s} : RequestLess(s.rules, o.rules)
          /\ current' = s /\ left' = s.rules
    /\ phase' = "rules"
    /\ UNCHANGED <<config, services, loaded, msg, cache, rejected, verdict>>

\* The reverse iterator moves to the next service.
Scan ==
    /\ phase = "scan"
    /\ \E s \in Remaining :
          /\ \A o \in Remaining \ {s} : RequestLess(o.rules, s.rules)
          /\ current' = s /\ left' = s.rules
    /\ phase' = "rules"
    /\ UNCHANGED <<config, services, loaded, msg, cache, rejected, verdict>>

\* Every service was rejected.
NoMatch ==
    /\ phase = "scan"
    /\ Remaining = {}
    /\ phase' = "done"
    /\ UNCHANGED <<config, services, loaded, msg, cache, rejected, current, left,
                   verdict>>

\* Match_Rule::match(request) for the next rule, through match_result.
CheckRule ==
    /\ phase = "rules"
    /\ \E r \in left :
          /\ \A q \in left \ {r} : RuleLess(q, r)
          /\ LET id      == UniqueId(r)
                 matched == IF id \in DOMAIN cache THEN cache[id] ELSE r \in msg
             IN  /\ cache' = [i \in DOMAIN cache \cup {id} |->
                                 IF i = id THEN matched ELSE cache[i]]
                 /\ \/ /\ matched
                       /\ left' = left \ {r}
                       /\ UNCHANGED <<phase, rejected>>
                    \/ /\ ~matched
                       /\ rejected' = rejected \cup {current}
                       /\ phase' = "scan"
                       /\ UNCHANGED left
    /\ UNCHANGED <<config, services, loaded, msg, current, verdict>>

\* Every rule of the service holds.
Matched ==
    /\ phase = "rules"
    /\ left = {}
    /\ verdict' = current.index
    /\ phase' = "done"
    /\ UNCHANGED <<config, services, loaded, msg, cache, rejected, current, left>>

Next ==
    \/ LoadService \/ Scan \/ NoMatch \/ CheckRule \/ Matched
    \/ \E m \in SUBSET Rules : Receive(m)

Spec == Init /\ [][Next]_vars

-----------------------------------------------------------------------------
(* Properties                                                              *)

TypeOK ==
    /\ loaded \in 0..Len(config)
    /\ services \subseteq [index : 1..loaded, rules : SUBSET Rules]
    /\ phase \in {"load", "scan", "rules", "done"}
    /\ msg \subseteq Rules /\ left \subseteq current.rules
    /\ rejected \subseteq services
    /\ DOMAIN cache \subseteq 0..Cardinality(Rules)
    /\ verdict \in 0..Len(config)

Holds(i) == \A n \in DOMAIN config[i] : config[i][n] \in msg

\* "A Request is matched only if all the rules of the Request are all
\* successfully matched": the rules of the service as it was configured, after
\* duplicates were merged and whatever earlier services left in the cache.
MatchedOnlyIfAllRules == (phase = "done" /\ verdict # 0) => Holds(verdict)

\* A request is left without a match only if every configured service has a
\* rule that it does not satisfy.
NoMatchMissed ==
    (phase = "done" /\ verdict = 0) => \A i \in DOMAIN config : ~Holds(i)

\* An outcome cached under an id is the outcome of every rule with that id.
CacheTrue ==
    phase # "load" =>
        \A s \in services : \A r \in s.rules :
            UniqueId(r) \in DOMAIN cache => cache[UniqueId(r)] = (r \in msg)

\* The verdict is right both ways: the service found satisfies all of its
\* rules, and none is found only if no service does; the outcomes that one
\* service leaves in the cache are right for the next.
MatchExact == MatchedOnlyIfAllRules /\ NoMatchMissed /\ CacheTrue

\* The keys of the std::map are strictly and totally ordered; otherwise insert
\* and iteration are undefined.
ServicesOrdered ==
    /\ \A a, b \in services :
          a = b \/ (RequestLess(a.rules, b.rules) # RequestLess(b.rules, a.rules))
    /\ \A a, b, c \in services :
          (RequestLess(a.rules, b.rules) /\ RequestLess(b.rules, c.rules)) =>
              RequestLess(a.rules, c.rules)

\* The services are tried in a strict order in which, of those that a request
\* satisfies, one with most rules comes first; a rule that its service was
\* given twice counts once.
BestFit ==
    /\ ServicesOrdered
    /\ (phase = "done" /\ verdict # 0) =>
          \A i \in DOMAIN config :
              Holds(i) => Cardinality(Range(config[i])) <= Cardinality(Range(config[verdict]))

=============================================================================
