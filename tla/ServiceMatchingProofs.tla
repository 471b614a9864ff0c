------------------------ MODULE ServiceMatchingProofs ------------------------
(***************************************************************************)
(* TLAPS proofs about ServiceMatching, for any finite set of rules that    *)
(* Match_Rule::operator< tells apart (RulesDistinct), any number of        *)
(* services and any number of rules in one.                                *)
(***************************************************************************)
EXTENDS ServiceMatching, FiniteSetTheorems, QueueLemmas

-----------------------------------------------------------------------------
(* std::string::operator< is a strict order                                *)

\* t goes on, or is greater, where s and t first differ.
DiffersAt(s, t, n) ==
    /\ n \in 0..Len(s)
    /\ n < Len(t)
    /\ \A k \in 1..n : s[k] = t[k]
    /\ n = Len(s) \/ s[n + 1] < t[n + 1]

LEMMA LexLessDiffers ==
    ASSUME NEW s \in Seq(Nat), NEW t \in Seq(Nat)
    PROVE  LexLess(s, t) <=> \E n \in Nat : DiffersAt(s, t, n)
<1>1. ASSUME NEW n \in Nat, n <= Len(s), n <= Len(t)
      PROVE  SubSeq(s, 1, n) = SubSeq(t, 1, n) <=> \A k \in 1..n : s[k] = t[k]
  <2>1. /\ Len(SubSeq(s, 1, n)) = n /\ Len(SubSeq(t, 1, n)) = n
        /\ SubSeq(s, 1, n) \in Seq(Nat) /\ SubSeq(t, 1, n) \in Seq(Nat)
        /\ \A k \in 1..n : SubSeq(s, 1, n)[k] = s[k] /\ SubSeq(t, 1, n)[k] = t[k]
    BY <1>1
  <2>2. ASSUME \A k \in 1..n : s[k] = t[k]
        PROVE  SubSeq(s, 1, n) = SubSeq(t, 1, n)
    BY <2>1, <2>2, SeqEqual
  <2> QED BY <2>1, <2>2
<1>2. Len(s) \in Nat /\ Len(t) \in Nat
  OBVIOUS
<1> QED BY <1>1, <1>2 DEF LexLess, DiffersAt

LEMMA LexIrreflexive ==
    ASSUME NEW s \in Seq(Nat)
    PROVE  ~LexLess(s, s)
<1>1. ASSUME NEW n \in Nat, DiffersAt(s, s, n) PROVE FALSE
  BY <1>1 DEF DiffersAt
<1> QED BY <1>1, LexLessDiffers

LEMMA LexTransitive ==
    ASSUME NEW s \in Seq(Nat), NEW t \in Seq(Nat), NEW u \in Seq(Nat),
           LexLess(s, t), LexLess(t, u)
    PROVE  LexLess(s, u)
<1>1. PICK n \in Nat : DiffersAt(s, t, n)
  BY LexLessDiffers
<1>2. PICK m \in Nat : DiffersAt(t, u, m)
  BY LexLessDiffers
<1>3. Len(s) \in Nat /\ Len(t) \in Nat /\ Len(u) \in Nat
  OBVIOUS
<1>4. CASE n <= m
  <2>1. /\ n \in 0..Len(s) /\ n < Len(u)
        /\ \A k \in 1..n : s[k] = u[k]
    BY <1>1, <1>2, <1>3, <1>4 DEF DiffersAt
  <2>2. n = Len(s) \/ s[n + 1] < u[n + 1]
    <3>1. ASSUME n < Len(s) PROVE s[n + 1] \in Nat /\ t[n + 1] \in Nat /\ u[n + 1] \in Nat
      <4>1. n + 1 \in 1..Len(s) /\ n + 1 \in 1..Len(t) /\ n + 1 \in 1..Len(u)
        BY <1>1, <1>3, <2>1, <3>1 DEF DiffersAt
      <4> QED BY <4>1, ElementOfSeq
    <3>2. ASSUME n < Len(s) PROVE s[n + 1] < t[n + 1]
      BY <1>1, <1>3, <3>2 DEF DiffersAt
    <3>3. CASE n < m
      <4>1. t[n + 1] = u[n + 1]
        BY <1>2, <3>3 DEF DiffersAt
      <4> QED BY <1>3, <2>1, <3>2, <4>1
    <3>4. CASE n = m
      <4>1. n # Len(t)
        BY <1>1, <1>3 DEF DiffersAt
      <4>2. t[n + 1] < u[n + 1]
        BY <1>2, <3>4, <4>1 DEF DiffersAt
      <4> QED BY <1>3, <2>1, <3>1, <3>2, <4>2
    <3> QED BY <1>4, <3>3, <3>4
  <2>3. DiffersAt(s, u, n)
    BY <2>1, <2>2 DEF DiffersAt
  <2> QED BY <2>3, LexLessDiffers
<1>5. CASE m < n
  <2>1. /\ m \in 0..Len(s) /\ m < Len(u) /\ m < Len(s)
        /\ \A k \in 1..m : s[k] = u[k]
    BY <1>1, <1>2, <1>3, <1>5 DEF DiffersAt
  <2>2. s[m + 1] = t[m + 1]
    BY <1>1, <1>5 DEF DiffersAt
  <2>3. t[m + 1] < u[m + 1]
    BY <1>1, <1>2, <1>3, <1>5 DEF DiffersAt
  <2>4. DiffersAt(s, u, m)
    BY <2>1, <2>2, <2>3 DEF DiffersAt
  <2> QED BY <2>4, LexLessDiffers
<1> QED BY <1>4, <1>5

-----------------------------------------------------------------------------
(* Match_Rule::operator< is a strict order                                 *)

LEMMA ConcatenatedType ==
    ASSUME NEW r \in Rules
    PROVE  Concatenated(r) \in Seq(Nat)
<1>1. /\ r.header \in Seq(Nat) /\ r.json_pointer \in Seq(Nat) /\ r.object \in Seq(Nat)
      /\ r.match_type \in Nat
  <2>1. r \in [header : Seq(Nat), json_pointer : Seq(Nat), match_type : 0..4, object : Seq(Nat)]
    BY MatchingAssumption
  <2>2. r.header \in Seq(Nat) /\ r.json_pointer \in Seq(Nat) /\ r.object \in Seq(Nat)
    BY <2>1
  <2>3. r.match_type \in 0..4
    BY <2>1
  <2> QED BY <2>2, <2>3
<1>2. <<r.match_type>> \in Seq(Nat)
  BY <1>1
<1>3. <<r.match_type>> \o r.header \in Seq(Nat)
  BY <1>1, <1>2
<1> QED BY <1>1, <1>3 DEF Concatenated

LEMMA RuleIrreflexive ==
    ASSUME NEW r \in Rules
    PROVE  ~RuleLess(r, r)
BY ConcatenatedType, LexIrreflexive DEF RuleLess

LEMMA RuleTransitive ==
    ASSUME NEW r \in Rules, NEW q \in Rules, NEW p \in Rules,
           RuleLess(r, q), RuleLess(q, p)
    PROVE  RuleLess(r, p)
<1>1. LexLess(Concatenated(r), Concatenated(q)) /\ LexLess(Concatenated(q), Concatenated(p))
          => LexLess(Concatenated(r), Concatenated(p))
  BY ConcatenatedType, LexTransitive
<1> QED BY <1>1 DEF RuleLess

LEMMA RuleAsymmetric ==
    ASSUME NEW r \in Rules, NEW q \in Rules, RuleLess(r, q)
    PROVE  ~RuleLess(q, r)
BY RuleIrreflexive, RuleTransitive

-----------------------------------------------------------------------------
(* The rules of a service from the greatest down                           *)

\* A set of rules has a descending enumeration: each rule has its place, one
\* behind the number of greater ones.
LEMMA DescendingExists ==
    ASSUME RulesDistinct, NEW a \in SUBSET Rules
    PROVE  /\ Cardinality(a) \in Nat
           /\ \E s \in [1..Cardinality(a) -> a] :
                  \A j, k \in DOMAIN s : j < k => RuleLess(s[k], s[j])
<1> DEFINE n == Cardinality(a)
           Greater(r) == {q \in a : RuleLess(r, q)}
           place == [r \in a |-> Cardinality(Greater(r)) + 1]
<1>1. IsFiniteSet(a) /\ n \in Nat
  BY MatchingAssumption, FS_Subset, FS_CardinalityType
<1>2. ASSUME NEW r \in a
      PROVE  IsFiniteSet(Greater(r)) /\ Cardinality(Greater(r)) \in 0..(n - 1)
  <2>1. Greater(r) \in SUBSET (a \ {r})
    BY RuleIrreflexive
  <2>2. IsFiniteSet(a \ {r}) /\ Cardinality(a \ {r}) = n - 1
    BY <1>1, FS_RemoveElement
  <2>3. IsFiniteSet(Greater(r)) /\ Cardinality(Greater(r)) <= n - 1
    <3> HIDE DEF Greater, n
    <3> QED BY <2>1, <2>2, FS_Subset
  <2>4. Cardinality(Greater(r)) \in Nat
    <3> HIDE DEF Greater
    <3> QED BY <2>3, FS_CardinalityType
  <2> HIDE DEF Greater, n
  <2> QED BY <1>1, <2>3, <2>4
<1>3. ASSUME NEW r \in a, NEW q \in a, RuleLess(r, q)
      PROVE  Cardinality(Greater(q)) < Cardinality(Greater(r))
  <2>1. Greater(q) \in SUBSET Greater(r) /\ q \in Greater(r) /\ q \notin Greater(q)
    BY <1>3, RuleTransitive, RuleIrreflexive
  <2> HIDE DEF Greater, n
  <2>2. /\ Cardinality(Greater(q)) <= Cardinality(Greater(r))
        /\ Cardinality(Greater(q)) # Cardinality(Greater(r))
    BY <1>2, <2>1, FS_Subset
  <2> QED BY <1>1, <1>2, <2>2
<1>4. place \in [a -> 1..n]
  <2>1. ASSUME NEW r \in a PROVE Cardinality(Greater(r)) + 1 \in 1..n
    <3> HIDE DEF Greater, n
    <3> QED BY <1>1, <1>2
  <2> QED BY <2>1
<1>5. ASSUME NEW r \in a, NEW q \in a, RuleLess(r, q)
      PROVE  place[q] < place[r]
  <2>1. place[q] = Cardinality(Greater(q)) + 1 /\ place[r] = Cardinality(Greater(r)) + 1
    OBVIOUS
  <2> HIDE DEF Greater, n, place
  <2> QED BY <1>1, <1>2, <1>3, <1>5, <2>1
<1> HIDE DEF place, n
<1>6. \A r, q \in a : r # q => RuleLess(r, q) \/ RuleLess(q, r)
  BY DEF RulesDistinct, SameRule
<1>7. \A r, q \in a : place[r] = place[q] => r = q
  BY <1>1, <1>4, <1>5, <1>6
<1>8. place \in Injection(a, 1..n)
  BY <1>4, <1>7 DEF Injection, IsInjective
<1>9. IsFiniteSet(1..n) /\ Cardinality(1..n) = n
  BY <1>1, FS_Interval
<1>10. place \in Surjection(a, 1..n)
  BY <1>1, <1>8, <1>9, FS_Injection DEF n
<1>11. \A k \in 1..n : \E r \in a : place[r] = k
  BY <1>10 DEF Surjection
<1> DEFINE s == [k \in 1..n |-> CHOOSE r \in a : place[r] = k]
<1>12. \A k \in 1..n : s[k] \in a /\ place[s[k]] = k
  BY <1>11
<1>13. s \in [1..n -> a]
  BY <1>12
<1>14. DOMAIN s = 1..n
  OBVIOUS
<1> HIDE DEF s
<1>15. ASSUME NEW j \in 1..n, NEW k \in 1..n, j < k PROVE RuleLess(s[k], s[j])
  <2>1. s[j] \in a /\ s[k] \in a /\ place[s[j]] = j /\ place[s[k]] = k
    BY <1>12
  <2>2. s[j] # s[k]
    BY <2>1, <1>15, <1>1
  <2>3. ~RuleLess(s[j], s[k])
    BY <2>1, <1>5, <1>15, <1>1
  <2> QED BY <1>6, <2>1, <2>2, <2>3
<1> QED BY <1>1, <1>13, <1>14, <1>15 DEF n

\* Descending(a) enumerates a.
LEMMA DescendingFacts ==
    ASSUME RulesDistinct, NEW a \in SUBSET Rules
    PROVE  /\ Cardinality(a) \in Nat
           /\ Descending(a) \in [1..Cardinality(a) -> a]
           /\ Range(Descending(a)) = a
<1>1. PICK n \in Nat : n = Cardinality(a)
  BY DescendingExists
<1>2. PICK d : d = Descending(a)
  OBVIOUS
<1>3. d \in [1..n -> a] /\ \A j, k \in DOMAIN d : j < k => RuleLess(d[k], d[j])
  BY <1>1, <1>2, DescendingExists DEF Descending
<1>4. \A j, k \in 1..n : d[j] = d[k] => j = k
  BY <1>3, RuleIrreflexive
<1>5. d \in Injection(1..n, a)
  BY <1>3, <1>4 DEF Injection, IsInjective
<1>6. IsFiniteSet(a) /\ Cardinality(1..n) = n
  BY MatchingAssumption, FS_Subset, FS_Interval
<1>7. d \in Surjection(1..n, a)
  BY <1>1, <1>5, <1>6, FS_Injection
<1>8. Range(d) = a
  BY <1>3, <1>7 DEF Surjection, Range
<1> QED BY <1>1, <1>2, <1>3, <1>8

-----------------------------------------------------------------------------
(* H2Server_Request::operator< is a strict total order                     *)

\* RequestLess where rules that are the same are equal.
LEMMA RequestLessFirst ==
    ASSUME RulesDistinct, NEW a \in SUBSET Rules, NEW b \in SUBSET Rules
    PROVE  RequestLess(a, b) <=>
             \/ Cardinality(a) < Cardinality(b)
             \/ /\ Cardinality(a) = Cardinality(b)
                /\ \E n \in 1..Cardinality(a) :
                      /\ RuleLess(Descending(a)[n], Descending(b)[n])
                      /\ \A k \in 1..(n - 1) : Descending(a)[k] = Descending(b)[k]
<1>1. /\ Cardinality(a) \in Nat /\ Descending(a) \in [1..Cardinality(a) -> Rules]
      /\ Cardinality(b) \in Nat /\ Descending(b) \in [1..Cardinality(b) -> Rules]
  BY DescendingFacts
<1>2. \A r, q \in Rules : SameRule(r, q) <=> r = q
  BY RuleIrreflexive DEF RulesDistinct, SameRule
<1>3. CASE Cardinality(a) = Cardinality(b)
  <2>1. ASSUME NEW n \in 1..Cardinality(a), NEW k \in 1..(n - 1)
        PROVE  SameRule(Descending(a)[k], Descending(b)[k])
                   <=> Descending(a)[k] = Descending(b)[k]
    <3>1. k \in 1..Cardinality(a)
      BY <1>1
    <3> QED BY <1>1, <1>2, <1>3, <3>1
  <2>2. DOMAIN Descending(a) = 1..Cardinality(a)
    BY <1>1
  <2> QED BY <1>1, <1>3, <2>1, <2>2 DEF RequestLess
<1>4. CASE Cardinality(a) # Cardinality(b)
  BY <1>4 DEF RequestLess
<1> QED BY <1>3, <1>4

\* Services that are not ordered have the same rules: insert drops a service
\* only if another one is equal to it.
LEMMA RequestTotal ==
    ASSUME RulesDistinct, NEW a \in SUBSET Rules, NEW b \in SUBSET Rules,
           ~RequestLess(a, b), ~RequestLess(b, a)
    PROVE  a = b
<1>1. PICK n \in Nat : n = Cardinality(a)
  BY DescendingFacts
<1>2. Cardinality(b) = n
  BY <1>1, DescendingFacts, RequestLessFirst
<1>3. PICK d, e \in [1..n -> Rules] :
          d = Descending(a) /\ e = Descending(b) /\ Range(d) = a /\ Range(e) = b
  BY <1>1, <1>2, DescendingFacts
<1>4. ASSUME NEW k \in 1..n, \A j \in 1..(k - 1) : d[j] = e[j]
      PROVE  d[k] = e[k]
  <2>1. ~RuleLess(d[k], e[k]) /\ ~RuleLess(e[k], d[k])
    BY <1>1, <1>2, <1>3, <1>4, RequestLessFirst
  <2> QED BY <2>1 DEF RulesDistinct, SameRule
<1>5. \A k \in 1..n : d[k] = e[k]
  <2> DEFINE S == {k \in 1..n : d[k] # e[k]}
  <2>1. SUFFICES ASSUME S # {} PROVE FALSE
    OBVIOUS
  <2>2. S \in SUBSET Nat
    OBVIOUS
  <2>3. PICK m \in S : \A i \in S : m <= i
    <3> HIDE DEF S
    <3> QED BY <2>1, <2>2, LeastNumber
  <2>4. \A j \in 1..(m - 1) : d[j] = e[j]
    BY <2>3
  <2> QED BY <1>4, <2>3, <2>4
<1>6. d = e
  BY <1>5
<1> QED BY <1>3, <1>6

LEMMA RequestAsymmetric ==
    ASSUME RulesDistinct, NEW a \in SUBSET Rules, NEW b \in SUBSET Rules,
           RequestLess(a, b)
    PROVE  ~RequestLess(b, a)
<1> SUFFICES ASSUME RequestLess(b, a) PROVE FALSE
  OBVIOUS
<1>1. PICK n \in Nat : n = Cardinality(a)
  BY DescendingFacts
<1>2. Cardinality(b) = n
  BY <1>1, DescendingFacts, RequestLessFirst
<1>3. PICK d, e \in [1..n -> Rules] : d = Descending(a) /\ e = Descending(b)
  BY <1>1, <1>2, DescendingFacts
<1>4. PICK i \in 1..n : RuleLess(d[i], e[i]) /\ \A k \in 1..(i - 1) : d[k] = e[k]
  <2>1. ~(Cardinality(a) < Cardinality(b))
    BY <1>1, <1>2
  <2> QED BY <1>1, <1>3, <2>1, RequestLessFirst
<1>5. PICK j \in 1..n : RuleLess(e[j], d[j]) /\ \A k \in 1..(j - 1) : e[k] = d[k]
  BY <1>1, <1>2, <1>3, RequestLessFirst
<1>6. d[i] # e[i] /\ d[j] # e[j]
  BY <1>4, <1>5, RuleIrreflexive
<1>7. i = j
  BY <1>4, <1>5, <1>6
<1> QED BY <1>4, <1>5, <1>7, RuleAsymmetric

LEMMA RequestTransitive ==
    ASSUME RulesDistinct, NEW a \in SUBSET Rules, NEW b \in SUBSET Rules,
           NEW c \in SUBSET Rules, RequestLess(a, b), RequestLess(b, c)
    PROVE  RequestLess(a, c)
<1>1. PICK n \in Nat : n = Cardinality(a)
  BY DescendingFacts
<1>2. Cardinality(b) \in Nat /\ Cardinality(c) \in Nat /\ n <= Cardinality(b) /\ Cardinality(b) <= Cardinality(c)
  BY <1>1, DescendingFacts, RequestLessFirst
<1>3. CASE n < Cardinality(c)
  BY <1>1, <1>3, RequestLessFirst
<1>4. CASE n = Cardinality(c)
  <2>1. Cardinality(b) = n
    BY <1>2, <1>4
  <2>2. PICK d, e, f \in [1..n -> Rules] :
            d = Descending(a) /\ e = Descending(b) /\ f = Descending(c)
    BY <1>1, <1>4, <2>1, DescendingFacts
  <2>3. PICK i \in 1..n : RuleLess(d[i], e[i]) /\ \A k \in 1..(i - 1) : d[k] = e[k]
    BY <1>1, <2>1, <2>2, RequestLessFirst
  <2>4. PICK j \in 1..n : RuleLess(e[j], f[j]) /\ \A k \in 1..(j - 1) : e[k] = f[k]
    <3>1. ~(Cardinality(b) < Cardinality(c))
      BY <1>4, <2>1
    <3> QED BY <2>1, <2>2, <3>1, RequestLessFirst
  <2>5. \E l \in 1..n : RuleLess(d[l], f[l]) /\ \A k \in 1..(l - 1) : d[k] = f[k]
    <3>1. CASE i < j
      BY <2>3, <2>4, <3>1
    <3>2. CASE j < i
      BY <2>3, <2>4, <3>2
    <3>3. CASE i = j
      <4>1. RuleLess(d[i], f[i])
        BY <2>3, <2>4, <3>3, RuleTransitive
      <4> QED BY <2>3, <2>4, <3>3, <4>1
    <3> QED BY <3>1, <3>2, <3>3
  <2> QED BY <1>1, <1>4, <2>2, <2>5, RequestLessFirst
<1> QED BY <1>2, <1>3, <1>4

\* H2Server_Request::operator< meets what std::map demands of it: on the sets of
\* rules it is a strict order in which any two different ones are ordered.
THEOREM RequestsStrictlyOrdered ==
    ASSUME RulesDistinct, NEW a \in SUBSET Rules, NEW b \in SUBSET Rules, NEW c \in SUBSET Rules
    PROVE  /\ ~(RequestLess(a, b) /\ RequestLess(b, a))
           /\ RequestLess(a, b) /\ RequestLess(b, c) => RequestLess(a, c)
           /\ a # b => RequestLess(a, b) \/ RequestLess(b, a)
BY RequestTotal, RequestAsymmetric, RequestTransitive

-----------------------------------------------------------------------------
(* Unique ids                                                              *)

AllRules == UNION {s.rules : s \in services}

\* build_match_rule_unique_id gives different rules different ids.
LEMMA IdsDistinct ==
    ASSUME RulesDistinct, AllRules \subseteq Rules,
           NEW r \in AllRules, NEW q \in AllRules, UniqueId(r) = UniqueId(q)
    PROVE  r = q
<1> DEFINE Class(p) == {o \in AllRules : SameRule(o, p)}
           Ids(p) == {Class(o) : o \in {o \in AllRules : RuleLess(o, p)}}
<1>1. \A p : UniqueId(p) = Cardinality(Ids(p))
  BY DEF UniqueId, AllRules
<1>2. IsFiniteSet(SUBSET Rules)
  BY MatchingAssumption, FS_SUBSET
<1>3. \A p : IsFiniteSet(Ids(p))
  <2>1. \A p : Ids(p) \in SUBSET (SUBSET Rules)
    OBVIOUS
  <2> HIDE DEF Ids
  <2> QED BY <1>2, <2>1, FS_Subset
<1>4. ASSUME NEW p \in AllRules, NEW o \in AllRules, RuleLess(o, p)
      PROVE  Cardinality(Ids(o)) # Cardinality(Ids(p))
  <2>1. Ids(o) \in SUBSET Ids(p)
    BY <1>4, RuleTransitive
  <2>2. Class(o) \in Ids(p)
    BY <1>4
  <2>3. Class(o) \notin Ids(o)
    <3>1. ASSUME NEW t \in AllRules, RuleLess(t, o), Class(t) = Class(o) PROVE FALSE
      <4>1. o \in Class(o)
        BY RuleIrreflexive DEF SameRule
      <4>2. SameRule(o, t)
        BY <3>1, <4>1
      <4> QED BY <3>1, <4>2 DEF SameRule
    <3> QED BY <3>1
  <2> HIDE DEF Ids
  <2> QED BY <1>3, <2>1, <2>2, <2>3, FS_Subset
<1>5. ~RuleLess(r, q) /\ ~RuleLess(q, r)
  <2> HIDE DEF Ids
  <2> QED BY <1>1, <1>4
<1> QED BY <1>5 DEF RulesDistinct, SameRule

-----------------------------------------------------------------------------
(* The inductive invariant                                                 *)

\* The services are the configured ones, equal ones only once, and no two
\* of them are equal to the map.
Configured ==
    /\ config \in Seq(RuleLists)
    /\ loaded \in 0..Len(config)
    /\ phase # "load" => loaded = Len(config)
    /\ \A s \in services : s.index \in 1..loaded /\ s.rules = Range(config[s.index])
    /\ \A i \in 1..loaded : \E s \in services : s.rules = Range(config[i])
    /\ \A s, o \in services :
          s = o \/ RequestLess(s.rules, o.rules) \/ RequestLess(o.rules, s.rules)

\* No service that was not rejected has more rules than s.
Most(s) == \A o \in services \ rejected : Cardinality(o.rules) <= Cardinality(s.rules)

\* What is known of the request between two steps of get_matched_request.
Searching ==
    /\ phase \in {"load", "scan", "rules", "done"}
    /\ rejected \subseteq services
    /\ \A s \in rejected : ~(s.rules \subseteq msg)
    /\ phase = "rules" => /\ current \in services \ rejected
                          /\ left \subseteq current.rules
                          /\ current.rules \ left \subseteq msg
                          /\ Most(current)
    /\ phase \in {"scan", "rules"} => verdict = 0
    /\ phase = "done" => IF verdict = 0 THEN rejected = services
                         ELSE \E s \in services : /\ s.index = verdict
                                                  /\ s.rules \subseteq msg
                                                  /\ Most(s)

IInv == Configured /\ Searching /\ CacheTrue

LEMMA RuleListFacts ==
    ASSUME NEW l \in RuleLists
    PROVE  l \in Seq(Rules) /\ Len(l) \in Nat /\ Range(l) \in SUBSET Rules
<1>1. PICK n \in Nat : l \in [1..n -> Rules]
  BY MatchingAssumption DEF RuleLists
<1>2. l \in Seq(Rules) /\ Len(l) = n
  BY <1>1
<1>3. Range(l) \in SUBSET Rules
  BY <1>1 DEF Range
<1> QED BY <1>1, <1>2, <1>3

\* emplace drops a rule only where an equal one is in the set already: of a
\* rule that is given several times, the first is kept.
LEMMA RuleSetFacts ==
    ASSUME RulesDistinct, NEW l \in RuleLists
    PROVE  RuleSet(l) = Range(l)
<1>1. l \in Seq(Rules) /\ Len(l) \in Nat /\ DOMAIN l = 1..Len(l)
  BY RuleListFacts
<1>2. RuleSet(l) \subseteq Range(l)
  BY DEF RuleSet, Range
<1>3. ASSUME NEW r \in Range(l) PROVE r \in RuleSet(l)
  <2> DEFINE At == {k \in DOMAIN l : l[k] = r}
  <2>1. At \subseteq Nat /\ At # {}
    BY <1>1 DEF Range
  <2>2. PICK k \in At : \A j \in At : k <= j
    BY <2>1, LeastNumber
  <2>3. ASSUME NEW j \in 1..(k - 1) PROVE ~SameRule(l[j], l[k])
    <3>1. j \in DOMAIN l /\ j \notin At /\ k \in DOMAIN l /\ l[k] = r
      BY <1>1, <2>1, <2>2
    <3>2. l[j] \in Rules /\ l[k] \in Rules /\ l[j] # l[k]
      BY <1>1, <3>1
    <3> QED BY <3>2 DEF RulesDistinct
  <2>4. k \in DOMAIN l /\ l[k] = r
    BY <2>2
  <2> QED BY <2>3, <2>4 DEF RuleSet
<1> QED BY <1>2, <1>3

LEMMA ServicesType ==
    ASSUME Configured
    PROVE  /\ \A s \in services : s.rules \in SUBSET Rules /\ s.index \in DOMAIN config
           /\ AllRules \subseteq Rules
<1>1. ASSUME NEW s \in services PROVE s.rules \in SUBSET Rules /\ s.index \in DOMAIN config
  <2>1. s.index \in DOMAIN config /\ config[s.index] \in RuleLists
    BY DEF Configured
  <2> QED BY <2>1, RuleListFacts DEF Configured
<1> QED BY <1>1 DEF AllRules

LEMMA InvInit == Init => IInv
<1> SUFFICES ASSUME Init PROVE IInv
  OBVIOUS
<1>1. PICK n \in 0..MaxServices : config \in [1..n -> RuleLists]
  BY DEF Init
<1>2. config \in Seq(RuleLists) /\ Len(config) \in Nat
  BY <1>1, MatchingAssumption
<1> QED BY <1>2 DEF Init, IInv, Configured, Searching, CacheTrue

\* The constructor inserts the next service of the configuration, or finds
\* an equal one.
LEMMA ConfiguredLoad ==
    ASSUME RulesDistinct, Configured, LoadService
    PROVE  Configured'
<1> DEFINE l == config[loaded + 1]
           s == [index |-> loaded + 1, rules |-> RuleSet(l)]
           isNew == \A o \in services : RequestLess(o.rules, s.rules)
                                            \/ RequestLess(s.rules, o.rules)
<1>1. /\ loaded' = loaded + 1 /\ config' = config /\ phase' = "load"
      /\ services' = IF isNew THEN services \cup {s} ELSE services
      /\ phase = "load"
  BY DEF LoadService
<1>2. /\ loaded \in Nat /\ Len(config) \in Nat /\ loaded < Len(config)
      /\ loaded + 1 \in DOMAIN config /\ l \in RuleLists
  BY DEF LoadService, Configured
<1>3. loaded' \in 0..Len(config')
  BY <1>1, <1>2
<1>4. s.rules = Range(l) /\ s.index = loaded + 1 /\ s.rules \in SUBSET Rules
  BY <1>2, RuleSetFacts, RuleListFacts
<1> HIDE DEF s
<1>5. \A o \in services' : o.index \in 1..loaded' /\ o.rules = Range(config[o.index])
  BY <1>1, <1>2, <1>4 DEF Configured
<1>6. \E o \in services' : o.rules = Range(l)
  <2>1. CASE isNew
    BY <1>1, <1>4, <2>1
  <2>2. CASE ~isNew
    <3>1. PICK o \in services : ~RequestLess(o.rules, s.rules) /\ ~RequestLess(s.rules, o.rules)
      BY <2>2
    <3>2. o.rules = s.rules
      BY <1>4, <3>1, RequestTotal, ServicesType
    <3> QED BY <1>1, <1>4, <2>2, <3>2
  <2> QED BY <2>1, <2>2
<1>7. \A i \in 1..loaded' : \E o \in services' : o.rules = Range(config[i])
  <2>1. ASSUME NEW i \in 1..loaded' PROVE \E o \in services' : o.rules = Range(config[i])
    <3>1. CASE i = loaded + 1
      BY <1>6, <3>1
    <3>2. CASE i \in 1..loaded
      BY <1>1, <3>2 DEF Configured
    <3> QED BY <1>1, <1>2, <3>1, <3>2
  <2> QED BY <2>1
<1>8. \A o, p \in services' :
          o = p \/ RequestLess(o.rules, p.rules) \/ RequestLess(p.rules, o.rules)
  BY <1>1 DEF Configured
<1> QED BY <1>1, <1>3, <1>5, <1>7, <1>8 DEF Configured

\* Match_Rule::match of the next rule: through the cache or not, the outcome
\* is the rule's own.
LEMMA CheckRuleFacts ==
    ASSUME RulesDistinct, IInv, CheckRule
    PROVE  /\ CacheTrue'
           /\ \E r \in left :
                 \/ /\ r \in msg
                    /\ left' = left \ {r}
                    /\ UNCHANGED <<phase, rejected>>
                 \/ /\ r \notin msg
                    /\ rejected' = rejected \cup {current}
                    /\ phase' = "scan"
<1> USE DEF IInv
<1>0. phase = "rules" /\ UNCHANGED <<services, msg>>
  BY DEF CheckRule
<1>1. PICK r \in left :
        LET id      == UniqueId(r)
            matched == IF id \in DOMAIN cache THEN cache[id] ELSE r \in msg
        IN  /\ cache' = [i \in DOMAIN cache \cup {id} |->
                            IF i = id THEN matched ELSE cache[i]]
            /\ \/ /\ matched
                  /\ left' = left \ {r}
                  /\ UNCHANGED <<phase, rejected>>
               \/ /\ ~matched
                  /\ rejected' = rejected \cup {current}
                  /\ phase' = "scan"
  BY DEF CheckRule
<1>2. current \in services /\ r \in current.rules
  BY <1>0 DEF Searching
<1>3. r \in AllRules
  BY <1>2 DEF AllRules
<1> DEFINE id == UniqueId(r)
           matched == IF id \in DOMAIN cache THEN cache[id] ELSE r \in msg
<1>4. matched = (r \in msg)
  BY <1>0, <1>2 DEF CacheTrue
<1>5. /\ cache' = [i \in DOMAIN cache \cup {id} |-> IF i = id THEN matched ELSE cache[i]]
      /\ \/ /\ matched
            /\ left' = left \ {r}
            /\ UNCHANGED <<phase, rejected>>
         \/ /\ ~matched
            /\ rejected' = rejected \cup {current}
            /\ phase' = "scan"
  BY <1>1
<1> HIDE DEF matched
<1>6. CacheTrue'
  <2>1. \A q : UniqueId(q)' = UniqueId(q)
    BY <1>0 DEF UniqueId
  <2>2. ASSUME NEW s \in services, NEW q \in s.rules, UniqueId(q) \in DOMAIN cache'
        PROVE  cache'[UniqueId(q)] = (q \in msg)
    <3>1. q \in AllRules /\ AllRules \subseteq Rules
      BY ServicesType DEF AllRules
    <3>2. CASE UniqueId(q) = id
      <4>1. q = r
        BY <1>3, <3>1, <3>2, IdsDistinct
      <4> QED BY <1>4, <1>5, <4>1
    <3>3. CASE UniqueId(q) # id
      <4>1. UniqueId(q) \in DOMAIN cache /\ cache'[UniqueId(q)] = cache[UniqueId(q)]
        BY <1>5, <2>2, <3>3
      <4> QED BY <1>0, <4>1 DEF CacheTrue
    <3> QED BY <3>2, <3>3
  <2> QED BY <1>0, <2>1, <2>2 DEF CacheTrue
<1>7. \/ /\ r \in msg
         /\ left' = left \ {r}
         /\ UNCHANGED <<phase, rejected>>
      \/ /\ r \notin msg
         /\ rejected' = rejected \cup {current}
         /\ phase' = "scan"
  BY <1>4, <1>5
<1> QED BY <1>6, <1>7

LEMMA InvStep == RulesDistinct /\ IInv /\ [Next]_vars => IInv'
<1> SUFFICES ASSUME RulesDistinct, IInv, [Next]_vars PROVE IInv'
  OBVIOUS
<1> USE DEF IInv
<1>c. ASSUME UNCHANGED <<config, services, loaded>>, phase = "load" => phase' = "load" \/ loaded = Len(config)
      PROVE  Configured'
  BY <1>c DEF Configured
<1>k. ASSUME UNCHANGED <<services, msg, cache>>, phase # "load"
      PROVE  CacheTrue'
  <2>1. \A q : UniqueId(q)' = UniqueId(q)
    BY <1>k DEF UniqueId
  <2> QED BY <1>k, <2>1 DEF CacheTrue
<1>1. CASE LoadService
  <2>1. Searching'
    BY <1>1 DEF LoadService, Searching
  <2>2. CacheTrue'
    BY <1>1 DEF LoadService, CacheTrue
  <2> QED BY <1>1, <2>1, <2>2, ConfiguredLoad
<1>2. ASSUME NEW m \in SUBSET Rules, Receive(m)
      PROVE  IInv'
  <2>1. Configured'
    BY <1>2, <1>c DEF Receive
  <2>2. Searching'
    BY <1>2 DEF Receive, Searching
  <2>3. CacheTrue'
    BY <1>2 DEF Receive, CacheTrue
  <2> QED BY <2>1, <2>2, <2>3
<1>3. CASE Scan
  <2>1. Configured' /\ CacheTrue'
    BY <1>3, <1>c, <1>k DEF Scan
  <2>2. PICK s \in services \ rejected :
          /\ \A o \in (services \ rejected) \ {s} : RequestLess(o.rules, s.rules)
          /\ current' = s /\ left' = s.rules
    BY <1>3 DEF Scan, Remaining
  <2>3. ASSUME NEW o \in services \ rejected
        PROVE  Cardinality(o.rules) <= Cardinality(s.rules)
    <3>1. /\ s.rules \in SUBSET Rules /\ o.rules \in SUBSET Rules
          /\ Cardinality(s.rules) \in Nat /\ Cardinality(o.rules) \in Nat
      BY ServicesType, DescendingFacts
    <3>2. CASE o = s
      BY <3>1, <3>2
    <3>3. CASE o # s
      BY <2>2, <3>1, <3>3, RequestLessFirst
    <3> QED BY <3>2, <3>3
  <2>4. Searching'
    BY <1>3, <2>2, <2>3 DEF Scan, Searching, Most
  <2> QED BY <2>1, <2>4
<1>4. CASE NoMatch
  <2>1. Configured' /\ CacheTrue'
    BY <1>4, <1>c, <1>k DEF NoMatch
  <2>2. rejected = services /\ verdict = 0
    BY <1>4 DEF NoMatch, Searching, Remaining
  <2>3. phase' = "done" /\ UNCHANGED <<services, rejected, msg, verdict>>
    BY <1>4 DEF NoMatch
  <2>4. Searching'
    BY <2>2, <2>3 DEF Searching
  <2> QED BY <2>1, <2>4
<1>5. CASE CheckRule
  <2>1. Configured'
    BY <1>5, <1>c, CheckRuleFacts DEF CheckRule
  <2>2. PICK r \in left :
          \/ /\ r \in msg
             /\ left' = left \ {r}
             /\ UNCHANGED <<phase, rejected>>
          \/ /\ r \notin msg
             /\ rejected' = rejected \cup {current}
             /\ phase' = "scan"
    BY <1>5, CheckRuleFacts
  <2>3. phase = "rules" /\ UNCHANGED <<services, msg, current, verdict>>
    BY <1>5 DEF CheckRule
  <2>4. Searching'
    BY <2>2, <2>3 DEF Searching, Most
  <2> QED BY <1>5, <2>1, <2>4, CheckRuleFacts
<1>6. CASE Matched
  <2>1. Configured' /\ CacheTrue'
    BY <1>6, <1>c, <1>k DEF Matched
  <2>2. /\ current \in services /\ current.index # 0
        /\ current.rules \subseteq msg
        /\ Most(current)
    BY <1>6 DEF Matched, Searching, Configured
  <2>3. /\ phase' = "done" /\ verdict' = current.index
        /\ UNCHANGED <<services, rejected, msg>>
    BY <1>6 DEF Matched
  <2>4. \E s \in services' : s.index = verdict' /\ s.rules \subseteq msg' /\ Most(s)'
    BY <2>2, <2>3 DEF Most
  <2>5. Searching'
    BY <2>2, <2>3, <2>4 DEF Searching
  <2> QED BY <2>1, <2>5
<1>7. CASE UNCHANGED vars
  <2>1. \A q : UniqueId(q)' = UniqueId(q)
    BY <1>7 DEF vars, UniqueId
  <2> QED BY <1>7, <2>1 DEF vars, Configured, Searching, Most, CacheTrue
<1> QED BY <1>1, <1>2, <1>3, <1>4, <1>5, <1>6, <1>7 DEF Next

-----------------------------------------------------------------------------
(* The theorems                                                            *)

\* With every service loaded, a configured service holds for the request iff
\* the service that stands for it does.
LEMMA HoldsMeans ==
    ASSUME Configured, NEW i \in DOMAIN config, NEW s, s.rules = Range(config[i])
    PROVE  Holds(i) <=> s.rules \subseteq msg
BY DEF Holds, Range

LEMMA InvExact == IInv => MatchExact
<1> SUFFICES ASSUME IInv PROVE MatchExact
  OBVIOUS
<1> USE DEF IInv
<1>1. MatchedOnlyIfAllRules
  <2> SUFFICES ASSUME phase = "done", verdict # 0 PROVE Holds(verdict)
    BY DEF MatchedOnlyIfAllRules
  <2>1. PICK s \in services : s.index = verdict /\ s.rules \subseteq msg
    BY DEF Searching
  <2>2. s.rules = Range(config[verdict]) /\ verdict \in DOMAIN config
    BY <2>1, ServicesType DEF Configured
  <2> QED BY <2>1, <2>2, HoldsMeans
<1>2. NoMatchMissed
  <2> SUFFICES ASSUME phase = "done", verdict = 0, NEW i \in DOMAIN config
               PROVE  ~Holds(i)
    BY DEF NoMatchMissed
  <2>1. i \in 1..loaded
    BY DEF Configured
  <2>2. PICK s \in services : s.rules = Range(config[i])
    BY <2>1 DEF Configured
  <2>3. ~(s.rules \subseteq msg)
    BY DEF Searching
  <2> QED BY <2>2, <2>3, HoldsMeans
<1> QED BY <1>1, <1>2 DEF MatchExact

LEMMA InvBestFit == RulesDistinct /\ IInv => BestFit
<1> SUFFICES ASSUME RulesDistinct, IInv PROVE BestFit
  OBVIOUS
<1> USE DEF IInv
<1>1. ServicesOrdered
  <2>1. ASSUME NEW a \in services, NEW b \in services, a # b
        PROVE  RequestLess(a.rules, b.rules) # RequestLess(b.rules, a.rules)
    <3>1. a.rules \in SUBSET Rules /\ b.rules \in SUBSET Rules
      BY ServicesType
    <3>2. RequestLess(a.rules, b.rules) \/ RequestLess(b.rules, a.rules)
      BY <2>1 DEF Configured
    <3>3. RequestLess(a.rules, b.rules) => ~RequestLess(b.rules, a.rules)
      BY <3>1, RequestAsymmetric
    <3>4. RequestLess(a.rules, b.rules) \in BOOLEAN /\ RequestLess(b.rules, a.rules) \in BOOLEAN
      BY DEF RequestLess
    <3> QED BY <3>2, <3>3, <3>4
  <2>2. ASSUME NEW a \in services, NEW b \in services, NEW c \in services,
               RequestLess(a.rules, b.rules), RequestLess(b.rules, c.rules)
        PROVE  RequestLess(a.rules, c.rules)
    BY <2>2, ServicesType, RequestTransitive
  <2> QED BY <2>1, <2>2 DEF ServicesOrdered
<1>2. ASSUME phase = "done", verdict # 0, NEW i \in DOMAIN config, Holds(i)
      PROVE  Cardinality(Range(config[i])) <= Cardinality(Range(config[verdict]))
  <2>1. PICK s \in services : s.index = verdict /\ Most(s)
    BY <1>2 DEF Searching
  <2>2. s.rules = Range(config[verdict]) /\ verdict \in DOMAIN config
    BY <2>1, ServicesType DEF Configured
  <2>3. PICK o \in services : o.rules = Range(config[i])
    BY <1>2 DEF Configured
  <2>4. o \notin rejected
    BY <1>2, <2>3, HoldsMeans DEF Searching
  <2>5. Cardinality(o.rules) <= Cardinality(s.rules)
    BY <2>1, <2>4 DEF Most
  <2> QED BY <2>2, <2>3, <2>5
<1> QED BY <1>1, <1>2 DEF BestFit

LEMMA MatchingInvariant == RulesDistinct => (Spec => []IInv)
<1> SUFFICES ASSUME RulesDistinct PROVE Spec => []IInv
  OBVIOUS
<1>1. IInv /\ [Next]_vars => IInv'
  BY InvStep
<1> QED BY <1>1, InvInit, PTL DEF Spec

\* For every configuration whose rules operator< tells apart and every
\* sequence of requests, a service is found only if all its rules hold, none
\* is missed, and the cache holds true outcomes.
THEOREM VerdictsExact == RulesDistinct => (Spec => []MatchExact)
BY MatchingInvariant, InvExact, PTL

\* The services are strictly and totally ordered, and of those a request
\* satisfies one with most rules is found.
THEOREM VerdictsFitBest == RulesDistinct => (Spec => []BestFit)
<1> SUFFICES ASSUME RulesDistinct PROVE Spec => []BestFit
  OBVIOUS
<1>1. IInv => BestFit
  BY InvBestFit
<1> QED BY <1>1, MatchingInvariant, PTL
=============================================================================
