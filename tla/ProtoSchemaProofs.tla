------------------------- MODULE ProtoSchemaProofs -------------------------
(***************************************************************************)
(* TLAPS proofs about ProtoSchema, for any Lua states, types, fields,      *)
(* numbers and files and any size of the pool.                             *)
(***************************************************************************)
EXTENDS ProtoSchema, FiniteSetTheorems, TLAPS

-----------------------------------------------------------------------------
(* The inductive invariant                                                 *)

FieldRecord == [live : BOOLEAN, name : FieldName \cup {NoName},
                number : Number \cup {0}, default : Names \cup {NoName}]
TypeRecord  == [known : BOOLEAN, is_dead : BOOLEAN, field_count : Int,
                names : [FieldName -> FieldId \cup {Nil}],
                tags : [Number -> FieldId \cup {Nil}]]
State == [refs : [Names -> Nat], types : [TypeName -> TypeRecord],
          fields : [FieldId -> FieldRecord]]

\* A live field has a name and a number; a freed one has nothing left.
Filled(S) ==
    \A f \in FieldId : IF S.fields[f].live
                       THEN S.fields[f].name \in FieldName /\ S.fields[f].number \in Number
                       ELSE S.fields[f] = NoField

Good(S) == S \in State /\ Filled(S) /\ Reachable(S) /\ Accounted(S)

IInv ==
    /\ state \in [Lua -> State]
    /\ \A l \in Lua : Good(state[l])
    /\ rest \in [Lua -> Seq(Declaration)]
    /\ loading \subseteq open
    /\ global \subseteq open

-----------------------------------------------------------------------------
(* Counting references                                                     *)

LEMMA FieldsFinite ==
    ASSUME NEW F \in SUBSET FieldId
    PROVE  IsFiniteSet(F) /\ Cardinality(F) \in Nat
<1>1. IsFiniteSet(FieldId)
  BY SchemaAssumption, FS_Interval DEF FieldId
<1> QED BY <1>1, FS_Subset, FS_CardinalityType

LEMMA UsesType ==
    ASSUME NEW S, NEW F \in SUBSET FieldId, NEW n
    PROVE  Uses(S, F, n) \in Nat
<1>1. /\ {f \in F : S.fields[f].name = n} \in SUBSET FieldId
      /\ {f \in F : S.fields[f].default = n} \in SUBSET FieldId
  OBVIOUS
<1> QED BY <1>1, FieldsFinite DEF Uses

\* Cardinalities of disjoint parts add up.
LEMMA CardinalitySplit ==
    ASSUME NEW A \in SUBSET FieldId, NEW B \in SUBSET FieldId, A \cap B = {}
    PROVE  Cardinality(A \cup B) = Cardinality(A) + Cardinality(B)
<1>1. IsFiniteSet(A) /\ IsFiniteSet(B) /\ Cardinality(A) \in Nat /\ Cardinality(B) \in Nat
  BY FieldsFinite
<1>2. Cardinality(A \cup B) = Cardinality(A) + Cardinality(B) - Cardinality(A \cap B)
  BY <1>1, FS_Union
<1>3. Cardinality(A \cap B) = 0
  BY FS_EmptySet
<1> QED BY <1>1, <1>2, <1>3

LEMMA UsesSplit ==
    ASSUME NEW S, NEW n, NEW F \in SUBSET FieldId, NEW G \in SUBSET F
    PROVE  Uses(S, F, n) = Uses(S, G, n) + Uses(S, F \ G, n)
<1> DEFINE N(H) == {f \in H : S.fields[f].name = n}
           D(H) == {f \in H : S.fields[f].default = n}
<1>1. N(F) = N(G) \cup N(F \ G) /\ D(F) = D(G) \cup D(F \ G)
  OBVIOUS
<1>2. Cardinality(N(F)) = Cardinality(N(G)) + Cardinality(N(F \ G))
  BY <1>1, CardinalitySplit
<1>3. Cardinality(D(F)) = Cardinality(D(G)) + Cardinality(D(F \ G))
  BY <1>1, CardinalitySplit
<1>4. /\ Cardinality(N(G)) \in Nat /\ Cardinality(N(F \ G)) \in Nat
      /\ Cardinality(D(G)) \in Nat /\ Cardinality(D(F \ G)) \in Nat
  BY FieldsFinite
<1>5. Uses(S, F, n) = Cardinality(N(F)) + Cardinality(D(F))
  BY DEF Uses
<1>6. /\ Uses(S, G, n) = Cardinality(N(G)) + Cardinality(D(G))
      /\ Uses(S, F \ G, n) = Cardinality(N(F \ G)) + Cardinality(D(F \ G))
  BY DEF Uses
<1> HIDE DEF N, D
<1> QED BY <1>2, <1>3, <1>4, <1>5, <1>6

\* Only the fields in F count.
LEMMA UsesSame ==
    ASSUME NEW S, NEW R, NEW F, NEW n, \A f \in F : R.fields[f] = S.fields[f]
    PROVE  Uses(R, F, n) = Uses(S, F, n)
<1>1. {f \in F : R.fields[f].name = n} = {f \in F : S.fields[f].name = n}
  OBVIOUS
<1>2. {f \in F : R.fields[f].default = n} = {f \in F : S.fields[f].default = n}
  OBVIOUS
<1> QED BY <1>1, <1>2 DEF Uses

One(p) == IF p THEN 1 ELSE 0

LEMMA UsesOne ==
    ASSUME NEW S, NEW f, NEW n
    PROVE  Uses(S, {f}, n) = One(S.fields[f].name = n) + One(S.fields[f].default = n)
<1>1. Cardinality({g \in {f} : S.fields[g].name = n}) = One(S.fields[f].name = n)
  <2>1. CASE S.fields[f].name = n
    <3>1. {g \in {f} : S.fields[g].name = n} = {f}
      BY <2>1
    <3> QED BY <2>1, <3>1, FS_Singleton DEF One
  <2>2. CASE S.fields[f].name # n
    <3>1. {g \in {f} : S.fields[g].name = n} = {}
      BY <2>2
    <3> QED BY <2>2, <3>1, FS_EmptySet DEF One
  <2> QED BY <2>1, <2>2
<1>2. Cardinality({g \in {f} : S.fields[g].default = n}) = One(S.fields[f].default = n)
  <2>1. CASE S.fields[f].default = n
    <3>1. {g \in {f} : S.fields[g].default = n} = {f}
      BY <2>1
    <3> QED BY <2>1, <3>1, FS_Singleton DEF One
  <2>2. CASE S.fields[f].default # n
    <3>1. {g \in {f} : S.fields[g].default = n} = {}
      BY <2>2
    <3> QED BY <2>2, <3>1, FS_EmptySet DEF One
  <2> QED BY <2>1, <2>2
<1> QED BY <1>1, <1>2 DEF Uses

-----------------------------------------------------------------------------
(* What the operations do to names and fields                              *)

LEMMA NamesTyped == NoName \notin Names /\ FieldName \subseteq Names /\ TypeName \subseteq Names
BY SchemaAssumption DEF Names

\* One more reference changes nothing but a count.
LEMMA NewName ==
    ASSUME NEW S, Good(S), NEW n \in Names \cup {NoName}
    PROVE  /\ Good(pb_newname(S, n))
           /\ pb_newname(S, n).fields = S.fields
           /\ pb_newname(S, n).types = S.types
           /\ \A m \in Names :
                pb_newname(S, n).refs[m] >= Uses(S, Live(S), m) + One(m = n)
<1> DEFINE R == pb_newname(S, n)
<1>1. S \in State /\ Covered(S)
  BY DEF Good, Reachable
<1>2. /\ R \in State /\ R.fields = S.fields /\ R.types = S.types
      /\ \A m \in Names : R.refs[m] = S.refs[m] + One(m = n)
  <2>1. CASE n = NoName
    BY <1>1, <2>1, NamesTyped DEF pb_newname, State, One
  <2>2. CASE n # NoName
    BY <1>1, <2>2, NamesTyped DEF pb_newname, State, One
  <2> QED BY <2>1, <2>2
<1> HIDE DEF R
<1>3. Live(R) = Live(S) /\ \A m : Uses(R, Live(R), m) = Uses(S, Live(S), m)
  BY <1>2, UsesSame DEF Live
<1>4. \A m \in Names : Uses(S, Live(S), m) \in Nat /\ S.refs[m] \in Nat
  BY <1>1, UsesType DEF Live, State
<1>5. \A m \in Names : R.refs[m] >= Uses(S, Live(S), m) + One(m = n)
  BY <1>1, <1>2, <1>4 DEF Covered, One
<1>6. Covered(R)
  BY <1>3, <1>4, <1>5, <1>2 DEF Covered, One
<1>7. \A tn : Entries(R, tn) = Entries(S, tn)
  BY <1>2 DEF Entries, ByName, ByTag
<1>8. Filled(R) /\ Reachable(R) /\ Accounted(R)
  BY <1>2, <1>3, <1>6, <1>7 DEF Good, Filled, Reachable, Accounted
<1> QED BY <1>2, <1>5, <1>8 DEF Good, R

\* What pbT_freefield leaves.
LEMMA FreeEffect ==
    ASSUME NEW S \in State, NEW G \in SUBSET FieldId
    PROVE  /\ pbT_freefield(S, G) \in State
           /\ pbT_freefield(S, G).types = S.types
           /\ \A f \in FieldId :
                pbT_freefield(S, G).fields[f] = IF f \in G THEN NoField ELSE S.fields[f]
           /\ \A n \in Names :
                pbT_freefield(S, G).refs[n] = pb_delname(S.refs[n], Uses(S, G, n))
<1>1. NoField \in FieldRecord
  BY DEF NoField, FieldRecord
<1>2. \A n \in Names : S.refs[n] \in Nat /\ Uses(S, G, n) \in Nat
  BY UsesType DEF State
<1>3. \A n \in Names : pb_delname(S.refs[n], Uses(S, G, n)) \in Nat
  BY <1>2 DEF pb_delname
<1> QED BY <1>1, <1>3 DEF pbT_freefield, State

\* The references that are left still cover the fields that are left.
LEMMA FreeCovered ==
    ASSUME NEW S \in State, Covered(S), NEW G \in SUBSET Live(S)
    PROVE  /\ Covered(pbT_freefield(S, G))
           /\ Live(pbT_freefield(S, G)) = Live(S) \ G
<1> DEFINE R == pbT_freefield(S, G)
<1>1. G \in SUBSET FieldId /\ Live(S) \in SUBSET FieldId
  BY DEF Live
<1>2. /\ \A f \in FieldId : R.fields[f] = IF f \in G THEN NoField ELSE S.fields[f]
      /\ \A n \in Names : R.refs[n] = pb_delname(S.refs[n], Uses(S, G, n))
  BY <1>1, FreeEffect
<1> HIDE DEF R
<1>3. Live(R) = Live(S) \ G
  BY <1>1, <1>2 DEF Live, NoField
<1>4. ASSUME NEW n \in Names PROVE R.refs[n] >= Uses(R, Live(R), n)
  <2>1. \A f \in Live(S) \ G : R.fields[f] = S.fields[f]
    BY <1>1, <1>2
  <2>2. Uses(R, Live(R), n) = Uses(S, Live(S) \ G, n)
    BY <1>3, <2>1, UsesSame
  <2>3. Uses(S, Live(S), n) = Uses(S, G, n) + Uses(S, Live(S) \ G, n)
    BY <1>1, UsesSplit
  <2>4. /\ Uses(S, G, n) \in Nat /\ Uses(S, Live(S) \ G, n) \in Nat /\ S.refs[n] \in Nat
        /\ S.refs[n] >= Uses(S, Live(S), n)
    BY <1>1, UsesType DEF State, Covered
  <2> QED BY <1>2, <2>2, <2>3, <2>4 DEF pb_delname
<1> QED BY <1>3, <1>4 DEF Covered, R

\* Bringing a type into being touches no field.
LEMMA NewType ==
    ASSUME NEW S, Good(S), NEW tn \in TypeName
    PROVE  Good(pb_newtype(S, tn))
<1> DEFINE R == pb_newtype(S, tn)
<1>1. S \in State
  BY DEF Good
<1>a. /\ [S.types[tn] EXCEPT !.known = TRUE, !.is_dead = FALSE] \in TypeRecord
      /\ [S.types[tn] EXCEPT !.known = TRUE, !.is_dead = FALSE].names = S.types[tn].names
      /\ [S.types[tn] EXCEPT !.known = TRUE, !.is_dead = FALSE].tags = S.types[tn].tags
      /\ [S.types[tn] EXCEPT !.known = TRUE, !.is_dead = FALSE].field_count
           = S.types[tn].field_count
  BY <1>1 DEF State, TypeRecord
<1>2. /\ R \in State /\ R.fields = S.fields /\ R.refs = S.refs
      /\ \A un \in TypeName : /\ R.types[un].names = S.types[un].names
                              /\ R.types[un].tags = S.types[un].tags
                              /\ R.types[un].field_count = S.types[un].field_count
  BY <1>1, <1>a DEF pb_newtype, State
<1> HIDE DEF R
<1>3. Live(R) = Live(S) /\ \A n : Uses(R, Live(R), n) = Uses(S, Live(S), n)
  BY <1>2, UsesSame DEF Live
<1>4. \A un \in TypeName : Entries(R, un) = Entries(S, un)
  BY <1>2 DEF Entries, ByName, ByTag
<1>5. Covered(R)
  BY <1>2, <1>3 DEF Good, Reachable, Covered
<1>6. Filled(R) /\ Reachable(R)
  BY <1>2, <1>4, <1>5 DEF Good, Filled, Reachable
<1>7. UNION {Entries(R, un) : un \in TypeName} = UNION {Entries(S, un) : un \in TypeName}
  BY <1>4
<1>8. Accounted(R)
  BY <1>2, <1>3, <1>4, <1>7 DEF Good, Accounted
<1> QED BY <1>2, <1>6, <1>8 DEF Good, R

LEMMA MentionedGood ==
    ASSUME NEW S, Good(S), NEW tn \in TypeName \cup {NoName}
    PROVE  Good(Mentioned(S, tn))
<1>1. CASE tn = NoName
  BY <1>1 DEF Mentioned
<1>2. CASE tn # NoName
  <2>1. tn \in TypeName /\ tn \in Names
    BY <1>2 DEF Names
  <2> QED BY <1>2, <2>1, NewName, NewType DEF Mentioned
<1> QED BY <1>1, <1>2

\* A field that loses its default gives its reference back.
LEMMA UndefaultGood ==
    ASSUME NEW S, Good(S), NEW f \in Live(S)
    PROVE  /\ Good(Undefault(S, f))
           /\ Undefault(S, f).types = S.types
           /\ Undefault(S, f).fields[f].live
           /\ Undefault(S, f).fields[f].default = NoName
<1> DEFINE R == Undefault(S, f)
           d == S.fields[f].default
<1>1. S \in State /\ Covered(S) /\ f \in FieldId /\ Live(S) \in SUBSET FieldId /\ S.fields[f].live
  BY DEF Good, Reachable, Live
<1>2. \A n \in Names : S.refs[n] \in Nat /\ pb_delname(S.refs[n], IF n = d THEN 1 ELSE 0) \in Nat
  BY <1>1 DEF State, pb_delname
<1>3. /\ R.types = S.types
      /\ R.refs = [n \in Names |-> pb_delname(S.refs[n], IF n = d THEN 1 ELSE 0)]
      /\ R.fields = [S.fields EXCEPT ![f].default = NoName]
  BY <1>1 DEF Undefault, State
<1>4. R.fields \in [FieldId -> FieldRecord]
  BY <1>1, <1>3 DEF State, FieldRecord
<1>5. R \in State
  BY <1>1, <1>2, <1>3, <1>4 DEF State, Undefault
<1>6. /\ \A g \in FieldId : /\ g # f => R.fields[g] = S.fields[g]
                            /\ R.fields[g].live = S.fields[g].live
                            /\ R.fields[g].name = S.fields[g].name
                            /\ R.fields[g].number = S.fields[g].number
      /\ R.fields[f].default = NoName
  BY <1>1, <1>3 DEF State, FieldRecord
<1> HIDE DEF R
<1>7. Live(R) = Live(S)
  BY <1>6 DEF Live
<1>8. ASSUME NEW n \in Names PROVE R.refs[n] >= Uses(R, Live(R), n)
  <2>1. /\ Uses(R, Live(R), n) = Uses(R, {f}, n) + Uses(R, Live(R) \ {f}, n)
        /\ Uses(S, Live(S), n) = Uses(S, {f}, n) + Uses(S, Live(S) \ {f}, n)
    BY <1>1, <1>7, UsesSplit
  <2>2. Uses(R, Live(R) \ {f}, n) = Uses(S, Live(S) \ {f}, n)
    BY <1>1, <1>6, <1>7, UsesSame
  <2>3. /\ Uses(R, {f}, n) = One(S.fields[f].name = n) + One(FALSE)
        /\ Uses(S, {f}, n) = One(S.fields[f].name = n) + One(d = n)
    <3>1. (R.fields[f].default = n) = FALSE
      BY <1>6, NamesTyped
    <3>2. Uses(R, {f}, n) = One(R.fields[f].name = n) + One(R.fields[f].default = n)
      BY UsesOne
    <3>3. Uses(S, {f}, n) = One(S.fields[f].name = n) + One(S.fields[f].default = n)
      BY UsesOne
    <3> QED BY <1>1, <1>6, <3>1, <3>2, <3>3
  <2>4. Uses(S, Live(S) \ {f}, n) \in Nat
    BY <1>1, UsesType
  <2>5. S.refs[n] >= Uses(S, Live(S), n) /\ R.refs[n] = pb_delname(S.refs[n], IF n = d THEN 1 ELSE 0)
    BY <1>1, <1>3 DEF Covered, R
  <2> HIDE DEF d
  <2> QED BY <1>2, <2>1, <2>2, <2>3, <2>4, <2>5 DEF One, pb_delname
<1>9. \A un : Entries(R, un) = Entries(S, un)
  BY <1>3 DEF Entries, ByName, ByTag, R
<1>10. Filled(R)
  BY <1>1, <1>6, <1>7 DEF Good, Filled, Live
<1>11. \A un \in TypeName : Entries(S, un) \in SUBSET FieldId
  BY <1>1 DEF Entries, ByName, ByTag, State, TypeRecord
<1>12. Reachable(R)
  <2>1. \A un \in TypeName : \A g \in Entries(R, un) : R.fields[g].live
    BY <1>6, <1>9, <1>11 DEF Good, Reachable
  <2>2. \A un \in TypeName, n \in FieldName :
          R.types[un].names[n] # Nil => R.fields[R.types[un].names[n]].name = n
    BY <1>1, <1>3, <1>6 DEF Good, Reachable, State, TypeRecord, R
  <2>3. \A un \in TypeName, k \in Number :
          R.types[un].tags[k] # Nil => R.fields[R.types[un].tags[k]].number = k
    BY <1>1, <1>3, <1>6 DEF Good, Reachable, State, TypeRecord, R
  <2> QED BY <1>8, <2>1, <2>2, <2>3 DEF Reachable, Covered
<1>13. Accounted(R)
  BY <1>3, <1>7, <1>9 DEF Good, Accounted, R
<1> QED BY <1>1, <1>3, <1>5, <1>6, <1>10, <1>12, <1>13 DEF Good, R

-----------------------------------------------------------------------------
(* Adding and removing fields                                              *)

LEMMA EntriesType ==
    ASSUME NEW S \in State, NEW tn \in TypeName
    PROVE  /\ Entries(S, tn) \in SUBSET FieldId
           /\ ByName(S, tn) \in SUBSET FieldId /\ ByTag(S, tn) \in SUBSET FieldId
BY DEF Entries, ByName, ByTag, State, TypeRecord

\* What an operation on the type tn does that unlinks the fields it frees and
\* links those it takes from the pool.
Relinked(S, R, tn, gone, new) ==
    /\ gone \subseteq Entries(S, tn) /\ new \cap Live(S) = {}
    /\ \A un \in TypeName : un # tn => R.types[un] = S.types[un]
    /\ Entries(R, tn) = (Entries(S, tn) \ gone) \cup new
    /\ Live(R) = (Live(S) \ gone) \cup new
    /\ \A f \in Live(S) \ gone : R.fields[f] = S.fields[f]
    /\ \A n \in FieldName : R.types[tn].names[n] # Nil => R.fields[R.types[tn].names[n]].name = n
    /\ \A k \in Number : R.types[tn].tags[k] # Nil => R.fields[R.types[tn].tags[k]].number = k
    /\ R.types[tn].field_count = Cardinality(Entries(R, tn))

LEMMA RelinkedGood ==
    ASSUME NEW S, NEW R, NEW tn \in TypeName, NEW gone, NEW new,
           Good(S), R \in State, Filled(R), Covered(R), Relinked(S, R, tn, gone, new)
    PROVE  Good(R)
<1> USE DEF Relinked
<1>1. S \in State /\ Reachable(S) /\ Accounted(S)
  BY DEF Good
<1>2. \A un \in TypeName : un # tn => Entries(R, un) = Entries(S, un)
  BY DEF Entries, ByName, ByTag
<1>3. \A un \in TypeName : Entries(S, un) \subseteq Live(S)
  BY <1>1 DEF Accounted
<1>4. \A un \in TypeName : un # tn => Entries(S, un) \cap Entries(S, tn) = {}
  BY <1>1 DEF Accounted
<1>5. \A un \in TypeName : un # tn => /\ Entries(R, un) \subseteq Live(R)
                                      /\ Entries(R, un) \subseteq Live(S) \ gone
  BY <1>2, <1>3, <1>4
<1>6. Entries(R, tn) \subseteq Live(R)
  BY <1>3
<1>7. \A un \in TypeName : \A f \in Entries(R, un) : R.fields[f].live
  BY <1>5, <1>6 DEF Live
<1>8. ASSUME NEW un \in TypeName, NEW n \in FieldName, R.types[un].names[n] # Nil
      PROVE  R.fields[R.types[un].names[n]].name = n
  <2>1. CASE un = tn
    BY <1>8, <2>1
  <2>2. CASE un # tn
    <3>1. R.types[un].names[n] \in Entries(R, un)
      BY <1>8 DEF Entries, ByName
    <3> QED BY <1>1, <1>5, <1>8, <2>2, <3>1 DEF Reachable
  <2> QED BY <2>1, <2>2
<1>9. ASSUME NEW un \in TypeName, NEW k \in Number, R.types[un].tags[k] # Nil
      PROVE  R.fields[R.types[un].tags[k]].number = k
  <2>1. CASE un = tn
    BY <1>9, <2>1
  <2>2. CASE un # tn
    <3>1. R.types[un].tags[k] \in Entries(R, un)
      BY <1>9 DEF Entries, ByTag
    <3> QED BY <1>1, <1>5, <1>9, <2>2, <3>1 DEF Reachable
  <2> QED BY <2>1, <2>2
<1>10. Reachable(R)
  BY <1>7, <1>8, <1>9 DEF Reachable
<1>11. UNION {Entries(R, un) : un \in TypeName} = Live(R)
  <2>1. ASSUME NEW f \in Live(R) PROVE \E un \in TypeName : f \in Entries(R, un)
    <3>1. CASE f \in new
      BY <3>1
    <3>2. CASE f \in Live(S) \ gone
      <4>1. PICK un \in TypeName : f \in Entries(S, un)
        BY <1>1, <3>2 DEF Accounted
      <4> QED BY <1>2, <3>2, <4>1
    <3> QED BY <3>1, <3>2
  <2> QED BY <1>5, <1>6, <2>1
<1>12. \A un \in TypeName : R.types[un].field_count = Cardinality(Entries(R, un))
  BY <1>1, <1>2 DEF Accounted
<1>13. \A un, vn \in TypeName : un # vn => Entries(R, un) \cap Entries(R, vn) = {}
  <2>1. \A un \in TypeName : un # tn => Entries(R, un) \cap Entries(R, tn) = {}
    BY <1>2, <1>3, <1>4
  <2> QED BY <1>1, <1>2, <2>1 DEF Accounted
<1> QED BY <1>10, <1>11, <1>12, <1>13 DEF Good, Accounted

\* Clearing a type.
LEMMA DeltypeGood ==
    ASSUME NEW S, Good(S), NEW tn \in TypeName
    PROVE  Good(pb_deltype(S, tn))
<1> DEFINE gone == Entries(S, tn)
           T == pbT_freefield(S, gone)
           dead == [NoType EXCEPT !.known = TRUE, !.is_dead = TRUE]
           R == pb_deltype(S, tn)
<1>1. S \in State /\ Filled(S) /\ Covered(S) /\ gone \in SUBSET Live(S) /\ gone \in SUBSET FieldId
  BY EntriesType DEF Good, Reachable, Accounted
<1>2. /\ T \in State /\ T.types = S.types
      /\ \A f \in FieldId : T.fields[f] = IF f \in gone THEN NoField ELSE S.fields[f]
      /\ Covered(T) /\ Live(T) = Live(S) \ gone
  BY <1>1, FreeEffect, FreeCovered
<1>3. /\ dead \in TypeRecord /\ dead.field_count = 0
      /\ dead.names = [n \in FieldName |-> Nil] /\ dead.tags = [k \in Number |-> Nil]
  <2>1. /\ NoType \in TypeRecord /\ NoType.field_count = 0
        /\ NoType.names = [n \in FieldName |-> Nil] /\ NoType.tags = [k \in Number |-> Nil]
    BY DEF NoType, TypeRecord
  <2>2. /\ dead \in TypeRecord /\ dead.field_count = NoType.field_count
        /\ dead.names = NoType.names /\ dead.tags = NoType.tags
    BY <2>1 DEF TypeRecord
  <2> HIDE DEF dead
  <2> QED BY <2>1, <2>2
<1>4. R = [T EXCEPT !.types[tn] = dead]
  BY DEF pb_deltype, Entries
<1> HIDE DEF T, dead, R
<1>5. /\ R \in State /\ R.fields = T.fields /\ R.refs = T.refs
      /\ R.types[tn] = dead
      /\ \A un \in TypeName : un # tn => R.types[un] = S.types[un]
  BY <1>2, <1>3, <1>4 DEF State
<1>6. Entries(R, tn) = {}
  BY <1>3, <1>5 DEF Entries, ByName, ByTag
<1>7. Live(R) = (Live(S) \ gone) \cup {}
  BY <1>2, <1>5 DEF Live
<1>8. Covered(R)
  <2>1. \A n : Uses(R, Live(R), n) = Uses(T, Live(T), n)
    BY <1>2, <1>5, <1>7, UsesSame
  <2> QED BY <1>2, <1>5, <2>1 DEF Covered
<1>9. Filled(R)
  <2>1. ~NoField.live
    BY DEF NoField
  <2> QED BY <1>1, <1>2, <1>5, <2>1 DEF Filled
<1>10. \A f \in Live(S) \ gone : R.fields[f] = S.fields[f]
  BY <1>2, <1>5 DEF Live
<1>11. R.types[tn].field_count = Cardinality(Entries(R, tn))
  BY <1>3, <1>5, <1>6, FS_EmptySet
<1>12. Entries(R, tn) = (Entries(S, tn) \ gone) \cup {}
  BY <1>6
<1>13. /\ \A n \in FieldName : R.types[tn].names[n] = Nil
       /\ \A k \in Number : R.types[tn].tags[k] = Nil
  BY <1>3, <1>5
<1> HIDE DEF gone
<1>14. gone \in SUBSET Entries(S, tn)
  BY DEF gone
<1>15. Relinked(S, R, tn, gone, {})
  BY <1>5, <1>7, <1>10, <1>11, <1>12, <1>13, <1>14 DEF Relinked
<1>16. Good(R)
  BY <1>5, <1>8, <1>9, <1>15, RelinkedGood
<1> QED BY <1>16 DEF R

\* The record of a type with two entries replaced.
Replaced(ty, c, fn, k, a, b) == [ty EXCEPT !.field_count = c, !.names[fn] = a, !.tags[k] = b]

Slot == FieldId \cup {Nil}

Replaces(ty, new, c, fn, k, a, b) ==
    /\ new \in TypeRecord /\ new.field_count = c
    /\ \A n \in FieldName : new.names[n] = IF n = fn THEN a ELSE ty.names[n]
    /\ \A j \in Number : new.tags[j] = IF j = k THEN b ELSE ty.tags[j]

LEMMA EntriesReplaced ==
    ASSUME NEW ty \in TypeRecord, NEW c \in Int, NEW fn \in FieldName, NEW k \in Number,
           NEW a \in Slot, NEW b \in Slot
    PROVE  Replaces(ty, Replaced(ty, c, fn, k, a, b), c, fn, k, a, b)
<1> USE DEF Slot
<1> DEFINE new == Replaced(ty, c, fn, k, a, b)
<1>1. /\ ty.names \in [FieldName -> FieldId \cup {Nil}]
      /\ ty.tags \in [Number -> FieldId \cup {Nil}]
  BY DEF TypeRecord
<1>2. new.field_count = c
  BY DEF TypeRecord, Replaced
<1>3. new.names = [ty.names EXCEPT ![fn] = a]
  BY DEF TypeRecord, Replaced
<1>4. new.tags = [ty.tags EXCEPT ![k] = b]
  BY DEF TypeRecord, Replaced
<1>5. new \in TypeRecord
  BY DEF TypeRecord, Replaced
<1> HIDE DEF new
<1>6. Replaces(ty, new, c, fn, k, a, b)
  BY <1>1, <1>2, <1>3, <1>4, <1>5 DEF Replaces
<1> QED BY <1>6 DEF new

\* Clearing a field, found by its name, its number or both.
LEMMA DelfieldGood ==
    ASSUME NEW S, Good(S), NEW tn \in TypeName, NEW f \in Entries(S, tn)
    PROVE  Good(pb_delfield(S, tn, f))
<1> DEFINE fn == S.fields[f].name
           k == S.fields[f].number
           ty == S.types[tn]
           gone == {g \in {ty.names[fn], ty.tags[k]} : g = f}
           T == pbT_freefield(S, gone)
           new == [ty EXCEPT !.field_count = ty.field_count - Cardinality(gone),
                             !.names[fn] = IF ty.names[fn] = f THEN Nil ELSE ty.names[fn],
                             !.tags[k] = IF ty.tags[k] = f THEN Nil ELSE ty.tags[k]]
           R == pb_delfield(S, tn, f)
<1>1. /\ S \in State /\ Filled(S) /\ Covered(S) /\ Reachable(S) /\ ty \in TypeRecord
      /\ Entries(S, tn) \in SUBSET FieldId /\ Entries(S, tn) \in SUBSET Live(S)
      /\ ty.field_count = Cardinality(Entries(S, tn))
  BY EntriesType DEF Good, Reachable, Accounted, State
<1>2. f \in FieldId /\ f \in Live(S) /\ S.fields[f].live /\ fn \in FieldName /\ k \in Number
  BY <1>1 DEF Live, Filled
<1>3. /\ \A n \in FieldName : ty.names[n] = f => n = fn
      /\ \A j \in Number : ty.tags[j] = f => j = k
  BY <1>1, <1>2 DEF Reachable, FieldId, Nil
<1>4. gone = {f}
  <2>1. f = ty.names[fn] \/ f = ty.tags[k]
    BY <1>3 DEF Entries, ByName, ByTag
  <2> QED BY <2>1
<1>5. /\ T \in State /\ T.types = S.types
      /\ \A g \in FieldId : T.fields[g] = IF g = f THEN NoField ELSE S.fields[g]
      /\ Covered(T) /\ Live(T) = Live(S) \ {f}
  <2>1. gone \in SUBSET FieldId /\ gone \in SUBSET Live(S)
    BY <1>2, <1>4
  <2> HIDE DEF gone
  <2>2. /\ T \in State /\ T.types = S.types
        /\ \A g \in FieldId : T.fields[g] = IF g \in gone THEN NoField ELSE S.fields[g]
    BY <1>1, <2>1, FreeEffect
  <2>3. Covered(T) /\ Live(T) = Live(S) \ gone
    BY <1>1, <2>1, FreeCovered
  <2> HIDE DEF T
  <2> QED BY <1>4, <2>2, <2>3
<1>6. Cardinality(gone) = 1
  BY <1>4, FS_Singleton
<1>7. R = [T EXCEPT !.types[tn] = new]
  BY DEF pb_delfield
<1> HIDE DEF T, gone
<1>8. /\ new \in TypeRecord
      /\ new.field_count = ty.field_count - 1
      /\ \A n \in FieldName : new.names[n] = IF ty.names[n] = f THEN Nil ELSE ty.names[n]
      /\ \A j \in Number : new.tags[j] = IF ty.tags[j] = f THEN Nil ELSE ty.tags[j]
  <2> DEFINE a == IF ty.names[fn] = f THEN Nil ELSE ty.names[fn]
             b == IF ty.tags[k] = f THEN Nil ELSE ty.tags[k]
             c == ty.field_count - Cardinality(gone)
  <2>1. /\ c \in Int /\ c = ty.field_count - 1
        /\ a \in FieldId \cup {Nil} /\ b \in FieldId \cup {Nil}
    <3> HIDE DEF ty, fn, k
    <3> QED BY <1>1, <1>2, <1>6 DEF TypeRecord
  <2>2. new = Replaced(ty, c, fn, k, a, b)
    BY DEF Replaced
  <2> HIDE DEF new, a, b, c, ty, fn, k
  <2>3. /\ new \in TypeRecord /\ new.field_count = c
        /\ \A n \in FieldName : new.names[n] = IF n = fn THEN a ELSE ty.names[n]
        /\ \A j \in Number : new.tags[j] = IF j = k THEN b ELSE ty.tags[j]
    <3>1. /\ ty \in TypeRecord /\ c \in Int /\ fn \in FieldName /\ k \in Number
          /\ a \in Slot /\ b \in Slot
      BY <1>1, <1>2, <2>1 DEF Slot
    <3>2. Replaces(ty, Replaced(ty, c, fn, k, a, b), c, fn, k, a, b)
      BY <3>1, EntriesReplaced
    <3> QED BY <2>2, <3>2 DEF Replaces
  <2> QED BY <1>3, <2>1, <2>3 DEF a, b
<1> HIDE DEF new, R
<1>9. /\ R \in State /\ R.fields = T.fields /\ R.refs = T.refs /\ R.types[tn] = new
      /\ \A un \in TypeName : un # tn => R.types[un] = S.types[un]
  BY <1>5, <1>7, <1>8 DEF State
<1>10. Entries(R, tn) = (Entries(S, tn) \ {f}) \cup {}
  <2>1. ByName(R, tn) = ByName(S, tn) \ {f}
    BY <1>8, <1>9 DEF ByName
  <2>2. ByTag(R, tn) = ByTag(S, tn) \ {f}
    BY <1>8, <1>9 DEF ByTag
  <2> QED BY <2>1, <2>2 DEF Entries
<1>11. Live(R) = (Live(S) \ {f}) \cup {}
  BY <1>5, <1>9 DEF Live
<1>12. Covered(R)
  <2>1. \A n : Uses(R, Live(R), n) = Uses(T, Live(T), n)
    BY <1>5, <1>9, <1>11, UsesSame
  <2> QED BY <1>5, <1>9, <2>1 DEF Covered
<1>13. Filled(R)
  <2>1. ~NoField.live
    BY DEF NoField
  <2> QED BY <1>1, <1>5, <1>9, <2>1 DEF Filled
<1>14. \A g \in Live(S) \ {f} : R.fields[g] = S.fields[g]
  BY <1>5, <1>9 DEF Live
<1>15. R.types[tn].field_count = Cardinality(Entries(R, tn))
  <2>1. IsFiniteSet(Entries(S, tn))
    BY <1>1, FieldsFinite
  <2>2. Cardinality(Entries(S, tn) \ {f}) = Cardinality(Entries(S, tn)) - 1
    BY <2>1, FS_RemoveElement
  <2> QED BY <1>1, <1>8, <1>9, <1>10, <2>2
<1>16. \A n \in FieldName : R.types[tn].names[n] # Nil =>
           R.fields[R.types[tn].names[n]].name = n
  <2> SUFFICES ASSUME NEW n \in FieldName, new.names[n] # Nil
               PROVE  R.fields[new.names[n]].name = n
    BY <1>9
  <2>1. new.names[n] = ty.names[n] /\ ty.names[n] # f /\ ty.names[n] # Nil
    BY <1>8
  <2>2. ty.names[n] \in Entries(S, tn)
    BY <2>1 DEF Entries, ByName
  <2>3. S.fields[ty.names[n]].name = n
    BY <1>1, <2>1 DEF Reachable
  <2> QED BY <1>1, <1>14, <2>1, <2>2, <2>3
<1>17. \A j \in Number : R.types[tn].tags[j] # Nil =>
           R.fields[R.types[tn].tags[j]].number = j
  <2> SUFFICES ASSUME NEW j \in Number, new.tags[j] # Nil
               PROVE  R.fields[new.tags[j]].number = j
    BY <1>9
  <2>1. new.tags[j] = ty.tags[j] /\ ty.tags[j] # f /\ ty.tags[j] # Nil
    BY <1>8
  <2>2. ty.tags[j] \in Entries(S, tn)
    BY <2>1 DEF Entries, ByTag
  <2>3. S.fields[ty.tags[j]].number = j
    BY <1>1, <2>1 DEF Reachable
  <2> QED BY <1>1, <1>14, <2>1, <2>2, <2>3
<1>18. Relinked(S, R, tn, {f}, {})
  BY <1>9, <1>10, <1>11, <1>14, <1>15, <1>16, <1>17 DEF Relinked
<1>19. Good(R)
  BY <1>9, <1>12, <1>13, <1>18, RelinkedGood
<1> QED BY <1>19 DEF R

\* There is a reference to spare for a field with the name n.
Spare(S, n) == \A m \in Names : S.refs[m] >= Uses(S, Live(S), m) + One(m = n)

\* A field taken from the pool uses the reference that pb_newname made.
LEMMA AllocEffect ==
    ASSUME NEW S, Good(S), NEW fn \in FieldName, NEW k \in Number, Spare(S, fn),
           NEW f \in FieldId \ Live(S)
    PROVE  LET P == pb_poolalloc(S, f, fn, k)
           IN  /\ P \in State /\ Filled(P) /\ Covered(P)
               /\ P.types = S.types /\ Live(P) = Live(S) \cup {f}
               /\ \A g \in FieldId \ {f} : P.fields[g] = S.fields[g]
               /\ P.fields[f] = [live |-> TRUE, name |-> fn, number |-> k, default |-> NoName]
<1> DEFINE P == pb_poolalloc(S, f, fn, k)
           r == [live |-> TRUE, name |-> fn, number |-> k, default |-> NoName]
<1>1. S \in State /\ Filled(S) /\ Live(S) \in SUBSET FieldId
  BY DEF Good, Live
<1>2. r \in FieldRecord /\ r.live /\ r.name = fn /\ r.number = k /\ r.default = NoName
  BY DEF FieldRecord
<1>3. P = [S EXCEPT !.fields[f] = r]
  BY DEF pb_poolalloc
<1> HIDE DEF P, r
<1>4. /\ P \in State /\ P.types = S.types /\ P.refs = S.refs /\ P.fields[f] = r
      /\ \A g \in FieldId \ {f} : P.fields[g] = S.fields[g]
  BY <1>1, <1>2, <1>3 DEF State
<1>5. Live(P) = Live(S) \cup {f}
  BY <1>2, <1>4 DEF Live
<1>6. Filled(P)
  BY <1>1, <1>2, <1>4 DEF Filled
<1>7. ASSUME NEW m \in Names PROVE P.refs[m] >= Uses(P, Live(P), m)
  <2>1. Live(P) \in SUBSET FieldId /\ {f} \in SUBSET Live(P) /\ Live(P) \ {f} = Live(S)
    BY <1>1, <1>5
  <2>2. Uses(P, Live(P), m) = Uses(P, {f}, m) + Uses(P, Live(P) \ {f}, m)
    BY <2>1, UsesSplit
  <2>3. Uses(P, Live(S), m) = Uses(S, Live(S), m)
    BY <1>1, <1>4, UsesSame
  <2>4. Uses(P, {f}, m) = One(m = fn)
    <3>1. (P.fields[f].default = m) = FALSE /\ (P.fields[f].name = m) = (m = fn)
      BY <1>2, <1>4, NamesTyped
    <3>2. Uses(P, {f}, m) = One(P.fields[f].name = m) + One(P.fields[f].default = m)
      BY UsesOne
    <3> QED BY <3>1, <3>2 DEF One
  <2>5. Uses(S, Live(S), m) \in Nat /\ One(m = fn) \in Nat
    BY <1>1, UsesType DEF One
  <2>6. Uses(P, Live(P), m) = One(m = fn) + Uses(S, Live(S), m)
    BY <2>1, <2>2, <2>3, <2>4
  <2>7. P.refs[m] >= Uses(S, Live(S), m) + One(m = fn)
    BY <1>4 DEF Spare
  <2> QED BY <2>5, <2>6, <2>7
<1>8. Covered(P)
  BY <1>7 DEF Covered
<1> QED BY <1>4, <1>5, <1>6, <1>8 DEF P, r

\* Entering a field: the fields that lose their last entry are the displaced ones.
LEMMA EnterGood ==
    ASSUME NEW S, Good(S), NEW tn \in TypeName, NEW fn \in FieldName, NEW k \in Number,
           Spare(S, fn), NEW f \in FieldId \ Live(S),
           ~(S.types[tn].names[fn] # Nil /\ S.types[tn].names[fn] = S.types[tn].tags[k])
    PROVE  LET R == Enter(pb_poolalloc(S, f, fn, k), tn, f, fn, k, Displaced(S, tn, fn, k))
           IN  /\ Good(R) /\ R.types[tn].names[fn] = f
               /\ R.fields[f].live /\ R.fields[f].default = NoName
<1> DEFINE P == pb_poolalloc(S, f, fn, k)
           r == [live |-> TRUE, name |-> fn, number |-> k, default |-> NoName]
           gone == Displaced(S, tn, fn, k)
           ty == S.types[tn]
           T == pbT_freefield(P, gone)
           R == Enter(P, tn, f, fn, k, gone)
           A(g) == ty.names[S.fields[g].name] = g
           B(g) == ty.tags[S.fields[g].number] = g
<1>1. /\ S \in State /\ Filled(S) /\ Reachable(S) /\ ty \in TypeRecord
      /\ Entries(S, tn) \in SUBSET FieldId /\ Entries(S, tn) \in SUBSET Live(S)
      /\ Live(S) \in SUBSET FieldId
      /\ ty.field_count = Cardinality(Entries(S, tn))
  BY EntriesType DEF Good, Reachable, Accounted, State, Live
<1>2. /\ P \in State /\ Filled(P) /\ Covered(P)
      /\ P.types = S.types /\ Live(P) = Live(S) \cup {f}
      /\ \A g \in FieldId \ {f} : P.fields[g] = S.fields[g]
      /\ P.fields[f] = r
  BY AllocEffect
<1>3. r.live /\ r.name = fn /\ r.number = k /\ r.default = NoName
  OBVIOUS
<1> HIDE DEF P, r
<1>4. ASSUME NEW g \in Entries(S, tn)
      PROVE  /\ g \in FieldId /\ g # Nil /\ g # f
             /\ S.fields[g].name \in FieldName /\ S.fields[g].number \in Number
             /\ \A n \in FieldName : ty.names[n] = g => n = S.fields[g].name
             /\ \A j \in Number : ty.tags[j] = g => j = S.fields[g].number
             /\ A(g) \/ B(g)
  <2>1. g \in FieldId /\ g # Nil /\ g # f /\ S.fields[g].live
    BY <1>1 DEF FieldId, Nil, Live
  <2>2. S.fields[g].name \in FieldName /\ S.fields[g].number \in Number
    BY <1>1, <2>1 DEF Filled
  <2>3. /\ \A n \in FieldName : ty.names[n] = g => n = S.fields[g].name
        /\ \A j \in Number : ty.tags[j] = g => j = S.fields[g].number
    BY <1>1, <2>1 DEF Reachable
  <2>4. A(g) \/ B(g)
    BY <2>3 DEF Entries, ByName, ByTag
  <2> QED BY <2>1, <2>2, <2>3, <2>4
<1>5. /\ gone \in SUBSET Entries(S, tn)
      /\ \A g \in Entries(S, tn) :
           g \in gone <=> \/ A(g) /\ S.fields[g].name = fn /\ ~B(g)
                          \/ B(g) /\ S.fields[g].number = k /\ ~A(g)
  <2>1. gone \in SUBSET Entries(S, tn)
    BY DEF Displaced, Entries, ByName, ByTag
  <2>2. ASSUME NEW g \in Entries(S, tn)
        PROVE  g \in gone <=> \/ A(g) /\ S.fields[g].name = fn /\ ~B(g)
                              \/ B(g) /\ S.fields[g].number = k /\ ~A(g)
    <3>1. g \in gone <=> \/ g = ty.names[fn] /\ ~B(g)
                         \/ g = ty.tags[k] /\ ~A(g)
      BY <1>4 DEF Displaced
    <3>2. g = ty.names[fn] <=> A(g) /\ S.fields[g].name = fn
      BY <1>4
    <3>3. g = ty.tags[k] <=> B(g) /\ S.fields[g].number = k
      BY <1>4
    <3> QED BY <3>1, <3>2, <3>3
  <2> QED BY <2>1, <2>2
<1>6. gone \in SUBSET FieldId /\ gone \in SUBSET Live(P) /\ f \notin gone
  BY <1>1, <1>2, <1>5
<1> HIDE DEF gone
<1>7. /\ T \in State /\ T.types = S.types
      /\ \A g \in FieldId : T.fields[g] = IF g \in gone THEN NoField ELSE P.fields[g]
      /\ Covered(T) /\ Live(T) = (Live(S) \cup {f}) \ gone
  BY <1>2, <1>6, FreeEffect, FreeCovered
<1>8. Cardinality(gone) \in Nat /\ ty.field_count \in Int
  BY <1>1, <1>6, FieldsFinite DEF TypeRecord
<1> DEFINE c == (ty.field_count - Cardinality(gone)) + 1
           new == Replaced(ty, c, fn, k, f, f)
<1>9. R = [T EXCEPT !.types[tn] = new]
  <2>1. P.types[tn] = ty
    BY <1>2
  <2> QED BY <2>1 DEF Enter, Replaced
<1>10. Replaces(ty, new, c, fn, k, f, f)
  <2>1. c \in Int /\ f \in Slot
    BY <1>8 DEF Slot
  <2> HIDE DEF c, ty
  <2> QED BY <1>1, <2>1, EntriesReplaced
<1> HIDE DEF new, T, R
<1>11. /\ R \in State /\ R.fields = T.fields /\ R.refs = T.refs /\ R.types[tn] = new
       /\ \A un \in TypeName : un # tn => R.types[un] = S.types[un]
  BY <1>7, <1>9, <1>10 DEF State, Replaces
<1>12. /\ Entries(R, tn) = (Entries(S, tn) \ gone) \cup {f}
  <2> USE DEF Replaces
  <2>1. f \in Entries(R, tn)
    BY <1>10, <1>11 DEF Entries, ByName, FieldId, Nil
  <2>2. ASSUME NEW g \in Entries(R, tn), g # f PROVE g \in Entries(S, tn)
    <3>1. CASE g \in ByName(R, tn)
      <4>1. PICK n \in FieldName : g = new.names[n] /\ g # Nil
        BY <1>11, <3>1 DEF ByName
      <4> QED BY <1>10, <2>2, <4>1 DEF Entries, ByName
    <3>2. CASE g \in ByTag(R, tn)
      <4>1. PICK j \in Number : g = new.tags[j] /\ g # Nil
        BY <1>11, <3>2 DEF ByTag
      <4> QED BY <1>10, <2>2, <4>1 DEF Entries, ByTag
    <3> QED BY <3>1, <3>2 DEF Entries
  <2>3. ASSUME NEW g \in Entries(S, tn)
        PROVE  g \in Entries(R, tn) <=> \/ A(g) /\ S.fields[g].name # fn
                                        \/ B(g) /\ S.fields[g].number # k
    <3>1. g \in ByName(R, tn) <=> A(g) /\ S.fields[g].name # fn
      BY <1>4, <1>10, <1>11 DEF ByName
    <3>2. g \in ByTag(R, tn) <=> B(g) /\ S.fields[g].number # k
      BY <1>4, <1>10, <1>11 DEF ByTag
    <3> QED BY <3>1, <3>2 DEF Entries
  <2>4. ASSUME NEW g \in Entries(S, tn) PROVE g \in Entries(R, tn) <=> g \notin gone
    <3>1. A(g) \/ B(g)
      BY <1>4
    <3>2. ~(A(g) /\ B(g) /\ S.fields[g].name = fn /\ S.fields[g].number = k)
      BY <1>4
    <3> QED BY <1>5, <2>3, <3>1, <3>2
  <2>5. f \notin Entries(S, tn)
    BY <1>4
  <2> QED BY <1>5, <2>1, <2>2, <2>4, <2>5
<1>13. Live(R) = (Live(S) \ gone) \cup {f}
  <2>1. Live(R) = Live(T)
    BY <1>11 DEF Live
  <2> QED BY <1>6, <1>7, <2>1
<1>14. Covered(R)
  <2>1. \A n : Uses(R, Live(R), n) = Uses(T, Live(T), n)
    BY <1>6, <1>7, <1>11, <1>13, UsesSame
  <2> QED BY <1>7, <1>11, <2>1 DEF Covered
<1>15. Filled(R)
  <2>1. ~NoField.live
    BY DEF NoField
  <2> QED BY <1>2, <1>7, <1>11, <2>1 DEF Filled
<1>16. (\A g \in Live(S) \ gone : R.fields[g] = S.fields[g]) /\ R.fields[f] = r
  BY <1>1, <1>2, <1>6, <1>7, <1>11
<1>17. R.types[tn].field_count = Cardinality(Entries(R, tn))
  <2>1. Cardinality(Entries(S, tn)) = Cardinality(gone) + Cardinality(Entries(S, tn) \ gone)
    <3>1. Entries(S, tn) = gone \cup (Entries(S, tn) \ gone)
      BY <1>5
    <3>2. Entries(S, tn) \ gone \in SUBSET FieldId /\ gone \cap (Entries(S, tn) \ gone) = {}
      BY <1>1
    <3> QED BY <1>6, <3>1, <3>2, CardinalitySplit
  <2>2. Cardinality(Entries(R, tn)) = Cardinality(Entries(S, tn) \ gone) + 1
    <3>1. f \notin Entries(S, tn) \ gone /\ IsFiniteSet(Entries(S, tn) \ gone)
      BY <1>1, <1>4, FieldsFinite
    <3> QED BY <1>12, <3>1, FS_AddElement
  <2>3. Cardinality(Entries(S, tn) \ gone) \in Nat
    BY <1>1, FieldsFinite
  <2> QED BY <1>1, <1>8, <1>10, <1>11, <2>1, <2>2, <2>3 DEF Replaces
<1>18. \A n \in FieldName : R.types[tn].names[n] # Nil =>
           R.fields[R.types[tn].names[n]].name = n
  <2> SUFFICES ASSUME NEW n \in FieldName, new.names[n] # Nil
               PROVE  R.fields[new.names[n]].name = n
    BY <1>11
  <2>1. CASE n = fn
    BY <1>3, <1>10, <1>16, <2>1 DEF Replaces
  <2>2. CASE n # fn
    <3>1. new.names[n] = ty.names[n] /\ ty.names[n] \in Entries(S, tn)
      BY <1>10, <2>2 DEF Replaces, Entries, ByName
    <3>2. ty.names[n] \in Entries(R, tn)
      BY <1>11, <3>1 DEF Entries, ByName
    <3>3. ty.names[n] \in Live(S) \ gone
      BY <1>1, <1>4, <1>12, <3>1, <3>2
    <3>4. S.fields[ty.names[n]].name = n
      BY <1>1, <3>1 DEF Reachable
    <3> QED BY <1>16, <3>1, <3>3, <3>4
  <2> QED BY <2>1, <2>2
<1>19. \A j \in Number : R.types[tn].tags[j] # Nil =>
           R.fields[R.types[tn].tags[j]].number = j
  <2> SUFFICES ASSUME NEW j \in Number, new.tags[j] # Nil
               PROVE  R.fields[new.tags[j]].number = j
    BY <1>11
  <2>1. CASE j = k
    BY <1>3, <1>10, <1>16, <2>1 DEF Replaces
  <2>2. CASE j # k
    <3>1. new.tags[j] = ty.tags[j] /\ ty.tags[j] \in Entries(S, tn)
      BY <1>10, <2>2 DEF Replaces, Entries, ByTag
    <3>2. ty.tags[j] \in Entries(R, tn)
      BY <1>11, <3>1 DEF Entries, ByTag
    <3>3. ty.tags[j] \in Live(S) \ gone
      BY <1>1, <1>4, <1>12, <3>1, <3>2
    <3>4. S.fields[ty.tags[j]].number = j
      BY <1>1, <3>1 DEF Reachable
    <3> QED BY <1>16, <3>1, <3>3, <3>4
  <2> QED BY <2>1, <2>2
<1>20. Relinked(S, R, tn, gone, {f})
  <2>1. {f} \cap Live(S) = {}
    OBVIOUS
  <2> QED BY <1>5, <1>11, <1>12, <1>13, <1>16, <1>17, <1>18, <1>19, <2>1 DEF Relinked
<1>21. Good(R)
  BY <1>11, <1>14, <1>15, <1>20, RelinkedGood
<1>22. R.types[tn].names[fn] = f /\ R.fields[f].live /\ R.fields[f].default = NoName
  BY <1>3, <1>10, <1>11, <1>16 DEF Replaces
<1> QED BY <1>21, <1>22 DEF R, P, gone

\* A new field, or the old one of that name and number, or none when the pool has no
\* memory left.
LEMMA NewfieldGood ==
    ASSUME NEW S, Good(S), NEW tn \in TypeName, NEW fn \in FieldName, NEW k \in Number,
           Spare(S, fn)
    PROVE  LET r == pb_newfield(S, tn, fn, k)
               g == r.S.types[tn].names[fn]
           IN  /\ r.ok \in BOOLEAN /\ Good(r.S)
               /\ r.ok => g \in Live(r.S) /\ r.S.fields[g].default = NoName
<1> DEFINE nf == S.types[tn].names[fn]
           tf == S.types[tn].tags[k]
           f  == CHOOSE i \in FieldId \ Live(S) : TRUE
           U == Undefault(S, nf)
           R == Enter(pb_poolalloc(S, f, fn, k), tn, f, fn, k, Displaced(S, tn, fn, k))
           r == pb_newfield(S, tn, fn, k)
<1>1. r = IF nf # Nil /\ nf = tf THEN [ok |-> TRUE, S |-> U]
          ELSE IF FieldId = Live(S) THEN [ok |-> FALSE, S |-> S]
          ELSE [ok |-> TRUE, S |-> R]
  BY DEF pb_newfield
<1>2. CASE nf # Nil /\ nf = tf
  <2>1. nf \in Live(S)
    BY <1>2 DEF Good, Accounted, Entries, ByName
  <2>2. Good(U) /\ U.types = S.types /\ U.fields[nf].live /\ U.fields[nf].default = NoName
    BY <2>1, UndefaultGood
  <2>3. nf \in Live(U)
    BY <2>1, <2>2 DEF Live
  <2> HIDE DEF U, r
  <2>4. r.ok = TRUE /\ r.S = U
    BY <1>1, <1>2
  <2> QED BY <2>2, <2>3, <2>4 DEF r
<1>3. CASE ~(nf # Nil /\ nf = tf) /\ FieldId = Live(S)
  <2> HIDE DEF r
  <2>1. r.ok = FALSE /\ r.S = S
    BY <1>1, <1>3
  <2> QED BY <2>1 DEF r
<1>4. CASE ~(nf # Nil /\ nf = tf) /\ FieldId # Live(S)
  <2>1. f \in FieldId \ Live(S)
    BY <1>4 DEF Live
  <2> HIDE DEF f
  <2>2. Good(R) /\ R.types[tn].names[fn] = f /\ R.fields[f].live /\ R.fields[f].default = NoName
    BY <1>4, <2>1, EnterGood
  <2>3. f \in Live(R)
    BY <2>1, <2>2 DEF Live
  <2> HIDE DEF R, r
  <2>4. r.ok = TRUE /\ r.S = R
    BY <1>1, <1>4
  <2> QED BY <2>2, <2>3, <2>4 DEF r
<1> QED BY <1>2, <1>3, <1>4

-----------------------------------------------------------------------------
(* The loader                                                              *)

\* The reference made for the default covers it.
LEMMA WithDefaultGood ==
    ASSUME NEW S, Good(S), NEW f \in Live(S), S.fields[f].default = NoName,
           NEW n \in Names \cup {NoName}
    PROVE  Good(WithDefault(S, f, n))
<1> DEFINE N == pb_newname(S, n)
           R == WithDefault(S, f, n)
<1>1. /\ Good(N) /\ N.fields = S.fields /\ N.types = S.types
      /\ \A m \in Names : N.refs[m] >= Uses(S, Live(S), m) + One(m = n)
  BY NewName
<1>2. N \in State /\ S \in State /\ f \in FieldId /\ Live(S) \in SUBSET FieldId
  BY <1>1 DEF Good, Live
<1>3. R = [N EXCEPT !.fields[f].default = n]
  BY DEF WithDefault
<1> HIDE DEF N, R
<1>4. R.types = N.types /\ R.refs = N.refs /\ R.fields = [N.fields EXCEPT ![f].default = n]
  BY <1>2, <1>3 DEF State
<1>5. R.fields \in [FieldId -> FieldRecord]
  <2>1. N.fields \in [FieldId -> FieldRecord] /\ N.fields[f] \in FieldRecord
    BY <1>2 DEF State
  <2>2. [N.fields[f] EXCEPT !.default = n] \in FieldRecord
    BY <2>1 DEF FieldRecord
  <2> QED BY <1>2, <1>4, <2>1, <2>2
<1>6. R \in State
  BY <1>2, <1>3, <1>4, <1>5 DEF State
<1>7. /\ \A g \in FieldId : /\ g # f => R.fields[g] = S.fields[g]
                            /\ R.fields[g].live = S.fields[g].live
                            /\ R.fields[g].name = S.fields[g].name
                            /\ R.fields[g].number = S.fields[g].number
      /\ R.fields[f].default = n
  BY <1>1, <1>2, <1>4 DEF State, FieldRecord
<1>8. Live(R) = Live(S)
  BY <1>7 DEF Live
<1>9. ASSUME NEW m \in Names PROVE R.refs[m] >= Uses(R, Live(R), m)
  <2>1. /\ Uses(R, Live(R), m) = Uses(R, {f}, m) + Uses(R, Live(R) \ {f}, m)
        /\ Uses(S, Live(S), m) = Uses(S, {f}, m) + Uses(S, Live(S) \ {f}, m)
    BY <1>2, <1>8, UsesSplit
  <2>2. Uses(R, Live(R) \ {f}, m) = Uses(S, Live(S) \ {f}, m)
    BY <1>2, <1>7, <1>8, UsesSame
  <2>3. /\ Uses(R, {f}, m) = One(S.fields[f].name = m) + One(m = n)
        /\ Uses(S, {f}, m) = One(S.fields[f].name = m)
    <3>1. (S.fields[f].default = m) = FALSE /\ (R.fields[f].default = m) = (m = n)
      BY <1>7, NamesTyped
    <3>2. Uses(R, {f}, m) = One(R.fields[f].name = m) + One(R.fields[f].default = m)
      BY UsesOne
    <3>3. Uses(S, {f}, m) = One(S.fields[f].name = m) + One(S.fields[f].default = m)
      BY UsesOne
    <3>4. One(S.fields[f].default = m) = 0 /\ One(S.fields[f].name = m) \in Nat
      BY <3>1 DEF One
    <3> QED BY <1>2, <1>7, <3>1, <3>2, <3>3, <3>4
  <2>4. Uses(S, Live(S) \ {f}, m) \in Nat
    BY <1>2, UsesType
  <2>5. R.refs[m] >= Uses(S, Live(S), m) + One(m = n)
    BY <1>1, <1>4
  <2>6. One(m = n) \in Nat /\ One(S.fields[f].name = m) \in Nat
    BY DEF One
  <2>7. Uses(S, Live(S), m) = One(S.fields[f].name = m) + Uses(S, Live(S) \ {f}, m)
    BY <2>1, <2>3
  <2>8. Uses(R, Live(R), m)
          = (One(S.fields[f].name = m) + One(m = n)) + Uses(S, Live(S) \ {f}, m)
    BY <2>1, <2>2, <2>3
  <2> QED BY <2>4, <2>5, <2>6, <2>7, <2>8
<1>10. \A un : Entries(R, un) = Entries(S, un)
  BY <1>1, <1>4 DEF Entries, ByName, ByTag
<1>11. Filled(R)
  BY <1>2, <1>7, <1>8 DEF Good, Filled, Live
<1>12. Reachable(R)
  <2>1. \A un \in TypeName : \A g \in Entries(R, un) : R.fields[g].live
    BY <1>2, <1>7, <1>10, EntriesType DEF Good, Reachable
  <2>2. \A un \in TypeName, m \in FieldName :
          R.types[un].names[m] # Nil => R.fields[R.types[un].names[m]].name = m
    BY <1>1, <1>2, <1>4, <1>7 DEF Good, Reachable, State, TypeRecord
  <2>3. \A un \in TypeName, k \in Number :
          R.types[un].tags[k] # Nil => R.fields[R.types[un].tags[k]].number = k
    BY <1>1, <1>2, <1>4, <1>7 DEF Good, Reachable, State, TypeRecord
  <2> QED BY <1>9, <2>1, <2>2, <2>3 DEF Reachable, Covered
<1>13. Accounted(R)
  BY <1>1, <1>4, <1>8, <1>10 DEF Good, Accounted
<1> QED BY <1>6, <1>11, <1>12, <1>13 DEF Good, R

LEMMA NamedFieldGood ==
    ASSUME NEW S, Good(S), NEW d \in Declaration
    PROVE  LET r == NamedField(S, d)
               g == r.S.types[d.type].names[d.name]
           IN  /\ r.ok \in BOOLEAN /\ Good(r.S)
               /\ r.ok => g \in Live(r.S) /\ r.S.fields[g].default = NoName
<1>1. d.type \in TypeName /\ d.name \in FieldName \cup {NoName} /\ d.number \in Number
  BY DEF Declaration
<1>2. CASE d.name = NoName
  BY <1>2 DEF NamedField
<1>3. CASE d.name # NoName
  <2> DEFINE N == pb_newname(S, d.name)
             r == pb_newfield(N, d.type, d.name, d.number)
             g == r.S.types[d.type].names[d.name]
  <2>1. d.name \in FieldName /\ d.name \in Names
    BY <1>1, <1>3, NamesTyped
  <2>2. /\ Good(N) /\ N.fields = S.fields
        /\ \A m \in Names : N.refs[m] >= Uses(S, Live(S), m) + One(m = d.name)
    BY <2>1, NewName
  <2> HIDE DEF N
  <2>3. Live(N) = Live(S) /\ \A m : Uses(N, Live(N), m) = Uses(S, Live(S), m)
    BY <2>2, UsesSame DEF Live
  <2>4. Spare(N, d.name)
    BY <2>2, <2>3 DEF Spare
  <2>5. /\ r.ok \in BOOLEAN /\ Good(r.S)
        /\ r.ok => g \in Live(r.S) /\ r.S.fields[g].default = NoName
    BY <1>1, <2>1, <2>2, <2>4, NewfieldGood
  <2> HIDE DEF r
  <2>6. NamedField(S, d) = r
    BY <1>3 DEF NamedField, N, r
  <2> QED BY <2>5, <2>6
<1> QED BY <1>2, <1>3

LEMMA LoadFieldGood ==
    ASSUME NEW S, Good(S), NEW d \in Declaration
    PROVE  pbL_loadField(S, d).ok \in BOOLEAN /\ Good(pbL_loadField(S, d).S)
<1> DEFINE S1 == Mentioned(S, d.of)
           S2 == IF d.kind = "extension" THEN Mentioned(S1, d.type) ELSE S1
           r  == NamedField(S2, d)
           g  == r.S.types[d.type].names[d.name]
           W  == WithDefault(r.S, g, d.default)
<1>1. /\ d.type \in TypeName /\ d.of \in TypeName \cup {NoName}
      /\ d.default \in Names \cup {NoName}
  BY DEF Declaration
<1>2. Good(S1)
  BY <1>1, MentionedGood
<1> HIDE DEF S1
<1>3. Good(S2)
  BY <1>1, <1>2, MentionedGood
<1> HIDE DEF S2
<1>4. /\ r.ok \in BOOLEAN /\ Good(r.S)
      /\ r.ok => g \in Live(r.S) /\ r.S.fields[g].default = NoName
  BY <1>3, NamedFieldGood
<1> HIDE DEF r
<1>5. r.ok => Good(W)
  BY <1>1, <1>4, WithDefaultGood
<1>6. pbL_loadField(S, d) = IF r.ok THEN [ok |-> TRUE, S |-> W] ELSE r
  BY DEF pbL_loadField, S1, S2, r
<1> HIDE DEF W
<1>7. CASE r.ok
  <2>1. pbL_loadField(S, d) = [ok |-> TRUE, S |-> W]
    BY <1>6, <1>7
  <2> QED BY <1>5, <1>7, <2>1
<1>8. CASE ~r.ok
  <2>1. pbL_loadField(S, d) = r
    BY <1>6, <1>8
  <2> QED BY <1>4, <2>1
<1> QED BY <1>7, <1>8

\* Whatever is loaded, and however far the loading got.
LEMMA EnteredGood ==
    ASSUME NEW S, Good(S), NEW d \in Declaration
    PROVE  Entered(S, d).ok \in BOOLEAN /\ Good(Entered(S, d).S)
<1>1. CASE d.kind = "type"
  <2>1. Good(Mentioned(S, d.type))
    BY MentionedGood DEF Declaration
  <2>2. Entered(S, d) = [ok |-> TRUE, S |-> Mentioned(S, d.type)]
    BY <1>1 DEF Entered, pbL_loadType
  <2> QED BY <2>1, <2>2
<1>2. CASE d.kind = "value"
  <2>1. Entered(S, d) = NamedField(S, d)
    BY <1>2 DEF Entered, pbL_loadEnumValue
  <2>2. NamedField(S, d).ok \in BOOLEAN /\ Good(NamedField(S, d).S)
    BY NamedFieldGood
  <2> QED BY <2>1, <2>2
<1>3. CASE d.kind # "type" /\ d.kind # "value"
  <2>1. Entered(S, d) = pbL_loadField(S, d)
    BY <1>3 DEF Entered
  <2> QED BY <2>1, LoadFieldGood
<1> QED BY <1>1, <1>2, <1>3

-----------------------------------------------------------------------------
(* The Lua states                                                          *)

LEMMA InitGood == Good(pb_init)
<1> DEFINE S == pb_init
<1>1. NoType \in TypeRecord /\ NoField \in FieldRecord /\ ~NoField.live
      /\ NoType.names = [n \in FieldName |-> Nil] /\ NoType.tags = [k \in Number |-> Nil]
      /\ NoType.field_count = 0
  BY DEF NoType, NoField, TypeRecord, FieldRecord
<1>2. /\ S \in State /\ \A tn \in TypeName : S.types[tn] = NoType
      /\ \A f \in FieldId : S.fields[f] = NoField
      /\ \A n \in Names : S.refs[n] = 0
  BY <1>1 DEF pb_init, State
<1> HIDE DEF S
<1>3. Live(S) = {} /\ \A tn \in TypeName : Entries(S, tn) = {}
  BY <1>1, <1>2 DEF Live, Entries, ByName, ByTag
<1>4. Covered(S)
  <2>1. \A n : Uses(S, {}, n) = 0
    <3>1. \A n : {f \in {} : S.fields[f].name = n} = {} /\ {f \in {} : S.fields[f].default = n} = {}
      OBVIOUS
    <3> QED BY <3>1, FS_EmptySet DEF Uses
  <2> QED BY <1>2, <1>3, <2>1 DEF Covered
<1>5. Filled(S) /\ Reachable(S)
  BY <1>1, <1>2, <1>3, <1>4 DEF Filled, Reachable
<1>6. Accounted(S)
  BY <1>1, <1>2, <1>3, FS_EmptySet DEF Accounted
<1> QED BY <1>2, <1>5, <1>6 DEF Good, S

LEMMA InvInit == Init => IInv
<1> SUFFICES ASSUME Init PROVE IInv
  OBVIOUS
<1>1. Good(pb_init) /\ pb_init \in State
  BY InitGood DEF Good
<1> QED BY <1>1 DEF Init, IInv

\* One Lua state's pb_State is replaced by a good one.
LEMMA StateReplaced ==
    ASSUME IInv, NEW l \in Lua, NEW R, Good(R), state' = [state EXCEPT ![l] = R]
    PROVE  state' \in [Lua -> State] /\ \A i \in Lua : Good(state'[i])
BY DEF IInv, Good

LEMMA InvStep == IInv /\ [Next]_vars => IInv'
<1> SUFFICES ASSUME IInv, [Next]_vars PROVE IInv'
  OBVIOUS
<1>1. /\ state \in [Lua -> State] /\ \A l \in Lua : Good(state[l])
      /\ rest \in [Lua -> Seq(Declaration)]
      /\ loading \subseteq open /\ global \subseteq open
  BY DEF IInv
<1>2. ASSUME NEW l \in Lua, NEW file \in File, Lpb_load(l, file) PROVE IInv'
  <2>1. file \in Seq(Declaration)
    BY SchemaAssumption
  <2> QED BY <1>1, <1>2, <2>1 DEF Lpb_load, Idle, IInv
<1>3. ASSUME NEW l \in Lua, pbL_loadFile(l) PROVE IInv'
  <2> DEFINE r == Entered(state[l], Head(rest[l]))
  <2>1. rest[l] \in Seq(Declaration) /\ rest[l] # << >>
    BY <1>1, <1>3 DEF pbL_loadFile
  <2>2. Head(rest[l]) \in Declaration /\ Tail(rest[l]) \in Seq(Declaration)
    BY <2>1
  <2>3. Good(r.S)
    BY <1>1, <2>2, EnteredGood
  <2>4. /\ state' = [state EXCEPT ![l] = r.S]
        /\ loading' = (IF r.ok THEN loading ELSE loading \ {l})
        /\ rest' = [rest EXCEPT ![l] = IF r.ok THEN Tail(rest[l]) ELSE << >>]
        /\ global' = global /\ open' = open
    BY <1>3 DEF pbL_loadFile
  <2> HIDE DEF r
  <2>5. state' \in [Lua -> State] /\ \A i \in Lua : Good(state'[i])
    BY <2>3, <2>4, StateReplaced
  <2>6. << >> \in Seq(Declaration)
    OBVIOUS
  <2>7. rest' \in [Lua -> Seq(Declaration)]
    BY <1>1, <2>2, <2>4, <2>6
  <2> QED BY <1>1, <2>4, <2>5, <2>7 DEF IInv
<1>4. ASSUME NEW l \in Lua, Loaded(l) PROVE IInv'
  BY <1>1, <1>4 DEF Loaded, IInv
<1>5. ASSUME NEW l \in Lua, ClearAll(l) PROVE IInv'
  <2>1. state' = [state EXCEPT ![l] = pb_init]
    BY <1>5 DEF ClearAll
  <2>2. state' \in [Lua -> State] /\ \A i \in Lua : Good(state'[i])
    BY <2>1, InitGood, StateReplaced
  <2> QED BY <1>1, <1>5, <2>2 DEF ClearAll, IInv
<1>6. ASSUME NEW l \in Lua, Lpb_delete(l) PROVE IInv'
  <2>1. state' = [state EXCEPT ![l] = pb_init]
    BY <1>6 DEF Lpb_delete
  <2>2. state' \in [Lua -> State] /\ \A i \in Lua : Good(state'[i])
    BY <2>1, InitGood, StateReplaced
  <2>3. loading' \subseteq open' /\ global' \subseteq open' /\ rest' = rest
    BY <1>1, <1>6 DEF Lpb_delete, Idle
  <2> QED BY <1>1, <2>2, <2>3 DEF IInv
<1>7. ASSUME NEW l \in Lua, NEW tn \in TypeName, ClearType(l, tn) PROVE IInv'
  <2>1. state' = [state EXCEPT ![l] = pb_deltype(state[l], tn)]
    BY <1>7 DEF ClearType
  <2>2. Good(pb_deltype(state[l], tn))
    BY <1>1, DeltypeGood
  <2>3. state' \in [Lua -> State] /\ \A i \in Lua : Good(state'[i])
    BY <2>1, <2>2, StateReplaced
  <2> QED BY <1>1, <1>7, <2>3 DEF ClearType, IInv
<1>8. ASSUME NEW l \in Lua, NEW tn \in TypeName, NEW f \in FieldId, ClearField(l, tn, f)
      PROVE  IInv'
  <2>1. /\ state' = [state EXCEPT ![l] = pb_delfield(state[l], tn, f)]
        /\ f \in Entries(state[l], tn)
    BY <1>8 DEF ClearField, Entries
  <2>2. Good(pb_delfield(state[l], tn, f))
    BY <1>1, <2>1, DelfieldGood
  <2>3. state' \in [Lua -> State] /\ \A i \in Lua : Good(state'[i])
    BY <2>1, <2>2, StateReplaced
  <2> QED BY <1>1, <1>8, <2>3 DEF ClearField, IInv
<1>9. ASSUME NEW l \in Lua, NEW w \in {"global", "local"}, Lpb_use(l, w) PROVE IInv'
  BY <1>1, <1>9 DEF Lpb_use, IInv
<1>10. CASE UNCHANGED vars
  BY <1>1, <1>10 DEF vars, IInv
<1> QED BY <1>2, <1>3, <1>4, <1>5, <1>6, <1>7, <1>8, <1>9, <1>10 DEF Next

-----------------------------------------------------------------------------
(* The results                                                             *)

\* Every pb_State is well formed at every step of pb.load, pb.clear and pb.use:
\* its tables, its pool and its counts of references fit together.
THEOREM SchemaInvariant == Spec => []IInv
<1>1. Init => IInv
  BY InvInit
<1>2. IInv /\ [Next]_vars => IInv'
  BY InvStep
<1> QED BY <1>1, <1>2, PTL DEF Spec

\* No entry of a type ever leads to a field that pbT_freefield freed, and a field's
\* name and default are in the name table as long as the field is, whatever is
\* loaded, reloaded and cleared, and also when a load fails half way.
THEOREM NothingFreedReachable == Spec => []NoFreedReachable
<1>1. IInv => NoFreedReachable
  BY DEF IInv, Good, NoFreedReachable
<1> QED BY <1>1, SchemaInvariant, PTL

\* No field of the pool leaks: pb_newfield, pb_delfield and pb_deltype free what
\* they leave without an entry, and the field count of a type is what its two
\* tables hold together.
THEOREM NoFieldIsLost == Spec => []NoFieldLost
<1>1. IInv => NoFieldLost
  BY DEF IInv, Good, NoFieldLost
<1> QED BY <1>1, SchemaInvariant, PTL

=============================================================================
