----------------------------- MODULE ProtoSchema -----------------------------
(***************************************************************************)
(* The message types that scripts load with pb.load and drop with pb.clear *)
(* (pb.h, pb.c): every Lua state keeps a pb_State of its own with counted  *)
(* names, types and pooled fields; one of them is the global state that    *)
(* others may read from.  Fields are found by name and by number, in two   *)
(* tables that reloading a changed type sets apart.  The hash tables are   *)
(* functions here; ProtoTable is about them.                               *)
(***************************************************************************)
EXTENDS Integers, Sequences, FiniteSets, FiniteSetsExt

CONSTANTS Lua,          \* Lua states
          TypeName, FieldName, Number,
          File,         \* what is loaded: sequences of declarations
          MaxFields,    \* the fields a pool has memory for
          MaxLoads      \* bound on the loads since the states were cleared

NoName == "noname"      \* a slice without bytes: the declaration has no name
Names == TypeName \cup FieldName

(* A declaration has kind, type (or extendee), name, number, default, and  *)
(* of, the name of a message or enum type or NoName.                       *)
Declaration == [kind : {"type", "field", "extension", "value"}, type : TypeName,
                name : FieldName \cup {NoName}, number : Number,
                default : Names \cup {NoName}, of : TypeName \cup {NoName}]

ASSUME SchemaAssumption ==
    /\ MaxFields \in Nat /\ MaxLoads \in Nat
    /\ NoName \notin Names
    /\ \A file \in File : file \in Seq(Declaration)

Nil == 0
FieldId == 1 .. MaxFields

VARIABLES state,    \* Lua state -> its local pb_State
          reads,    \* Lua state -> the Lua state whose pb_State it uses
          global,   \* global_state
          open,     \* Lua states that were not closed
          loading,  \* Lua states inside pb_load
          rest,     \* Lua state -> the declarations pb_load still has to enter
          loads     \* Lua state -> loads since it was cleared

vars == <<state, reads, global, open, loading, rest, loads>>

NoType == [known |-> FALSE, is_dead |-> FALSE, field_count |-> 0,
           names |-> [n \in FieldName |-> Nil], tags |-> [k \in Number |-> Nil]]
NoField == [live |-> FALSE, name |-> NoName, number |-> 0, default |-> NoName]

pb_init == [refs   |-> [n \in Names |-> 0],         \* the name table: 0 is not in it
            types  |-> [n \in TypeName |-> NoType],
            fields |-> [f \in FieldId |-> NoField]]

Init ==
    /\ state = [l \in Lua |-> pb_init] /\ reads = [l \in Lua |-> l]
    /\ global = {} /\ open = Lua
    /\ loading = {} /\ rest = [l \in Lua |-> << >>] /\ loads = [l \in Lua |-> 0]

(***************************************************************************)
(* Names                                                                   *)
(***************************************************************************)

pb_newname(S, n) == IF n = NoName THEN S ELSE [S EXCEPT !.refs[n] = @ + 1]

(* References are given back; the last one removes the name.               *)
pb_delname(refs, count) == IF refs > count THEN refs - count ELSE 0

(* The references the fields in F hold to the name n.                      *)
Uses(S, F, n) == Cardinality({f \in F : S.fields[f].name = n})
                   + Cardinality({f \in F : S.fields[f].default = n})

(***************************************************************************)
(* Types and fields.  The result of an operation is the pb_State; what may *)
(* fail says so with ok.                                                   *)
(***************************************************************************)

(* A dead type is brought back as it is: it has no fields left.            *)
pb_newtype(S, tn) == [S EXCEPT !.types[tn] = [@ EXCEPT !.known = TRUE, !.is_dead = FALSE]]

pb_type(S, tn) == S.types[tn].known /\ ~ S.types[tn].is_dead

Live(S) == {f \in FieldId : S.fields[f].live}

(* The fields in F are freed, one after the other.                         *)
pbT_freefield(S, F) ==
    [S EXCEPT !.refs = [n \in Names |-> pb_delname(@[n], Uses(S, F, n))],
              !.fields = [f \in FieldId |-> IF f \in F THEN NoField ELSE @[f]]]

pb_poolalloc(S, f, fn, k) ==
    [S EXCEPT !.fields[f] = [live |-> TRUE, name |-> fn, number |-> k, default |-> NoName]]

(* The field loses its default.                                            *)
Undefault(S, f) ==
    [S EXCEPT !.refs = [n \in Names |->
                          pb_delname(@[n], IF n = S.fields[f].default THEN 1 ELSE 0)],
              !.fields[f].default = NoName]

(* The field f takes the entries of its name and its number; the fields in *)
(* gone are freed.                                                         *)
Enter(S, tn, f, fn, k, gone) ==
    LET ty == S.types[tn]
    IN  [pbT_freefield(S, gone) EXCEPT
            !.types[tn] = [ty EXCEPT !.field_count = (ty.field_count - Cardinality(gone)) + 1,
                                     !.names[fn] = f, !.tags[k] = f]]

(* A field left in one table only is freed when that entry is replaced.    *)
Displaced(S, tn, fn, k) ==
    LET ty == S.types[tn]
    IN  {f \in {ty.names[fn]} \ {Nil} : ty.tags[S.fields[f].number] # f}
          \cup {f \in {ty.tags[k]} \ {Nil} : ty.names[S.fields[f].name] # f}

pb_newfield_FreesBoth(S, tn, fn, k) ==
    LET nf == S.types[tn].names[fn]
        tf == S.types[tn].tags[k]
        f  == CHOOSE i \in FieldId \ Live(S) : TRUE
    IN  IF nf # Nil /\ nf = tf THEN [ok |-> TRUE, S |-> Undefault(S, nf)]
        ELSE IF FieldId = Live(S) THEN [ok |-> FALSE, S |-> S]
        ELSE [ok |-> TRUE,
              S |-> Enter(pb_poolalloc(S, f, fn, k), tn, f, fn, k, {nf, tf} \ {Nil})]

(* The same name and number: the field is used again, without its default. *)
pb_newfield(S, tn, fn, k) ==
    LET nf == S.types[tn].names[fn]
        tf == S.types[tn].tags[k]
        f  == CHOOSE i \in FieldId \ Live(S) : TRUE
    IN  IF nf # Nil /\ nf = tf THEN [ok |-> TRUE, S |-> Undefault(S, nf)]
        ELSE IF FieldId = Live(S) THEN [ok |-> FALSE, S |-> S]
        ELSE [ok |-> TRUE,
              S |-> Enter(pb_poolalloc(S, f, fn, k), tn, f, fn, k, Displaced(S, tn, fn, k))]

(* The entries that lead to the field are cleared, one or both.            *)
pb_delfield(S, tn, f) ==
    LET fn   == S.fields[f].name
        k    == S.fields[f].number
        ty   == S.types[tn]
        gone == {g \in {ty.names[fn], ty.tags[k]} : g = f}
    IN  [pbT_freefield(S, gone) EXCEPT
            !.types[tn] = [ty EXCEPT !.field_count = ty.field_count - Cardinality(gone),
                                     !.names[fn] = IF ty.names[fn] = f THEN Nil ELSE ty.names[fn],
                                     !.tags[k] = IF ty.tags[k] = f THEN Nil ELSE ty.tags[k]]]

ByName(S, tn) == {S.types[tn].names[n] : n \in FieldName} \ {Nil}
ByTag(S, tn) == {S.types[tn].tags[k] : k \in Number} \ {Nil}

pb_deltype_ByName(S, tn) ==
    [pbT_freefield(S, ByName(S, tn)) EXCEPT
        !.types[tn] = [NoType EXCEPT !.known = TRUE, !.is_dead = TRUE]]

(* The fields found by name are freed and their entries by number cleared, *)
(* then those that only a number leads to.                                 *)
pb_deltype(S, tn) ==
    [pbT_freefield(S, ByName(S, tn) \cup ByTag(S, tn)) EXCEPT
        !.types[tn] = [NoType EXCEPT !.known = TRUE, !.is_dead = TRUE]]

(***************************************************************************)
(* The loader                                                              *)
(***************************************************************************)

(* The type of a field and the extended type are entered as they are met.  *)
Mentioned(S, tn) == IF tn = NoName THEN S ELSE pb_newtype(pb_newname(S, tn), tn)

(* The new field gets its default.                                         *)
WithDefault(S, f, n) == [pb_newname(S, n) EXCEPT !.fields[f].default = n]

(* A field without a name is an error.                                     *)
NamedField(S, d) ==
    IF d.name = NoName THEN [ok |-> FALSE, S |-> S]
    ELSE pb_newfield(pb_newname(S, d.name), d.type, d.name, d.number)

pbL_loadEnumValue(S, d) == NamedField(S, d)

pbL_loadField(S, d) ==
    LET S1 == Mentioned(S, d.of)
        S2 == IF d.kind = "extension" THEN Mentioned(S1, d.type) ELSE S1
        r  == NamedField(S2, d)
    IN  IF r.ok
        THEN [ok |-> TRUE, S |-> WithDefault(r.S, r.S.types[d.type].names[d.name], d.default)]
        ELSE r

pbL_loadType(S, d) == [ok |-> TRUE, S |-> Mentioned(S, d.type)]

Entered(S, d) == CASE d.kind = "type"  -> pbL_loadType(S, d)
                   [] d.kind = "value" -> pbL_loadEnumValue(S, d)
                   [] OTHER            -> pbL_loadField(S, d)

(***************************************************************************)
(* What scripts call.  A load is opened into its declarations: the Lua     *)
(* states of other threads go on, and may use the global state.            *)
(***************************************************************************)

Idle(l) == l \in open /\ l \notin loading

MayLoad == MapThenSumSet(LAMBDA l : loads[l], Lua) < MaxLoads

Lpb_load(l, file) ==
    /\ Idle(l) /\ MayLoad
    /\ loading' = loading \cup {l} /\ rest' = [rest EXCEPT ![l] = file]
    /\ loads' = [loads EXCEPT ![l] = @ + 1]
    /\ UNCHANGED <<state, reads, global, open>>

(* What was loaded before an error stays.                                  *)
pbL_loadFile(l) ==
    /\ l \in loading /\ rest[l] # << >>
    /\ LET r == Entered(state[l], Head(rest[l]))
       IN  /\ state' = [state EXCEPT ![l] = r.S]
           /\ loading' = IF r.ok THEN loading ELSE loading \ {l}
           /\ rest' = [rest EXCEPT ![l] = IF r.ok THEN Tail(@) ELSE << >>]
    /\ UNCHANGED <<reads, global, open, loads>>

Loaded(l) ==
    /\ l \in loading /\ rest[l] = << >>
    /\ loading' = loading \ {l} /\ global' = {l}
    /\ UNCHANGED <<state, reads, open, rest, loads>>

ClearAll(l) ==
    /\ Idle(l)
    /\ state' = [state EXCEPT ![l] = pb_init] /\ loads' = [loads EXCEPT ![l] = 0]
    /\ UNCHANGED <<reads, global, open, loading, rest>>

ClearType(l, tn) ==
    /\ Idle(l) /\ pb_type(state[l], tn)
    /\ state' = [state EXCEPT ![l] = pb_deltype(@, tn)]
    /\ UNCHANGED <<reads, global, open, loading, rest, loads>>

(* The field is looked up by number or by name.                            *)
ClearField(l, tn, f) ==
    /\ Idle(l) /\ pb_type(state[l], tn)
    /\ f \in ByName(state[l], tn) \cup ByTag(state[l], tn)
    /\ state' = [state EXCEPT ![l] = pb_delfield(@, tn, f)]
    /\ UNCHANGED <<reads, global, open, loading, rest, loads>>

Lpb_use(l, which) ==
    /\ Idle(l)
    /\ reads' = [reads EXCEPT ![l] = IF which = "local" THEN l
                                     ELSE IF global = {} THEN @
                                     ELSE CHOOSE g \in global : TRUE]
    /\ UNCHANGED <<state, global, open, loading, rest, loads>>

(* The Lua state is closed.                                                *)
Lpb_delete(l) ==
    /\ Idle(l)
    /\ open' = open \ {l}
    /\ state' = [state EXCEPT ![l] = pb_init]
    /\ global' = global \ {l}
    /\ UNCHANGED <<reads, loading, rest, loads>>

Next ==
    \E l \in Lua :
      \/ \E f \in File : Lpb_load(l, f)
      \/ pbL_loadFile(l) \/ Loaded(l)
      \/ ClearAll(l) \/ Lpb_delete(l)
      \/ \E tn \in TypeName : ClearType(l, tn) \/ \E f \in FieldId : ClearField(l, tn, f)
      \/ \E w \in {"global", "local"} : Lpb_use(l, w)

Spec == Init /\ [][Next]_vars

(***************************************************************************)
(* Properties                                                              *)
(***************************************************************************)

Entries(S, tn) == ByName(S, tn) \cup ByTag(S, tn)

(* The count of a name covers all fields that share it.                    *)
Covered(S) == \A n \in Names : S.refs[n] >= Uses(S, Live(S), n)

(* No entry of a type leads to a field that was freed, every field found   *)
(* by a name or a number has it, and its name and default are still in the *)
(* name table.                                                             *)
Reachable(S) ==
    /\ \A tn \in TypeName : \A f \in Entries(S, tn) : S.fields[f].live
    /\ \A tn \in TypeName, n \in FieldName :
         S.types[tn].names[n] # Nil => S.fields[S.types[tn].names[n]].name = n
    /\ \A tn \in TypeName, k \in Number :
         S.types[tn].tags[k] # Nil => S.fields[S.types[tn].tags[k]].number = k
    /\ Covered(S)

(* No Lua state ever has a type that leads to a freed field or name, also  *)
(* between two declarations of a load, and the state that pb.use("global") *)
(* hands out belongs to a Lua state that is still open.                    *)
NoFreedReachable == global \subseteq open /\ \A l \in Lua : Reachable(state[l])

(* What is live is found in exactly one type, which counts it.             *)
Accounted(S) ==
    /\ UNION {Entries(S, tn) : tn \in TypeName} = Live(S)
    /\ \A tn \in TypeName : S.types[tn].field_count = Cardinality(Entries(S, tn))
    /\ \A tn, un \in TypeName : tn # un => Entries(S, tn) \cap Entries(S, un) = {}

(* No field leaks, whatever loads, reloads and clearings come together:    *)
(* pb_newfield frees what it displaces, pb_delfield and pb_deltype free    *)
(* what they unlink.                                                       *)
NoFieldLost == \A l \in Lua : Accounted(state[l])
=============================================================================
