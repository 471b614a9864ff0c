----------------------------- MODULE ProtoTable -----------------------------
(***************************************************************************)
(* The hash table of pb.h that holds the types of a state and the fields   *)
(* of a type: open addressing with chains, where a colliding entry goes to *)
(* a free slot found from the end and an entry that sits in the main slot  *)
(* of a new key is moved away.  Entries are deleted by clearing their key. *)
(* Links are written as the slot they lead to instead of an offset.        *)
(***************************************************************************)
EXTENDS Integers, Sequences, FiniteSets, SequencesExt

CONSTANTS Keys,         \* keys that are used, 0 among them
          MinSize,      \* PB_MIN_HASHTABLE_SIZE
          Multiplier,   \* 2654435761
          MaxSize       \* bound on the slots: an insertion beyond it is not tried

ASSUME TableAssumption ==
    /\ Keys \subseteq Nat /\ MinSize \in Nat \ {0} /\ Multiplier \in Nat /\ MaxSize \in Nat

VARIABLES t,        \* the table
          content,  \* what was stored: live key -> its value
          deleted   \* an entry was ever deleted

vars == <<t, content, deleted>>

Null == 0
None == 0                   \* no link: no link leads to slot 0
Value(k) == k + 1           \* the value stored under k
Blank == [key |-> 0, next |-> None, val |-> Null]
inittable == [size |-> 0, lastfree |-> 0, has_zero |-> FALSE, hash |-> <<>>]

Init == t = inittable /\ content = <<>> /\ deleted = FALSE

pbT_hash(tab, key) ==
    LET h == (key * Multiplier) % tab.size
    IN  IF key # 0 /\ h = 0 THEN 1 ELSE h

(* The slots that the search from lastfree finds free, the first at hand.  *)
FreeBelow(tab) == {i \in 1 .. tab.lastfree - 1 : tab.hash[i].key = 0 /\ tab.hash[i].next = None}

(* The slot whose link leads to slot m, in the chain that starts at i.     *)
RECURSIVE Before(_, _, _)
Before(tab, i, m) == IF tab.hash[i].next = m THEN i ELSE Before(tab, tab.hash[i].next, m)

(* The smallest size that is a power of two times the least one.           *)
RECURSIVE Grown(_, _)
Grown(n, size) == IF n < size THEN Grown(2 * n, size) ELSE n

Settle(tab, i, key) ==
    [tab EXCEPT !.hash[i].key = key, !.hash[i].val = Null]

(* Slot m is taken by a key of another chain: that entry moves to f.       *)
MoveAway(tab, m, f) ==
    LET on == Before(tab, pbT_hash(tab, tab.hash[m].key), m)
    IN  [tab EXCEPT !.hash[on].next = f, !.hash[f] = tab.hash[m], !.hash[m].next = None]

LinkBehind_DropsRest(tab, m, f) == [tab EXCEPT !.hash[m].next = f]

(* Slot m holds a key of the same chain: f is linked in behind it.         *)
LinkBehind(tab, m, f) ==
    [tab EXCEPT !.hash[f].next = tab.hash[m].next, !.hash[m].next = f]

RECURSIVE pbT_newkey(_, _), pb_resizetable(_, _)
pbT_newkey(tab, key) ==
    IF tab.size = 0 THEN pbT_newkey(pb_resizetable(tab, 0), key)
    ELSE IF key = 0 THEN [tab |-> Settle([tab EXCEPT !.has_zero = TRUE], 0, 0), at |-> 0]
    ELSE LET m == pbT_hash(tab, key) IN
         IF tab.hash[m].key = 0 THEN [tab |-> Settle(tab, m, key), at |-> m]
         ELSE IF FreeBelow(tab) = {}
         THEN pbT_newkey(pb_resizetable([tab EXCEPT !.lastfree = 1], 2 * tab.size), key)
         ELSE LET f  == CHOOSE i \in FreeBelow(tab) : \A j \in FreeBelow(tab) : j <= i
                  t1 == [tab EXCEPT !.lastfree = f]
              IN  IF pbT_hash(tab, tab.hash[m].key) # m
                  THEN [tab |-> Settle(MoveAway(t1, m, f), m, key), at |-> m]
                  ELSE [tab |-> Settle(LinkBehind(t1, m, f), f, key), at |-> f]

(* Every slot is entered into the new table, the empty ones as key 0.      *)
pb_resizetable(tab, size) ==
    LET n   == Grown(MinSize, size)
        new == [size |-> n, lastfree |-> n, has_zero |-> tab.has_zero,
                hash |-> [i \in 0 .. n - 1 |-> Blank]]
        enter(acc, i) == LET r == pbT_newkey(acc, tab.hash[i].key)
                         IN  [r.tab EXCEPT !.hash[r.at].val = tab.hash[i].val]
    IN  FoldLeft(enter, new, [i \in 1 .. tab.size |-> i - 1])

(* A walk along a chain ends when a slot comes twice.                      *)
RECURSIVE Walk(_, _, _)
Walk(tab, key, i) ==
    IF tab.hash[i].key = key THEN i
    ELSE IF tab.hash[i].next = None THEN -1
    ELSE Walk(tab, key, tab.hash[i].next)

(* The slot of a key, -1 if there is none.                                 *)
pb_gettable(tab, key) ==
    IF tab.size = 0 THEN -1
    ELSE IF key = 0 THEN IF tab.has_zero THEN 0 ELSE -1
    ELSE Walk(tab, key, pbT_hash(tab, key))

pb_settable(tab, key) ==
    LET i == pb_gettable(tab, key)
    IN  IF i # -1 THEN [tab |-> tab, at |-> i] ELSE pbT_newkey(tab, key)

pb_nextentry_SkipsLast(tab, i) ==
    IF i = -1 /\ tab.has_zero THEN 0
    ELSE LET rest == {j \in 1 .. tab.size - 2 : j > i /\ tab.hash[j].key # 0}
         IN  IF rest = {} THEN -1 ELSE CHOOSE j \in rest : \A k \in rest : j <= k

(* The slots that pb_nextentry delivers, one after the other.              *)
pb_nextentry(tab, i) ==     \* i = -1 at the start, and -1 is returned at the end
    IF i = -1 /\ tab.has_zero THEN 0
    ELSE LET rest == {j \in 1 .. tab.size - 1 : j > i /\ tab.hash[j].key # 0}
         IN  IF rest = {} THEN -1 ELSE CHOOSE j \in rest : \A k \in rest : j <= k

RECURSIVE Entries(_, _)
Entries(tab, i) ==
    LET j == pb_nextentry(tab, i)
    IN  IF j = -1 THEN <<>> ELSE <<j>> \o Entries(tab, j)

(***************************************************************************)
(* What pb_newfield and pb_newtype do: set an entry and store its value;   *)
(* what pb_delfield does: clear key and value, the link stays.             *)
(***************************************************************************)
Store(k) ==
    LET r == pb_settable(t, k) IN
    /\ r.tab.size <= MaxSize
    /\ t' = [r.tab EXCEPT !.hash[r.at].val = Value(k)]
    /\ content' = [x \in DOMAIN content \cup {k} |-> IF x = k THEN Value(k) ELSE content[x]]
    /\ UNCHANGED deleted

Delete(k) ==
    LET i == pb_gettable(t, k) IN
    /\ k \in DOMAIN content /\ i # -1
    /\ t' = [t EXCEPT !.hash[i].key = 0, !.hash[i].val = Null]
    /\ content' = [x \in DOMAIN content \ {k} |-> content[x]]
    /\ deleted' = TRUE

Free == t' = inittable /\ content' = <<>> /\ deleted' = FALSE

Next == (\E k \in Keys : Store(k) \/ Delete(k)) \/ Free

Spec == Init /\ [][Next]_vars

(***************************************************************************)
(* Properties                                                              *)
(***************************************************************************)

Stored(k) == LET i == pb_gettable(t, k) IN IF i = -1 THEN Null ELSE t.hash[i].val

(* A key is found with its value exactly if it was stored and not deleted, *)
(* through all moves, deletions and resizes.  Key 0 is left out once an    *)
(* entry was deleted: a resize then writes the value of a deleted slot     *)
(* over that of key 0.                                                     *)
LookupRight ==
    \A k \in Keys : (k # 0 \/ ~ deleted) =>
      Stored(k) = IF k \in DOMAIN content THEN content[k] ELSE Null

(* An iteration delivers every live entry once; a slot without a value may *)
(* come with it as key 0.                                                  *)
IterationComplete ==
    LET e == Entries(t, -1)
        s == SelectSeq(e, LAMBDA i : t.hash[i].val # Null /\ (i # 0 \/ ~ deleted))
    IN  /\ IsInjective(s)
        /\ {t.hash[s[i]].val : i \in DOMAIN s}
             = {content[k] : k \in DOMAIN content \ (IF deleted THEN {0} ELSE {})}
=============================================================================
