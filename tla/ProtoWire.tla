------------------------------ MODULE ProtoWire ------------------------------
(***************************************************************************)
(* The wire format of the protobuf library (pb.h) and the conversion of    *)
(* Lua tables to it and back (pb.c).  A slice is a sequence of bytes.  A   *)
(* table is a function from names to values.  types maps a type's name to  *)
(* its fields and flags.  The options of the library have their initial    *)
(* values, the types of fields are loaded, enumerators are given by name;  *)
(* hooks, floats and doubles are left out.                                 *)
(***************************************************************************)
EXTENDS Integers, Sequences, FiniteSets, SequencesExt

CONSTANTS W32, W64      \* bits of int32_t and int64_t; instances use smaller ones
ASSUME WidthAssumption == /\ W32 \in Nat /\ W64 \in Nat /\ 8 <= W32 /\ W32 < W64
                          /\ W32 % 8 = 0 /\ W64 % 8 = 0

unsigned(v, w) == v % 2^w
signed(v, w) == LET u == unsigned(v, w) IN IF u >= 2^(w - 1) THEN u - 2^w ELSE u
After(s, n) == SubSeq(s, n + 1, Len(s))

(***************************************************************************)
(* Varints.  A reader returns how many bytes it used, 0 if it failed, and  *)
(* the value.                                                              *)
(***************************************************************************)
MaxVarint == (W64 + 6) \div 7
Continues(b) == b >= 128
Unread == [n |-> 0, v |-> 0]
Overrun == -1           \* a byte behind the end of the slice was read

VarintValue(s, k, w) ==
    FoldLeft(LAMBDA acc, i : acc + (s[i] % 128) * 128^(i - 1), 0, [i \in 1 .. k |-> i]) % 2^w

(* Position of the first byte of a range that ends a varint, 0 if none.    *)
VarintEnd(range, Ends(_)) ==
    IF \E k \in range : Ends(k) THEN CHOOSE k \in range : Ends(k) /\ \A j \in 1 .. k - 1 : ~ Ends(j)
    ELSE 0

pb_readvarint_slow(s, w) ==
    LET k == VarintEnd(1 .. (IF Len(s) < MaxVarint THEN Len(s) ELSE MaxVarint),
                       LAMBDA i : ~ Continues(s[i]))
    IN  IF k = 0 THEN Unread ELSE [n |-> k, v |-> VarintValue(s, k, w)]

(* The fast reader adds whole bytes: each one takes back the continuation  *)
(* bit of the one before it, and those past the width are only read.       *)
VarintSum(s, k, w) ==
    LET added == (w + 6) \div 7
        byte(i) == s[i] - (IF i = 1 THEN 0 ELSE 1)
    IN  FoldLeft(LAMBDA n, i : n + byte(i) * 128^(i - 1), 0,
                 [i \in 1 .. (IF k < added THEN k ELSE added) |-> i]) % 2^w

(* Looks at up to MaxVarint bytes, wherever the slice ends.                *)
pb_readvarint_fallback(s, w) ==
    LET k == VarintEnd(1 .. MaxVarint, LAMBDA i : i > Len(s) \/ ~ Continues(s[i]))
    IN  IF k = 0 THEN Unread
        ELSE IF k > Len(s) THEN [n |-> Overrun, v |-> 0]
        ELSE [n |-> k, v |-> VarintSum(s, k, w)]

pb_readvarint(s, w) ==
    IF s = <<>> THEN Unread
    ELSE IF ~ Continues(s[1]) THEN [n |-> 1, v |-> s[1]]
    ELSE IF Len(s) >= MaxVarint \/ ~ Continues(Last(s)) THEN pb_readvarint_fallback(s, w)
    ELSE pb_readvarint_slow(s, w)

RECURSIVE pb_write(_)
pb_write(n) == IF n < 128 THEN <<n>> ELSE <<128 + (n % 128)>> \o pb_write(n \div 128)

pb_encode_sint(v, w) ==
    LET u == (2 * unsigned(v, w)) % 2^w IN IF v < 0 THEN 2^w - 1 - u ELSE u
pb_decode_sint(u, w) ==
    signed(IF u % 2 = 1 THEN 2^w - 1 - (u \div 2) ELSE u \div 2, w)
pb_expandsig(u) == unsigned(signed(u, W32), W64)

pb_addfixed(n, w) == [i \in 1 .. w \div 8 |-> (n \div 256^(i - 1)) % 256]
pb_readfixed(s, w) ==
    IF w \div 8 > Len(s) THEN Unread
    ELSE [n |-> w \div 8, v |-> FoldRight(LAMBDA b, acc : acc * 256 + b, SubSeq(s, 1, w \div 8), 0)]

pb_addbytes(s) == pb_write(Len(s)) \o s
Sliced(s, len) ==
    IF len.n = 0 \/ len.v > Len(s) - len.n THEN Unread
    ELSE [n |-> len.n + len.v, v |-> SubSeq(s, len.n + 1, len.n + len.v)]
lpb_readbytes(s) == Sliced(s, pb_readvarint(s, W64))

(***************************************************************************)
(* Tags and values that are skipped                                        *)
(***************************************************************************)
pb_pair(number, wtype) == number * 8 + wtype
pb_gettype(tag) == tag % 8
pb_gettag(tag) == tag \div 8

PB_TVARINT == 0
PB_T64BIT == 1
PB_TBYTES == 2
PB_TGSTART == 3
PB_TGEND == 4
PB_T32BIT == 5

pb_wtypebytype(type) ==
    CASE type \in {"fixed64", "sfixed64"} -> PB_T64BIT
      [] type \in {"fixed32", "sfixed32"} -> PB_T32BIT
      [] type \in {"string", "message", "bytes"} -> PB_TBYTES
      [] OTHER -> PB_TVARINT

RECURSIVE pb_readgroup(_, _, _)
RECURSIVE pb_skipvalue(_, _)

(* off bytes of the group were read; the result is its length, 0 if bad.   *)
pb_readgroup(s, off, tag) ==
    LET r    == pb_readvarint(After(s, off), W32)
        rest == off + r.n
        k    == pb_skipvalue(After(s, rest), r.v)
    IN  IF r.n = 0 THEN 0
        ELSE IF pb_gettype(r.v) = PB_TGEND
        THEN IF pb_gettag(r.v) = pb_gettag(tag) THEN rest ELSE 0
        ELSE IF k = 0 THEN 0 ELSE pb_readgroup(s, rest + k, tag)

pb_skipvalue(s, tag) ==
    LET type == pb_gettype(tag)
        slice(w) == IF w \div 8 > Len(s) THEN 0 ELSE w \div 8
    IN  IF type = PB_TVARINT THEN VarintEnd(DOMAIN s, LAMBDA i : ~ Continues(s[i]))
        ELSE IF type = PB_T64BIT THEN slice(W64)
        ELSE IF type = PB_T32BIT THEN slice(W32)
        ELSE IF type = PB_TBYTES THEN lpb_readbytes(s).n
        ELSE IF type = PB_TGSTART THEN pb_readgroup(s, 0, tag) ELSE 0

(***************************************************************************)
(* Encoding                                                                *)
(***************************************************************************)
lpb_addtype(type, v) ==
    CASE type = "bool" -> IF v THEN <<1>> ELSE <<0>>
      [] type \in {"fixed32", "sfixed32"} -> pb_addfixed(unsigned(v, W32), W32)
      [] type \in {"fixed64", "sfixed64"} -> pb_addfixed(unsigned(v, W64), W64)
      [] type = "int32" -> pb_write(pb_expandsig(v))
      [] type = "uint32" -> pb_write(unsigned(v, W32))
      [] type = "sint32" -> pb_write(pb_encode_sint(signed(v, W32), W32))
      [] type \in {"int64", "uint64"} -> pb_write(unsigned(v, W64))
      [] type = "sint64" -> pb_write(pb_encode_sint(v, W64))
      [] type \in {"bytes", "string"} -> pb_addbytes(v)

(* Whether the value is one that a reader assumes for a missing field;     *)
(* never so for messages and enumerations.                                 *)
IsZero(type, v) ==
    CASE type = "bool" -> ~ v
      [] type \in {"bytes", "string"} -> v = <<>>
      [] type \in {"message", "enum"} -> FALSE
      [] OTHER -> v = 0

pb_fname(types, t, name) == {f \in types[t].fields : f.name = name}
pb_field(types, t, number) == {f \in types[t].fields : f.number = number}
The(S) == CHOOSE x \in S : TRUE

RECURSIVE lpb_encode(_, _, _, _)

lpbE_field(types, f, v) ==
    IF f.type = "enum" THEN pb_write(The(pb_fname(types, f.of, v)).number)
    ELSE IF f.type = "message" THEN pb_addbytes(lpb_encode(types, f.of, v, SetToSeq(DOMAIN v)))
    ELSE lpb_addtype(f.type, v)

lpbE_tagfield(types, f, v, ignorezero) ==
    IF ignorezero /\ IsZero(f.type, v) THEN <<>>
    ELSE pb_write(pb_pair(f.number, pb_wtypebytype(f.type))) \o lpbE_field(types, f, v)

lpbE_map(types, f, map) ==
    LET entry(k) == lpbE_tagfield(types, The(pb_field(types, f.of, 1)), k, TRUE)
                      \o lpbE_tagfield(types, The(pb_field(types, f.of, 2)), map[k], TRUE)
        keys == SetToSeq(DOMAIN map)
    IN  FlattenSeq([i \in DOMAIN keys |->
                      pb_write(pb_pair(f.number, PB_TBYTES)) \o pb_addbytes(entry(keys[i]))])

lpbE_repeated(types, f, values) ==
    IF f.packed
    THEN IF values = <<>> THEN <<>>
         ELSE pb_write(pb_pair(f.number, PB_TBYTES))
                \o pb_addbytes(FlattenSeq([i \in DOMAIN values |-> lpbE_field(types, f, values[i])]))
    ELSE FlattenSeq([i \in DOMAIN values |-> lpbE_tagfield(types, f, values[i], FALSE)])

IsMap(types, f) == f.type = "message" /\ types[f.of].is_map

lpb_encode_onefield_DropsZeroOneof(types, t, f, v) ==
    IF IsMap(types, f) THEN lpbE_map(types, f, v)
    ELSE IF f.repeated THEN lpbE_repeated(types, f, v)
    ELSE lpbE_tagfield(types, f, v, types[t].is_proto3)

lpb_encode_onefield(types, t, f, v) ==
    IF IsMap(types, f) THEN lpbE_map(types, f, v)
    ELSE IF f.repeated THEN lpbE_repeated(types, f, v)
    ELSE lpbE_tagfield(types, f, v, types[t].is_proto3 /\ f.oneof = "")

(* The fields are written in the order in which lua_next delivers them;    *)
(* names that are no fields are passed over.                               *)
lpb_encode(types, t, table, order) ==
    FlattenSeq([i \in DOMAIN order |->
       IF pb_fname(types, t, order[i]) = {} THEN <<>>
       ELSE lpb_encode_onefield(types, t, The(pb_fname(types, t, order[i])), table[order[i]])])

(***************************************************************************)
(* Decoding.  A reader that raises an error returns n = 0; a message that  *)
(* does returns ok = FALSE.                                                *)
(***************************************************************************)
Assign(table, name, v) == [x \in DOMAIN table \cup {name} |-> IF x = name THEN v ELSE table[x]]
EmptyTable == [x \in {} |-> 0]

(* The value of an absent field, as a table with at most one entry.        *)
lpb_pushdeffield(types, f, is_proto3) ==
    IF ~ is_proto3 \/ (f.type = "message" /\ ~ f.repeated) THEN EmptyTable
    ELSE Assign(EmptyTable, f.name,
                IF f.repeated \/ f.type \in {"bytes", "string"} THEN <<>>
                ELSE IF f.type = "enum" /\ pb_field(types, f.of, 0) # {}
                THEN The(pb_field(types, f.of, 0)).name
                ELSE IF f.type = "bool" THEN FALSE ELSE 0)

lpb_pushdefmsg(types, t) ==
    FoldSet(LAMBDA f, table : IF f.oneof # "" THEN table
                              ELSE lpb_pushdeffield(types, f, types[t].is_proto3) @@ table,
            EmptyTable, types[t].fields)

(* A new table: filled with defaults only for proto3.                      *)
lpb_pushtypetable(types, t) == IF types[t].is_proto3 THEN lpb_pushdefmsg(types, t) ELSE EmptyTable

Converted(type, r) ==
    IF r.n = 0 THEN Unread
    ELSE [n |-> r.n,
          v |-> CASE type = "bool" -> r.v # 0
                  [] type \in {"int32", "sfixed32"} -> signed(r.v, W32)
                  [] type \in {"uint32", "fixed32"} -> unsigned(r.v, W32)
                  [] type = "sint32" -> pb_decode_sint(unsigned(r.v, W32), W32)
                  [] type \in {"int64", "uint64", "fixed64", "sfixed64"} -> signed(r.v, W64)
                  [] type = "sint64" -> pb_decode_sint(r.v, W64)
                  [] OTHER -> r.v]

lpb_readtype(type, s) ==
    Converted(type, IF pb_wtypebytype(type) = PB_TVARINT THEN pb_readvarint(s, W64)
                    ELSE IF pb_wtypebytype(type) = PB_T32BIT THEN pb_readfixed(s, W32)
                    ELSE IF pb_wtypebytype(type) = PB_T64BIT THEN pb_readfixed(s, W64)
                    ELSE lpb_readbytes(s))

RECURSIVE lpbD_message(_, _, _, _)

(* The name of a value e of an enumeration, or the number if it has none.  *)
EnumName(e, ev) == IF ev = {} THEN signed(e, W64) ELSE The(ev).name
Enum(types, f, e) ==
    IF e.n = 0 THEN Unread
    ELSE [n |-> e.n, v |-> EnumName(e.v, pb_field(types, f.of, signed(e.v, W32)))]

(* The result of a reader that had to read b and then all of what it held. *)
Held(b, inner) == IF b.n = 0 \/ ~ inner.ok THEN Unread ELSE [n |-> b.n, v |-> inner.v]
Nested(types, f, b) == Held(b, lpbD_message(types, f.of, lpb_pushtypetable(types, f.of), b.v))

lpbD_rawfield(types, f, s) ==
    IF f.type = "enum" THEN Enum(types, f, pb_readvarint(s, W64))
    ELSE IF f.type = "message" THEN Nested(types, f, lpb_readbytes(s))
    ELSE lpb_readtype(f.type, s)

lpbD_field(types, f, tag, s) ==
    IF pb_wtypebytype(f.type) = pb_gettype(tag) THEN lpbD_rawfield(types, f, s) ELSE Unread

(* The fields of a map's entry; what is neither key nor value is not       *)
(* skipped.                                                                *)
RECURSIVE EntryFields(_, _, _, _)
EntryField(types, t, f, entry, p, r) ==
    IF r.n = 0 THEN [ok |-> FALSE, v |-> entry]
    ELSE EntryFields(types, t, Assign(entry, f.name, r.v), After(p, r.n))
EntryTagged(types, t, entry, tag, p) ==
    IF pb_gettag(tag) \notin {1, 2} THEN EntryFields(types, t, entry, p)
    ELSE LET f == The(pb_field(types, t, pb_gettag(tag)))
         IN  EntryField(types, t, f, entry, p, lpbD_field(types, f, tag, p))
EntryFields(types, t, entry, p) ==
    LET tag == pb_readvarint(p, W32)
    IN  IF tag.n = 0 THEN [ok |-> TRUE, v |-> entry]
        ELSE EntryTagged(types, t, entry, tag.v, After(p, tag.n))

(* An entry without key or value gets the default; it is dropped if there  *)
(* is none.                                                                *)
Inserted(map, kf, vf, entry) ==
    IF {kf.name, vf.name} \subseteq DOMAIN entry
    THEN Assign(map, entry[kf.name], entry[vf.name]) ELSE map
EntryHeld(types, f, b, map, e) ==
    LET kf == The(pb_field(types, f.of, 1))
        vf == The(pb_field(types, f.of, 2))
    IN  Held(b, [ok |-> e.ok,
                 v  |-> Inserted(map, kf, vf, e.v @@ lpb_pushdeffield(types, kf, TRUE)
                                                  @@ lpb_pushdeffield(types, vf, TRUE))])
EntryIn(types, f, map, b) == EntryHeld(types, f, b, map, EntryFields(types, f.of, EmptyTable, b.v))
lpbD_map(types, f, map, s) == EntryIn(types, f, map, lpb_readbytes(s))

RECURSIVE Packed(_, _, _, _)
PackedNext(types, f, values, p, r) ==
    IF r.n = 0 THEN [ok |-> FALSE, v |-> values]
    ELSE Packed(types, f, Append(values, r.v), After(p, r.n))
Packed(types, f, values, p) ==
    IF p = <<>> THEN [ok |-> TRUE, v |-> values]
    ELSE PackedNext(types, f, values, p, lpbD_rawfield(types, f, p))

One(values, r) == IF r.n = 0 THEN Unread ELSE [n |-> r.n, v |-> Append(values, r.v)]
All(types, f, values, b) == Held(b, Packed(types, f, values, b.v))
lpbD_repeated(types, f, values, tag, s) ==
    IF pb_gettype(tag) # PB_TBYTES \/ (~ f.packed /\ pb_wtypebytype(f.type) = PB_TBYTES)
    THEN One(values, lpbD_field(types, f, tag, s))
    ELSE All(types, f, values, lpb_readbytes(s))

(* One field f of a message, after its tag.                                *)
MessageField(types, t, table, f, p, r) ==
    IF r.n = 0 THEN [ok |-> FALSE, v |-> table]
    ELSE LET new == IF f.oneof = "" THEN table ELSE Assign(table, f.oneof, f.name)
         IN  lpbD_message(types, t, Assign(new, f.name, r.v), After(p, r.n))
ReadField(types, f, old, tag, p) ==
    IF IsMap(types, f) THEN lpbD_map(types, f, old, p)
    ELSE IF f.repeated THEN lpbD_repeated(types, f, old, tag, p)
    ELSE lpbD_field(types, f, tag, p)
KnownField(types, t, table, f, tag, p) ==
    LET old == IF f.name \in DOMAIN table THEN table[f.name] ELSE <<>>
    IN  MessageField(types, t, table, f, p, ReadField(types, f, old, tag, p))
Tagged(types, t, table, tag, p) ==
    IF pb_field(types, t, pb_gettag(tag)) = {}
    THEN lpbD_message(types, t, table, After(p, pb_skipvalue(p, tag)))
    ELSE KnownField(types, t, table, The(pb_field(types, t, pb_gettag(tag))), tag, p)

(* Reading stops without an error where no tag can be read.  A value that  *)
(* cannot be skipped is read as if it were the next field.                 *)
lpbD_message(types, t, table, s) ==
    LET tag == pb_readvarint(s, W32)
    IN  IF tag.n = 0 THEN [ok |-> TRUE, v |-> table]
        ELSE Tagged(types, t, table, tag.v, After(s, tag.n))

lpb_decode(types, t, s) == lpbD_message(types, t, lpb_pushtypetable(types, t), s)
=============================================================================
