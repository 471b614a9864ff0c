--------------------------- MODULE ResponseTemplate ---------------------------
(***************************************************************************)
(* How a response is chosen and put together (H2Server.h,                  *)
(* H2Server_Response.h): weights, templates with placeholders, values that *)
(* are taken from the request, and the results of a Lua script.  A text is *)
(* a sequence of characters.                                               *)
(***************************************************************************)
EXTENDS Integers, Sequences, FiniteSets, SequencesExt

Npos == -1

(* Offset of the first occurrence of t in s at or after from.              *)
FindFrom(s, t, from) ==
    LET at == {i \in from .. Len(s) - Len(t) : SubSeq(s, i + 1, i + Len(t)) = t}
    IN  IF at = {} THEN Npos ELSE CHOOSE i \in at : \A j \in at : i <= j
From(s, n) == SubSeq(s, n + 1, Len(s))

(***************************************************************************)
(* Weighted choice                                                         *)
(***************************************************************************)
Total(weights, n) == FoldLeft(LAMBDA a, b : a + b, 0, SubSeq(weights, 1, n))

(* From running totals to indices (from 0) of responses that have weight.  *)
distribution_map(weights) ==
    LET used == {i \in DOMAIN weights : weights[i] # 0}
        sums == {Total(weights, i) : i \in used}
    IN  [t \in sums |-> (CHOOSE i \in used : Total(weights, i) = t) - 1]
total_weight(weights) ==
    IF DOMAIN distribution_map(weights) = {} THEN 1 ELSE Total(weights, Len(weights))

LeastOf(S) == CHOOSE x \in S : \A y \in S : x <= y

select_response(weights, randomNumber) ==
    LET map == distribution_map(weights)
        above == {t \in DOMAIN map : t > randomNumber}         \* upper_bound
    IN  IF DOMAIN map = {} THEN 0
        ELSE IF Cardinality(DOMAIN map) = 1 \/ above = {} THEN map[LeastOf(DOMAIN map)]
        ELSE map[LeastOf(above)]

(***************************************************************************)
(* Values from the request                                                 *)
(* A JSON value is a record with a kind; an object has a sequence of       *)
(* members.  A pointer is a sequence of steps: a key, or the nth member's  *)
(* name or value, written /~#n#name and /~#n#value.                        *)
(***************************************************************************)
Null == [kind |-> "nullptr"]
Str(s) == [kind |-> "string", text |-> s]

(* Counted from 1, or backwards from -1; 0 is no member.                   *)
getNth(d, n) ==
    LET i == IF n > 0 THEN n ELSE Len(d.members) + n + 1
    IN  IF n # 0 /\ i \in DOMAIN d.members THEN d.members[i] ELSE Null
getNthValue(d, n) == IF getNth(d, n) = Null THEN Null ELSE getNth(d, n).value
getNthName(d, n) == IF getNth(d, n) = Null THEN Null ELSE Str(getNth(d, n).name)

IsExtended(step) == step.kind \in {"nth_name", "nth_value", "nth_other"}

(* Extended steps stand alone, the plain ones between them stay together.  *)
RECURSIVE splitComplexJsonPointer(_)
splitComplexJsonPointer(p) ==
    LET ext == {i \in DOMAIN p : IsExtended(p[i])}
        n   == IF ext = {} THEN Len(p) ELSE LeastOf(ext) - 1
    IN  (IF n = 0 /\ p # <<>> THEN <<>> ELSE <<SubSeq(p, 1, n)>>)
          \o (IF ext = {} THEN <<>>
              ELSE <<SubSeq(p, n + 1, n + 1)>>
                     \o (IF n + 1 = Len(p) THEN <<>> ELSE splitComplexJsonPointer(From(p, n + 1))))

(* rapidjson::Pointer::Get, one key after the other.                       *)
RECURSIVE PointerGet(_, _)
PointerGet(value, keys) ==
    IF keys = <<>> THEN value
    ELSE IF value.kind # "object" \/ ~ \E i \in DOMAIN value.members : value.members[i].name = keys[1].key
    THEN Null
    ELSE LET i == CHOOSE j \in DOMAIN value.members :
                    /\ value.members[j].name = keys[1].key
                    /\ \A k \in 1 .. j - 1 : value.members[k].name # keys[1].key
         IN  PointerGet(value.members[i].value, Tail(keys))

(* Integers below zero, arrays and null are written as nothing.            *)
convertRapidVJsonValueToStr(v) ==
    IF v.kind = "string" THEN v.text
    ELSE IF v.kind \in {"bool", "uint64", "double", "object"} THEN <<v.kind>>
    ELSE <<>>

RECURSIVE Walk(_, _)
Walk(value, pieces) ==
    IF pieces = <<>> \/ value = Null THEN value
    ELSE LET piece == Head(pieces) IN
      IF piece # <<>> /\ piece[1].kind = "nth_name" THEN getNthName(value, piece[1].n)
      ELSE IF piece # <<>> /\ piece[1].kind = "nth_value"
      THEN Walk(getNthValue(value, piece[1].n), Tail(pieces))
      ELSE IF piece # <<>> /\ piece[1].kind = "nth_other" THEN Walk(value, Tail(pieces))
      ELSE Walk(PointerGet(value, piece), Tail(pieces))

getValueFromJsonPtr(d, p) == convertRapidVJsonValueToStr(Walk(d, splitComplexJsonPointer(p)))

(* The text a value is cut down to: with a regular expression to its match *)
(* (given as match, absent when nothing matches), then to a substring.     *)
getValue(str, regex_present, match, start, length) ==
    LET t == IF regex_present THEN match ELSE str
    IN  IF (start > 0 \/ length # -1) /\ start >= 0 /\ start < Len(t)
        THEN IF length < 0 \/ start + length > Len(t) THEN From(t, start)
             ELSE SubSeq(t, start + 1, start + length)
        ELSE t

(***************************************************************************)
(* Templates                                                               *)
(***************************************************************************)
RECURSIVE TokensFrom(_, _, _)
TokensFrom(source, delimeter, start) ==
    LET pos == FindFrom(source, delimeter, start)
    IN  IF pos = Npos THEN <<From(source, start)>>
        ELSE <<SubSeq(source, start + 1, pos)>>
               \o TokensFrom(source, delimeter, pos + Len(delimeter))
tokenize_string(source, delimeter) ==
    IF delimeter = <<>> THEN <<source>> ELSE TokensFrom(source, delimeter, 0)

(* Configurations for which this is false end the program at start-up.     *)
ArgumentsFit(tokens, arguments) == Len(tokens) - Len(arguments) = 1

produce_payload(tokens, values) ==
    FlattenSeq([i \in DOMAIN tokens |->
                  IF i <= Len(values) THEN tokens[i] \o values[i] ELSE tokens[i]])

HeaderAccepted(header) ==
    LET t == FindFrom(header, <<":">>, 1)
    IN  t # Npos /\ ~ (header[1] = ":" /\ t = 1) /\ t + 1 < Len(header)

(* A colon at the front belongs to a pseudo header; without another one    *)
(* name and value are both the whole text.                                 *)
produce_header(tokens, values) ==
    LET text == produce_payload(tokens, values)
        t    == FindFrom(text, <<":">>, 1)
    IN  IF t = Npos THEN <<text, text>> ELSE <<SubSeq(text, 1, t), From(text, t + 1)>>

(* The first of two headers with the same name is kept (map::insert).      *)
produce_headers(pairs) ==
    [name \in {pairs[i][1] : i \in DOMAIN pairs} |->
       pairs[CHOOSE i \in DOMAIN pairs : /\ pairs[i][1] = name
                                         /\ \A j \in 1 .. i - 1 : pairs[j][1] # name][2]]

(***************************************************************************)
(* The script.  Its two results are strings, tables (functions) or others, *)
(* the last on top of the stack.  A run that fails leaves one string, the  *)
(* message.  resp is the response before, with the result of the call.     *)
(***************************************************************************)
NoHeaders == [n \in {} |-> ""]

RECURSIVE PopResults(_, _)
PopResults(stack, r) ==
    IF stack = <<>> THEN r
    ELSE LET top  == Last(stack)
             next == IF top.type = "string" THEN [r EXCEPT !.body = top.text]
                     ELSE IF top.type # "table" THEN [r EXCEPT !.ok = FALSE]
                     ELSE IF DOMAIN r.trailers = {} THEN [r EXCEPT !.trailers = top.table]
                     ELSE [r EXCEPT !.headers = top.table @@ @]
         IN  PopResults(Front(stack), next)

Cleared(resp) == [resp EXCEPT !.ok = TRUE, !.headers = NoHeaders, !.trailers = NoHeaders]

update_response_with_lua_NoSwap(isfunction, stack, resp) ==
    IF ~ isfunction THEN [resp EXCEPT !.ok = FALSE] ELSE PopResults(stack, Cleared(resp))

update_response_with_lua(isfunction, stack, resp) ==
    LET r == PopResults(stack, Cleared(resp))
    IN  IF ~ isfunction THEN [resp EXCEPT !.ok = FALSE]
        ELSE IF DOMAIN r.headers = {}
        THEN [r EXCEPT !.headers = r.trailers, !.trailers = NoHeaders] ELSE r
=============================================================================
