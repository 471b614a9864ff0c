------------------------------- MODULE UriText -------------------------------
(***************************************************************************)
(* Paths and URIs: percent encoding (util.cc), joining and normalising of  *)
(* paths (http2.cc), splitting of request targets (asio_common.h) and the  *)
(* routing of the mux (asio_server_serve_mux.cc).  A string is a sequence  *)
(* of character codes.  A URI split by http_parser_parse_url is a record   *)
(* of its fields, Absent when the field is not set.                        *)
(***************************************************************************)
EXTENDS Integers, Sequences, FiniteSets, SequencesExt

Slash == 47
Dot == 46
Percent == 37
Question == 63
Hash == 35
Colon == 58

Absent == <<0>>
Has(u, field) == u[field] # Absent

LongerOf(m, n) == IF m >= n THEN m ELSE n
Skip(s, n) == SubSeq(s, n + 1, Len(s))

(* Offset of the first c in s, Len(s) when there is none.                  *)
find(s, c) ==
    IF \E i \in DOMAIN s : s[i] = c
    THEN (CHOOSE i \in DOMAIN s : s[i] = c /\ \A j \in 1 .. i - 1 : s[j] # c) - 1
    ELSE Len(s)

RECURSIVE SkipSlashes(_)
SkipSlashes(s) == IF s # <<>> /\ Head(s) = Slash THEN SkipSlashes(Tail(s)) ELSE s

(***************************************************************************)
(* Characters and percent encoding                                         *)
(***************************************************************************)
is_digit(c) == c \in 48 .. 57
is_alpha(c) == c \in 65 .. 90 \/ c \in 97 .. 122
is_hex_digit(c) == is_digit(c) \/ c \in 65 .. 70 \/ c \in 97 .. 102
in_rfc3986_unreserved_chars(c) == is_alpha(c) \/ is_digit(c) \/ c \in {45, Dot, 95, 126}
in_rfc3986_sub_delims(c) == c \in {33, 36, 38, 39, 40, 41, 42, 43, 44, 59, 61}

hex_to_uint(c) == IF c <= 57 THEN c - 48 ELSE IF c <= 90 THEN c - 65 + 10
                  ELSE IF c <= 122 THEN c - 97 + 10 ELSE 256
UPPER_XDIGITS(n) == IF n < 10 THEN 48 + n ELSE 65 + n - 10
upcase(c) == IF c \in 97 .. 122 THEN c - 32 ELSE c

Escape(c) == <<Percent, UPPER_XDIGITS(c \div 16), UPPER_XDIGITS(c % 16)>>
EncodeUnless(s, kept(_)) ==
    FlattenSeq([i \in DOMAIN s |-> IF kept(s[i]) THEN <<s[i]>> ELSE Escape(s[i])])

percent_encode(s) == EncodeUnless(s, in_rfc3986_unreserved_chars)
percent_encode_path(s) ==
    EncodeUnless(s, LAMBDA c : in_rfc3986_unreserved_chars(c) \/ in_rfc3986_sub_delims(c)
                               \/ c = Slash)

(* An escape at the front of s, and the character it stands for.           *)
IsEscape(s) == Len(s) >= 3 /\ s[1] = Percent /\ is_hex_digit(s[2]) /\ is_hex_digit(s[3])
Unescape(s) == hex_to_uint(s[2]) * 16 + hex_to_uint(s[3])

RECURSIVE percent_decode(_)
percent_decode(s) ==
    IF s = <<>> THEN <<>>
    ELSE IF IsEscape(s) THEN <<Unescape(s)>> \o percent_decode(Skip(s, 3))
    ELSE <<Head(s)>> \o percent_decode(Tail(s))

(* Only escapes of characters that need none are decoded; the digits of    *)
(* the others are written in upper case.                                   *)
RECURSIVE DecodeUnreserved(_, _)
DecodeUnreserved(s, extra) ==
    IF Len(s) < 3 THEN s
    ELSE IF ~ IsEscape(s) THEN <<Head(s)>> \o DecodeUnreserved(Tail(s), extra)
    ELSE (IF in_rfc3986_unreserved_chars(Unescape(s)) \/ Unescape(s) \in extra
          THEN <<Unescape(s)>>
          ELSE <<Percent, upcase(s[2]), upcase(s[3])>>) \o DecodeUnreserved(Skip(s, 3), extra)

HasInfix(s, t) == \E i \in 0 .. Len(s) - Len(t) : SubSeq(s, i + 1, i + Len(t)) = t
EndsWith(s, t) == Len(s) >= Len(t) /\ Skip(s, Len(s) - Len(t)) = t

check_path(s) ==
    /\ s # <<>> /\ s[1] = Slash /\ ~ HasInfix(s, <<92>>)
    /\ ~ HasInfix(s, <<Slash, Dot, Dot, Slash>>) /\ ~ HasInfix(s, <<Slash, Dot, Slash>>)
    /\ ~ EndsWith(s, <<Slash, Dot, Dot>>) /\ ~ EndsWith(s, <<Slash, Dot>>)

(***************************************************************************)
(* path_join: p is what was written so far.                                *)
(***************************************************************************)
RECURSIVE eat_file(_)
eat_file(p) ==
    IF p = <<>> THEN <<Slash>>
    ELSE IF Last(p) = Slash THEN p ELSE eat_file(Front(p))

eat_dir(p) == eat_file(Front(eat_file(p)))

RECURSIVE JoinSegments(_, _)
JoinSegments(p, rel) ==
    IF rel = <<>> \/ rel = <<Dot>> THEN p
    ELSE IF IsPrefix(<<Dot, Slash>>, rel) THEN JoinSegments(p, Skip(rel, 2))
    ELSE IF rel = <<Dot, Dot>> THEN eat_dir(p)
    ELSE IF IsPrefix(<<Dot, Dot, Slash>>, rel) THEN JoinSegments(eat_dir(p), Skip(rel, 3))
    ELSE LET q == IF Last(p) # Slash THEN eat_file(p) ELSE p
             n == find(rel, Slash)
         IN  IF n = Len(rel) THEN q \o rel
             ELSE JoinSegments(q \o SubSeq(rel, 1, n + 1), SkipSlashes(Skip(rel, n + 1)))

WithQuery(p, q) == IF q = <<>> THEN p ELSE p \o <<Question>> \o q
OrRoot(base) == IF base = <<>> THEN <<Slash>> ELSE base

(* The characters that are allocated, the terminating one included.        *)
JoinCapacity(base, baseq, rel, relq) ==
    LongerOf(1, Len(base)) + Len(rel) + 1 + LongerOf(Len(baseq), Len(relq)) + 1

path_join_OneSlash(base, baseq, rel, relq) ==
    IF rel = <<>> THEN WithQuery(OrRoot(base), IF relq = <<>> THEN baseq ELSE relq)
    ELSE IF Head(rel) = Slash THEN WithQuery(JoinSegments(<<Slash>>, Tail(rel)), relq)
    ELSE WithQuery(JoinSegments(OrRoot(base), rel), relq)

path_join(base, baseq, rel, relq) ==
    IF rel = <<>> THEN WithQuery(OrRoot(base), IF relq = <<>> THEN baseq ELSE relq)
    ELSE IF Head(rel) = Slash THEN WithQuery(JoinSegments(<<Slash>>, SkipSlashes(rel)), relq)
    ELSE WithQuery(JoinSegments(OrRoot(base), rel), relq)

normalize_path(path, query) == path_join(<<>>, <<>>, DecodeUnreserved(path, {}), query)
normalize_path_colon(path, query) == path_join(<<>>, <<>>, DecodeUnreserved(path, {Colon}), query)

rewrite_clean_path(src) ==
    IF src = <<>> \/ src[1] # Slash THEN src
    ELSE LET whole == SubSeq(src, 1, find(src, Hash))
             n     == find(whole, Question)
         IN  normalize_path(SubSeq(whole, 1, n), Skip(whole, n + 1))

(***************************************************************************)
(* URIs                                                                    *)
(***************************************************************************)
get_pure_path_component(ok, u) ==
    IF ~ ok THEN <<>> ELSE IF Has(u, "path") THEN u.path ELSE <<Slash>>

(* uri is the whole string, ok and u the outcome of parsing it.            *)
construct_push_component(base, uri, ok, u) ==
    IF uri = <<>> \/ (~ ok /\ uri[1] = Slash) THEN [rv |-> -1]
    ELSE LET end == find(uri, Hash)
             q   == find(SubSeq(uri, 1, end), Question)
             rel == IF ~ ok THEN SubSeq(uri, 1, q)
                    ELSE IF Has(u, "path") THEN u.path ELSE <<Slash>>
             relq == IF ~ ok THEN (IF q # end THEN Skip(uri, q + 1) ELSE <<>>)
                     ELSE IF Has(u, "query") THEN u.query ELSE <<>>
         IN  [rv |-> 0, path |-> path_join(base, <<>>, rel, relq),
              scheme |-> IF ok /\ Has(u, "schema") THEN u.schema ELSE <<>>,
              authority |-> IF ~ ok \/ ~ Has(u, "host") THEN <<>>
                            ELSE IF Has(u, "port") THEN u.host \o <<Colon>> \o u.port
                            ELSE u.host]

(* Scheme and authority of a location are replaced when its host is the    *)
(* matched one, which may have a port.                                     *)
rewrite_location_uri(u, match_host, authority, scheme) ==
    IF \/ ~ Has(u, "host") \/ ~ IsPrefix(u.host, match_host)
       \/ (Len(match_host) # Len(u.host) /\ match_host[Len(u.host) + 1] # Colon)
    THEN <<>>
    ELSE (IF authority = <<>> THEN <<>> ELSE scheme \o <<Colon, Slash, Slash>> \o authority)
           \o (IF Has(u, "path") THEN u.path ELSE <<>>)
           \o (IF Has(u, "query") THEN <<Question>> \o u.query ELSE <<>>)
           \o (IF Has(u, "fragment") THEN <<Hash>> \o u.fragment ELSE <<>>)

host_service_from_uri(ok, u) ==
    IF ~ ok \/ ~ Has(u, "schema") \/ ~ Has(u, "host") THEN [ec |-> "invalid_argument"]
    ELSE [ec |-> "ok", scheme |-> u.schema, host |-> u.host,
          service |-> IF Has(u, "port") THEN u.port ELSE u.schema]

split_path(s) ==
    LET n == find(s, Question)
    IN  [path |-> percent_decode(SubSeq(s, 1, n)), raw_path |-> SubSeq(s, 1, n),
         raw_query |-> Skip(s, n + 1)]

(***************************************************************************)
(* The mux: a function from patterns to entries.                           *)
(***************************************************************************)
EmptyMux == [p \in {} |-> [user_defined |-> FALSE, to |-> <<>>]]
With(mux, p, e) == [q \in DOMAIN mux \cup {p} |-> IF q = p THEN e ELSE mux[q]]
User(mux, p) == p \in DOMAIN mux /\ mux[p].user_defined

(* /foo/ also redirects /foo, unless that is registered; an entry that is  *)
(* there, even a redirect, is not replaced by emplace.                     *)
handle(mux, p) ==
    LET r     == Front(p)
        path  == IF p[1] = Slash THEN p ELSE Skip(p, find(p, Slash))
        mux1  == IF Len(p) >= 2 /\ Last(p) = Slash /\ ~ User(mux, r)
                 THEN With(mux, r, [user_defined |-> FALSE, to |-> path]) ELSE mux
    IN  IF p = <<>> \/ User(mux, p) THEN [ok |-> FALSE, mux |-> mux]
        ELSE [ok |-> TRUE,
              mux |-> IF p \in DOMAIN mux1 THEN mux1
                      ELSE With(mux1, p, [user_defined |-> TRUE, to |-> p])]

path_match(p, path) == IF Last(p) # Slash THEN p = path ELSE IsPrefix(p, path)

(* The longest pattern that matches, Absent if there is none.              *)
match(mux, path) ==
    LET fit == {p \in DOMAIN mux : path_match(p, path)}
    IN  IF fit = {} THEN Absent ELSE CHOOSE p \in fit : \A q \in fit : Len(q) <= Len(p)

redirect_handler(to) == [kind |-> "redirect", to |-> to]
status_handler(code) == [kind |-> "status", to |-> <<code>>]
Entry(mux, p) == IF mux[p].user_defined THEN [kind |-> "callback", to |-> p]
                 ELSE redirect_handler(mux[p].to)

(* A path that is not clean is redirected to the clean one.                *)
handler(mux, method, host, uri) ==
    LET clean == path_join(<<>>, <<>>, uri.path, <<>>) IN
    IF method # "CONNECT" /\ clean # uri.path
    THEN redirect_handler(WithQuery(percent_encode_path(clean), uri.raw_query))
    ELSE IF match(mux, host \o uri.path) # Absent THEN Entry(mux, match(mux, host \o uri.path))
    ELSE IF match(mux, uri.path) # Absent THEN Entry(mux, match(mux, uri.path))
    ELSE status_handler(404)
=============================================================================
