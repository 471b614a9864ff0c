------------------------------ MODULE HeaderText ------------------------------
(***************************************************************************)
(* Header fields and status lines (http2.cc).  A field is a sequence of    *)
(* lexemes: words that the code compares with, and single characters.     *)
(* Upper and lower case of a word are one lexeme, except in methods, which *)
(* the code compares exactly.                                              *)
(***************************************************************************)
EXTENDS Integers, Sequences, FiniteSets, SequencesExt

Drop(s, n) == SubSeq(s, n + 1, Len(s))
IsLws(c) == c \in {" ", "\t"}
IsWord(c) == c \notin {" ", "\t", ",", ";", "=", "<", ">", "\"", "\\", "*"}

(* How many elements at the front of s satisfy Op.                         *)
Span(s, Op(_)) ==
    IF \A i \in DOMAIN s : Op(s[i]) THEN Len(s)
    ELSE (CHOOSE i \in DOMAIN s : ~ Op(s[i]) /\ \A j \in 1 .. i - 1 : Op(s[j])) - 1

skip_lws(s) == Drop(s, Span(s, IsLws))
skip_to_next_field(s) == Drop(s, Span(s, LAMBDA c : IsLws(c) \/ c = ","))

(***************************************************************************)
(* Status codes                                                            *)
(***************************************************************************)
StaticCodes ==
    {100, 101, 103} \cup 200 .. 206 \cup 300 .. 305 \cup {307, 308} \cup 400 .. 417
    \cup {421, 426, 428, 429, 431, 451} \cup 500 .. 505 \cup {511}

(* The phrase is only told apart from no phrase.                           *)
get_reason_phrase(code) == IF code \in StaticCodes \cup {425} THEN <<"phrase", code>> ELSE <<>>

Digits(n) == IF n < 10 THEN <<n>>
             ELSE IF n < 100 THEN <<n \div 10, n % 10>>
             ELSE IF n < 1000 THEN <<n \div 100, (n \div 10) % 10, n % 10>>
             ELSE <<n \div 1000, (n \div 100) % 10, (n \div 10) % 10, n % 10>>

(* A literal or, for other codes, what make_string_ref_uint formats.       *)
stringify_status(code) == Digits(code)

parse_http_status_code(s) ==
    LET status == (s[1] * 10 + s[2]) * 10 + s[3] IN
    IF Len(s) # 3 \/ (\E i \in DOMAIN s : s[i] \notin 0 .. 9) \/ status < 100
    THEN -1 ELSE status

expect_response_body(method, code) ==
    /\ method # "HEAD"
    /\ code = 101 \/ (code \div 100 # 1 /\ code \notin {204, 304})

(***************************************************************************)
(* Tokens of names and methods: -1 for a name that has none.               *)
(***************************************************************************)
HeaderNames ==
    {"te", "via", "date", "link", "host", ":path", ":host", "cookie", "server", "expect",
     "alt-svc", ":method", ":scheme", "upgrade", "trailer", ":status", "location",
     "forwarded", ":protocol", "early-data", "keep-alive", "connection", "user-agent",
     ":authority", "content-type", "cache-control", "content-length", "http2-settings",
     "accept-language", "accept-encoding", "x-forwarded-for", "proxy-connection",
     "if-modified-since", "transfer-encoding", "x-forwarded-proto", "sec-websocket-key",
     "sec-websocket-accept"}
MethodNames ==
    {"ACL", "GET", "PUT", "BIND", "HEAD", "MOVE", "LINK", "LOCK", "POST", "COPY", "MERGE",
     "PURGE", "TRACE", "PATCH", "MKCOL", "REBIND", "UNBIND", "DELETE", "SOURCE", "SEARCH",
     "UNLINK", "UNLOCK", "REPORT", "NOTIFY", "MSEARCH", "OPTIONS", "CONNECT", "PROPFIND",
     "CHECKOUT", "SUBSCRIBE", "PROPPATCH", "MKCALENDAR", "MKACTIVITY", "UNSUBSCRIBE"}

NoToken == "-1"
lookup_token(name) == IF name \in HeaderNames THEN name ELSE NoToken
lookup_method_token(name) == IF name \in MethodNames THEN name ELSE NoToken

(***************************************************************************)
(* Header lists: records of name, value and token.                         *)
(***************************************************************************)
to_header(name, value) == [name |-> name, value |-> value, token |-> lookup_token(name)]

add_header(nva, name, value) ==
    LET i == Span(value, IsLws)
        j == Span(Reverse(value), IsLws)
    IN  Append(nva, to_header(name, IF i = Len(value) THEN <<>>
                                    ELSE SubSeq(value, i + 1, Len(value) - j)))

erase_header(nva, i) == [nva EXCEPT ![i].name = "", ![i].token = NoToken]

init_hdidx == [t \in HeaderNames |-> 0]
index_header(hdidx, token, i) == IF token = NoToken THEN hdidx ELSE [hdidx EXCEPT ![token] = i]

RECURSIVE IndexAll(_, _, _)
IndexAll(nva, hdidx, i) ==
    IF i > Len(nva) THEN hdidx ELSE IndexAll(nva, index_header(hdidx, nva[i].token, i), i + 1)

Missing == [name |-> "", value |-> <<>>, token |-> NoToken]
get_header_indexed(hdidx, token, nva) == IF hdidx[token] = 0 THEN Missing ELSE nva[hdidx[token]]

RECURSIVE GetLast(_, _, _, _)
GetLast(nva, name, i, res) ==
    IF i > Len(nva) THEN res
    ELSE GetLast(nva, name, i + 1, IF nva[i].name = name THEN nva[i] ELSE res)
get_header(nva, name) == GetLast(nva, name, 1, Missing)

(* Fields that belong to the connection are never copied; of those that a  *)
(* proxy appends to, the last one is kept back for the caller to extend.   *)
HopByHop == {"cookie", "connection", "host", "http2-settings", "keep-alive",
             "proxy-connection", "server", "te", "transfer-encoding", "upgrade"}
Strippable == {"early-data", "sec-websocket-accept", "sec-websocket-key"}
PseudoNames == {":path", ":host", ":method", ":scheme", ":status", ":protocol", ":authority"}
Appended == {"forwarded", "x-forwarded-for", "x-forwarded-proto", "via"}

RECURSIVE CopyFrom(_, _, _, _, _)
CopyFrom(headers, flags, i, kept, nva) ==
    IF i > Len(headers) THEN nva
    ELSE LET kv == headers[i] IN
      IF kv.name = "" \/ kv.name \in PseudoNames \/ kv.token \in HopByHop \cup flags
      THEN CopyFrom(headers, flags, i + 1, kept, nva)
      ELSE IF kv.token \in Appended
      THEN CopyFrom(headers, flags, i + 1, [kept EXCEPT ![kv.token] = i],
                    IF kept[kv.token] = 0 THEN nva ELSE Append(nva, headers[kept[kv.token]]))
      ELSE CopyFrom(headers, flags, i + 1, kept, Append(nva, kv))

copy_headers_to_nva(headers, flags) ==
    CopyFrom(headers, flags, 1, [t \in Appended |-> 0], <<>>)

(* TE: trailers                                                            *)
RECURSIVE contains_trailers(_)
contains_trailers(s) ==
    LET p     == skip_lws(s)
        q     == IF p # <<>> /\ Head(p) = "trailers" THEN skip_lws(Tail(p)) ELSE p
        comma == Span(q, LAMBDA c : c # ",")
    IN  IF p = <<>> THEN FALSE
        ELSE IF Head(p) = "trailers" /\ (q = <<>> \/ Head(q) = ",") THEN TRUE
        ELSE IF comma = Len(q) THEN FALSE ELSE contains_trailers(Drop(q, comma + 1))

(***************************************************************************)
(* Link header fields.  A parser returns the target, <<>> when the link is *)
(* not to be pushed, and what is left of the field; after a syntax error   *)
(* nothing is left.                                                        *)
(***************************************************************************)
Link(uri, rest) == [uri |-> uri, rest |-> rest]
Malformed == Link(<<>>, <<>>)

RECURSIVE skip_to_right_dquote(_)
skip_to_right_dquote(s) ==
    IF s = <<>> \/ Head(s) = "\"" THEN s
    ELSE IF Head(s) = "\\" THEN (IF Len(s) = 1 THEN <<>> ELSE skip_to_right_dquote(Drop(s, 2)))
    ELSE skip_to_right_dquote(Tail(s))

check_link_param_empty(f, name) ==
    IsPrefix(<<name, "=">>, f) => IsPrefix(<<name, "=", "\"", "\"">>, f)

check_link_param_without_value(f, name) ==
    IsPrefix(<<name>>, f) /\ (Len(f) = 1 \/ f[2] \in {";", ","})

(* The relations of rel="...": does preload occur, and what follows; a     *)
(* list with an empty entry or without its end is malformed.               *)
RECURSIVE Relations(_, _)
Relations(s, ok) ==
    LET n == Span(s, LAMBDA c : c \notin {" ", "\""})
        found == ok \/ SubSeq(s, 1, n) = <<"preload">>
    IN  IF n = Len(s) \/ n = 0 THEN [bad |-> TRUE]
        ELSE IF s[n + 1] = "\"" THEN [bad |-> FALSE, ok |-> found, rest |-> Drop(s, n + 1)]
        ELSE Relations(skip_lws(Drop(s, n)), found)

RECURSIVE LinkParams(_, _, _, _)
RECURSIVE AfterParam(_, _, _, _)

(* Ends of a link-param.                                                   *)
AfterParam(f, uri, ok, ign) ==
    IF f = <<>> \/ Head(f) = ","
    THEN Link(IF ok /\ ~ ign THEN uri ELSE <<>>, Drop(f, 1))
    ELSE IF Head(f) = ";" THEN LinkParams(Tail(f), uri, ok, ign) ELSE Malformed

(* A link-param that is none of the known ones, from its name on.          *)
OtherParam(f, uri, ok, ign) ==
    LET n    == Span(f, IsWord)
        star == n > 0 /\ Len(f) >= n + 2 /\ f[n + 1] = "*" /\ f[n + 2] = "="
        v    == Drop(f, IF star THEN n + 2 ELSE n + 1)
    IN  IF n = 0 \/ (n < Len(f) /\ ~ star /\ f[n + 1] \notin {"=", ";", ","}) THEN Malformed
        ELSE IF n = Len(f) \/ f[n + 1] \in {";", ","} THEN AfterParam(Drop(f, n), uri, ok, ign)
        ELSE IF v = <<>> \/ Head(v) \in {";", ","} THEN Malformed
        ELSE IF Head(v) = "\""
        THEN LET q == skip_to_right_dquote(Tail(v))
             IN  IF q = <<>> THEN Malformed ELSE AfterParam(Tail(q), uri, ok, ign)
        ELSE AfterParam(Drop(v, Span(v, LAMBDA c : c \notin {";", ","})), uri, ok, ign)

Preload == <<"rel", "=", "preload">>

LinkParams(s, uri, ok, ign) ==
    LET f == skip_lws(s)
        reject == \/ ~ check_link_param_empty(f, "anchor")
                  \/ ~ check_link_param_empty(f, "loadpolicy")
                  \/ check_link_param_without_value(f, "nopush")
    IN  IF f = <<>> THEN Malformed
        ELSE IF ~ ign /\ ~ ok /\ Len(f) > 3 /\ IsPrefix(<<"rel", "=", "\"">>, f)
        THEN LET r == Relations(Drop(f, 3), FALSE)
             IN  IF r.bad THEN Malformed ELSE AfterParam(r.rest, uri, r.ok, ign)
        ELSE IF ~ ign /\ (f = Preload \/ IsPrefix(Append(Preload, ","), f))
        THEN Link(uri, Drop(f, 4))
        ELSE IF ~ ign /\ IsPrefix(Append(Preload, ";"), f)
        THEN LinkParams(Drop(f, 4), uri, TRUE, ign)
        ELSE OtherParam(f, uri, ok, ign \/ reject)

parse_next_link_header_once_NoComma(s) ==
    LET f == skip_to_next_field(s)
        n == Span(f, LAMBDA c : c # ">")
    IN  IF f = <<>> \/ Head(f) # "<" \/ n >= Len(f) - 1 THEN Malformed
        ELSE IF f[n + 2] = ";" THEN LinkParams(Drop(f, n + 2), SubSeq(f, 2, n), FALSE, FALSE)
        ELSE Malformed

parse_next_link_header_once(s) ==
    LET f == skip_to_next_field(s)
        n == Span(f, LAMBDA c : c # ">")
        uri == SubSeq(f, 2, n)
    IN  IF f = <<>> \/ Head(f) # "<" \/ n >= Len(f) - 1 THEN Malformed
        ELSE IF f[n + 2] = "," THEN Link(<<>>, Drop(f, n + 2))
        ELSE IF f[n + 2] = ";" THEN LinkParams(Drop(f, n + 2), uri, FALSE, FALSE)
        ELSE Malformed

RECURSIVE parse_link_header(_)
parse_link_header(s) ==
    IF s = <<>> THEN <<>>
    ELSE LET l == parse_next_link_header_once(s)
         IN  (IF l.uri = <<>> THEN <<>> ELSE <<l.uri>>) \o parse_link_header(l.rest)
=============================================================================
