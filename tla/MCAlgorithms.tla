----------------------------- MODULE MCAlgorithms -----------------------------
(***************************************************************************)
(* Calls of the library's pure functions, one per step, on every input of  *)
(* a bounded set.  The invariants compare results with definitions that    *)
(* are written down independently of the code's way of computing them.     *)
(***************************************************************************)
EXTENDS NumberText, HeaderText, ResponseTemplate, ProtoWire

VARIABLE call           \* the function that was called, its arguments and result

Idle == [fn |-> "idle"]
Init == call = Idle

Texts(chars, n) == UNION {[1 .. k -> chars] : k \in 0 .. n}

(***************************************************************************)
(* Paths                                                                   *)
(***************************************************************************)
Bases == {<<>>, <<Slash>>, <<Slash, 97>>, <<Slash, 97, Slash>>, <<Slash, 97, Slash, 98>>}
RelTexts == Texts({Slash, Dot, 97}, 6)

JoinPath == \E base \in Bases, rel \in RelTexts, relq \in {<<>>, <<113>>} :
    call' = [fn |-> "path_join", base |-> base, rel |-> rel, relq |-> relq,
             out |-> path_join(base, <<98>>, rel, relq)]

(* A path, an optional query and fragment: %2E is a dot, %32 a 2, %3a a    *)
(* colon, and a % may begin no escape.                                     *)
PathPieces == {<<Slash>>, <<50>>, <<69>>, <<Percent>>, <<Percent, 50, 69>>, <<Percent, 51, 50>>,
               <<Percent, 51, 97>>}
NormalizePath == \E pieces \in SeqOf(PathPieces, 5), query \in {<<>>, <<Percent, 50, 69, Question>>},
                    fragment \in {<<>>, <<Hash, Question>>} :
    LET path == <<Slash>> \o FlattenSeq(pieces)
    IN  call' = [fn |-> "rewrite_clean_path", path |-> path, query |-> query,
                 out |-> rewrite_clean_path(WithQuery(path, query) \o fragment),
                 colon |-> normalize_path_colon(path, query)]

Space == 32
Part(mark, field) == IF field = Absent THEN <<>> ELSE <<mark>> \o field

(* A link's target and what http_parser_parse_url, which is external, says *)
(* of it: it accepts what has scheme and host and absolute paths, unless   *)
(* there is a space.                                                       *)
PushTarget == \E base \in Bases, host \in {Absent, <<104>>}, path \in Texts({Slash, Dot, 97, Space}, 4),
                 query, fragment \in {Absent, <<113>>} :
    LET rooted == path # <<>> /\ path[1] = Slash
        uri == (IF host = Absent THEN <<>> ELSE <<115, Colon, Slash, Slash>> \o host)
                 \o path \o Part(Question, query) \o Part(Hash, fragment)
        ok  == Space \notin Range(path) /\ (rooted \/ host # Absent)
        u   == [schema |-> IF host = Absent THEN Absent ELSE <<115>>, host |-> host, port |-> Absent,
                path |-> IF path = <<>> THEN Absent ELSE path, query |-> query, fragment |-> fragment]
    IN  /\ host # Absent => ok /\ (rooted \/ (path = <<>> /\ fragment = Absent))
        /\ call' = [fn |-> "construct_push_component", base |-> base, uri |-> uri, ok |-> ok, u |-> u,
                    out |-> construct_push_component(base, uri, ok, u)]

IsDots(seg) == seg \in {<<Dot>>, <<Dot, Dot>>}

(* Joining by segments: "." is skipped, ".." takes the last segment away,  *)
(* and an empty segment counts only after one of these.                    *)
RECURSIVE Fold(_, _, _)
Fold(segs, i, stack) ==
    IF i > Len(segs) THEN stack
    ELSE Fold(segs, i + 1,
              IF segs[i] = <<Dot>> THEN stack
              ELSE IF segs[i] = <<Dot, Dot>> THEN (IF stack = <<>> THEN stack ELSE Front(stack))
              ELSE IF segs[i] = <<>> /\ (i = 1 \/ i = Len(segs) \/ ~ IsDots(segs[i - 1])) THEN stack
              ELSE Append(stack, segs[i]))

Joined(base, rel) ==
    LET segs  == split_str(rel, Slash)
        dir   == IF rel # <<>> /\ rel[1] = Slash THEN <<>>
                 ELSE SelectSeq(Front(split_str(OrRoot(base), Slash)), LAMBDA s : s # <<>>)
        stack == Fold(segs, 1, dir)
        tail  == IF stack # <<>> /\ (Last(segs) = <<>> \/ IsDots(Last(segs))) THEN <<Slash>> ELSE <<>>
        still == \A i \in DOMAIN segs : segs[i] = <<Dot>> \/ (i = Len(segs) /\ segs[i] = <<>>)
    IN  IF rel = <<>> \/ (rel[1] # Slash /\ still) THEN OrRoot(base)
        ELSE FlattenSeq([i \in DOMAIN stack |-> <<Slash>> \o stack[i]])
               \o (IF stack = <<>> THEN <<Slash>> ELSE tail)

(* What a path means: its segments, decoded, with "." and ".." resolved.   *)
Meant(path) == LET segs == split_str(path, Slash)
               IN  SelectSeq(Fold([i \in DOMAIN segs |-> percent_decode(segs[i])], 1, <<>>),
                             LAMBDA seg : seg # <<>>)
Escapes(s) == {j \in 0 .. Len(s) - 1 : IsEscape(Skip(s, j))}
WellEscaped(s) == \A j \in 0 .. Len(s) - 1 : s[j + 1] = Percent => j \in Escapes(s)

(* path_join, which edits what it has written in place, yields the path    *)
(* that its segments spell, fits the memory it allocated for it, and       *)
(* nothing of "." or ".." is left.  A path whose every % begins an escape  *)
(* is cleaned in one pass: no escape of an unreserved character is left,   *)
(* it means the same, and its query is not touched.  A link is pushed for  *)
(* the path it names, from the base if it is relative, with its query (and *)
(* what a relative one has behind it), its scheme and its authority.       *)
PathsClean ==
    /\ call.fn = "path_join" =>
         LET path == Joined(call.base, call.rel)
             q    == IF call.relq # <<>> THEN call.relq ELSE IF call.rel = <<>> THEN <<98>> ELSE <<>>
         IN  /\ call.out = WithQuery(path, q)
             /\ Len(call.out) + 1 <= JoinCapacity(call.base, <<98>>, call.rel, call.relq)
             /\ call.rel # <<>> => check_path(path)
    /\ call.fn = "rewrite_clean_path" /\ WellEscaped(call.path) =>
         LET cleaned(out, decoded(_)) ==
               LET path == SubSeq(out, 1, find(out, Question))
               IN  /\ out = WithQuery(path, call.query)
                   /\ check_path(path) /\ Meant(path) = Meant(call.path)
                   /\ \A j \in Escapes(path) : ~ decoded(Unescape(Skip(path, j)))
         IN  /\ cleaned(call.out, in_rfc3986_unreserved_chars)
             /\ cleaned(call.colon, LAMBDA c : in_rfc3986_unreserved_chars(c) \/ c = Colon)
    /\ call.fn = "construct_push_component" =>
         LET field(f)  == IF Has(call.u, f) THEN call.u[f] ELSE <<>>
             path == Joined(call.base, IF call.ok THEN OrRoot(field("path")) ELSE field("path"))
             rest == IF call.ok \/ field("query") = <<>> THEN field("query")
                     ELSE field("query") \o Part(Hash, call.u.fragment)
         IN  IF call.uri = <<>> \/ (~ call.ok /\ call.uri[1] = Slash) THEN call.out.rv = -1
             ELSE /\ call.out = [rv |-> 0, path |-> WithQuery(path, rest),
                                 scheme |-> field("schema"), authority |-> field("host")]
                  /\ check_path(path)

(***************************************************************************)
(* Routing                                                                 *)
(***************************************************************************)
Patterns == {<<Slash>>, <<Slash, 97>>, <<Slash, 97, Slash>>, <<Slash, 97, Slash, 97, Slash>>,
             <<104, Slash, 97, Slash>>}
Register(ps) == FoldLeft(LAMBDA mux, p : handle(mux, p).mux, EmptyMux, ps)

Route == \E ps \in SeqOf(Patterns, 3), s \in Texts({Slash, Dot, 97}, 4) :
    call' = [fn |-> "handler", patterns |-> ps, path |-> s,
             out |-> handler(Register(ps), "GET", <<104>>, split_path(s))]

(* The target a client ends up at after at most n redirects.               *)
RECURSIVE Follow(_, _, _)
Follow(mux, res, n) ==
    IF res.kind # "redirect" \/ n = 0 THEN res
    ELSE Follow(mux, handler(mux, "GET", <<104>>, split_path(res.to)), n - 1)

Authorities == {<<104>>, <<104, 104>>, <<104, Colon, 56>>, <<104, 104, Colon, 56>>}
Relocate == \E host \in {Absent, <<104>>, <<104, 104>>}, m \in Authorities, a \in {<<>>, <<98>>},
               q \in {Absent, <<113>>} :
    LET u == [schema |-> <<115>>, host |-> host, path |-> <<Slash>>, query |-> q, fragment |-> q]
    IN  call' = [fn |-> "rewrite_location_uri", u |-> u, host |-> m, authority |-> a,
                 out |-> rewrite_location_uri(u, m, a, <<116>>)]

(* A request reaches the callback of the longest registered pattern that   *)
(* its host and path, or else its path, match, and 404 only if there is    *)
(* none; it is redirected only from a path that is not clean to the clean  *)
(* one, or to the directory that is registered under its name, and never   *)
(* round in circles.                                                       *)
(* A location is rewritten iff its host is the one that answered, whatever *)
(* the port, and what follows the host stays.                              *)
RoutesRight ==
    /\ call.fn = "rewrite_location_uri" =>
         LET hosts == {h \in {<<104>>, <<104, 104>>} : call.host = h \/ split_hostport(call.host)[1] = h}
         IN  /\ call.out # <<>> <=> call.u.host \in hosts
             /\ call.out # <<>> => LET n == find(call.out, Slash)
                                       path == IF call.authority = <<>> THEN n ELSE n + 3
                                   IN  split_path(Skip(call.out, path)).raw_path = call.u.path
    /\ call.fn = "handler" =>
      LET ps   == Range(call.patterns)
          fits(p, path) == p = path \/ (Last(p) = Slash /\ IsPrefix(p, path))
          full == <<104>> \o call.path
          dir  == Append(call.path, Slash)
          to   == call.out.to
      IN  /\ Follow(Register(call.patterns), call.out, 4).kind # "redirect"
          /\ call.out.kind = "callback" =>
               LET path == IF fits(to, full) THEN full ELSE call.path
               IN  /\ to \in ps /\ fits(to, path)
                   /\ \A p \in ps : fits(p, path) => Len(p) <= Len(to)
                   /\ path = call.path => \A p \in ps : ~ fits(p, full)
          /\ call.out.kind = "redirect" =>
               \/ call.path # Joined(<<>>, call.path) /\ to = percent_encode_path(Joined(<<>>, call.path))
               \/ to = dir /\ {dir, Append(full, Slash)} \cap ps # {}
          /\ call.out.kind = "status" =>
               \A p \in ps : ~ fits(p, call.path) /\ ~ fits(p, full)

(***************************************************************************)
(* Headers                                                                 *)
(***************************************************************************)
(* Link parameters: their text, whether they ask for a push, or forbid it. *)
Param(text, push, forbid) == [text |-> text, push |-> push, forbid |-> forbid]
Quote == "\""
LinkParameters ==
    {Param(<<"rel", "=", "preload">>, TRUE, FALSE),
     Param(<<"rel", "=", Quote, "preload", Quote>>, TRUE, FALSE),
     Param(<<"rel", "=", Quote, "u", " ", "preload", Quote>>, TRUE, FALSE),
     Param(<<"rel", "=", "u">>, FALSE, FALSE),
     Param(<<"rel", "=", Quote, "preload", "u", Quote>>, FALSE, FALSE),
     Param(<<"anchor", "=", Quote, Quote>>, FALSE, FALSE),
     Param(<<"anchor", "=", Quote, "u", Quote>>, FALSE, TRUE),
     Param(<<"loadpolicy", "=", "u">>, FALSE, TRUE),
     Param(<<"nopush">>, FALSE, TRUE),
     Param(<<"nopush", "u">>, FALSE, FALSE),
     Param(<<"u", "=", Quote, ",", "\\", Quote, Quote>>, FALSE, FALSE),
     Param(<<" ", "u", "*", "=", "u">>, FALSE, FALSE)}

LinkText(l) == <<"<", l.uri, ">">> \o FlattenSeq([i \in DOMAIN l.params |-> <<";">> \o l.params[i].text])
LinkField(ls) == FlattenSeq([i \in DOMAIN ls |-> (IF i = 1 THEN <<>> ELSE <<",">>) \o LinkText(ls[i])])

ParseLinks == \E p \in SeqOf(LinkParameters, 2), q \in SeqOf(LinkParameters, 1) :
    LET ls == <<[uri |-> "u1", params |-> p], [uri |-> "u2", params |-> q]>>
    IN  call' = [fn |-> "parse_link_header", links |-> ls, out |-> parse_link_header(LinkField(ls))]

(* Of a well-formed Link field exactly those links are pushed that say     *)
(* preload and neither have an anchor or a load policy nor say nopush,     *)
(* whichever order their parameters are in and whatever is quoted.         *)
LinksPushed ==
    call.fn = "parse_link_header" =>
      LET wanted(l) == /\ \E i \in DOMAIN l.params : l.params[i].push
                       /\ \A i \in DOMAIN l.params : ~ l.params[i].forbid
          ls == SelectSeq(call.links, wanted)
      IN  call.out = [i \in DOMAIN ls |-> <<ls[i].uri>>]

CopyHeaders ==
    \E names \in SeqOf({"via", "forwarded", "cookie", "early-data", "x", ":path", ""}, 4),
       flags \in SUBSET {"via", "early-data"} :
    LET nva == [i \in DOMAIN names |-> [name |-> names[i], value |-> i, token |-> lookup_token(names[i])]]
    IN  call' = [fn |-> "copy_headers_to_nva", nva |-> nva, flags |-> flags,
                 out |-> copy_headers_to_nva(nva, flags)]

ReadTe == \E s \in SeqOf({"trailers", "u", ",", " "}, 5) :
    call' = [fn |-> "contains_trailers", s |-> s, out |-> contains_trailers(s)]

RECURSIVE Elements(_)
Elements(s) ==
    LET n == Span(s, LAMBDA c : c # ",")
    IN  IF n = Len(s) THEN {s} ELSE {SubSeq(s, 1, n)} \cup Elements(Drop(s, n + 1))

(* Copied headers of one name keep their order, and so do those among them *)
(* that are copied as they come; one that a proxy extends is held back and *)
(* may come later.  None that belongs to the connection, is stripped or    *)
(* was erased is among them, and of each one that a proxy extends all but  *)
(* the last are.  Looking a header up by its index or by                   *)
(* its name finds the same one.  TE allows trailers iff an element of it   *)
(* is the word.                                                            *)
FieldsKept ==
    /\ call.fn = "copy_headers_to_nva" =>
         LET of(t, nva) == SelectSeq(nva, LAMBDA h : h.token = t)
             plain(nva) == SelectSeq(nva, LAMBDA h : h.name \in {"x", "early-data"} \ call.flags)
             idx == IndexAll(call.nva, init_hdidx, 1)
         IN  /\ plain(call.out) = plain(call.nva)
             /\ \A t \in {"via", "forwarded"} :
                  of(t, call.out) = IF t \in call.flags \/ of(t, call.nva) = <<>> THEN <<>>
                                    ELSE Front(of(t, call.nva))
             /\ \A i \in DOMAIN call.out :
                  call.out[i].name \in {"x", "early-data", "via", "forwarded"} \ call.flags
             /\ \A t \in {"via", "cookie", ":path"} :
                  get_header_indexed(idx, t, call.nva) = IF of(t, call.nva) = <<>> THEN Missing
                                                         ELSE get_header(call.nva, t)
    /\ call.fn = "contains_trailers" =>
         (call.out <=> \E e \in Elements(call.s) :
                         SelectSeq(e, LAMBDA c : c # " ") = <<"trailers">>)

(***************************************************************************)
(* Numbers, times and suggestions                                          *)
(***************************************************************************)
(* The last value before an overflow by a digit or a unit, and the first.  *)
Numerals == {<<>>, <<48>>, utos(int64_max)}
              \cup {utos(int64_max \div k + d) : k \in {10, 2^10, 2^20, 2^30, 60, 3600}, d \in {0, 1}}
ParseNumber == \E n \in Numerals, t \in Texts({48, 55, 56, 103, 107, 109, 115, 72}, 2) :
    call' = [fn |-> "parse_uint", s |-> n \o t, out |-> parse_uint(n \o t),
             unit |-> parse_uint_with_unit(n \o t), duration |-> parse_duration_with_unit(n \o t)]

(* What the parser makes of a number of milliseconds or of seconds: those  *)
(* with a fraction are short, so that the shorter mantissa has the digits. *)
Durations == 0 .. 1100 \cup {s * 1000 + f : s \in {2, 59, 60, 61, 600}, f \in 0 .. 999}
               \cup {1000 * (h * 3600 + m * 60 + s) : h \in 0 .. 2, m \in {0, 1, 59}, s \in {0, 59}}
FormatDuration == \E ms \in Durations :
    LET t == IF ms % 1000 = 0 THEN NearestDouble(ms \div 1000, 1, 0) ELSE NearestDouble(ms, 1000, 0)
    IN  call' = [fn |-> "duration_str", ms |-> ms, out |-> parse_duration_with_unit(duration_str(t))]

MonthDays(y) == <<31, IF is_leap_year(y) THEN 29 ELSE 28, 31, 30, 31, 30, 31, 31, 30, 31, 30, 31>>
ReadTime == \E y \in 1970 .. 2037, m \in 0 .. 11, end \in BOOLEAN :
    LET day == IF end THEN MonthDays(y)[m + 1] ELSE 1
        tm  == [year |-> y, mon |-> m, mday |-> day, sec |-> 1,
                yday |-> FoldLeft(LAMBDA a, b : a + b, 0, SubSeq(MonthDays(y), 1, m)) + day - 1]
    IN  call' = [fn |-> "timegm", tm |-> tm, out |-> nghttp2_timegm(tm),
                 without |-> nghttp2_timegm_without_yday(tm)]

Suggest == \E a \in Texts({97, 98, 99}, 3), b \in Texts({97, 98}, 3) :
    call' = [fn |-> "levenshtein", a |-> a, b |-> b, out |-> levenshtein(a, b)]

FormatStatus == \E code \in 1 .. 1100 :
    call' = [fn |-> "stringify_status", code |-> code,
             out |-> parse_http_status_code(stringify_status(code))]

(* s without its trailing unit, when that is one letter of u.              *)
Unitless(s, u) == IF s # <<>> /\ Last(s) \in u THEN Front(s) ELSE s
AllDigits(s) == s # <<>> /\ \A i \in DOMAIN s : is_digit(s[i])

(* A numeral's value if that is at most max, else -1: numerals of the same *)
(* length are compared digit by digit, not by their values.                *)
RECURSIVE Stripped(_)
Stripped(s) == IF Len(s) > 1 /\ s[1] = 48 THEN Stripped(Tail(s)) ELSE s
AtMost(s, max) ==
    LET a == Stripped(s)
        b == utos(max)
    IN  \/ Len(a) < Len(b) \/ a = b
        \/ Len(a) = Len(b) /\ \E i \in DOMAIN a : a[i] < b[i] /\ \A j \in 1 .. i - 1 : a[j] = b[j]
Value(s, max) == IF AllDigits(s) /\ AtMost(s, max)
                 THEN FoldLeft(LAMBDA v, c : v * 10 + c - 48, 0, s) ELSE -1
Times(v, k) == IF v = -1 THEN -1 ELSE v * k

RECURSIVE Distance(_, _, _, _)
Distance(a, b, i, j) ==
    IF i = 0 THEN j ELSE IF j = 0 THEN i
    ELSE LET edits == {Distance(a, b, i - 1, j - 1) + (IF a[i] = b[j] THEN 0 ELSE 2),
                       Distance(a, b, i - 1, j) + 3, Distance(a, b, i, j - 1) + 1}
             swaps == IF i >= 2 /\ j >= 2 /\ a[i] # b[j] /\ a[i - 1] = b[j] /\ a[i] = b[j - 1]
                      THEN {Distance(a, b, i - 2, j - 2)} ELSE {}
         IN  LeastOf(edits \cup swaps)

(* Parsers of numbers return the number if it fits and -1 if it does not,  *)
(* from the last unit before the overflow to the first one after it.  A    *)
(* duration that is written and read is the same if it is of whole         *)
(* seconds, and else may be one millisecond short, as 1.001 * 1000 is less *)
(* than 1001.  Status codes survive being written and read; both ways to   *)
(* compute a time count the days of the calendar; the edit distance of     *)
(* three rolling rows is that of the full table.                           *)
NumbersExact ==
    /\ call.fn = "parse_uint" =>
         LET s == call.s
             scaled(u, k) == Times(Value(Unitless(s, u), int64_max \div k), k)
         IN  /\ call.out = Value(s, int64_max)
             /\ call.unit = IF s # <<>> /\ Last(s) = 107 THEN scaled({107}, 2^10)
                            ELSE IF s # <<>> /\ Last(s) = 109 THEN scaled({109}, 2^20)
                            ELSE IF s # <<>> /\ Last(s) = 103 THEN scaled({103}, 2^30) ELSE call.out
             /\ s # <<>> /\ Last(s) = 72 => call.duration.n = scaled({72}, 3600)
             /\ s # <<>> /\ Last(s) = 109 => call.duration.n = scaled({109}, 60)
    /\ call.fn = "duration_str" =>
         LET short == call.ms - call.out.n * (IF call.out.unit = "s" THEN 1000 ELSE 1)
         IN  short = 0 \/ (short = 1 /\ call.ms % 1000 # 0)
    /\ call.fn = "stringify_status" =>
         call.out = IF call.code \in 100 .. 999 THEN call.code ELSE -1
    /\ call.fn = "timegm" =>
         LET leap == Cardinality({y \in 1970 .. call.tm.year - 1 : is_leap_year(y)})
             days == (call.tm.year - 1970) * 365 + leap + call.tm.yday
         IN  call.out = days * 86400 + call.tm.sec /\ call.without = call.out
    /\ call.fn = "levenshtein" => call.out = Distance(call.a, call.b, Len(call.a), Len(call.b))

(***************************************************************************)
(* Codecs and memory                                                       *)
(***************************************************************************)
Encode == \E s \in Texts({0, 37, 47, 50, 126, 251, 255}, 4) :
    call' = [fn |-> "encode", s |-> s, hex |-> format_hex(s), b64 |-> base64_encode(s),
             path |-> percent_encode_path(s), all |-> percent_encode(s)]

Decode == \E s \in Texts({65, 47, Pad, 45}, 5) :
    call' = [fn |-> "base64_decode", s |-> s, out |-> base64_decode(s)]

Hosts == {<<97>>, <<97, 46, 98>>, <<Colon, Colon, 49>>, <<49, Colon, Colon>>}
FormatHost == \E host \in Hosts, port \in {1, 80, 443, 65535} :
    call' = [fn |-> "make_hostport", host |-> host, port |-> port,
             out |-> make_hostport(host, port), http |-> make_http_hostport(host, port)]

(* Every text that is encoded, or joined from a host and a port, is got    *)
(* back by the decoder that belongs to it; a decoder accepts only what its *)
(* encoder writes, up to the bits that padding leaves over.                *)
CodecsInvert ==
    /\ call.fn = "encode" =>
         /\ is_hex_string(call.hex) /\ decode_hex(call.hex) = call.s
         /\ base64_decode(call.b64) = call.s
         /\ to_base64(to_token68(call.b64)) = call.b64
         /\ percent_decode(call.path) = call.s /\ percent_decode(call.all) = call.s
    /\ call.fn = "base64_decode" /\ call.out # <<>> =>
         LET n == find(call.s, Pad)
             b == base64_encode(call.out)
         IN  Len(b) = Len(call.s) /\ find(b, Pad) = n /\ SubSeq(b, 1, n - 1) = SubSeq(call.s, 1, n - 1)
    /\ call.fn = "make_hostport" =>
         /\ split_hostport(call.out) = <<call.host, utos(call.port)>>
         /\ split_hostport(call.http)[1] = call.host
         /\ extract_host(call.out) = Bracketed(call.host)

BlockSize == 64
Isolation == 40
RECURSIVE Allocated(_, _, _)
Allocated(ops, al, regions) ==
    IF ops = <<>> THEN [al |-> al, regions |-> regions]
    ELSE LET again == Head(ops).again /\ regions # <<>>
             r == IF again THEN realloc(al, Last(regions), Head(ops).size, BlockSize, Isolation)
                  ELSE alloc(al, Head(ops).size, BlockSize, Isolation)
         IN  Allocated(Tail(ops), r.al, IF again THEN Append(Front(regions), r.region)
                                        ELSE Append(regions, r.region))

Allocate == \E ops \in SeqOf([again : BOOLEAN, size : {0, 1, 8, 9, 31, 32}], 4) :
    call' = [fn |-> "alloc", ops |-> ops, out |-> Allocated(ops, EmptyAllocator, <<>>)]

(* Regions that are in use, with the lengths in front of them, lie inside  *)
(* their blocks and do not overlap, and each is as large as was asked for. *)
RegionsDisjoint ==
    call.fn = "alloc" =>
      LET rs == call.out.regions IN
      /\ \A i \in DOMAIN rs : rs[i].from + rs[i].len <= call.out.al.blocks[rs[i].block]
      /\ \A i, j \in DOMAIN rs : i # j /\ rs[i].block = rs[j].block =>
            \/ rs[i].from + rs[i].len <= rs[j].from - SizeT
            \/ rs[j].from + rs[j].len <= rs[i].from - SizeT
      /\ call.ops # <<>> => Last(rs).len >= Last(call.ops).size

(***************************************************************************)
(* Responses                                                               *)
(***************************************************************************)
Draw == \E w \in SeqOf(0 .. 3, 4) :
    call' = [fn |-> "select_response", weights |-> w,
             out |-> [n \in 0 .. total_weight(w) - 1 |-> select_response(w, n)]]

(* Of the numbers that can be drawn, each response is chosen for as many   *)
(* as it has weight; without any weight the first one is chosen.           *)
DrawnByWeight ==
    call.fn = "select_response" =>
      \A i \in DOMAIN call.weights :
         Cardinality({n \in DOMAIN call.out : call.out[n] = i - 1})
           = IF Total(call.weights, Len(call.weights)) = 0 /\ i = 1 THEN 1 ELSE call.weights[i]

FillTemplate == \E s \in SeqOf({"a", "$", ":"}, 5), d \in {<<>>, <<"$">>, <<"$", "$">>} :
    LET tokens == tokenize_string(s, d)
    IN  call' = [fn |-> "produce_payload", s |-> s, d |-> d, tokens |-> tokens,
                 out |-> produce_payload(tokens, [i \in 1 .. Len(tokens) - 1 |-> d]),
                 header |-> produce_header(tokens, [i \in 1 .. Len(tokens) - 1 |-> d])]

Leaf(c) == Str(<<c>>)
Object(ms) == [kind |-> "object", members |-> ms]
Member(name, value) == [name |-> name, value |-> value]
Documents ==
    LET inner == Object(<<Member("a", Leaf("x")), Member("b", [kind |-> "int64"])>>)
    IN  {Object(<<>>), Object(<<Member("a", inner)>>),
         Object(<<Member("b", inner), Member("a", Leaf("y")), Member("c", inner)>>)}
Steps == [kind : {"key"}, key : {"a", "b"}]
           \cup [kind : {"nth_value", "nth_name"}, n : {-3, -2, -1, 0, 1, 3}]

(* Following a pointer step by step; "stuck" where the library asserts.    *)
RECURSIVE Stepped(_, _)
Stepped(v, p) ==
    IF p = <<>> \/ v.kind = "nullptr" THEN v
    ELSE LET s  == Head(p)
             ms == IF v.kind = "object" THEN v.members ELSE <<>>
             n  == IF s.kind = "key" THEN 0 ELSE IF s.n >= 0 THEN s.n ELSE Len(ms) + s.n + 1
         IN  IF s.kind = "key"
             THEN IF \E i \in DOMAIN ms : ms[i].name = s.key
                  THEN Stepped(ms[CHOOSE i \in DOMAIN ms : ms[i].name = s.key].value, Tail(p))
                  ELSE [kind |-> "nullptr"]
             ELSE IF v.kind # "object" THEN [kind |-> "stuck"]
             ELSE IF n \notin DOMAIN ms THEN [kind |-> "nullptr"]
             ELSE IF s.kind = "nth_name" THEN Str(ms[n].name)
             ELSE Stepped(ms[n].value, Tail(p))

FollowPointer == \E d \in Documents, p \in SeqOf(Steps, 3) :
    /\ Stepped(d, p).kind # "stuck"
    /\ call' = [fn |-> "getValueFromJsonPtr", d |-> d, p |-> p, out |-> getValueFromJsonPtr(d, p)]

CutValue == \E s \in SeqOf({"a", "b"}, 3), start \in -1 .. 4, length \in -1 .. 4 :
    call' = [fn |-> "getValue", s |-> s, start |-> start, length |-> length,
             out |-> getValue(s, FALSE, <<>>, start, length)]

(* Cutting a template at its placeholders loses nothing and misses none:   *)
(* with every placeholder put back for its value the template is there     *)
(* again, and so are name and value of a header.  A JSON pointer that is   *)
(* split at its extended steps leads where its steps lead one by one, and  *)
(* a value is cut to the part asked for if that part begins inside it.     *)
TemplatesFilled ==
    /\ call.fn = "produce_payload" =>
         /\ call.out = call.s
         /\ call.d # <<>> => \A i \in DOMAIN call.tokens : FindFrom(call.tokens[i], call.d, 0) = Npos
         /\ HeaderAccepted(call.s) => /\ call.header[1] \o <<":">> \o call.header[2] = call.s
                                      /\ FindFrom(call.header[1], <<":">>, 1) = Npos
    /\ call.fn = "getValue" =>
         LET kept == {i \in DOMAIN call.s : /\ i > call.start
                                            /\ call.length >= 0 => i <= call.start + call.length}
         IN  IF call.start \in 0 .. Len(call.s) - 1
             THEN Len(call.out) = Cardinality(kept) /\ \A i \in kept : call.out[i - call.start] = call.s[i]
             ELSE call.out = call.s
    /\ call.fn = "getValueFromJsonPtr" =>
         call.out = convertRapidVJsonValueToStr(Stepped(call.d, call.p))

Tables == {NoHeaders, [n \in {"h"} |-> "1"], [n \in {"h", "k"} |-> "2"]}
Results == [type : {"table"}, table : Tables] \cup [type : {"string"}, text : {"b"}] \cup [type : {"nil"}]
Before == [ok |-> TRUE, headers |-> [n \in {"g"} |-> "0"], trailers |-> [n \in {"t"} |-> "0"],
           body |-> "before"]
RunScript ==
    \E results \in [1 .. 2 -> Results] \cup {<<[type |-> "string", text |-> "message"]>>},
       isfunction \in BOOLEAN :
    call' = [fn |-> "update_response_with_lua", results |-> results, isfunction |-> isfunction,
             out |-> update_response_with_lua(isfunction, results, Before)]

(* What a script returns as a table is sent as headers if it is all there  *)
(* is or comes first, a second one as trailers; a body is replaced only by *)
(* a string, anything else is an error, and what the response held before  *)
(* is sent only if no script was run.                                      *)
ScriptResultsPlaced ==
    call.fn = "update_response_with_lua" =>
      LET tables == SelectSeq(call.results, LAMBDA r : r.type = "table" /\ r.table # NoHeaders)
          texts  == SelectSeq(call.results, LAMBDA r : r.type = "string")
          others == SelectSeq(call.results, LAMBDA r : r.type = "nil")
      IN  IF ~ call.isfunction THEN call.out = [Before EXCEPT !.ok = FALSE]
          ELSE /\ call.out.headers = IF tables = <<>> THEN NoHeaders ELSE tables[1].table
               /\ call.out.trailers = IF Len(tables) < 2 THEN NoHeaders ELSE tables[2].table
               /\ call.out.body = IF texts = <<>> THEN "before" ELSE texts[1].text
               /\ call.out.ok <=> others = <<>>

(***************************************************************************)
(* Protobuf                                                                *)
(***************************************************************************)
Field(name, number, type, of) ==
    [name |-> name, number |-> number, type |-> type, of |-> of,
     repeated |-> FALSE, packed |-> FALSE, oneof |-> ""]
Many(f, packed) == [f EXCEPT !.repeated = TRUE, !.packed = packed]
Type(fields, is_proto3) == [fields |-> fields, is_proto3 |-> is_proto3, is_map |-> FALSE]

(* A type with fields of every kind; a reader may know only some of them.  *)
Schema(is_proto3, packed, known) ==
    [M |-> Type({f \in {Field("a", 1, "int32", ""), Field("b", 2, "sint64", ""),
                        Many(Field("r", 3, "sint32", ""), packed), Field("s", 4, "string", ""),
                        [Field("o", 5, "uint32", "") EXCEPT !.oneof = "u"],
                        Field("sub", 6, "message", "N"), Many(Field("mp", 7, "message", "Entry"), FALSE),
                        Field("e", 17, "enum", "E")} : f.name \in known}, is_proto3),
     N |-> Type({Field("x", 1, "sfixed32", ""), Field("y", 2, "fixed64", "")}, is_proto3),
     Entry |-> [Type({Field("key", 1, "int32", ""), Field("value", 2, "string", "")}, is_proto3)
                  EXCEPT !.is_map = TRUE],
     E |-> Type({Field("ZERO", 0, "enum", ""), Field("LAST", 200, "enum", "")}, is_proto3)]

AllFields == {"a", "b", "r", "s", "o", "sub", "mp", "e"}
FieldValues ==
    [a |-> <<0, -1, 2^(W32 - 1) - 1>>, b |-> <<0, -2^(W64 - 1), 2^(W64 - 1) - 1>>,
     r |-> <<<<>>, <<0, -1, -2^(W32 - 1)>>, <<1>>>>, s |-> <<<<>>, <<0, 128>>, <<7>>>>,
     o |-> <<0, 1, 2^W32 - 1>>, sub |-> <<EmptyTable, [x |-> 0, y |-> 1], [x |-> -2]>>,
     mp |-> <<<<>>, [k \in {0, -1} |-> <<>>], [k \in {0, 300} |-> <<k % 256>>]>>,
     e |-> <<"ZERO", "LAST", "LAST">>]

(* Up to three fields, in the order they are visited in.                   *)
Orders == {o \in SeqOf(AllFields, 3) : \A i, j \in DOMAIN o : i # j => o[i] # o[j]}

Transfer == \E order \in Orders, is_proto3 \in BOOLEAN, packed \in BOOLEAN,
               known \in {AllFields, AllFields \ {"r", "sub", "o"}} :
    \E pick \in [Range(order) -> 1 .. 3] :
      LET m     == [n \in Range(order) |-> FieldValues[n][pick[n]]]
          bytes == lpb_encode(Schema(is_proto3, packed, AllFields), "M", m, order)
      IN  call' = [fn |-> "lpb_decode", m |-> m, is_proto3 |-> is_proto3, known |-> known,
                   bytes |-> bytes,
                   out |-> lpb_decode(Schema(is_proto3, ~ packed, known), "M", bytes)]

ReadVarint == \E s \in Texts({0, 1, 127, 128, 255}, MaxVarint + 1), w \in {W32, W64} :
    call' = [fn |-> "pb_readvarint", s |-> s, w |-> w, out |-> pb_readvarint(s, w)]

Defaults(m, is_proto3, of) == IF is_proto3 THEN m @@ of ELSE m
Received(m, is_proto3) ==
    LET nested(n) == IF n = "sub" THEN Defaults(m[n], is_proto3, [x |-> 0, y |-> 0]) ELSE m[n]
        sent == {n \in DOMAIN m : is_proto3 \/ n \notin {"r", "mp"} \/ m[n] # <<>>}
        zero == [a |-> 0, b |-> 0, r |-> <<>>, s |-> <<>>, mp |-> <<>>, e |-> "ZERO"]
    IN  Defaults([n \in sent |-> nested(n)], is_proto3, zero)
          @@ (IF "o" \in sent THEN [u |-> "o"] ELSE EmptyTable)

(* A table that is encoded, in whatever order its fields are visited, is   *)
(* decoded to itself, with zeros for what proto3 left out and a mark for   *)
(* the member of a oneof, also by a reader that packs differently or does  *)
(* not know all fields.  Varints of any bytes are read alike by the loop   *)
(* that looks for the end of the slice and by the one that does not, and   *)
(* the latter never leaves the slice.                                      *)
WireRoundTrip ==
    /\ call.fn = "lpb_decode" =>
         LET want == Received(call.m, call.is_proto3)
             kept == {n \in DOMAIN want : n \in call.known \/ (n = "u" /\ "o" \in call.known)}
         IN  call.out = [ok |-> TRUE, v |-> [n \in kept |-> want[n]]]
    /\ call.fn = "pb_readvarint" => call.out = pb_readvarint_slow(call.s, call.w)

Return == call # Idle /\ call' = Idle

Call == \/ JoinPath \/ NormalizePath \/ PushTarget \/ Relocate \/ Route \/ ParseLinks \/ CopyHeaders \/ ReadTe
        \/ ParseNumber \/ FormatDuration \/ ReadTime \/ Suggest \/ FormatStatus
        \/ Encode \/ Decode \/ FormatHost \/ Allocate
        \/ Draw \/ FillTemplate \/ CutValue \/ FollowPointer \/ RunScript
        \/ Transfer \/ ReadVarint

Next == (call = Idle /\ Call) \/ Return
Spec == Init /\ [][Next]_call

(***************************************************************************)
(* What the run checks, one statement per family of functions.             *)
(***************************************************************************)
(* Cleaned, joined and rewritten paths are the ones their segments spell,  *)
(* and the mux leads each of them to its longest pattern, without circles. *)
PathsRight == PathsClean /\ RoutesRight

(* The links pushed are exactly those that the field asks for, in their    *)
(* order, and the header fields forwarded those that the proxy may pass    *)
(* on, each name's in their order.                                         *)
HeadersRight == LinksPushed /\ FieldsKept

(* Numbers, times and encoded texts mean the same when read as when        *)
(* written, up to the largest value before an overflow and, of a duration, *)
(* up to its last millisecond.                                             *)
ConversionsExact == NumbersExact /\ CodecsInvert

(* A response is drawn by its weight, filled from the request and changed  *)
(* by its script without a piece being lost, repeated or put elsewhere.    *)
ResponsesRight == DrawnByWeight /\ TemplatesFilled /\ ScriptResultsPlaced
=============================================================================
