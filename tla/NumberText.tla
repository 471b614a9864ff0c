------------------------------ MODULE NumberText ------------------------------
(***************************************************************************)
(* Conversions between numbers, bytes, times and text (util.cc, base64.h,  *)
(* timegm.c), and the block allocator that the texts are written to        *)
(* (allocator.h).  Characters are their codes.                             *)
(***************************************************************************)
EXTENDS UriText

CONSTANTS int64_max,    \* the largest int64_t; instances use a smaller one
          DoubleBits    \* the bits of a double's mantissa, 53; instances use fewer
ASSUME NumberAssumption ==
    /\ int64_max \in Nat /\ int64_max >= 9
    /\ DoubleBits \in Nat /\ DoubleBits >= 2

(***************************************************************************)
(* Decimal numbers.  A failed parse is -1.                                 *)
(***************************************************************************)
Least(m, n) == IF m <= n THEN m ELSE n

RECURSIVE utos(_)
utos(n) == IF n < 10 THEN <<48 + n>> ELSE Append(utos(n \div 10), 48 + (n % 10))

RECURSIVE DigitsFrom(_, _, _)
DigitsFrom(s, i, n) ==
    IF i > Len(s) \/ ~ is_digit(s[i]) THEN IF i = 1 THEN <<-1, 0>> ELSE <<n, i - 1>>
    ELSE LET d == s[i] - 48 IN
      IF n > int64_max \div 10 THEN <<-1, 0>>
      ELSE IF n * 10 > int64_max - d THEN <<-1, 0>>
      ELSE DigitsFrom(s, i + 1, n * 10 + d)

(* The number and how many digits it has.                                  *)
parse_uint_digits(s) == DigitsFrom(s, 1, 0)

parse_uint(s) ==
    LET r == parse_uint_digits(s) IN IF r[1] = -1 \/ r[2] # Len(s) THEN -1 ELSE r[1]

Letter(c) == upcase(c)
Unit(c) == CASE Letter(c) = 75 -> 2^10 [] Letter(c) = 77 -> 2^20 [] Letter(c) = 71 -> 2^30
             [] OTHER -> 0

parse_uint_with_unit_Unchecked(s) ==
    LET r == parse_uint_digits(s) IN
    IF r[1] = -1 THEN -1
    ELSE IF r[2] = Len(s) THEN r[1]
    ELSE IF r[2] + 1 # Len(s) \/ Unit(Last(s)) = 0 THEN -1
    ELSE (r[1] % (int64_max \div Unit(Last(s)) + 1)) * Unit(Last(s))

parse_uint_with_unit(s) ==
    LET r == parse_uint_digits(s) IN
    IF r[1] = -1 THEN -1
    ELSE IF r[2] = Len(s) THEN r[1]
    ELSE IF r[2] + 1 # Len(s) \/ Unit(Last(s)) = 0 THEN -1
    ELSE IF r[1] > int64_max \div Unit(Last(s)) THEN -1
    ELSE r[1] * Unit(Last(s))

(* A duration is a number of units; infinity is no duration at all.        *)
Infinity == [n |-> -1, unit |-> "none"]
parse_duration_with_unit(s) ==
    LET r == parse_uint_digits(s)
        u == [i \in 1 .. Len(s) - r[2] |-> Letter(s[r[2] + i])]
    IN  IF r[1] = -1 THEN Infinity
        ELSE IF u = <<>> \/ u = <<83>> THEN [n |-> r[1], unit |-> "s"]
        ELSE IF u = <<77>> /\ r[1] <= int64_max \div 60 THEN [n |-> r[1] * 60, unit |-> "s"]
        ELSE IF u = <<77, 83>> THEN [n |-> r[1], unit |-> "ms"]
        ELSE IF u = <<72>> /\ r[1] <= int64_max \div 3600 THEN [n |-> r[1] * 3600, unit |-> "s"]
        ELSE Infinity

(* A double is m * 2^e, with DoubleBits bits in m unless it is zero.       *)
(* NearestDouble is the one nearest to num / den * 2^e, ties to even.      *)
RECURSIVE NearestDouble(_, _, _)
NearestDouble(num, den, e) ==
    IF num = 0 THEN [m |-> 0, e |-> 0]
    ELSE IF num \div den >= 2^DoubleBits THEN NearestDouble(num, 2 * den, e + 1)
    ELSE IF num \div den < 2^(DoubleBits - 1) THEN NearestDouble(2 * num, den, e - 1)
    ELSE LET q == num \div den
             r == 2 * (num % den)
         IN  [m |-> IF r > den \/ (r = den /\ q % 2 = 1) THEN q + 1 ELSE q, e |-> e]

Multiplied(d, n) == NearestDouble(d.m * n, 1, d.e)
Truncated(d) == IF d.e >= 0 THEN d.m * 2^d.e ELSE d.m \div 2^(-d.e)

(* t is a double of seconds, and so is its product with 1000: both are     *)
(* truncated, the product in milliseconds.                                 *)
duration_str(t) ==
    LET ms == Truncated(Multiplied(t, 1000))
        v  == Truncated(t)
    IN  IF t.m = 0 THEN <<48>>
        ELSE IF ms % 1000 > 0 THEN utos(ms) \o <<109, 115>>
        ELSE IF v % 60 # 0 THEN Append(utos(v), 115)
        ELSE IF (v \div 60) % 60 # 0 THEN Append(utos(v \div 60), 109)
        ELSE Append(utos(v \div 3600), 104)

(***************************************************************************)
(* Hexadecimal and base64                                                  *)
(***************************************************************************)
LOWER_XDIGITS(n) == IF n < 10 THEN 48 + n ELSE 97 + n - 10
format_hex(s) ==
    FlattenSeq([i \in DOMAIN s |-> <<LOWER_XDIGITS(s[i] \div 16), LOWER_XDIGITS(s[i] % 16)>>])
is_hex_string(s) == Len(s) % 2 = 0 /\ \A i \in DOMAIN s : is_hex_digit(s[i])
decode_hex(s) == [i \in 1 .. Len(s) \div 2 |-> hex_to_uint(s[2 * i - 1]) * 16 + hex_to_uint(s[2 * i])]

B64_CHARS(n) == IF n < 26 THEN 65 + n ELSE IF n < 52 THEN 97 + n - 26
                ELSE IF n < 62 THEN 48 + n - 52 ELSE IF n = 62 THEN 43 ELSE Slash
INDEX_TABLE(c) == IF \E n \in 0 .. 63 : B64_CHARS(n) = c
                  THEN CHOOSE n \in 0 .. 63 : B64_CHARS(n) = c ELSE -1
Pad == 61

Sextets(n) == <<n \div 2^18, (n \div 2^12) % 64, (n \div 2^6) % 64, n % 64>>
Group(s) == LET n == FoldLeft(LAMBDA a, b : a * 256 + b, 0, [i \in 1 .. 3 |-> IF i <= Len(s) THEN s[i] ELSE 0])
            IN  [i \in 1 .. 4 |-> IF i <= Len(s) + 1 THEN B64_CHARS(Sextets(n)[i]) ELSE Pad]

RECURSIVE base64_encode(_)
base64_encode(s) == IF s = <<>> THEN <<>>
                    ELSE Group(SubSeq(s, 1, Least(3, Len(s)))) \o base64_encode(SubSeq(s, 4, Len(s)))

(* The bytes of a group of four characters; last tells whether it may be   *)
(* padded.  A group that is neither complete nor properly padded is bad.   *)
BadGroup == <<-1>>
Octets(g, last) ==
    LET idx == [i \in 1 .. 4 |-> INDEX_TABLE(g[i])]
        n   == FoldLeft(LAMBDA a, b : a * 64 + b, 0, [i \in 1 .. 4 |-> IF idx[i] = -1 THEN 0 ELSE idx[i]])
        all == <<n \div 2^16, (n \div 2^8) % 256, n % 256>>
    IN  IF idx[1] = -1 \/ idx[2] = -1 THEN BadGroup
        ELSE IF idx[3] = -1 THEN IF last /\ g[3] = Pad /\ g[4] = Pad THEN SubSeq(all, 1, 1) ELSE BadGroup
        ELSE IF idx[4] = -1 THEN IF last /\ g[4] = Pad THEN SubSeq(all, 1, 2) ELSE BadGroup
        ELSE all

(* After a bad group the result is empty, whatever came before it.         *)
base64_decode(s) ==
    LET groups == [i \in 1 .. Len(s) \div 4 |->
                     Octets(SubSeq(s, 4 * i - 3, 4 * i), 4 * i = Len(s))]
    IN  IF Len(s) % 4 # 0 \/ \E i \in DOMAIN groups : groups[i] = BadGroup THEN <<>>
        ELSE FlattenSeq(groups)

to_token68(s) ==
    LET n == find(s, Pad)
    IN  [i \in 1 .. n |-> IF s[i] = 43 THEN 45 ELSE IF s[i] = Slash THEN 95 ELSE s[i]]
to_base64(s) ==
    [i \in DOMAIN s |-> IF s[i] = 45 THEN 43 ELSE IF s[i] = 95 THEN Slash ELSE s[i]]
      \o (IF Len(s) % 4 = 0 THEN <<>> ELSE [i \in 1 .. 4 - (Len(s) % 4) |-> Pad])

(***************************************************************************)
(* Lists and host:port                                                     *)
(***************************************************************************)
RECURSIVE split_str(_, _)
split_str(s, delim) ==
    LET n == find(s, delim)
    IN  IF n = Len(s) THEN <<s>>
        ELSE <<SubSeq(s, 1, n)>> \o split_str(Skip(s, n + 1), delim)

ipv6_numeric_addr(host) == Cardinality({i \in DOMAIN host : host[i] = Colon}) >= 2
Bracketed(host) == IF ipv6_numeric_addr(host) THEN <<91>> \o host \o <<93>> ELSE host
make_hostport(host, port) == Bracketed(host) \o <<Colon>> \o utos(port)
make_http_hostport(host, port) ==
    IF port \notin {80, 443} THEN make_hostport(host, port) ELSE Bracketed(host)

NoHost == <<<<>>, <<>>>>
split_hostport(s) ==
    LET e == find(s, 93)                   \* ]
        n == find(s, Colon)
    IN  IF s = <<>> THEN NoHost
        ELSE IF s[1] = 91
        THEN IF e = Len(s) THEN NoHost
             ELSE IF e + 1 = Len(s) THEN <<SubSeq(s, 2, e), <<>>>>
             ELSE IF s[e + 2] # Colon \/ e + 2 = Len(s) THEN NoHost
             ELSE <<SubSeq(s, 2, e), Skip(s, e + 2)>>
        ELSE IF n = 0 \/ n + 1 = Len(s) THEN NoHost
        ELSE <<SubSeq(s, 1, n), Skip(s, n + 1)>>

extract_host(s) ==
    LET e == find(s, 93) IN
    IF s[1] = 91
    THEN IF e = Len(s) \/ (e + 1 < Len(s) /\ s[e + 2] # Colon) THEN <<>> ELSE SubSeq(s, 1, e + 1)
    ELSE SubSeq(s, 1, find(s, Colon))

(***************************************************************************)
(* Times: a record of year, mon (from 0), mday, yday (from 0) and sec.     *)
(***************************************************************************)
count_leap_year(y) == (y - 1) \div 4 - (y - 1) \div 100 + (y - 1) \div 400
is_leap_year(y) == y % 4 = 0 /\ (y % 100 # 0 \/ y % 400 = 0)
daysum == <<0, 31, 59, 90, 120, 151, 181, 212, 243, 273, 304, 334>>

YearStart(y) == (y - 1970) * 365 + count_leap_year(y) - count_leap_year(1970)
nghttp2_timegm(tm) ==
    IF tm.mon > 11 THEN -1 ELSE (YearStart(tm.year) + tm.yday) * 86400 + tm.sec
nghttp2_timegm_without_yday(tm) ==
    IF tm.mon > 11 THEN -1
    ELSE LET days == YearStart(tm.year) + daysum[tm.mon + 1] + tm.mday - 1
         IN  (IF tm.mon >= 2 /\ is_leap_year(tm.year) THEN days + 1 ELSE days) * 86400 + tm.sec

(***************************************************************************)
(* Suggestions for a misspelt option                                       *)
(***************************************************************************)
(* One row of the table: row1 is the row before, row2 the one before that. *)
RECURSIVE Row(_, _, _, _, _, _)
Row(a, b, i, row1, row2, row) ==
    LET j    == Len(row)                            \* row[j] is column j - 1
        sub  == row1[j] + (IF a[i] = b[j] THEN 0 ELSE 2)
        swap == IF i >= 2 /\ j >= 2 /\ a[i] # b[j] /\ a[i - 1] = b[j] /\ a[i] = b[j - 1]
                THEN Least(sub, row2[j - 1]) ELSE sub
    IN  IF j > Len(b) THEN row
        ELSE Row(a, b, i, row1, row2,
                 Append(row, Least(swap, Least(row1[j + 1] + 3, row[j] + 1))))

RECURSIVE Rows(_, _, _, _, _)
Rows(a, b, i, row1, row2) ==
    IF i > Len(a) THEN row1[Len(b) + 1]
    ELSE Rows(a, b, i + 1, Row(a, b, i, row1, row2, <<i>>), row1)

(* With the costs of the only call: swap 0, substitute 2, add 1, delete 3. *)
levenshtein(a, b) ==
    LET first == [j \in 1 .. Len(b) + 1 |-> j - 1] IN Rows(a, b, 1, first, [j \in 1 .. Len(b) + 1 |-> 0])

(* The options that are shown for one that is unknown, without its -s.     *)
show_candidates(opt, options) ==
    LET prefix == {o \in options : IsPrefix(opt, o)}
        suffix == {o \in options \ prefix : Len(opt) >= 3 /\ IsSuffix(opt, o)}
        sim(o) == IF o \in prefix \cup suffix THEN 0 ELSE levenshtein(opt, o)
        best   == {o \in options : \A p \in options : sim(o) <= sim(p)}
    IN  IF opt = <<>> \/ opt \in options \/ Cardinality(prefix) = 1 THEN {}
        ELSE {o \in best : sim(o) <= 6}

(***************************************************************************)
(* The block allocator.  A region is [block, from, to) and is preceded by  *)
(* its length; blocks start 16 byte aligned.                               *)
(***************************************************************************)
SizeT == 8
AlignUp(n) == ((n + 15) \div 16) * 16

(* head 0 is no block; last and end are offsets in the head block.         *)
EmptyAllocator == [head |-> 0, blocks |-> <<>>, last |-> 0]

alloc_ForgetsLength(al, size, block_size, isolation) ==
    IF size + SizeT >= isolation
    THEN LET len == LongerOf(16, size)
         IN  [al |-> [al EXCEPT !.blocks = Append(@, len + SizeT)],
              region |-> [block |-> Len(al.blocks) + 1, from |-> SizeT, len |-> len]]
    ELSE LET fresh == al.head = 0 \/ al.blocks[al.head] - al.last < size
             al1   == IF fresh
                      THEN [head |-> Len(al.blocks) + 1, blocks |-> Append(al.blocks, block_size), last |-> 0]
                      ELSE al
             from  == al1.last + SizeT
         IN  [al |-> [al1 EXCEPT !.last = AlignUp(from + size)],
              region |-> [block |-> al1.head, from |-> from, len |-> size]]

alloc(al, size, block_size, isolation) ==
    IF size + SizeT >= isolation
    THEN LET len == LongerOf(16, size)
         IN  [al |-> [al EXCEPT !.blocks = Append(@, len + SizeT)],
              region |-> [block |-> Len(al.blocks) + 1, from |-> SizeT, len |-> len]]
    ELSE LET fresh == al.head = 0 \/ al.blocks[al.head] - al.last < size + SizeT
             al1   == IF fresh
                      THEN [head |-> Len(al.blocks) + 1, blocks |-> Append(al.blocks, block_size), last |-> 0]
                      ELSE al
             from  == al1.last + SizeT
         IN  [al |-> [al1 EXCEPT !.last = AlignUp(from + size)],
              region |-> [block |-> al1.head, from |-> from, len |-> size]]

realloc(al, region, size, block_size, isolation) ==
    IF size <= region.len THEN [al |-> al, region |-> region]
    ELSE alloc(al, LongerOf(size + 1, region.len * 2), block_size, isolation)
=============================================================================
