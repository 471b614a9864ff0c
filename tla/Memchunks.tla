------------------------------ MODULE Memchunks ------------------------------
(***************************************************************************)
(* The pooled chunk lists of memchunk.h: Pool, Memchunks, PeekMemchunks,   *)
(* MemchunkBuffer and limit_iovec.  Chunks are linked by their next        *)
(* pointers, in a list or in the freelist of the pool; a chunk is its      *)
(* unread bytes and the offset they start at.  Two lists and the list of   *)
(* a PeekMemchunks share a pool with a MemchunkBuffer.                     *)
(***************************************************************************)
EXTENDS Naturals, Sequences, FiniteSets, FiniteSetsExt, SequencesExt

CONSTANTS ChunkSize,    \* N of Memchunk<N>
          MaxChunks,    \* bound on the chunks the pool allocates
          Input,        \* the byte sequences that are written
          MaxCount,     \* bound on the counts asked for
          MaxBytes,     \* bound on the bytes of a list
          PeekBytes     \* bound on the bytes of the list of the PeekMemchunks

ASSUME MemchunksAssumption ==
    /\ ChunkSize \in Nat \ {0} /\ MaxChunks \in Nat /\ MaxCount \in Nat
    /\ MaxBytes \in Nat /\ PeekBytes \in Nat

Nil == 0
Chunk == 1 .. MaxChunks
List == {"a", "b", "peek"}

VARIABLES
    mem,    \* the pool and its chunks: pos, data, next, allocated, freelist, freelistsize
    list,   \* list -> [head, tail, len]
    peek,   \* the cursor of the PeekMemchunks: cur, the chunk and offset of cur_pos, len, peeking
    chunk,  \* the chunk of the MemchunkBuffer
    out     \* what the last operation handed to its caller

vars == <<mem, list, peek, chunk, out>>

Empty == [head |-> Nil, tail |-> Nil, len |-> 0]
NoPeek == [cur |-> Nil, in |-> Nil, at |-> 0, len |-> 0, peeking |-> TRUE]

Init ==
    /\ mem = [pos |-> [c \in Chunk |-> 0], data |-> [c \in Chunk |-> <<>>],
              next |-> [c \in Chunk |-> Nil], allocated |-> {}, freelist |-> Nil,
              freelistsize |-> 0]
    /\ list = [l \in List |-> Empty]
    /\ peek = NoPeek /\ chunk = Nil /\ out = <<>>

(***************************************************************************)
(* Pool: get and recycle, as functions of the memory they work on.         *)
(***************************************************************************)

left(k, c) == ChunkSize - (k.pos[c] + Len(k.data[c]))

(* The chunk that get would return, and the memory it leaves.              *)
Gets(k) == IF k.freelist # Nil THEN k.freelist
           ELSE Cardinality(k.allocated) + 1

New(k) == [k EXCEPT !.allocated = @ \cup {Gets(k)}, !.pos[Gets(k)] = 0,
                    !.data[Gets(k)] = <<>>, !.next[Gets(k)] = Nil]

get_KeepsNext(k) ==
    IF k.freelist # Nil
    THEN [k EXCEPT !.freelist = k.next[k.freelist],
                   !.freelistsize = @ - 1]
    ELSE New(k)

get(k) ==
    IF k.freelist # Nil
    THEN [k EXCEPT !.freelist = k.next[k.freelist], !.next[k.freelist] = Nil,
                   !.freelistsize = @ - 1]
    ELSE New(k)

(* What a recycled chunk still holds is forgotten here: get resets it      *)
(* before anybody can read it.                                             *)
recycle(k, c) == [k EXCEPT !.next[c] = k.freelist, !.freelist = c, !.freelistsize = @ + 1,
                           !.pos[c] = 0, !.data[c] = <<>>]

(***************************************************************************)
(* Memchunks, as functions of the memory k and one list m: the result is   *)
(* a record of both, and of the bytes that were taken.                     *)
(***************************************************************************)

RECURSIVE Chain(_, _)
Chain(k, c) == IF c = Nil THEN <<>> ELSE <<c>> \o Chain(k, k.next[c])

RECURSIVE BytesFrom(_, _)
BytesFrom(k, c) == IF c = Nil THEN <<>> ELSE k.data[c] \o BytesFrom(k, k.next[c])
Bytes(k, m) == BytesFrom(k, m.head)

(* tail->next = pool->get(); tail = tail->next                             *)
Grow(k, m) ==
    IF m.tail = Nil
    THEN [k |-> get(k), m |-> [m EXCEPT !.head = Gets(k), !.tail = Gets(k)]]
    ELSE [k |-> [get(k) EXCEPT !.next[m.tail] = Gets(k)], m |-> [m EXCEPT !.tail = Gets(k)]]

RECURSIVE Fill(_, _, _)
Fill(k, m, s) ==
    LET n  == Min({Len(s), left(k, m.tail)})
        k1 == [k EXCEPT !.data[m.tail] = @ \o SubSeq(s, 1, n)]
        m1 == [m EXCEPT !.len = @ + n]
        g  == Grow(k1, m1)
    IN  IF n = Len(s) THEN [k |-> k1, m |-> m1]
        ELSE Fill(g.k, g.m, SubSeq(s, n + 1, Len(s)))

append(k, m, s) ==
    IF s = <<>> THEN [k |-> k, m |-> m]
    ELSE IF m.tail = Nil THEN Fill(Grow(k, m).k, Grow(k, m).m, s)
    ELSE Fill(k, m, s)

(* append(char) allocates before it writes when the tail is full.          *)
appendChar(k, m, c) ==
    LET g == IF m.tail = Nil \/ (m.tail # Nil /\ left(k, m.tail) = 0)
             THEN Grow(k, m) ELSE [k |-> k, m |-> m]
    IN  [k |-> [g.k EXCEPT !.data[g.m.tail] = Append(@, c)], m |-> [g.m EXCEPT !.len = @ + 1]]

(* The loop that drain and the removes share: chunks that were emptied go  *)
(* back to the pool.                                                       *)
RECURSIVE Take(_, _, _, _)
Take(k, m, n, got) ==
    IF m.head = Nil THEN [k |-> k, m |-> [m EXCEPT !.tail = Nil], got |-> got]
    ELSE LET c  == m.head
             d  == Min({n, Len(k.data[c])})
             k1 == [k EXCEPT !.pos[c] = @ + d, !.data[c] = SubSeq(@, d + 1, Len(@))]
             m1 == [m EXCEPT !.len = @ - d]
             g1 == got \o SubSeq(k.data[c], 1, d)
         IN  IF k1.data[c] # <<>> THEN [k |-> k1, m |-> m1, got |-> g1]
             ELSE Take(recycle(k1, c), [m1 EXCEPT !.head = k.next[c]], n - d, g1)

drain(k, m, n) == Take(k, m, n, <<>>)

remove(k, m, n) ==
    IF m.tail = Nil \/ n = 0 THEN [k |-> k, m |-> m, got |-> <<>>] ELSE Take(k, m, n, <<>>)

(* remove into another list: each chunk's share is appended to dest before *)
(* the chunk is recycled.                                                  *)
RECURSIVE Pass(_, _, _, _)
Pass(k, m, dest, n) ==
    IF m.head = Nil THEN [k |-> k, m |-> [m EXCEPT !.tail = Nil], dest |-> dest]
    ELSE LET c  == m.head
             d  == Min({n, Len(k.data[c])})
             a  == append(k, dest, SubSeq(k.data[c], 1, d))
             k1 == [a.k EXCEPT !.pos[c] = @ + d, !.data[c] = SubSeq(@, d + 1, Len(@))]
             m1 == [m EXCEPT !.len = @ - d]
         IN  IF k1.data[c] # <<>> THEN [k |-> k1, m |-> m1, dest |-> a.m]
             ELSE Pass(recycle(k1, c), [m1 EXCEPT !.head = k.next[c]], a.m, n - d)

removeTo(k, m, dest, n) ==
    IF m.tail = Nil \/ n = 0 THEN [k |-> k, m |-> m, dest |-> dest] ELSE Pass(k, m, dest, n)

(* remove of everything splices the chunks to the end of dest.             *)
removeAll(k, m, dest) ==
    IF m.head = Nil THEN [k |-> k, m |-> m, dest |-> dest]
    ELSE [k |-> IF dest.tail = Nil THEN k ELSE [k EXCEPT !.next[dest.tail] = m.head],
          m |-> Empty,
          dest |-> [head |-> IF dest.tail = Nil THEN m.head ELSE dest.head,
                    tail |-> m.tail, len |-> dest.len + m.len]]

RECURSIVE CopyFrom(_, _, _)
CopyFrom(k, c, dest) ==
    IF c = Nil THEN [k |-> k, m |-> dest]
    ELSE LET a == append(k, dest, k.data[c]) IN CopyFrom(a.k, a.k.next[c], a.m)

copy(k, m, dest) == CopyFrom(k, m.head, dest)

RECURSIVE recycleAll(_, _)
recycleAll(k, c) == IF c = Nil THEN k ELSE recycleAll(recycle(k, c), k.next[c])

(* riovec and limit_iovec: the slices of the first chunks, cut to max      *)
(* bytes.                                                                  *)
riovec(k, m, iovcnt) ==
    LET s == Chain(k, m.head)
    IN  [i \in 1 .. Min({iovcnt, Len(s)}) |-> k.data[s[i]]]

RECURSIVE limit_iovec_EachVector(_, _)
limit_iovec_EachVector(iov, max) ==
    IF max = 0 \/ iov = <<>> THEN <<>>
    ELSE <<SubSeq(Head(iov), 1, Min({max, Len(Head(iov))}))>> \o limit_iovec_EachVector(Tail(iov), max)

RECURSIVE limit_iovec(_, _)
limit_iovec(iov, max) ==
    IF max = 0 \/ iov = <<>> THEN <<>>
    ELSE LET d == Min({max, Len(Head(iov))})
         IN  <<SubSeq(Head(iov), 1, d)>> \o limit_iovec(Tail(iov), max - d)

(***************************************************************************)
(* The operations                                                          *)
(***************************************************************************)

(* Bounds of the instance: bytes per list, chunks of the pool.             *)
Room(l, n) ==
    /\ list[l].len + n <= IF l = "peek" THEN PeekBytes ELSE MaxBytes
    /\ (mem.freelistsize + MaxChunks - Cardinality(mem.allocated)) * ChunkSize >= n

Counted(l, n) == IF l = "peek" THEN [peek EXCEPT !.len = @ + n] ELSE peek

DoAppend(l, s) ==
    /\ Room(l, Len(s))
    /\ LET a == append(mem, list[l], s) IN mem' = a.k /\ list' = [list EXCEPT ![l] = a.m]
    /\ peek' = Counted(l, Len(s))
    /\ out' = <<>> /\ UNCHANGED chunk

DoAppendChar(l, c) ==
    /\ l # "peek" /\ Room(l, 1)
    /\ LET a == appendChar(mem, list[l], c) IN mem' = a.k /\ list' = [list EXCEPT ![l] = a.m]
    /\ out' = <<>> /\ UNCHANGED <<peek, chunk>>

DoRemove(l, n) ==
    /\ l = "peek" => ~ peek.peeking
    /\ LET r == remove(mem, list[l], n)
       IN  /\ mem' = r.k /\ list' = [list EXCEPT ![l] = r.m] /\ out' = r.got
           /\ peek' = IF l = "peek" THEN [peek EXCEPT !.len = @ - Len(r.got)] ELSE peek
    /\ UNCHANGED chunk

DoDrain(l, n) ==
    /\ l # "peek"
    /\ LET r == drain(mem, list[l], n) IN mem' = r.k /\ list' = [list EXCEPT ![l] = r.m]
    /\ out' = <<>> /\ UNCHANGED <<peek, chunk>>

DoRemoveTo(l, d, n) ==
    /\ {l, d} = {"a", "b"} /\ Room(d, Min({n, list[l].len}))
    /\ LET r == removeTo(mem, list[l], list[d], n)
       IN  mem' = r.k /\ list' = [list EXCEPT ![l] = r.m, ![d] = r.dest]
    /\ out' = <<>> /\ UNCHANGED <<peek, chunk>>

DoRemoveAll(l, d) ==
    /\ {l, d} = {"a", "b"} /\ list[d].len + list[l].len <= MaxBytes
    /\ LET r == removeAll(mem, list[l], list[d])
       IN  mem' = r.k /\ list' = [list EXCEPT ![l] = r.m, ![d] = r.dest]
    /\ out' = <<>> /\ UNCHANGED <<peek, chunk>>

DoCopy(l, d) ==
    /\ {l, d} = {"a", "b"} /\ Room(d, list[l].len)
    /\ LET r == copy(mem, list[l], list[d]) IN mem' = r.k /\ list' = [list EXCEPT ![d] = r.m]
    /\ out' = <<>> /\ UNCHANGED <<peek, chunk>>

(* d = std::move(l): d is reset first.                                     *)
MoveAssign(l, d) ==
    /\ {l, d} = {"a", "b"}
    /\ mem' = recycleAll(mem, list[d].head)
    /\ list' = [list EXCEPT ![d] = list[l], ![l] = Empty]
    /\ out' = <<>> /\ UNCHANGED <<peek, chunk>>

(* Memchunks::reset and its destructor, PeekMemchunks::reset.              *)
Reset(l) ==
    /\ mem' = recycleAll(mem, list[l].head)
    /\ list' = [list EXCEPT ![l] = Empty]
    /\ peek' = IF l = "peek" THEN NoPeek ELSE peek
    /\ out' = <<>> /\ UNCHANGED chunk

(***************************************************************************)
(* PeekMemchunks::remove while peeking.  Reading goes on in the chunk of   *)
(* cur_pos; when that chunk was read to its end, only cur is moved on, so  *)
(* the first turn of the loop copies nothing and the second one reads the  *)
(* chunk after the next, if there is one.                                  *)
(***************************************************************************)
RECURSIVE PeekLoop(_, _, _)
PeekLoop(p, n, got) ==      \* cur_last is the end of the chunk of cur_pos
    LET d  == mem.data[p.in]
        m  == Min({n, Len(d) - p.at})
        p1 == [p EXCEPT !.at = @ + m, !.len = @ - m]
        g  == got \o SubSeq(d, p.at + 1, p.at + m)
    IN  IF m = n \/ mem.next[p1.cur] = Nil THEN [p |-> p1, got |-> g]
        ELSE LET c == mem.next[p1.cur] IN PeekLoop([p1 EXCEPT !.cur = c, !.in = c, !.at = 0], n - m, g)

(* Mutant: every call starts at the head of the list.                      *)
PeekStart_Rewinds == [peek EXCEPT !.cur = list["peek"].head, !.in = list["peek"].head, !.at = 0]

PeekStart == IF peek.cur = Nil
             THEN [peek EXCEPT !.cur = list["peek"].head, !.in = list["peek"].head, !.at = 0]
             ELSE peek

ChunkRead(p) == p.at = Len(mem.data[p.in])

(* With cur_pos at cur_last, cur goes on without cur_pos and cur_last.     *)
PeekOn(p) == IF ChunkRead(p) THEN [p EXCEPT !.cur = mem.next[p.cur]] ELSE p

(* Nothing is modelled of two calls that are undefined: cur_pos is no      *)
(* longer in cur, so that pointers into different chunks are subtracted;   *)
(* or the chunk that was read has no next one, which the code asserts.     *)
PeekRemove(n) ==
    /\ peek.peeking /\ n > 0 /\ peek.len > 0 /\ peek.cur = peek.in
    /\ ChunkRead(PeekStart) => mem.next[PeekStart.cur] # Nil
    /\ LET r == PeekLoop(PeekOn(PeekStart), n, <<>>) IN peek' = r.p /\ out' = r.got
    /\ UNCHANGED <<mem, list, chunk>>

DisablePeek(drop) ==
    /\ peek.peeking
    /\ IF drop
       THEN LET r == drain(mem, list["peek"], list["peek"].len - peek.len)
            IN  mem' = r.k /\ list' = [list EXCEPT !["peek"] = r.m]
       ELSE UNCHANGED <<mem, list>>
    /\ peek' = [NoPeek EXCEPT !.peeking = FALSE,
                              !.len = IF drop THEN peek.len ELSE list["peek"].len]
    /\ out' = <<>> /\ UNCHANGED chunk

(***************************************************************************)
(* MemchunkBuffer                                                          *)
(***************************************************************************)

EnsureChunk ==
    /\ chunk = Nil /\ mem.freelistsize + MaxChunks > Cardinality(mem.allocated)
    /\ mem' = get(mem) /\ chunk' = Gets(mem)
    /\ out' = <<>> /\ UNCHANGED <<list, peek>>

ReleaseChunk ==
    /\ chunk # Nil
    /\ mem' = recycle(mem, chunk) /\ chunk' = Nil
    /\ out' = <<>> /\ UNCHANGED <<list, peek>>

BufferWrite(s) ==
    /\ chunk # Nil
    /\ mem' = [mem EXCEPT !.data[chunk] = @ \o SubSeq(s, 1, Min({Len(s), left(mem, chunk)}))]
    /\ out' = <<>> /\ UNCHANGED <<list, peek, chunk>>

(* drain moves pos; drain_reset moves the bytes to the front instead.      *)
BufferDrain(n, front) ==
    /\ chunk # Nil
    /\ LET d == Min({n, Len(mem.data[chunk])})
       IN  mem' = [mem EXCEPT !.data[chunk] = SubSeq(@, d + 1, Len(@)),
                              !.pos[chunk] = IF front THEN 0 ELSE @ + d]
    /\ out' = <<>> /\ UNCHANGED <<list, peek, chunk>>

(* ~Pool, once nobody holds a chunk any more.                              *)
Clear ==
    /\ chunk = Nil /\ \A l \in List : list[l] = Empty
    /\ mem' = [mem EXCEPT !.freelist = Nil, !.freelistsize = 0, !.allocated = {}]
    /\ out' = <<>> /\ UNCHANGED <<list, peek, chunk>>

Next ==
    \/ \E l \in List, s \in Input : DoAppend(l, s)
    \/ \E l \in List, c \in {s[1] : s \in {t \in Input : Len(t) = 1}} : DoAppendChar(l, c)
    \/ \E l \in List, n \in 0 .. MaxCount : DoRemove(l, n) \/ DoDrain(l, n)
    \/ \E l, d \in List, n \in 0 .. MaxCount : DoRemoveTo(l, d, n)
    \/ \E l, d \in List : DoRemoveAll(l, d) \/ DoCopy(l, d) \/ MoveAssign(l, d)
    \/ \E l \in List : Reset(l)
    \/ \E n \in 1 .. MaxCount : PeekRemove(n)
    \/ \E b \in BOOLEAN : DisablePeek(b)
    \/ EnsureChunk \/ ReleaseChunk \/ Clear
    \/ \E s \in Input : BufferWrite(s)
    \/ \E n \in 0 .. MaxCount, b \in BOOLEAN : BufferDrain(n, b)

Spec == Init /\ [][Next]_vars

(***************************************************************************)
(* Properties                                                              *)
(***************************************************************************)

Reach(c) == IF c = Nil THEN {} ELSE ToSet(Chain(mem, c))
Held == [l \in List \cup {"free", "buffer"} |->
            CASE l = "free" -> Reach(mem.freelist)
              [] l = "buffer" -> {chunk} \ {Nil}
              [] OTHER -> Reach(list[l].head)]

(* Every chunk of the pool is in exactly one place: a list, the buffer or  *)
(* the freelist; none is lost and none is written by two owners.  A list   *)
(* ends at its tail, holds no empty chunk (remove asserts it) and len      *)
(* bytes, and no chunk holds more than its size.                           *)
ChunksPartitioned ==
    /\ UNION {Held[l] : l \in DOMAIN Held} = mem.allocated
    /\ \A l, d \in DOMAIN Held : l # d => Held[l] \cap Held[d] = {}
    /\ mem.freelistsize = Cardinality(Held["free"])
    /\ \A c \in mem.allocated : mem.pos[c] + Len(mem.data[c]) <= ChunkSize
    /\ \A l \in List :
         /\ list[l].len = Len(Bytes(mem, list[l]))
         /\ list[l].tail = IF list[l].head = Nil THEN Nil ELSE Last(Chain(mem, list[l].head))
         /\ \A c \in Held[l] : mem.data[c] # <<>>
    /\ peek.len <= list["peek"].len

(* The vectors a write is given are the first bytes of the list, as many   *)
(* as the limit and the number of vectors allow.                           *)
IovecsArePrefixes ==
    \A l \in List, i \in 0 .. MaxChunks, n \in 0 .. MaxCount :
      LET iov == riovec(mem, list[l], i)
          got == FlattenSeq(limit_iovec(iov, n))
      IN  /\ IsPrefix(got, Bytes(mem, list[l]))
          /\ Len(got) = Min({n, Len(FlattenSeq(iov))})
          /\ i >= Cardinality(Held[l]) => Len(FlattenSeq(iov)) = list[l].len

(* The lists are byte queues: what is read, moved or copied is what was    *)
(* written, in its order.  A peek hands out the bytes in that order too,   *)
(* except after it stopped at the end of a chunk, where the loop above     *)
(* goes on two chunks further or not at all; it takes none of them before  *)
(* it ends, and then as many as it handed out.                             *)
PeekSeen == IF peek.in = Nil THEN 0
            ELSE list["peek"].len - Len(BytesFrom(mem, peek.in)) + peek.at
Queues == INSTANCE ByteQueues
            WITH Queue <- List, Peeked <- "peek",
                 content <- [l \in List |-> Bytes(mem, list[l])],
                 seen <- PeekSeen,
                 read <- IF peek.peeking THEN list["peek"].len - peek.len ELSE 0,
                 lost <- peek.in # Nil /\ ChunkRead(peek)
IsByteQueues == Queues!Spec
=============================================================================
