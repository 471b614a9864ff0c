----------------------------- MODULE ByteQueues -----------------------------
(***************************************************************************)
(* What the buffers of memchunk.h promise: byte queues that are appended   *)
(* to at the end, taken from at the front, copied and moved into another   *)
(* one, whatever chunks they are kept in.  One of them can be peeked at:   *)
(* a cursor reads on while the bytes stay, and the peek ends by taking as  *)
(* many bytes as it read, or none.                                         *)
(***************************************************************************)
EXTENDS Naturals, Sequences, SequencesExt

CONSTANTS Queue, Input,     \* the queues; the byte sequences that are written
          Peeked            \* the queue that can be peeked at

VARIABLES content,  \* queue -> its bytes
          seen,     \* where the cursor of the peek stands
          read,     \* how many bytes the peek handed out
          lost,     \* the cursor stands where the chunks break: it need not go on there
          out       \* what the last operation handed to its caller

cursor == <<seen, read, lost>>
vars == <<content, cursor, out>>

Prefix(s, n) == SubSeq(s, 1, IF n < Len(s) THEN n ELSE Len(s))
Rest(s, n) == SubSeq(s, n + 1, Len(s))

Init == content = [q \in Queue |-> <<>>] /\ seen = 0 /\ read = 0 /\ lost = FALSE /\ out = <<>>

Write(q) == /\ \E s \in Input : content' = [content EXCEPT ![q] = @ \o s]
            /\ lost' \in {lost, lost /\ q # Peeked}
            /\ out' = <<>> /\ UNCHANGED <<seen, read>>

Read(q) == /\ q = Peeked => seen = 0
           /\ \E n \in 0 .. Len(content[q]) :
                 /\ content' = [content EXCEPT ![q] = Rest(@, n)]
                 /\ out' \in {Prefix(content[q], n), <<>>}
           /\ UNCHANGED cursor

Transfer(p, q) == /\ \E n \in 0 .. Len(content[p]) :
                       content' = [content EXCEPT ![p] = Rest(@, n), ![q] = @ \o Prefix(content[p], n)]
                  /\ out' = <<>> /\ UNCHANGED cursor

Copy(p, q) == /\ content' = [content EXCEPT ![q] = @ \o content[p]]
              /\ out' = <<>> /\ UNCHANGED cursor

(* Move assignment: what q had is dropped.                                 *)
Move(p, q) == /\ content' = [content EXCEPT ![p] = <<>>, ![q] = content[p]]
              /\ out' = <<>> /\ UNCHANGED cursor

(* The bytes after the cursor.  From where the chunks break, some of them  *)
(* may be skipped, and there may be none although more were written.       *)
Peek == /\ \E from, n \in 0 .. Len(content[Peeked]) :
              /\ from + n <= Len(content[Peeked])
              /\ IF lost THEN from >= seen ELSE from = seen /\ n > 0
              /\ out' = SubSeq(content[Peeked], from + 1, from + n)
              /\ seen' = from + n /\ read' = read + n
        /\ lost' \in BOOLEAN /\ UNCHANGED content

(* disable_peek(drain) and reset of the peeked queue.                      *)
EndPeek == /\ \E n \in {0, read, Len(content[Peeked])} :
                 content' = [content EXCEPT ![Peeked] = Rest(@, n)]
           /\ seen' = 0 /\ read' = 0 /\ lost' = FALSE /\ out' = <<>>

Next ==
    \/ \E q \in Queue : Write(q) \/ Read(q)
    \/ \E p \in Queue \ {Peeked} : \E q \in Queue \ {p, Peeked} :
          Transfer(p, q) \/ Copy(p, q) \/ Move(p, q)
    \/ Peek \/ EndPeek

Spec == Init /\ [][Next]_vars
=============================================================================
