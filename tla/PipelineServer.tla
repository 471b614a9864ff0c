---------------------------- MODULE PipelineServer ----------------------------
(***************************************************************************)
(* What one HTTP/1.1 connection promises its client, whatever threads,     *)
(* strands and callbacks produce the answers: requests may be answered or  *)
(* dropped in any order, but a batch of responses is put on the wire only  *)
(* when no older request is left waiting behind it, one batch at a time,   *)
(* and never once the connection is closed.                                *)
(***************************************************************************)
EXTENDS Naturals, Sequences, Functions

CONSTANT MaxRequests   \* bound: requests received on the connection

VARIABLES
    count,      \* requests received so far
    open,       \* requests not answered yet
    answered,   \* requests whose answer is not being written yet
    batch,      \* the responses being written
    wire,       \* the responses written
    closed      \* nothing more will be written

vars == <<count, open, answered, batch, wire, closed>>

TypeOK ==
    /\ count \in 0..MaxRequests
    /\ open \in SUBSET (1..MaxRequests)
    /\ answered \in SUBSET (1..MaxRequests)
    /\ batch \in Seq(1..MaxRequests)
    /\ wire \in Seq(1..MaxRequests)
    /\ closed \in BOOLEAN

Init ==
    /\ count = 0
    /\ open = {}
    /\ answered = {}
    /\ batch = << >>
    /\ wire = << >>
    /\ closed = FALSE

Receive ==
    /\ count < MaxRequests
    /\ count' = count + 1
    /\ open' = open \cup {count + 1}
    /\ UNCHANGED <<answered, batch, wire, closed>>

Answer(i) ==
    /\ open' = open \ {i}
    /\ answered' = answered \cup {i}
    /\ UNCHANGED <<count, batch, wire, closed>>

Drop(i) ==
    /\ open' = open \ {i}
    /\ UNCHANGED <<count, answered, batch, wire, closed>>

Batches == UNION {[1..n -> answered] : n \in 0..MaxRequests}

\* b lists answered requests oldest first and overtakes nobody.
MayWrite(b) ==
    /\ \A j, k \in DOMAIN b : j < k => b[j] < b[k]
    /\ \A i \in Range(b), j \in open : i < j
    /\ \A i \in Range(b), j \in answered \ Range(b) : i < j

\* The batch being written, if any, is done; b is written next.
Flush(b) ==
    /\ b # << >> => ~closed
    /\ MayWrite(b)
    /\ wire' = wire \o batch
    /\ batch' = b
    /\ answered' = answered \ Range(b)
    /\ closed' \in {closed, TRUE}
    /\ UNCHANGED <<count, open>>

\* The connection ends; the batch being written may be lost.
Close ==
    /\ closed' = TRUE
    /\ batch' \in {batch, << >>}
    /\ UNCHANGED <<count, open, answered, wire>>

Next ==
    \/ Receive
    \/ \E i \in open : Answer(i) \/ Drop(i)
    \/ \E b \in Batches : Flush(b)
    \/ Close

Spec == Init /\ [][Next]_vars
=============================================================================
