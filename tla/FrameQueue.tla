----------------------------- MODULE FrameQueue -----------------------------
(***************************************************************************)
(* What a frame ring promises its two ends: a bounded first-in first-out   *)
(* queue of whole frames.  The producer appends batches, the consumer      *)
(* takes or skips a prefix.  `taken' is the stream as the consumer has it: *)
(* one entry per frame that left the queue, in order, the frame itself or  *)
(* Skipped when it was discarded unread.                                   *)
(***************************************************************************)
EXTENDS Naturals, Sequences

CONSTANTS
    Frame,      \* what a frame can hold
    Skipped,    \* marks a position the consumer discarded
    Capacity    \* frames the queue holds

VARIABLES queue, taken

vars == <<queue, taken>>

Init == queue = <<>> /\ taken = <<>>

\* Append a batch that fits.
Push ==
    /\ \E n \in 1..(Capacity - Len(queue)) :
          \E batch \in [1..n -> Frame] : queue' = queue \o batch
    /\ UNCHANGED taken

Leaves(n, as) ==
    /\ queue' = SubSeq(queue, n + 1, Len(queue))
    /\ taken' = taken \o as

\* The consumer is given the oldest n frames.
Take == \E n \in 1..Len(queue) : Leaves(n, SubSeq(queue, 1, n))

\* The consumer skips the oldest n frames.
Skip == \E n \in 1..Len(queue) : Leaves(n, [i \in 1..n |-> Skipped])

Next == Push \/ Take \/ Skip

Spec == Init /\ [][Next]_vars

=============================================================================
