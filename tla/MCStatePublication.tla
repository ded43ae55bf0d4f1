------------------------ MODULE MCStatePublication ------------------------
(* TLC instances of StatePublication: what a behaviour may hold. *)
EXTENDS StatePublication

Holding(changes, builds, faults, restarts) ==
    [changes |-> changes, builds |-> builds, faults |-> faults, overtakes |-> 0,
     restarts |-> restarts, early |-> FALSE]
Overtaking(changes, builds, restarts) ==
    [Holding(changes, builds, 0, restarts) EXCEPT !.overtakes = 1]

\* Two changes; a change, a fault or a datagram that overtakes, and a restart; a
\* recompute with a change, and one with a fault; an early restart.
Mixed == {Holding(2, 0, 0, 0), Holding(1, 0, 1, 1), Overtaking(1, 0, 1),
          Holding(1, 1, 0, 0), Holding(0, 1, 1, 0), Overtaking(0, 1, 0),
          [Holding(1, 0, 0, 1) EXCEPT !.early = TRUE]}

\* A recompute, and one datagram lost.
LostFlag == {Holding(0, 1, 1, 0)}
=============================================================================
