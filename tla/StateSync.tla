----------------------------- MODULE StateSync -----------------------------
(* What a client knows of the state it holds (Studio's osc/state_sync.rs):   *)
(* the count of the last publication it received, the parts of a snapshot    *)
(* still arriving, and whether something went missing.  A count wraps, and   *)
(* is compared for equality only.                                            *)
EXTENDS Integers

CONSTANTS
    CountSize,    \* the counts are 0 .. CountSize - 1
    Parts,        \* the datagrams a snapshot splits into
    None          \* no count

ASSUME CountAssumption ==
    CountSize \in Nat \ {0, 1} /\ None \notin 0 .. CountSize - 1
ASSUME PartsAssumption == Parts \in Nat \ {0}

Count == 0 .. CountSize - 1
Part == 1 .. Parts

\* Mutant: the count is not wrapped.
Following_Unbounded(count) == count + 1

Following(count) == (count + 1) % CountSize

Sync == [held : Count \cup {None}, gen : Count \cup {None},
         seen : SUBSET Part, stale : BOOLEAN]

\* Nothing was received yet.
Fresh == [held |-> None, gen |-> None, seen |-> {}, stale |-> FALSE]

\* A snapshot still missing parts is given up: they are lost.
Abandon(s) ==
    [s EXCEPT !.gen = None, !.seen = {}, !.stale = @ \/ s.seen # {}]

\* An update: the next one in sequence, or something was missed.  Before the
\* first snapshot there is nothing to be behind of.
OnUpdate(s, count) ==
    LET left == Abandon(s)
    IN  IF s.held = None THEN left
        ELSE [left EXCEPT !.held = count,
                          !.stale = @ \/ Following(s.held) # count]

\* Mutant: the part that carries snapshot_complete completes it.
OnPart_LastCompletes(s, count, part) ==
    IF part = Parts
    THEN [held |-> count, gen |-> None, seen |-> {}, stale |-> FALSE]
    ELSE [held |-> count, gen |-> count, seen |-> {part}, stale |-> s.stale]

\* A datagram of a snapshot.  Every part in: the client is current.  The last
\* one with an earlier one missing: that one is lost.
OnPart(s, count, part) ==
    LET base == IF s.gen # count THEN Abandon(s) ELSE s
        seen == base.seen \cup {part}
    IN  IF seen = Part
        THEN [held |-> count, gen |-> None, seen |-> {}, stale |-> FALSE]
        ELSE IF part = Parts
        THEN [held |-> count, gen |-> None, seen |-> {}, stale |-> TRUE]
        ELSE [held |-> count, gen |-> count, seen |-> seen,
              stale |-> base.stale]

\* Mutant: the count acknowledged is taken over.
OnAck_Adopts(s, count) ==
    [Abandon(s) EXCEPT !.held = IF @ = None THEN None ELSE count]

\* The count a heartbeat's acknowledgement carries.
OnAck(s, count) ==
    LET left == Abandon(s)
    IN  [left EXCEPT !.stale = @ \/ s.held \notin {None, count}]

\* The client takes what it holds for the engine's state at this count.
Current(s, count) == s.held = count /\ s.seen = {} /\ ~s.stale
=============================================================================
