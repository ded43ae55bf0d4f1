---------------------------- MODULE MCStreamLink ----------------------------
(* TLC instances of StreamLink. *)
EXTENDS StreamLink

None0 == [changes |-> 0, controls |-> 0, syncs |-> 0, telemetry |-> 0,
          faults |-> 0, stops |-> 0, other |-> FALSE]

Stories ==
    {[None0 EXCEPT !.changes = 2, !.telemetry = 1],
     [None0 EXCEPT !.controls = 2, !.syncs = 1],
     [None0 EXCEPT !.changes = 1, !.faults = 1],
     [None0 EXCEPT !.stops = 1, !.faults = 1],
     [None0 EXCEPT !.other = TRUE]}
=============================================================================
