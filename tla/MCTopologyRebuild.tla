------------------------- MODULE MCTopologyRebuild -------------------------
(* TLC instances of TopologyRebuild. *)
EXTENDS TopologyRebuild, TLC

\* Recompute threads are interchangeable.
Symmetric == Permutations(Workers)

\* A thread's locals while it still reads them: what an ended thread held
\* tells two states apart for nobody.
Held(t) ==
    CASE pc[t] \in {"idle", "off", "sweep"} /\ t # "follower" -> <<>>
      [] pc[t] \in {"take", "request", "ask", "busy", "queue", "record", "plan"} ->
            <<own[t].gridOnly, own[t].rebuild, own[t].owed>>
      [] pc[t] \in {"takeHint", "effects"} -> <<own[t].offered, own[t].rebuild>>
      [] pc[t] = "taken" -> <<own[t].grid, own[t].offered, own[t].rebuild>>
      [] pc[t] \in {"takeLive", "lock", "recordLock", "adopted", "inFlight"} ->
            <<own[t].grid, own[t].gridOnly, own[t].rebuild>>
      [] pc[t] \in {"planGrid", "claim", "spawn", "start"} ->
            <<own[t].plan, own[t].gridOnly>>
      [] pc[t] = "build" -> <<own[t].plan, own[t].gridOnly, own[t].base>>
      [] OTHER -> <<own[t].owed>>

\* A bound on what is explored: a listener, a failure, a panic or a refusal comes
\* in shorter stories.
Stories == ~Undisturbed => live.sets <= 1 /\ spent.hints + spent.claims <= 2

View == <<live, control, installed, byHost, follower, pc, spent,
          [t \in Threads |-> Held(t)]>>
=============================================================================
