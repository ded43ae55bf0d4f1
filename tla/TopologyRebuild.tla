-------------------------- MODULE TopologyRebuild --------------------------
(* How the render topology is rebuilt while the audio plays: the OSC        *)
(* listener, the recompute threads it spawns and the renderer's own layout   *)
(* follower share one control, its two flags `recomputing' and               *)
(* `recompute_pending', and the grid requests                                *)
(* (osc/recompute.rs, evaluation_grid.rs, layout_follower.rs).               *)
(*                                                                         *)
(* A thread is a program counter and its locals; an action is one access to *)
(* what other threads see.  What a lock covers is one action.                *)
EXTENDS Integers

CONSTANTS
    Grids, FirstGrid,    \* the grids of a stream's bridge; the built one
    Negative,            \* those that render positions below the floor
    None,                \* no request, no pair of topologies
    Workers,             \* recompute threads that can be alive together
    Started,             \* the listener runs from the start
    MaxEdits,            \* bounds: layout edits,
    MaxHints,            \*   hints offered,
    MaxSwitches,         \*   source switches and forced-grid edits,
    MaxSets,             \*   BRIR sets landing or leaving,
    MaxFailures,         \*   builds that fail,
    MaxPanics,           \*   builds of the follower that panic,
    MaxRefusals,         \*   rebuilds the backend has no plan for,
    MaxClaims            \*   starts and stops of the listener

ASSUME GridsAssumption == 
    FirstGrid \in Grids /\ Negative \subseteq Grids /\ None \notin Grids
ASSUME BoundsAssumption ==
    /\ Started \in BOOLEAN
    /\ {MaxEdits, MaxHints, MaxSwitches, MaxSets, MaxFailures, MaxPanics,
        MaxRefusals, MaxClaims} \subseteq Nat

VARIABLES
    live,         \* what the live params and the editable layout ask for
    geometry,     \* RendererControl::geometry_generation
    layoutKey,    \* RendererControl::render_layout_key: the last plan's
    requests,     \* GridRequests
    active,       \* RendererControl::topology, the one in force
    installed,    \* the grid of the bands the speaker stage renders
    recomputing,
    pending,      \* recompute_pending
    byHost,       \* relayout_by_host: the listener owns the rebuilds
    asked,        \* the follower's channel holds its one request
    seen,         \* LayoutFollower::last_seen
    pc, own,      \* each thread's place and locals
    spent         \* what the bounds count

control == <<geometry, layoutKey, requests, active, recomputing, pending>>
follower == <<asked, seen>>
threads == <<pc, own>>
vars == <<live, control, installed, byHost, follower, threads, spent>>

Threads == {"listener", "follower"} \cup Workers
\* The layout the render pans onto: a BRIR set's loudspeakers while one is in
\* use, the editable layout otherwise.
LayoutOf(key, edits) == <<key, IF key = 0 THEN edits ELSE 0>>
WantedLayout == LayoutOf(live.wanted, live.edits)

Outdated == live.wanted # layoutKey
HintPending == requests.offered # requests.taken

\* The gain models a backend builds for a layout, keeping negative z or not.
ModelFor(layout, grid) == <<layout, grid \in Negative>>

Init ==
    /\ live = [edits |-> 0, applied |-> 0, wanted |-> 0, sets |-> 0,
               source |-> "bridge", bridgeHint |-> FirstGrid,
               grid |-> FirstGrid]
    /\ geometry = 0 /\ layoutKey = 0
    /\ requests = [hint |-> FirstGrid, offered |-> 0, taken |-> 0,
                   requested |-> None, latest |-> 0, pair |-> None,
                   gridOnly |-> FALSE]
    /\ active = [id |-> 0, layout |-> <<0, 0>>, geometry |-> 0,
                 model |-> ModelFor(<<0, 0>>, FirstGrid),
                 grid |-> FirstGrid, generation |-> 0]
    /\ installed = FirstGrid
    /\ recomputing = FALSE /\ pending = FALSE
    /\ byHost = Started
    /\ asked = FALSE /\ seen = <<>>
    /\ pc = [t \in Threads |->
                IF t = "listener" /\ Started THEN "idle" ELSE "off"]
    /\ own = [t \in Threads |->
                [gridOnly |-> FALSE, rebuild |-> FALSE, owed |-> FALSE,
                 offered |-> 0, grid |-> FirstGrid, base |-> active,
                 plan |-> [layout |-> <<0, 0>>, geometry |-> 0,
                           grid |-> FirstGrid, generation |-> 0]]]
    /\ spent = [edits |-> 0, hints |-> 0, switches |-> 0, failures |-> 0,
                panics |-> 0, refusals |-> 0, claims |-> 0, built |-> 0]

Goto(t, label) == pc' = [pc EXCEPT ![t] = label]
At(t, label) == pc[t] = label
Spend(what, bound) ==
    /\ spent[what] < bound
    /\ spent' = [spent EXCEPT ![what] = @ + 1]

\* Where a thread stands once its request is dealt with.
Rest(t) == IF t = "listener" THEN "idle" ELSE "off"
\* Where the follower goes once it decided whether to rebuild; a host is done.
Decided(t, rebuild) ==
    IF t # "follower" THEN Rest(t) ELSE IF rebuild THEN "plan" ELSE "ended"

-----------------------------------------------------------------------------
(* The render thread, and what happens to the renderer around it. *)

\* A frame of a stream whose bridge hints another grid.
Offer(g) ==
    /\ g # requests.hint
    /\ Spend("hints", MaxHints)
    /\ requests' = [requests EXCEPT !.hint = g, !.offered = @ + 1]
    /\ UNCHANGED <<live, geometry, layoutKey, active, installed, recomputing,
                   pending, byHost, follower, threads>>

\* A BRIR set becomes the layout of the headphone render, or no longer is.
LandSet(on) ==
    /\ live.sets < MaxSets
    /\ live' = [live EXCEPT !.sets = @ + 1,
                            !.wanted = IF on THEN live.sets + 1 ELSE 0]
    /\ live'.wanted # live.wanted
    /\ UNCHANGED <<control, installed, byHost, follower, threads, spent>>

\* Its thread is there to be asked.
FollowerLives == pc["follower"] # "dead"

\* Mutant: the fingerprint leaves the sets out.
Poll_Blind ==
    LET now == <<0, layoutKey, byHost, requests.offered>>
    IN  /\ seen # now /\ seen' = now
        /\ asked' = (FollowerLives
                        /\ (asked \/ (~byHost /\ (Outdated \/ HintPending))))
        /\ UNCHANGED <<live, control, installed, byHost, threads, spent>>

\* Once per frame: ask the follower when what it watches moved.
Poll ==
    LET now == <<live.sets, layoutKey, byHost, requests.offered>>
    IN  /\ seen # now /\ seen' = now
        /\ asked' = (FollowerLives
                        /\ (asked \/ (~byHost /\ (Outdated \/ HintPending))))
        /\ UNCHANGED <<live, control, installed, byHost, threads, spent>>

\* The speaker stage installs the bands of a topology that answers the
\* latest grid request, and of no other.
Install ==
    /\ active.generation = requests.latest
    /\ installed # active.grid /\ installed' = active.grid
    /\ UNCHANGED <<live, control, byHost, follower, threads, spent>>

-----------------------------------------------------------------------------
(* The OSC listener. *)

\* A client stages an edit of the layout: no rebuild yet.
Stage ==
    /\ At("listener", "idle")
    /\ Spend("edits", MaxEdits)
    /\ live' = [live EXCEPT !.edits = @ + 1]
    /\ UNCHANGED <<control, installed, byHost, follower, threads>>

Trigger(gridOnly) ==
    /\ Goto("listener", "ask")
    /\ own' = [own EXCEPT !["listener"].gridOnly = gridOnly]

\* It applies what it staged: the generation that makes the next plan rebuild
\* the gain models, then the trigger.
Apply ==
    /\ At("listener", "idle") /\ Trigger(FALSE)
    /\ live.applied # live.edits
    /\ live' = [live EXCEPT !.applied = live.edits]
    /\ geometry' = geometry + 1
    /\ UNCHANGED <<layoutKey, requests, active, installed, recomputing,
                   pending, byHost, follower, spent>>

\* The forced grid edited.  One that switches negative z asks for new gain
\* models: ApplyEffects bumps the geometry before it triggers.
EditGrid(g) ==
    /\ At("listener", "idle") /\ Goto("listener", "effects")
    /\ live.source = "custom" /\ g # live.grid
    /\ Spend("switches", MaxSwitches)
    /\ live' = [live EXCEPT !.grid = g]
    /\ own' = [own EXCEPT !["listener"].rebuild =
                    (g \in Negative) # (live.grid \in Negative)]
    /\ UNCHANGED <<control, installed, byHost, follower>>

ApplyEffects ==
    /\ At("listener", "effects") /\ Trigger(FALSE)
    /\ geometry' = geometry + IF own["listener"].rebuild THEN 1 ELSE 0
    /\ UNCHANGED <<live, layoutKey, requests, active, installed, recomputing,
                   pending, byHost, follower, spent>>

\* Following the bridge takes its hint; forcing starts from the grid installed.
SwitchSource ==
    /\ At("listener", "idle") /\ Goto("listener", "request")
    /\ Spend("switches", MaxSwitches)
    /\ live' = IF live.source = "bridge"
               THEN [live EXCEPT !.source = "custom", !.grid = installed]
               ELSE [live EXCEPT !.source = "bridge", !.grid = live.bridgeHint]
    /\ UNCHANGED <<control, installed, byHost, follower, own>>

\* The listener's poll finds another layout wanted, or another grid hinted.
PollLayout ==
    /\ At("listener", "idle") /\ Outdated /\ Trigger(FALSE)
    /\ UNCHANGED <<live, control, installed, byHost, follower, spent>>

PollHint ==
    /\ At("listener", "idle") /\ HintPending /\ Goto("listener", "take")
    /\ UNCHANGED <<live, control, installed, byHost, follower, own, spent>>

Claims(from, to, on) ==
    /\ At("listener", from) /\ Goto("listener", to)
    /\ Spend("claims", MaxClaims)
    /\ byHost' = on
    /\ UNCHANGED <<live, control, installed, follower, own>>
StartListener == Claims("off", "idle", TRUE)
StopListener == Claims("idle", "off", FALSE)

-----------------------------------------------------------------------------
(* RendererControl::take_bridge_grid. *)

TakeOffered(t) ==
    /\ At(t, "take") /\ Goto(t, "takeHint")
    /\ own' = [own EXCEPT ![t].offered = requests.offered]
    /\ UNCHANGED <<live, control, installed, byHost, follower, spent>>

TakeHint(t) ==
    /\ At(t, "takeHint") /\ Goto(t, "taken")
    /\ own' = [own EXCEPT ![t].grid = requests.hint]
    /\ UNCHANGED <<live, control, installed, byHost, follower, spent>>

TakeStore(t) ==
    /\ At(t, "taken") /\ Goto(t, "takeLive")
    /\ requests' = [requests EXCEPT !.taken = own[t].offered]
    /\ UNCHANGED <<live, geometry, layoutKey, active, installed, recomputing,
                   pending, byHost, follower, own, spent>>

TakeLive(t) ==
    /\ At(t, "takeLive")
    /\ IF live.source = "bridge"
       THEN /\ live' = [live EXCEPT !.bridgeHint = own[t].grid,
                                    !.grid = own[t].grid]
            /\ Goto(t, "request")
       ELSE /\ live' = [live EXCEPT !.bridgeHint = own[t].grid]
            /\ Goto(t, Decided(t, own[t].rebuild))
    /\ UNCHANGED <<control, installed, byHost, follower, own, spent>>

-----------------------------------------------------------------------------
(* RendererControl::request_live_grid, under the requests' lock but for the *)
(* live grid, read before.                                                  *)

RequestRead(t) ==
    /\ At(t, "request") /\ Goto(t, "lock")
    /\ own' = [own EXCEPT ![t].grid = live.grid]
    /\ UNCHANGED <<live, control, installed, byHost, follower, spent>>

Unchanged(t) ==
    /\ At(t, "lock") /\ requests.requested = own[t].grid
    /\ Goto(t, Decided(t, own[t].rebuild))
    /\ UNCHANGED <<live, control, installed, byHost, follower, own, spent>>

\* A new generation for a thread's grid.
Request(t) == [requests EXCEPT !.requested = own[t].grid, !.latest = @ + 1]

\* The topology a grid-only rebuild replaced, when it is on this grid.
PutBack(t) ==
    /\ requests.pair # None
    /\ requests.pair.published = active.id
    /\ requests.pair.replaced.grid = own[t].grid

\* Mutant: the topology adopted keeps the generation it had.
Adopt_Unstamped(t) ==
    /\ At(t, "lock") /\ requests.requested # own[t].grid
    /\ active.grid = own[t].grid \/ PutBack(t)
    /\ active' = IF active.grid = own[t].grid THEN active
                 ELSE requests.pair.replaced
    /\ requests' = Request(t)
    /\ Goto(t, IF t = "follower" THEN Decided(t, own[t].rebuild) ELSE "adopted")
    /\ UNCHANGED <<live, geometry, layoutKey, installed, recomputing, pending,
                   byHost, follower, own, spent>>

\* The topology in force answers, or the one it replaced is put back.
Adopt(t) ==
    /\ At(t, "lock") /\ requests.requested # own[t].grid
    /\ \/ /\ active.grid = own[t].grid
          /\ active' = [active EXCEPT !.generation = requests.latest + 1]
          /\ requests' = Request(t)
       \/ /\ active.grid # own[t].grid /\ PutBack(t)
          /\ active' = [requests.pair.replaced EXCEPT
                            !.generation = requests.latest + 1]
          /\ requests' = [Request(t) EXCEPT
                            !.pair = [published |-> active'.id,
                                      replaced |-> active]]
    /\ Goto(t, IF t = "follower" THEN Decided(t, own[t].rebuild) ELSE "adopted")
    /\ UNCHANGED <<live, geometry, layoutKey, installed, recomputing, pending,
                   byHost, follower, own, spent>>

\* None is at hand: a rebuild, with new gain models if negative z changes.
NeedRebuild(t) ==
    /\ At(t, "lock") /\ requests.requested # own[t].grid
    /\ active.grid # own[t].grid /\ ~PutBack(t)
    /\ requests' = Request(t)
    /\ geometry' = geometry + IF (active.grid \in Negative)
                                 # (own[t].grid \in Negative) THEN 1 ELSE 0
    /\ IF t = "follower"
       THEN /\ Goto(t, "plan")
            /\ own' = [own EXCEPT ![t].gridOnly = ~own[t].rebuild,
                                  ![t].rebuild = TRUE]
       ELSE /\ Goto(t, "ask") /\ own' = [own EXCEPT ![t].gridOnly = TRUE]
    /\ UNCHANGED <<live, layoutKey, active, installed, recomputing, pending,
                   byHost, follower, spent>>

\* request_grid, Adopted: a running rebuild of more than the grid goes again.
CheckRunning(t) ==
    /\ At(t, "adopted") /\ Goto(t, IF recomputing THEN "inFlight" ELSE Rest(t))
    /\ UNCHANGED <<live, control, installed, byHost, follower, own, spent>>

CheckInFlight(t) ==
    /\ At(t, "inFlight")
    /\ Goto(t, IF requests.gridOnly THEN Rest(t) ELSE "queue")
    /\ UNCHANGED <<live, control, installed, byHost, follower, own, spent>>

-----------------------------------------------------------------------------
(* start_recompute, on the listener or on a recompute thread that ends. *)

\* prepare_topology_rebuild records the layout wanted; another than the last
\* one's makes the gain models stale.
Prepare ==
    /\ layoutKey' = live.wanted
    /\ geometry' = geometry + IF Outdated THEN 1 ELSE 0

\* The first plan only tells whether there is one.
Ask(t) ==
    /\ At(t, "ask") /\ Prepare
    /\ \/ Goto(t, "busy") /\ UNCHANGED spent
       \/ Spend("refusals", MaxRefusals) /\ Goto(t, Rest(t))
    /\ UNCHANGED <<live, requests, active, installed, recomputing, pending,
                   byHost, follower, own>>

CheckBusy(t) ==
    /\ At(t, "busy")
    /\ Goto(t, IF recomputing THEN "queue"
               ELSE IF own[t].gridOnly THEN "plan" ELSE "record")
    /\ UNCHANGED <<live, control, installed, byHost, follower, own, spent>>

Queue(t) ==
    /\ At(t, "queue") /\ Goto(t, Rest(t))
    /\ pending' = TRUE
    /\ UNCHANGED <<live, geometry, layoutKey, requests, active, installed,
                   recomputing, byHost, follower, own, spent>>

\* record_live_grid: a rebuild of more than the grid answers the live grid.
RecordRead(t) ==
    /\ At(t, "record") /\ Goto(t, "recordLock")
    /\ own' = [own EXCEPT ![t].grid = live.grid]
    /\ UNCHANGED <<live, control, installed, byHost, follower, spent>>

RecordLock(t) ==
    /\ At(t, "recordLock") /\ Goto(t, "plan")
    /\ requests' = IF requests.requested = own[t].grid
                   THEN requests ELSE Request(t)
    /\ UNCHANGED <<live, geometry, layoutKey, active, installed, recomputing,
                   pending, byHost, follower, own, spent>>

\* The plan: the layout, then what is read under the live params' lock.
PlanLayout(t) ==
    /\ At(t, "plan") /\ Prepare
    /\ Goto(t, "planGrid")
    /\ own' = [own EXCEPT ![t].plan.layout = WantedLayout]
    /\ UNCHANGED <<live, requests, active, installed, recomputing, pending,
                   byHost, follower, spent>>

PlanGrid(t) ==
    /\ At(t, "planGrid")
    /\ Goto(t, IF t = "follower" THEN "start" ELSE "claim")
    /\ own' = [own EXCEPT ![t].plan.grid = live.grid,
                          ![t].plan.generation = requests.latest,
                          ![t].plan.geometry = geometry]
    /\ UNCHANGED <<live, control, installed, byHost, follower, spent>>

\* Mutant: the topology in force answers the request after the latest.
Answer_Ahead == active' = [active EXCEPT !.generation = requests.latest + 1]

\* The topology in force is taken as the answer to the latest request.
Answer == active' = [active EXCEPT !.generation = requests.latest]

\* The backend has no plan after all: grid_rebuild_failed.  The follower
\* ends its round.
PlanRefused(t) ==
    /\ At(t, "planGrid") /\ Spend("refusals", MaxRefusals)
    /\ IF t = "follower" THEN Goto(t, "ended") /\ UNCHANGED active
                         ELSE Goto(t, Rest(t)) /\ Answer
    /\ UNCHANGED <<live, geometry, layoutKey, requests, installed, recomputing,
                   pending, byHost, follower, own>>

Claim(t) ==
    /\ At(t, "claim") /\ Goto(t, "spawn")
    /\ recomputing' = TRUE
    /\ UNCHANGED <<live, geometry, layoutKey, requests, active, installed,
                   pending, byHost, follower, own, spent>>

\* A thread for the plan; the one that spawns it may be ending itself.
Spawn(t, w) ==
    /\ At(t, "spawn") /\ (w = t \/ At(w, "off"))
    /\ requests' = [requests EXCEPT !.gridOnly = own[t].gridOnly]
    /\ pc' = [pc EXCEPT ![t] = Rest(t), ![w] = "start"]
    /\ own' = [own EXCEPT ![w].plan = own[t].plan,
                          ![w].gridOnly = own[t].gridOnly]
    /\ UNCHANGED <<live, geometry, layoutKey, active, installed, recomputing,
                   pending, byHost, follower, spent>>

-----------------------------------------------------------------------------
(* The build, on a recompute thread or on the follower. *)

Start(t) ==
    /\ At(t, "start") /\ Goto(t, "build")
    /\ own' = [own EXCEPT ![t].base = active]
    /\ UNCHANGED <<live, control, installed, byHost, follower, spent>>

\* build_topology_reusing: the gain models of the topology in force at the
\* start serve again at the same geometry generation.
Reuses(t) == own[t].base.geometry = own[t].plan.geometry
Built(t) ==
    LET plan == own[t].plan
    IN  [id |-> spent.built + 1, layout |-> plan.layout,
         geometry |-> plan.geometry,
         model |-> IF Reuses(t) THEN own[t].base.model
                                ELSE ModelFor(plan.layout, plan.grid),
         grid |-> plan.grid, generation |-> plan.generation]

\* Mutant: published whatever was requested since.
IsCurrent_Unchecked(t) == TRUE

\* publish_topology_if_current, under the requests' lock: dropped when a
\* grid request was made since the plan.
IsCurrent(t) == own[t].plan.generation = requests.latest

Publish(t) ==
    /\ At(t, "build") /\ IsCurrent(t) /\ Goto(t, "ended")
    /\ active' = Built(t)
    /\ requests' = [requests EXCEPT !.pair =
            IF own[t].gridOnly /\ own[t].base.id = active.id
            THEN [published |-> active'.id, replaced |-> active] ELSE None]
    /\ spent' = [spent EXCEPT !.built = @ + 1]
    /\ UNCHANGED <<live, geometry, layoutKey, installed, recomputing, pending,
                   byHost, follower, own>>

\* The follower owes the request that overtook it another round.
Overtaken(t) ==
    /\ At(t, "build") /\ ~IsCurrent(t) /\ Goto(t, "ended")
    /\ own' = [own EXCEPT ![t].owed = (t = "follower")]
    /\ UNCHANGED <<live, control, installed, byHost, follower, spent>>

\* Mutant: a failed build returns without lowering the flag.
BuildFails_Stuck(t) ==
    /\ At(t, "build") /\ Goto(t, "sweep")
    /\ Spend("failures", MaxFailures)
    /\ Answer
    /\ UNCHANGED <<live, geometry, layoutKey, requests, installed, recomputing,
                   pending, byHost, follower, own>>

\* The backend cannot be built for the layout or fails its test; on a recompute
\* thread, a panic is caught and counts as one.
BuildFails(t) ==
    /\ At(t, "build") /\ Goto(t, "ended")
    /\ Spend("failures", MaxFailures)
    /\ Answer
    /\ UNCHANGED <<live, geometry, layoutKey, requests, installed, recomputing,
                   pending, byHost, follower, own>>

\* Nothing catches a panic on the follower: its thread is gone, and the flag it
\* claimed stays up.
FollowerPanics ==
    /\ At("follower", "build") /\ Goto("follower", "dead")
    /\ Spend("panics", MaxPanics)
    /\ asked' = FALSE
    /\ UNCHANGED <<live, control, installed, byHost, seen, own>>

End(t) ==
    /\ At(t, "ended") /\ Goto(t, "sweep")
    /\ recomputing' = FALSE
    /\ UNCHANGED <<live, geometry, layoutKey, requests, active, installed,
                   pending, byHost, follower, own, spent>>

\* Mutant: the queued request is cleared and not run.
Sweep_Ignored(t) ==
    /\ At(t, "sweep")
    /\ pending' = FALSE
    /\ Goto(t, IF t = "follower" /\ (own[t].owed \/ Outdated \/ HintPending)
               THEN "check" ELSE "off")
    /\ UNCHANGED <<live, geometry, layoutKey, requests, active, installed,
                   recomputing, byHost, follower, own, spent>>

\* A request queued meanwhile runs once more from the live state: through
\* trigger_layout_recompute, or as the follower's next round.
Sweep(t) ==
    /\ At(t, "sweep")
    /\ pending' = FALSE
    /\ IF t = "follower"
       THEN /\ own' = [own EXCEPT ![t].owed = @ \/ pending]
            /\ Goto(t, IF own'[t].owed \/ Outdated \/ HintPending
                       THEN "check" ELSE "off")
       ELSE /\ own' = [own EXCEPT ![t].gridOnly = FALSE]
            /\ Goto(t, IF pending THEN "ask" ELSE "off")
    /\ UNCHANGED <<live, geometry, layoutKey, requests, active, installed,
                   recomputing, byHost, follower, spent>>

-----------------------------------------------------------------------------
(* The follower's own loop. *)

F == "follower"

Wake ==
    /\ At(F, "off") /\ asked /\ Goto(F, "check")
    /\ asked' = FALSE
    /\ own' = [own EXCEPT ![F].owed = FALSE]
    /\ UNCHANGED <<live, control, installed, byHost, seen, spent>>

Check ==
    /\ At(F, "check")
    /\ Goto(F, IF own[F].owed \/ (~byHost /\ (Outdated \/ HintPending))
               THEN "cas" ELSE "off")
    /\ UNCHANGED <<live, control, installed, byHost, follower, own, spent>>

\* The claim; a rebuild already running is looked at again later.
CompareExchange ==
    /\ At(F, "cas") /\ Goto(F, IF recomputing THEN "check" ELSE "decide")
    /\ recomputing' = TRUE
    /\ UNCHANGED <<live, geometry, layoutKey, requests, active, installed,
                   pending, byHost, follower, own, spent>>

Decide ==
    /\ At(F, "decide")
    /\ own' = [own EXCEPT ![F].rebuild = own[F].owed \/ Outdated,
                          ![F].owed = FALSE, ![F].gridOnly = FALSE]
    /\ Goto(F, IF HintPending THEN "take" ELSE Decided(F, own'[F].rebuild))
    /\ UNCHANGED <<live, control, installed, byHost, follower, spent>>

-----------------------------------------------------------------------------
(* What a thread does of itself once it has begun; the rest is asked of it. *)

Take(t) ==
    TakeOffered(t) \/ TakeHint(t) \/ TakeStore(t) \/ TakeLive(t)
RequestGrid(t) ==
    \/ RequestRead(t) \/ Unchanged(t) \/ Adopt(t) \/ NeedRebuild(t)
    \/ CheckRunning(t) \/ CheckInFlight(t)
StartRecompute(t) ==
    \/ Ask(t) \/ CheckBusy(t) \/ Queue(t) \/ RecordRead(t) \/ RecordLock(t)
    \/ PlanLayout(t) \/ PlanGrid(t) \/ PlanRefused(t) \/ Claim(t)
    \/ \E w \in Workers : Spawn(t, w)
Build(t) ==
    Start(t) \/ Publish(t) \/ Overtaken(t) \/ BuildFails(t) \/ End(t) \/ Sweep(t)
Follow == Wake \/ Check \/ CompareExchange \/ Decide

Proceed(t) ==
    \/ Take(t) \/ RequestGrid(t) \/ StartRecompute(t) \/ Build(t)
    \/ t = "listener" /\ (PollLayout \/ PollHint \/ ApplyEffects)
    \/ t = "follower" /\ Follow

Next ==
    \/ \E t \in Threads : Proceed(t)
    \/ FollowerPanics \/ Poll \/ Install
    \/ \E g \in Grids : Offer(g) \/ EditGrid(g)
    \/ \E on \in BOOLEAN : LandSet(on)
    \/ Stage \/ Apply \/ SwitchSource \/ StartListener \/ StopListener

Spec == Init /\ [][Next]_vars

\* The system runs every thread that can go on, and frames keep coming while
\* a stream plays.  Nothing has to panic.
FairSpec ==
    /\ Spec
    /\ \A t \in Threads : WF_vars(Proceed(t))
    /\ WF_vars(Poll) /\ WF_vars(Install)

-----------------------------------------------------------------------------
(* Properties. *)

Labels == {"off", "idle", "effects", "take", "takeHint", "taken", "takeLive",
           "request", "lock", "adopted", "inFlight", "ask", "busy", "queue", "record",
           "recordLock", "plan", "planGrid", "claim", "spawn", "start", "build",
           "ended", "sweep", "check", "cas", "decide", "dead"}

Layouts == (0..MaxSets) \X (0..MaxEdits)
Models == Layouts \X BOOLEAN
Topologies == [id : Nat, layout : Layouts, geometry : Nat, model : Models,
               grid : Grids, generation : Nat]

\* Types, what a thread may be doing, and that nothing answers or takes more
\* than was asked or offered (RendererControl's fields).
TypeOK ==
    /\ live \in [edits : 0..MaxEdits, applied : 0..MaxEdits,
                  wanted : 0..MaxSets, sets : 0..MaxSets, source : {"bridge", "custom"},
                  bridgeHint : Grids, grid : Grids]
    /\ geometry \in Nat /\ layoutKey \in 0..MaxSets
    /\ requests.hint \in Grids /\ requests.requested \in Grids \cup {None}
    /\ requests.taken \in 0..requests.offered
    /\ requests.latest \in Nat /\ requests.gridOnly \in BOOLEAN
    /\ \/ requests.pair = None
       \/ requests.pair \in [published : Nat, replaced : Topologies]
    /\ active \in Topologies /\ active.generation <= requests.latest
    /\ installed \in Grids
    /\ {recomputing, pending, byHost, asked} \subseteq BOOLEAN
    /\ pc \in [Threads -> Labels]

\* Nobody is rebuilding, about to, or asked to, nor died of it.
Quiet ==
    /\ ~recomputing /\ ~pending /\ ~asked
    /\ \A t \in Threads : pc[t] \in {"idle", "off"}

\* evaluation_grid.rs:22-25: whatever builds overlap or fail, once all is quiet
\* the topology in force answers the latest grid request, so the speaker stage
\* follows it: no build of an older request ended up in force.
AnsweredWhenQuiet == Quiet => active.generation = requests.latest

\* publish_topology_if_current: a topology comes into force, built or put back,
\* only as the answer to the latest grid request, whoever publishes it.
InForceIsLatest ==
    [][active'.id # active.id => active'.generation = requests'.latest]_vars

\* request_grid: a rebuild of more than the grid that a grid request overtook
\* is run again from the live state, so once the last edit is applied and all
\* is quiet, the topology in force is on the layout wanted.
AppliedInForce ==
    Quiet /\ live.applied = live.edits => active.layout = WantedLayout

\* The flag clients and the follower wait on never stays up: every rebuild
\* ends, whether published, overtaken or failed, unless the follower's build
\* panicked (layout_follower.rs:121).
RebuildsEnd == recomputing ~> ~recomputing \/ ~FollowerLives

\* No listener came, nothing failed or panicked, the backend refused nothing.
Undisturbed ==
    spent.claims + spent.failures + spent.panics + spent.refusals = 0

\* A rebuild that counts as one of the grid alone also takes another set's
\* layout, as one does when the set lands between the decision
\* (layout_follower.rs:109, :118) and the plan.
MoreThanTheGrid ==
    \E t \in Threads : /\ pc[t] = "build" /\ own[t].gridOnly
                       /\ own[t].plan.layout # own[t].base.layout

\* layout_follower.rs:41-42: the follower rebuilds on whatever is wanted when it
\* runs.  Alone, after the last set landed and the last hint, the topology is on
\* the wanted layout, the hint is taken and the grid in force, unless a set once
\* landed within a rebuild of the grid: a later hint may put back what that
\* replaced, on the former layout.
FollowerCatchesUp ==
    [](Undisturbed /\ ~MoreThanTheGrid) =>
        <>[](/\ active.layout[1] = live.wanted /\ ~HintPending
             /\ installed = requests.hint)

=============================================================================
