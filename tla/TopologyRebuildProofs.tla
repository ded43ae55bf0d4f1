------------------------ MODULE TopologyRebuildProofs ------------------------
(***************************************************************************)
(* Proofs about TopologyRebuild, for any grids, any number of recompute    *)
(* threads and every bound: the types, what may come into force, that the  *)
(* flag a rebuild raises is one somebody will lower, and that a request is *)
(* never left without an answer or somebody who owes it.                   *)
(***************************************************************************)
EXTENDS TopologyRebuild, TLAPS

-----------------------------------------------------------------------------
(* The types, and what they rest on: an edit of the layout is one that was   *)
(* counted, and a hint a thread takes was offered.                           *)

Plans == [layout : Layouts, geometry : Nat, grid : Grids, generation : Nat]
Locals == [gridOnly : BOOLEAN, rebuild : BOOLEAN, owed : BOOLEAN,
           offered : Nat, grid : Grids, base : Topologies, plan : Plans]
Pairs == [published : Nat, replaced : Topologies]
Requests == [hint : Grids, offered : Nat, taken : Nat,
             requested : Grids \cup {None}, latest : Nat,
             pair : Pairs \cup {None}, gridOnly : BOOLEAN]
Lives == [edits : 0..MaxEdits, applied : 0..MaxEdits, wanted : 0..MaxSets,
          sets : 0..MaxSets, source : {"bridge", "custom"},
          bridgeHint : Grids, grid : Grids]
Spents == [edits : Nat, hints : Nat, switches : Nat, failures : Nat,
           panics : Nat, refusals : Nat, claims : Nat, built : Nat]

LiveInv == live \in Lives /\ spent \in Spents /\ live.edits = spent.edits
KeyInv == geometry \in Nat /\ layoutKey \in 0..MaxSets
RequestsInv == requests \in Requests /\ requests.taken <= requests.offered
ActiveInv == active \in Topologies /\ active.generation <= requests.latest
FlagsInv ==
    /\ installed \in Grids
    /\ recomputing \in BOOLEAN /\ pending \in BOOLEAN
    /\ byHost \in BOOLEAN /\ asked \in BOOLEAN
ThreadsInv ==
    /\ pc \in [Threads -> Labels] /\ own \in [Threads -> Locals]
    /\ \A t \in Threads : own[t].offered <= requests.offered

TypeInv == LiveInv /\ KeyInv /\ RequestsInv /\ ActiveInv /\ FlagsInv /\ ThreadsInv

LEMMA TypeInvGivesTypeOK == TypeInv => TypeOK
<1> SUFFICES ASSUME TypeInv
             PROVE  TypeOK
  OBVIOUS
<1> USE DEF TypeInv
<1>1. live \in Lives /\ geometry \in Nat /\ layoutKey \in 0..MaxSets
  BY DEF LiveInv, KeyInv
<1>2. /\ requests.hint \in Grids /\ requests.requested \in Grids \cup {None}
      /\ requests.taken \in 0..requests.offered
      /\ requests.latest \in Nat /\ requests.gridOnly \in BOOLEAN
      /\ requests.pair \in Pairs \cup {None}
  BY DEF RequestsInv, Requests
<1>3. active \in Topologies /\ active.generation <= requests.latest
  BY DEF ActiveInv
<1>4. installed \in Grids /\ {recomputing, pending, byHost, asked} \subseteq BOOLEAN
  BY DEF FlagsInv
<1>5. pc \in [Threads -> Labels]
  BY DEF ThreadsInv
<1> HIDE DEF TypeInv
<1> QED
  BY <1>1, <1>2, <1>3, <1>4, <1>5 DEF TypeOK, Lives, Pairs

\* The gain models built for a layout are models.
LEMMA ModelIsModel ==
    ASSUME NEW layout \in Layouts, NEW grid
    PROVE  ModelFor(layout, grid) \in Models
<1> DEFINE below == grid \in Negative
<1>1. below \in BOOLEAN
  OBVIOUS
<1> HIDE DEF below
<1>2. <<layout, below>> \in Layouts \X BOOLEAN
  BY <1>1
<1> QED
  BY <1>2 DEF ModelFor, Models, below

\* What is spent stays a count, and only Stage spends an edit.
LEMMA Spending ==
    ASSUME spent \in Spents, NEW bound,
           NEW what \in {"hints", "switches", "failures", "panics", "refusals", "claims",
                         "edits"},
           Spend(what, bound)
    PROVE  /\ spent' \in Spents /\ spent'.built = spent.built
           /\ spent'.edits = IF what = "edits" THEN spent.edits + 1 ELSE spent.edits
BY DEF Spend, Spents

LEMMA InitType == Init => TypeInv
<1> SUFFICES ASSUME Init
             PROVE  TypeInv
  OBVIOUS
<1> USE GridsAssumption, BoundsAssumption
<1>1. LiveInv
  BY DEF Init, LiveInv, Lives, Spents
<1>2. KeyInv
  BY DEF Init, KeyInv
<1>3. RequestsInv
  BY DEF Init, RequestsInv, Requests
<1>4. active \in Topologies /\ active.generation = 0 /\ requests.latest = 0
  <2>1. <<0, 0>> \in Layouts
    BY DEF Layouts
  <2>4. ModelFor(<<0, 0>>, FirstGrid) \in Models
    BY <2>1, ModelIsModel
  <2>2. active = [id |-> 0, layout |-> <<0, 0>>, geometry |-> 0,
                  model |-> ModelFor(<<0, 0>>, FirstGrid),
                  grid |-> FirstGrid, generation |-> 0]
    BY DEF Init
  <2>3. requests.latest = 0
    BY DEF Init
  <2> QED
    BY <2>1, <2>2, <2>3, <2>4 DEF Topologies
<1>5. FlagsInv
  BY DEF Init, FlagsInv
<1>6. ThreadsInv
  <2>1. pc \in [Threads -> Labels]
    BY DEF Init, Labels
  <2>2. [layout |-> <<0, 0>>, geometry |-> 0, grid |-> FirstGrid, generation |-> 0] \in Plans
    BY DEF Plans, Layouts
  <2>3. own \in [Threads -> Locals] /\ \A t \in Threads : own[t].offered = 0
    BY <1>4, <2>2 DEF Init, Locals
  <2>4. requests.offered = 0
    BY DEF Init
  <2> QED
    BY <2>1, <2>3, <2>4 DEF ThreadsInv
<1> QED
  BY <1>1, <1>2, <1>3, <1>4, <1>5, <1>6 DEF TypeInv, ActiveInv

\* A thread that goes to a label.
LEMMA Going ==
    ASSUME ThreadsInv, NEW t \in Threads, NEW label \in Labels, Goto(t, label)
    PROVE  /\ pc' \in [Threads -> Labels] /\ pc'[t] = label
           /\ \A s \in Threads \ {t} : pc'[s] = pc[s]
BY DEF ThreadsInv, Goto

\* Threads that keep their locals, or take others of their type.
LEMMA Kept ==
    ASSUME ThreadsInv, pc' \in [Threads -> Labels], own' = own,
           requests'.offered = requests.offered
    PROVE  ThreadsInv'
BY DEF ThreadsInv

LEMMA Holding ==
    ASSUME ThreadsInv, pc' \in [Threads -> Labels], NEW t \in Threads,
           NEW locals \in Locals, own' = [own EXCEPT ![t] = locals],
           requests'.offered = requests.offered, locals.offered <= requests.offered
    PROVE  ThreadsInv'
BY DEF ThreadsInv

\* The layout the render pans onto is one.
LEMMA WantedIsLayout == ASSUME LiveInv PROVE WantedLayout \in Layouts
BY BoundsAssumption DEF LiveInv, Lives, WantedLayout, LayoutOf, Layouts

\* What every thread is at, and where it rests.
LEMMA Places ==
    ASSUME NEW t \in Threads
    PROVE  /\ Rest(t) \in Labels /\ \A b \in BOOLEAN : Decided(t, b) \in Labels
BY DEF Rest, Decided, Labels, Threads, F

-----------------------------------------------------------------------------
(* Every step keeps the types. *)

LEMMA AroundType ==
    ASSUME TypeInv, Poll \/ Install \/ (\E on \in BOOLEAN : LandSet(on))
                    \/ (\E g \in Grids : Offer(g))
    PROVE  TypeInv'
<1>1. CASE Poll
  <2>1. asked' \in BOOLEAN
    BY <1>1 DEF TypeInv, FlagsInv, Poll
  <2> QED
    BY <1>1, <2>1 DEF Poll, TypeInv, LiveInv, KeyInv, RequestsInv, ActiveInv, FlagsInv,
                      ThreadsInv, control, threads
<1>2. CASE Install
  <2>1. installed' \in Grids
    BY <1>2 DEF TypeInv, ActiveInv, Topologies, Install
  <2> QED
    BY <1>2, <2>1 DEF Install, TypeInv, LiveInv, KeyInv, RequestsInv, ActiveInv, FlagsInv,
                      ThreadsInv, control, threads, follower
<1>3. ASSUME NEW on \in BOOLEAN, LandSet(on)
      PROVE  TypeInv'
  <2>1. live' \in Lives /\ live'.edits = live.edits
    <3>1. live \in Lives /\ live.sets < MaxSets /\ MaxSets \in Nat
      BY <1>3, BoundsAssumption DEF TypeInv, LiveInv, LandSet
    <3>2. live.sets + 1 \in 0..MaxSets /\ 0 \in 0..MaxSets
      BY <3>1 DEF Lives
    <3> DEFINE wanted == IF on THEN live.sets + 1 ELSE 0
    <3>3. wanted \in 0..MaxSets
      BY <3>2
    <3>4. live' = [live EXCEPT !.sets = @ + 1, !.wanted = wanted]
      BY <1>3 DEF LandSet
    <3> HIDE DEF wanted
    <3> QED
      BY <3>1, <3>2, <3>3, <3>4 DEF Lives
  <2> QED
    BY <1>3, <2>1 DEF LandSet, TypeInv, LiveInv, KeyInv, RequestsInv, ActiveInv, FlagsInv,
                      ThreadsInv, control, threads, follower
<1>4. ASSUME NEW g \in Grids, Offer(g)
      PROVE  TypeInv'
  <2>1. spent' \in Spents /\ spent'.edits = spent.edits
    BY <1>4, Spending DEF TypeInv, LiveInv, Offer
  <2>2. /\ requests' \in Requests /\ requests'.offered = requests.offered + 1
        /\ requests'.taken = requests.taken /\ requests'.latest = requests.latest
    <3>1. requests' = [requests EXCEPT !.hint = g, !.offered = @ + 1]
      BY <1>4 DEF Offer
    <3>2. requests \in Requests
      BY DEF TypeInv, RequestsInv
    <3>3. requests.offered \in Nat /\ requests.offered + 1 \in Nat
      BY <3>2 DEF Requests
    <3>4. requests' \in Requests
      BY <3>1, <3>2, <3>3 DEF Requests
    <3>5. requests'.offered = requests.offered + 1
      BY <3>1, <3>2 DEF Requests
    <3>6. requests'.taken = requests.taken /\ requests'.latest = requests.latest
      BY <3>1, <3>2 DEF Requests
    <3> QED
      BY <3>4, <3>5, <3>6
  <2>3. requests.offered \in Nat /\ requests.taken \in Nat
    BY DEF TypeInv, RequestsInv, Requests
  <2>4. RequestsInv'
    BY <2>2, <2>3 DEF TypeInv, RequestsInv
  <2>5. ThreadsInv'
    <3>1. own \in [Threads -> Locals] /\ pc \in [Threads -> Labels] /\ own' = own /\ pc' = pc
      BY <1>4 DEF TypeInv, ThreadsInv, Offer, threads
    <3>2. ASSUME NEW t \in Threads
          PROVE  own[t].offered \in Nat /\ own[t].offered <= requests.offered
      BY <3>1 DEF TypeInv, ThreadsInv, Locals
    <3> QED
      BY <2>2, <2>3, <3>1, <3>2 DEF ThreadsInv
  <2> QED
    BY <1>4, <2>1, <2>2, <2>4, <2>5
    DEF Offer, TypeInv, LiveInv, KeyInv, ActiveInv, FlagsInv, follower
<1> QED
  BY <1>1, <1>2, <1>3, <1>4

\* What only moves the listener, or changes what is live as well.
LEMMA ListenerType ==
    ASSUME TypeInv, \/ Stage \/ Apply \/ SwitchSource \/ StartListener \/ StopListener
                    \/ PollLayout \/ PollHint \/ ApplyEffects
                    \/ \E g \in Grids : EditGrid(g)
    PROVE  TypeInv'
<1> DEFINE L == "listener"
<1>0. /\ ThreadsInv /\ L \in Threads
      /\ {"idle", "off", "ask", "effects", "request", "take"} \subseteq Labels
      /\ own[L] \in Locals /\ own[L].offered <= requests.offered
      /\ geometry \in Nat
  <2>1. ThreadsInv /\ L \in Threads /\ geometry \in Nat
    BY DEF TypeInv, KeyInv, Threads
  <2>2. own[L] \in Locals /\ own[L].offered <= requests.offered
    BY <2>1 DEF ThreadsInv
  <2> QED
    BY <2>1, <2>2 DEF Labels
<1>1. CASE Stage
  <2>1. live' \in Lives /\ spent' \in Spents /\ live'.edits = spent'.edits
    BY <1>1, BoundsAssumption DEF TypeInv, LiveInv, Lives, Spents, Stage, Spend
  <2> QED
    BY <1>1, <2>1 DEF Stage, TypeInv, LiveInv, KeyInv, RequestsInv, ActiveInv, FlagsInv,
                      ThreadsInv, control, threads, follower
<1>2. ASSUME NEW g \in BOOLEAN, Trigger(g), UNCHANGED requests
      PROVE  ThreadsInv'
  <2> DEFINE locals == [own[L] EXCEPT !.gridOnly = g]
  <2>1. locals \in Locals /\ locals.offered = own[L].offered
    BY <1>0 DEF Locals
  <2>2. own' = [own EXCEPT ![L] = locals] /\ pc' \in [Threads -> Labels]
    BY <1>0, <1>2, Going DEF Trigger
  <2> HIDE DEF locals
  <2> QED
    BY <1>0, <1>2, <2>1, <2>2, Holding
<1>3. CASE Apply
  <2>1. live' \in Lives /\ live'.edits = live.edits
    BY <1>3 DEF TypeInv, LiveInv, Lives, Apply
  <2>2. ThreadsInv' /\ geometry' \in Nat
    <3>1. Trigger(FALSE) /\ requests' = requests /\ geometry' = geometry + 1
      BY <1>3 DEF Apply
    <3>2. geometry' \in Nat
      BY <1>0, <3>1
    <3> QED
      BY <1>0, <1>2, <3>1, <3>2
  <2> QED
    BY <1>3, <2>1, <2>2
    DEF Apply, TypeInv, LiveInv, KeyInv, RequestsInv, ActiveInv, FlagsInv, follower
<1>4. CASE ApplyEffects
  <2>1. ThreadsInv' /\ geometry' \in Nat
    <3>1. /\ Trigger(FALSE) /\ requests' = requests
          /\ geometry' = geometry + IF own[L].rebuild THEN 1 ELSE 0
      BY <1>4 DEF ApplyEffects
    <3>2. geometry' \in Nat
      BY <1>0, <3>1
    <3> QED
      BY <1>0, <1>2, <3>1, <3>2
  <2> QED
    BY <1>4, <2>1
    DEF ApplyEffects, TypeInv, LiveInv, KeyInv, RequestsInv, ActiveInv, FlagsInv, follower
<1>5. CASE PollLayout
  <2>1. ThreadsInv'
    BY <1>0, <1>2, <1>5 DEF PollLayout, control
  <2> QED
    BY <1>5, <2>1 DEF PollLayout, TypeInv, LiveInv, KeyInv, RequestsInv, ActiveInv, FlagsInv,
                      follower, control
<1>6. CASE PollHint
  <2>1. ThreadsInv'
    BY <1>0, <1>6, Going, Kept DEF PollHint, control
  <2> QED
    BY <1>6, <2>1 DEF PollHint, TypeInv, LiveInv, KeyInv, RequestsInv, ActiveInv, FlagsInv,
                      follower, control
<1>7. CASE SwitchSource
  <2>1. ThreadsInv'
    BY <1>0, <1>7, Going, Kept DEF SwitchSource, control
  <2>2. live' \in Lives /\ live'.edits = live.edits
    BY <1>7 DEF TypeInv, LiveInv, FlagsInv, Lives, SwitchSource
  <2>3. spent' \in Spents /\ spent'.edits = spent.edits
    BY <1>7 DEF TypeInv, LiveInv, Spents, SwitchSource, Spend
  <2> QED
    BY <1>7, <2>1, <2>2, <2>3 DEF SwitchSource, TypeInv, LiveInv, KeyInv, RequestsInv,
                                  ActiveInv, FlagsInv, follower, control
<1>8. ASSUME NEW on \in BOOLEAN, NEW from, NEW to \in {"idle", "off"}, Claims(from, to, on)
      PROVE  TypeInv'
  <2>1. ThreadsInv'
    BY <1>0, <1>8, Going, Kept DEF Claims, control
  <2>2. spent' \in Spents /\ spent'.edits = spent.edits
    BY <1>8 DEF TypeInv, LiveInv, Spents, Claims, Spend
  <2> QED
    BY <1>8, <2>1, <2>2 DEF Claims, TypeInv, LiveInv, KeyInv, RequestsInv, ActiveInv, FlagsInv,
                            follower, control
<1>9. ASSUME NEW g \in Grids, EditGrid(g)
      PROVE  TypeInv'
  <2> DEFINE locals == [own[L] EXCEPT !.rebuild = (g \in Negative) # (live.grid \in Negative)]
  <2>1. locals \in Locals /\ locals.offered = own[L].offered
    BY <1>0 DEF Locals
  <2>2. own' = [own EXCEPT ![L] = locals] /\ pc' \in [Threads -> Labels]
    BY <1>0, <1>9, Going DEF EditGrid
  <2>3. requests' = requests
    BY <1>9 DEF EditGrid, control
  <2> HIDE DEF locals
  <2>4. ThreadsInv'
    BY <1>0, <2>1, <2>2, <2>3, Holding
  <2>5. live' \in Lives /\ live'.edits = live.edits
    BY <1>9 DEF TypeInv, LiveInv, Lives, EditGrid
  <2>6. spent' \in Spents /\ spent'.edits = spent.edits
    BY <1>9 DEF TypeInv, LiveInv, Spents, EditGrid, Spend
  <2> QED
    BY <1>9, <2>4, <2>5, <2>6 DEF EditGrid, TypeInv, LiveInv, KeyInv, RequestsInv, ActiveInv,
                                  FlagsInv, follower, control
<1> QED
  BY <1>1, <1>3, <1>4, <1>5, <1>6, <1>7, <1>8, <1>9 DEF StartListener, StopListener

\* A step that changes nothing but where the threads are.
LEMMA OnlyThreads ==
    ASSUME TypeInv, ThreadsInv', UNCHANGED <<live, control, installed, byHost, follower, spent>>
    PROVE  TypeInv'
BY DEF TypeInv, LiveInv, KeyInv, RequestsInv, ActiveInv, FlagsInv, follower, control

\* take_bridge_grid.
LEMMA TakeType ==
    ASSUME TypeInv, NEW t \in Threads, Take(t)
    PROVE  TypeInv'
<1>0. /\ ThreadsInv /\ own[t] \in Locals /\ own[t].offered <= requests.offered
      /\ requests \in Requests /\ {"takeHint", "taken", "takeLive", "request"} \subseteq Labels
      /\ requests.hint \in Grids /\ requests.offered \in Nat
  <2>1. ThreadsInv /\ requests \in Requests
    BY DEF TypeInv, RequestsInv
  <2>2. own[t] \in Locals /\ own[t].offered <= requests.offered
    BY <2>1 DEF ThreadsInv
  <2>3. requests.hint \in Grids /\ requests.offered \in Nat
    BY <2>1 DEF Requests
  <2> QED
    BY <2>1, <2>2, <2>3 DEF Labels
<1>1. CASE TakeOffered(t)
  <2> DEFINE locals == [own[t] EXCEPT !.offered = requests.offered]
  <2>1. locals \in Locals /\ locals.offered <= requests.offered
    BY <1>0 DEF Locals
  <2>2. /\ own' = [own EXCEPT ![t] = locals] /\ requests' = requests
        /\ pc' \in [Threads -> Labels]
    BY <1>0, <1>1, Going DEF TakeOffered, control
  <2> HIDE DEF locals
  <2>3. ThreadsInv'
    BY <1>0, <2>1, <2>2, Holding
  <2> QED
    BY <1>1, <2>3, OnlyThreads DEF TakeOffered
<1>2. CASE TakeHint(t)
  <2> DEFINE locals == [own[t] EXCEPT !.grid = requests.hint]
  <2>1. locals \in Locals /\ locals.offered <= requests.offered
    BY <1>0 DEF Locals
  <2>2. /\ own' = [own EXCEPT ![t] = locals] /\ requests' = requests
        /\ pc' \in [Threads -> Labels]
    BY <1>0, <1>2, Going DEF TakeHint, control
  <2> HIDE DEF locals
  <2>3. ThreadsInv'
    BY <1>0, <2>1, <2>2, Holding
  <2> QED
    BY <1>2, <2>3, OnlyThreads DEF TakeHint
<1>3. CASE TakeStore(t)
  <2>1. own[t].offered \in Nat
    BY <1>0 DEF Locals
  <2>2. requests' = [requests EXCEPT !.taken = own[t].offered]
    BY <1>3 DEF TakeStore
  <2>3. /\ requests' \in Requests /\ requests'.taken = own[t].offered
        /\ requests'.offered = requests.offered /\ requests'.latest = requests.latest
    BY <1>0, <2>1, <2>2 DEF Requests
  <2>4. ThreadsInv'
    BY <1>0, <1>3, <2>3, Going, Kept DEF TakeStore
  <2> QED
    BY <1>0, <1>3, <2>3, <2>4
    DEF TakeStore, TypeInv, LiveInv, KeyInv, RequestsInv, ActiveInv, FlagsInv, follower
<1>4. CASE TakeLive(t)
  <2>1. own[t].grid \in Grids /\ own[t].rebuild \in BOOLEAN
    BY <1>0 DEF Locals
  <2>2. live' \in Lives /\ live'.edits = live.edits
    BY <1>4, <2>1 DEF TypeInv, LiveInv, Lives, TakeLive
  <2>3. Decided(t, own[t].rebuild) \in Labels
    BY <2>1, Places
  <2>4. pc' \in [Threads -> Labels]
    BY <1>0, <1>4, <2>3, Going DEF TakeLive
  <2>5. ThreadsInv'
    BY <1>0, <1>4, <2>4, Kept DEF TakeLive, control
  <2> QED
    BY <1>4, <2>2, <2>5
    DEF TakeLive, TypeInv, LiveInv, KeyInv, RequestsInv, ActiveInv, FlagsInv, follower, control
<1> QED
  BY <1>1, <1>2, <1>3, <1>4 DEF Take

\* A request makes a later generation, for a grid that exists.
LEMMA Requesting ==
    ASSUME TypeInv, NEW t \in Threads
    PROVE  /\ Request(t) \in Requests /\ Request(t).latest = requests.latest + 1
           /\ Request(t).offered = requests.offered /\ Request(t).taken = requests.taken
           /\ requests.latest \in Nat
<1>1. requests \in Requests /\ own[t].grid \in Grids
  <2>1. own[t] \in Locals
    BY DEF TypeInv, ThreadsInv
  <2> QED
    BY <2>1 DEF TypeInv, RequestsInv, Locals
<1>2. requests.latest \in Nat /\ requests.latest + 1 \in Nat
  BY <1>1 DEF Requests
<1>3. Request(t) = [requests EXCEPT !.requested = own[t].grid,
                                    !.latest = requests.latest + 1]
  BY DEF Request
<1> QED
  BY <1>1, <1>2, <1>3 DEF Requests

\* A topology of another generation, and what it leaves as it was.
LEMMA Stamped ==
    ASSUME NEW topology \in Topologies, NEW n \in Nat
    PROVE  /\ [topology EXCEPT !.generation = n] \in Topologies
           /\ [topology EXCEPT !.generation = n].generation = n
           /\ [topology EXCEPT !.generation = n].id = topology.id
BY DEF Topologies

\* The topology put back answers the request, and the pair is turned round.
LEMMA AdoptType ==
    ASSUME TypeInv, NEW t \in Threads, Adopt(t)
    PROVE  /\ requests' \in Requests /\ requests'.latest = requests.latest + 1
           /\ requests'.offered = requests.offered /\ requests'.taken = requests.taken
           /\ active' \in Topologies /\ active'.generation = requests.latest + 1
<1>0. /\ active \in Topologies /\ requests.latest + 1 \in Nat /\ requests \in Requests
  BY Requesting DEF TypeInv, ActiveInv, RequestsInv
<1>1. CASE active' = [active EXCEPT !.generation = requests.latest + 1] /\ requests' = Request(t)
  BY <1>0, <1>1, Requesting, Stamped
<1>2. CASE /\ PutBack(t)
           /\ active' = [requests.pair.replaced EXCEPT !.generation = requests.latest + 1]
           /\ requests' = [Request(t) EXCEPT
                             !.pair = [published |-> active'.id, replaced |-> active]]
  <2>1. requests.pair \in Pairs
    BY <1>0, <1>2 DEF PutBack, Requests
  <2>2. requests.pair.replaced \in Topologies
    BY <2>1 DEF Pairs
  <2>3. active' \in Topologies /\ active'.generation = requests.latest + 1
    BY <1>0, <1>2, <2>2, Stamped
  <2>4. active'.id \in Nat
    BY <2>3 DEF Topologies
  <2> DEFINE pair == [published |-> active'.id, replaced |-> active]
  <2>5. pair \in Pairs
    BY <1>0, <2>4 DEF Pairs
  <2>6. requests' = [Request(t) EXCEPT !.pair = pair] /\ Request(t) \in Requests
    BY <1>2, Requesting
  <2> HIDE DEF pair
  <2>7. /\ requests' \in Requests /\ requests'.latest = Request(t).latest
        /\ requests'.offered = Request(t).offered /\ requests'.taken = Request(t).taken
    BY <2>5, <2>6 DEF Requests
  <2> QED
    BY <2>3, <2>7, Requesting
<1> QED
  BY <1>1, <1>2 DEF Adopt

\* request_live_grid and what request_grid does about a running rebuild.
LEMMA RequestGridType ==
    ASSUME TypeInv, NEW t \in Threads, RequestGrid(t)
    PROVE  TypeInv'
<1>0. /\ ThreadsInv /\ own[t] \in Locals /\ own[t].offered <= requests.offered
      /\ {"lock", "adopted", "inFlight", "queue", "plan", "ask"} \subseteq Labels
      /\ Decided(t, own[t].rebuild) \in Labels /\ Rest(t) \in Labels
  <2>1. own[t] \in Locals /\ own[t].offered <= requests.offered
    BY DEF TypeInv, ThreadsInv
  <2>2. own[t].rebuild \in BOOLEAN
    BY <2>1 DEF Locals
  <2> QED
    BY <2>1, <2>2, Places DEF TypeInv, Labels
<1>1. CASE RequestRead(t)
  <2> DEFINE locals == [own[t] EXCEPT !.grid = live.grid]
  <2>1. locals \in Locals /\ locals.offered <= requests.offered
    BY <1>0 DEF Locals, TypeInv, LiveInv, Lives
  <2>2. /\ own' = [own EXCEPT ![t] = locals] /\ requests' = requests
        /\ pc' \in [Threads -> Labels]
    BY <1>0, <1>1, Going DEF RequestRead, control
  <2> HIDE DEF locals
  <2>3. ThreadsInv'
    BY <1>0, <2>1, <2>2, Holding
  <2> QED
    BY <1>1, <2>3, OnlyThreads DEF RequestRead
<1>2. CASE Unchanged(t)
  <2>1. ThreadsInv'
    BY <1>0, <1>2, Going, Kept DEF Unchanged, control
  <2> QED
    BY <1>2, <2>1, OnlyThreads DEF Unchanged
<1>3. CASE Adopt(t)
  <2>1. pc' \in [Threads -> Labels]
    BY <1>0, <1>3, Going DEF Adopt
  <2>2. ThreadsInv'
    BY <1>0, <1>3, <2>1, Kept, AdoptType DEF Adopt
  <2>3. RequestsInv' /\ ActiveInv'
    BY <1>3, AdoptType, Requesting DEF TypeInv, RequestsInv, ActiveInv
  <2> QED
    BY <1>3, <2>2, <2>3 DEF Adopt, TypeInv, LiveInv, KeyInv, FlagsInv, follower
<1>4. CASE NeedRebuild(t)
  <2>1. ThreadsInv'
    <3>1. requests'.offered = requests.offered
      BY <1>4, Requesting DEF NeedRebuild
    <3>2. CASE t = "follower"
      <4> DEFINE locals == [own[t] EXCEPT !.gridOnly = ~own[t].rebuild, !.rebuild = TRUE]
      <4>1. locals \in Locals /\ locals.offered <= requests.offered
        BY <1>0 DEF Locals
      <4>2. own' = [own EXCEPT ![t] = locals]
        <5>1. /\ own' = [own EXCEPT ![t].gridOnly = ~own[t].rebuild, ![t].rebuild = TRUE]
              /\ own \in [Threads -> Locals]
          BY <1>0, <1>4, <3>2 DEF NeedRebuild, ThreadsInv
        <5> QED
          BY <5>1
      <4>3. pc' \in [Threads -> Labels]
        BY <1>0, <1>4, <3>2, Going DEF NeedRebuild
      <4> HIDE DEF locals
      <4> QED
        BY <1>0, <3>1, <4>1, <4>2, <4>3, Holding
    <3>3. CASE t # "follower"
      <4> DEFINE locals == [own[t] EXCEPT !.gridOnly = TRUE]
      <4>1. locals \in Locals /\ locals.offered <= requests.offered
        BY <1>0 DEF Locals
      <4>2. own' = [own EXCEPT ![t] = locals] /\ pc' \in [Threads -> Labels]
        BY <1>0, <1>4, <3>3, Going DEF NeedRebuild
      <4> HIDE DEF locals
      <4> QED
        BY <1>0, <3>1, <4>1, <4>2, Holding
    <3> QED
      BY <3>2, <3>3
  <2>2. RequestsInv' /\ ActiveInv'
    <3>1. requests' = Request(t) /\ active' = active
      BY <1>4 DEF NeedRebuild
    <3>2. active.generation \in Nat
      BY DEF TypeInv, ActiveInv, Topologies
    <3> QED
      BY <3>1, <3>2, Requesting DEF TypeInv, RequestsInv, ActiveInv
  <2>3. geometry' \in Nat
    <3>1. \/ geometry' = geometry + 1 \/ geometry' = geometry + 0
      BY <1>4 DEF NeedRebuild
    <3> QED
      BY <3>1 DEF TypeInv, KeyInv
  <2> QED
    BY <1>4, <2>1, <2>2, <2>3
    DEF NeedRebuild, TypeInv, LiveInv, KeyInv, FlagsInv, follower
<1>5. CASE CheckRunning(t)
  <2>1. ThreadsInv'
    BY <1>0, <1>5, Going, Kept DEF CheckRunning, control
  <2> QED
    BY <1>5, <2>1, OnlyThreads DEF CheckRunning
<1>6. CASE CheckInFlight(t)
  <2>1. ThreadsInv'
    BY <1>0, <1>6, Going, Kept DEF CheckInFlight, control
  <2> QED
    BY <1>6, <2>1, OnlyThreads DEF CheckInFlight
<1> QED
  BY <1>1, <1>2, <1>3, <1>4, <1>5, <1>6 DEF RequestGrid

\* A plan's layout is recorded, and may make the gain models stale.
LEMMA Preparing ==
    ASSUME TypeInv, Prepare
    PROVE  KeyInv'
<1>1. layoutKey' \in 0..MaxSets
  BY DEF Prepare, TypeInv, LiveInv, Lives
<1>2. geometry' = geometry + 1 \/ geometry' = geometry + 0
  BY DEF Prepare
<1> QED
  BY <1>1, <1>2 DEF TypeInv, KeyInv

\* The topology in force taken as the answer keeps its type.
LEMMA Answering ==
    ASSUME TypeInv, Answer
    PROVE  /\ active' \in Topologies /\ active'.generation = requests.latest
           /\ active'.id = active.id /\ requests.latest \in Nat
<1>1. requests.latest \in Nat /\ active \in Topologies
  BY DEF TypeInv, RequestsInv, Requests, ActiveInv
<1> QED
  BY <1>1, Stamped DEF Answer

\* start_recompute.
LEMMA StartRecomputeType ==
    ASSUME TypeInv, NEW t \in Threads, StartRecompute(t)
    PROVE  TypeInv'
<1>0. /\ ThreadsInv /\ own[t] \in Locals /\ own[t].offered <= requests.offered
      /\ own[t].plan \in Plans /\ Rest(t) \in Labels
      /\ {"busy", "queue", "plan", "record", "recordLock", "planGrid", "start", "claim",
           "spawn", "ended"} \subseteq Labels
  <2>1. own[t] \in Locals /\ own[t].offered <= requests.offered
    BY DEF TypeInv, ThreadsInv
  <2> QED
    BY <2>1, Places DEF TypeInv, Labels, Locals
<1>1. CASE Ask(t)
  <2>1. ThreadsInv'
    BY <1>0, <1>1, Going, Kept DEF Ask
  <2>2. KeyInv'
    BY <1>1, Preparing DEF Ask
  <2>3. spent' \in Spents /\ spent'.edits = spent.edits
    BY <1>1, Spending DEF Ask, TypeInv, LiveInv
  <2> QED
    BY <1>1, <2>1, <2>2, <2>3
    DEF Ask, TypeInv, LiveInv, RequestsInv, ActiveInv, FlagsInv, follower
<1>2. CASE CheckBusy(t)
  <2>1. ThreadsInv'
    BY <1>0, <1>2, Going, Kept DEF CheckBusy, control
  <2> QED
    BY <1>2, <2>1, OnlyThreads DEF CheckBusy
<1>3. CASE Queue(t)
  <2>1. ThreadsInv'
    BY <1>0, <1>3, Going, Kept DEF Queue
  <2> QED
    BY <1>3, <2>1
    DEF Queue, TypeInv, LiveInv, KeyInv, RequestsInv, ActiveInv, FlagsInv, follower
<1>4. CASE RecordRead(t)
  <2> DEFINE locals == [own[t] EXCEPT !.grid = live.grid]
  <2>1. locals \in Locals /\ locals.offered <= requests.offered
    BY <1>0 DEF Locals, TypeInv, LiveInv, Lives
  <2>2. /\ own' = [own EXCEPT ![t] = locals] /\ requests' = requests
        /\ pc' \in [Threads -> Labels]
    BY <1>0, <1>4, Going DEF RecordRead, control
  <2> HIDE DEF locals
  <2>3. ThreadsInv'
    BY <1>0, <2>1, <2>2, Holding
  <2> QED
    BY <1>4, <2>3, OnlyThreads DEF RecordRead
<1>5. CASE RecordLock(t)
  <2>1. /\ requests' \in Requests /\ requests'.offered = requests.offered
        /\ requests'.taken = requests.taken
        /\ requests'.latest = requests.latest \/ requests'.latest = requests.latest + 1
    BY <1>5, Requesting DEF RecordLock, TypeInv, RequestsInv
  <2>2. ThreadsInv'
    BY <1>0, <1>5, <2>1, Going, Kept DEF RecordLock
  <2>3. RequestsInv' /\ ActiveInv'
    <3>1. active' = active /\ active.generation \in Nat /\ requests.latest \in Nat
      BY <1>5, Requesting DEF RecordLock, TypeInv, ActiveInv, Topologies
    <3> QED
      BY <2>1, <3>1 DEF TypeInv, RequestsInv, ActiveInv
  <2> QED
    BY <1>5, <2>2, <2>3 DEF RecordLock, TypeInv, LiveInv, KeyInv, FlagsInv, follower
<1>6. CASE PlanLayout(t)
  <2> DEFINE plan == [own[t].plan EXCEPT !.layout = WantedLayout]
             locals == [own[t] EXCEPT !.plan = plan]
  <2>1. plan \in Plans
    BY <1>0, WantedIsLayout DEF Plans, TypeInv
  <2>2. own' = [own EXCEPT ![t] = locals]
    BY <1>6 DEF PlanLayout
  <2>3. requests' = requests /\ pc' \in [Threads -> Labels]
    BY <1>0, <1>6, Going DEF PlanLayout
  <2> HIDE DEF plan
  <2>4. locals \in Locals /\ locals.offered <= requests.offered
    BY <1>0, <2>1 DEF Locals
  <2> HIDE DEF locals
  <2>5. ThreadsInv'
    BY <1>0, <2>2, <2>3, <2>4, Holding
  <2>6. KeyInv'
    BY <1>6, Preparing DEF PlanLayout
  <2> QED
    BY <1>6, <2>5, <2>6
    DEF PlanLayout, TypeInv, LiveInv, RequestsInv, ActiveInv, FlagsInv, follower
<1>7. CASE PlanGrid(t)
  <2> DEFINE plan == [own[t].plan EXCEPT !.grid = live.grid, !.generation = requests.latest,
                                         !.geometry = geometry]
             locals == [own[t] EXCEPT !.plan = plan]
  <2>1. plan \in Plans
    <3>1. live.grid \in Grids /\ requests.latest \in Nat /\ geometry \in Nat
      BY Requesting DEF TypeInv, LiveInv, Lives, KeyInv
    <3> QED
      BY <1>0, <3>1 DEF Plans
  <2>2. own' = [own EXCEPT ![t] = locals]
    <3>1. own' = [own EXCEPT ![t].plan.grid = live.grid,
                             ![t].plan.generation = requests.latest,
                             ![t].plan.geometry = geometry]
      BY <1>7 DEF PlanGrid
    <3>2. own \in [Threads -> Locals] /\ DOMAIN own[t] = DOMAIN locals
      BY <1>0 DEF ThreadsInv, Locals
    <3> QED
      BY <1>0, <3>1, <3>2 DEF Locals, Plans
  <2>3. requests' = requests /\ pc' \in [Threads -> Labels]
    BY <1>0, <1>7, Going DEF PlanGrid, control
  <2> HIDE DEF plan
  <2>4. locals \in Locals /\ locals.offered <= requests.offered
    BY <1>0, <2>1 DEF Locals
  <2> HIDE DEF locals
  <2>5. ThreadsInv'
    BY <1>0, <2>2, <2>3, <2>4, Holding
  <2> QED
    BY <1>7, <2>5, OnlyThreads DEF PlanGrid
<1>8. CASE PlanRefused(t)
  <2>1. ThreadsInv'
    BY <1>0, <1>8, Going, Kept DEF PlanRefused
  <2>2. spent' \in Spents /\ spent'.edits = spent.edits
    BY <1>8, Spending DEF PlanRefused, TypeInv, LiveInv
  <2>3. ActiveInv'
    BY <1>8, Answering DEF PlanRefused, TypeInv, ActiveInv
  <2> QED
    BY <1>8, <2>1, <2>2, <2>3
    DEF PlanRefused, TypeInv, LiveInv, KeyInv, RequestsInv, FlagsInv, follower
<1>9. CASE Claim(t)
  <2>1. ThreadsInv'
    BY <1>0, <1>9, Going, Kept DEF Claim
  <2> QED
    BY <1>9, <2>1
    DEF Claim, TypeInv, LiveInv, KeyInv, RequestsInv, ActiveInv, FlagsInv, follower
<1>10. ASSUME NEW w \in Workers, Spawn(t, w)
       PROVE  TypeInv'
  <2> DEFINE locals == [own[w] EXCEPT !.plan = own[t].plan, !.gridOnly = own[t].gridOnly]
  <2>1. w \in Threads
    BY DEF Threads
  <2>2. locals \in Locals /\ locals.offered = own[w].offered
    <3>1. own[w] \in Locals /\ own[t].gridOnly \in BOOLEAN
      BY <1>0, <2>1 DEF ThreadsInv, Locals
    <3> QED
      BY <1>0, <3>1 DEF Locals
  <2>3. own' = [own EXCEPT ![w] = locals]
    <3>1. /\ own' = [own EXCEPT ![w].plan = own[t].plan, ![w].gridOnly = own[t].gridOnly]
          /\ own \in [Threads -> Locals]
      BY <1>0, <1>10 DEF Spawn, ThreadsInv
    <3> QED
      BY <2>1, <3>1
  <2>4. pc' \in [Threads -> Labels]
    BY <1>0, <1>10, <2>1 DEF Spawn, ThreadsInv
  <2>5. /\ requests' \in Requests /\ requests'.offered = requests.offered
        /\ requests'.taken = requests.taken /\ requests'.latest = requests.latest
    <3>1. requests \in Requests /\ own[t].gridOnly \in BOOLEAN
      BY <1>0 DEF TypeInv, RequestsInv, Locals
    <3>2. requests' = [requests EXCEPT !.gridOnly = own[t].gridOnly]
      BY <1>10 DEF Spawn
    <3> QED
      BY <3>1, <3>2 DEF Requests
  <2>6. own[w].offered <= requests.offered
    BY <1>0, <2>1 DEF ThreadsInv
  <2> HIDE DEF locals
  <2>7. ThreadsInv'
    BY <1>0, <2>1, <2>2, <2>3, <2>4, <2>5, <2>6, Holding
  <2> QED
    BY <1>10, <2>5, <2>7
    DEF Spawn, TypeInv, LiveInv, KeyInv, RequestsInv, ActiveInv, FlagsInv, follower
<1> QED
  BY <1>1, <1>2, <1>3, <1>4, <1>5, <1>6, <1>7, <1>8, <1>9, <1>10 DEF StartRecompute

\* What a build makes is a topology of the plan's generation.
LEMMA BuiltType ==
    ASSUME TypeInv, NEW t \in Threads
    PROVE  Built(t) \in Topologies /\ Built(t).generation = own[t].plan.generation
<1>1. own[t].plan \in Plans /\ own[t].base \in Topologies /\ spent.built \in Nat
  <2>1. own[t] \in Locals
    BY DEF TypeInv, ThreadsInv
  <2> QED
    BY <2>1 DEF Locals, TypeInv, LiveInv, Spents
<1> DEFINE plan == own[t].plan
           model == IF Reuses(t) THEN own[t].base.model ELSE ModelFor(plan.layout, plan.grid)
<1>2. plan.layout \in Layouts /\ plan.geometry \in Nat /\ plan.grid \in Grids
      /\ plan.generation \in Nat
  BY <1>1 DEF Plans
<1>3. model \in Models
  BY <1>1, <1>2, ModelIsModel DEF Topologies
<1>4. Built(t) = [id |-> spent.built + 1, layout |-> plan.layout, geometry |-> plan.geometry,
                  model |-> model, grid |-> plan.grid, generation |-> plan.generation]
  BY DEF Built
<1> HIDE DEF plan, model
<1>5. Built(t) \in Topologies /\ Built(t).generation = plan.generation
  BY <1>1, <1>2, <1>3, <1>4 DEF Topologies
<1> QED
  BY <1>5 DEF plan

LEMMA BuildType ==
    ASSUME TypeInv, NEW t \in Threads, Build(t)
    PROVE  TypeInv'
<1>0. /\ ThreadsInv /\ own[t] \in Locals /\ own[t].offered <= requests.offered
      /\ active \in Topologies /\ requests \in Requests
      /\ {"build", "ended", "sweep", "check", "off", "ask"} \subseteq Labels
  BY DEF TypeInv, ThreadsInv, ActiveInv, RequestsInv, Labels
<1>1. CASE Start(t)
  <2> DEFINE locals == [own[t] EXCEPT !.base = active]
  <2>1. locals \in Locals /\ locals.offered <= requests.offered
    BY <1>0 DEF Locals
  <2>2. /\ own' = [own EXCEPT ![t] = locals] /\ requests' = requests
        /\ pc' \in [Threads -> Labels]
    BY <1>0, <1>1, Going DEF Start, control
  <2> HIDE DEF locals
  <2>3. ThreadsInv'
    BY <1>0, <2>1, <2>2, Holding
  <2> QED
    BY <1>1, <2>3, OnlyThreads DEF Start
<1>2. CASE Publish(t)
  <2>1. active' \in Topologies /\ active'.generation = requests.latest
    BY <1>2, BuiltType DEF Publish, IsCurrent
  <2> DEFINE pair == IF own[t].gridOnly /\ own[t].base.id = active.id
                     THEN [published |-> active'.id, replaced |-> active] ELSE None
  <2>2. pair \in Pairs \cup {None}
    BY <1>0, <2>1 DEF Pairs, Topologies
  <2>3. requests' = [requests EXCEPT !.pair = pair]
    BY <1>2 DEF Publish
  <2> HIDE DEF pair
  <2>4. /\ requests' \in Requests /\ requests'.offered = requests.offered
        /\ requests'.taken = requests.taken /\ requests'.latest = requests.latest
        /\ requests.latest \in Nat
    BY <1>0, <2>2, <2>3 DEF Requests
  <2>5. ThreadsInv'
    BY <1>0, <1>2, <2>4, Going, Kept DEF Publish
  <2>6. spent' \in Spents /\ spent'.edits = spent.edits
    BY <1>2 DEF Publish, TypeInv, LiveInv, Spents
  <2>7. RequestsInv' /\ ActiveInv'
    BY <2>1, <2>4 DEF TypeInv, RequestsInv, ActiveInv
  <2> QED
    BY <1>2, <2>5, <2>6, <2>7 DEF Publish, TypeInv, LiveInv, KeyInv, FlagsInv, follower
<1>3. CASE Overtaken(t)
  <2> DEFINE locals == [own[t] EXCEPT !.owed = (t = "follower")]
  <2>1. locals \in Locals /\ locals.offered <= requests.offered
    BY <1>0 DEF Locals
  <2>2. /\ own' = [own EXCEPT ![t] = locals] /\ requests' = requests
        /\ pc' \in [Threads -> Labels]
    BY <1>0, <1>3, Going DEF Overtaken, control
  <2> HIDE DEF locals
  <2>3. ThreadsInv'
    BY <1>0, <2>1, <2>2, Holding
  <2> QED
    BY <1>3, <2>3, OnlyThreads DEF Overtaken
<1>4. CASE BuildFails(t)
  <2>1. ThreadsInv'
    BY <1>0, <1>4, Going, Kept DEF BuildFails
  <2>2. spent' \in Spents /\ spent'.edits = spent.edits
    BY <1>4, Spending DEF BuildFails, TypeInv, LiveInv
  <2>3. ActiveInv'
    BY <1>4, Answering DEF BuildFails, ActiveInv
  <2> QED
    BY <1>4, <2>1, <2>2, <2>3
    DEF BuildFails, TypeInv, LiveInv, KeyInv, RequestsInv, FlagsInv, follower
<1>5. CASE End(t)
  <2>1. ThreadsInv'
    BY <1>0, <1>5, Going, Kept DEF End
  <2> QED
    BY <1>5, <2>1
    DEF End, TypeInv, LiveInv, KeyInv, RequestsInv, ActiveInv, FlagsInv, follower
<1>6. CASE Sweep(t)
  <2>1. requests' = requests /\ pc' \in [Threads -> Labels]
    BY <1>0, <1>6, Going DEF Sweep
  <2>2. PICK locals \in Locals : /\ locals.offered = own[t].offered
                                 /\ own' = [own EXCEPT ![t] = locals]
    <3>1. CASE t = "follower"
      <4> DEFINE owed == own[t].owed \/ pending
      <4>1. owed \in BOOLEAN
        BY DEF owed
      <4>2. own' = [own EXCEPT ![t].owed = owed]
        BY <1>6, <3>1 DEF Sweep
      <4> HIDE DEF owed
      <4> DEFINE locals == [own[t] EXCEPT !.owed = owed]
      <4>3. locals \in Locals /\ locals.offered = own[t].offered
        BY <1>0, <4>1 DEF Locals
      <4>4. own' = [own EXCEPT ![t] = locals]
        BY <4>2
      <4> QED
        BY <4>3, <4>4
    <3>2. CASE t # "follower"
      <4> DEFINE locals == [own[t] EXCEPT !.gridOnly = FALSE]
      <4>1. locals \in Locals /\ locals.offered = own[t].offered
        BY <1>0 DEF Locals
      <4>2. own' = [own EXCEPT ![t] = locals]
        BY <1>6, <3>2 DEF Sweep
      <4> QED
        BY <4>1, <4>2
    <3> QED
      BY <3>1, <3>2
  <2>3. ThreadsInv'
    BY <1>0, <2>1, <2>2, Holding
  <2> QED
    BY <1>6, <2>3
    DEF Sweep, TypeInv, LiveInv, KeyInv, RequestsInv, ActiveInv, FlagsInv, follower
<1> QED
  BY <1>1, <1>2, <1>3, <1>4, <1>5, <1>6 DEF Build

\* The follower's loop.
LEMMA FollowType ==
    ASSUME TypeInv, Follow
    PROVE  TypeInv'
<1>0. /\ ThreadsInv /\ F \in Threads /\ own[F] \in Locals
      /\ own[F].offered <= requests.offered
      /\ {"check", "cas", "off", "decide", "take"} \subseteq Labels
  <2>1. F \in Threads
    BY DEF F, Threads
  <2> QED
    BY <2>1 DEF TypeInv, ThreadsInv, Labels
<1>1. CASE Wake
  <2> DEFINE locals == [own[F] EXCEPT !.owed = FALSE]
  <2>1. locals \in Locals /\ locals.offered <= requests.offered
    BY <1>0 DEF Locals
  <2>2. /\ own' = [own EXCEPT ![F] = locals] /\ requests' = requests
        /\ pc' \in [Threads -> Labels]
    BY <1>0, <1>1, Going DEF Wake, control
  <2> HIDE DEF locals
  <2>3. ThreadsInv'
    BY <1>0, <2>1, <2>2, Holding
  <2> QED
    BY <1>1, <2>3 DEF Wake, TypeInv, LiveInv, KeyInv, RequestsInv, ActiveInv, FlagsInv, control
<1>2. CASE Check
  <2>1. ThreadsInv'
    BY <1>0, <1>2, Going, Kept DEF Check, control
  <2> QED
    BY <1>2, <2>1, OnlyThreads DEF Check
<1>3. CASE CompareExchange
  <2>1. ThreadsInv'
    BY <1>0, <1>3, Going, Kept DEF CompareExchange
  <2> QED
    BY <1>3, <2>1
    DEF CompareExchange, TypeInv, LiveInv, KeyInv, RequestsInv, ActiveInv, FlagsInv, follower
<1>4. CASE Decide
  <2> DEFINE rebuild == own[F].owed \/ Outdated
             locals == [own[F] EXCEPT !.rebuild = rebuild, !.owed = FALSE, !.gridOnly = FALSE]
  <2>1. rebuild \in BOOLEAN
    BY DEF rebuild
  <2>2. own' = [own EXCEPT ![F].rebuild = rebuild, ![F].owed = FALSE, ![F].gridOnly = FALSE]
    BY <1>4 DEF Decide
  <2> HIDE DEF rebuild
  <2>3. locals \in Locals /\ locals.offered <= requests.offered
    BY <1>0, <2>1 DEF Locals
  <2>4. own' = [own EXCEPT ![F] = locals] /\ own'[F].rebuild \in BOOLEAN
    <3>1. own \in [Threads -> Locals]
      BY <1>0 DEF ThreadsInv
    <3> QED
      BY <1>0, <2>1, <2>2, <3>1 DEF Locals
  <2>5. Decided(F, own'[F].rebuild) \in Labels
    BY <1>0, <2>4, Places
  <2>6. requests' = requests /\ pc' \in [Threads -> Labels]
    BY <1>0, <1>4, <2>5, Going DEF Decide, control
  <2> HIDE DEF locals
  <2>7. ThreadsInv'
    BY <1>0, <2>3, <2>4, <2>6, Holding
  <2> QED
    BY <1>4, <2>7, OnlyThreads DEF Decide
<1> QED
  BY <1>1, <1>2, <1>3, <1>4 DEF Follow

\* The follower's end: it is at no other place, and nothing asks it any more.
LEMMA PanicType ==
    ASSUME TypeInv, FollowerPanics
    PROVE  TypeInv'
<1>1. F \in Threads /\ F = "follower" /\ "dead" \in Labels
  BY DEF F, Threads, Labels
<1>2. pc' \in [Threads -> Labels] /\ own' = own /\ requests' = requests
  BY <1>1, Going DEF FollowerPanics, control, TypeInv
<1>3. ThreadsInv'
  BY <1>2, Kept DEF TypeInv
<1>4. spent' \in Spents /\ spent'.edits = spent.edits
  BY Spending DEF FollowerPanics, TypeInv, LiveInv
<1>5. asked' = FALSE /\ UNCHANGED <<live, control, installed, byHost>>
  BY DEF FollowerPanics
<1> QED
  BY <1>3, <1>4, <1>5
  DEF TypeInv, LiveInv, KeyInv, RequestsInv, ActiveInv, FlagsInv, control

LEMMA NextType == TypeInv /\ [Next]_vars => TypeInv'
<1> SUFFICES ASSUME TypeInv, [Next]_vars
             PROVE  TypeInv'
  OBVIOUS
<1>1. CASE UNCHANGED vars
  BY <1>1 DEF vars, TypeInv, LiveInv, KeyInv, RequestsInv, ActiveInv, FlagsInv, ThreadsInv,
              control, follower, threads
<1>2. ASSUME NEW t \in Threads, Proceed(t)
      PROVE  TypeInv'
  BY <1>2, TakeType, RequestGridType, StartRecomputeType, BuildType, FollowType, ListenerType
  DEF Proceed
<1>3. CASE Next
  BY <1>2, <1>3, AroundType, ListenerType, PanicType DEF Next
<1> QED
  BY <1>1, <1>3

\* RendererControl's fields: every variable keeps its type for every bound, a topology in
\* force never answers a request nobody made, and no hint is taken that was not offered.
THEOREM TypeCorrect == Spec => []TypeOK
<1>1. Init => TypeInv
  BY InitType
<1>2. TypeInv /\ [Next]_vars => TypeInv'
  BY NextType
<1>3. TypeInv => TypeOK
  BY TypeInvGivesTypeOK
<1> QED
  BY <1>1, <1>2, <1>3, PTL DEF Spec

-----------------------------------------------------------------------------
(* What comes into force. *)

LEMMA InForceStep ==
    ASSUME TypeInv, [Next]_vars, active'.id # active.id
    PROVE  active'.generation = requests'.latest
<1>1. ASSUME NEW t \in Threads, Proceed(t)
      PROVE  active'.generation = requests'.latest
  <2>1. CASE Take(t)
    BY <2>1 DEF Take, TakeOffered, TakeHint, TakeStore, TakeLive, control
  <2>2. CASE RequestGrid(t)
    <3>1. CASE Adopt(t)
      BY <3>1, AdoptType
    <3>2. CASE ~Adopt(t)
      BY <2>2, <3>2 DEF RequestGrid, RequestRead, Unchanged, NeedRebuild, CheckRunning,
                        CheckInFlight, control
    <3> QED
      BY <3>1, <3>2
  <2>3. CASE StartRecompute(t)
    <3>1. CASE PlanRefused(t)
      BY <3>1, Answering DEF PlanRefused
    <3>2. CASE ~PlanRefused(t)
      BY <2>3, <3>2 DEF StartRecompute, Ask, CheckBusy, Queue, RecordRead, RecordLock,
                        PlanLayout, PlanGrid, Claim, Spawn, control
    <3> QED
      BY <3>1, <3>2
  <2>4. CASE Build(t)
    <3>1. CASE Publish(t)
      <4>1. requests \in Requests /\ active' = Built(t) /\ IsCurrent(t)
        BY <3>1 DEF Publish, TypeInv, RequestsInv
      <4>2. requests'.latest = requests.latest
        BY <3>1, <4>1 DEF Publish, Requests
      <4> QED
        BY <4>1, <4>2, BuiltType DEF IsCurrent
    <3>2. CASE BuildFails(t)
      BY <3>2, Answering DEF BuildFails
    <3>3. CASE ~Publish(t) /\ ~BuildFails(t)
      BY <2>4, <3>3 DEF Build, Start, Overtaken, End, Sweep, control
    <3> QED
      BY <3>1, <3>2, <3>3
  <2>5. CASE PollLayout \/ PollHint \/ ApplyEffects
    BY <2>5 DEF PollLayout, PollHint, ApplyEffects, control
  <2>6. CASE Follow
    BY <2>6 DEF Follow, Wake, Check, CompareExchange, Decide, control
  <2> QED
    BY <1>1, <2>1, <2>2, <2>3, <2>4, <2>5, <2>6 DEF Proceed
<1>2. CASE ~\E t \in Threads : Proceed(t)
  BY <1>2 DEF Next, Poll, Install, Offer, EditGrid, LandSet, Stage, Apply, SwitchSource,
              StartListener, StopListener, Claims, FollowerPanics, control, vars
<1> QED
  BY <1>1, <1>2

\* publish_topology_if_current and request_live_grid: whatever rebuilds overlap, and
\* however many threads run them, a topology comes into force, built or put back, only as
\* the answer to the latest grid request.
THEOREM LatestComesIntoForce == Spec => InForceIsLatest
<1>1. Init => TypeInv
  BY InitType
<1>2. TypeInv /\ [Next]_vars => TypeInv'
  BY NextType
<1>3. TypeInv /\ [Next]_vars
        => [active'.id # active.id => active'.generation = requests'.latest]_vars
  BY InForceStep
<1> QED
  BY <1>1, <1>2, <1>3, PTL DEF Spec, InForceIsLatest

-----------------------------------------------------------------------------
(* A follower that panicked is gone: no step of any thread brings it back.   *)

LEMMA DeadStays ==
    ASSUME TypeInv, [Next]_vars, ~FollowerLives
    PROVE  ~FollowerLives'
<1>0. pc \in [Threads -> Labels] /\ F \in Threads /\ F = "follower" /\ pc[F] = "dead"
  BY DEF TypeInv, ThreadsInv, F, Threads, FollowerLives
<1> SUFFICES pc'[F] = "dead"
  BY <1>0 DEF FollowerLives
<1>1. ASSUME NEW t \in Threads, NEW label, Goto(t, label), pc[t] # "dead"
      PROVE  pc'[F] = "dead"
  BY <1>0, <1>1 DEF Goto
<1>2. ASSUME NEW t \in Threads, Take(t) \/ RequestGrid(t)
      PROVE  pc'[F] = "dead"
  BY <1>1, <1>2 DEF Take, TakeOffered, TakeHint, TakeStore, TakeLive, RequestGrid,
      RequestRead, Unchanged, Adopt, NeedRebuild, CheckRunning, CheckInFlight, At
<1>3. ASSUME NEW t \in Threads, StartRecompute(t)
      PROVE  pc'[F] = "dead"
  <2>1. ASSUME NEW w \in Workers, Spawn(t, w)
        PROVE  pc'[F] = "dead"
    BY <1>0, <2>1 DEF Spawn, At, Threads
  <2>2. CASE ~\E w \in Workers : Spawn(t, w)
    BY <1>1, <1>3, <2>2 DEF StartRecompute, Ask, CheckBusy, Queue, RecordRead, RecordLock,
        PlanLayout, PlanGrid, PlanRefused, Claim, At
  <2> QED
    BY <2>1, <2>2
<1>4. ASSUME NEW t \in Threads, Build(t)
      PROVE  pc'[F] = "dead"
  BY <1>1, <1>4 DEF Build, Start, Publish, Overtaken, BuildFails, End, Sweep, At
<1>5. CASE Follow
  BY <1>0, <1>1, <1>5 DEF Follow, Wake, Check, CompareExchange, Decide, At
<1>6. CASE \/ Apply \/ SwitchSource \/ StartListener \/ StopListener
           \/ PollLayout \/ PollHint \/ ApplyEffects \/ \E g \in Grids : EditGrid(g)
  <2>1. "listener" \in Threads
    BY DEF Threads
  <2>2. PICK label : Goto("listener", label) /\ pc["listener"] # "dead"
    BY <1>6 DEF Apply, SwitchSource, StartListener, StopListener, Claims, PollLayout,
        PollHint, ApplyEffects, EditGrid, Trigger, At
  <2> QED
    BY <1>1, <2>1, <2>2
<1>7. CASE FollowerPanics
  BY <1>0, <1>7 DEF FollowerPanics, At
<1>8. CASE \/ Poll \/ Install \/ Stage \/ UNCHANGED vars
           \/ (\E on \in BOOLEAN : LandSet(on)) \/ (\E g \in Grids : Offer(g))
  <2>1. pc' = pc
    BY <1>8 DEF Poll, Install, Stage, LandSet, Offer, vars, threads
  <2> QED
    BY <1>0, <2>1
<1> QED
  BY <1>2, <1>3, <1>4, <1>5, <1>6, <1>7, <1>8 DEF Next, Proceed

-----------------------------------------------------------------------------
(* Who owes the answer.  A generation not yet in force is owed by a thread   *)
(* on its way to a plan, by one whose plan carries it, by the follower's next *)
(* round, or by whoever sweeps the queued flag.                              *)

ToPlan == {"ask", "busy", "queue", "record", "recordLock", "plan", "planGrid"}
Planned == {"claim", "spawn", "start", "build"}
Rounds == {"check", "cas", "decide"}
Deciding == {"take", "takeHint", "taken", "takeLive", "request", "lock"}

Owes(t) ==
    \/ pc[t] \in ToPlan
    \/ pc[t] \in Planned /\ own[t].plan.generation = requests.latest
    \/ t = F /\ pc[t] \in Rounds /\ own[t].owed
    \/ t = F /\ pc[t] \in Deciding /\ own[t].rebuild

DebtInv ==
    active.generation # requests.latest => pending \/ \E t \in Threads : Owes(t)

\* Nothing is requested and nothing answered: whoever owes goes on owing.
LEMMA Carried ==
    ASSUME DebtInv, active'.generation = active.generation,
           requests'.latest = requests.latest, pending => pending',
           \A s \in Threads : Owes(s) => Owes(s)' \/ pending'
    PROVE  DebtInv'
BY DEF DebtInv

\* One thread moves, and owes what it owed or leaves it queued.
LEMMA CarriedBy ==
    ASSUME TypeInv, DebtInv, NEW t \in Threads, NEW label, Goto(t, label),
           \/ own' = own \/ \E locals : own' = [own EXCEPT ![t] = locals],
           active'.generation = active.generation,
           requests'.latest = requests.latest, pending => pending',
           Owes(t) => Owes(t)' \/ pending'
    PROVE  DebtInv'
<1>1. ASSUME NEW s \in Threads \ {t}
      PROVE  Owes(s) => Owes(s)'
  <2>1. pc'[s] = pc[s] /\ own'[s] = own[s]
    BY DEF TypeInv, ThreadsInv, Goto
  <2> QED
    BY <2>1 DEF Owes
<1> QED
  BY <1>1, Carried

LEMMA TakeDebt ==
    ASSUME TypeInv, DebtInv, NEW t \in Threads, Take(t)
    PROVE  DebtInv'
<1>0. own[t] \in Locals /\ own \in [Threads -> Locals] /\ pc \in [Threads -> Labels]
  BY DEF TypeInv, ThreadsInv
<1> USE DEF ToPlan, Planned, Rounds, Deciding
<1>1. CASE TakeOffered(t)
  <2>1. own'[t].rebuild = own[t].rebuild /\ pc[t] = "take" /\ pc'[t] = "takeHint"
    BY <1>0, <1>1 DEF TakeOffered, Goto, At, Locals
  <2>2. Owes(t) => Owes(t)'
    BY <2>1 DEF Owes
  <2> QED
    BY <1>1, <2>2, CarriedBy DEF TakeOffered, control
<1>2. CASE TakeHint(t)
  <2>1. own'[t].rebuild = own[t].rebuild /\ pc[t] = "takeHint" /\ pc'[t] = "taken"
    BY <1>0, <1>2 DEF TakeHint, Goto, At, Locals
  <2>2. Owes(t) => Owes(t)'
    BY <2>1 DEF Owes
  <2> QED
    BY <1>2, <2>2, CarriedBy DEF TakeHint, control
<1>3. CASE TakeStore(t)
  <2>1. own' = own /\ pc[t] = "taken" /\ pc'[t] = "takeLive"
    BY <1>0, <1>3 DEF TakeStore, Goto, At
  <2>2. Owes(t) => Owes(t)'
    BY <2>1 DEF Owes
  <2>3. requests'.latest = requests.latest
    BY <1>3 DEF TakeStore, TypeInv, RequestsInv, Requests
  <2> QED
    BY <1>3, <2>2, <2>3, CarriedBy DEF TakeStore
<1>4. CASE TakeLive(t)
  <2>1. PICK label : Goto(t, label) /\ label \in {"request", Decided(t, own[t].rebuild)}
    BY <1>4 DEF TakeLive
  <2>2. own' = own /\ pc[t] = "takeLive" /\ pc'[t] = label
    BY <1>0, <1>4, <2>1 DEF TakeLive, Goto, At
  <2>3. Owes(t) => Owes(t)'
    BY <2>1, <2>2 DEF Owes, Decided, F
  <2> QED
    BY <1>4, <2>1, <2>3, CarriedBy DEF TakeLive, control
<1> QED
  BY <1>1, <1>2, <1>3, <1>4 DEF Take

LEMMA RequestGridDebt ==
    ASSUME TypeInv, DebtInv, NEW t \in Threads, RequestGrid(t)
    PROVE  DebtInv'
<1>0. own[t] \in Locals /\ own \in [Threads -> Locals] /\ pc \in [Threads -> Labels]
  BY DEF TypeInv, ThreadsInv
<1> USE DEF ToPlan, Planned, Rounds, Deciding
<1>1. CASE RequestRead(t)
  <2>1. own'[t].rebuild = own[t].rebuild /\ pc[t] = "request" /\ pc'[t] = "lock"
    BY <1>0, <1>1 DEF RequestRead, Goto, At, Locals
  <2>2. Owes(t) => Owes(t)'
    BY <2>1 DEF Owes
  <2> QED
    BY <1>1, <2>2, CarriedBy DEF RequestRead, control
<1>2. CASE Unchanged(t)
  <2>1. own' = own /\ pc[t] = "lock" /\ pc'[t] = Decided(t, own[t].rebuild)
    BY <1>0, <1>2 DEF Unchanged, Goto, At
  <2>2. Owes(t) => Owes(t)'
    BY <2>1 DEF Owes, Decided, F
  <2> QED
    BY <1>2, <2>2, CarriedBy DEF Unchanged, control
<1>3. CASE Adopt(t)
  BY <1>3, AdoptType DEF DebtInv
<1>4. CASE NeedRebuild(t)
  <2>1. pc'[t] \in {"plan", "ask"}
    BY <1>0, <1>4 DEF NeedRebuild, Goto
  <2> QED
    BY <2>1 DEF DebtInv, Owes
<1>5. CASE CheckRunning(t)
  <2>1. PICK label : Goto(t, label) /\ pc[t] = "adopted"
    BY <1>5 DEF CheckRunning, At
  <2>2. ~Owes(t)
    BY <2>1 DEF Owes
  <2> QED
    BY <1>5, <2>1, <2>2, CarriedBy DEF CheckRunning, control
<1>6. CASE CheckInFlight(t)
  <2>1. PICK label : Goto(t, label) /\ pc[t] = "inFlight"
    BY <1>6 DEF CheckInFlight, At
  <2>2. ~Owes(t)
    BY <2>1 DEF Owes
  <2> QED
    BY <1>6, <2>1, <2>2, CarriedBy DEF CheckInFlight, control
<1> QED
  BY <1>1, <1>2, <1>3, <1>4, <1>5, <1>6 DEF RequestGrid

LEMMA StartRecomputeDebt ==
    ASSUME MaxRefusals = 0, TypeInv, DebtInv, NEW t \in Threads, StartRecompute(t)
    PROVE  DebtInv'
<1>0. /\ own[t] \in Locals /\ own \in [Threads -> Locals] /\ pc \in [Threads -> Labels]
      /\ requests \in Requests
  BY DEF TypeInv, ThreadsInv, RequestsInv
<1>r. ~Spend("refusals", MaxRefusals)
  BY DEF TypeInv, LiveInv, Spents, Spend
<1> USE DEF ToPlan, Planned, Rounds, Deciding
<1>1. CASE Ask(t)
  <2>1. Goto(t, "busy")
    BY <1>r, <1>1 DEF Ask
  <2>2. Owes(t)'
    BY <1>0, <2>1 DEF Goto, Owes
  <2> QED
    BY <2>2 DEF DebtInv
<1>2. CASE CheckBusy(t)
  <2>1. pc'[t] \in {"queue", "plan", "record"}
    BY <1>0, <1>2 DEF CheckBusy, Goto
  <2> QED
    BY <2>1 DEF DebtInv, Owes
<1>3. CASE Queue(t)
  BY <1>3 DEF Queue, DebtInv
<1>4. CASE RecordRead(t)
  <2>1. pc'[t] = "recordLock"
    BY <1>0, <1>4 DEF RecordRead, Goto
  <2> QED
    BY <2>1 DEF DebtInv, Owes
<1>5. CASE RecordLock(t)
  <2>1. pc'[t] = "plan"
    BY <1>0, <1>5 DEF RecordLock, Goto
  <2> QED
    BY <2>1 DEF DebtInv, Owes
<1>6. CASE PlanLayout(t)
  <2>1. pc'[t] = "planGrid"
    BY <1>0, <1>6 DEF PlanLayout, Goto
  <2> QED
    BY <2>1 DEF DebtInv, Owes
<1>7. CASE PlanGrid(t)
  <2>1. pc'[t] \in {"start", "claim"} /\ requests' = requests
    BY <1>0, <1>7 DEF PlanGrid, Goto, control
  <2>2. own'[t].plan.generation = requests.latest
    BY <1>0, <1>7 DEF PlanGrid, Locals, Plans
  <2> QED
    BY <2>1, <2>2 DEF DebtInv, Owes
<1>8. CASE PlanRefused(t)
  BY <1>r, <1>8 DEF PlanRefused
<1>9. CASE Claim(t)
  <2>1. own' = own /\ requests' = requests /\ pc[t] = "claim" /\ pc'[t] = "spawn"
    BY <1>0, <1>9 DEF Claim, Goto, At
  <2>2. Owes(t) => Owes(t)'
    BY <2>1 DEF Owes
  <2> QED
    BY <1>9, <2>2, CarriedBy DEF Claim
<1>10. ASSUME NEW w \in Workers, Spawn(t, w)
       PROVE  DebtInv'
  <2>1. w \in Threads
    BY DEF Threads
  <2>2. requests'.latest = requests.latest
    BY <1>0, <1>10 DEF Spawn, Requests
  <2>3. pc[t] = "spawn" /\ (w = t \/ pc[w] = "off") /\ pc'[w] = "start"
    BY <1>0, <1>10, <2>1 DEF Spawn, At
  <2>4. own'[w].plan = own[t].plan
    BY <1>0, <1>10, <2>1 DEF Spawn, Locals
  <2>5. Owes(t) => Owes(w)'
    BY <2>2, <2>3, <2>4 DEF Owes
  <2>6. ASSUME NEW s \in Threads \ {t, w}
        PROVE  Owes(s) => Owes(s)'
    <3>1. pc'[s] = pc[s] /\ own'[s] = own[s]
      BY <1>0, <1>10 DEF Spawn
    <3> QED
      BY <2>2, <3>1 DEF Owes
  <2>7. w # t => ~Owes(w)
    BY <2>3 DEF Owes
  <2> QED
    BY <1>10, <2>1, <2>2, <2>5, <2>6, <2>7 DEF Spawn, DebtInv
<1> QED
  BY <1>1, <1>2, <1>3, <1>4, <1>5, <1>6, <1>7, <1>8, <1>9, <1>10 DEF StartRecompute

LEMMA BuildDebt ==
    ASSUME TypeInv, DebtInv, NEW t \in Threads, Build(t)
    PROVE  DebtInv'
<1>0. /\ own[t] \in Locals /\ own \in [Threads -> Locals] /\ pc \in [Threads -> Labels]
      /\ requests \in Requests /\ F = "follower"
  BY DEF TypeInv, ThreadsInv, RequestsInv, F
<1> USE DEF ToPlan, Planned, Rounds, Deciding
<1>1. CASE Start(t)
  <2>1. /\ own'[t].plan = own[t].plan /\ requests' = requests
        /\ pc[t] = "start" /\ pc'[t] = "build"
    BY <1>0, <1>1 DEF Start, Goto, At, Locals, control
  <2>2. Owes(t) => Owes(t)'
    BY <2>1 DEF Owes
  <2> QED
    BY <1>1, <2>2, CarriedBy DEF Start, control
<1>2. CASE Publish(t)
  <2>1. requests'.latest = requests.latest
    BY <1>0, <1>2 DEF Publish, Requests
  <2>2. active'.generation = requests.latest
    BY <1>2, BuiltType DEF Publish, IsCurrent
  <2> QED
    BY <2>1, <2>2 DEF DebtInv
<1>3. CASE Overtaken(t)
  <2>1. ~Owes(t)
    BY <1>3 DEF Overtaken, At, IsCurrent, Owes
  <2> QED
    BY <1>3, <2>1, CarriedBy DEF Overtaken, control
<1>4. CASE BuildFails(t)
  BY <1>4, Answering DEF BuildFails, DebtInv
<1>5. CASE End(t)
  <2>1. ~Owes(t)
    BY <1>5 DEF End, At, Owes
  <2> QED
    BY <1>5, <2>1, CarriedBy DEF End
<1>6. CASE Sweep(t)
  <2>1. pc[t] = "sweep" /\ ~Owes(t)
    BY <1>6 DEF Sweep, At, Owes
  <2>2. CASE pending
    <3>1. CASE t = F
      <4>1. own'[t].owed /\ pc'[t] = "check"
        <5>1. own' = [own EXCEPT ![t].owed = own[t].owed \/ pending]
          BY <1>0, <1>6, <3>1 DEF Sweep
        <5>2. own'[t].owed
          BY <1>0, <2>2, <5>1 DEF Locals
        <5>3. Goto(t, IF own'[t].owed \/ Outdated \/ HintPending THEN "check" ELSE "off")
          BY <1>0, <1>6, <3>1 DEF Sweep
        <5> QED
          BY <1>0, <5>2, <5>3 DEF Goto
      <4> QED
        BY <3>1, <4>1 DEF DebtInv, Owes
    <3>2. CASE t # F
      <4>1. pc'[t] = "ask"
        BY <1>0, <1>6, <2>2, <3>2 DEF Sweep, Goto
      <4> QED
        BY <4>1 DEF DebtInv, Owes
    <3> QED
      BY <3>1, <3>2
  <2>3. CASE ~pending
    <3>1. PICK label : Goto(t, label)
      BY <1>6 DEF Sweep
    <3>2. \E locals : own' = [own EXCEPT ![t] = locals]
      BY <1>6 DEF Sweep
    <3>3. active' = active /\ requests' = requests
      BY <1>6 DEF Sweep
    <3> QED
      BY <2>1, <2>3, <3>1, <3>2, <3>3, CarriedBy
  <2> QED
    BY <2>2, <2>3
<1> QED
  BY <1>1, <1>2, <1>3, <1>4, <1>5, <1>6 DEF Build

LEMMA FollowDebt ==
    ASSUME TypeInv, DebtInv, Follow
    PROVE  DebtInv'
<1>0. /\ F \in Threads /\ own[F] \in Locals /\ own \in [Threads -> Locals]
      /\ pc \in [Threads -> Labels] /\ F = "follower"
  <2>1. F \in Threads
    BY DEF F, Threads
  <2> QED
    BY <2>1 DEF TypeInv, ThreadsInv, F
<1> USE DEF ToPlan, Planned, Rounds, Deciding
<1>1. CASE Wake
  <2>1. ~Owes(F)
    BY <1>1 DEF Wake, At, Owes
  <2> QED
    BY <1>0, <1>1, <2>1, CarriedBy DEF Wake, control
<1>2. CASE Check
  <2>1. PICK label : Goto(F, label) /\ (own[F].owed => label = "cas")
    BY <1>2 DEF Check
  <2>2. own' = own /\ pc[F] = "check" /\ pc'[F] = label
    BY <1>0, <1>2, <2>1 DEF Check, Goto, At
  <2>3. Owes(F) => Owes(F)'
    BY <2>1, <2>2 DEF Owes
  <2> QED
    BY <1>0, <1>2, <2>1, <2>3, CarriedBy DEF Check, control
<1>3. CASE CompareExchange
  <2>1. PICK label \in {"check", "decide"} : Goto(F, label)
    BY <1>3 DEF CompareExchange
  <2>2. own' = own /\ pc[F] = "cas" /\ pc'[F] = label
    BY <1>0, <1>3, <2>1 DEF CompareExchange, Goto, At
  <2>3. Owes(F) => Owes(F)'
    BY <2>1, <2>2 DEF Owes
  <2> QED
    BY <1>0, <1>3, <2>1, <2>3, CarriedBy DEF CompareExchange
<1>4. CASE Decide
  <2>1. own[F].owed => own'[F].rebuild
    BY <1>0, <1>4 DEF Decide, Locals
  <2>2. PICK label : Goto(F, label) /\ label \in {"take", Decided(F, own'[F].rebuild)}
    BY <1>4 DEF Decide
  <2>3. pc[F] = "decide" /\ pc'[F] = label
    BY <1>0, <1>4, <2>2 DEF Decide, Goto, At
  <2>4. Owes(F) => Owes(F)'
    BY <1>0, <2>1, <2>2, <2>3 DEF Owes, Decided
  <2>5. \E locals : own' = [own EXCEPT ![F] = locals]
    BY <1>4 DEF Decide
  <2>6. active' = active /\ requests' = requests /\ pending' = pending
    BY <1>4 DEF Decide, control
  <2> QED
    BY <1>0, <2>2, <2>4, <2>5, <2>6, CarriedBy
<1> QED
  BY <1>1, <1>2, <1>3, <1>4 DEF Follow

\* The listener owes nothing before its steps from rest, nor on its way to ask.
LEMMA ListenerDebt ==
    ASSUME TypeInv, DebtInv,
           \/ Stage \/ Apply \/ SwitchSource \/ StartListener \/ StopListener
           \/ PollLayout \/ PollHint \/ ApplyEffects \/ \E g \in Grids : EditGrid(g)
    PROVE  DebtInv'
<1> DEFINE L == "listener"
<1>1. L \in Threads
  BY DEF Threads
<1>2. /\ active' = active /\ requests' = requests /\ pending' = pending
  BY DEF Stage, Apply, SwitchSource, StartListener, StopListener, Claims, PollLayout, PollHint,
         ApplyEffects, EditGrid, control
<1>3. CASE Stage
  <2>1. UNCHANGED <<pc, own>>
    BY <1>3 DEF Stage, threads
  <2> QED
    BY <1>2, <2>1 DEF DebtInv, Owes
<1>4. CASE ~Stage
  <2>1. /\ pc[L] \in {"idle", "off", "effects"}
        /\ \E label : Goto(L, label)
        /\ own' = own \/ \E locals : own' = [own EXCEPT ![L] = locals]
    BY <1>4 DEF Apply, SwitchSource, StartListener, StopListener, Claims, PollLayout, PollHint,
                ApplyEffects, EditGrid, Trigger, At
  <2>2. ~Owes(L)
    BY <2>1 DEF Owes, ToPlan, Planned, Rounds, Deciding
  <2> QED
    BY <1>1, <1>2, <2>1, <2>2, CarriedBy
<1> QED
  BY <1>3, <1>4

LEMMA DebtStep ==
    ASSUME MaxRefusals = 0, TypeInv, DebtInv, [Next]_vars, ~FollowerPanics
    PROVE  DebtInv'
<1>1. ASSUME NEW t \in Threads, Proceed(t)
      PROVE  DebtInv'
  BY <1>1, TakeDebt, RequestGridDebt, StartRecomputeDebt, BuildDebt, FollowDebt, ListenerDebt
  DEF Proceed
<1>2. CASE Poll \/ Install \/ (\E on \in BOOLEAN : LandSet(on)) \/ UNCHANGED vars
  BY <1>2 DEF Poll, Install, LandSet, vars, control, threads, DebtInv, Owes
<1>3. ASSUME NEW g \in Grids, Offer(g)
      PROVE  DebtInv'
  <2>1. requests'.latest = requests.latest
    BY <1>3 DEF Offer, TypeInv, RequestsInv, Requests
  <2> QED
    BY <1>3, <2>1 DEF Offer, threads, DebtInv, Owes
<1> QED
  BY <1>1, <1>2, <1>3, ListenerDebt DEF Next

\* A follower that panics takes with it what it owed, and never rests again.
OwedWhileFollowed == FollowerLives => DebtInv

\* evaluation_grid.rs:22-25: unless the backend refuses a plan, whatever builds overlap,
\* fail or are overtaken, and however many threads run them, once all is quiet the topology
\* in force answers the latest grid request: no request is forgotten between its counting
\* and its answer.
THEOREM Answered ==
    ASSUME MaxRefusals = 0
    PROVE  Spec => []AnsweredWhenQuiet
<1>1. Init => TypeInv /\ OwedWhileFollowed
  <2>1. Init => DebtInv
    BY DEF Init, DebtInv
  <2> QED
    BY <2>1, InitType DEF OwedWhileFollowed
<1>2. ASSUME TypeInv, OwedWhileFollowed, [Next]_vars
      PROVE  OwedWhileFollowed'
  <2>1. CASE ~FollowerLives
    BY <1>2, <2>1, DeadStays DEF OwedWhileFollowed
  <2>2. CASE FollowerPanics
    <3>1. pc'["follower"] = "dead"
      BY <1>2, <2>2 DEF FollowerPanics, Goto, TypeInv, ThreadsInv, Threads
    <3> QED
      BY <3>1 DEF OwedWhileFollowed, FollowerLives
  <2>3. CASE FollowerLives /\ ~FollowerPanics
    <3>1. DebtInv
      BY <1>2, <2>3 DEF OwedWhileFollowed
    <3> QED
      BY <1>2, <2>3, <3>1, DebtStep DEF OwedWhileFollowed
  <2> QED
    BY <2>1, <2>2, <2>3
<1>3. TypeInv /\ OwedWhileFollowed => AnsweredWhenQuiet
  <2> SUFFICES ASSUME OwedWhileFollowed, Quiet
               PROVE  active.generation = requests.latest
    BY DEF AnsweredWhenQuiet
  <2>1. FollowerLives
    BY DEF Quiet, FollowerLives, Threads
  <2> QED
    BY <2>1 DEF OwedWhileFollowed, DebtInv, Quiet, Owes, ToPlan, Planned, Rounds, Deciding
<1>4. TypeInv /\ OwedWhileFollowed /\ [Next]_vars => (TypeInv /\ OwedWhileFollowed)'
  BY <1>2, NextType
<1> QED
  BY <1>1, <1>3, <1>4, PTL DEF Spec

-----------------------------------------------------------------------------
(* Who lowers the flag.  Two threads may both build after a claim that came  *)
(* in between, and the first to end lowers the flag under the other; but a   *)
(* flag that is up is always held by somebody on the way to lower it.        *)

Lowering == {"spawn", "start", "build", "ended"}
Holds(t) ==
    \/ pc[t] \in Lowering
    \/ t = F /\ pc[t] \in Deciding \cup {"decide", "plan", "planGrid"}
RaisedIsHeld == recomputing => \E t \in Threads : Holds(t)

\* One thread moves, and holds the flag it held.
LEMMA HeldBy ==
    ASSUME TypeInv, RaisedIsHeld, NEW t \in Threads, NEW label, Goto(t, label),
           recomputing' => recomputing, Holds(t) => Holds(t)'
    PROVE  RaisedIsHeld'
<1>1. ASSUME NEW s \in Threads \ {t}
      PROVE  Holds(s) => Holds(s)'
  <2>1. pc'[s] = pc[s]
    BY DEF TypeInv, ThreadsInv, Goto
  <2> QED
    BY <2>1 DEF Holds
<1> QED
  BY <1>1 DEF RaisedIsHeld

LEMMA HeldStep ==
    ASSUME TypeInv, RaisedIsHeld, [Next]_vars, ~FollowerPanics
    PROVE  RaisedIsHeld'
<1>0. pc \in [Threads -> Labels] /\ F = "follower"
  BY DEF TypeInv, ThreadsInv, F
<1> USE DEF Lowering, Deciding
<1>1. ASSUME NEW t \in Threads, Take(t) \/ RequestGrid(t)
      PROVE  RaisedIsHeld'
  <2>1. PICK label : /\ Goto(t, label)
                     /\ \/ label \in Deciding
                        \/ label \in {"plan", "ask", "adopted", "queue", Rest(t)} /\ t # F
                        \/ label \in {"plan", "ended"} /\ t = F
                        \/ pc[t] \in {"adopted", "inFlight"}
    BY <1>0, <1>1 DEF Take, TakeOffered, TakeHint, TakeStore, TakeLive, RequestGrid, RequestRead,
                      Unchanged, Adopt, NeedRebuild, CheckRunning, CheckInFlight, Decided, At
  <2>2. pc'[t] = label
    BY <1>0, <2>1 DEF Goto
  <2>3. pc[t] \in Deciding \cup {"adopted", "inFlight"}
    BY <1>1 DEF Take, TakeOffered, TakeHint, TakeStore, TakeLive, RequestGrid, RequestRead,
                Unchanged, Adopt, NeedRebuild, CheckRunning, CheckInFlight, At
  <2>4. Holds(t) => Holds(t)'
    BY <2>1, <2>2, <2>3 DEF Holds
  <2>5. recomputing' = recomputing
    BY <1>1 DEF Take, TakeOffered, TakeHint, TakeStore, TakeLive, RequestGrid, RequestRead,
                Unchanged, Adopt, NeedRebuild, CheckRunning, CheckInFlight, control
  <2> QED
    BY <2>1, <2>4, <2>5, HeldBy
<1>2. ASSUME NEW t \in Threads, StartRecompute(t)
      PROVE  RaisedIsHeld'
  <2>1. CASE Claim(t)
    <3>1. pc'[t] = "spawn"
      BY <1>0, <2>1 DEF Claim, Goto
    <3> QED
      BY <3>1 DEF RaisedIsHeld, Holds
  <2>2. ASSUME NEW w \in Workers, Spawn(t, w)
        PROVE  RaisedIsHeld'
    <3>1. w \in Threads /\ pc'[w] = "start"
      BY <1>0, <2>2 DEF Spawn, Threads
    <3> QED
      BY <3>1 DEF RaisedIsHeld, Holds
  <2>3. CASE Ask(t) \/ CheckBusy(t) \/ Queue(t) \/ RecordRead(t) \/ RecordLock(t)
    <3>1. PICK label : /\ Goto(t, label) /\ label \in Labels \cup {Rest(t)}
                       /\ pc[t] \in {"ask", "busy", "queue", "record", "recordLock"}
      BY <2>3 DEF Ask, CheckBusy, Queue, RecordRead, RecordLock, At, Labels
    <3>2. ~Holds(t) /\ recomputing' = recomputing
      BY <2>3, <3>1 DEF Holds, Ask, CheckBusy, Queue, RecordRead, RecordLock, control
    <3> QED
      BY <3>1, <3>2, HeldBy
  <2>4. CASE PlanLayout(t) \/ PlanGrid(t) \/ PlanRefused(t)
    <3>1. PICK label : /\ Goto(t, label) /\ pc[t] \in {"plan", "planGrid"}
                       /\ t = F => label \in {"planGrid", "start", "ended"}
      BY <1>0, <2>4 DEF PlanLayout, PlanGrid, PlanRefused, At
    <3>2. pc'[t] = label /\ recomputing' = recomputing
      BY <1>0, <2>4, <3>1 DEF Goto, PlanLayout, PlanGrid, PlanRefused, control
    <3>3. Holds(t) => Holds(t)'
      BY <3>1, <3>2 DEF Holds
    <3> QED
      BY <3>1, <3>2, <3>3, HeldBy
  <2> QED
    BY <1>2, <2>1, <2>2, <2>3, <2>4 DEF StartRecompute
<1>3. ASSUME NEW t \in Threads, Build(t)
      PROVE  RaisedIsHeld'
  <2>1. CASE End(t)
    BY <2>1 DEF End, RaisedIsHeld
  <2>2. CASE Sweep(t)
    <3>1. PICK label : Goto(t, label) /\ pc[t] = "sweep" /\ recomputing' = recomputing
      BY <2>2 DEF Sweep, At
    <3>2. ~Holds(t)
      BY <3>1 DEF Holds
    <3> QED
      BY <3>1, <3>2, HeldBy
  <2>3. CASE Start(t) \/ Publish(t) \/ Overtaken(t) \/ BuildFails(t)
    <3>1. PICK label \in {"build", "ended"} : Goto(t, label) /\ recomputing' = recomputing
      BY <2>3 DEF Start, Publish, Overtaken, BuildFails, control
    <3>2. pc'[t] = label
      BY <1>0, <3>1 DEF Goto
    <3> QED
      BY <3>2 DEF RaisedIsHeld, Holds
  <2> QED
    BY <1>3, <2>1, <2>2, <2>3 DEF Build
<1>4. CASE Follow
  <2>0. F \in Threads
    BY DEF F, Threads
  <2>1. CASE Wake \/ Check
    <3>1. PICK label : Goto(F, label) /\ pc[F] \in {"off", "check"} /\ recomputing' = recomputing
      BY <2>1 DEF Wake, Check, At, control
    <3>2. ~Holds(F)
      BY <3>1 DEF Holds
    <3> QED
      BY <2>0, <3>1, <3>2, HeldBy
  <2>2. CASE CompareExchange
    <3>1. CASE recomputing
      <4>1. PICK label : Goto(F, label) /\ pc[F] = "cas"
        BY <2>2 DEF CompareExchange, At
      <4>2. ~Holds(F)
        BY <4>1 DEF Holds
      <4> QED
        BY <2>0, <3>1, <4>1, <4>2, HeldBy
    <3>2. CASE ~recomputing
      <4>1. pc'[F] = "decide"
        BY <1>0, <2>0, <2>2, <3>2 DEF CompareExchange, Goto
      <4> QED
        BY <2>0, <4>1 DEF RaisedIsHeld, Holds
    <3> QED
      BY <3>1, <3>2
  <2>3. CASE Decide
    <3>1. PICK label \in {"take", "plan", "ended"} : Goto(F, label)
      BY <1>0, <2>3 DEF Decide, Decided
    <3>2. pc'[F] = label
      BY <1>0, <2>0, <3>1 DEF Goto
    <3> QED
      BY <2>0, <3>2 DEF RaisedIsHeld, Holds
  <2> QED
    BY <1>4, <2>1, <2>2, <2>3 DEF Follow
<1>5. CASE \/ Stage \/ Apply \/ SwitchSource \/ StartListener \/ StopListener
           \/ PollLayout \/ PollHint \/ ApplyEffects \/ \E g \in Grids : EditGrid(g)
  <2>1. recomputing' = recomputing /\ "listener" \in Threads
    BY <1>5 DEF Stage, Apply, SwitchSource, StartListener, StopListener, Claims, PollLayout,
                PollHint, ApplyEffects, EditGrid, control, Threads
  <2>2. CASE Stage
    BY <2>1, <2>2 DEF Stage, threads, RaisedIsHeld, Holds
  <2>3. CASE ~Stage
    <3>1. PICK label : Goto("listener", label) /\ pc["listener"] \in {"idle", "off", "effects"}
      BY <1>5, <2>3 DEF Apply, SwitchSource, StartListener, StopListener, Claims, PollLayout,
                        PollHint, ApplyEffects, EditGrid, Trigger, At
    <3>2. ~Holds("listener")
      BY <3>1 DEF Holds
    <3> QED
      BY <2>1, <3>1, <3>2, HeldBy
  <2> QED
    BY <2>2, <2>3
<1>6. CASE \/ Poll \/ Install \/ (\E on \in BOOLEAN : LandSet(on)) \/ UNCHANGED vars
           \/ \E g \in Grids : Offer(g)
  BY <1>6 DEF Poll, Install, LandSet, Offer, vars, control, threads, RaisedIsHeld, Holds
<1> QED
  BY <1>1, <1>2, <1>3, <1>4, <1>5, <1>6 DEF Next, Proceed

\* recompute.rs:117-146 and layout_follower.rs: while the follower lives, the flag clients
\* see as a rebuild running is never up with nobody left to lower it, whichever thread's end
\* lowers it under which other's build: the safety half of RebuildsEnd.  A panic of the
\* follower's build leaves it up.
THEOREM FlagIsHeld == Spec => [](FollowerLives => RaisedIsHeld)
<1> DEFINE Inv == FollowerLives => RaisedIsHeld
<1>1. Init => TypeInv /\ Inv
  <2>1. Init => RaisedIsHeld
    BY DEF Init, RaisedIsHeld
  <2> QED
    BY <2>1, InitType
<1>2. ASSUME TypeInv, Inv, [Next]_vars
      PROVE  Inv'
  <2>1. CASE ~FollowerLives
    BY <1>2, <2>1, DeadStays
  <2>2. CASE FollowerPanics
    <3>1. pc'["follower"] = "dead"
      BY <1>2, <2>2 DEF FollowerPanics, Goto, TypeInv, ThreadsInv, Threads
    <3> QED
      BY <3>1 DEF FollowerLives
  <2>3. CASE FollowerLives /\ ~FollowerPanics
    BY <1>2, <2>3, HeldStep
  <2> QED
    BY <2>1, <2>2, <2>3
<1>3. TypeInv /\ Inv /\ [Next]_vars => (TypeInv /\ Inv)'
  BY <1>2, NextType
<1> QED
  BY <1>1, <1>3, PTL DEF Spec
=============================================================================
