----------------------- MODULE StatePublicationProofs -----------------------
(***************************************************************************)
(* Proofs about StatePublication, for any items, workers, bounds and size  *)
(* of the count: that the threads that publish, each at its own moment,    *)
(* never send an older state of an item under a later count; that no       *)
(* acknowledgement tells a count whose state is still being sent; and that *)
(* a client at the engine's count, that missed nothing, holds what was     *)
(* published last, which is the engine's state once nothing waits to be    *)
(* published.                                                              *)
(*                                                                         *)
(* The argument is a history the model does not keep: since[i], how many   *)
(* publications ago item i was last published.  A count g on its way or    *)
(* held by the client is Age(count, g) publications old, and what was      *)
(* received under it is the item as it was then, unless the item was       *)
(* published since.                                                        *)
(***************************************************************************)
EXTENDS StatePublication, FiniteSetTheorems, TLAPS

-----------------------------------------------------------------------------
(* What was published of an item is no newer than the item, nor than what  *)
(* the listener is about to publish of its own one: only the listener      *)
(* publishes that one.                                                     *)

VersionsInv ==
    /\ newest \in Nat
    /\ truth \in [Item -> Nat] /\ \A i \in Item : truth[i] <= newest
    /\ told \in [Item -> Nat] /\ \A i \in Item : told[i] <= truth[i]

StepsInv ==
    /\ step = [t \in Threads |-> step[t]]
    /\ \A w \in Workers : step[w].do = "built" => step[w].item \in Item \ {Own}
    /\ step["listener"].do = "update" =>
         step["listener"].val \in told[Own] .. truth[Own]

EventInv == event = None \/ event.item \in Item \ {Own}

OrderInv == VersionsInv /\ StepsInv /\ EventInv

\* The listener's own item is one of the items, and no worker is the listener.
LEMMA Names ==
    /\ Own \in Item /\ "listener" \in Threads /\ "telemetry" \in Threads
    /\ Workers \subseteq Threads \ {"listener", "telemetry"}
BY PartsAssumption, WorkersAssumption DEF Own, Item, Part, Threads

\* At the start everything is as published.
LEMMA InitOrder == Init => OrderInv
BY Names DEF Init, OrderInv, VersionsInv, StepsInv, EventInv, Idle

\* A step of a thread keeps what is known of the steps, as long as what the
\* listener is about to publish stays between what was published and what is.
LEMMA StepTaken ==
    ASSUME StepsInv, NEW t \in Threads, NEW s, step' = [step EXCEPT ![t] = s],
           t \in Workers /\ s.do = "built" => s.item \in Item \ {Own},
           t = "listener" /\ s.do = "update" => s.val \in told'[Own] .. truth'[Own],
           t # "listener" /\ step["listener"].do = "update" =>
              step["listener"].val \in told'[Own] .. truth'[Own]
    PROVE  StepsInv'
<1>1. step' = [u \in Threads |-> step'[u]]
  BY DEF StepsInv
<1>2. \A u \in Threads : step'[u] = IF u = t THEN s ELSE step[u]
  BY DEF StepsInv
<1>3. ASSUME NEW w \in Workers, step'[w].do = "built"
      PROVE  step'[w].item \in Item \ {Own}
  BY <1>2, <1>3, Names DEF StepsInv
<1>4. ASSUME step'["listener"].do = "update"
      PROVE  step'["listener"].val \in told'[Own] .. truth'[Own]
  BY <1>2, <1>4, Names
<1> QED
  BY <1>1, <1>3, <1>4 DEF StepsInv

\* An item that gets a newer version keeps the order.
LEMMA Renewed ==
    ASSUME VersionsInv, NEW i \in Item, Renew(i), told' = told
    PROVE  /\ VersionsInv'
           /\ \A j \in Item : truth'[j] >= truth[j]
           /\ newest' = truth'[i] /\ told'[i] <= truth'[i]
<1>1. newest \in Nat /\ newest' = newest + 1
  BY DEF VersionsInv, Renew
<1>2. truth' \in [Item -> Nat]
  BY <1>1 DEF VersionsInv, Renew
<1>3. \A j \in Item : truth'[j] = IF j = i THEN newest' ELSE truth[j]
  BY DEF VersionsInv, Renew
<1>4. \A j \in Item : /\ truth[j] \in Nat /\ truth[j] <= newest
                      /\ told[j] \in Nat /\ told[j] <= truth[j]
  BY DEF VersionsInv
<1>5. \A j \in Item : /\ truth'[j] <= newest' /\ told'[j] <= truth'[j]
                      /\ truth'[j] >= truth[j]
  BY <1>1, <1>3, <1>4
<1> QED
  BY <1>1, <1>2, <1>3, <1>5 DEF VersionsInv

\* What the listener is about to publish stays in its place while nothing is
\* published of its own item, however newer the item gets.
LEMMA PendingKept ==
    ASSUME VersionsInv, VersionsInv', StepsInv, told'[Own] = told[Own],
           truth'[Own] >= truth[Own], step["listener"].do = "update"
    PROVE  step["listener"].val \in told'[Own] .. truth'[Own]
<1>1. /\ truth[Own] \in Nat /\ told[Own] \in Nat /\ truth'[Own] \in Nat
      /\ step["listener"].val \in told[Own] .. truth[Own]
  BY Names DEF VersionsInv, StepsInv
<1> QED
  BY <1>1

Later == \A i \in Item : told'[i] >= told[i]

\* A step of a thread that neither changes nor publishes state.
LEMMA Moved ==
    ASSUME OrderInv, UNCHANGED <<truth, newest, told>>,
           event' = event \/ event' = None,
           \/ step' = step
           \/ \E t \in Threads : \E s : /\ step' = [step EXCEPT ![t] = s]
                                        /\ s.do \notin {"built", "update"}
    PROVE  OrderInv' /\ Later
<1>1. VersionsInv' /\ Later
  BY DEF OrderInv, VersionsInv, Later
<1>2. EventInv'
  BY DEF OrderInv, EventInv
<1>3. CASE step' = step
  BY <1>1, <1>2, <1>3 DEF OrderInv, StepsInv
<1>4. ASSUME NEW t \in Threads, NEW s, step' = [step EXCEPT ![t] = s],
             s.do \notin {"built", "update"}
      PROVE  StepsInv'
  <2>1. truth'[Own] >= truth[Own]
    BY Names DEF OrderInv, VersionsInv
  <2> QED
    BY <1>1, <1>4, <2>1, StepTaken, PendingKept DEF OrderInv
<1> QED
  BY <1>1, <1>2, <1>3, <1>4 DEF OrderInv

\* The same, when a thread goes on to a step that promises no version.
LEMMA MovedBy ==
    ASSUME OrderInv, NEW t \in Threads, NEW s, step' = [step EXCEPT ![t] = s],
           s.do \notin {"built", "update"}, UNCHANGED <<truth, newest, told, event>>
    PROVE  OrderInv' /\ Later
BY Moved

\* State that changes on another thread than the listener.
LEMMA ChangedElsewhere ==
    ASSUME OrderInv, PostState \/ \E i \in Item : LiveChange(i)
    PROVE  OrderInv' /\ Later
<1>0. Loudness \in Item
  BY PartsAssumption DEF Loudness, Item, Part
<1>1. PICK i \in Item : Renew(i) /\ told' = told /\ step' = step
  BY <1>0 DEF LiveChange, PostState, history
<1>2. VersionsInv' /\ truth'[Own] >= truth[Own]
  BY <1>1, Renewed, Names DEF OrderInv
<1>3. Later
  BY <1>1 DEF OrderInv, VersionsInv, Later
<1>4. EventInv'
  BY <1>0 DEF OrderInv, EventInv, LiveChange, PostState
<1>5. StepsInv'
  BY <1>1, <1>2, PendingKept DEF OrderInv, StepsInv
<1> QED
  BY <1>2, <1>3, <1>4, <1>5 DEF OrderInv

\* What the listener is about to publish of its own item is what it just set.
LEMMA ControlOrder ==
    ASSUME OrderInv, Control
    PROVE  OrderInv' /\ Later
<1>1. Renew(Own) /\ told' = told /\ event' = event
  BY DEF Control, history
<1>2. /\ VersionsInv' /\ truth'[Own] >= truth[Own]
      /\ newest' = truth'[Own] /\ told'[Own] <= truth'[Own]
  BY <1>1, Renewed, Names DEF OrderInv
<1>3. Later
  BY <1>1 DEF OrderInv, VersionsInv, Later
<1>4. newest' \in told'[Own] .. truth'[Own]
  BY <1>2, Names DEF VersionsInv
<1>5. StepsInv'
  <2>1. PICK s \in {[do |-> "update", val |-> newest'], [do |-> "broadcast"]} :
           step' = [step EXCEPT !["listener"] = s]
    BY DEF Control
  <2>2. s.do # "built" /\ (s.do = "update" => s.val = newest')
    BY <2>1
  <2> QED
    BY <1>4, <2>1, <2>2, StepTaken, Names DEF OrderInv
<1> QED
  BY <1>1, <1>2, <1>3, <1>5 DEF OrderInv, EventInv

\* A worker never builds the listener's own item.
LEMMA FinishOrder ==
    ASSUME OrderInv, NEW w \in Workers, NEW i \in Item, FinishRecompute(w, i)
    PROVE  OrderInv' /\ Later
<1>1. /\ Renew(i) /\ told' = told /\ event' = event /\ i # Own
      /\ step' = [step EXCEPT ![w] = [do |-> "built", item |-> i]]
  BY DEF FinishRecompute, history
<1>2. VersionsInv' /\ truth'[Own] >= truth[Own]
  BY <1>1, Renewed, Names DEF OrderInv
<1>3. Later
  BY <1>1 DEF OrderInv, VersionsInv, Later
<1>4. step["listener"].do = "update" =>
         step["listener"].val \in told'[Own] .. truth'[Own]
  BY <1>1, <1>2, PendingKept DEF OrderInv
<1>5. StepsInv'
  BY <1>1, <1>4, StepTaken, Names DEF OrderInv
<1> QED
  BY <1>1, <1>2, <1>3, <1>5 DEF OrderInv, EventInv

\* The snapshot published is the state there is.
LEMMA BroadcastOrder ==
    ASSUME OrderInv, BroadcastMoved
    PROVE  OrderInv' /\ Later
<1>1. /\ told' = truth /\ UNCHANGED <<truth, newest, event>>
      /\ step' = [step EXCEPT !["listener"] = Idle]
  BY DEF BroadcastMoved, BroadcastSnapshot, Publish, Captured, state
<1>2. VersionsInv' /\ Later
  BY <1>1 DEF OrderInv, VersionsInv, Later
<1>3. StepsInv'
  BY <1>1, StepTaken, Names DEF OrderInv, Idle
<1> QED
  BY <1>1, <1>2, <1>3 DEF OrderInv, EventInv

\* One item published, with a version between the last published and the present.
LEMMA ItemOrder ==
    ASSUME OrderInv, NEW t \in Threads, NEW i \in Item, NEW next, NEW v,
           PublishItem(t, i, v, next), event' = event \/ event' = None,
           v \in told[i] .. truth[i], next.do \notin {"built", "update"},
           t = "listener" \/ i # Own
    PROVE  OrderInv' /\ Later
<1>1. /\ told' = [told EXCEPT ![i] = v] /\ UNCHANGED <<truth, newest>>
      /\ step' = [step EXCEPT ![t] = next]
  BY DEF PublishItem, Publish
<1>2. \A j \in Item : /\ told[j] \in Nat /\ truth[j] \in Nat /\ told[j] <= truth[j]
  BY DEF OrderInv, VersionsInv
<1>3. \A j \in Item : told'[j] = IF j = i THEN v ELSE told[j]
  BY <1>1 DEF OrderInv, VersionsInv
<1>4. v \in Nat /\ told[i] <= v /\ v <= truth[i]
  BY <1>2
<1>5. told' \in [Item -> Nat]
  BY <1>1, <1>4 DEF OrderInv, VersionsInv
<1>6. \A j \in Item : told'[j] <= truth[j] /\ told'[j] >= told[j]
  BY <1>2, <1>3, <1>4
<1>7. VersionsInv' /\ Later
  BY <1>1, <1>5, <1>6 DEF OrderInv, VersionsInv, Later
<1>8. StepsInv'
  <2>1. CASE t = "listener"
    BY <1>1, <2>1, StepTaken, Names DEF OrderInv
  <2>2. CASE t # "listener"
    <3>1. told'[Own] = told[Own] /\ truth'[Own] >= truth[Own]
      BY <1>1, <1>2, <1>3, <2>2, Names
    <3> QED
      BY <1>1, <1>7, <2>2, <3>1, StepTaken, PendingKept DEF OrderInv
  <2> QED
    BY <2>1, <2>2
<1> QED
  BY <1>7, <1>8 DEF OrderInv, EventInv

\* The publications of one item, each with the version it carries.
LEMMA PublishOrder ==
    ASSUME OrderInv,
           PublishControl \/ PublishEvent \/ \E w \in Workers : PublishBuilt(w)
    PROVE  OrderInv' /\ Later
<1>0. \A i \in Item : truth[i] \in told[i] .. truth[i]
  BY DEF OrderInv, VersionsInv
<1>1. CASE PublishControl
  <2>1. step["listener"].val \in told[Own] .. truth[Own] /\ event' = event
    BY <1>1 DEF PublishControl, OrderInv, StepsInv
  <2>2. PublishItem("listener", Own, step["listener"].val, Idle) /\ Idle.do = "idle"
    BY <1>1 DEF PublishControl, Idle
  <2> QED
    BY <2>1, <2>2, ItemOrder, Names
<1>2. CASE PublishEvent
  <2>1. event.item \in Item \ {Own} /\ event' = None
    BY <1>2 DEF PublishEvent, OrderInv, EventInv
  <2>2. /\ PublishItem("telemetry", event.item, truth[event.item], Idle)
        /\ Idle.do = "idle"
    BY <1>2 DEF PublishEvent, EventValue, Captured, Idle
  <2> QED
    BY <1>0, <2>1, <2>2, ItemOrder, Names
<1>3. ASSUME NEW w \in Workers, PublishBuilt(w)
      PROVE  OrderInv' /\ Later
  <2> DEFINE i == step[w].item
             next == [do |-> "done"]
  <2>1. i \in Item \ {Own} /\ event' = event
    BY <1>3 DEF PublishBuilt, OrderInv, StepsInv
  <2>2. PublishItem(w, i, truth[i], next) /\ next.do = "done"
    BY <1>3 DEF PublishBuilt, Captured
  <2> HIDE DEF i, next
  <2> QED
    BY <1>0, <2>1, <2>2, ItemOrder, Names
<1> QED
  BY <1>1, <1>2, <1>3

\* Another engine starts with its own state, newer than any and all published.
LEMMA RestartOrder ==
    ASSUME OrderInv, Restart
    PROVE  OrderInv' /\ Later
<1>1. newest' \in Nat /\ newest \in Nat /\ newest' = newest + 1
  BY DEF OrderInv, VersionsInv, Restart
<1>2. /\ truth' = [i \in Item |-> newest'] /\ told' = truth' /\ event' = None
      /\ step' = [t \in Threads |-> Idle]
  BY DEF Restart
<1>3. VersionsInv'
  BY <1>1, <1>2 DEF VersionsInv
<1>4. StepsInv'
  <2>1. \A t \in Threads : step'[t] = Idle
    BY <1>2
  <2> QED
    BY <1>2, <2>1, Names DEF StepsInv, Idle
<1>5. ASSUME NEW i \in Item
      PROVE  told'[i] >= told[i]
  <2>1. /\ told[i] \in Nat /\ truth[i] \in Nat
        /\ told[i] <= truth[i] /\ truth[i] <= newest
    BY DEF OrderInv, VersionsInv
  <2>2. told'[i] = newest'
    BY <1>2
  <2> QED
    BY <1>1, <2>1, <2>2
<1> QED
  BY <1>2, <1>3, <1>4, <1>5 DEF OrderInv, EventInv, Later

\* Where an answer leaves the listener.
LEMMA AnswerSteps ==
    ASSUME Answers
    PROVE  \E s : /\ step' = [step EXCEPT !["listener"] = s]
                  /\ s.do \in {"idle", "reply", "count", "answer"}
<1>1. CASE Register \/ Refresh
  <2> DEFINE s == [do |-> "reply"]
  <2>1. step' = [step EXCEPT !["listener"] = s] /\ s.do = "reply"
    BY <1>1 DEF Register, Refresh
  <2> QED
    BY <2>1
<1>2. CASE Reply \/ Answer
  <2>1. step' = [step EXCEPT !["listener"] = Idle] /\ Idle.do = "idle"
    BY <1>2 DEF Reply, Answer, Publish, Idle
  <2> QED
    BY <2>1
<1>3. CASE Heartbeat
  <2> DEFINE s == [do |-> "count", ack |-> known = "active"]
  <2>1. step' = [step EXCEPT !["listener"] = s] /\ s.do = "count"
    BY <1>3 DEF Heartbeat
  <2> QED
    BY <2>1
<1>4. CASE ReadCount
  <2> DEFINE s == [do |-> "answer", ack |-> step["listener"].ack, gen |-> count]
  <2>1. step' = [step EXCEPT !["listener"] = s] /\ s.do = "answer"
    BY <1>4 DEF ReadCount
  <2> QED
    BY <2>1
<1> QED
  BY <1>1, <1>2, <1>3, <1>4 DEF Answers

\* The recompute flag, the answers and what Studio and the network do.
LEMMA OtherOrder ==
    ASSUME OrderInv,
           \/ \E w \in Workers : StartRecompute(w) \/ PublishDone(w)
           \/ PollMoved \/ Send \/ Answers \/ Studio
           \/ Lose \/ Overtake \/ Silence
    PROVE  OrderInv' /\ Later
<1> USE DEF state, lock, registry, client, model, history
<1>1. ASSUME NEW w \in Workers, StartRecompute(w)
      PROVE  OrderInv' /\ Later
  <2> DEFINE s == [do |-> "flag", spawn |-> w]
  <2>1. /\ step' = [step EXCEPT !["listener"] = s] /\ s.do = "flag"
        /\ UNCHANGED <<truth, newest, told, event>>
    BY <1>1 DEF StartRecompute
  <2> QED
    BY <2>1, MovedBy, Names
<1>2. ASSUME NEW w \in Workers, PublishDone(w)
      PROVE  OrderInv' /\ Later
  <2>1. /\ step' = [step EXCEPT ![w] = Idle] /\ Idle.do = "idle"
        /\ UNCHANGED <<truth, newest, told, event>>
    BY <1>2 DEF PublishDone, PublishFlag, Idle
  <2> QED
    BY <2>1, MovedBy, Names
<1>3. CASE PollMoved
  <2> DEFINE s == [do |-> "broadcast"]
  <2>1. /\ step' = [step EXCEPT !["listener"] = s] /\ s.do = "broadcast"
        /\ UNCHANGED <<truth, newest, told, event>>
    BY <1>3 DEF PollMoved
  <2> QED
    BY <2>1, MovedBy, Names
<1>4. CASE Send
  BY <1>4, Moved DEF Send
<1>5. CASE Answers
  <2>1. UNCHANGED <<truth, newest, told, event>>
    BY <1>5 DEF Answers, Register, Refresh, Reply, Heartbeat, ReadCount, Answer
  <2>2. \E s : /\ step' = [step EXCEPT !["listener"] = s]
               /\ s.do \in {"idle", "reply", "count", "answer"}
    BY <1>5, AnswerSteps
  <2> QED
    BY <2>1, <2>2, MovedBy, Names
<1>6. CASE Studio
  BY <1>6, Moved DEF Studio, Deliver, RegisterAgain, SendHeartbeat, RetryDue
<1>7. CASE Lose \/ Overtake \/ Silence
  BY <1>7, Moved DEF Lose, Overtake, Silence
<1> QED
  BY <1>1, <1>2, <1>3, <1>4, <1>5, <1>6, <1>7

\* The flag's publication also starts the worker: two threads step at once.
LEMMA StartedOrder ==
    ASSUME OrderInv, PublishStarted
    PROVE  OrderInv' /\ Later
<1> DEFINE l == "listener"
           w == step["listener"].spawn
<1>1. /\ step' = [step EXCEPT ![l] = Idle, ![w] = [do |-> "build"]]
      /\ UNCHANGED <<truth, newest, told, event>>
  BY DEF PublishStarted, PublishFlag, state, history
<1>2. VersionsInv' /\ Later
  BY <1>1 DEF OrderInv, VersionsInv, Later
<1>3. StepsInv'
  <2>1. step' = [t \in Threads |-> step'[t]]
    BY <1>1 DEF OrderInv, StepsInv
  <2>2. \A t \in Threads : \/ step'[t] = step[t] /\ t # l
                           \/ step'[t] = Idle \/ step'[t] = [do |-> "build"]
    BY <1>1 DEF OrderInv, StepsInv
  <2>3. \A t \in Threads : \/ step'[t] = step[t] /\ t # l
                           \/ step'[t].do \notin {"built", "update"}
    BY <2>2 DEF Idle
  <2> QED
    BY <2>1, <2>3, Names DEF OrderInv, StepsInv
<1> QED
  BY <1>1, <1>2, <1>3 DEF OrderInv, EventInv

\* Every step keeps the order, and publishes nothing older.
LEMMA NextOrder ==
    ASSUME OrderInv, [Next]_vars
    PROVE  OrderInv' /\ Later
<1>1. CASE Changes
  BY <1>1, ChangedElsewhere, ControlOrder DEF Changes
<1>2. ASSUME NEW w \in Workers, NEW i \in Item, FinishRecompute(w, i)
      PROVE  OrderInv' /\ Later
  BY <1>2, FinishOrder
<1>3. CASE BroadcastMoved
  BY <1>3, BroadcastOrder
<1>4. CASE PublishStarted
  BY <1>4, StartedOrder
<1>5. CASE PublishControl \/ PublishEvent \/ \E w \in Workers : PublishBuilt(w)
  BY <1>5, PublishOrder
<1>6. CASE Restart
  BY <1>6, RestartOrder
<1>7. CASE UNCHANGED vars
  BY <1>7, Moved DEF vars, state, history
<1> QED
  BY <1>1, <1>2, <1>3, <1>4, <1>5, <1>6, <1>7, OtherOrder
     DEF Next, Recomputes, Publications, Faults

\* OscClientRegistry::publication: whichever thread publishes and whenever it was
\* ready to, no item is ever published older than it was.
THEOREM NeverOlderHolds == Spec => NeverOlder
<1>1. Init => OrderInv
  BY InitOrder
<1>2. OrderInv /\ [Next]_vars => OrderInv'
  BY NextOrder
<1>3. OrderInv /\ [Next]_vars =>
         [epoch' = epoch => \A i \in Item : told'[i] >= told[i]]_vars
  BY NextOrder DEF Later
<1> QED
  BY <1>1, <1>2, <1>3, PTL DEF Spec, NeverOlder

-----------------------------------------------------------------------------
(* What each step leaves alone.                                             *)

Publishing == BroadcastMoved \/ PublishControl \/ PublishEvent \/ PublishStarted
              \/ \E w \in Workers : PublishBuilt(w) \/ PublishDone(w)

\* Only a publication moves the count, and only what publishes or answers
\* with a snapshot takes the lock.
LEMMA LockFrame ==
    ASSUME Next
    PROVE  \/ Publishing \/ Reply \/ Send \/ Restart
           \/ UNCHANGED <<count, told, sending, holder>>
BY DEF Publishing, Next, Changes, Recomputes, Publications, Answers, Studio, Faults,
       LiveChange, PostState, Control, StartRecompute, FinishRecompute, PollMoved,
       Register, Refresh, Heartbeat, ReadCount, Answer, Deliver, RegisterAgain,
       SendHeartbeat, RetryDue, Lose, Overtake, Silence, lock, history

\* Versions and engines only get newer.
LEMMA VersionFrame ==
    ASSUME Next
    PROVE  \/ PostState \/ \E i \in Item : LiveChange(i)
           \/ Control \/ Restart
           \/ \E w \in Workers, i \in Item : FinishRecompute(w, i)
           \/ UNCHANGED <<truth, newest, epoch>>
BY DEF Next, Changes, Recomputes, Publications, Answers, Studio, Faults,
       StartRecompute, PollMoved, BroadcastMoved, BroadcastSnapshot, PublishControl,
       PublishEvent, PublishItem, PublishBuilt, PublishStarted, PublishDone,
       PublishFlag, Send, Register, Refresh, Reply, Heartbeat, ReadCount, Answer,
       Deliver, RegisterAgain, SendHeartbeat, RetryDue, Lose, Overtake, Silence,
       state

\* Only a packet taken changes what the client holds.
LEMMA ClientFrame ==
    ASSUME Next
    PROVE  \/ Deliver
           \/ UNCHANGED <<vals, shown, ready, sync, heard>>
BY DEF Next, Changes, Recomputes, Publications, Answers, Studio, Faults,
       LiveChange, PostState, Control, StartRecompute, FinishRecompute, PollMoved,
       BroadcastMoved, BroadcastSnapshot, PublishControl, PublishEvent, PublishItem,
       PublishBuilt, PublishStarted, PublishDone, PublishFlag, Send, Register,
       Refresh, Reply, Heartbeat, ReadCount, Answer, RegisterAgain, SendHeartbeat,
       RetryDue, Lose, Overtake, Silence, Restart, client, model

\* Only these steps change what is on its way to the client.
LEMMA NetFrame ==
    ASSUME Next
    PROVE  Send \/ Answer \/ Deliver \/ Lose \/ Overtake \/ Restart \/ net' = net
BY DEF Next, Changes, Recomputes, Publications, Answers, Studio, Faults,
       LiveChange, PostState, Control, StartRecompute, FinishRecompute, PollMoved,
       BroadcastMoved, BroadcastSnapshot, PublishControl, PublishEvent, PublishItem,
       PublishBuilt, PublishStarted, PublishDone, PublishFlag, Register,
       Refresh, Reply, Heartbeat, ReadCount, RegisterAgain, SendHeartbeat,
       RetryDue, Silence

\* Only these steps change what a thread does next.
LEMMA StepFrame ==
    ASSUME Next
    PROVE  \/ Control \/ PollMoved \/ Answers \/ Publishing \/ Restart
           \/ \E w \in Workers : \/ StartRecompute(w)
                                 \/ \E i \in Item : FinishRecompute(w, i)
           \/ step' = step
BY DEF Publishing, Next, Changes, Recomputes, Publications, Studio, Faults,
       LiveChange, PostState, Send, Deliver, RegisterAgain,
       SendHeartbeat, RetryDue, Lose, Overtake, Silence

\* Only these steps spend the budget.
LEMMA BudgetFrame ==
    ASSUME Next
    PROVE  \/ Changes \/ Lose \/ Overtake \/ Silence \/ Restart
           \/ \E w \in Workers : StartRecompute(w)
           \/ left' = left
BY DEF Next, Recomputes, Publications, Answers, Studio, Faults, FinishRecompute,
       PollMoved, BroadcastMoved, BroadcastSnapshot, PublishControl, PublishEvent,
       PublishItem, PublishBuilt, PublishStarted, PublishDone, PublishFlag, Send,
       Register, Refresh, Reply, Heartbeat, ReadCount, Answer, Deliver,
       RegisterAgain, SendHeartbeat, RetryDue

-----------------------------------------------------------------------------
(* The types.                                                               *)

\* Every step keeps StateSync's own invariant.
SyncOK(s) ==
    /\ s \in Sync
    /\ (s.gen = None) = (s.seen = {})
    /\ s.gen \in {None, s.held} /\ s.seen # Part

\* The count after c, without the remainder.
LEMMA FollowingIs ==
    \A c \in Count : /\ Following(c) \in Count
                     /\ Following(c) = IF c = CountSize - 1 THEN 0 ELSE c + 1
BY CountAssumption DEF Count, Following

\* A client that received nothing yet.
LEMMA FreshOK == SyncOK(Fresh)
BY CountAssumption, PartsAssumption DEF SyncOK, Sync, Fresh, Part

\* Whatever comes in.
LEMMA SyncKept ==
    ASSUME NEW s, SyncOK(s), NEW c \in Count, NEW i \in Part
    PROVE  /\ SyncOK(OnUpdate(s, c)) /\ SyncOK(OnPart(s, c, i))
           /\ SyncOK(OnAck(s, c))
<1>0. None \notin Count /\ {} # Part
  BY CountAssumption, PartsAssumption DEF Count, Part
<1>1. SyncOK(OnAck(s, c))
  BY <1>0 DEF SyncOK, OnAck, Abandon, Sync
<1>2. SyncOK(OnUpdate(s, c))
  BY <1>0 DEF SyncOK, OnUpdate, Abandon, Sync
<1>3. SyncOK(OnPart(s, c, i))
  BY <1>0 DEF SyncOK, OnPart, Abandon, Sync
<1> QED
  BY <1>1, <1>2, <1>3

\* A packet removed from a sequence.
LEMMA WithoutElements ==
    ASSUME NEW S, NEW s \in Seq(S), NEW k \in DOMAIN s
    PROVE  /\ Without(s, k) \in Seq(S)
           /\ DOMAIN Without(s, k) = 1 .. Len(s) - 1
           /\ \A j \in 1 .. Len(s) - 1 :
                 Without(s, k)[j] = s[IF j < k THEN j ELSE j + 1]
<1> DEFINE a == SubSeq(s, 1, k - 1)
           b == SubSeq(s, k + 1, Len(s))
<1>1. k \in 1 .. Len(s) /\ Len(s) \in Nat
  OBVIOUS
<1>2. a \in Seq(S) /\ Len(a) = k - 1 /\ \A j \in 1 .. k - 1 : a[j] = s[j]
  BY <1>1
<1>3. /\ b \in Seq(S) /\ Len(b) = Len(s) - k
      /\ \A j \in 1 .. Len(s) - k : b[j] = s[k + j]
  BY <1>1
<1>4. Without(s, k) = a \o b
  BY DEF Without
<1> HIDE DEF a, b
<1>5. /\ a \o b \in Seq(S) /\ Len(a \o b) = Len(s) - 1
      /\ \A j \in 1 .. Len(s) - 1 : (a \o b)[j] = s[IF j < k THEN j ELSE j + 1]
  BY <1>1, <1>2, <1>3, SMTT(30)
<1> QED
  BY <1>4, <1>5

\* What the packets carry, and what may be sent.
LEMMA PacketFields ==
    ASSUME NEW p \in Packets
    PROVE  /\ p.kind \in {"update", "flag", "part", "ack", "unknown", "goodbye"}
           /\ p.kind = "update" =>
                p.item \in Item /\ p.val \in Version /\ p.gen \in Count
           /\ p.kind = "flag" => p.val \in BOOLEAN /\ p.gen \in Count
           /\ p.kind = "part" =>
                p.part \in Part /\ p.val \in Version /\ p.gen \in Count
           /\ p.kind = "ack" => p.epoch \in 1 .. epoch /\ p.gen \in Count
BY DEF Packets

Queued == [all : BOOLEAN, packet : Packets]

\* net and sending are sequences, and engines are numbered from 1.
ShapeInv ==
    /\ newest \in Nat /\ epoch \in Nat \ {0}
    /\ net \in Seq(Packets) /\ sending \in Seq(Queued)

TypeInv == TypeOK /\ ShapeInv

Grows == newest <= newest' /\ epoch <= epoch' /\ newest' \in Nat /\ epoch' \in Nat

\* What has a type keeps it as versions and engines grow.
LEMMA Grown ==
    ASSUME ShapeInv, Grows
    PROVE  /\ Version \subseteq Version' /\ Packets \subseteq Packets'
           /\ Steps \subseteq Steps' /\ Queued \subseteq Queued'
<1>1. Version \subseteq Version'
  BY DEF ShapeInv, Grows, Version
<1>2. 1 .. epoch \subseteq 1 .. epoch'
  BY DEF ShapeInv, Grows
<1>3. Packets \subseteq Packets'
  <2> SUFFICES ASSUME NEW p \in Packets
               PROVE  p \in Packets'
    OBVIOUS
  <2>1. CASE p \in [kind : {"update"}, item : Item, val : Version, gen : Count]
    BY <1>1, <2>1 DEF Packets
  <2>2. CASE p \in [kind : {"flag"}, val : BOOLEAN, gen : Count]
    BY <2>2 DEF Packets
  <2>3. CASE p \in [kind : {"part"}, part : Part, val : Version, gen : Count]
    BY <1>1, <2>3 DEF Packets
  <2>4. CASE p \in [kind : {"ack"}, epoch : 1 .. epoch, gen : Count]
    BY <1>2, <2>4 DEF Packets
  <2>5. CASE p \in [kind : {"unknown", "goodbye"}]
    BY <2>5 DEF Packets
  <2> QED
    BY <2>1, <2>2, <2>3, <2>4, <2>5 DEF Packets
<1>4. Steps \subseteq Steps'
  BY <1>1 DEF Steps
<1>5. Queued \subseteq Queued'
  BY <1>3 DEF Queued
<1> QED
  BY <1>1, <1>3, <1>4, <1>5

\* The packets the engine makes.
LEMMA PacketsMade ==
    /\ \A i \in Item, v \in Version, g \in Count : Update(i, v, g) \in Packets
    /\ \A b \in BOOLEAN, g \in Count : Flag(b, g) \in Packets
    /\ \A vs \in [Item -> Version], g \in Count :
          /\ Snapshot(vs, g) \in Seq(Packets) /\ Snapshot(vs, g) # <<>>
          /\ DOMAIN Snapshot(vs, g) = Part
          /\ \A i \in Part : Snapshot(vs, g)[i] =
                [kind |-> "part", part |-> i, val |-> vs[i], gen |-> g]
    /\ [kind |-> "unknown"] \in Packets /\ [kind |-> "goodbye"] \in Packets
    /\ \A g \in Count :
          ShapeInv => [kind |-> "ack", epoch |-> epoch, gen |-> g] \in Packets
<1>1. \A i \in Item, v \in Version, g \in Count : Update(i, v, g) \in Packets
  BY DEF Update, Packets
<1>2. \A b \in BOOLEAN, g \in Count : Flag(b, g) \in Packets
  BY DEF Flag, Packets
<1>3. ASSUME NEW vs \in [Item -> Version], NEW g \in Count
      PROVE  /\ Snapshot(vs, g) \in Seq(Packets) /\ Snapshot(vs, g) # <<>>
             /\ DOMAIN Snapshot(vs, g) = Part
             /\ \A i \in Part : Snapshot(vs, g)[i] =
                   [kind |-> "part", part |-> i, val |-> vs[i], gen |-> g]
  <2>1. \A i \in Part :
           [kind |-> "part", part |-> i, val |-> vs[i], gen |-> g] \in Packets
    BY DEF Packets, Item
  <2>2. Snapshot(vs, g) \in [1 .. Parts -> Packets]
    BY <2>1 DEF Snapshot, Part
  <2>3. Snapshot(vs, g) \in Seq(Packets) /\ Len(Snapshot(vs, g)) = Parts
    BY <2>2, PartsAssumption
  <2> QED
    BY <2>3, PartsAssumption DEF Snapshot
<1>4. [kind |-> "unknown"] \in Packets /\ [kind |-> "goodbye"] \in Packets
  BY DEF Packets
<1>5. \A g \in Count :
         ShapeInv => [kind |-> "ack", epoch |-> epoch, gen |-> g] \in Packets
  BY DEF Packets, ShapeInv
<1> QED
  BY <1>1, <1>2, <1>3, <1>4, <1>5

\* A publication's packets, addressed.
LEMMA ToQueued ==
    ASSUME NEW all \in BOOLEAN, NEW ps \in Seq(Packets), ps # <<>>
    PROVE  /\ To(all, ps) \in Seq(Queued) /\ To(all, ps) # <<>>
           /\ DOMAIN To(all, ps) = DOMAIN ps
           /\ \A k \in DOMAIN ps : To(all, ps)[k] = [all |-> all, packet |-> ps[k]]
<1>1. \A k \in 1 .. Len(ps) : ps[k] \in Packets
  OBVIOUS
<1>2. To(all, ps) \in [1 .. Len(ps) -> Queued]
  BY <1>1 DEF To, Queued
<1>3. To(all, ps) \in Seq(Queued) /\ Len(To(all, ps)) = Len(ps) /\ Len(ps) # 0
  BY <1>2
<1> QED
  BY <1>3 DEF To

\* The types, by what the steps leave alone together.
StateOK ==
    /\ truth \in [Item -> Version] /\ told \in [Item -> Version]
    /\ event \in {None} \cup [item : Item, val : Version]
    /\ moved \in BOOLEAN /\ recomputing \in BOOLEAN /\ unposted \in BOOLEAN
    /\ count \in Count
ClientOK ==
    /\ vals \in [Item -> Version]
    /\ shown \in BOOLEAN /\ ready \in BOOLEAN
    /\ SyncOK(sync) /\ heard \in {None} \cup 1 .. epoch
StepsOK == step \in [Threads -> Steps]
LockOK ==
    /\ holder \in Threads \cup {"none"} /\ (holder = "none") = (sending = <<>>)
    /\ sending \in Seq(Queued)
RegistryOK ==
    /\ known \in {"absent", "permanent", "active"} /\ late \in BOOLEAN
    /\ late => known = "active"
RequestsOK ==
    asked \in BOOLEAN /\ up \subseteq {"register", "heartbeat", "refresh"}
SizesOK == newest \in Nat /\ epoch \in Nat \ {0}

\* The two forms of the type invariant.
LEMMA TypeParts ==
    TypeInv <=> /\ SizesOK /\ StateOK /\ ClientOK /\ StepsOK /\ LockOK
                /\ RegistryOK /\ RequestsOK /\ net \in Seq(Packets)
                /\ left \in Budget
<1>1. ASSUME sending \in Seq(Queued), net \in Seq(Packets)
      PROVE  /\ \A k \in DOMAIN sending :
                   sending[k] \in [all : BOOLEAN, packet : Packets]
             /\ \A k \in DOMAIN net : net[k] \in Packets
  <2>1. \A k \in DOMAIN sending : sending[k] \in Queued
    BY <1>1
  <2>2. \A k \in DOMAIN net : net[k] \in Packets
    BY <1>1
  <2> QED
    BY <2>1, <2>2 DEF Queued
<1> QED
  BY <1>1 DEF TypeInv, TypeOK, ShapeInv, StateOK, ClientOK, StepsOK, LockOK,
              RegistryOK, RequestsOK, SizesOK, SyncOK

\* The types at the start.
LEMMA InitTypes == Init => TypeInv
<1> SUFFICES ASSUME Init PROVE TypeInv
  OBVIOUS
<1>0. /\ newest = 1 /\ epoch = 1 /\ up = {"register"}
      /\ known \in {"absent", "permanent"} /\ late = FALSE /\ asked = FALSE
      /\ count = CountSize - 1 /\ event = None
      /\ moved = FALSE /\ recomputing = FALSE /\ unposted = FALSE
      /\ truth = [i \in Item |-> 1] /\ told = truth
  BY DEF Init
<1>1. SizesOK /\ RegistryOK /\ RequestsOK
  <2>1. SizesOK
    BY <1>0 DEF SizesOK
  <2>2. RegistryOK
    BY <1>0 DEF RegistryOK
  <2>3. RequestsOK
    BY <1>0 DEF RequestsOK
  <2> QED
    BY <2>1, <2>2, <2>3
<1>2. left \in Budget
  BY BoundsAssumption DEF Init
<1>3. newest = 1 /\ 0 \in Version /\ 1 \in Version
  BY DEF Init, Version
<1>4. StateOK
  <2>1. count \in Count
    BY <1>0, CountAssumption DEF Count
  <2>2. truth \in [Item -> Version] /\ told \in [Item -> Version]
    BY <1>0, <1>3
  <2>3. moved \in BOOLEAN /\ recomputing \in BOOLEAN /\ unposted \in BOOLEAN
    BY <1>0
  <2> QED
    BY <1>0, <2>1, <2>2, <2>3 DEF StateOK
<1>5. ClientOK
  BY <1>3, FreshOK DEF Init, ClientOK
<1>6. StepsOK
  BY DEF Init, StepsOK, Steps
<1>7. LockOK /\ net \in Seq(Packets)
  BY DEF Init, LockOK
<1> QED
  BY <1>1, <1>2, <1>4, <1>5, <1>6, <1>7, TypeParts

\* A change of state gives it a version of its own.
LEMMA RenewedTypes ==
    ASSUME SizesOK, StateOK, NEW i \in Item, Renew(i)
    PROVE  /\ newest' = newest + 1 /\ newest' \in Nat /\ newest' \in Version'
           /\ truth' \in [Item -> Version']
<1>1. newest' = newest + 1 /\ newest' \in Nat /\ newest' \in Version'
  BY DEF SizesOK, Renew, Version
<1>2. Version \subseteq Version'
  BY <1>1 DEF SizesOK, Version
<1>3. truth' \in [Item -> Version']
  BY <1>1, <1>2 DEF StateOK, Renew
<1> QED
  BY <1>1, <1>3

\* No step takes a version or an engine back.
LEMMA NextGrows ==
    ASSUME TypeInv, Next
    PROVE  SizesOK' /\ Grows
<1>1. SizesOK /\ StateOK
  BY TypeParts
<1>0. Own \in Item /\ Loudness \in Item
  BY Names, PartsAssumption DEF Loudness, Item, Part
<1>2. ASSUME NEW i \in Item, Renew(i), epoch' = epoch
      PROVE  SizesOK' /\ Grows
  BY <1>1, <1>2, RenewedTypes DEF SizesOK, Grows
<1>3. CASE PostState \/ Control \/ \E i \in Item : LiveChange(i)
  BY <1>0, <1>2, <1>3 DEF PostState, Control, LiveChange
<1>4. CASE \E w \in Workers, i \in Item : FinishRecompute(w, i)
  BY <1>2, <1>4 DEF FinishRecompute
<1>5. CASE Restart
  BY <1>1, <1>5 DEF Restart, SizesOK, Grows
<1>6. CASE UNCHANGED <<truth, newest, epoch>>
  BY <1>1, <1>6 DEF SizesOK, Grows
<1> QED
  BY <1>3, <1>4, <1>5, <1>6, VersionFrame

\* A thread's next step, read off what it is about.
LEMMA StepFields ==
    ASSUME StepsOK, NEW t \in Threads
    PROVE  /\ step[t].do = "update" => step[t].val \in Version
           /\ step[t].do = "built" => step[t].item \in Item
           /\ step[t].do = "flag" => step[t].spawn \in Workers
           /\ step[t].do = "count" => step[t].ack \in BOOLEAN
           /\ step[t].do = "answer" =>
                 step[t].ack \in BOOLEAN /\ step[t].gen \in Count
           /\ step[t].do \in {"idle", "broadcast", "reply", "done", "build",
                              "update", "built", "flag", "count", "answer"}
<1>1. step[t] \in Steps
  BY DEF StepsOK
<1> QED
  BY <1>1 DEF Steps, Idle

\* The steps the actions give a thread.
LEMMA StepsMade ==
    /\ Idle \in Steps
    /\ \A d \in {"broadcast", "reply", "done", "build"} : [do |-> d] \in Steps
    /\ \A v \in Version : [do |-> "update", val |-> v] \in Steps
    /\ \A i \in Item : [do |-> "built", item |-> i] \in Steps
    /\ \A w \in Workers : [do |-> "flag", spawn |-> w] \in Steps
    /\ \A b \in BOOLEAN : [do |-> "count", ack |-> b] \in Steps
    /\ \A b \in BOOLEAN, g \in Count :
          [do |-> "answer", ack |-> b, gen |-> g] \in Steps
BY DEF Steps

\* The threads' next steps keep their type.
LEMMA NextSteps ==
    ASSUME TypeInv, Next
    PROVE  StepsOK'
<1>0. SizesOK /\ StateOK /\ StepsOK /\ Steps \subseteq Steps'
  BY TypeParts, NextGrows, Grown DEF TypeInv
<1>1. step \in [Threads -> Steps']
  BY <1>0 DEF StepsOK
<1>2. ASSUME NEW t \in Threads, NEW s \in Steps', step' = [step EXCEPT ![t] = s]
      PROVE  StepsOK'
  BY <1>1, <1>2 DEF StepsOK
<1>3. CASE Control
  <2>1. newest' \in Version'
    BY <1>0, <1>3, RenewedTypes, Names DEF Control
  <2>2. /\ [do |-> "update", val |-> newest'] \in Steps'
        /\ [do |-> "broadcast"] \in Steps'
    BY <2>1 DEF Steps
  <2> QED
    BY <1>2, <1>3, <2>2, Names DEF Control
<1>4. CASE PollMoved \/ Register \/ Refresh
  BY <1>0, <1>2, <1>4, StepsMade, Names DEF PollMoved, Register, Refresh
<1>5. CASE Reply \/ Answer \/ BroadcastMoved
  BY <1>0, <1>2, <1>5, StepsMade, Names
     DEF Reply, Answer, Publish, BroadcastMoved, BroadcastSnapshot
<1>6. CASE Heartbeat
  BY <1>0, <1>2, <1>6, StepsMade, Names DEF Heartbeat
<1>7. CASE ReadCount
  <2> DEFINE s == [do |-> "answer", ack |-> step["listener"].ack, gen |-> count]
  <2>1. step["listener"].ack \in BOOLEAN
    BY <1>0, <1>7, StepFields, Names DEF ReadCount
  <2>2. s \in Steps'
    BY <1>0, <2>1, StepsMade DEF StateOK
  <2>3. step' = [step EXCEPT !["listener"] = s]
    BY <1>7 DEF ReadCount
  <2> QED
    BY <1>2, <2>2, <2>3, Names
<1>8. CASE PublishControl \/ PublishEvent \/ \E w \in Workers : PublishBuilt(w)
  BY <1>0, <1>2, <1>8, StepsMade, Names
     DEF PublishControl, PublishEvent, PublishBuilt, PublishItem, Publish
<1>9. CASE \E w \in Workers : PublishDone(w)
  BY <1>0, <1>2, <1>9, StepsMade, Names DEF PublishDone, PublishFlag
<1>10. CASE PublishStarted
  <2>1. Idle \in Steps' /\ [do |-> "build"] \in Steps'
    BY <1>0, StepsMade
  <2> QED
    BY <1>1, <1>10, <2>1 DEF PublishStarted, PublishFlag, StepsOK
<1>11. CASE Restart
  BY <1>0, <1>11, StepsMade DEF Restart, StepsOK
<1>12. ASSUME NEW w \in Workers,
              StartRecompute(w) \/ \E i \in Item : FinishRecompute(w, i)
       PROVE  StepsOK'
  BY <1>0, <1>2, <1>12, StepsMade, Names DEF StartRecompute, FinishRecompute
<1>13. CASE step' = step
  BY <1>1, <1>13 DEF StepsOK
<1> QED
  BY <1>3, <1>4, <1>5, <1>6, <1>7, <1>8, <1>9, <1>10, <1>11, <1>12, <1>13, StepFrame
     DEF Answers, Publishing

\* And what is left of the budget.
LEMMA NextLeft ==
    ASSUME left \in Budget, Next
    PROVE  left' \in Budget
<1>1. ASSUME NEW what \in {"changes", "builds", "faults", "overtakes", "restarts"},
             Spend(what)
      PROVE  left' \in Budget
  BY <1>1 DEF Spend, Budget
<1> QED
  BY <1>1, BudgetFrame
     DEF Changes, LiveChange, PostState, Control, Lose, Overtake, Silence, Restart,
         StartRecompute

\* What t publishes of an item has a version there is.
LEMMA PublishedVersion ==
    ASSUME TypeInv, OrderInv
    PROVE  /\ PublishControl => step["listener"].val \in Version
           /\ PublishEvent => event.item \in Item /\ EventValue \in Version
           /\ \A w \in Workers : PublishBuilt(w) =>
                 step[w].item \in Item /\ Captured[step[w].item] \in Version
<1>0. StateOK /\ StepsOK
  BY TypeParts
<1>1. PublishControl => step["listener"].val \in Version
  BY <1>0, StepFields, Names DEF PublishControl
<1>2. PublishEvent => event.item \in Item /\ EventValue \in Version
  BY <1>0 DEF PublishEvent, OrderInv, EventInv, EventValue, Captured, StateOK
<1>3. ASSUME NEW w \in Workers, PublishBuilt(w)
      PROVE  step[w].item \in Item /\ Captured[step[w].item] \in Version
  BY <1>0, <1>3 DEF PublishBuilt, OrderInv, StepsInv, Captured, StateOK
<1> QED
  BY <1>1, <1>2, <1>3

\* And the engine's state, its count and the history.
LEMMA NextState ==
    ASSUME TypeInv, OrderInv, Next
    PROVE  StateOK'
<1>0. SizesOK /\ StateOK /\ Version \subseteq Version' /\ Advanced \in Count
  BY TypeParts, NextGrows, Grown, FollowingIs DEF TypeInv, Advanced, StateOK
<1>1. /\ truth \in [Item -> Version'] /\ told \in [Item -> Version']
      /\ event \in {None} \cup [item : Item, val : Version']
  BY <1>0 DEF StateOK
<1>2. CASE \E i \in Item : LiveChange(i)
  BY <1>0, <1>1, <1>2, RenewedTypes DEF LiveChange, StateOK, history
<1>3. CASE PostState
  <2>1. Loudness \in Item
    BY PartsAssumption DEF Loudness, Item, Part
  <2>2. newest' \in Version' /\ truth' \in [Item -> Version']
    BY <1>0, <1>3, <2>1, RenewedTypes DEF PostState
  <2>3. /\ event' = event \/ event' = [item |-> Loudness, val |-> newest']
        /\ unposted' = unposted \/ unposted' = TRUE
        /\ UNCHANGED <<told, moved, recomputing, count>>
    BY <1>3 DEF PostState
  <2>4. event' \in {None} \cup [item : Item, val : Version']
    BY <1>1, <2>1, <2>2, <2>3
  <2>5. unposted \in BOOLEAN
    BY <1>0 DEF StateOK
  <2>6. unposted' \in BOOLEAN
    BY <2>3, <2>5
  <2> QED
    BY <1>0, <1>1, <2>2, <2>3, <2>4, <2>6 DEF StateOK
<1>4. CASE Control
  BY <1>0, <1>1, <1>4, RenewedTypes, Names DEF Control, StateOK, history
<1>5. ASSUME NEW w \in Workers, NEW i \in Item, FinishRecompute(w, i)
      PROVE  StateOK'
  BY <1>0, <1>1, <1>5, RenewedTypes DEF FinishRecompute, StateOK, history
<1>6. ASSUME NEW w \in Workers, StartRecompute(w)
      PROVE  StateOK'
  BY <1>0, <1>1, <1>6 DEF StartRecompute, StateOK, history
<1>7. CASE PollMoved
  BY <1>0, <1>1, <1>7 DEF PollMoved, StateOK, history
<1>8. CASE BroadcastMoved
  BY <1>0, <1>1, <1>8
     DEF BroadcastMoved, BroadcastSnapshot, Captured, StateOK, state
<1>9. ASSUME NEW t, NEW i \in Item, NEW v \in Version, NEW next,
             PublishItem(t, i, v, next), event' = event \/ event' = None
      PROVE  StateOK'
  BY <1>0, <1>1, <1>9 DEF PublishItem, StateOK
<1>10. CASE PublishControl \/ PublishEvent \/ \E w \in Workers : PublishBuilt(w)
  BY <1>9, <1>10, PublishedVersion, Names
     DEF PublishControl, PublishEvent, PublishBuilt
<1>11. CASE PublishStarted \/ \E w \in Workers : PublishDone(w)
  BY <1>0, <1>1, <1>11
     DEF PublishStarted, PublishDone, PublishFlag, StateOK, state, history
<1>12. CASE Restart
  <2>1. newest' \in Version' /\ 0 \in Count
    BY <1>0, <1>12, CountAssumption DEF Restart, SizesOK, Version, Count
  <2>2. truth' \in [Item -> Version'] /\ told' \in [Item -> Version']
    BY <1>12, <2>1 DEF Restart
  <2> QED
    BY <1>12, <2>1, <2>2 DEF Restart, StateOK
<1>13. CASE \/ Send \/ Answers \/ Studio \/ Lose \/ Overtake \/ Silence
  <2>1. UNCHANGED <<truth, told, event, moved, recomputing, unposted, count>>
    BY <1>13
       DEF Send, Answers, Register, Refresh, Reply, Heartbeat, ReadCount, Answer,
       Studio, Deliver, RegisterAgain, SendHeartbeat, RetryDue, Lose, Overtake,
       Silence, state, history
  <2> QED
    BY <1>0, <1>1, <2>1 DEF StateOK
<1> QED
  BY <1>2, <1>3, <1>4, <1>5, <1>6, <1>7, <1>8, <1>10, <1>11, <1>12, <1>13
     DEF Next, Changes, Recomputes, Publications, Faults

\* And the publication in progress: the lock is held as long as there is one.
LEMMA NextLock ==
    ASSUME TypeInv, OrderInv, Next
    PROVE  LockOK'
<1>0. /\ SizesOK /\ StateOK /\ LockOK /\ StepsOK /\ Queued \subseteq Queued'
      /\ Advanced \in Count /\ "none" \notin Threads
  BY TypeParts, NextGrows, Grown, FollowingIs, WorkersAssumption
     DEF TypeInv, Advanced, StateOK, Threads
<1>1. sending \in Seq(Queued')
  BY <1>0 DEF LockOK
<1>2. ASSUME NEW t \in Threads, NEW all \in BOOLEAN, NEW ps \in Seq(Packets),
             ps # <<>>, holder' = t, sending' = To(all, ps)
      PROVE  LockOK'
  <2>1. To(all, ps) \in Seq(Queued) /\ To(all, ps) # <<>>
    BY <1>2, ToQueued
  <2>2. sending' \in Seq(Queued')
    BY <1>0, <1>2, <2>1
  <2> QED
    BY <1>0, <1>2, <2>1, <2>2 DEF LockOK
<1>3. CASE BroadcastMoved
  BY <1>0, <1>2, <1>3, PacketsMade, Names
     DEF BroadcastMoved, BroadcastSnapshot, Publish, Captured, StateOK
<1>4. CASE Reply
  BY <1>0, <1>2, <1>4, PacketsMade, Names DEF Reply, Publish, Captured, StateOK
<1>5. ASSUME NEW t \in Threads, NEW i \in Item, NEW v \in Version, NEW next,
             PublishItem(t, i, v, next)
      PROVE  LockOK'
  <2> DEFINE ps == <<Update(i, v, Advanced)>>
  <2>1. Update(i, v, Advanced) \in Packets
    BY <1>0, PacketsMade
  <2>2. ps \in Seq(Packets) /\ ps # <<>>
    BY <2>1
  <2>3. holder' = t /\ sending' = To(TRUE, ps) /\ TRUE \in BOOLEAN
    BY <1>5 DEF PublishItem, Publish
  <2> HIDE DEF ps
  <2> QED
    BY <1>2, <2>2, <2>3
<1>6. CASE PublishControl \/ PublishEvent \/ \E w \in Workers : PublishBuilt(w)
  BY <1>5, <1>6, PublishedVersion, Names
     DEF PublishControl, PublishEvent, PublishBuilt
<1>7. ASSUME NEW t \in Threads, NEW b \in BOOLEAN, NEW steps,
             PublishFlag(t, b, steps)
      PROVE  LockOK'
  <2> DEFINE ps == <<Flag(b, Advanced)>>
  <2>1. Flag(b, Advanced) \in Packets
    BY <1>0, PacketsMade
  <2>2. ps \in Seq(Packets) /\ ps # <<>>
    BY <2>1
  <2>3. holder' = t /\ sending' = To(TRUE, ps) /\ TRUE \in BOOLEAN
    BY <1>7 DEF PublishFlag
  <2> HIDE DEF ps
  <2> QED
    BY <1>2, <2>2, <2>3
<1>8. CASE PublishStarted \/ \E w \in Workers : PublishDone(w)
  BY <1>7, <1>8, Names DEF PublishStarted, PublishDone
<1>9. CASE Send
  <2>1. /\ sending' = Tail(sending) /\ sending # <<>>
        /\ holder' = IF Len(sending) = 1 THEN "none" ELSE holder
    BY <1>9 DEF Send
  <2>2. sending' \in Seq(Queued') /\ Len(sending') = Len(sending) - 1
    BY <1>1, <2>1
  <2>3. Len(sending) = 1 <=> sending' = <<>>
    BY <1>1, <2>1, <2>2
  <2> QED
    BY <1>0, <2>1, <2>2, <2>3 DEF LockOK
<1>10. CASE Restart
  BY <1>10 DEF Restart, LockOK
<1>11. CASE UNCHANGED <<sending, holder>>
  BY <1>0, <1>1, <1>11 DEF LockOK
<1> QED
  BY <1>3, <1>4, <1>6, <1>8, <1>9, <1>10, <1>11, LockFrame DEF Publishing

\* And the datagrams.
LEMMA NextNet ==
    ASSUME TypeInv, Next
    PROVE  net' \in Seq(Packets')
<1>0. /\ SizesOK /\ StateOK /\ LockOK /\ StepsOK /\ Packets \subseteq Packets'
      /\ net \in Seq(Packets) /\ ShapeInv
  BY TypeParts, NextGrows, Grown DEF TypeInv
<1>1. CASE Send
  <2>1. Head(sending) \in Queued
    BY <1>0, <1>1 DEF Send, LockOK
  <2>2. Head(sending).packet \in Packets
    BY <2>1 DEF Queued
  <2>3. net' = net \/ net' = Append(net, Head(sending).packet)
    BY <1>1 DEF Send
  <2> QED
    BY <1>0, <2>2, <2>3
<1>2. CASE Answer
  <2> DEFINE p == IF step["listener"].ack
                  THEN [kind |-> "ack", epoch |-> epoch,
                        gen |-> step["listener"].gen]
                  ELSE [kind |-> "unknown"]
  <2>1. step["listener"].gen \in Count
    BY <1>0, <1>2, StepFields, Names DEF Answer
  <2>2. p \in Packets
    BY <1>0, <2>1, PacketsMade
  <2>3. net' = Append(net, p)
    BY <1>2 DEF Answer
  <2> HIDE DEF p
  <2> QED
    BY <1>0, <2>2, <2>3
<1>3. CASE Deliver
  BY <1>0, <1>3 DEF Deliver
<1>4. CASE Lose
  <2>1. net' = net \/ \E k \in DOMAIN net : net' = Without(net, k)
    BY <1>4 DEF Lose
  <2> QED
    BY <1>0, <2>1, WithoutElements
<1>5. CASE Overtake
  <2>1. PICK k \in 1 .. Len(net) - 1 :
           net' = [net EXCEPT ![k] = net[k + 1], ![k + 1] = net[k]]
    BY <1>5 DEF Overtake
  <2> QED
    BY <1>0, <2>1
<1>6. CASE Restart
  <2>1. net' = net \/ net' = Append(net, [kind |-> "goodbye"])
    BY <1>6 DEF Restart
  <2> QED
    BY <1>0, <2>1, PacketsMade
<1>7. CASE net' = net
  BY <1>0, <1>7
<1> QED
  BY <1>1, <1>2, <1>3, <1>4, <1>5, <1>6, <1>7, NetFrame

\* What a packet taken makes of the client.
LEMMA TakenClient ==
    ASSUME TypeInv, Deliver
    PROVE  ClientOK'
<1>0. /\ ClientOK /\ SizesOK /\ net \in Seq(Packets) /\ net # <<>>
      /\ newest' = newest /\ epoch' = epoch
  BY TypeParts DEF Deliver, state
<1> DEFINE m == Head(net)
<1>1. m \in Packets
  BY <1>0
<1>2. m.gen \in Count \/ m.kind \in {"unknown", "goodbye"}
  BY <1>1, PacketFields
<1>3. Version' = Version /\ 0 \in Version /\ Item = Part
  BY <1>0 DEF Version, SizesOK, Item
<1> HIDE DEF m
<1>4. CASE HandleUpdate(m)
  BY <1>0, <1>1, <1>3, <1>4, PacketFields, SyncKept, Names
     DEF HandleUpdate, ClientOK
<1>5. CASE HandleFlag(m)
  BY <1>0, <1>1, <1>3, <1>5, PacketFields, SyncKept, Names DEF HandleFlag, ClientOK
<1>6. CASE HandlePart(m)
  BY <1>0, <1>1, <1>3, <1>6, PacketFields, SyncKept DEF HandlePart, ClientOK
<1>7. CASE HandleAck(m)
  <2>1. m.gen \in Count /\ m.epoch \in 1 .. epoch /\ Own \in Part
    BY <1>1, <1>7, PacketFields, Names DEF HandleAck, Item
  <2>2. SyncOK(OnAck(Fresh, m.gen)) /\ SyncOK(OnAck(sync, m.gen))
    BY <1>0, <2>1, FreshOK, SyncKept DEF ClientOK
  <2>3. /\ sync' \in {OnAck(Fresh, m.gen), OnAck(sync, m.gen)}
        /\ heard' = m.epoch
        /\ \/ vals' = [i \in Item |-> 0] /\ shown' = FALSE /\ ready' = FALSE
           \/ UNCHANGED <<vals, shown, ready>>
    BY <1>7 DEF HandleAck, model
  <2> QED
    BY <1>0, <1>3, <2>1, <2>2, <2>3 DEF ClientOK
<1>8. CASE HandleUnknown(m) \/ HandleGoodbye(m)
  BY <1>0, <1>3, <1>8 DEF HandleUnknown, HandleGoodbye, ClientOK, model
<1> QED
  BY <1>4, <1>5, <1>6, <1>7, <1>8 DEF Deliver, m

\* And the client.
LEMMA NextClient ==
    ASSUME TypeInv, Next
    PROVE  ClientOK'
<1>1. /\ ClientOK /\ Version \subseteq Version' /\ 1 .. epoch \subseteq 1 .. epoch'
  BY TypeParts, NextGrows, Grown DEF TypeInv, Grows, SizesOK
<1>2. CASE UNCHANGED <<vals, shown, ready, sync, heard>>
  BY <1>1, <1>2 DEF ClientOK
<1> QED
  BY <1>2, TakenClient, ClientFrame

\* And the registry and the requests.
LEMMA NextRegistry ==
    ASSUME TypeInv, Next
    PROVE  RegistryOK' /\ RequestsOK'
<1>0. RegistryOK /\ RequestsOK /\ ClientOK
  BY TypeParts
<1>1. RegistryOK'
  <2>1. CASE UNCHANGED <<known, late>>
    BY <1>0, <2>1 DEF RegistryOK
  <2>2. CASE Send
    BY <1>0, <2>2 DEF Send, RegistryOK
  <2>3. CASE Register \/ Heartbeat \/ Silence \/ Restart
    BY <1>0, <2>3 DEF Register, Heartbeat, Silence, Restart, RegistryOK
  <2> QED
    BY <2>1, <2>2, <2>3
       DEF Next, Changes, Recomputes, Publications, Answers, Studio,
       Faults, LiveChange, PostState, Control, StartRecompute, FinishRecompute,
       PollMoved, BroadcastMoved, BroadcastSnapshot, PublishControl, PublishEvent,
       PublishItem, PublishBuilt, PublishStarted, PublishDone, PublishFlag, Refresh,
       Reply, ReadCount, Answer, Deliver, RegisterAgain, SendHeartbeat, RetryDue,
       Lose, Overtake, registry
<1>2. RequestsOK'
  <2>1. CASE UNCHANGED <<up, asked>>
    BY <1>0, <2>1 DEF RequestsOK
  <2>2. CASE Register \/ Refresh \/ Heartbeat
    BY <1>0, <2>2 DEF Register, Refresh, Heartbeat, Receive, RequestsOK, client
  <2>3. CASE RegisterAgain \/ SendHeartbeat \/ RetryDue \/ Lose \/ Restart
    BY <1>0, <2>3 DEF RegisterAgain, SendHeartbeat, RetryDue, Lose, Restart,
                      RequestsOK, client
  <2>4. ASSUME Deliver
        PROVE  RequestsOK'
    <3>1. sync'.stale \in BOOLEAN
      BY TakenClient, <2>4 DEF ClientOK, SyncOK, Sync
    <3>2. ASSUME NEW requests \in SUBSET {"register"}, Follow(requests)
          PROVE  RequestsOK'
      BY <1>0, <3>1, <3>2 DEF Follow, RequestsOK
    <3>3. ASSUME NEW m, HandleAck(m)
          PROVE  RequestsOK'
      BY <1>0, <3>2, <3>3 DEF HandleAck, RequestsOK
    <3> QED
      BY <2>4, <3>2, <3>3 DEF Deliver, HandleUpdate, HandleFlag, HandlePart,
                              HandleUnknown, HandleGoodbye
  <2> QED
    BY <2>1, <2>2, <2>3, <2>4 DEF Next, Changes, Recomputes, Publications, Answers,
       Studio, Faults, LiveChange, PostState, Control, StartRecompute,
       FinishRecompute, PollMoved, BroadcastMoved, BroadcastSnapshot, PublishControl,
       PublishEvent, PublishItem, PublishBuilt, PublishStarted, PublishDone,
       PublishFlag, Reply, ReadCount, Answer, Send, Overtake, Silence, client
<1> QED
  BY <1>1, <1>2

\* Every step keeps the types.
LEMMA NextTypes ==
    ASSUME TypeInv, OrderInv, [Next]_vars
    PROVE  TypeInv'
<1>1. CASE Next
  <2>1. /\ SizesOK' /\ StateOK' /\ ClientOK' /\ StepsOK' /\ LockOK'
        /\ RegistryOK' /\ RequestsOK' /\ net' \in Seq(Packets') /\ left' \in Budget
    BY <1>1, NextGrows, NextState, NextClient, NextSteps, NextLock, NextRegistry,
       NextNet, NextLeft, TypeParts
  <2>2. (TypeInv <=> /\ SizesOK /\ StateOK /\ ClientOK /\ StepsOK /\ LockOK
                     /\ RegistryOK /\ RequestsOK /\ net \in Seq(Packets)
                     /\ left \in Budget)'
    BY TypeParts, PTL
  <2> QED
    BY <2>1, <2>2
<1>2. CASE UNCHANGED vars
  <2>1. Version' = Version
    BY <1>2 DEF vars, state, Version
  <2>2. Packets' = Packets /\ Steps' = Steps
    BY <1>2, <2>1 DEF vars, state, Packets, Steps
  <2>3. TypeOK'
    BY <1>2, <2>1, <2>2 DEF vars, state, lock, registry, client, model, history,
                            TypeInv, TypeOK
  <2> QED
    BY <1>2, <2>2, <2>3 DEF vars, state, lock, TypeInv, ShapeInv, Queued
<1> QED
  BY <1>1, <1>2

\* The types hold of every behaviour.
THEOREM TypeCorrect == Spec => []TypeOK
<1>1. Init => TypeInv /\ OrderInv
  BY InitTypes, InitOrder
<1>2. TypeInv /\ OrderInv /\ [Next]_vars => TypeInv' /\ OrderInv'
  BY NextTypes, NextOrder
<1>3. TypeInv => TypeOK
  BY DEF TypeInv
<1> QED
  BY <1>1, <1>2, <1>3, PTL DEF Spec

-----------------------------------------------------------------------------
(* The counts.  An invariant may say that each item was last published      *)
(* since[i] publications ago, and that there were n since the engine        *)
(* started, without the model keeping either.                               *)

\* How many publications before count c the count g was.
Age(c, g) == IF g <= c THEN c - g ELSE c + CountSize - g

\* With what t tells of the last publications: the version v of item i is no
\* older than the last published, or was the one a publications ago, before that.
AsOf(t, since, i, v, a) == v >= t[i] \/ since[i] < a

\* What a packet says is as it was at the count it carries; an update or a flag
\* is alone with its count.  c is the count now.
Numbered == {"update", "flag", "part"}
Faithful(c, t, since, n, p) ==
    /\ p.kind \in Numbered => Age(c, p.gen) <= n
    /\ p.kind = "update" =>
         /\ AsOf(t, since, p.item, p.val, Age(c, p.gen))
         /\ \A i \in Item \ {p.item} : since[i] # Age(c, p.gen)
    /\ p.kind = "flag" => \A i \in Item : since[i] # Age(c, p.gen)
    /\ p.kind = "part" => AsOf(t, since, p.part, p.val, Age(c, p.gen))

\* A client that missed nothing since the count it holds has every item as it
\* was at that count.
Holds(c, t, since, n, vs, s) ==
    s.held # None =>
        /\ Age(c, s.held) <= n
        /\ \A i \in Item : i \in s.seen \/ (s.seen = {} /\ ~s.stale) =>
              AsOf(t, since, i, vs[i], Age(c, s.held))

\* What is being sent was published last.
SendingInv(since, n) ==
    \A k \in DOMAIN sending :
        /\ sending[k].packet.kind \in Numbered
        /\ sending[k].packet.gen = count
        /\ Faithful(count, told, since, n, sending[k].packet)

\* What an acknowledgement will tell is before what is being sent.
AnswerInv(n) ==
    step["listener"].do = "answer" =>
        /\ Age(count, step["listener"].gen) <= n
        /\ sending # <<>> => step["listener"].gen # count

\* The publications the threads still owe, and those the budget allows.
Building == {w \in Workers : step[w].do \in {"build", "built"}}
Ending == {w \in Workers : step[w].do = "done"}
One(b) == IF b THEN 1 ELSE 0
Promised(s) == One(s.do \in {"update", "broadcast"}) + 3 * One(s.do = "flag")
Owed ==
    One(moved) + One(event # None) + Promised(step["listener"])
    + 2 * Cardinality(Building) + Cardinality(Ending)
Debt == Owed + left.changes + 3 * left.builds
FiniteInv == IsFiniteSet(Building) /\ IsFiniteSet(Ending)
BudgetInv(n) == FiniteInv /\ n + Debt < CountSize

\* The client heard of the engine that runs, or there was no other; after that
\* engine's first acknowledgement nothing of another is on its way.
OfThisEngine == epoch = 1 \/ heard = epoch
AfterAck(k) == \E j \in 1 .. k - 1 : net[j].kind = "ack" /\ net[j].epoch = epoch

NetInv(since, n) ==
    \A k \in DOMAIN net : OfThisEngine \/ AfterAck(k) =>
        /\ Faithful(count, told, since, n, net[k])
        /\ net[k].kind = "ack" => net[k].epoch = epoch

ModelInv(since, n) == OfThisEngine => Holds(count, told, since, n, vals, sync)

\* One engine runs all along, or no datagram overtakes another.
InOrder == left.restarts = 0 \/ left.overtakes = 0
DisorderInv ==
    /\ left.overtakes = 0 \/ (left.restarts = 0 /\ epoch = 1)
    /\ epoch = 1 \/ heard # None

ClientInv(since, n) == NetInv(since, n) /\ ModelInv(since, n) /\ DisorderInv

Published(ordered, since, n) ==
    /\ \A i \in Item : since[i] <= n
    /\ SendingInv(since, n) /\ AnswerInv(n) /\ BudgetInv(n)
    /\ ordered /\ ~left.early => ClientInv(since, n)

PublishedInv(ordered) ==
    \E since \in [Item -> 0 .. CountSize - 1], n \in 0 .. CountSize - 1 :
        Published(ordered, since, n)

\* A count and its age tell the same, as long as the counts have not come round.
LEMMA AgeIs ==
    \A c, g \in Count : /\ Age(c, g) \in 0 .. CountSize - 1
                        /\ (Age(c, g) = 0) <=> (g = c)
BY CountAssumption DEF Age, Count

\* The next count is one publication later, as long as the counts do not come round.
LEMMA AgeAdvances ==
    ASSUME NEW c \in Count, NEW g \in Count
    PROVE  /\ Age(c, g) < CountSize - 1 =>
                Age(Following(c), g) = Age(c, g) + 1 /\ g # Following(c)
           /\ Age(c, g) > 0 => Age(c, Following(g)) = Age(c, g) - 1
<1>1. Following(c) = IF c = CountSize - 1 THEN 0 ELSE c + 1
  BY FollowingIs
<1>2. Following(g) = IF g = CountSize - 1 THEN 0 ELSE g + 1
  BY FollowingIs
<1>3. c \in Nat /\ g \in Nat /\ c < CountSize /\ g < CountSize /\ CountSize \in Nat
  BY CountAssumption DEF Count
<1> QED
  BY <1>1, <1>2, <1>3 DEF Age

-----------------------------------------------------------------------------
(* A publication was promised before it is made, and a promise was paid for. *)

\* What the threads owe for their recomputes.
Recomputed == 2 * Cardinality(Building) + Cardinality(Ending)

\* A step of a worker, in the sets of workers that owe.
LEMMA WorkerStep ==
    ASSUME StepsOK, NEW w \in Workers, NEW s, step' = [step EXCEPT ![w] = s]
    PROVE  /\ Building' = IF s.do \in {"build", "built"} THEN Building \cup {w}
                          ELSE Building \ {w}
           /\ Ending' = IF s.do = "done" THEN Ending \cup {w} ELSE Ending \ {w}
           /\ step'["listener"] = step["listener"]
<1>1. \A u \in Workers : step'[u] = IF u = w THEN s ELSE step[u]
  BY Names DEF StepsOK
<1>2. step'["listener"] = step["listener"]
  BY Names DEF StepsOK
<1> QED
  BY <1>1, <1>2 DEF Building, Ending

\* A step of another thread.
LEMMA OtherStep ==
    ASSUME StepsOK, NEW t \in {"listener", "telemetry"}, NEW s,
           step' = [step EXCEPT ![t] = s]
    PROVE  /\ Building' = Building /\ Ending' = Ending
           /\ step'["listener"] = IF t = "listener" THEN s ELSE step["listener"]
<1>1. \A u \in Workers : step'[u] = step[u]
  BY Names DEF StepsOK
<1>2. step'["listener"] = IF t = "listener" THEN s ELSE step["listener"]
  BY Names DEF StepsOK
<1> QED
  BY <1>1, <1>2 DEF Building, Ending

\* The workers owe what they owed.
LEMMA SameOwed ==
    ASSUME FiniteInv, Building' = Building, Ending' = Ending
    PROVE  FiniteInv' /\ Recomputed' = Recomputed
BY DEF FiniteInv, Recomputed

\* What they owe is a number.
LEMMA RecomputedIs ==
    FiniteInv => /\ Recomputed \in Nat
                 /\ Cardinality(Building) \in Nat /\ Cardinality(Ending) \in Nat
<1> SUFFICES ASSUME FiniteInv
             PROVE  /\ Recomputed \in Nat
                    /\ Cardinality(Building) \in Nat /\ Cardinality(Ending) \in Nat
  OBVIOUS
<1>1. Cardinality(Building) \in Nat /\ Cardinality(Ending) \in Nat
  BY FS_CardinalityType DEF FiniteInv
<1> QED
  BY <1>1 DEF Recomputed

\* A worker that publishes what it built, then that it is done.
LEMMA WorkerPublishes ==
    ASSUME StepsOK, FiniteInv, NEW w \in Workers, PublishBuilt(w) \/ PublishDone(w)
    PROVE  /\ FiniteInv' /\ Recomputed' = Recomputed - 1
           /\ step'["listener"] = step["listener"]
<1>0. /\ IsFiniteSet(Building) /\ IsFiniteSet(Ending)
      /\ Cardinality(Building) \in Nat /\ Cardinality(Ending) \in Nat
  BY RecomputedIs DEF FiniteInv
<1>1. CASE PublishBuilt(w)
  <2> DEFINE s == [do |-> "done"]
  <2>1. step' = [step EXCEPT ![w] = s] /\ step[w].do = "built" /\ s.do = "done"
    BY <1>1 DEF PublishBuilt, PublishItem, Publish
  <2> HIDE DEF s
  <2>2. /\ Building' = Building \ {w} /\ w \in Building
        /\ Ending' = Ending \cup {w} /\ w \notin Ending
        /\ step'["listener"] = step["listener"]
    BY <2>1, WorkerStep DEF Building, Ending
  <2>3. /\ IsFiniteSet(Building \ {w}) /\ IsFiniteSet(Ending \cup {w})
        /\ Cardinality(Building \ {w}) = Cardinality(Building) - 1
        /\ Cardinality(Ending \cup {w}) = Cardinality(Ending) + 1
    BY <1>0, <2>2, FS_AddElement, FS_RemoveElement
  <2> QED
    BY <1>0, <2>2, <2>3 DEF FiniteInv, Recomputed
<1>2. CASE PublishDone(w)
  <2>1. step' = [step EXCEPT ![w] = Idle] /\ step[w].do = "done" /\ Idle.do = "idle"
    BY <1>2 DEF PublishDone, PublishFlag, Idle
  <2>2. /\ Building' = Building \ {w} /\ w \notin Building
        /\ Ending' = Ending \ {w} /\ w \in Ending
        /\ step'["listener"] = step["listener"]
    BY <2>1, WorkerStep DEF Building, Ending
  <2>3. Building' = Building
    BY <2>2
  <2>4. IsFiniteSet(Ending') /\ Cardinality(Ending') = Cardinality(Ending) - 1
    BY <1>0, <2>2, FS_RemoveElement
  <2>5. FiniteInv'
    BY <1>0, <2>3, <2>4 DEF FiniteInv
  <2>6. Recomputed' = Recomputed - 1
    BY <1>0, <2>3, <2>4 DEF Recomputed
  <2> QED
    BY <2>2, <2>5, <2>6
<1> QED
  BY <1>1, <1>2

\* The listener tells that a recompute starts, and its worker starts.
LEMMA WorkerStarts ==
    ASSUME StepsOK, FiniteInv, PublishStarted
    PROVE  /\ FiniteInv' /\ Recomputed' <= Recomputed + 2
           /\ step["listener"].do = "flag" /\ step'["listener"] = Idle
<1> DEFINE w == step["listener"].spawn
<1>0. /\ IsFiniteSet(Building) /\ IsFiniteSet(Ending)
      /\ Cardinality(Building) \in Nat /\ Cardinality(Ending) \in Nat
  BY RecomputedIs DEF FiniteInv
<1>1. /\ step' = [step EXCEPT !["listener"] = Idle, ![w] = [do |-> "build"]]
      /\ step["listener"].do = "flag"
  BY DEF PublishStarted, PublishFlag
<1>2. w \in Workers
  BY <1>1, StepFields, Names
<1> HIDE DEF w
<1>3. /\ \A u \in Workers : step'[u] = IF u = w THEN [do |-> "build"] ELSE step[u]
      /\ step'["listener"] = Idle
  BY <1>1, <1>2, Names DEF StepsOK
<1>4. Building' = Building \cup {w} /\ Ending' = Ending \ {w}
  BY <1>2, <1>3 DEF Building, Ending
<1>5. /\ IsFiniteSet(Building \cup {w})
      /\ Cardinality(Building \cup {w}) <= Cardinality(Building) + 1
  <2>1. /\ IsFiniteSet(Building \cup {w})
        /\ Cardinality(Building \cup {w}) =
              IF w \in Building THEN Cardinality(Building)
              ELSE Cardinality(Building) + 1
    BY <1>0, FS_AddElement
  <2> QED
    BY <1>0, <2>1
<1>6. IsFiniteSet(Ending \ {w}) /\ Cardinality(Ending \ {w}) <= Cardinality(Ending)
  <2>1. /\ IsFiniteSet(Ending \ {w})
        /\ Cardinality(Ending \ {w}) =
              IF w \in Ending THEN Cardinality(Ending) - 1 ELSE Cardinality(Ending)
    BY <1>0, FS_RemoveElement
  <2> QED
    BY <1>0, <2>1
<1>7. Cardinality(Building \cup {w}) \in Nat /\ Cardinality(Ending \ {w}) \in Nat
  BY <1>5, <1>6, FS_CardinalityType
<1> QED
  BY <1>0, <1>1, <1>3, <1>4, <1>5, <1>6, <1>7 DEF FiniteInv, Recomputed

\* What a step of the listener promises.
LEMMA PromisedIs ==
    \A s : /\ Promised(s) \in Nat
           /\ s.do \in {"update", "broadcast"} => Promised(s) = 1
           /\ s.do = "flag" => Promised(s) = 3
           /\ s.do \notin {"update", "broadcast", "flag"} => Promised(s) = 0
BY DEF Promised, One

\* The debt in two parts: what the threads are about to publish, and what may
\* still come to be published.
Pledged == One(event # None) + Promised(step["listener"]) + Recomputed
Spared == One(moved) + left.changes + 3 * left.builds

\* The first part is a number.
LEMMA PledgedIs == FiniteInv => Pledged \in Nat
<1> SUFFICES ASSUME FiniteInv
             PROVE  Pledged \in Nat
  OBVIOUS
<1>1. /\ One(event # None) \in Nat /\ Promised(step["listener"]) \in Nat
      /\ Recomputed \in Nat
  BY PromisedIs, RecomputedIs DEF One
<1> QED
  BY <1>1 DEF Pledged

\* The debt is both parts.
LEMMA DebtIs == TypeInv /\ FiniteInv => Debt = Pledged + Spared /\ Spared \in Nat
<1> SUFFICES ASSUME TypeInv, FiniteInv
             PROVE  Debt = Pledged + Spared /\ Spared \in Nat
  OBVIOUS
<1> DEFINE m == One(moved)
           e == One(event # None)
           l == Promised(step["listener"])
           b == Cardinality(Building)
           d == Cardinality(Ending)
<1>1. /\ m \in Nat /\ left.changes \in Nat /\ left.builds \in Nat
      /\ e \in Nat /\ l \in Nat /\ b \in Nat /\ d \in Nat
  BY TypeParts, PromisedIs, RecomputedIs DEF Budget, One
<1>2. Debt = (m + e + l + 2 * b + d) + left.changes + 3 * left.builds
  BY DEF Debt, Owed
<1>3. Pledged = e + l + (2 * b + d) /\ Spared = m + left.changes + 3 * left.builds
  BY DEF Pledged, Spared, Recomputed
<1> HIDE DEF m, e, l, b, d
<1> QED
  BY <1>1, <1>2, <1>3

\* The arithmetic of a promise kept.
LEMMA OneLess ==
    /\ \A n, x, z, c \in Nat :
          /\ n + x < c /\ z <= x => n + z < c
          /\ n + x < c /\ z <= x - 1 => n + 1 + z < c /\ n + 1 < c /\ z <= x
    /\ \A e, r, s, p, q \in Nat :
          s <= r + 2 /\ q = e + s /\ p = e + 3 + r => q <= p - 1
OBVIOUS

\* A publication made is one promise less.
LEMMA PublishingPays ==
    ASSUME TypeInv, FiniteInv, Publishing
    PROVE  FiniteInv' /\ Spared' = Spared /\ Pledged' <= Pledged - 1
<1>0. StepsOK /\ Promised(Idle) = 0
  BY TypeParts, PromisedIs DEF Idle
<1> DEFINE e == One(event # None)
           l == Promised(step["listener"])
           r == Recomputed
<1>1. Spared' = Spared
  <2>1. UNCHANGED <<left, moved>>
    BY DEF Publishing, BroadcastMoved, PublishControl, PublishEvent, PublishStarted,
           PublishBuilt, PublishDone, PublishFlag, PublishItem, state
  <2> QED
    BY <2>1 DEF Spared
<1>2. /\ e \in Nat /\ l \in Nat /\ r \in Nat /\ e' \in Nat
      /\ Pledged = e + l + r /\ Pledged' = e' + l' + r'
  BY PromisedIs, RecomputedIs DEF One, Pledged
<1>3. CASE BroadcastMoved \/ PublishControl
  <2>1. /\ step' = [step EXCEPT !["listener"] = Idle] /\ event' = event
        /\ step["listener"].do \in {"broadcast", "update"}
    BY <1>3 DEF BroadcastMoved, BroadcastSnapshot, PublishControl, PublishItem,
                Publish, state
  <2>2. Building' = Building /\ Ending' = Ending /\ step'["listener"] = Idle
    BY <1>0, <2>1, OtherStep
  <2>3. FiniteInv' /\ e' = e /\ l' = 0 /\ l = 1 /\ r' = r
    BY <1>0, <2>1, <2>2, PromisedIs, SameOwed
  <2> HIDE DEF e, l, r
  <2> QED
    BY <1>1, <1>2, <2>3
<1>4. CASE PublishEvent
  <2>1. step' = [step EXCEPT !["telemetry"] = Idle] /\ event # None /\ event' = None
    BY <1>4 DEF PublishEvent, PublishItem, Publish
  <2>2. /\ Building' = Building /\ Ending' = Ending
        /\ step'["listener"] = step["listener"]
    BY <1>0, <2>1, OtherStep
  <2>3. e' = 0 /\ e = 1 /\ l' = l
    BY <2>1, <2>2 DEF One
  <2>4. FiniteInv' /\ r' = r
    BY <2>2, SameOwed
  <2> HIDE DEF e, l, r
  <2> QED
    BY <1>1, <1>2, <2>3, <2>4
<1>5. ASSUME NEW w \in Workers, PublishBuilt(w) \/ PublishDone(w)
      PROVE  FiniteInv' /\ Pledged' <= Pledged - 1
  <2>1. event' = event
    BY <1>5 DEF PublishBuilt, PublishDone, PublishFlag, state
  <2>2. FiniteInv' /\ r' = r - 1 /\ step'["listener"] = step["listener"]
    BY <1>0, <1>5, WorkerPublishes
  <2>3. e' = e /\ l' = l
    BY <2>1, <2>2
  <2> HIDE DEF e, l, r
  <2> QED
    BY <1>2, <2>2, <2>3
<1>6. CASE PublishStarted
  <2>1. event' = event
    BY <1>6 DEF PublishStarted, PublishFlag, state
  <2>2. /\ FiniteInv' /\ r' <= r + 2
        /\ step["listener"].do = "flag" /\ step'["listener"] = Idle
    BY <1>0, <1>6, WorkerStarts
  <2>3. e' = e /\ l' = 0 /\ l = 3
    BY <1>0, <2>1, <2>2, PromisedIs
  <2>4. r' \in Nat
    <3>1. (FiniteInv => /\ Recomputed \in Nat
                        /\ Cardinality(Building) \in Nat
                        /\ Cardinality(Ending) \in Nat)'
      BY RecomputedIs, PTL
    <3> QED
      BY <2>2, <3>1
  <2>5. Pledged' = e + r' /\ Pledged = e + 3 + r
    BY <1>2, <2>3, <2>4
  <2>6. Pledged \in Nat /\ Pledged' \in Nat
    BY <1>2, <2>4, <2>5
  <2>7. Pledged' <= Pledged - 1
    BY <1>2, <2>2, <2>4, <2>5, <2>6, OneLess
  <2> QED
    BY <1>1, <2>2, <2>7
<1> QED
  BY <1>1, <1>3, <1>4, <1>5, <1>6 DEF Publishing

\* The changes spend, once for each promise they make.
LEMMA SpendsFrom ==
    ASSUME TypeInv, NEW what, Spend(what),
           what \in {"changes", "builds", "faults", "overtakes", "restarts"}
    PROVE  /\ left.changes \in Nat /\ left.builds \in Nat
           /\ left'.changes = left.changes - (IF what = "changes" THEN 1 ELSE 0)
           /\ left'.builds = left.builds - (IF what = "builds" THEN 1 ELSE 0)
           /\ left'.early = left.early
<1>1. left \in Budget
  BY TypeParts
<1> QED
  BY <1>1 DEF Spend, Budget

\* No other step promises more than it pays for.
LEMMA OthersPay ==
    ASSUME TypeInv, FiniteInv, Next, ~Publishing
    PROVE  FiniteInv' /\ Pledged' + Spared' <= Pledged + Spared
<1>0. /\ StepsOK /\ Pledged \in Nat /\ Spared \in Nat /\ Promised(Idle) = 0
      /\ left.changes \in Nat /\ left.builds \in Nat
  BY TypeParts, PromisedIs, PledgedIs, DebtIs DEF Idle, Budget
<1> DEFINE e == One(event # None)
           l == Promised(step["listener"])
           r == Recomputed
           m == One(moved)
           Same == UNCHANGED <<Building, Ending>>
<1>1. /\ Pledged = e + l + r /\ Pledged' = e' + l' + r'
      /\ Spared = m + left.changes + 3 * left.builds
      /\ Spared' = m' + left'.changes + 3 * left'.builds
      /\ e \in {0, 1} /\ e' \in {0, 1} /\ m \in {0, 1} /\ m' \in {0, 1}
      /\ l \in Nat /\ l' \in Nat /\ r \in Nat
  BY PromisedIs, RecomputedIs DEF Pledged, Spared, One
<1>2. Same => FiniteInv' /\ r' = r
  BY SameOwed
<1>3. ASSUME step' = step
      PROVE  Same /\ l' = l
  BY <1>3 DEF Building, Ending
<1>4. ASSUME NEW s, step' = [step EXCEPT !["listener"] = s]
      PROVE  Same /\ l' = Promised(s)
  BY <1>0, <1>4, OtherStep
<1>5. ASSUME \/ PostState \/ \E i \in Item : LiveChange(i)
      PROVE  FiniteInv' /\ Pledged' + Spared' <= Pledged + Spared
  <2>1. /\ step' = step /\ Spend("changes")
        /\ event' = event \/ moved' = moved
    BY <1>5 DEF LiveChange, PostState
  <2>2. e' = e \/ m' = m
    BY <2>1
  <2>3. left'.changes = left.changes - 1 /\ left'.builds = left.builds
    BY <2>1, SpendsFrom
  <2>4. FiniteInv' /\ r' = r /\ l' = l
    BY <1>2, <1>3, <2>1
  <2> HIDE DEF e, l, r, m
  <2> QED
    BY <1>0, <1>1, <2>2, <2>3, <2>4
<1>6. CASE Control
  <2>1. Spend("changes") /\ event' = event /\ moved' = moved
    BY <1>6 DEF Control
  <2>2. FiniteInv' /\ r' = r /\ l' = 1 /\ e' = e /\ m' = m
    <3>1. PICK s \in {[do |-> "update", val |-> newest'], [do |-> "broadcast"]} :
             step' = [step EXCEPT !["listener"] = s]
      BY <1>6 DEF Control
    <3>2. s.do \in {"update", "broadcast"}
      BY <3>1
    <3>3. Same /\ l' = 1
      BY <1>4, <3>1, <3>2, PromisedIs
    <3> QED
      BY <1>2, <2>1, <3>3
  <2>3. left'.changes = left.changes - 1 /\ left'.builds = left.builds
    BY <2>1, SpendsFrom
  <2> HIDE DEF e, l, r, m
  <2> QED
    BY <1>0, <1>1, <2>2, <2>3
<1>7. ASSUME NEW w \in Workers, StartRecompute(w)
      PROVE  FiniteInv' /\ Pledged' + Spared' <= Pledged + Spared
  <2>1. /\ Spend("builds") /\ event' = event /\ moved' = moved
        /\ step' = [step EXCEPT !["listener"] = [do |-> "flag", spawn |-> w]]
    BY <1>7 DEF StartRecompute
  <2>2. FiniteInv' /\ r' = r /\ l' = 3 /\ e' = e /\ m' = m
    BY <1>2, <1>4, <2>1, PromisedIs
  <2>3. left'.changes = left.changes /\ left'.builds = left.builds - 1
    BY <2>1, SpendsFrom
  <2> HIDE DEF e, l, r, m
  <2> QED
    BY <1>0, <1>1, <2>2, <2>3
<1>8. ASSUME NEW w \in Workers, NEW i \in Item, FinishRecompute(w, i)
      PROVE  FiniteInv' /\ Pledged' + Spared' <= Pledged + Spared
  <2> DEFINE s == [do |-> "built", item |-> i]
  <2>1. /\ step' = [step EXCEPT ![w] = s] /\ s.do = "built" /\ step[w].do = "build"
        /\ UNCHANGED <<left, event, moved>>
    BY <1>8 DEF FinishRecompute
  <2> HIDE DEF s
  <2>2. Same /\ l' = l
    BY <1>0, <2>1, WorkerStep DEF Building, Ending
  <2>3. FiniteInv' /\ r' = r /\ l' = l /\ e' = e /\ m' = m
    BY <1>2, <2>1, <2>2
  <2> HIDE DEF e, l, r, m
  <2> QED
    BY <1>0, <1>1, <2>1, <2>3
<1>9. CASE PollMoved
  <2>1. /\ moved /\ ~moved' /\ UNCHANGED <<left, event>>
        /\ step' = [step EXCEPT !["listener"] = [do |-> "broadcast"]]
    BY <1>9 DEF PollMoved
  <2> DEFINE s == [do |-> "broadcast"]
  <2>2. Same /\ l' = 1
    <3>1. step' = [step EXCEPT !["listener"] = s] /\ s.do = "broadcast"
      BY <2>1
    <3> HIDE DEF s
    <3> QED
      BY <1>4, <3>1, PromisedIs
  <2>3. m = 1 /\ m' = 0
    BY <2>1 DEF One
  <2>4. FiniteInv' /\ r' = r /\ e' = e
    BY <1>2, <2>1, <2>2
  <2> HIDE DEF e, l, r, m
  <2> QED
    BY <1>0, <1>1, <2>1, <2>2, <2>3, <2>4
<1>10. CASE Answers
  <2>1. UNCHANGED <<left, event, moved>>
    BY <1>10
       DEF Answers, Register, Refresh, Reply, Heartbeat, ReadCount, Answer, state
  <2>2. \E s : /\ step' = [step EXCEPT !["listener"] = s]
               /\ s.do \in {"idle", "reply", "count", "answer"}
    BY <1>10, AnswerSteps
  <2>3. FiniteInv' /\ r' = r /\ l' = 0 /\ e' = e /\ m' = m
    BY <1>2, <1>4, <2>1, <2>2, PromisedIs
  <2> HIDE DEF e, l, r, m
  <2> QED
    BY <1>0, <1>1, <2>1, <2>3
<1>11. CASE Restart
  <2>1. /\ step' = [t \in Threads |-> Idle] /\ event' = None /\ moved' = FALSE
        /\ Spend("restarts")
    BY <1>11 DEF Restart
  <2>2. Building' = {} /\ Ending' = {} /\ step'["listener"] = Idle
    BY <2>1, Names DEF Building, Ending, Idle
  <2>3. FiniteInv' /\ r' = 0
    BY <2>2, FS_EmptySet DEF FiniteInv, Recomputed
  <2>4. l' = 0 /\ e' = 0 /\ m' = 0
    BY <1>0, <2>1, <2>2 DEF One
  <2>5. left'.changes = left.changes /\ left'.builds = left.builds
    BY <2>1, SpendsFrom
  <2> HIDE DEF e, l, r, m
  <2> QED
    BY <1>0, <1>1, <2>3, <2>4, <2>5
<1>12. CASE Send \/ Studio \/ Lose \/ Overtake \/ Silence
  <2>1. /\ UNCHANGED <<step, event, moved>>
        /\ \/ left' = left \/ Spend("faults") \/ Spend("overtakes")
    BY <1>12
       DEF Send, Studio, Deliver, RegisterAgain, SendHeartbeat, RetryDue, Lose,
                 Overtake, Silence, state
  <2>2. FiniteInv' /\ r' = r /\ l' = l /\ e' = e /\ m' = m
    BY <1>2, <1>3, <2>1
  <2>3. left'.changes = left.changes /\ left'.builds = left.builds
    BY <2>1, SpendsFrom
  <2> HIDE DEF e, l, r, m
  <2> QED
    BY <1>0, <1>1, <2>2, <2>3
<1> QED
  BY <1>5, <1>6, <1>7, <1>8, <1>9, <1>10, <1>11, <1>12
     DEF Next, Changes, Recomputes, Publications, Faults, Publishing

\* A publication is paid for, and nothing else adds to the debt.
LEMMA NextBudget ==
    ASSUME TypeInv, TypeInv', Next, NEW n \in Nat, BudgetInv(n)
    PROVE  /\ BudgetInv(n)'
           /\ Publishing => n + 1 < CountSize /\ BudgetInv(n + 1)'
<1>0. /\ FiniteInv /\ Debt = Pledged + Spared /\ Pledged \in Nat /\ Spared \in Nat
      /\ n + Debt < CountSize /\ Debt \in Nat /\ CountSize \in Nat
  BY PledgedIs, DebtIs, CountAssumption DEF BudgetInv
<1>1. CASE Publishing
  <2>1. FiniteInv' /\ Spared' = Spared /\ Pledged' <= Pledged - 1
    BY <1>0, <1>1, PublishingPays
  <2>2. FiniteInv' => Pledged' \in Nat
    <3>1. (FiniteInv => Pledged \in Nat)'
      BY PledgedIs, PTL
    <3> QED
      BY <3>1
  <2>3. (TypeInv /\ FiniteInv => Debt = Pledged + Spared /\ Spared \in Nat)'
    BY DebtIs, PTL
  <2>4. Debt' \in Nat /\ Debt' <= Debt - 1
    BY <1>0, <2>1, <2>2, <2>3
  <2>5. n + 1 + Debt' < CountSize /\ n + Debt' < CountSize /\ n + 1 < CountSize
    BY <1>0, <2>4, OneLess
  <2> QED
    BY <2>1, <2>5 DEF BudgetInv
<1>2. CASE ~Publishing
  <2>1. FiniteInv' /\ Pledged' + Spared' <= Pledged + Spared
    BY <1>0, <1>2, OthersPay
  <2>2. FiniteInv' => Pledged' \in Nat
    <3>1. (FiniteInv => Pledged \in Nat)'
      BY PledgedIs, PTL
    <3> QED
      BY <3>1
  <2>3. (TypeInv /\ FiniteInv => Debt = Pledged + Spared /\ Spared \in Nat)'
    BY DebtIs, PTL
  <2>4. Debt' \in Nat /\ Debt' <= Debt
    BY <1>0, <2>1, <2>2, <2>3
  <2>5. n + Debt' < CountSize
    BY <1>0, <2>4, OneLess
  <2> QED
    BY <1>2, <2>1, <2>5 DEF BudgetInv
<1> QED
  BY <1>1, <1>2

-----------------------------------------------------------------------------
(* What a publication makes of what was known.                              *)

\* The items of `those' are published, and the others are one publication older.
After(since, those) == [i \in Item |-> IF i \in those THEN 0 ELSE since[i] + 1]

\* A version that was one of those times is, one publication later, one of them still.
LEMMA LaterAsOf ==
    ASSUME NEW since \in [Item -> Nat], NEW those, NEW t, NEW u, NEW i \in Item,
           i \notin those => u[i] = t[i], NEW v, NEW a \in Nat,
           AsOf(t, since, i, v, a)
    PROVE  AsOf(u, After(since, those), i, v, a + 1)
<1>1. After(since, those)[i] = IF i \in those THEN 0 ELSE since[i] + 1
  BY DEF After
<1> QED
  BY <1>1 DEF AsOf

\* A packet on its way stays faithful, one publication older.
LEMMA LaterFaithful ==
    ASSUME NEW c \in Count, NEW n \in Nat, n + 1 < CountSize,
           NEW since \in [Item -> Nat], NEW those, NEW t, NEW u,
           \A i \in Item \ those : u[i] = t[i],
           NEW p \in Packets, Faithful(c, t, since, n, p)
    PROVE  Faithful(Following(c), u, After(since, those), n + 1, p)
<1> DEFINE a == Age(c, p.gen)
           b == Age(Following(c), p.gen)
           later == After(since, those)
<1>1. CASE p.kind \notin Numbered
  BY <1>1 DEF Faithful, Numbered
<1>2. CASE p.kind \in Numbered
  <2>1. p.gen \in Count /\ a <= n
    BY <1>2, PacketFields DEF Faithful, Numbered
  <2>2. a \in Nat /\ b = a + 1
    BY <2>1, AgeIs, AgeAdvances, CountAssumption
  <2>3. \A i \in Item : since[i] # a => later[i] # b
    BY <2>2 DEF After
  <2>4. b <= n + 1
    BY <2>1, <2>2
  <2>5. \A i \in Item : \A v : AsOf(t, since, i, v, a) => AsOf(u, later, i, v, b)
    BY <2>2, LaterAsOf
  <2>6. p.kind = "update" => p.item \in Item
    BY PacketFields
  <2>7. p.kind = "part" => p.part \in Item
    BY PacketFields DEF Item
  <2> HIDE DEF later
  <2> QED
    BY <2>3, <2>4, <2>5, <2>6, <2>7 DEF Faithful, later
<1> QED
  BY <1>1, <1>2

\* And so does what a client holds.
LEMMA LaterHolds ==
    ASSUME NEW c \in Count, NEW n \in Nat, n + 1 < CountSize,
           NEW since \in [Item -> Nat], NEW those, NEW t, NEW u,
           \A i \in Item \ those : u[i] = t[i],
           NEW vs, NEW s, SyncOK(s), Holds(c, t, since, n, vs, s)
    PROVE  Holds(Following(c), u, After(since, those), n + 1, vs, s)
<1> SUFFICES ASSUME s.held # None
             PROVE  Holds(Following(c), u, After(since, those), n + 1, vs, s)
  BY DEF Holds
<1> DEFINE a == Age(c, s.held)
           b == Age(Following(c), s.held)
<1>1. s.held \in Count /\ a <= n
  BY DEF SyncOK, Sync, Holds
<1>2. a \in Nat /\ b = a + 1
  BY <1>1, AgeIs, AgeAdvances, CountAssumption
<1>3. b <= n + 1
  BY <1>1, <1>2
<1>4. \A i \in Item : AsOf(t, since, i, vs[i], a) =>
                        AsOf(u, After(since, those), i, vs[i], b)
  BY <1>2, LaterAsOf
<1> QED
  BY <1>3, <1>4 DEF Holds

-----------------------------------------------------------------------------
(* What a packet taken makes of what the client holds.                      *)

\* The next in sequence, when nothing was missed.
LEMMA HoldsNext ==
    ASSUME NEW c \in Count, NEW t, NEW since \in [Item -> Nat], NEW n,
           NEW vs, NEW s, SyncOK(s), Holds(c, t, since, n, vs, s),
           s.held # None, s.seen = {}, ~s.stale,
           NEW g \in Count, Following(s.held) = g,
           NEW i \in Item, since[i] # Age(c, g)
    PROVE  AsOf(t, since, i, vs[i], Age(c, g))
<1>1. s.held \in Count /\ since[i] \in Nat
  BY DEF SyncOK, Sync
<1>2. AsOf(t, since, i, vs[i], Age(c, s.held))
  BY DEF Holds
<1>3. Age(c, s.held) \in Nat /\ Age(c, g) \in Nat
  BY <1>1, AgeIs, CountAssumption
<1>4. Age(c, s.held) > 0 => Age(c, g) = Age(c, s.held) - 1
  BY <1>1, AgeAdvances
<1>5. since[i] < Age(c, s.held) => since[i] < Age(c, g)
  BY <1>1, <1>3, <1>4
<1> QED
  BY <1>2, <1>5 DEF AsOf

\* What StateSync makes of an update: current only if it was, one count before.
LEMMA AfterUpdate ==
    ASSUME NEW s, SyncOK(s), NEW g \in Count
    PROVE  LET after == OnUpdate(s, g)
           IN  /\ after.seen = {}
               /\ s.held = None => after.held = None
               /\ s.held # None => after.held = g
               /\ ~after.stale /\ s.held # None =>
                     ~s.stale /\ s.seen = {} /\ Following(s.held) = g
BY DEF SyncOK, Sync, OnUpdate, Abandon

\* The update of an item: the only one published at its count.
LEMMA UpdateHeld ==
    ASSUME NEW c \in Count, NEW t, NEW since \in [Item -> Nat], NEW n,
           NEW vs \in [Item -> Version], NEW s, SyncOK(s),
           Holds(c, t, since, n, vs, s),
           NEW p \in Packets, Faithful(c, t, since, n, p), p.kind = "update"
    PROVE  Holds(c, t, since, n, [vs EXCEPT ![p.item] = p.val], OnUpdate(s, p.gen))
<1>0. p.gen \in Count /\ p.item \in Item
  BY PacketFields
<1> DEFINE after == OnUpdate(s, p.gen)
           ws == [vs EXCEPT ![p.item] = p.val]
<1>1. /\ after.seen = {}
      /\ s.held = None => after.held = None
      /\ s.held # None => after.held = p.gen
      /\ ~after.stale /\ s.held # None =>
            ~s.stale /\ s.seen = {} /\ Following(s.held) = p.gen
  BY <1>0, AfterUpdate
<1> HIDE DEF after
<1>2. \A i \in Item : ws[i] = IF i = p.item THEN p.val ELSE vs[i]
  OBVIOUS
<1> HIDE DEF ws
<1>3. Age(c, p.gen) <= n /\ AsOf(t, since, p.item, p.val, Age(c, p.gen))
  BY DEF Faithful, Numbered
<1>4. ASSUME s.held # None, ~after.stale, NEW i \in Item
      PROVE  AsOf(t, since, i, ws[i], Age(c, p.gen))
  <2>1. CASE i = p.item
    BY <1>2, <1>3, <2>1 DEF AsOf
  <2>2. CASE i # p.item
    <3>1. since[i] # Age(c, p.gen)
      BY <2>2 DEF Faithful
    <3>2. AsOf(t, since, i, vs[i], Age(c, p.gen))
      BY <1>0, <1>1, <1>4, <3>1, HoldsNext
    <3> QED
      BY <1>2, <2>2, <3>2
  <2> QED
    BY <2>1, <2>2
<1> QED
  BY <1>1, <1>3, <1>4 DEF Holds, after, ws

\* The flag: no item was published at its count.
LEMMA FlagHeld ==
    ASSUME NEW c \in Count, NEW t, NEW since \in [Item -> Nat], NEW n,
           NEW vs \in [Item -> Version], NEW s, SyncOK(s),
           Holds(c, t, since, n, vs, s),
           NEW p \in Packets, Faithful(c, t, since, n, p), p.kind = "flag"
    PROVE  Holds(c, t, since, n, vs, OnUpdate(s, p.gen))
<1>0. p.gen \in Count
  BY PacketFields
<1> DEFINE after == OnUpdate(s, p.gen)
<1>1. /\ after.seen = {}
      /\ s.held = None => after.held = None
      /\ s.held # None => after.held = p.gen
      /\ ~after.stale /\ s.held # None =>
            ~s.stale /\ s.seen = {} /\ Following(s.held) = p.gen
  BY <1>0, AfterUpdate
<1> HIDE DEF after
<1>2. Age(c, p.gen) <= n /\ \A i \in Item : since[i] # Age(c, p.gen)
  BY DEF Faithful, Numbered
<1>3. ASSUME s.held # None, ~after.stale, NEW i \in Item
      PROVE  AsOf(t, since, i, vs[i], Age(c, p.gen))
  BY <1>0, <1>1, <1>2, <1>3, HoldsNext
<1> QED
  BY <1>1, <1>2, <1>3 DEF Holds, after

\* The parts in are those of one publication.
LEMMA AfterPart ==
    ASSUME NEW s, SyncOK(s), NEW g \in Count, NEW part \in Part
    PROVE  LET after == OnPart(s, g, part)
           IN  /\ after.held = g
               /\ \A i \in Part :
                     i \in after.seen \/ (after.seen = {} /\ ~after.stale) =>
                        i = part \/ (i \in s.seen /\ s.held = g)
<1> DEFINE base == IF s.gen # g THEN Abandon(s) ELSE s
           seen == base.seen \cup {part}
           after == OnPart(s, g, part)
<1>1. /\ after.held = g
      /\ \/ seen = Part /\ after.seen = {}
         \/ after.seen = {} /\ after.stale
         \/ after.seen = seen
  BY DEF OnPart
<1>2. \A i \in base.seen : i \in s.seen /\ s.held = g
  BY DEF SyncOK, Sync, Abandon
<1>3. seen # {}
  OBVIOUS
<1> HIDE DEF after, base
<1> QED
  BY <1>1, <1>2, <1>3 DEF after

\* A part of a snapshot.
LEMMA PartHeld ==
    ASSUME NEW c \in Count, NEW t, NEW since \in [Item -> Nat], NEW n,
           NEW vs \in [Item -> Version], NEW s, SyncOK(s),
           Holds(c, t, since, n, vs, s),
           NEW p \in Packets, Faithful(c, t, since, n, p), p.kind = "part"
    PROVE  Holds(c, t, since, n, [vs EXCEPT ![p.part] = p.val],
                 OnPart(s, p.gen, p.part))
<1>0. p.gen \in Count /\ p.part \in Part /\ Item = Part /\ s.seen \subseteq Part
  BY PacketFields DEF Item, SyncOK, Sync
<1> DEFINE after == OnPart(s, p.gen, p.part)
           ws == [vs EXCEPT ![p.part] = p.val]
<1>1. /\ after.held = p.gen
      /\ \A i \in Item : i \in after.seen \/ (after.seen = {} /\ ~after.stale) =>
                          i = p.part \/ (i \in s.seen /\ s.held = p.gen)
  BY <1>0, AfterPart
<1>2. \A i \in Item : ws[i] = IF i = p.part THEN p.val ELSE vs[i]
  OBVIOUS
<1> HIDE DEF after, ws
<1>3. Age(c, p.gen) <= n /\ AsOf(t, since, p.part, p.val, Age(c, p.gen))
  BY DEF Faithful, Numbered
<1>4. ASSUME NEW i \in Item, i = p.part \/ (i \in s.seen /\ s.held = p.gen)
      PROVE  AsOf(t, since, i, ws[i], Age(c, p.gen))
  <2>1. CASE i = p.part
    BY <1>2, <1>3, <2>1 DEF AsOf
  <2>2. CASE i # p.part
    <3>1. s.held # None
      BY <1>0, <1>4, <2>2, CountAssumption DEF Count
    <3>2. AsOf(t, since, i, vs[i], Age(c, p.gen))
      BY <1>4, <2>2, <3>1 DEF Holds
    <3> QED
      BY <1>2, <2>2, <3>2
  <2> QED
    BY <2>1, <2>2
<1> QED
  BY <1>1, <1>3, <1>4 DEF Holds, after, ws

\* An acknowledgement changes nothing of what is held.
LEMMA AckHeld ==
    ASSUME NEW c, NEW t, NEW since, NEW n, NEW vs, NEW s, SyncOK(s),
           Holds(c, t, since, n, vs, s), NEW g \in Count
    PROVE  Holds(c, t, since, n, vs, OnAck(s, g))
<1> DEFINE after == OnAck(s, g)
<1>1. /\ after.held = s.held /\ after.seen = {}
      /\ ~after.stale => ~s.stale /\ s.seen = {}
  BY DEF SyncOK, Sync, OnAck, Abandon
<1> HIDE DEF after
<1> QED
  BY <1>1 DEF Holds, after

\* The model of a client that hears another engine is empty.
LEMMA FreshHeld ==
    ASSUME NEW c, NEW t, NEW since, NEW n, NEW vs, NEW g \in Count
    PROVE  Holds(c, t, since, n, vs, OnAck(Fresh, g))
<1>1. OnAck(Fresh, g).held = None
  BY DEF OnAck, Abandon, Fresh
<1> QED
  BY <1>1 DEF Holds

-----------------------------------------------------------------------------
(* The counts, step by step.                                                *)

\* The types these proofs use.
LEMMA PublishedTypes ==
    ASSUME TypeInv
    PROVE  /\ count \in Count
           /\ Following(count) \in Count /\ Following(count) # count
           /\ net \in Seq(Packets) /\ sending \in Seq(Queued)
           /\ SyncOK(sync) /\ vals \in [Item -> Version] /\ StepsOK
           /\ epoch \in Nat \ {0} /\ heard \in {None} \cup 1 .. epoch
           /\ left \in Budget /\ newest \in Nat
           /\ truth \in [Item -> Version] /\ told \in [Item -> Version]
<1>1. SizesOK /\ StateOK /\ ClientOK /\ LockOK
  BY TypeParts
<1>2. Following(count) \in Count /\ Following(count) # count
  BY <1>1, FollowingIs, CountAssumption DEF StateOK, Count
<1> QED
  BY <1>1, <1>2, TypeParts DEF StateOK, ClientOK, LockOK, SizesOK

\* Spending of one kind leaves the others.
LEMMA SpendsOthers ==
    ASSUME TypeInv, NEW what, Spend(what),
           what \in {"changes", "builds", "faults", "overtakes", "restarts"}
    PROVE  /\ left.overtakes \in Nat /\ left.restarts \in Nat
           /\ left'.overtakes =
                 left.overtakes - (IF what = "overtakes" THEN 1 ELSE 0)
           /\ left'.restarts = left.restarts - (IF what = "restarts" THEN 1 ELSE 0)
           /\ what = "overtakes" => left.overtakes > 0
           /\ what = "restarts" => left.restarts > 0
<1>1. left \in Budget
  BY TypeParts
<1> QED
  BY <1>1 DEF Spend, Budget

\* Whether an early restart is allowed never changes.
LEMMA EarlyKept ==
    ASSUME TypeInv, Next
    PROVE  left'.early = left.early
BY BudgetFrame, SpendsFrom
   DEF Changes, LiveChange, PostState, Control, Lose, Overtake, Silence, Restart,
       StartRecompute

\* Only reading the count makes the listener's next step an answer.
LEMMA AnswerFrame ==
    ASSUME TypeInv, Next
    PROVE  \/ step'["listener"] = step["listener"]
           \/ step'["listener"].do # "answer"
           \/ ReadCount
<1>0. StepsOK /\ Idle.do # "answer"
  BY TypeParts DEF Idle
<1>1. ASSUME NEW s, step' = [step EXCEPT !["listener"] = s]
      PROVE  step'["listener"] = s
  BY <1>0, <1>1, OtherStep
<1>2. ASSUME Control
      PROVE  step'["listener"].do # "answer"
  <2>1. PICK s \in {[do |-> "update", val |-> newest'], [do |-> "broadcast"]} :
           step' = [step EXCEPT !["listener"] = s]
    BY <1>2 DEF Control
  <2>2. s.do # "answer"
    BY <2>1
  <2> QED
    BY <1>1, <2>1, <2>2
<1>3. ASSUME PollMoved \/ Register \/ Refresh \/ \E w \in Workers : StartRecompute(w)
      PROVE  step'["listener"].do # "answer"
  <2>1. PICK s : s.do # "answer" /\ step' = [step EXCEPT !["listener"] = s]
    <3>1. CASE PollMoved
      <4> DEFINE s == [do |-> "broadcast"]
      <4>1. s.do # "answer" /\ step' = [step EXCEPT !["listener"] = s]
        BY <3>1 DEF PollMoved
      <4> QED
        BY <4>1
    <3>2. CASE Register \/ Refresh
      <4> DEFINE s == [do |-> "reply"]
      <4>1. s.do # "answer" /\ step' = [step EXCEPT !["listener"] = s]
        BY <3>2 DEF Register, Refresh
      <4> QED
        BY <4>1
    <3>3. ASSUME NEW w \in Workers, StartRecompute(w)
          PROVE  \E s : s.do # "answer" /\ step' = [step EXCEPT !["listener"] = s]
      <4> DEFINE s == [do |-> "flag", spawn |-> w]
      <4>1. s.do # "answer" /\ step' = [step EXCEPT !["listener"] = s]
        BY <3>3 DEF StartRecompute
      <4> QED
        BY <4>1
    <3> QED
      BY <1>3, <3>1, <3>2, <3>3
  <2> QED
    BY <1>1, <2>1
<1>4. ASSUME Heartbeat
      PROVE  step'["listener"].do # "answer"
  <2> DEFINE s == [do |-> "count", ack |-> known = "active"]
  <2>1. s.do # "answer" /\ step' = [step EXCEPT !["listener"] = s]
    BY <1>4 DEF Heartbeat
  <2> HIDE DEF s
  <2> QED
    BY <1>1, <2>1
<1>5. ASSUME Reply \/ Answer \/ BroadcastMoved \/ PublishControl
      PROVE  step'["listener"].do # "answer"
  <2>1. step' = [step EXCEPT !["listener"] = Idle]
    BY <1>5 DEF Reply, Answer, BroadcastMoved, BroadcastSnapshot, PublishControl,
                PublishItem, Publish
  <2> QED
    BY <1>0, <1>1, <2>1
<1>6. ASSUME PublishEvent
      PROVE  step'["listener"] = step["listener"]
  <2>1. step' = [step EXCEPT !["telemetry"] = Idle]
    BY <1>6 DEF PublishEvent, PublishItem, Publish
  <2> QED
    BY <1>0, <2>1, OtherStep
<1>7. ASSUME NEW w \in Workers, PublishBuilt(w) \/ PublishDone(w)
      PROVE  step'["listener"] = step["listener"]
  BY <1>0, <1>7, WorkerStep
     DEF PublishBuilt, PublishDone, PublishFlag, PublishItem, Publish
<1>8. ASSUME NEW w \in Workers, NEW i \in Item, FinishRecompute(w, i)
      PROVE  step'["listener"] = step["listener"]
  BY <1>0, <1>8, WorkerStep DEF FinishRecompute
<1>9. ASSUME PublishStarted
      PROVE  step'["listener"].do # "answer"
  <2> DEFINE w == step["listener"].spawn
  <2>1. step' = [step EXCEPT !["listener"] = Idle, ![w] = [do |-> "build"]]
    BY <1>9 DEF PublishStarted, PublishFlag
  <2>2. w \in Workers
    BY <1>0, <1>9, StepFields, Names DEF PublishStarted
  <2> HIDE DEF w
  <2>3. step'["listener"] = Idle
    BY <1>0, <2>1, <2>2, Names DEF StepsOK
  <2> QED
    BY <1>0, <2>3
<1>10. ASSUME Restart
       PROVE  step'["listener"].do # "answer"
  BY <1>0, <1>10, Names DEF Restart
<1> QED
  BY <1>2, <1>3, <1>4, <1>5, <1>6, <1>7, <1>8, <1>9, <1>10, StepFrame
     DEF Publishing, Answers

\* What a packet just made tells, when `those' are published at count c.
Tells(c, t, those, p) ==
    /\ p.gen = c
    /\ \/ /\ p.kind = "update" /\ p.item \in Item
          /\ those = {p.item} /\ p.val = t[p.item]
       \/ p.kind = "flag" /\ those = {}
       \/ p.kind = "part" /\ p.part \in Item /\ p.val = t[p.part]

\* It is faithful at the count it was given.
LEMMA FaithfulMade ==
    ASSUME NEW c \in Count, NEW n \in Nat, NEW t \in [Item -> Nat],
           NEW since \in [Item -> Nat], NEW those, NEW p,
           Tells(Following(c), t, those, p)
    PROVE  /\ p.kind \in Numbered
           /\ Faithful(Following(c), t, After(since, those), n + 1, p)
<1> DEFINE a == Age(Following(c), p.gen)
           later == After(since, those)
<1>1. a = 0
  BY FollowingIs, AgeIs DEF Tells
<1>2. \A i \in Item \ those : later[i] # 0
  BY DEF After
<1>3. \A i \in Item : \A v : v = t[i] => AsOf(t, later, i, v, 0)
  BY DEF AsOf
<1> HIDE DEF later
<1> QED
  BY <1>1, <1>2, <1>3 DEF Tells, Faithful, Numbered, later

\* Every publication takes the next count and tells of the items it publishes.
LEMMA PublishingIs ==
    ASSUME TypeInv, OrderInv, Publishing
    PROVE  /\ count' = Following(count)
           /\ UNCHANGED <<net, epoch, left, vals, sync, heard>>
           /\ \E those \in SUBSET Item :
                 /\ \A i \in Item \ those : told'[i] = told[i]
                 /\ \A k \in DOMAIN sending' :
                       Tells(count', told', those, sending'[k].packet)
<1>0. SizesOK /\ StateOK /\ StepsOK
  BY TypeParts
<1>1. /\ count' = Following(count)
      /\ UNCHANGED <<net, epoch, left, vals, sync, heard>>
  BY
     DEF Publishing, BroadcastMoved, BroadcastSnapshot, PublishControl, PublishEvent,
         PublishStarted, PublishBuilt, PublishDone, PublishFlag, PublishItem, Advanced,
         client, model
<1>2. ASSUME BroadcastMoved
      PROVE  \A k \in DOMAIN sending' :
                Tells(count', told', Item, sending'[k].packet)
  <2>1. /\ sending' = To(TRUE, Snapshot(truth, count')) /\ told' = truth
    BY <1>2 DEF BroadcastMoved, BroadcastSnapshot, Publish, Captured
  <2>2. \A k \in DOMAIN sending' :
           /\ k \in Part
           /\ sending'[k].packet =
                 [kind |-> "part", part |-> k, val |-> truth[k], gen |-> count']
    BY <2>1 DEF To, Snapshot
  <2>3. ASSUME NEW k \in DOMAIN sending'
        PROVE  Tells(count', told', Item, sending'[k].packet)
    <3> DEFINE p == sending'[k].packet
    <3>0. p = [kind |-> "part", part |-> k, val |-> truth[k], gen |-> count']
      BY <2>2
    <3>1. p.kind = "part" /\ p.part = k /\ p.val = truth[k] /\ p.gen = count'
      BY <3>0
    <3>2. k \in Item
      BY <2>2 DEF Item
    <3> HIDE DEF p
    <3>3. Tells(count', told', Item, p)
      BY <2>1, <3>1, <3>2 DEF Tells
    <3> QED
      BY <3>3 DEF p
  <2> QED
    BY <2>3
<1>3. ASSUME NEW t, NEW i \in Item, NEW v, NEW next, PublishItem(t, i, v, next)
      PROVE  /\ \A j \in Item \ {i} : told'[j] = told[j]
             /\ \A k \in DOMAIN sending' :
                   Tells(count', told', {i}, sending'[k].packet)
  <2>1. /\ sending' = To(TRUE, <<Update(i, v, count')>>)
        /\ told' = [told EXCEPT ![i] = v]
    BY <1>3 DEF PublishItem, Publish
  <2>2. (\A j \in Item \ {i} : told'[j] = told[j]) /\ told'[i] = v
    BY <1>0, <2>1 DEF StateOK
  <2>3. \A k \in DOMAIN sending' : sending'[k].packet = Update(i, v, count')
    BY <2>1 DEF To
  <2>4. Tells(count', told', {i}, Update(i, v, count'))
    <3> DEFINE p == Update(i, v, count')
    <3>1. p.kind = "update" /\ p.item = i /\ p.val = v /\ p.gen = count'
      BY DEF Update
    <3> HIDE DEF p
    <3>2. Tells(count', told', {i}, p)
      BY <2>2, <3>1 DEF Tells
    <3> QED
      BY <3>2 DEF p
  <2> QED
    BY <2>2, <2>3, <2>4
<1>4. ASSUME PublishControl \/ PublishEvent \/ \E w \in Workers : PublishBuilt(w)
      PROVE  \E those \in SUBSET Item :
                 /\ \A j \in Item \ those : told'[j] = told[j]
                 /\ \A k \in DOMAIN sending' :
                       Tells(count', told', those, sending'[k].packet)
  <2>1. \E t, v, next : \E i \in Item : PublishItem(t, i, v, next)
    <3>1. CASE PublishControl
      BY <3>1, Names DEF PublishControl
    <3>2. CASE PublishEvent
      BY <3>2, PublishedVersion DEF PublishEvent
    <3>3. CASE \E w \in Workers : PublishBuilt(w)
      BY <3>3, PublishedVersion DEF PublishBuilt
    <3> QED
      BY <1>4, <3>1, <3>2, <3>3
  <2> QED
    BY <1>3, <2>1
<1>5. ASSUME NEW t, NEW b, NEW steps, PublishFlag(t, b, steps)
      PROVE  /\ told' = told
             /\ \A k \in DOMAIN sending' :
                   Tells(count', told', {}, sending'[k].packet)
  <2>1. sending' = To(TRUE, <<Flag(b, count')>>) /\ told' = told
    BY <1>5 DEF PublishFlag, history
  <2>2. \A k \in DOMAIN sending' : sending'[k].packet = Flag(b, count')
    BY <2>1 DEF To
  <2>3. Tells(count', told', {}, Flag(b, count'))
    BY DEF Tells, Flag
  <2> QED
    BY <2>1, <2>2, <2>3
<1>6. ASSUME PublishStarted \/ \E w \in Workers : PublishDone(w)
      PROVE  /\ told' = told
             /\ \A k \in DOMAIN sending' :
                   Tells(count', told', {}, sending'[k].packet)
  BY <1>5, <1>6 DEF PublishStarted, PublishDone
<1> QED
  BY <1>1, <1>2, <1>4, <1>6 DEF Publishing

\* A publication makes every other item one publication older.
LEMMA PublishingKeeps ==
    ASSUME TypeInv, TypeInv', OrderInv, Next, Publishing,
           NEW since \in [Item -> 0 .. CountSize - 1], NEW n \in 0 .. CountSize - 1,
           NEW ordered, Published(ordered, since, n)
    PROVE  PublishedInv(ordered)'
<1>0. /\ count \in Count /\ Following(count) # count /\ net \in Seq(Packets)
      /\ SyncOK(sync) /\ StepsOK /\ CountSize \in Nat
      /\ n \in Nat /\ since \in [Item -> Nat] /\ \A i \in Item : since[i] <= n
      /\ told' \in [Item -> Nat]
  <2>1. told' \in [Item -> Nat]
    BY NextOrder DEF OrderInv, VersionsInv
  <2> QED
    BY <2>1, PublishedTypes, CountAssumption DEF Published
<1>1. /\ count' = Following(count) /\ UNCHANGED <<net, epoch, left, vals, sync, heard>>
  BY PublishingIs
<1>2. PICK those \in SUBSET Item :
         /\ \A i \in Item \ those : told'[i] = told[i]
         /\ \A k \in DOMAIN sending' :
               Tells(count', told', those, sending'[k].packet)
  BY PublishingIs
<1> DEFINE later == After(since, those)
<1>3. n + 1 < CountSize /\ BudgetInv(n + 1)'
  BY <1>0, NextBudget DEF Published
<1>4. /\ n + 1 \in 0 .. CountSize - 1
      /\ later \in [Item -> 0 .. CountSize - 1] /\ \A i \in Item : later[i] <= n + 1
  BY <1>0, <1>3 DEF After
<1>5. SendingInv(later, n + 1)'
  BY <1>0, <1>1, <1>2, FaithfulMade DEF SendingInv, Tells
<1>6. AnswerInv(n + 1)'
  <2> SUFFICES ASSUME step'["listener"].do = "answer"
               PROVE  /\ Age(count', step'["listener"].gen) <= n + 1
                      /\ step'["listener"].gen # count'
    BY DEF AnswerInv
  <2>1. ~ReadCount
    BY <1>0, <1>1 DEF ReadCount
  <2>2. step'["listener"] = step["listener"]
    BY <2>1, AnswerFrame
  <2> DEFINE g == step["listener"].gen
  <2>3. g \in Count /\ Age(count, g) <= n
    BY <1>0, <2>2, StepFields, Names DEF Published, AnswerInv
  <2> HIDE DEF g
  <2>4. Age(count, g) \in Nat /\ Age(count, g) < CountSize - 1
    BY <1>0, <1>3, <2>3, AgeIs
  <2>5. Age(Following(count), g) = Age(count, g) + 1 /\ g # Following(count)
    BY <1>0, <2>3, <2>4, AgeAdvances
  <2> QED
    BY <1>0, <1>1, <2>2, <2>3, <2>4, <2>5 DEF g
<1>7. ASSUME ordered, ~left.early
      PROVE  ClientInv(later, n + 1)'
  <2>0. NetInv(since, n) /\ ModelInv(since, n) /\ DisorderInv
    BY <1>7 DEF Published, ClientInv
  <2>1. \A p \in Packets : Faithful(count, told, since, n, p) =>
                             Faithful(count', told', later, n + 1, p)
    BY <1>0, <1>1, <1>2, <1>3, LaterFaithful
  <2>2. NetInv(later, n + 1)'
    <3>1. OfThisEngine' = OfThisEngine /\ \A k : AfterAck(k)' = AfterAck(k)
      BY <1>1 DEF OfThisEngine, AfterAck
    <3>2. \A k \in DOMAIN net : net[k] \in Packets
      BY <1>0
    <3> QED
      BY <1>1, <2>0, <2>1, <3>1, <3>2 DEF NetInv
  <2>3. ModelInv(later, n + 1)'
    BY <1>0, <1>1, <1>2, <1>3, <2>0, LaterHolds DEF ModelInv, OfThisEngine
  <2>4. DisorderInv'
    BY <1>1, <2>0 DEF DisorderInv
  <2> QED
    BY <2>2, <2>3, <2>4 DEF ClientInv
<1>8. Published(ordered, later, n + 1)'
  BY <1>1, <1>3, <1>4, <1>5, <1>6, <1>7 DEF Published
<1> HIDE DEF later
<1> QED
  BY <1>4, <1>8 DEF PublishedInv

-----------------------------------------------------------------------------
(* The other steps leave the counts as they are.                            *)

\* What the listener answers a client with is the state at the count.
LEMMA ReplyIs ==
    ASSUME TypeInv, OrderInv, Reply, NEW n \in Nat, NEW since \in [Item -> Nat]
    PROVE  \A k \in DOMAIN sending' :
              /\ sending'[k].packet.kind \in Numbered
              /\ sending'[k].packet.gen = count
              /\ Faithful(count, told, since, n, sending'[k].packet)
<1>0. count \in Count /\ Age(count, count) = 0
  BY PublishedTypes, AgeIs
<1>1. \A i \in Item : truth[i] \in Nat /\ told[i] \in Nat /\ truth[i] >= told[i]
  BY DEF OrderInv, VersionsInv
<1>2. sending' = To(FALSE, Snapshot(truth, count))
  BY DEF Reply, Publish, Captured
<1>3. \A k \in DOMAIN sending' :
         /\ k \in Part
         /\ sending'[k].packet =
               [kind |-> "part", part |-> k, val |-> truth[k], gen |-> count]
  BY <1>2 DEF To, Snapshot
<1>4. ASSUME NEW k \in Part, NEW p,
             p = [kind |-> "part", part |-> k, val |-> truth[k], gen |-> count]
      PROVE  /\ p.kind \in Numbered /\ p.gen = count
             /\ Faithful(count, told, since, n, p)
  <2>1. p.kind = "part" /\ p.part = k /\ p.val = truth[k] /\ p.gen = count
    BY <1>4
  <2>2. truth[k] >= told[k]
    BY <1>1 DEF Item
  <2> QED
    BY <1>0, <2>1, <2>2 DEF Faithful, Numbered, AsOf
<1> QED
  BY <1>3, <1>4

\* The publication in progress is still the last.
LEMMA SendingKept ==
    ASSUME TypeInv, OrderInv, Next, UNCHANGED <<count, told, epoch>>, NEW n \in Nat,
           NEW since \in [Item -> Nat], SendingInv(since, n)
    PROVE  SendingInv(since, n)'
<1>0. /\ count \in Count /\ Following(count) # count /\ sending \in Seq(Queued)
      /\ epoch \in Nat
  BY PublishedTypes
<1>1. CASE sending' = sending
  BY <1>1 DEF SendingInv
<1>2. CASE Send
  <2>1. sending' = Tail(sending) /\ sending # <<>>
    BY <1>2 DEF Send
  <2>2. \A k \in DOMAIN sending' :
           k + 1 \in DOMAIN sending /\ sending'[k] = sending[k + 1]
    BY <1>0, <2>1
  <2> QED
    BY <2>2 DEF SendingInv
<1>3. CASE Reply
  BY <1>3, ReplyIs DEF SendingInv
<1>4. ~Publishing /\ ~Restart
  BY <1>0, PublishingIs DEF Restart
<1> QED
  BY <1>1, <1>2, <1>3, <1>4, LockFrame

\* The count an answer carries was read with no publication in progress.
LEMMA AnswerKept ==
    ASSUME TypeInv, OrderInv, Next, UNCHANGED <<count, told, epoch>>, NEW n \in Nat,
           AnswerInv(n)
    PROVE  AnswerInv(n)'
<1> SUFFICES ASSUME step'["listener"].do = "answer"
             PROVE  /\ Age(count', step'["listener"].gen) <= n
                    /\ sending' # <<>> => step'["listener"].gen # count'
  BY DEF AnswerInv
<1>0. /\ count \in Count /\ Following(count) # count /\ sending \in Seq(Queued)
      /\ epoch \in Nat /\ StepsOK /\ LockOK /\ Idle.do # "answer"
  BY PublishedTypes, TypeParts DEF Idle
<1>1. CASE step'["listener"] = step["listener"]
  <2>1. ~Reply
    <3>1. Reply => step' = [step EXCEPT !["listener"] = Idle]
      BY DEF Reply, Publish
    <3> QED
      BY <1>0, <3>1, OtherStep
  <2>2. ~Publishing /\ ~Restart
    BY <1>0, PublishingIs DEF Restart
  <2>3. sending' = sending \/ sending # <<>>
    BY <2>1, <2>2, LockFrame DEF Send
  <2> QED
    BY <1>1, <2>3 DEF AnswerInv
<1>2. CASE ReadCount
  <2>1. sending' = <<>>
    BY <1>0, <1>2 DEF ReadCount, Free, lock, LockOK
  <2>2. step'["listener"].gen = count
    <3> DEFINE s == [do |-> "answer", ack |-> step["listener"].ack, gen |-> count]
    <3>1. step' = [step EXCEPT !["listener"] = s] /\ s.gen = count
      BY <1>2 DEF ReadCount
    <3> HIDE DEF s
    <3> QED
      BY <1>0, <3>1, OtherStep
  <2>3. Age(count, count) = 0
    BY <1>0, AgeIs
  <2> QED
    BY <2>1, <2>2, <2>3
<1> QED
  BY <1>1, <1>2, AnswerFrame

\* The budget of disorder is only spent.
LEMMA DisorderKept ==
    ASSUME TypeInv, Next, epoch' = epoch, DisorderInv
    PROVE  DisorderInv'
<1>0. epoch \in Nat /\ left \in Budget
  BY PublishedTypes
<1>1. /\ left.overtakes = 0 => left'.overtakes = 0
      /\ left.restarts = 0 => left'.restarts = 0
  <2>1. CASE left' = left
    BY <2>1
  <2>2. CASE \E what \in {"changes", "builds", "faults", "overtakes", "restarts"} :
                Spend(what)
    BY <2>2, SpendsOthers
  <2>3. CASE \/ Changes \/ Lose \/ Overtake \/ Silence \/ Restart
             \/ \E w \in Workers : StartRecompute(w)
    BY <2>2, <2>3
       DEF Changes, LiveChange, PostState, Control, Lose, Overtake, Silence,
                      Restart, StartRecompute
  <2> QED
    BY <2>1, <2>3, BudgetFrame
<1>2. heard # None => heard' # None
  <2>1. ASSUME Deliver, heard' # heard
        PROVE  heard' \in Nat
    <3>1. HandleAck(Head(net))
      BY <2>1 DEF Deliver, HandleUpdate, HandleFlag, HandlePart, HandleUnknown,
                  HandleGoodbye
    <3>2. Head(net) \in Packets
      BY <2>1, PublishedTypes DEF Deliver
    <3> QED
      BY <1>0, <3>1, <3>2, PacketFields DEF HandleAck
  <2> QED
    BY <2>1, ClientFrame, NoneAssumption
<1> QED
  BY <1>1, <1>2 DEF DisorderInv

\* Packets still in the order they were sent in.
LEMMA InOrderKept ==
    ASSUME NEW since, NEW n, NetInv(since, n), UNCHANGED <<count, told, epoch>>,
           OfThisEngine' => OfThisEngine, NEW was,
           \A k \in DOMAIN net' : was[k] \in DOMAIN net /\ net'[k] = net[was[k]],
           \A k \in DOMAIN net' : \A j \in 1 .. k - 1 :
              j \in DOMAIN net' /\ was[j] \in 1 .. was[k] - 1
    PROVE  NetInv(since, n)'
<1> SUFFICES ASSUME NEW k \in DOMAIN net', OfThisEngine' \/ AfterAck(k)'
             PROVE  /\ Faithful(count', told', since, n, net'[k])
                    /\ net'[k].kind = "ack" => net'[k].epoch = epoch'
  BY DEF NetInv
<1>1. OfThisEngine \/ AfterAck(was[k])
  BY DEF AfterAck
<1> QED
  BY <1>1 DEF NetInv

\* A packet put behind those on their way.
LEMMA AppendKept ==
    ASSUME NEW since, NEW n, NetInv(since, n), UNCHANGED <<count, told, epoch>>,
           heard' = heard, net \in Seq(Packets), NEW p \in Packets,
           net' = Append(net, p),
           Faithful(count, told, since, n, p), p.kind = "ack" => p.epoch = epoch
    PROVE  NetInv(since, n)'
<1> SUFFICES ASSUME NEW k \in DOMAIN net', OfThisEngine' \/ AfterAck(k)'
             PROVE  /\ Faithful(count', told', since, n, net'[k])
                    /\ net'[k].kind = "ack" => net'[k].epoch = epoch'
  BY DEF NetInv
<1>1. /\ k \in 1 .. Len(net) + 1
      /\ \A j \in 1 .. Len(net) : net'[j] = net[j]
      /\ net'[Len(net) + 1] = p
  OBVIOUS
<1>2. CASE k = Len(net) + 1
  BY <1>1, <1>2
<1>3. CASE k \in DOMAIN net
  <2>1. \A j \in 1 .. k - 1 : net'[j] = net[j]
    BY <1>1, <1>3
  <2>2. OfThisEngine \/ AfterAck(k)
    BY <2>1 DEF OfThisEngine, AfterAck
  <2> QED
    BY <1>1, <1>3, <2>2 DEF NetInv
<1> QED
  BY <1>1, <1>2, <1>3

\* What the client makes of the sender of the packet it takes.
LEMMA TakenHeard ==
    ASSUME Deliver
    PROVE  \/ heard' = heard
           \/ Head(net).kind = "ack" /\ heard' = Head(net).epoch
BY DEF Deliver, HandleUpdate, HandleFlag, HandlePart, HandleAck, HandleUnknown,
       HandleGoodbye

\* A datagram on its way says what it said when it was sent.
LEMMA NetKept ==
    ASSUME TypeInv, Next, UNCHANGED <<count, told, epoch>>, NEW n \in Nat, NEW since,
           SendingInv(since, n), NetInv(since, n), DisorderInv
    PROVE  NetInv(since, n)'
<1>0. /\ net \in Seq(Packets) /\ sending \in Seq(Queued) /\ StepsOK
      /\ epoch \in Nat \ {0} /\ left.overtakes \in Nat
      /\ heard \in {None} \cup 1 .. epoch
  BY PublishedTypes DEF Budget
<1>1. CASE Send
  <2>1. net' = net \/ net' = Append(net, Head(sending).packet)
    BY <1>1 DEF Send
  <2>2. /\ heard' = heard /\ 1 \in DOMAIN sending /\ Head(sending) = sending[1]
        /\ Head(sending).packet \in Packets
    <3>1. heard' = heard /\ sending # <<>>
      BY <1>1 DEF Send, client
    <3>2. /\ 1 \in DOMAIN sending
          /\ Head(sending) = sending[1] /\ Head(sending) \in Queued
      BY <1>0, <3>1
    <3> QED
      BY <3>1, <3>2 DEF Queued
  <2>3. /\ Faithful(count, told, since, n, Head(sending).packet)
        /\ Head(sending).packet.kind # "ack"
    BY <2>2 DEF SendingInv, Numbered
  <2>4. CASE net' = net
    BY <2>2, <2>4 DEF NetInv, OfThisEngine, AfterAck
  <2> QED
    BY <1>0, <2>1, <2>2, <2>3, <2>4, AppendKept
<1>2. CASE Answer
  <2> DEFINE p == IF step["listener"].ack
                  THEN [kind |-> "ack", epoch |-> epoch,
                        gen |-> step["listener"].gen]
                  ELSE [kind |-> "unknown"]
  <2>1. step["listener"].gen \in Count
    BY <1>0, <1>2, StepFields, Names DEF Answer
  <2>2. p \in Packets
    BY <2>1, PacketsMade DEF TypeInv
  <2>3. /\ p.kind \notin Numbered /\ p.kind \notin {"update", "flag", "part"}
        /\ p.kind = "ack" => p.epoch = epoch
    BY DEF Numbered
  <2>4. net' = Append(net, p) /\ heard' = heard
    BY <1>2 DEF Answer, client
  <2> HIDE DEF p
  <2>5. Faithful(count, told, since, n, p)
    BY <2>3 DEF Faithful
  <2> QED
    BY <1>0, <2>2, <2>3, <2>4, <2>5, AppendKept
<1>3. CASE Deliver
  <2>1. net' = Tail(net) /\ net # <<>>
    BY <1>3 DEF Deliver
  <2>2. /\ Head(net) = net[1] /\ 1 \in DOMAIN net /\ Head(net) \in Packets
        /\ \A k \in DOMAIN net' : k + 1 \in DOMAIN net /\ net'[k] = net[k + 1]
        /\ \A k \in DOMAIN net' : \A j \in 1 .. k - 1 :
              j \in DOMAIN net' /\ j + 1 \in 1 .. (k + 1) - 1
    BY <1>0, <2>1
  <2>3. CASE Head(net).kind = "ack" /\ Head(net).epoch = epoch
    <3>1. \A k \in DOMAIN net' : AfterAck(k + 1)
      BY <1>0, <2>1, <2>2, <2>3 DEF AfterAck
    <3> QED
      BY <2>2, <3>1 DEF NetInv
  <2>4. CASE ~(Head(net).kind = "ack" /\ Head(net).epoch = epoch)
    <3>1. OfThisEngine' => OfThisEngine
      BY <1>3, <2>4, TakenHeard DEF OfThisEngine
    <3> DEFINE was == [k \in DOMAIN net' |-> k + 1]
    <3>2. /\ \A k \in DOMAIN net' : was[k] \in DOMAIN net /\ net'[k] = net[was[k]]
          /\ \A k \in DOMAIN net' : \A j \in 1 .. k - 1 :
                j \in DOMAIN net' /\ was[j] \in 1 .. was[k] - 1
      BY <2>2
    <3> HIDE DEF was
    <3> QED
      BY <3>1, <3>2, InOrderKept
  <2> QED
    BY <2>3, <2>4
<1>4. CASE Lose
  <2>1. heard' = heard
    BY <1>4 DEF Lose, client
  <2>2. CASE net' = net
    BY <2>1, <2>2 DEF NetInv, OfThisEngine, AfterAck
  <2>3. ASSUME NEW k \in DOMAIN net, net' = Without(net, k)
        PROVE  NetInv(since, n)'
    <3> DEFINE was == [j \in DOMAIN net' |-> IF j < k THEN j ELSE j + 1]
    <3>1. /\ DOMAIN net' = 1 .. Len(net) - 1
          /\ Len(net) \in Nat /\ k \in 1 .. Len(net)
          /\ \A j \in 1 .. Len(net) - 1 : net'[j] = net[IF j < k THEN j ELSE j + 1]
      BY <1>0, <2>3, WithoutElements
    <3>2. \A j \in DOMAIN net' : was[j] = IF j < k THEN j ELSE j + 1
      OBVIOUS
    <3> HIDE DEF was
    <3>3. \A j \in DOMAIN net' : was[j] \in DOMAIN net /\ net'[j] = net[was[j]]
      BY <1>0, <3>1, <3>2
    <3>4. \A i \in DOMAIN net' : \A j \in 1 .. i - 1 :
             j \in DOMAIN net' /\ was[j] \in 1 .. was[i] - 1
      BY <3>1, <3>2
    <3> QED
      BY <2>1, <3>3, <3>4, InOrderKept DEF OfThisEngine
  <2> QED
    BY <1>4, <2>2, <2>3 DEF Lose
<1>5. CASE Overtake
  <2>1. left.overtakes > 0 /\ heard' = heard
    BY <1>5 DEF Overtake, Spend, client
  <2>2. OfThisEngine
    BY <1>0, <2>1 DEF DisorderInv, OfThisEngine
  <2>3. PICK k \in 1 .. Len(net) - 1 :
           net' = [net EXCEPT ![k] = net[k + 1], ![k + 1] = net[k]]
    BY <1>5 DEF Overtake
  <2>4. /\ DOMAIN net' = DOMAIN net /\ k \in DOMAIN net /\ k + 1 \in DOMAIN net
        /\ \A j \in DOMAIN net : \E i \in DOMAIN net : net'[j] = net[i]
    BY <1>0, <2>3
  <2> QED
    BY <2>2, <2>4 DEF NetInv
<1>6. CASE net' = net
  <2>1. OfThisEngine' => OfThisEngine
    <3>1. heard' = heard \/ Deliver
      BY ClientFrame
    <3>2. ~Deliver
      BY <1>0, <1>6 DEF Deliver
    <3> QED
      BY <3>1, <3>2 DEF OfThisEngine
  <2> QED
    BY <1>6, <2>1 DEF NetInv, AfterAck
<1>7. ~Restart
  <2>1. Restart => epoch' = epoch + 1
    BY DEF Restart
  <2> QED
    BY <1>0, <2>1
<1> QED
  BY <1>1, <1>2, <1>3, <1>4, <1>5, <1>6, <1>7, NetFrame

\* The client takes the packets one by one.
LEMMA ModelKept ==
    ASSUME TypeInv, Next, UNCHANGED <<count, told, epoch>>, NEW n \in Nat,
           NEW since \in [Item -> Nat],
           NetInv(since, n), ModelInv(since, n), DisorderInv
    PROVE  ModelInv(since, n)'
<1>0. /\ net \in Seq(Packets) /\ count \in Count /\ SyncOK(sync)
      /\ vals \in [Item -> Version] /\ epoch \in Nat \ {0}
      /\ heard \in {None} \cup 1 .. epoch
  BY PublishedTypes
<1>1. CASE UNCHANGED <<vals, sync, heard>>
  BY <1>1 DEF ModelInv, OfThisEngine
<1>2. ASSUME Deliver, OfThisEngine'
      PROVE  Holds(count, told, since, n, vals', sync')
  <2> DEFINE m == Head(net)
  <2>1. m \in Packets /\ m = net[1] /\ 1 \in DOMAIN net
    BY <1>0, <1>2 DEF Deliver
  <2> HIDE DEF m
  <2>2. \/ HandleUpdate(m) \/ HandleFlag(m) \/ HandlePart(m)
        \/ HandleAck(m) \/ HandleUnknown(m) \/ HandleGoodbye(m)
    BY <1>2 DEF Deliver, m
  <2>3. CASE ~OfThisEngine
    <3>1. m.kind = "ack" /\ heard' = m.epoch /\ m.epoch = epoch
      BY <1>2, <2>3, TakenHeard DEF OfThisEngine, m
    <3>2. HandleAck(m) /\ heard \notin {None, m.epoch}
      BY <2>2, <2>3, <3>1 DEF DisorderInv, OfThisEngine, HandleUpdate, HandleFlag,
                              HandlePart, HandleUnknown, HandleGoodbye
    <3>3. sync' = OnAck(Fresh, m.gen) /\ m.gen \in Count
      BY <2>1, <3>1, <3>2, PacketFields DEF HandleAck
    <3> QED
      BY <3>3, FreshHeld
  <2>4. CASE OfThisEngine
    <3>1. /\ Faithful(count, told, since, n, m) /\ (m.kind = "ack" => m.epoch = epoch)
          /\ Holds(count, told, since, n, vals, sync)
      BY <2>1, <2>4 DEF NetInv, ModelInv
    <3>2. CASE HandleUpdate(m)
      BY <1>0, <2>1, <3>1, <3>2, UpdateHeld DEF HandleUpdate
    <3>3. CASE HandleFlag(m)
      BY <1>0, <2>1, <3>1, <3>3, FlagHeld DEF HandleFlag
    <3>4. CASE HandlePart(m)
      BY <1>0, <2>1, <3>1, <3>4, PartHeld DEF HandlePart
    <3>5. CASE HandleAck(m)
      <4>1. heard \in {None, m.epoch} /\ m.gen \in Count
        BY <1>0, <2>1, <2>4, <3>1, <3>5, PacketFields DEF HandleAck, OfThisEngine
      <4>2. sync' = OnAck(sync, m.gen) /\ vals' = vals
        BY <3>5, <4>1 DEF HandleAck, model
      <4> QED
        BY <1>0, <3>1, <4>1, <4>2, AckHeld
    <3>6. CASE HandleUnknown(m) \/ HandleGoodbye(m)
      BY <3>1, <3>6 DEF HandleUnknown, HandleGoodbye, model
    <3> QED
      BY <2>2, <3>2, <3>3, <3>4, <3>5, <3>6
  <2> QED
    BY <2>3, <2>4
<1> QED
  BY <1>1, <1>2, ClientFrame DEF ModelInv

\* The steps that publish nothing, in one engine's life.
LEMMA OthersKeep ==
    ASSUME TypeInv, TypeInv', OrderInv, Next, UNCHANGED <<count, told, epoch>>,
           NEW since \in [Item -> 0 .. CountSize - 1], NEW n \in 0 .. CountSize - 1,
           NEW ordered, Published(ordered, since, n)
    PROVE  PublishedInv(ordered)'
<1>0. n \in Nat /\ since \in [Item -> Nat]
  BY CountAssumption
<1>1. SendingInv(since, n)' /\ AnswerInv(n)' /\ BudgetInv(n)'
  BY <1>0, SendingKept, AnswerKept, NextBudget DEF Published
<1>2. ASSUME ordered, ~left.early
      PROVE  ClientInv(since, n)'
  BY <1>0, <1>2, NetKept, ModelKept, DisorderKept DEF Published, ClientInv
<1>3. left'.early = left.early
  BY EarlyKept
<1> QED
  BY <1>1, <1>2, <1>3 DEF Published, PublishedInv

\* Another engine: nothing of its state was heard yet.
LEMMA RestartKeeps ==
    ASSUME TypeInv, TypeInv', OrderInv, Next, Restart, NEW ordered,
           PublishedInv(ordered)
    PROVE  PublishedInv(ordered)'
<1> DEFINE since == [i \in Item |-> 0]
<1>0. /\ net \in Seq(Packets) /\ epoch \in Nat \ {0} /\ CountSize \in Nat
      /\ StepsOK /\ Idle.do # "answer" /\ 0 \in 0 .. CountSize - 1
      /\ since \in [Item -> 0 .. CountSize - 1] /\ \A i \in Item : since[i] <= 0
  BY PublishedTypes, CountAssumption DEF Idle
<1>1. PICK old \in [Item -> 0 .. CountSize - 1], n \in 0 .. CountSize - 1 :
         Published(ordered, old, n)
  BY DEF PublishedInv
<1>2. BudgetInv(0)'
  <2>1. BudgetInv(n)' /\ n \in Nat /\ Debt' \in Nat
    <3>1. BudgetInv(n)' /\ n \in Nat
      BY <1>0, <1>1, NextBudget DEF Published
    <3>2. (TypeInv /\ FiniteInv => Debt = Pledged + Spared /\ Spared \in Nat)'
      BY DebtIs, PTL
    <3>3. (FiniteInv => Pledged \in Nat)'
      BY PledgedIs, PTL
    <3> QED
      BY <3>1, <3>2, <3>3 DEF BudgetInv
  <2>2. \A d, k, c \in Nat : k + d < c => 0 + d < c
    OBVIOUS
  <2> QED
    BY <1>0, <2>1, <2>2 DEF BudgetInv
<1>3. SendingInv(since, 0)' /\ AnswerInv(0)'
  BY <1>0, Names DEF Restart, SendingInv, AnswerInv
<1>4. ASSUME ordered, ~left.early
      PROVE  ClientInv(since, 0)'
  <2>1. /\ epoch' = epoch + 1 /\ heard' = heard /\ heard = epoch
        /\ left.restarts > 0 /\ DisorderInv
    BY <1>1, <1>4 DEF Restart, client, Published, ClientInv, Spend
  <2>2. ~OfThisEngine'
    BY <1>0, <2>1 DEF OfThisEngine
  <2>3. \A k \in DOMAIN net' : net'[k].kind = "ack" => net'[k].epoch # epoch'
    <3>1. \A k \in DOMAIN net : net[k].kind = "ack" => net[k].epoch \in 1 .. epoch
      BY <1>0, PacketFields
    <3>2. net' = net \/ net' = Append(net, [kind |-> "goodbye"])
      BY DEF Restart
    <3>3. \A k \in DOMAIN net' :
             \/ k \in DOMAIN net /\ net'[k] = net[k]
             \/ net'[k] = [kind |-> "goodbye"]
      BY <1>0, <3>2
    <3> QED
      BY <1>0, <2>1, <3>1, <3>3
  <2>4. \A k \in DOMAIN net' : ~AfterAck(k)'
    <3>1. \A k \in DOMAIN net' : \A j \in 1 .. k - 1 : j \in DOMAIN net'
      <4>1. net' \in Seq(Packets')
        BY DEF TypeInv, ShapeInv
      <4> QED
        BY <4>1
    <3> QED
      BY <2>3, <3>1 DEF AfterAck
  <2>5. NetInv(since, 0)' /\ ModelInv(since, 0)'
    BY <2>2, <2>4 DEF NetInv, ModelInv
  <2>6. DisorderInv'
    <3>1. left.restarts \in Nat /\ left.overtakes = 0
      BY <2>1, PublishedTypes DEF DisorderInv, Budget
    <3>2. left'.overtakes = 0
      BY <3>1, SpendsOthers DEF Restart
    <3>3. heard' # None
      BY <1>0, <2>1, NoneAssumption
    <3> QED
      BY <3>2, <3>3 DEF DisorderInv
  <2> QED
    BY <2>5, <2>6 DEF ClientInv
<1>5. left'.early = left.early
  BY EarlyKept
<1>6. Published(ordered, since, 0)'
  BY <1>0, <1>2, <1>3, <1>4, <1>5 DEF Published
<1> HIDE DEF since
<1> QED
  BY <1>0, <1>6 DEF PublishedInv

\* Every step keeps what the counts say.
LEMMA NextPublished ==
    ASSUME TypeInv, TypeInv', OrderInv, NEW ordered, PublishedInv(ordered),
           [Next]_vars
    PROVE  PublishedInv(ordered)'
<1>1. PICK since \in [Item -> 0 .. CountSize - 1], n \in 0 .. CountSize - 1 :
         Published(ordered, since, n)
  BY DEF PublishedInv
<1>2. CASE Next
  <2>1. CASE Publishing
    BY <1>1, <1>2, <2>1, PublishingKeeps
  <2>2. CASE Restart
    BY <1>2, <2>2, RestartKeeps
  <2>3. CASE ~Publishing /\ ~Restart
    <3>1. UNCHANGED <<count, told>>
      BY <1>2, <2>3, LockFrame DEF Reply, Send, history
    <3>2. epoch' = epoch
      BY <1>2, <2>3, VersionFrame
         DEF PostState, LiveChange, Control, FinishRecompute
    <3> QED
      BY <1>1, <1>2, <3>1, <3>2, OthersKeep
  <2> QED
    BY <2>1, <2>2, <2>3
<1>3. CASE UNCHANGED vars
  <2>1. Published(ordered, since, n)'
    BY <1>1, <1>3
       DEF vars, state, lock, registry, client, model, history, Published,
       SendingInv, AnswerInv, BudgetInv, FiniteInv, Building, Ending, Debt, Owed,
       ClientInv, NetInv, ModelInv, OfThisEngine, AfterAck, DisorderInv
  <2> QED
    BY <2>1 DEF PublishedInv
<1> QED
  BY <1>2, <1>3

\* And the start has it: nothing is numbered yet.
LEMMA InitPublished ==
    ASSUME Init, NEW ordered, ordered => InOrder
    PROVE  PublishedInv(ordered)
<1> DEFINE since == [i \in Item |-> 0]
<1>0. /\ CountSize \in Nat /\ 0 \in 0 .. CountSize - 1
      /\ since \in [Item -> 0 .. CountSize - 1] /\ \A i \in Item : since[i] <= 0
  BY CountAssumption
<1>1. /\ sending = <<>> /\ net = <<>> /\ epoch = 1 /\ sync = Fresh /\ left \in Budgets
      /\ moved = FALSE /\ event = None /\ step = [t \in Threads |-> Idle]
  BY DEF Init
<1>2. SendingInv(since, 0) /\ AnswerInv(0)
  BY <1>1, Names DEF SendingInv, AnswerInv, Idle
<1>3. BudgetInv(0)
  <2>1. Building = {} /\ Ending = {} /\ step["listener"].do = "idle"
    BY <1>1, Names DEF Building, Ending, Idle
  <2>2. FiniteInv /\ Owed = 0
    <3>1. One(moved) = 0 /\ One(event # None) = 0 /\ Promised(step["listener"]) = 0
      BY <1>1, <2>1, PromisedIs DEF One
    <3>2. /\ IsFiniteSet(Building) /\ IsFiniteSet(Ending)
          /\ Cardinality(Building) = 0 /\ Cardinality(Ending) = 0
      BY <2>1, FS_EmptySet
    <3> QED
      BY <3>1, <3>2 DEF FiniteInv, Owed
  <2>3. /\ left.changes \in Nat /\ left.builds \in Nat
        /\ left.changes + 3 * left.builds < CountSize
    BY <1>1, CountsSuffice, BoundsAssumption DEF Budget
  <2>4. 0 + (0 + left.changes + 3 * left.builds) < CountSize
    BY <2>3
  <2> QED
    BY <2>2, <2>4 DEF BudgetInv, Debt
<1>4. ordered => ClientInv(since, 0)
  <2>1. NetInv(since, 0) /\ ModelInv(since, 0)
    BY <1>1 DEF NetInv, ModelInv, Holds, Fresh
  <2>2. ordered => DisorderInv
    BY <1>1 DEF InOrder, DisorderInv
  <2> QED
    BY <2>1, <2>2 DEF ClientInv
<1>5. Published(ordered, since, 0)
  BY <1>0, <1>2, <1>3, <1>4 DEF Published
<1> HIDE DEF since
<1> QED
  BY <1>0, <1>5 DEF PublishedInv

-----------------------------------------------------------------------------
(* The changes still to be published.                                       *)

\* Item i is as last published, or its publication is to come.
Covered(i) ==
    \/ told[i] = truth[i] \/ moved \/ step["listener"].do = "broadcast"
    \/ i = Loudness /\ (event # None \/ unposted)
    \/ i = Own /\ step["listener"] = [do |-> "update", val |-> truth[i]]
    \/ \E w \in Workers : step[w] = [do |-> "built", item |-> i]

NotAhead(of, p) ==
    /\ p.kind = "update" => p.val <= of[p.item]
    /\ p.kind = "part" => p.val <= of[p.part]

PostedInv ==
    /\ event # None => event.item = Loudness
    /\ unposted => Loudness # Own

\* The worker a recompute is to start has nothing else to do.
SpawnInv ==
    step["listener"].do = "flag" => step[step["listener"].spawn] = Idle

PendingInv == (\A i \in Item : Covered(i)) /\ PostedInv /\ SpawnInv

AheadInv ==
    /\ \A i \in Item : vals[i] <= truth[i]
    /\ \A k \in DOMAIN net : NotAhead(truth, net[k])
    /\ \A k \in DOMAIN sending : NotAhead(truth, sending[k].packet)

\* An item whose state and publication stay as they are.
LEMMA SameCovered ==
    ASSUME NEW i \in Item, Covered(i), truth'[i] = truth[i], told'[i] = told[i],
           moved => moved' \/ step'["listener"].do = "broadcast",
           i = Loudness /\ (event # None \/ unposted) => event' # None \/ unposted',
           step["listener"].do = "broadcast" => step'["listener"] = step["listener"],
           i = Own /\ step["listener"].do = "update" =>
              step'["listener"] = step["listener"],
           \A w \in Workers : step[w] = [do |-> "built", item |-> i] =>
              step'[w] = step[w]
    PROVE  Covered(i)'
<1>1. CASE step["listener"].do = "broadcast"
  BY <1>1 DEF Covered
<1>2. CASE moved
  BY <1>2 DEF Covered
<1>3. CASE i = Loudness /\ (event # None \/ unposted)
  BY <1>3 DEF Covered
<1>4. CASE i = Own /\ step["listener"] = [do |-> "update", val |-> truth[i]]
  BY <1>4 DEF Covered
<1>5. CASE \E w \in Workers : step[w] = [do |-> "built", item |-> i]
  BY <1>5 DEF Covered
<1> QED
  BY <1>1, <1>2, <1>3, <1>4, <1>5 DEF Covered

\* Nothing but the loudness is posted.
LEMMA NextPosted ==
    ASSUME PostedInv, Next
    PROVE  PostedInv'
<1>1. CASE PostState
  <2> DEFINE posted == [item |-> Loudness, val |-> newest']
  <2>1. Loudness # Own /\ (event' = event \/ event' = posted) /\ posted.item = Loudness
    BY <1>1 DEF PostState
  <2> HIDE DEF posted
  <2> QED
    BY <2>1 DEF PostedInv
<1>2. CASE /\ event' = event \/ event' = None
           /\ unposted' => unposted
  BY <1>2 DEF PostedInv
<1>3. CASE Changes \/ Recomputes
  BY <1>1, <1>2, <1>3
     DEF Changes, LiveChange, Control, Recomputes, StartRecompute, FinishRecompute, history
<1>4. CASE Publications
  BY <1>2, <1>4
     DEF Publications, PollMoved, BroadcastMoved, BroadcastSnapshot, PublishControl,
         PublishEvent, PublishItem, PublishBuilt, PublishStarted, PublishDone,
         PublishFlag, Send, state, history
<1>5. CASE Answers \/ Studio \/ Faults
  BY <1>2, <1>5
     DEF Answers, Register, Refresh, Reply, Heartbeat, ReadCount, Answer, Studio,
         Deliver, RegisterAgain, SendHeartbeat, RetryDue, Faults, Lose, Overtake,
         Silence, Restart, state, history
<1> QED
  BY <1>3, <1>4, <1>5 DEF Next

\* The listener starts one recompute at a time.
LEMMA NextSpawn ==
    ASSUME TypeInv, SpawnInv, Next
    PROVE  SpawnInv'
<1>0. /\ StepsOK /\ Idle.do = "idle"
      /\ step["listener"].do = "flag" => step["listener"].spawn \in Workers
  BY TypeParts, StepFields, Names DEF Idle
<1>1. ASSUME NEW s, step' = [step EXCEPT !["listener"] = s], s.do # "flag"
      PROVE  SpawnInv'
  BY <1>0, <1>1, OtherStep DEF SpawnInv
<1>2. ASSUME NEW t \in Threads \ {"listener"}, NEW s, step' = [step EXCEPT ![t] = s],
             step[t] # Idle \/ t = "telemetry"
      PROVE  SpawnInv'
  <2>1. \A u \in Threads \ {t} : step'[u] = step[u]
    BY <1>0, <1>2 DEF StepsOK
  <2>2. step'["listener"] = step["listener"]
    BY <2>1, <1>2, Names
  <2>3. step["listener"].do = "flag" => /\ step["listener"].spawn # t
                                        /\ step["listener"].spawn \in Threads
    BY <1>0, <1>2, Names DEF SpawnInv
  <2> QED
    BY <2>1, <2>2, <2>3 DEF SpawnInv
<1>3. CASE Control
  <2>1. PICK s \in {[do |-> "update", val |-> newest'], [do |-> "broadcast"]} :
           step' = [step EXCEPT !["listener"] = s]
    BY <1>3 DEF Control
  <2>2. s.do # "flag"
    BY <2>1
  <2> QED
    BY <1>1, <2>1, <2>2
<1>4. CASE PollMoved
  <2> DEFINE s == [do |-> "broadcast"]
  <2>1. s.do # "flag" /\ step' = [step EXCEPT !["listener"] = s]
    BY <1>4 DEF PollMoved
  <2> HIDE DEF s
  <2> QED
    BY <1>1, <2>1
<1>5. CASE Answers
  BY <1>1, <1>5, AnswerSteps
<1>6. CASE BroadcastMoved \/ PublishControl
  BY <1>0, <1>1, <1>6
     DEF BroadcastMoved, BroadcastSnapshot, PublishControl, PublishItem, Publish
<1>7. CASE PublishEvent
  <2>1. step' = [step EXCEPT !["telemetry"] = Idle]
    BY <1>7 DEF PublishEvent, PublishItem, Publish
  <2> QED
    BY <1>2, <2>1, Names
<1>8. ASSUME NEW w \in Workers, PublishBuilt(w) \/ PublishDone(w)
      PROVE  SpawnInv'
  <2>1. step[w].do \in {"built", "done"} /\ \E s : step' = [step EXCEPT ![w] = s]
    BY <1>8 DEF PublishBuilt, PublishDone, PublishFlag, PublishItem, Publish
  <2>2. step[w] # Idle
    BY <1>0, <2>1
  <2> QED
    BY <1>2, <2>1, <2>2, Names
<1>9. ASSUME NEW w \in Workers, NEW i \in Item, FinishRecompute(w, i)
      PROVE  SpawnInv'
  <2>1. step[w].do = "build" /\ \E s : step' = [step EXCEPT ![w] = s]
    BY <1>9 DEF FinishRecompute
  <2>2. step[w] # Idle
    BY <1>0, <2>1
  <2> QED
    BY <1>2, <2>1, <2>2, Names
<1>10. CASE PublishStarted
  <2>1. step'["listener"] = Idle
    <3> DEFINE w == step["listener"].spawn
    <3>1. /\ step' = [step EXCEPT !["listener"] = Idle, ![w] = [do |-> "build"]]
          /\ step["listener"].do = "flag"
      BY <1>10 DEF PublishStarted, PublishFlag
    <3>2. w \in Workers
      BY <1>0, <3>1
    <3> HIDE DEF w
    <3> QED
      BY <1>0, <3>1, <3>2, Names DEF StepsOK
  <2> QED
    BY <1>0, <2>1 DEF SpawnInv
<1>11. ASSUME NEW w \in Workers, StartRecompute(w)
       PROVE  SpawnInv'
  <2> DEFINE s == [do |-> "flag", spawn |-> w]
  <2>1. /\ step' = [step EXCEPT !["listener"] = s] /\ s.spawn = w /\ step[w] = Idle
    BY <1>11 DEF StartRecompute, Quiet
  <2> HIDE DEF s
  <2>2. step'["listener"] = s /\ step'[w] = Idle
    BY <1>0, <2>1, Names DEF StepsOK
  <2> QED
    BY <2>1, <2>2 DEF SpawnInv
<1>12. CASE Restart
  BY <1>0, <1>12, Names DEF Restart, SpawnInv
<1>13. CASE step' = step
  BY <1>13 DEF SpawnInv
<1> QED
  BY <1>3, <1>4, <1>5, <1>6, <1>7, <1>8, <1>9, <1>10, <1>11, <1>12, <1>13, StepFrame
     DEF Publishing

\* A step that changes an item promises its publication, and one that keeps a
\* promise publishes what there is.
LEMMA NextCovered ==
    ASSUME TypeInv, OrderInv, PendingInv, Next, NEW i \in Item
    PROVE  Covered(i)'
<1>0. /\ StepsOK /\ StateOK /\ Idle.do = "idle" /\ Covered(i) /\ PostedInv /\ SpawnInv
      /\ truth \in [Item -> Version] /\ told \in [Item -> Version]
  BY TypeParts DEF Idle, PendingInv, StateOK
<1>1. ASSUME NEW t \in Threads, NEW s, step' = [step EXCEPT ![t] = s]
      PROVE  step'[t] = s /\ \A u \in Threads \ {t} : step'[u] = step[u]
  BY <1>0, <1>1 DEF StepsOK
<1>2. ASSUME UNCHANGED <<truth, told, moved, event, unposted>>,
             NEW s, step' = [step EXCEPT !["listener"] = s],
             step["listener"].do \notin {"broadcast", "update"}
      PROVE  Covered(i)'
  BY <1>0, <1>1, <1>2, SameCovered, Names
<1>3. CASE \E j \in Item : LiveChange(j)
  BY <1>3 DEF LiveChange, Covered
<1>4. CASE PostState
  <2>1. /\ Loudness # Own /\ UNCHANGED <<told, moved, step>>
        /\ Renew(Loudness)
        /\ \/ event' = [item |-> Loudness, val |-> newest'] /\ unposted' = unposted
           \/ unposted' = TRUE /\ event' = event
    BY <1>4 DEF PostState
  <2>2. event' # None \/ unposted'
    <3>1. /\ newest' \in Nat /\ Loudness \in Item
      BY <1>0, NextGrows, PartsAssumption DEF SizesOK, Loudness, Item, Part
    <3>2. [item |-> Loudness, val |-> newest'] # None
      BY <3>1, NoneAssumption
    <3> QED
      BY <2>1, <3>2
  <2>3. CASE i = Loudness
    BY <2>2, <2>3 DEF Covered
  <2>4. CASE i # Loudness
    <3>1. truth'[i] = truth[i]
      BY <1>0, <2>1, <2>4 DEF Renew
    <3> QED
      BY <1>0, <2>1, <2>4, <3>1, SameCovered
  <2> QED
    BY <2>3, <2>4
<1>5. CASE Control
  <2>1. /\ UNCHANGED <<told, moved, event, unposted>> /\ Renew(Own)
        /\ step["listener"] = Idle
    BY <1>5 DEF Control, Quiet, history
  <2>2. PICK s \in {[do |-> "update", val |-> newest'], [do |-> "broadcast"]} :
           step' = [step EXCEPT !["listener"] = s]
    BY <1>5 DEF Control
  <2>3. step'["listener"] = s /\ \A w \in Workers : step'[w] = step[w]
    BY <1>1, <2>2, Names
  <2>4. CASE s.do = "broadcast"
    BY <2>3, <2>4 DEF Covered
  <2>5. CASE s.do # "broadcast" /\ i = Own
    <3>1. s = [do |-> "update", val |-> newest']
      BY <2>5
    <3>2. truth'[Own] = newest'
      BY <1>0, <2>1, Names DEF Renew
    <3> QED
      BY <2>3, <2>5, <3>1, <3>2 DEF Covered
  <2>6. CASE i # Own
    <3>1. truth'[i] = truth[i]
      BY <1>0, <2>1, <2>6 DEF Renew
    <3> QED
      BY <1>0, <2>1, <2>3, <2>6, <3>1, SameCovered
  <2> QED
    BY <2>4, <2>5, <2>6
<1>6. ASSUME NEW w \in Workers, StartRecompute(w)
      PROVE  Covered(i)'
  <2>1. /\ UNCHANGED <<truth, told, moved, event, unposted>>
        /\ step["listener"] = Idle
        /\ \E s : step' = [step EXCEPT !["listener"] = s]
    BY <1>6 DEF StartRecompute, Quiet, history
  <2> QED
    BY <1>0, <1>2, <2>1
<1>7. ASSUME NEW w \in Workers, NEW j \in Item, FinishRecompute(w, j)
      PROVE  Covered(i)'
  <2> DEFINE s == [do |-> "built", item |-> j]
  <2>1. /\ UNCHANGED <<told, moved, event, unposted>> /\ Renew(j) /\ j # Own
        /\ step[w].do = "build" /\ step' = [step EXCEPT ![w] = s]
    BY <1>7 DEF FinishRecompute, history
  <2>2. step'[w] = s /\ \A u \in Threads \ {w} : step'[u] = step[u]
    BY <1>1, <2>1, Names
  <2>3. CASE i = j
    BY <2>2, <2>3 DEF Covered
  <2>4. CASE i # j
    <3>1. truth'[i] = truth[i]
      BY <1>0, <2>1, <2>4 DEF Renew
    <3>2. step[w] # [do |-> "built", item |-> i]
      BY <2>1
    <3> HIDE DEF s
    <3> QED
      BY <1>0, <2>1, <2>2, <3>1, <3>2, SameCovered, Names
  <2> QED
    BY <2>3, <2>4
<1>8. CASE PollMoved
  <2> DEFINE s == [do |-> "broadcast"]
  <2>1. step' = [step EXCEPT !["listener"] = s] /\ s.do = "broadcast"
    BY <1>8 DEF PollMoved
  <2> HIDE DEF s
  <2>2. step'["listener"].do = "broadcast"
    BY <1>1, <2>1, Names
  <2> QED
    BY <2>2 DEF Covered
<1>9. CASE BroadcastMoved
  BY <1>9 DEF BroadcastMoved, BroadcastSnapshot, Captured, state, Covered
<1>10. CASE PublishControl
  <2>1. /\ UNCHANGED <<truth, moved, event>>
        /\ told' = [told EXCEPT ![Own] = step["listener"].val]
        /\ step' = [step EXCEPT !["listener"] = Idle]
        /\ step["listener"].do = "update"
        /\ unposted' = (unposted /\ Own # Loudness)
    BY <1>10 DEF PublishControl, PublishItem, Publish
  <2>2. \A u \in Threads \ {"listener"} : step'[u] = step[u]
    BY <1>1, <2>1, Names
  <2>3. unposted' = unposted
    BY <1>0, <2>1, ZenonT(20) DEF PostedInv, StateOK
  <2>4. CASE i # Own
    <3>1. told'[i] = told[i]
      BY <1>0, <2>1, <2>4
    <3> QED
      BY <1>0, <2>1, <2>2, <2>3, <2>4, <3>1, SameCovered, Names
  <2>5. CASE i = Own
    <3>1. told'[Own] = step["listener"].val
      BY <1>0, <2>1, Names
    <3>2. CASE told[Own] = truth[Own]
      <4>1. step["listener"].val \in told[Own] .. truth[Own] /\ truth[Own] \in Nat
        BY <2>1, Names DEF OrderInv, StepsInv, VersionsInv
      <4>2. told'[Own] = truth'[Own]
        BY <2>1, <3>1, <3>2, <4>1
      <4> QED
        BY <2>5, <4>2 DEF Covered
    <3>3. CASE step["listener"] = [do |-> "update", val |-> truth[Own]]
      BY <2>1, <2>5, <3>1, <3>3 DEF Covered
    <3>4. CASE moved
      BY <2>1, <3>4 DEF Covered
    <3>5. CASE i = Loudness /\ (event # None \/ unposted)
      BY <2>1, <2>3, <3>5 DEF Covered
    <3>6. CASE \E w \in Workers : step[w] = [do |-> "built", item |-> i]
      BY <2>2, <3>6, Names DEF Covered
    <3> QED
      BY <1>0, <2>1, <2>5, <3>2, <3>3, <3>4, <3>5, <3>6 DEF Covered
  <2> QED
    BY <2>4, <2>5
<1>11. CASE PublishEvent
  <2>1. /\ UNCHANGED <<truth, moved>> /\ event.item = Loudness
        /\ told' = [told EXCEPT ![Loudness] = truth[Loudness]]
        /\ step' = [step EXCEPT !["telemetry"] = Idle]
    BY <1>0, <1>11
       DEF PublishEvent, PublishItem, Publish, EventValue, Captured, PostedInv
  <2>2. \A u \in Threads \ {"telemetry"} : step'[u] = step[u]
    BY <1>1, <2>1, Names
  <2>3. CASE i = Loudness
    BY <1>0, <2>1, <2>3 DEF Covered
  <2>4. CASE i # Loudness
    <3>1. told'[i] = told[i]
      BY <1>0, <2>1, <2>4
    <3> QED
      BY <1>0, <2>1, <2>2, <2>4, <3>1, SameCovered, Names
  <2> QED
    BY <2>3, <2>4
<1>12. ASSUME NEW w \in Workers, PublishBuilt(w)
       PROVE  Covered(i)'
  <2> DEFINE j == step[w].item
  <2>1. /\ UNCHANGED <<truth, moved, event>>
        /\ told' = [told EXCEPT ![j] = truth[j]]
        /\ \E s : step' = [step EXCEPT ![w] = s]
        /\ unposted' = (unposted /\ j # Loudness)
    BY <1>12 DEF PublishBuilt, PublishItem, Publish, Captured
  <2>2. \A u \in Threads \ {w} : step'[u] = step[u]
    BY <1>1, <2>1, Names
  <2>3. CASE i = j
    BY <1>0, <2>1, <2>3 DEF Covered
  <2>4. CASE i # j
    <3>1. told'[i] = told[i]
      BY <1>0, <2>1, <2>4
    <3>2. step[w] # [do |-> "built", item |-> i]
      BY <2>4
    <3> HIDE DEF j
    <3>3. i = Loudness => unposted' = unposted
      BY <1>0, <2>1, <2>4, ZenonT(20) DEF StateOK
    <3> QED
      BY <1>0, <2>1, <2>2, <2>4, <3>1, <3>2, <3>3, SameCovered, Names
  <2> QED
    BY <2>3, <2>4
<1>13. CASE PublishStarted
  <2> DEFINE w == step["listener"].spawn
  <2>1. /\ UNCHANGED <<truth, told, moved, event, unposted>>
        /\ step["listener"].do = "flag"
        /\ step' = [step EXCEPT !["listener"] = Idle, ![w] = [do |-> "build"]]
    BY <1>13 DEF PublishStarted, PublishFlag, state, history
  <2>2. w \in Workers /\ step[w] = Idle
    BY <1>0, <2>1, StepFields, Names DEF SpawnInv
  <2> HIDE DEF w
  <2>3. \A u \in Threads \ {"listener", w} : step'[u] = step[u]
    BY <1>0, <2>1 DEF StepsOK
  <2>4. step[w] # [do |-> "built", item |-> i]
    BY <1>0, <2>2
  <2> QED
    BY <1>0, <2>1, <2>3, <2>4, SameCovered, Names
<1>14. ASSUME NEW w \in Workers, PublishDone(w)
       PROVE  Covered(i)'
  <2>1. /\ UNCHANGED <<truth, told, moved, event, unposted>>
        /\ step[w].do = "done" /\ step' = [step EXCEPT ![w] = Idle]
    BY <1>14 DEF PublishDone, PublishFlag, state, history
  <2>2. \A u \in Threads \ {w} : step'[u] = step[u]
    BY <1>1, <2>1, Names
  <2>3. step[w] # [do |-> "built", item |-> i]
    BY <2>1
  <2> QED
    BY <1>0, <2>1, <2>2, <2>3, SameCovered, Names
<1>15. CASE Answers
  <2>1. UNCHANGED <<truth, told, moved, event, unposted>>
    BY <1>15
       DEF Answers, Register, Refresh, Reply, Heartbeat, ReadCount, Answer, state,
                 history
  <2>2. step["listener"].do \notin {"broadcast", "update"}
    BY <1>0, <1>15
       DEF Answers, Register, Refresh, Reply, Heartbeat, ReadCount, Answer,
                       Receive, Quiet
  <2> QED
    BY <1>2, <1>15, <2>1, <2>2, AnswerSteps
<1>16. CASE Restart
  BY <1>16 DEF Restart, Covered
<1>17. CASE Send \/ Studio \/ Lose \/ Overtake \/ Silence
  <2>1. UNCHANGED <<truth, told, moved, event, unposted, step>>
    BY <1>17
       DEF Send, Studio, Deliver, RegisterAgain, SendHeartbeat, RetryDue, Lose,
           Overtake, Silence, state, history
  <2> QED
    BY <1>0, <2>1, SameCovered
<1> QED
  BY <1>3, <1>4, <1>5, <1>6, <1>7, <1>8, <1>9, <1>10, <1>11, <1>12, <1>13, <1>14,
     <1>15, <1>16, <1>17
     DEF Next, Changes, Recomputes, Publications, Faults

\* Every step keeps the promises.
LEMMA NextPending ==
    ASSUME TypeInv, OrderInv, PendingInv, [Next]_vars
    PROVE  PendingInv'
<1>1. CASE Next
  BY <1>1, NextCovered, NextPosted, NextSpawn DEF PendingInv
<1>2. CASE UNCHANGED vars
  BY <1>2 DEF vars, state, history, PendingInv, Covered, PostedInv, SpawnInv
<1> QED
  BY <1>1, <1>2

\* And the start has nothing to promise.
LEMMA InitPending == Init => PendingInv
<1> SUFFICES ASSUME Init
             PROVE  PendingInv
  OBVIOUS
<1>1. /\ told = truth /\ event = None /\ unposted = FALSE
      /\ step = [t \in Threads |-> Idle]
  BY DEF Init
<1> QED
  BY <1>1, Names DEF PendingInv, Covered, PostedInv, SpawnInv, Idle

-----------------------------------------------------------------------------
(* No version from the future.                                              *)

\* An item only gets newer, across engines as well.
LEMMA TruthGrows ==
    ASSUME OrderInv, Next
    PROVE  \A i \in Item :
              truth[i] \in Nat /\ truth'[i] \in Nat /\ truth'[i] >= truth[i]
<1>0. OrderInv' /\ VersionsInv
  BY NextOrder DEF OrderInv
<1>1. \A i \in Item : truth[i] \in Nat /\ truth'[i] \in Nat /\ truth[i] <= newest
  BY <1>0 DEF OrderInv, VersionsInv
<1>2. ASSUME NEW j \in Item, Renew(j)
      PROVE  \A i \in Item : truth'[i] >= truth[i]
  <2>1. \A i \in Item : truth'[i] = IF i = j THEN newest + 1 ELSE truth[i]
    BY <1>0, <1>2 DEF VersionsInv, Renew
  <2> QED
    BY <1>0, <1>1, <2>1 DEF VersionsInv
<1>3. CASE Restart
  <2>1. \A i \in Item : truth'[i] = newest + 1
    BY <1>3 DEF Restart
  <2> QED
    BY <1>0, <1>1, <2>1 DEF VersionsInv
<1>4. CASE truth' = truth
  BY <1>1, <1>4
<1>5. Loudness \in Item
  BY PartsAssumption DEF Loudness, Item, Part
<1>6. CASE \/ PostState \/ Control \/ \E i \in Item : LiveChange(i)
           \/ \E w \in Workers, i \in Item : FinishRecompute(w, i)
  <2>1. PICK j \in Item : Renew(j)
    BY <1>5, <1>6, Names DEF PostState, Control, LiveChange, FinishRecompute
  <2> QED
    BY <1>1, <1>2, <2>1
<1> QED
  BY <1>1, <1>3, <1>4, <1>6, VersionFrame

\* So a packet that was not ahead of it never is.
LEMMA StillNotAhead ==
    ASSUME OrderInv, Next, TypeInv, NEW p \in Packets, NotAhead(truth, p)
    PROVE  NotAhead(truth', p)
<1>1. /\ p.kind = "update" => p.item \in Item /\ p.val \in Nat
      /\ p.kind = "part" => p.part \in Item /\ p.val \in Nat
  BY PacketFields, PublishedTypes DEF Item, Version
<1>2. \A i \in Item, v \in Nat : v <= truth[i] => v <= truth'[i]
  BY TruthGrows
<1> QED
  BY <1>1, <1>2 DEF NotAhead

\* Where a datagram on its way comes from.
LEMMA NetSource ==
    ASSUME TypeInv, Next, NEW k \in DOMAIN net'
    PROVE  \/ net'[k].kind \in {"ack", "unknown", "goodbye"}
           \/ \E j \in DOMAIN net : net'[k] = net[j]
           \/ \E j \in DOMAIN sending : net'[k] = sending[j].packet
<1>0. net \in Seq(Packets) /\ sending \in Seq(Queued)
  BY PublishedTypes
<1>1. ASSUME NEW p, net' = Append(net, p)
      PROVE  net'[k] = p \/ \E j \in DOMAIN net : net'[k] = net[j]
  <2>1. /\ k \in 1 .. Len(net) + 1
        /\ net'[k] = IF k = Len(net) + 1 THEN p ELSE net[k]
    BY <1>0, <1>1
  <2> QED
    BY <2>1
<1>2. CASE Send
  <2>1. net' = net \/ net' = Append(net, Head(sending).packet)
    BY <1>2 DEF Send
  <2>2. 1 \in DOMAIN sending /\ Head(sending) = sending[1]
    BY <1>0, <1>2 DEF Send
  <2> QED
    BY <1>1, <2>1, <2>2
<1>3. CASE Answer
  <2> DEFINE p == IF step["listener"].ack
                  THEN [kind |-> "ack", epoch |-> epoch,
                        gen |-> step["listener"].gen]
                  ELSE [kind |-> "unknown"]
  <2>1. net' = Append(net, p) /\ p.kind \in {"ack", "unknown"}
    BY <1>3 DEF Answer
  <2> HIDE DEF p
  <2> QED
    BY <1>1, <2>1
<1>4. CASE Deliver
  <2>1. k + 1 \in DOMAIN net /\ net'[k] = net[k + 1]
    BY <1>0, <1>4 DEF Deliver
  <2> QED
    BY <2>1
<1>5. CASE Lose
  <2>1. ASSUME NEW i \in DOMAIN net, net' = Without(net, i)
        PROVE  \E j \in DOMAIN net : net'[k] = net[j]
    <3>1. /\ k \in 1 .. Len(net) - 1
          /\ net'[k] = net[IF k < i THEN k ELSE k + 1]
      BY <1>0, <2>1, WithoutElements
    <3> QED
      BY <1>0, <3>1
  <2> QED
    BY <1>5, <2>1 DEF Lose
<1>6. CASE Overtake
  <2>1. PICK i \in 1 .. Len(net) - 1 :
           net' = [net EXCEPT ![i] = net[i + 1], ![i + 1] = net[i]]
    BY <1>6 DEF Overtake
  <2> QED
    BY <1>0, <2>1
<1>7. CASE Restart
  <2> DEFINE p == [kind |-> "goodbye"]
  <2>1. net' = net \/ net' = Append(net, p)
    BY <1>7 DEF Restart
  <2> HIDE DEF p
  <2> QED
    BY <1>1, <2>1 DEF p
<1>8. CASE net' = net
  BY <1>8
<1> QED
  BY <1>2, <1>3, <1>4, <1>5, <1>6, <1>7, <1>8, NetFrame

\* What is being sent was the item when it was captured, or before.
LEMMA NextAheadSending ==
    ASSUME TypeInv, OrderInv, AheadInv, Next, NEW k \in DOMAIN sending'
    PROVE  NotAhead(truth', sending'[k].packet)
<1>0. /\ net \in Seq(Packets) /\ sending \in Seq(Queued) /\ StepsOK
      /\ truth \in [Item -> Version] /\ newest \in Nat
  BY PublishedTypes
<1>1. ASSUME NEW j \in DOMAIN sending, sending'[k] = sending[j]
      PROVE  NotAhead(truth', sending'[k].packet)
  <2> DEFINE p == sending[j].packet
  <2>1. p \in Packets /\ NotAhead(truth, p)
    <3>1. sending[j] \in Queued
      BY <1>0
    <3> QED
      BY <3>1 DEF Queued, AheadInv
  <2> HIDE DEF p
  <2>2. NotAhead(truth', p)
    BY <2>1, StillNotAhead
  <2> QED
    BY <1>1, <2>2 DEF p
<1>2. CASE Publishing
  <2>1. PICK those \in SUBSET Item :
           \A j \in DOMAIN sending' : Tells(count', told', those, sending'[j].packet)
    BY <1>2, PublishingIs
  <2>2. \A i \in Item : told'[i] <= truth'[i]
    BY NextOrder DEF OrderInv, VersionsInv
  <2> DEFINE p == sending'[k].packet
  <2>3. Tells(count', told', those, p)
    BY <2>1
  <2> HIDE DEF p
  <2>4. NotAhead(truth', p)
    BY <2>2, <2>3 DEF Tells, NotAhead
  <2> QED
    BY <2>4 DEF p
<1>3. CASE Reply
  <2>1. sending' = To(FALSE, Snapshot(truth, count)) /\ truth' = truth
    BY <1>3 DEF Reply, Publish, Captured, state
  <2>2. /\ k \in Part
        /\ sending'[k].packet =
              [kind |-> "part", part |-> k, val |-> truth[k], gen |-> count]
    BY <2>1 DEF To, Snapshot
  <2>3. truth[k] \in Nat
    BY <1>0, <2>2 DEF Item, Version
  <2> DEFINE p == sending'[k].packet
  <2>4. p.kind = "part" /\ p.part = k /\ p.val = truth[k]
    BY <2>2
  <2> HIDE DEF p
  <2>5. NotAhead(truth', p)
    BY <2>1, <2>3, <2>4 DEF NotAhead
  <2> QED
    BY <2>5 DEF p
<1>4. CASE Send
  <2>1. k + 1 \in DOMAIN sending /\ sending'[k] = sending[k + 1]
    BY <1>0, <1>4 DEF Send
  <2> QED
    BY <1>1, <2>1
<1>5. CASE Restart
  BY <1>5 DEF Restart
<1>6. CASE sending' = sending
  BY <1>1, <1>6
<1> QED
  BY <1>2, <1>3, <1>4, <1>5, <1>6, LockFrame

\* And so is what is on its way.
LEMMA NextAheadNet ==
    ASSUME TypeInv, OrderInv, AheadInv, Next, NEW k \in DOMAIN net'
    PROVE  NotAhead(truth', net'[k])
<1>0. net \in Seq(Packets) /\ sending \in Seq(Queued)
  BY PublishedTypes
<1>1. CASE net'[k].kind \in {"ack", "unknown", "goodbye"}
  BY <1>1 DEF NotAhead
<1>2. ASSUME NEW p, p \in Packets, NotAhead(truth, p), net'[k] = p
      PROVE  NotAhead(truth', net'[k])
  <2>1. NotAhead(truth', p)
    BY <1>2, StillNotAhead
  <2> QED
    BY <1>2, <2>1
<1>3. CASE \E j \in DOMAIN net : net'[k] = net[j]
  <2>1. PICK j \in DOMAIN net : net'[k] = net[j]
    BY <1>3
  <2>2. net[j] \in Packets /\ NotAhead(truth, net[j])
    BY <1>0 DEF AheadInv
  <2> QED
    BY <1>2, <2>1, <2>2
<1>4. CASE \E j \in DOMAIN sending : net'[k] = sending[j].packet
  <2>1. PICK j \in DOMAIN sending : net'[k] = sending[j].packet
    BY <1>4
  <2>2. sending[j].packet \in Packets /\ NotAhead(truth, sending[j].packet)
    <3>1. sending[j] \in Queued
      BY <1>0
    <3> QED
      BY <3>1 DEF AheadInv, Queued
  <2> QED
    BY <1>2, <2>1, <2>2
<1> QED
  BY <1>1, <1>3, <1>4, NetSource

\* And so is what the client holds.
LEMMA NextAheadVals ==
    ASSUME TypeInv, OrderInv, AheadInv, Next, NEW i \in Item
    PROVE  vals'[i] <= truth'[i]
<1>0. /\ vals \in [Item -> Nat] /\ vals[i] <= truth[i]
      /\ truth[i] \in Nat /\ truth'[i] \in Nat /\ truth[i] <= truth'[i]
      /\ net \in Seq(Packets)
  BY PublishedTypes, TruthGrows DEF AheadInv, Version
<1>1. CASE vals' = vals
  BY <1>0, <1>1
<1>2. CASE Deliver
  <2> DEFINE m == Head(net)
  <2>1. truth' = truth
    BY <1>2 DEF Deliver, state
  <2>2. NotAhead(truth, m)
    <3>1. 1 \in DOMAIN net /\ m = net[1]
      BY <1>0, <1>2 DEF Deliver
    <3> QED
      BY <3>1 DEF AheadInv
  <2>3. \/ vals' = vals \/ vals'[i] = 0
        \/ m.kind = "update" /\ vals' = [vals EXCEPT ![m.item] = m.val]
        \/ m.kind = "part" /\ vals' = [vals EXCEPT ![m.part] = m.val]
    BY <1>2
       DEF Deliver, HandleUpdate, HandleFlag, HandlePart, HandleAck, HandleUnknown,
                HandleGoodbye, model
  <2> HIDE DEF m
  <2>4. CASE vals'[i] = 0
    BY <1>0, <2>4
  <2>5. CASE m.kind = "update" /\ vals' = [vals EXCEPT ![m.item] = m.val]
    <3>1. vals'[i] = IF i = m.item THEN m.val ELSE vals[i]
      BY <1>0, <2>5
    <3> QED
      BY <1>0, <2>1, <2>2, <2>5, <3>1 DEF NotAhead
  <2>6. CASE m.kind = "part" /\ vals' = [vals EXCEPT ![m.part] = m.val]
    <3>1. vals'[i] = IF i = m.part THEN m.val ELSE vals[i]
      BY <1>0, <2>6
    <3> QED
      BY <1>0, <2>1, <2>2, <2>6, <3>1 DEF NotAhead
  <2> QED
    BY <1>1, <2>3, <2>4, <2>5, <2>6
<1> QED
  BY <1>1, <1>2, ClientFrame

\* Every step keeps that.
LEMMA NextAhead ==
    ASSUME TypeInv, OrderInv, AheadInv, [Next]_vars
    PROVE  AheadInv'
<1>1. CASE Next
  <2>1. \A k \in DOMAIN net' : NotAhead(truth', net'[k])
    BY <1>1, NextAheadNet
  <2>2. \A k \in DOMAIN sending' : NotAhead(truth', sending'[k].packet)
    BY <1>1, NextAheadSending
  <2> QED
    BY <1>1, <2>1, <2>2, NextAheadVals DEF AheadInv
<1>2. CASE UNCHANGED vars
  BY <1>2 DEF vars, state, lock, client, model, AheadInv, NotAhead
<1> QED
  BY <1>1, <1>2

\* The start has it: the client holds nothing.
LEMMA InitAhead == Init => AheadInv
<1> SUFFICES ASSUME Init
             PROVE  AheadInv
  OBVIOUS
<1>1. /\ vals = [i \in Item |-> 0] /\ truth = [i \in Item |-> 1]
      /\ net = <<>> /\ sending = <<>>
  BY DEF Init
<1> QED
  BY <1>1 DEF AheadInv

-----------------------------------------------------------------------------
(* The properties.                                                          *)

IInv(ordered) ==
    TypeInv /\ OrderInv /\ PublishedInv(ordered) /\ PendingInv /\ AheadInv

\* All of it holds at the start.
LEMMA InitHolds ==
    ASSUME Init, NEW ordered, ordered => InOrder
    PROVE  IInv(ordered)
BY InitTypes, InitOrder, InitPublished, InitPending, InitAhead DEF IInv

\* And every step keeps it.
LEMMA NextHolds ==
    ASSUME NEW ordered, IInv(ordered), [Next]_vars
    PROVE  IInv(ordered)'
<1>1. TypeInv' /\ OrderInv'
  BY NextTypes, NextOrder DEF IInv
<1>2. PublishedInv(ordered)'
  BY <1>1, NextPublished DEF IInv
<1>3. PendingInv' /\ AheadInv'
  BY NextPending, NextAhead DEF IInv
<1> QED
  BY <1>1, <1>2, <1>3 DEF IInv

\* Of every behaviour, and with what the client holds of those in order.
LEMMA Invariant ==
    /\ Spec => []IInv(FALSE)
    /\ Spec /\ InOrder => []IInv(TRUE)
<1>1. Init => IInv(FALSE)
  BY InitHolds
<1>2. IInv(FALSE) /\ [Next]_vars => IInv(FALSE)'
  BY NextHolds
<1>3. Init /\ InOrder => IInv(TRUE)
  BY InitHolds
<1>4. IInv(TRUE) /\ [Next]_vars => IInv(TRUE)'
  BY NextHolds
<1> QED
  BY <1>1, <1>2, <1>3, <1>4, PTL DEF Spec

\* state_generation: the count an acknowledgement carries is never the one of a
\* publication that is still being sent.
THEOREM AckAfterStateHolds == Spec => []AckAfterState
<1>1. IInv(FALSE) => AckAfterState
  <2> SUFFICES ASSUME IInv(FALSE), step["listener"].do = "answer",
                      NEW k \in DOMAIN sending
               PROVE  sending[k].packet.gen # step["listener"].gen
    BY DEF AckAfterState
  <2>1. PICK since \in [Item -> 0 .. CountSize - 1], n \in 0 .. CountSize - 1 :
           Published(FALSE, since, n)
    BY DEF IInv, PublishedInv
  <2>2. sending # <<>>
    OBVIOUS
  <2> QED
    BY <2>1, <2>2 DEF Published, SendingInv, AnswerInv
<1> QED
  BY <1>1, Invariant, PTL

\* What a client holds at the engine's count.
LEMMA HeldIsPublished == IInv(TRUE) => CurrentIsAsPublished
<1> SUFFICES ASSUME IInv(TRUE), ~left.early, InSync, NEW i \in Item
             PROVE  vals[i] >= told[i]
  BY DEF CurrentIsAsPublished
<1>1. PICK since \in [Item -> 0 .. CountSize - 1], n \in 0 .. CountSize - 1 :
         Published(TRUE, since, n)
  BY DEF IInv, PublishedInv
<1>2. count \in Count /\ Age(count, count) = 0 /\ count # None
  <2>1. count \in Count
    BY PublishedTypes DEF IInv
  <2> QED
    BY <2>1, AgeIs, CountAssumption DEF Count
<1>3. Holds(count, told, since, n, vals, sync)
  BY <1>1 DEF Published, ClientInv, ModelInv, OfThisEngine, InSync
<1>4. sync.held = count /\ sync.seen = {} /\ ~sync.stale
  BY DEF InSync, Current, IInv, TypeInv, TypeOK
<1>5. AsOf(told, since, i, vals[i], 0)
  BY <1>2, <1>3, <1>4 DEF Holds
<1>6. since[i] \in Nat
  BY CountAssumption
<1> QED
  BY <1>5, <1>6 DEF AsOf

\* STATE_GENERATION: a client at the engine's count, that missed nothing, holds at
\* least what was last published of every item, in a behaviour of one engine, or
\* of several when no datagram overtakes another (with both, TLC finds the client
\* the comment of CurrentIsAsPublished describes).
THEOREM CurrentIsAsPublishedHolds == Spec /\ InOrder => []CurrentIsAsPublished
BY Invariant, HeldIsPublished, PTL

\* And when no publication is due or in progress, it holds the engine's state.
THEOREM CurrentWhenQuietHolds == Spec /\ InOrder => []CurrentWhenQuiet
<1>1. IInv(TRUE) => CurrentWhenQuiet
  <2> SUFFICES ASSUME IInv(TRUE), ~left.early, InSync, EngineQuiet, ~unposted
               PROVE  vals = truth
    BY DEF CurrentWhenQuiet
  <2>0. vals \in [Item -> Nat] /\ truth \in [Item -> Nat]
    BY PublishedTypes DEF IInv, Version
  <2>1. \A i \in Item : vals[i] >= told[i] /\ vals[i] <= truth[i]
    BY HeldIsPublished DEF IInv, AheadInv, CurrentIsAsPublished
  <2>2. \A i \in Item : told[i] = truth[i]
    <3>1. \A t \in Threads : step[t].do = "idle"
      BY DEF EngineQuiet, Idle
    <3>2. ~moved /\ event = None
      BY DEF EngineQuiet
    <3>3. /\ step["listener"].do = "idle"
          /\ \A w \in Workers : step[w].do = "idle"
      BY <3>1, Names
    <3>4. \A v, i : /\ step["listener"] # [do |-> "update", val |-> v]
                   /\ \A w \in Workers : step[w] # [do |-> "built", item |-> i]
      BY <3>3
    <3>5. \A i \in Item : Covered(i)
      BY DEF IInv, PendingInv
    <3> QED
      BY <3>2, <3>3, <3>4, <3>5 DEF Covered
  <2>3. \A i \in Item : vals[i] = truth[i]
    BY <2>0, <2>1, <2>2
  <2> QED
    BY <2>0, <2>3
<1> QED
  BY <1>1, Invariant, PTL
=============================================================================
