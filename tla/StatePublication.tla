-------------------------- MODULE StatePublication --------------------------
(* How the engine's control state reaches a client over datagrams: the       *)
(* publications numbered under one lock, the registry, the heartbeat and its *)
(* acknowledgement (orender_engine/src/osc.rs, osc/client_registry.rs,       *)
(* osc/transport.rs, osc/export.rs), and Studio's listener, which registers, *)
(* notices what it missed and asks for the snapshot again (core/src/osc).    *)
(*                                                                         *)
(* The state is a few items, each a version number; item i travels in part i *)
(* of a snapshot.  The recompute flag is numbered like them, and no snapshot *)
(* carries it.                                                               *)
EXTENDS StateSync, Sequences, FiniteSets

CONSTANTS
    Workers,        \* recompute threads that can be alive together
    NetSize,        \* bound: datagrams on their way to the client
    Budgets         \* bounds: how much of each kind a behaviour may hold

Budget == [changes : Nat,     \* of state
           builds : Nat,      \* recomputes
           faults : Nat,      \* datagrams lost, silences
           overtakes : Nat,   \* datagrams that arrive before an earlier one
           restarts : Nat,    \* engines taking over the port
           early : BOOLEAN]   \* before the client heard the last one's first ack

ASSUME WorkersAssumption == {"listener", "telemetry", "none"} \cap Workers = {}
ASSUME BoundsAssumption ==
    NetSize \in Nat \ {0} /\ Budgets \subseteq Budget
\* The count is 32 bits wide: it does not come round while anything it numbered
\* is on its way.  A change is published once; a recompute raises the flag,
\* publishes what it built and lowers the flag.
ASSUME CountsSuffice ==
    \A budget \in Budgets : budget.changes + 3 * budget.builds < CountSize

Item == Part
\* None is no engine's number and nothing that can wait to be published.
ASSUME NoneAssumption == None \notin Nat \cup [item : Item, val : Nat]

\* The listener publishes item 1 with the value it just set; the others are
\* read when they are published, for other threads change them too.
Own == 1
\* The render path publishes the last one, through the telemetry thread.
Loudness == Parts
Threads == {"listener", "telemetry"} \cup Workers

VARIABLES
    truth,        \* the engine's state: each item's version
    newest,       \* the newest version there is
    moved,        \* live_state_generation moved since the listener looked
    event,        \* what waits for the telemetry thread: the item, and the
                  \* version it had
    recomputing,  \* RendererControl::recomputing
    count,        \* StateGeneration
    sending,      \* the packets the publication in progress has still to send
    holder,       \* the thread that holds the publication lock
    step,         \* what each thread does next
    known,        \* the registry's entry for the client
    late,         \* it was not heard for CLIENT_TIMEOUT
    epoch,        \* instance_epoch
    net, up,      \* the datagrams on their way to the client, and from it
    vals,         \* the client's model: each item's version, 0 for none
    shown,        \* the recompute flag it shows, down at first
    sync,         \* its StateSync
    ready,        \* osc_snapshot_ready
    heard,        \* producer_epoch
    asked,        \* a refresh was asked less than REFRESH_RETRY ago
    told,         \* history: the versions last published to everyone
    unposted,     \* history: the loudness changed with nobody to tell, and was
                  \* not published since
    left          \* what is left of the budget

state == <<truth, newest, moved, event, recomputing>>
lock == <<sending, holder>>
registry == <<known, late>>
model == <<vals, shown, ready>>
client == <<model, sync, heard, asked>>
history == <<told, unposted>>
vars == <<state, count, lock, step, registry, epoch, net, up, client, history,
          left>>

Idle == [do |-> "idle"]
Free == holder = "none"
Quiet(t) == step[t] = Idle /\ holder # t

Update(i, v, g) == [kind |-> "update", item |-> i, val |-> v, gen |-> g]
Flag(b, g) == [kind |-> "flag", val |-> b, gen |-> g]
Snapshot(vs, g) ==
    [i \in Part |-> [kind |-> "part", part |-> i, val |-> vs[i], gen |-> g]]

Init ==
    /\ truth = [i \in Item |-> 1] /\ newest = 1
    /\ moved = FALSE /\ event = None /\ recomputing = FALSE
    /\ count = CountSize - 1
    /\ sending = <<>> /\ holder = "none"
    /\ step = [t \in Threads |-> Idle]
    /\ known \in {"absent", "permanent"} /\ late = FALSE
    /\ epoch = 1
    /\ net = <<>> /\ up = {"register"}
    /\ vals = [i \in Item |-> 0] /\ shown = FALSE
    /\ sync = Fresh /\ ready = FALSE /\ heard = None /\ asked = FALSE
    /\ told = truth /\ unposted = FALSE
    /\ left \in Budgets

-----------------------------------------------------------------------------
(* The state changes. *)

Spend(what) == left[what] > 0 /\ left' = [left EXCEPT ![what] = @ - 1]

Renew(i) ==
    /\ newest' = newest + 1
    /\ truth' = [truth EXCEPT ![i] = newest']

\* The audio thread changes state, as auto-gain does, and moves the live
\* generation for the listener to see.
LiveChange(i) ==
    /\ Spend("changes") /\ Renew(i)
    /\ moved' = TRUE
    /\ UNCHANGED <<event, recomputing, count, lock, step, registry, epoch, net,
                   up, client, history>>

\* The render path applies the loudness of a new segment and posts it to the
\* telemetry thread, unless it saw no live client: one not heard for too long
\* is none from the thread's next tick on.
PostState ==
    /\ Loudness # Own
    /\ Spend("changes") /\ Renew(Loudness)
    /\ \/ /\ known # "absent"
          /\ event' = [item |-> Loudness, val |-> newest']
          /\ unposted' = unposted
       \/ /\ known = "absent" \/ late
          /\ unposted' = TRUE
          /\ event' = event
    /\ UNCHANGED <<moved, recomputing, count, lock, step, registry, epoch, net,
                   up, client, told>>

\* The listener applies a control: it publishes the value it just set, or the
\* whole snapshot (Notify::Snapshot).
Control ==
    /\ Quiet("listener")
    /\ Spend("changes") /\ Renew(Own)
    /\ \E next \in {[do |-> "update", val |-> newest'], [do |-> "broadcast"]} :
          step' = [step EXCEPT !["listener"] = next]
    /\ UNCHANGED <<moved, event, recomputing, count, lock, registry, epoch, net,
                   up, client, history>>

\* The listener starts a recompute; it tells the clients before it spawns the
\* worker.
StartRecompute(w) ==
    /\ Quiet("listener") /\ ~recomputing /\ Quiet(w)
    /\ Spend("builds")
    /\ recomputing' = TRUE
    /\ step' = [step EXCEPT !["listener"] = [do |-> "flag", spawn |-> w]]
    /\ UNCHANGED <<truth, newest, moved, event, count, lock, registry, epoch,
                   net, up, client, history>>

\* A worker puts the topology it built in force.
FinishRecompute(w, i) ==
    /\ step[w].do = "build"
    /\ i # Own /\ Renew(i)
    /\ recomputing' = FALSE
    /\ step' = [step EXCEPT ![w] = [do |-> "built", item |-> i]]
    /\ UNCHANGED <<moved, event, count, lock, registry, epoch, net, up, client,
                   history, left>>

-----------------------------------------------------------------------------
(* Publications: captured, numbered and sent under the publication lock. *)

Advanced == Following(count)
\* What a publication reads under the lock.
Captured == truth

To(all, packets) ==
    [k \in DOMAIN packets |-> [all |-> all, packet |-> packets[k]]]

\* t takes the lock and captures; it holds it until the last packet is sent.
Publish(t, all, packets, next) ==
    /\ Free
    /\ holder' = t /\ sending' = To(all, packets)
    /\ step' = [step EXCEPT ![t] = next]

\* broadcast_live_state
BroadcastSnapshot(t) ==
    /\ Publish(t, TRUE, Snapshot(Captured, Advanced), Idle)
    /\ count' = Advanced /\ told' = Captured /\ unposted' = FALSE

\* The listener sees the live generation moved ...
PollMoved ==
    /\ Quiet("listener") /\ moved
    /\ moved' = FALSE
    /\ step' = [step EXCEPT !["listener"] = [do |-> "broadcast"]]
    /\ UNCHANGED <<truth, newest, event, recomputing, count, lock, registry,
                   epoch, net, up, client, history, left>>

\* ... and broadcasts the snapshot.
BroadcastMoved ==
    /\ step["listener"].do = "broadcast"
    /\ BroadcastSnapshot("listener")
    /\ UNCHANGED <<state, registry, epoch, net, up, client, left>>

\* publish_state of one message.
PublishItem(t, i, v, next) ==
    /\ Publish(t, TRUE, <<Update(i, v, Advanced)>>, next)
    /\ count' = Advanced /\ told' = [told EXCEPT ![i] = v]
    /\ unposted' = (unposted /\ i # Loudness)
    /\ UNCHANGED <<truth, newest, moved, recomputing, registry,
                   epoch, net, up, client, left>>

PublishControl ==
    /\ step["listener"].do = "update"
    /\ PublishItem("listener", Own, step["listener"].val, Idle)
    /\ event' = event

\* Mutant: the message carries what the render path posted.
EventValue_Posted == event.val

\* The telemetry thread reads what it publishes under the lock.
EventValue == Captured[event.item]

PublishEvent ==
    /\ event # None /\ Quiet("telemetry")
    /\ PublishItem("telemetry", event.item, EventValue, Idle)
    /\ event' = None

\* The worker reads what it built under the lock too.
PublishBuilt(w) ==
    /\ step[w].do = "built"
    /\ PublishItem(w, step[w].item, Captured[step[w].item], [do |-> "done"])
    /\ event' = event

PublishFlag(t, b, steps) ==
    /\ Free
    /\ holder' = t /\ sending' = To(TRUE, <<Flag(b, Advanced)>>)
    /\ count' = Advanced
    /\ step' = steps
    /\ UNCHANGED <<history, state, registry, epoch, net, up, client, left>>

PublishStarted ==
    /\ step["listener"].do = "flag"
    /\ PublishFlag("listener", TRUE,
           [step EXCEPT !["listener"] = Idle,
                        ![step["listener"].spawn] = [do |-> "build"]])

PublishDone(w) ==
    /\ step[w].do = "done"
    /\ PublishFlag(w, FALSE, [step EXCEPT ![w] = Idle])

\* One packet of the publication in progress.  A broadcast first forgets a
\* client not heard for too long, and reaches the registered one only; an
\* answer goes to the address that asked.
Send ==
    /\ sending # <<>>
    /\ Len(net) < NetSize
    /\ sending' = Tail(sending)
    /\ holder' = IF Len(sending) = 1 THEN "none" ELSE holder
    /\ LET all == Head(sending).all
           gone == all /\ late
       IN  /\ known' = IF gone THEN "absent" ELSE known
           /\ late' = (late /\ ~gone)
           /\ net' = IF all /\ known' = "absent" THEN net
                     ELSE Append(net, Head(sending).packet)
    /\ UNCHANGED <<state, count, step, epoch, up, client, history, left>>

-----------------------------------------------------------------------------
(* The listener answers the client. *)

Receive(request) ==
    /\ Quiet("listener")
    /\ request \in up
    /\ up' = up \ {request}

\* The registry first, the snapshot next.
Register ==
    /\ Receive("register")
    /\ known' = "active" /\ late' = FALSE
    /\ step' = [step EXCEPT !["listener"] = [do |-> "reply"]]
    /\ UNCHANGED <<state, count, lock, epoch, net, client, history, left>>

Refresh ==
    /\ Receive("refresh")
    /\ step' = [step EXCEPT !["listener"] = [do |-> "reply"]]
    /\ UNCHANGED <<state, count, lock, registry, epoch, net, client, history,
                   left>>

\* send_live_state_to: at the count of the state it captures.
Reply ==
    /\ step["listener"].do = "reply"
    /\ Publish("listener", FALSE, Snapshot(Captured, count), Idle)
    /\ UNCHANGED <<state, count, registry, epoch, net, up, client, history,
                   left>>

\* A heartbeat of a client that registered refreshes it; one the registry
\* holds only as the configured target, or not at all, is unknown.
Heartbeat ==
    /\ Receive("heartbeat")
    /\ late' = FALSE
    /\ step' = [step EXCEPT !["listener"] =
                   [do |-> "count", ack |-> known = "active"]]
    /\ UNCHANGED <<state, count, lock, known, epoch, net, client, history,
                   left>>

\* Mutant: the count is read without waiting.
ReadCount_Unlocked ==
    /\ step["listener"].do = "count"
    /\ step' = [step EXCEPT !["listener"] =
                   [do |-> "answer", ack |-> @.ack, gen |-> count]]
    /\ UNCHANGED <<state, count, lock, registry, epoch, net, up, client,
                   history, left>>

\* state_generation waits for the publication in progress.
ReadCount ==
    /\ step["listener"].do = "count" /\ Free
    /\ step' = [step EXCEPT !["listener"] =
                   [do |-> "answer", ack |-> @.ack, gen |-> count]]
    /\ UNCHANGED <<state, count, lock, registry, epoch, net, up, client,
                   history, left>>

Answer ==
    /\ step["listener"].do = "answer"
    /\ Len(net) < NetSize
    /\ net' = Append(net,
                 IF step["listener"].ack
                 THEN [kind |-> "ack", epoch |-> epoch,
                       gen |-> step["listener"].gen]
                 ELSE [kind |-> "unknown"])
    /\ step' = [step EXCEPT !["listener"] = Idle]
    /\ UNCHANGED <<state, count, lock, registry, epoch, up, client, history,
                   left>>

-----------------------------------------------------------------------------
(* Studio's listener. *)

\* After a packet: the registration it calls for, then the refresh when
\* something is missing and the last one had its time.
Follow(requests) ==
    LET due == sync'.stale /\ ~asked
    IN  /\ asked' = (asked \/ due)
        /\ up' = up \cup requests \cup IF due THEN {"refresh"} ELSE {}

HandleUpdate(m) ==
    /\ m.kind = "update"
    /\ vals' = [vals EXCEPT ![m.item] = m.val]
    /\ sync' = OnUpdate(sync, m.gen)
    /\ Follow({})
    /\ UNCHANGED <<shown, ready, heard>>

HandleFlag(m) ==
    /\ m.kind = "flag"
    /\ shown' = m.val
    /\ sync' = OnUpdate(sync, m.gen)
    /\ Follow({})
    /\ UNCHANGED <<vals, ready, heard>>

\* The last part carries snapshot_complete.
HandlePart(m) ==
    /\ m.kind = "part"
    /\ vals' = [vals EXCEPT ![m.part] = m.val]
    /\ ready' = (ready \/ m.part = Parts)
    /\ sync' = OnPart(sync, m.gen, m.part)
    /\ Follow({})
    /\ UNCHANGED <<shown, heard>>

\* Another engine answers: nothing held is about its state.
HandleAck(m) ==
    LET changed == heard \notin {None, m.epoch}
    IN  /\ m.kind = "ack"
        /\ heard' = m.epoch
        /\ IF changed
           THEN /\ vals' = [i \in Item |-> 0] /\ shown' = FALSE /\ ready' = FALSE
                /\ sync' = OnAck(Fresh, m.gen)
                /\ asked' = FALSE /\ up' = up \cup {"register"}
           ELSE /\ sync' = OnAck(sync, m.gen)
                /\ Follow({})
                /\ UNCHANGED model

\* Mutant: the client waits for its own timer.
HandleUnknown_Waits(m) ==
    /\ m.kind = "unknown"
    /\ sync' = sync
    /\ Follow({})
    /\ UNCHANGED <<model, heard>>

\* The engine does not know the client: it registers at once.
HandleUnknown(m) ==
    /\ m.kind = "unknown"
    /\ sync' = sync
    /\ Follow({"register"})
    /\ UNCHANGED <<model, heard>>

HandleGoodbye(m) ==
    /\ m.kind = "goodbye"
    /\ ready' = FALSE
    /\ sync' = sync
    /\ Follow({})
    /\ UNCHANGED <<vals, shown, heard>>

Deliver ==
    /\ net # <<>>
    /\ net' = Tail(net)
    /\ LET m == Head(net)
       IN  \/ HandleUpdate(m) \/ HandleFlag(m) \/ HandlePart(m)
           \/ HandleAck(m) \/ HandleUnknown(m) \/ HandleGoodbye(m)
    /\ UNCHANGED <<state, count, lock, step, registry, epoch, history, left>>

\* Until the snapshot is complete the client keeps registering.
RegisterAgain ==
    /\ ~ready /\ "register" \notin up
    /\ up' = up \cup {"register"}
    /\ UNCHANGED <<state, count, lock, step, registry, epoch, net, client,
                   history, left>>

\* The timers are far longer than what is on its way takes to arrive or get
\* lost: everything asked before was taken, and answered for a heartbeat.
Answering ==
    \/ step["listener"] # Idle
    \/ \E k \in DOMAIN net : net[k].kind \in {"ack", "unknown"}

SendHeartbeat ==
    /\ up = {} /\ ~Answering
    /\ up' = {"heartbeat"}
    /\ UNCHANGED <<state, count, lock, step, registry, epoch, net, client,
                   history, left>>

\* REFRESH_RETRY passed: a refresh still wanted may be asked again.
RetryDue ==
    /\ asked /\ "refresh" \notin up
    /\ asked' = FALSE
    /\ UNCHANGED <<state, count, lock, step, registry, epoch, net, up, model,
                   sync, heard, history, left>>

-----------------------------------------------------------------------------
(* What goes wrong. *)

Without(s, k) == SubSeq(s, 1, k - 1) \o SubSeq(s, k + 1, Len(s))

Lose ==
    /\ Spend("faults")
    /\ \/ \E k \in DOMAIN net : net' = Without(net, k) /\ up' = up
       \/ \E request \in up : up' = up \ {request} /\ net' = net
    /\ UNCHANGED <<state, count, lock, step, registry, epoch, client, history>>

\* A datagram arrives before the one sent ahead of it.
Overtake ==
    /\ Spend("overtakes")
    /\ \E k \in 1 .. Len(net) - 1 :
          net' = [net EXCEPT ![k] = net[k + 1], ![k + 1] = net[k]]
    /\ UNCHANGED <<state, count, lock, step, registry, epoch, up, client,
                   history>>

\* Nothing was heard of the client for CLIENT_TIMEOUT.
Silence ==
    /\ known = "active" /\ ~late
    /\ Spend("faults")
    /\ late' = TRUE
    /\ UNCHANGED <<state, count, lock, step, known, epoch, net, up, client,
                   history>>

\* The engine is gone, with a goodbye or not, and another takes its port: it
\* knows the client as the configured target at most.  What it had already
\* sent still arrives; requests to it are lost.
Restart ==
    /\ Spend("restarts")
    /\ heard = epoch \/ left.early
    /\ epoch' = epoch + 1
    /\ newest' = newest + 1
    /\ truth' = [i \in Item |-> newest']
    /\ told' = truth' /\ unposted' = FALSE
    /\ moved' = FALSE /\ event' = None /\ recomputing' = FALSE
    /\ count' = 0
    /\ sending' = <<>> /\ holder' = "none"
    /\ step' = [t \in Threads |-> Idle]
    /\ known' \in {"absent", "permanent"} /\ late' = FALSE
    /\ up' = {}
    /\ \/ net' = net
       \/ /\ known # "absent" /\ Len(net) < NetSize
          /\ net' = Append(net, [kind |-> "goodbye"])
    /\ UNCHANGED client

-----------------------------------------------------------------------------
Changes ==
    Control \/ PostState \/ \E i \in Item : LiveChange(i)

Recomputes ==
    \E w \in Workers : StartRecompute(w) \/ \E i \in Item : FinishRecompute(w, i)

Publications ==
    \/ PollMoved \/ BroadcastMoved \/ PublishControl \/ PublishEvent
    \/ PublishStarted \/ \E w \in Workers : PublishBuilt(w) \/ PublishDone(w)
    \/ Send

Answers == Register \/ Refresh \/ Reply \/ Heartbeat \/ ReadCount \/ Answer

Studio == Deliver \/ RegisterAgain \/ SendHeartbeat \/ RetryDue

Faults == Lose \/ Overtake \/ Silence \/ Restart

Next == Changes \/ Recomputes \/ Publications \/ Answers \/ Studio \/ Faults

Spec == Init /\ [][Next]_vars

\* The threads keep running and so do the client's timers.  The listener polls
\* the live generation on every turn of its loop, however busy the socket.
Fairness ==
    /\ WF_vars(\E w \in Workers : PublishBuilt(w) \/ PublishDone(w)
                                  \/ \E i \in Item : FinishRecompute(w, i))
    /\ WF_vars(PublishStarted \/ PublishControl \/ BroadcastMoved \/ Answers)
    /\ SF_vars(PollMoved)
    /\ WF_vars(PublishEvent)
    /\ WF_vars(Send)
    /\ WF_vars(Deliver)
    /\ WF_vars(RegisterAgain) /\ WF_vars(SendHeartbeat) /\ WF_vars(RetryDue)

FairSpec == Spec /\ Fairness

-----------------------------------------------------------------------------
(* Properties. *)

Version == 0 .. newest
Steps ==
    {Idle} \cup [do : {"broadcast", "reply", "done", "build"}]
    \cup [do : {"update"}, val : Version] \cup [do : {"built"}, item : Item]
    \cup [do : {"flag"}, spawn : Workers] \cup [do : {"count"}, ack : BOOLEAN]
    \cup [do : {"answer"}, ack : BOOLEAN, gen : Count]
Packets ==
    [kind : {"update"}, item : Item, val : Version, gen : Count]
    \cup [kind : {"flag"}, val : BOOLEAN, gen : Count]
    \cup [kind : {"part"}, part : Part, val : Version, gen : Count]
    \cup [kind : {"ack"}, epoch : 1 .. epoch, gen : Count]
    \cup [kind : {"unknown", "goodbye"}]

\* The types, who may hold the lock, and that a part being waited for is one
\* of the snapshot held (PendingSnapshot).
TypeOK ==
    /\ truth \in [Item -> Version] /\ told \in [Item -> Version]
    /\ vals \in [Item -> Version]
    /\ event \in {None} \cup [item : Item, val : Version]
    /\ {moved, recomputing, late, shown, ready, asked, unposted} \subseteq BOOLEAN
    /\ count \in Count /\ sync \in Sync
    /\ (sync.gen = None) = (sync.seen = {})
    /\ sync.gen \in {None, sync.held} /\ sync.seen # Part
    /\ step \in [Threads -> Steps]
    /\ holder \in Threads \cup {"none"} /\ (holder = "none") = (sending = <<>>)
    /\ known \in {"absent", "permanent", "active"} /\ (late => known = "active")
    /\ heard \in {None} \cup 1 .. epoch
    /\ \A k \in DOMAIN sending : sending[k] \in [all : BOOLEAN, packet : Packets]
    /\ \A k \in DOMAIN net : net[k] \in Packets
    /\ up \subseteq {"register", "heartbeat", "refresh"}
    /\ left \in Budget

\* The client takes what it holds for the state of this engine.
InSync == heard = epoch /\ ready /\ Current(sync, count)

\* No change of state waits to be published or sent.
EngineQuiet ==
    ~moved /\ event = None /\ Free /\ \A t \in Threads : step[t] = Idle

\* STATE_GENERATION: a client whose count is the engine's, with every part in
\* and nothing missed, holds at least what was last published of every item,
\* whatever was lost, overtaken, timed out or restarted on the way.  (Parts of two
\* engines complete each other when the second comes before the first's first
\* ack is heard, or when a part of the first is overtaken by the second's ack
\* and the part that would replace it is lost.)
CurrentIsAsPublished == ~left.early /\ InSync => \A i \in Item : vals[i] >= told[i]

\* And once the engine has nothing left to publish, it holds the engine's
\* state: no thread changed state without a publication that covers it, but for
\* the loudness when the client was not live.
CurrentWhenQuiet ==
    ~left.early /\ InSync /\ EngineQuiet /\ ~unposted => vals = truth

\* state_generation: an acknowledgement never reports a count whose state is
\* still on its way.
AckAfterState ==
    step["listener"].do = "answer" =>
        \A k \in DOMAIN sending :
            sending[k].packet.gen # step["listener"].gen

\* OscClientRegistry::publication: the three threads that publish never send an
\* older state of an item under a later count.
NeverOlder ==
    [][epoch' = epoch => \A i \in Item : told'[i] >= told[i]]_vars

\* Once changes and faults end the client is registered with the engine that
\* runs and stays on its state.
CatchesUp ==
    ~left.early /\ []~unposted => <>[](InSync /\ vals = truth /\ known = "active")

\* state_sync.rs:8-12: a client that is current shows what was published last,
\* of the recompute flag as well.
ShownWhenQuiet == InSync /\ EngineQuiet => shown = recomputing

=============================================================================
