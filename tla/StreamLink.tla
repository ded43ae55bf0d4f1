----------------------------- MODULE StreamLink -----------------------------
(* The stream transport between an engine and a Studio on the same machine:  *)
(* the engine's listener thread with the threads that feed it                *)
(* (orender_engine/src/osc/inbound.rs), the queue and writer of each          *)
(* connection (osc/peer.rs), and Studio's link, which opens a stream, falls  *)
(* back to datagrams and tries again (core/src/osc/link.rs, mod.rs).         *)
(*                                                                         *)
(* The state is one version number.  A datagram session is reduced to what    *)
(* StatePublication shows of it: now and then Studio is brought up to date.   *)
EXTENDS StateSync, Sequences, SequencesExt

CONSTANTS
    Conns,        \* connections
    Other,        \* a service that is no engine
    OutboxSize,   \* packets in a connection's queue (STREAM_QUEUE_MAX_BYTES)
    PipeSize,     \* packets written and not taken: the sockets' buffers and
                  \* Studio's RECEIVE_BUDGET
    InboxSize,    \* INBOUND_QUEUE
    Budgets       \* bounds: how much of each kind a behaviour may hold

Budget == [changes : Nat,     \* of state, by another thread than the listener
           controls : Nat,    \* sent by the client
           syncs : Nat,
           telemetry : Nat,
           faults : Nat,      \* time-outs of an engine that is only slow
           stops : Nat,       \* engines leaving the port
           other : BOOLEAN]   \* another service has the stream port

ASSUME SizesAssumption ==
    /\ {OutboxSize, PipeSize, InboxSize} \subseteq Nat \ {0}
    /\ None \notin Conns /\ None # Other /\ {None, Other} \cap Nat = {}
ASSUME BudgetsAssumption == Budgets \subseteq Budget

VARIABLES
    truth, told,  \* the engine's state, and as last published
    moved,        \* live_state_generation moved since the listener looked
    count,        \* StateGeneration
    epoch,        \* instance_epoch
    mode,         \* what the engine does with the port
    streamPort,   \* who listens for streams: an epoch, None or Other
    receiving,    \* the engine's datagram thread runs
    step,         \* what the listener thread does next
    inbox,        \* the channel to it
    registry,     \* the stream clients
    conn,         \* each connection, both ends
    link,         \* Studio's: a connection, or None for datagrams
    confirmed, backoff,
    vals, sync, ready, heard, asked,   \* as in StatePublication
    sent, refused,                     \* how many controls were sent on the
                                       \* link, and which it knows refused
    left          \* what is left of the budget

state == <<truth, told, moved, count, epoch>>
port == <<mode, streamPort, receiving>>
model == <<vals, sync, ready, heard, asked>>
tally == <<sent, refused>>
studio == <<link, confirmed, backoff, model, tally>>
vars == <<state, port, step, inbox, registry, conn, studio, left>>

\* `accepted' when the engine's acceptor took it, and by which engine; `up' and
\* `outbox', `pipe' are the two ways; `closed' and `fin' that the engine's or
\* Studio's end shut it down; `said' tells what each control came to, the
\* version it made or 0 for a refusal; `served' that a snapshot was sent.
Unused == [epoch |-> None, accepted |-> FALSE, reading |-> FALSE,
           up |-> <<>>, outbox |-> <<>>, pipe |-> <<>>,
           closed |-> FALSE, fin |-> FALSE, said |-> <<>>, served |-> FALSE]

Init ==
    /\ truth = 1 /\ told = 1 /\ moved = FALSE
    /\ count = 0 /\ epoch = 1
    /\ mode = "gone" /\ receiving = FALSE
    /\ step = [do |-> "left"] /\ inbox = <<>>
    /\ registry = {} /\ conn = [c \in Conns |-> Unused]
    /\ link = None /\ confirmed = FALSE /\ backoff = FALSE
    /\ vals = 0 /\ sync = Fresh /\ ready = FALSE
    /\ heard = None /\ asked = FALSE
    /\ sent = 0 /\ refused = {}
    /\ left \in Budgets
    /\ streamPort = IF left.other THEN Other ELSE None

Spend(what) == left[what] > 0 /\ left' = [left EXCEPT ![what] = @ - 1]

-----------------------------------------------------------------------------
(* A connection's queue (Peer::send_with, StreamPeer). *)

\* Nothing more is queued, and the writer drops what was.
Shut(r) == [r EXCEPT !.closed = TRUE, !.outbox = <<>>]

\* Mutant: state is dropped for a full queue, as telemetry is.
Push_Drops(r, p) ==
    IF r.closed \/ Len(r.outbox) = OutboxSize THEN r
    ELSE [r EXCEPT !.outbox = Append(@, p)]

\* Mutant: the queue has no limit.
Push_Unbounded(r, p) ==
    IF r.closed THEN r ELSE [r EXCEPT !.outbox = Append(@, p)]

\* Telemetry is dropped for a full queue; state never is: the client is
\* disconnected instead.
Push(r, p) ==
    IF r.closed THEN r
    ELSE IF Len(r.outbox) < OutboxSize THEN [r EXCEPT !.outbox = Append(@, p)]
    ELSE IF p.kind = "telemetry" THEN r
    ELSE Shut(r)

\* send_filtered: whose connection ended is forgotten first.
Alive == {c \in registry : ~conn[c].closed}
Broadcast(p) ==
    /\ registry' = Alive
    /\ conn' = [c \in Conns |-> IF c \in Alive THEN Push(conn[c], p) ELSE conn[c]]

\* The writer thread; a write to a connection Studio closed fails.
Write(c) ==
    /\ conn[c].outbox # <<>>
    /\ IF conn[c].fin
       THEN conn' = [conn EXCEPT ![c] = Shut(@)]
       ELSE /\ Len(conn[c].pipe) < PipeSize
            /\ conn' = [conn EXCEPT ![c].outbox = Tail(@),
                                    ![c].pipe = Append(@, Head(conn[c].outbox))]
    /\ UNCHANGED <<state, port, step, inbox, registry, studio, left>>

\* The connection goes down with unread packets in it: they may be lost.
Reset(c) ==
    /\ conn[c].closed /\ conn[c].pipe # <<>>
    /\ conn' = [conn EXCEPT ![c].pipe = <<>>]
    /\ UNCHANGED <<state, port, step, inbox, registry, studio, left>>

-----------------------------------------------------------------------------
(* The threads that feed the listener. *)

\* A connection's own threads start.
Accept(c) ==
    /\ mode = "serving" /\ streamPort = epoch
    /\ conn[c].epoch = epoch /\ ~conn[c].accepted /\ ~conn[c].closed
    /\ conn' = [conn EXCEPT ![c].accepted = TRUE, ![c].reading = TRUE]
    /\ UNCHANGED <<state, port, step, inbox, registry, studio, left>>

\* A reader waits while the channel is full.
Read(c) ==
    /\ conn[c].reading /\ conn[c].up # <<>> /\ conn[c].epoch = epoch
    /\ step.do # "left" /\ Len(inbox) < InboxSize
    /\ conn' = [conn EXCEPT ![c].up = Tail(@)]
    /\ inbox' = Append(inbox, [from |-> c, what |-> Head(conn[c].up)])
    /\ UNCHANGED <<state, port, step, registry, studio, left>>

\* The connection ended, or the listener: the client is forgotten.
ReadEnds(c) ==
    /\ conn[c].reading
    /\ \/ conn[c].closed
       \/ conn[c].fin /\ conn[c].up = <<>>
       \/ mode = "gone" \/ conn[c].epoch # epoch
    /\ conn' = [conn EXCEPT ![c] = [Shut(@) EXCEPT !.reading = FALSE]]
    /\ registry' = registry \ {c}
    /\ UNCHANGED <<state, port, step, inbox, studio, left>>

\* The acceptor ends with the listener: the connections go with the port, the
\* ones it had not accepted too.
AcceptorEnds ==
    /\ streamPort \notin {None, Other}
    /\ mode = "stopping" \/ streamPort # epoch
    /\ streamPort' = None
    /\ conn' = [c \in Conns |-> IF conn[c].epoch = streamPort
                                THEN Shut(conn[c]) ELSE conn[c]]
    /\ UNCHANGED <<state, mode, receiving, step, inbox, registry, studio, left>>

ReceiverEnds ==
    /\ mode = "stopping" /\ receiving
    /\ receiving' = FALSE
    /\ UNCHANGED <<state, mode, streamPort, step, inbox, registry, conn, studio,
                   left>>

\* A connection both ends are done with.
Forget(c) ==
    /\ conn[c].epoch # None /\ conn[c].closed /\ ~conn[c].reading
    /\ link # c /\ c \notin registry
    /\ \A k \in DOMAIN inbox : inbox[k].from # c
    /\ step.do \in {"reply", "answer"} => step.to # c
    /\ conn' = [conn EXCEPT ![c] = Unused]
    /\ UNCHANGED <<state, port, step, inbox, registry, studio, left>>

-----------------------------------------------------------------------------
(* The engine comes and goes. *)

\* A standby, or an exit with a goodbye.
Stop ==
    /\ mode = "serving" /\ Spend("stops")
    /\ mode' = "stopping"
    /\ \/ Broadcast([kind |-> "goodbye"])
       \/ UNCHANGED <<registry, conn>>
    /\ UNCHANGED <<state, streamPort, receiving, step, inbox, studio>>

\* Mutant: the datagram port is released with its receiver.
Joined_Receiver == ~receiving

\* Feeds::join waits for the acceptor, then for the receiver.
Joined == streamPort # epoch /\ ~receiving

\* The listener thread leaves its loop and releases the datagram port.
Leave ==
    /\ mode = "stopping" /\ step.do = "poll" /\ Joined
    /\ mode' = "gone"
    /\ step' = [do |-> "left"] /\ inbox' = <<>>
    /\ UNCHANGED <<state, streamPort, receiving, registry, conn, studio, left>>

\* The next engine waits for the datagram port ...
Bind ==
    /\ mode = "gone"
    /\ mode' = "binding"
    /\ epoch' = epoch + 1
    /\ truth' = truth + 1 /\ told' = truth' /\ moved' = FALSE /\ count' = 0
    /\ registry' = {}
    /\ UNCHANGED <<streamPort, receiving, step, inbox, conn, studio, left>>

\* ... and tries the stream port once.
BindStream ==
    /\ mode = "binding"
    /\ streamPort' = IF streamPort = None THEN epoch ELSE streamPort
    /\ mode' = "serving" /\ receiving' = TRUE
    /\ step' = [do |-> "poll"]
    /\ UNCHANGED <<state, inbox, registry, conn, studio, left>>

-----------------------------------------------------------------------------
(* The listener thread, one packet a turn, and the other publishers. *)

Advanced == Following(count)
Update(v) == [kind |-> "update", val |-> v, gen |-> Advanced]
Announce(v) ==
    /\ count' = Advanced /\ told' = v
    /\ Broadcast(Update(v))

\* The audio thread changes state and moves the live generation.
LiveChange ==
    /\ mode \in {"serving", "stopping"} /\ Spend("changes")
    /\ truth' = truth + 1 /\ moved' = TRUE
    /\ UNCHANGED <<told, count, epoch, port, step, inbox, registry, conn, studio>>

\* The telemetry thread publishes what the render path changed.
PublishEvent ==
    /\ mode \in {"serving", "stopping"} /\ Spend("changes")
    /\ truth' = truth + 1
    /\ Announce(truth')
    /\ UNCHANGED <<moved, epoch, port, step, inbox, studio>>

Telemetry ==
    /\ mode \in {"serving", "stopping"} /\ Spend("telemetry")
    /\ Broadcast([kind |-> "telemetry"])
    /\ UNCHANGED <<state, port, step, inbox, studio>>

\* Mutant: the state that moved is looked at only when no packet came.
Poll_WhenIdle ==
    /\ step.do = "poll" /\ mode = "serving"
    /\ step' = [do |-> "receive"]
    /\ IF moved /\ inbox = <<>>
       THEN Announce(truth) /\ moved' = FALSE
       ELSE UNCHANGED <<told, moved, count, registry, conn>>
    /\ UNCHANGED <<truth, epoch, port, inbox, studio, left>>

\* Each turn starts with what other threads changed.
Poll ==
    /\ step.do = "poll" /\ mode = "serving"
    /\ step' = [do |-> "receive"]
    /\ IF moved
       THEN Announce(truth) /\ moved' = FALSE
       ELSE UNCHANGED <<told, moved, count, registry, conn>>
    /\ UNCHANGED <<truth, epoch, port, inbox, studio, left>>

Timeout ==
    /\ step.do = "receive" /\ inbox = <<>>
    /\ moved \/ mode = "stopping"
    /\ step' = [do |-> "poll"]
    /\ UNCHANGED <<state, port, inbox, registry, conn, studio, left>>

From == Head(inbox).from
Receive(kind) ==
    /\ step.do = "receive" /\ inbox # <<>>
    /\ Head(inbox).what.kind = kind
    /\ inbox' = Tail(inbox)
Then(next) == step' = next

\* To one client.
Answer(c, p) == conn' = [conn EXCEPT ![c] = Push(@, p)]

Register ==
    /\ Receive("register") /\ Then([do |-> "reply", to |-> From])
    /\ registry' = registry \cup {From}
    /\ UNCHANGED <<state, port, conn, studio, left>>

Refresh ==
    /\ Receive("refresh") /\ Then([do |-> "reply", to |-> From])
    /\ UNCHANGED <<state, port, registry, conn, studio, left>>

\* send_live_state_to: the whole snapshot in one packet.
Reply ==
    /\ step.do = "reply" /\ Then([do |-> "poll"])
    /\ LET sentTo == Push(conn[step.to],
                          [kind |-> "part", val |-> truth, gen |-> count])
       IN  conn' = [conn EXCEPT ![step.to] =
                       [sentTo EXCEPT !.served = ~sentTo.closed]]
    /\ UNCHANGED <<state, port, inbox, registry, studio, left>>

\* A heartbeat: the count is read, the answer queued later.
Heartbeat ==
    /\ Receive("heartbeat")
    /\ Then([do |-> "answer", to |-> From,
             answer |-> IF From \in registry
                        THEN [kind |-> "ack", epoch |-> epoch, gen |-> count]
                        ELSE [kind |-> "unknown"]])
    /\ UNCHANGED <<state, port, registry, conn, studio, left>>

SendAnswer ==
    /\ step.do = "answer" /\ Then([do |-> "poll"])
    /\ Answer(step.to, step.answer)
    /\ UNCHANGED <<state, port, inbox, registry, studio, left>>

Said(c, v) == conn' = [conn EXCEPT ![c].said = Append(@, v)]

\* A control is applied, and published as its handler ends ...
ControlPublished ==
    /\ Receive("control") /\ Then([do |-> "publish"])
    /\ truth' = truth + 1
    /\ Said(From, truth')
    /\ UNCHANGED <<told, moved, count, epoch, port, registry, studio, left>>

PublishControl ==
    /\ step.do = "publish" /\ Then([do |-> "poll"])
    /\ Announce(truth)
    /\ UNCHANGED <<truth, moved, epoch, port, inbox, studio, left>>

\* ... or left for the next turn to publish (bump_live_state) ...
ControlBumped ==
    /\ Receive("control") /\ Then([do |-> "poll"])
    /\ truth' = truth + 1 /\ moved' = TRUE
    /\ Said(From, truth')
    /\ UNCHANGED <<told, count, epoch, port, registry, studio, left>>

\* ... or refused: the error names it by its address.
ControlRefused ==
    /\ Receive("control") /\ Then([do |-> "poll"])
    /\ LET error == [kind |-> "error", of |-> Head(inbox).what.number]
           answered == Push(conn[From], error)
       IN  conn' = [conn EXCEPT ![From] = [answered EXCEPT !.said = Append(@, 0)]]
    /\ UNCHANGED <<state, port, registry, studio, left>>

\* The barrier.
Synchronise ==
    /\ Receive("sync") /\ Then([do |-> "poll"])
    /\ Answer(From, [kind |-> "synced", sent |-> Head(inbox).what.sent])
    /\ UNCHANGED <<state, port, registry, studio, left>>

-----------------------------------------------------------------------------
(* Studio's listener. *)

\* A request written to the stream; one already on its way is not doubled.
Sent(r, request) ==
    IF r.closed \/ Contains(r.up, request) THEN r
    ELSE [r EXCEPT !.up = Append(@, request)]
SentIf(due, r, request) == IF due THEN Sent(r, request) ELSE r

AskRegister == [kind |-> "register"]
AskHeartbeat == [kind |-> "heartbeat"]
AskRefresh == [kind |-> "refresh"]

\* register_with opens a stream first when it may, and a heartbeat follows the
\* registration at once.
Open(c) ==
    /\ link = None /\ ~backoff /\ streamPort # None
    /\ conn[c] = Unused
    /\ link' = c /\ confirmed' = FALSE
    /\ sent' = 0 /\ refused' = {}
    /\ conn' = [conn EXCEPT ![c].epoch = streamPort,
                            ![c].up = <<AskRegister, AskHeartbeat>>]
    /\ UNCHANGED <<state, port, step, inbox, registry, backoff, model, left>>

BackoffEnds ==
    /\ backoff /\ backoff' = FALSE
    /\ UNCHANGED <<state, port, step, inbox, registry, conn, link, confirmed,
                   model, tally, left>>

\* On datagrams the session brings Studio up to date now and then.
Datagrams ==
    /\ link = None /\ mode = "serving"
    /\ vals' = told /\ sync' = OnPart(Fresh, count, 1)
    /\ ready' = TRUE /\ heard' = epoch /\ asked' = FALSE
    /\ UNCHANGED <<state, port, step, inbox, registry, conn, link, confirmed,
                   backoff, tally, left>>

\* After a packet: the registration it calls for, then the refresh when
\* something is missing and the last one had its time.
Follow(registers) ==
    LET due == sync'.stale /\ ~asked
        taken == [conn[link] EXCEPT !.pipe = Tail(@)]
    IN  /\ asked' = (asked \/ due)
        /\ conn' = [conn EXCEPT ![link] =
               SentIf(due, SentIf(registers, taken, AskRegister), AskRefresh)]

HandleUpdate(p) ==
    /\ p.kind = "update"
    /\ vals' = p.val /\ sync' = OnUpdate(sync, p.gen)
    /\ Follow(FALSE)
    /\ UNCHANGED <<ready, heard, refused>>

HandleSnapshot(p) ==
    /\ p.kind = "part"
    /\ vals' = p.val /\ sync' = OnPart(sync, p.gen, 1)
    /\ ready' = TRUE
    /\ Follow(FALSE)
    /\ UNCHANGED <<heard, refused>>

HandleAck(p) ==
    /\ p.kind = "ack"
    /\ heard' = p.epoch
    /\ IF heard \notin {None, p.epoch}
       THEN /\ vals' = 0 /\ ready' = FALSE
            /\ sync' = OnAck(Fresh, p.gen)
            /\ Follow(TRUE)
       ELSE /\ sync' = OnAck(sync, p.gen)
            /\ Follow(FALSE)
            /\ UNCHANGED <<vals, ready>>
    /\ UNCHANGED refused

HandleUnknown(p) ==
    /\ p.kind = "unknown"
    /\ sync' = sync
    /\ Follow(TRUE)
    /\ UNCHANGED <<vals, ready, heard, refused>>

HandleGoodbye(p) ==
    /\ p.kind = "goodbye"
    /\ ready' = FALSE /\ sync' = sync
    /\ Follow(FALSE)
    /\ UNCHANGED <<vals, heard, refused>>

\* Meters, refusals, the answer to a barrier.
HandleOther(p) ==
    /\ p.kind \in {"telemetry", "error", "synced"}
    /\ refused' = refused \cup IF p.kind = "error" THEN {p.of} ELSE {}
    /\ sync' = sync
    /\ Follow(FALSE)
    /\ UNCHANGED <<vals, ready, heard>>

\* Any packet that decodes tells that an engine is there.
Take ==
    /\ link # None
    /\ conn[link].pipe # <<>>
    /\ confirmed' = TRUE
    /\ LET p == Head(conn[link].pipe)
       IN  \/ HandleUpdate(p) \/ HandleSnapshot(p) \/ HandleAck(p)
           \/ HandleUnknown(p) \/ HandleGoodbye(p) \/ HandleOther(p)
    /\ UNCHANGED <<state, port, step, inbox, registry, link, backoff, sent, left>>

\* Dropping the link shuts the connection down, whatever is still in it.
Drop ==
    /\ link' = None /\ confirmed' = FALSE
    /\ conn' = [conn EXCEPT ![link].fin = TRUE, ![link].pipe = <<>>,
                            ![link].closed = @ \/ ~conn[link].accepted]
    /\ UNCHANGED <<state, port, step, inbox, registry, model, tally>>

\* Mutant: the end of the stream is not reported.
StreamClosed_Silent == FALSE /\ UNCHANGED vars

\* The end of the stream: back to datagrams for a while.
StreamClosed ==
    /\ link # None
    /\ conn[link].closed /\ conn[link].pipe = <<>>
    /\ backoff' = TRUE /\ Drop
    /\ UNCHANGED left

\* No OSC for CONFIRM_TIMEOUT: not an engine, or a slow one.
NotAnEngine ==
    /\ link # None /\ ~confirmed
    /\ \/ conn[link].epoch = Other /\ UNCHANGED left
       \/ conn[link].epoch # Other /\ Spend("faults")
    /\ backoff' = TRUE /\ Drop

\* No acknowledgement for HEARTBEAT_TIMEOUT: a stream that stopped answering
\* is dropped, and may be opened again at once.
AckTimeout ==
    /\ link # None /\ confirmed /\ Spend("faults")
    /\ UNCHANGED backoff /\ Drop

\* The timers of the loop are far longer than a request takes to be answered.
Still ==
    /\ ~conn[link].closed /\ conn[link].up = <<>>
    /\ conn[link].pipe = <<>> /\ conn[link].outbox = <<>>
    /\ inbox = <<>> /\ step.do \in {"poll", "receive"}

SendHeartbeat ==
    /\ link # None /\ confirmed /\ Still
    /\ conn' = [conn EXCEPT ![link] = Sent(@, AskHeartbeat)]
    /\ UNCHANGED <<state, port, step, inbox, registry, studio, left>>

RegisterAgain ==
    /\ link # None /\ ~ready /\ Still
    /\ conn' = [conn EXCEPT ![link] = Sent(Sent(@, AskRegister), AskHeartbeat)]
    /\ UNCHANGED <<state, port, step, inbox, registry, studio, left>>

RetryDue ==
    /\ asked /\ asked' = FALSE
    /\ link # None => ~Contains(conn[link].up, AskRefresh)
    /\ UNCHANGED <<state, port, step, inbox, registry, conn, link, confirmed,
                   backoff, vals, sync, ready, heard, tally, left>>

\* What the user does, and a client that waits for it to be dispatched.
SendControl ==
    /\ link # None /\ Spend("controls") /\ ~conn[link].closed
    /\ conn' = [conn EXCEPT ![link].up =
                   Append(@, [kind |-> "control", number |-> sent + 1])]
    /\ sent' = sent + 1
    /\ UNCHANGED <<state, port, step, inbox, registry, link, confirmed, backoff,
                   model, refused>>

SendSync ==
    /\ link # None /\ Spend("syncs") /\ ~conn[link].closed
    /\ conn' = [conn EXCEPT ![link].up =
                   Append(@, [kind |-> "sync", sent |-> sent])]
    /\ UNCHANGED <<state, port, step, inbox, registry, studio>>

-----------------------------------------------------------------------------
Streams ==
    \/ \E c \in Conns : Accept(c) \/ Read(c) \/ ReadEnds(c) \/ Write(c)
                         \/ Reset(c) \/ Forget(c)
    \/ AcceptorEnds \/ ReceiverEnds

Listener ==
    \/ Poll \/ Timeout \/ Register \/ Refresh \/ Reply \/ Heartbeat \/ SendAnswer
    \/ ControlPublished \/ PublishControl \/ ControlBumped \/ ControlRefused
    \/ Synchronise

Engines == Stop \/ Leave \/ Bind \/ BindStream

Publishers == LiveChange \/ PublishEvent \/ Telemetry

Studio ==
    \/ \E c \in Conns : Open(c)
    \/ BackoffEnds \/ Datagrams \/ Take \/ StreamClosed \/ NotAnEngine
    \/ AckTimeout \/ SendHeartbeat \/ RegisterAgain \/ RetryDue
    \/ SendControl \/ SendSync

Next == Streams \/ Listener \/ Engines \/ Publishers \/ Studio

Spec == Init /\ [][Next]_vars

\* Every thread keeps running, the next engine comes, and so do the timers.
Fairness ==
    /\ \A c \in Conns :
          /\ WF_vars(Accept(c)) /\ WF_vars(Read(c)) /\ WF_vars(ReadEnds(c))
          /\ WF_vars(Write(c)) /\ WF_vars(Forget(c))
    /\ WF_vars(AcceptorEnds) /\ WF_vars(ReceiverEnds)
    /\ WF_vars(Listener) /\ WF_vars(Leave \/ Bind \/ BindStream)
    /\ WF_vars(\E c \in Conns : Open(c)) /\ WF_vars(BackoffEnds)
    /\ WF_vars(Take) /\ WF_vars(StreamClosed)
    /\ WF_vars(NotAnEngine /\ left' = left)
    /\ WF_vars(SendHeartbeat) /\ WF_vars(RegisterAgain) /\ WF_vars(RetryDue)

FairSpec == Spec /\ Fairness

-----------------------------------------------------------------------------
(* Properties. *)

Packets ==
    [kind : {"update", "part"}, val : Nat, gen : Count]
    \cup [kind : {"ack"}, epoch : Nat, gen : Count]
    \cup [kind : {"synced"}, sent : Nat] \cup [kind : {"error"}, of : Nat]
    \cup [kind : {"unknown", "goodbye", "telemetry"}]
Requests ==
    [kind : {"register", "heartbeat", "refresh"}]
    \cup [kind : {"control"}, number : Nat] \cup [kind : {"sync"}, sent : Nat]

\* The types, the bounds of the three queues, and that only an accepted
\* connection is registered, read or written to.
TypeOK ==
    /\ told \in 0 .. truth /\ vals \in 0 .. truth
    /\ {moved, receiving, confirmed, backoff, ready, asked} \subseteq BOOLEAN
    /\ count \in Count /\ sync \in Sync
    /\ mode \in {"binding", "serving", "stopping", "gone"}
    /\ streamPort \in {None, Other} \cup 1 .. epoch
    /\ registry \subseteq Conns /\ link \in Conns \cup {None}
    /\ Len(inbox) <= InboxSize
    /\ \A k \in DOMAIN inbox : inbox[k].from \in Conns /\ inbox[k].what \in Requests
    /\ \A c \in Conns :
          /\ conn[c].up \in Seq(Requests)
          /\ conn[c].outbox \in Seq(Packets) /\ Len(conn[c].outbox) <= OutboxSize
          /\ conn[c].pipe \in Seq(Packets) /\ Len(conn[c].pipe) <= PipeSize
          /\ conn[c].reading \/ c \in registry => conn[c].accepted
          /\ conn[c].closed => conn[c].outbox = <<>>

\* What is on its way to Studio, and the last of it that tells the state.
Coming(r) == r.pipe \o r.outbox
TellsState(p) == p.kind \in {"update", "part"}
LastState(s) ==
    {k \in DOMAIN s : /\ TellsState(s[k])
                      /\ \A j \in DOMAIN s : j > k => ~TellsState(s[j])}

\* peer.rs:14-16: as long as a connection that was sent a snapshot is open, the
\* last state on its way, or else the state Studio holds, is the last
\* published: telemetry may be dropped, state never is.
StreamWhole ==
    \A c \in registry :
        LET coming == Coming(conn[c])
        IN  conn[c].served /\ ~conn[c].closed /\ ~conn[c].fin =>
                /\ \A k \in LastState(coming) :
                      coming[k].val >= told /\ coming[k].gen = count
                /\ LastState(coming) = {} /\ link = c /\ ready =>
                      vals >= told /\ sync.held = count

\* osc_contract::SYNC: when its answer reaches the client, every control it sent
\* before on the connection was handled, the state it changed has arrived, or its
\* refusal has.
Settled(c, n) ==
    /\ Len(conn[c].said) >= n
    /\ \A k \in 1 .. n :
          IF conn[c].said[k] = 0 THEN k \in refused ELSE conn[c].said[k] <= vals
SyncBarrier ==
    link # None /\ conn[link].pipe # <<>> /\ Head(conn[link].pipe).kind = "synced"
        => Settled(link, Head(conn[link].pipe).sent)

\* The stream comes back: once engines stop coming and going, Studio ends on a
\* stream to the one that runs, with its state; and when another service has the
\* port, Studio keeps coming back to datagrams.
OnTheStream ==
    /\ link # None /\ confirmed /\ link \in registry
    /\ heard = epoch /\ ready /\ Current(sync, count) /\ vals = truth
StreamRegained ==
    IF left.other THEN []<>(link = None) ELSE <>[]OnTheStream

=============================================================================
