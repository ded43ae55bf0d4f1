------------------------------ MODULE HostLoop ------------------------------
(***************************************************************************)
(* The host of the command line (src/cli/sync_host/mod.rs): the runs of    *)
(* `orender render' (cmd_render), each a new engine over a capture that    *)
(* outlives it, and the loop of a run, which answers the requests flagged  *)
(* in sys/shutdown.rs, an Apply of the input, a change of the settings and *)
(* the device coming back, and feeds what the capture delivers to epochs.  *)
(*                                                                         *)
(* A turn of the loop is three steps, at "flags", "settings" and "take";   *)
(* opening an input is one more, or two.  Clients, the operating system,   *)
(* the device, the capture and the clock act between any two.  The capture *)
(* is what PipeCapture and the own sink promise: streams in order, each a  *)
(* Start, chunks and an End.  The output is the device.  What a timer      *)
(* decides may be decided on any turn, but for the poll of the devices,    *)
(* which is due when the clock says.                                       *)
(***************************************************************************)
EXTENDS Integers, Sequences, FiniteSets

CONSTANTS
    None,
    Service,        \* the process is a Windows service
    QueueSize,      \* bound: messages a capture has waiting
    MaxStreams,     \* bound: streams all captures deliver
    MaxEvents       \* bound: what clients, the system and the device do, all counted

ASSUME ServiceAssumption == Service \in BOOLEAN
ASSUME BoundsAssumption ==
    QueueSize \in Nat /\ MaxStreams \in Nat /\ MaxEvents \in Nat

VARIABLES
    at,         \* where the host's thread is
    bridged,    \* the run has a decoder bridge: it is `run'
    asked,      \* the flags of sys/shutdown.rs
    continuous, \* HostConfig::continuous
    source,     \* the source the run takes its input for
    session,    \* HostSession::capture: None, or what runs
    queue,      \* what the capture has waiting for the host
    captureGone, streamEnded,   \* the loop's own
    epoch,      \* the epoch playing, or None
    watch,      \* output_watch, or None
    settings,   \* the OutputSettings in force
    target,     \* the input being opened: a local
    input,      \* InputControl: staged by clients, and shown to them
    wanted,     \* the OutputSettings asked for
    device,     \* whether the output device is there
    armed,      \* whether a test is armed
    streams,    \* history: streams delivered
    events      \* history: what clients, the system and the device did

run == <<bridged, continuous>>
loop == <<source, captureGone, streamEnded, settings, target>>
host == <<at, loop, watch>>
capture == <<session, queue, streams>>
world == <<wanted, device, armed, events>>
vars == <<at, asked, bridged, continuous, source, session, queue, captureGone,
          streamEnded, epoch, watch, settings, target, input, wanted, device, armed,
          streams, events>>

Sources == {"pipe", "file", "sink"}
\* The OutputSettings of the launch, another source clock ("none"), another of the rest.
AllSettings == {"launch", "none", "other"}
LoopSteps == {"flags", "opening", "reopen", "settings", "take"}
Places == LoopSteps \cup {"gap", "built", "standby", "resuming", "leaving", "ended"}
InLoop == at \in LoopSteps

Goto(step) == at' = step
Counted == events < MaxEvents /\ events' = events + 1

\* Source::device_paced: a file always, a pipe when it is said to have no clock.
DevicePaced(s, given) == s = "file" \/ (s = "pipe" /\ given = "none")

\* Source::same_playback
SamePlayback(s, a, b) ==
    DevicePaced(s, a) = DevicePaced(s, b) /\ ("other" \in {a, b} => a = b)

Kinds == {"Start", "Chunk", "End"}
Msg(kind, stream) == [kind |-> kind, stream |-> stream]

\* Epoch.  `heard' is the streams whose chunks it was fed; `output' is the device's
\* stream: "starting", "streaming", "dead", or "failed" to open.
Epochs ==
    [kind : {"Stream", "Idle"}, heard : SUBSET (1 .. MaxStreams),
     output : {"closed", "starting", "streaming", "dead", "failed"}, paced : BOOLEAN,
     told : {"Pending", "Playing", "Missing"}, pending : BOOLEAN,
     finishing : BOOLEAN, ending : {"no", "set"}]

\* Epoch::new
Opened(kind) ==
    [kind |-> kind, heard |-> {}, output |-> "closed", paced |-> FALSE,
     told |-> "Pending", pending |-> FALSE, finishing |-> FALSE, ending |-> "no"]

HasDevice(ep) == ep.output \in {"starting", "streaming", "dead"}

\* Epoch::output_lost
Lost(ep) == ep.output = "failed" \/ ep.told = "Missing"

\* Watch, whose poll is due or not, and which has seen the device missing or not.
Watches == [due : BOOLEAN, seen : BOOLEAN]

\* RunningCapture: its input, the streams delivered before it, the one it is in the
\* middle of (or 0), and whether its reader is done.
Sessions ==
    [key : Sources, first : 0 .. MaxStreams, in : 0 .. MaxStreams, over : BOOLEAN]

ASSUME NoneAssumption == None \notin Sessions

Capture(key) == [key |-> key, first |-> streams, in |-> 0, over |-> FALSE]

Init ==
    /\ at = "gap"
    /\ asked = [stop |-> FALSE, restart |-> FALSE, standby |-> FALSE, resume |-> FALSE]
    /\ continuous \in BOOLEAN
    /\ source = "pipe" /\ session = None /\ queue = <<>>
    /\ captureGone = FALSE /\ streamEnded = FALSE
    /\ epoch = None /\ watch = None
    /\ settings = "launch" /\ wanted = settings
    /\ target = "pipe" /\ bridged = TRUE
    /\ input = [staged |-> "pipe", apply |-> FALSE, running |-> "pipe", failed |-> FALSE]
    /\ device = TRUE /\ armed = FALSE
    /\ streams = 0
    /\ events = 0

-----------------------------------------------------------------------------
(* Clients and the operating system. *)

Listening == InLoop \/ at \in {"built", "leaving"}

\* Mutant of Stop: a signal between two runs is flagged too.
Stop_Flagged ==
    /\ at # "ended" /\ Counted
    /\ asked' = [asked EXCEPT !.stop = TRUE]
    /\ UNCHANGED <<host, run, capture, epoch, input, wanted, device, armed>>

\* A signal, a service's Stop, or a quit: the flag is raised.  Between two runs no
\* handler of the host's is installed and a signal ends the process; the service's
\* own handler stays.
Stop ==
    /\ at # "ended" /\ Counted
    /\ IF at = "gap" /\ ~Service
       THEN Goto("ended") /\ UNCHANGED asked
       ELSE asked' = [asked EXCEPT !.stop = TRUE] /\ UNCHANGED at
    /\ UNCHANGED <<run, loop, watch, capture, epoch, input, wanted, device, armed>>

\* A reload of the config is asked for, while the server listens.
AskRestart ==
    /\ Listening /\ ~asked.restart /\ Counted
    /\ asked' = [asked EXCEPT !.restart = TRUE]
    /\ UNCHANGED <<host, run, capture, epoch, input, wanted, device, armed>>

\* Another instance asks for the port.
AskStandby ==
    /\ Listening /\ ~asked.standby /\ Counted
    /\ asked' = [asked EXCEPT !.standby = TRUE]
    /\ UNCHANGED <<host, run, capture, epoch, input, wanted, device, armed>>

\* The port is handed back, or found free by the probe.
Resume ==
    /\ at = "standby" /\ ~asked.resume
    /\ asked' = [asked EXCEPT !.resume = TRUE]
    /\ UNCHANGED <<host, run, capture, epoch, input, world>>

\* A client stages an input and asks for it; "nothing" is a pipe with no path.
AskApply(s) ==
    /\ InLoop /\ bridged /\ Counted
    /\ input' = [input EXCEPT !.staged = s, !.apply = TRUE]
    /\ UNCHANGED <<host, asked, run, capture, epoch, wanted, device, armed>>

Adjust ==
    /\ InLoop /\ bridged /\ Counted
    /\ wanted' \in AllSettings \ {wanted}
    /\ UNCHANGED <<host, asked, run, capture, epoch, input, device, armed>>

\* A client's test pane arms the idle feed, or lets it go.
Arm ==
    /\ InLoop /\ bridged /\ Counted
    /\ armed' = ~armed
    /\ UNCHANGED <<host, asked, run, capture, epoch, input, wanted, device>>

-----------------------------------------------------------------------------
(* The device, the capture and the clock. *)

DeviceGoes ==
    /\ device /\ Counted
    /\ device' = FALSE
    /\ epoch' = IF epoch # None /\ HasDevice(epoch)
                THEN [epoch EXCEPT !.output = "dead"] ELSE epoch
    /\ UNCHANGED <<host, asked, run, capture, input, wanted, armed>>

\* What was linked to a device that went is not linked to the one that comes.
DeviceComes ==
    /\ ~device /\ device' = TRUE
    /\ UNCHANGED <<host, asked, run, capture, epoch, input, wanted, armed, events>>

OfEpoch == UNCHANGED <<host, asked, run, capture, input, world>>

\* The device starts to play, or refuses the stream for a reason of its own.
DeviceAnswers ==
    /\ epoch # None /\ epoch.output = "starting"
    /\ \E outcome \in {"streaming", "dead"} : epoch' = [epoch EXCEPT !.output = outcome]
    /\ OfEpoch

\* OUTPUT_POLL has passed since the devices were listed.
PollDue ==
    /\ watch # None /\ ~watch.due
    /\ watch' = [watch EXCEPT !.due = TRUE]
    /\ UNCHANGED <<at, asked, run, loop, capture, epoch, input, world>>

\* The capture's next message: a stream's Start, a chunk of it, or its End, with
\* which a file's reader is done.
Deliver(kind) ==
    /\ session # None /\ ~session.over /\ Len(queue) < QueueSize
    /\ (kind = "Start") = (session.in = 0)
    /\ kind = "Start" =>
         streams < MaxStreams /\ (session.key = "file" => streams = session.first)
    /\ streams' = IF kind = "Start" THEN streams + 1 ELSE streams
    /\ session' = [session EXCEPT !.in = CASE kind = "Start" -> streams + 1
                                           [] kind = "Chunk" -> @
                                           [] kind = "End" -> 0,
                                  !.over = kind = "End" /\ session.key = "file"]
    /\ queue' = Append(queue, Msg(kind, IF kind = "Start" THEN streams + 1 ELSE session.in))
    /\ UNCHANGED <<host, asked, run, epoch, input, world>>

-----------------------------------------------------------------------------
(* The runs: cmd_render, and the beginning and the end of a run. *)

\* The config is read, the handlers are installed, which clears the flags of a stop
\* and of a restart, and the engine is built: with a bridge, or idle without one.
Begin ==
    /\ at = "gap"
    /\ asked' = [asked EXCEPT !.stop = FALSE, !.restart = FALSE]
    /\ bridged' \in BOOLEAN
    /\ Goto(IF bridged' THEN "built" ELSE "flags")
    /\ source' \in Sources /\ target' = source'
    /\ input' = [staged |-> source', apply |-> FALSE, running |-> source',
                 failed |-> ~bridged']
    /\ settings' = "launch" /\ wanted' = settings'
    /\ captureGone' = FALSE /\ streamEnded' = FALSE /\ watch' = None
    /\ armed' = FALSE
    /\ UNCHANGED <<continuous, capture, epoch, device, events>>

Kept == session # None /\ session.key = source /\ source # "file"

\* HostSession::open for the run's first input: what runs is kept when it is the
\* same and no file, and what it queued meanwhile is not this run's.
OpenFirst ==
    /\ at = "built"
    /\ \/ Kept /\ Goto("flags") /\ UNCHANGED session
       \/ ~Kept /\ Goto("flags") /\ session' = Capture(source)
       \/ ~Kept /\ Goto("ended") /\ session' = None
    /\ queue' = <<>>
    /\ UNCHANGED <<asked, run, loop, watch, epoch, input, world, streams>>

\* The run is over and its engine dropped: another follows a restart, unless a stop
\* was asked for too.
Leave ==
    /\ at = "leaving"
    /\ asked' = [asked EXCEPT !.restart = FALSE]
    /\ Goto(IF asked.restart /\ ~asked.stop THEN "gap" ELSE "ended")
    /\ UNCHANGED <<run, loop, watch, capture, epoch, input, world>>

-----------------------------------------------------------------------------
(* A turn of the loop. *)

Asked == asked.stop \/ asked.restart

\* Mutant of Requests: a standby leaves the epoch playing.
Requests_Playing ==
    /\ at = "flags"
    /\ \/ Asked /\ Goto("leaving") /\ epoch' = None /\ UNCHANGED asked
       \/ /\ ~Asked /\ asked.standby
          /\ Goto("standby") /\ UNCHANGED epoch
          /\ asked' = [asked EXCEPT !.standby = FALSE]
    /\ UNCHANGED <<run, loop, watch, capture, input, world>>

\* The requests, first of a turn.  A run with no bridge does nothing else.
Requests ==
    /\ at = "flags"
    /\ \/ Asked /\ Goto("leaving") /\ epoch' = None /\ UNCHANGED asked
       \/ /\ ~Asked /\ asked.standby
          /\ Goto("standby") /\ epoch' = None
          /\ asked' = [asked EXCEPT !.standby = FALSE]
    /\ UNCHANGED <<run, loop, watch, capture, input, world>>

\* stand_by: what the capture delivers is discarded until the port is handed back,
\* or a stop or a restart is asked for.
StandBy ==
    /\ at = "standby"
    /\ \/ Asked /\ Goto("flags") /\ UNCHANGED <<asked, queue>>
       \/ /\ ~Asked /\ asked.resume /\ Goto("resuming") /\ UNCHANGED queue
          /\ asked' = [asked EXCEPT !.resume = FALSE]
       \/ /\ ~Asked /\ ~asked.resume /\ bridged /\ queue # <<>>
          /\ queue' = <<>> /\ UNCHANGED <<at, asked>>
    /\ UNCHANGED <<run, loop, watch, session, streams, epoch, input, world>>

\* osc_resume: the port is free again, or still held.
TryResume ==
    /\ at = "resuming"
    /\ \E bound \in BOOLEAN : Goto(IF bound THEN "flags" ELSE "standby")
    /\ UNCHANGED <<asked, run, loop, watch, capture, epoch, input, world>>

\* An Apply: the input staged by now, if it is one and is not what runs.  A sink
\* joins the graph once the capture running has left it.
TakeApply ==
    /\ at = "flags" /\ bridged /\ ~Asked /\ ~asked.standby
    /\ LET same == input.staged = source
           another == input.apply /\ ~same /\ input.staged # "nothing"
       IN  /\ Goto(IF another THEN "opening" ELSE "settings")
           /\ target' = IF another THEN input.staged ELSE source
           /\ input' = IF ~input.apply THEN input
                       ELSE [input EXCEPT !.apply = FALSE,
                               !.running = IF same THEN source ELSE @,
                               !.failed = IF another THEN @ ELSE ~same]
           /\ IF another /\ input.staged = "sink"
              THEN session' = None /\ queue' = <<>>
              ELSE UNCHANGED <<session, queue>>
    /\ UNCHANGED <<asked, run, source, captureGone, streamEnded, settings, watch, epoch,
                   streams, world>>

\* Mutant of Applied: the epoch goes on under the new capture.
Applied_Playing ==
    /\ at = "opening" /\ Goto("settings")
    /\ session' = Capture(target) /\ queue' = <<>>
    /\ source' = target /\ captureGone' = FALSE /\ streamEnded' = FALSE
    /\ input' = [input EXCEPT !.running = target, !.failed = FALSE]
    /\ UNCHANGED <<asked, run, settings, target, watch, epoch, streams, world>>

\* Mutant of Applied: the loop goes on with the source it had.
Applied_OldSource ==
    /\ at = "opening" /\ Goto("settings")
    /\ session' = Capture(target) /\ queue' = <<>>
    /\ epoch' = None
    /\ captureGone' = FALSE /\ streamEnded' = FALSE
    /\ input' = [input EXCEPT !.running = target, !.failed = FALSE]
    /\ UNCHANGED <<asked, run, source, settings, target, watch, streams, world>>

\* The input asked for is open, and the stream playing ends with the old one.
Applied ==
    /\ at = "opening" /\ Goto("settings")
    /\ session' = Capture(target) /\ queue' = <<>>
    /\ epoch' = None
    /\ source' = target /\ captureGone' = FALSE /\ streamEnded' = FALSE
    /\ input' = [input EXCEPT !.running = target, !.failed = FALSE]
    /\ UNCHANGED <<asked, run, settings, target, watch, streams, world>>

\* It cannot be opened: what ran runs on, or is opened again if it had to be closed.
NotApplied ==
    /\ at = "opening"
    /\ target' = source
    /\ IF session = None
       THEN Goto("reopen") /\ epoch' = None /\ UNCHANGED input
       ELSE /\ Goto("settings") /\ UNCHANGED epoch
            /\ input' = [input EXCEPT !.running = source, !.failed = TRUE]
    /\ UNCHANGED <<asked, run, source, captureGone, streamEnded, settings, watch, capture,
                   world>>

\* The capture that ran is opened again; when it cannot be, the run ends.
Reopen ==
    /\ at = "reopen"
    /\ \/ /\ Goto("settings") /\ session' = Capture(source)
          /\ input' = [input EXCEPT !.running = source, !.failed = TRUE]
       \/ Goto("ended") /\ UNCHANGED <<session, input>>
    /\ UNCHANGED <<asked, run, loop, watch, queue, streams, epoch, world>>

\* Epoch::pump_pending: what waits goes into the ring, of which a device that plays
\* may have made room.
Pumped(ep) ==
    {ep} \cup (IF ep.output = "streaming" THEN {[ep EXCEPT !.pending = FALSE]} ELSE {})

\* Epoch::finish_when_played
Finishing(ep) ==
    IF ep.finishing /\ ep.ending = "no" /\ ~ep.pending
    THEN [ep EXCEPT !.ending = "set"] ELSE ep

\* `ending_at' is reached.
PlayedOut == IF epoch.ending = "set" THEN {None} ELSE {}

\* The settings asked for, then the epoch's own affairs, and the end of the run.
Settle ==
    /\ at = "settings"
    /\ settings' = wanted
    /\ IF epoch = None \/ ~SamePlayback(source, settings, wanted)
       THEN epoch' = None
       ELSE epoch' \in {Finishing(ep) : ep \in Pumped(epoch)} \cup PlayedOut
    /\ Goto(IF epoch' = None /\ (streamEnded \/ captureGone) /\ ~continuous
            THEN "leaving" ELSE "take")
    /\ UNCHANGED <<asked, run, source, captureGone, streamEnded, target, watch, capture,
                   input, world>>

-----------------------------------------------------------------------------
(* What the capture delivers, into an epoch. *)

\* push_blocks: the block opens the device if none is open and none has failed to,
\* and goes into its ring, where what is paced may have to wait for room.
Pushed(ep) ==
    LET outcomes == IF device THEN {"starting", "failed"} ELSE {"dead", "failed"}
        opened == IF ep.output # "closed" THEN {ep}
                  ELSE {[ep EXCEPT !.output = outcome,
                                    !.paced = /\ outcome # "failed" /\ ep.kind = "Stream"
                                              /\ DevicePaced(source, settings)] :
                          outcome \in outcomes}
    IN  opened \cup {[e EXCEPT !.pending = TRUE] : e \in {o \in opened : o.paced}}

\* A chunk or the end of a stream may give no block.
Rendered(ep) == {ep} \cup Pushed(ep)

\* A chunk with no stream's epoch to go to is of a stream picked up on its way.
OnChunk(s) ==
    LET ep == IF epoch = None \/ epoch.kind = "Idle" THEN Opened("Stream") ELSE epoch
    IN  Rendered([ep EXCEPT !.heard = @ \cup {s}])

\* Mutant of OnStart: the epoch still playing out takes the next stream too.
OnStart_Continues == {IF epoch = None THEN Opened("Stream") ELSE epoch}

\* A new stream replaces whatever was still playing out.
OnStart == {Opened("Stream")}

\* finish_stream: what the decoder holds is rendered, and the epoch plays out.
OnEnd ==
    IF epoch # None /\ epoch.kind = "Stream" /\ ~epoch.finishing
    THEN {[ep EXCEPT !.finishing = TRUE] : ep \in Rendered(epoch)} ELSE {epoch}

\* While rendered audio waits for room nothing more is taken.
Backlog == epoch # None /\ epoch.pending

Delivers == ~Backlog /\ ~captureGone /\ queue # <<>>

\* The epoch with the message taken, if one is.
Fed ==
    IF ~Delivers THEN {epoch}
    ELSE CASE Head(queue).kind = "Start" -> OnStart
           [] Head(queue).kind = "Chunk" -> OnChunk(Head(queue).stream)
           [] Head(queue).kind = "End" -> OnEnd

\* The idle feed: with no stream playing, silence for a test to be heard in, through
\* an epoch of its own, which plays out once the test is let go.
IdleFed(ep) ==
    LET idle == IF ep = None THEN Opened("Idle") ELSE ep
    IN  CASE idle.kind = "Stream" -> {ep}
          [] idle.kind = "Idle" /\ armed ->
                {ep} \cup (IF idle.ending = "no" THEN Rendered(idle) ELSE {})
          [] idle.kind = "Idle" /\ ~armed ->
                IF ep # None /\ ep.ending = "no" THEN {[ep EXCEPT !.ending = "set"]} ELSE {ep}

\* Epoch::report_output: an output that has yet to play is waited for, OUTPUT_WAIT long.
Reported(ep) ==
    IF ep = None \/ ep.ending # "no" \/ ~HasDevice(ep) THEN {ep}
    ELSE {[ep EXCEPT !.told = told] :
            told \in CASE ep.output = "streaming" -> {"Playing"}
                       [] ep.output # "streaming" /\ ep.told = "Pending" ->
                             {"Pending", "Missing"}
                       [] ep.output # "streaming" /\ ep.told # "Pending" -> {"Missing"}}

\* Mutant of Back: nothing is polled while audio waits for the device.
Back_Backlog(now) == now.due /\ now.seen /\ device /\ ~Backlog

\* A poll finds the device that was seen missing there again.
Back(now) == now.due /\ now.seen /\ device

\* A poll of the devices: whether the one asked for was seen missing.
Watched(now) ==
    IF now.due THEN [due |-> FALSE, seen |-> now.seen \/ ~device] ELSE now

\* A message is taken and played, and the output reported.  One that is not playing is
\* watched for: its device seen missing and there again closes the epoch, and the next
\* chunk opens another.
Take ==
    /\ at = "take" /\ Goto("flags")
    /\ queue' = IF Delivers THEN Tail(queue) ELSE queue
    /\ captureGone' = (captureGone \/ (~Backlog /\ queue = <<>> /\ session.over))
    /\ streamEnded' = IF Delivers /\ Head(queue).kind # "Chunk"
                      THEN Head(queue).kind = "End" ELSE streamEnded
    /\ \E ep \in UNION {Reported(e) : e \in UNION {IdleFed(f) : f \in Fed}} :
         LET lost == ep # None /\ ep.ending = "no" /\ Lost(ep)
             now == IF watch = None THEN [due |-> TRUE, seen |-> FALSE] ELSE watch
             back == lost /\ Back(now)
         IN  /\ epoch' = IF back THEN None ELSE ep
             /\ watch' = IF lost /\ ~back THEN Watched(now) ELSE None
    /\ UNCHANGED <<asked, run, source, settings, target, session, streams, input, world>>

-----------------------------------------------------------------------------
HostStep ==
    \/ Begin \/ OpenFirst \/ Leave \/ Requests \/ StandBy \/ TryResume
    \/ TakeApply \/ Applied \/ NotApplied \/ Reopen
    \/ Settle \/ Take

Client ==
    \/ Stop \/ AskRestart \/ AskStandby \/ Resume \/ Adjust \/ Arm
    \/ \E s \in Sources \cup {"nothing"} : AskApply(s)

Environment ==
    \/ DeviceGoes \/ DeviceComes \/ DeviceAnswers
    \/ \E kind \in Kinds : Deliver(kind)

\* The process has ended, or is idle with no bridge until it is asked for something.
Waits == at = "ended" \/ (at = "flags" /\ ~bridged)
Idle == Waits /\ UNCHANGED vars

Next == HostStep \/ Client \/ PollDue \/ Environment \/ Idle

Spec == Init /\ [][Next]_vars

\* The host's thread runs (its waits are bounded: 20 ms for a message, 50 ms in a
\* standby), and time passes.  Nothing is assumed of clients, devices or sources.
Fairness == WF_vars(HostStep) /\ WF_vars(PollDue)

FairSpec == Spec /\ Fairness

-----------------------------------------------------------------------------
(* Properties. *)

\* Every variable has its type, and what is tied by more than its type: an epoch plays
\* only in the loop, only a paced output holds audio back, only a lost output is watched.
TypeOK ==
    /\ at \in Places
    /\ asked \in [stop : BOOLEAN, restart : BOOLEAN, standby : BOOLEAN, resume : BOOLEAN]
    /\ bridged \in BOOLEAN /\ continuous \in BOOLEAN
    /\ captureGone \in BOOLEAN /\ streamEnded \in BOOLEAN
    /\ source \in Sources /\ target \in Sources
    /\ session \in {None} \cup Sessions
    /\ queue \in Seq([kind : Kinds, stream : 1 .. MaxStreams])
    /\ epoch \in {None} \cup Epochs
    /\ watch \in {None} \cup Watches
    /\ settings \in AllSettings /\ wanted \in AllSettings
    /\ input \in [staged : Sources \cup {"nothing"}, apply : BOOLEAN, running : Sources,
                  failed : BOOLEAN]
    /\ device \in BOOLEAN /\ armed \in BOOLEAN /\ streams \in 0 .. MaxStreams
    /\ events \in 0 .. MaxEvents
    /\ epoch # None =>
         /\ at \in LoopSteps \ {"reopen"}
         /\ epoch.pending => epoch.paced
         /\ epoch.paced => HasDevice(epoch)

\* An epoch is fed from one stream, and one of the capture that runs: whatever comes
\* between (an input replaced, opened again or refused, a standby, a change of the
\* settings), its clock and its decoder are never given the bytes of two.
EpochIsOneStream ==
    epoch # None =>
        /\ Cardinality(epoch.heard) <= 1
        /\ session # None => \A s \in epoch.heard : s > session.first

\* Between two turns the clients are shown the input that is open, and the host reads
\* the one it says: no failed Apply leaves the two, the loop's own idea of its source
\* and the session's, apart.
ShownIsOpen ==
    at = "flags" /\ bridged =>
        /\ session # None /\ session.key = source
        /\ input.running = source

\* A device seen missing by the watch and there again is played on again: the epoch that
\* lost it ends, or has nothing left to play, or the device goes once more.
OutputComesBack ==
    (epoch # None /\ Lost(epoch) /\ watch # None /\ watch.seen)
        ~> (epoch = None \/ ~Lost(epoch) \/ epoch.ending = "set" \/ ~device)

\* A stop ends the process and a restart begins another run or ends it too, whatever the
\* loop is at: a standby, an input being opened, audio that waits for a device.
RequestsServed ==
    /\ asked.stop ~> at = "ended"
    /\ asked.restart ~> at \in {"gap", "ended"}
=============================================================================
