--------------------------- MODULE HostLoopProofs ---------------------------
(***************************************************************************)
(* Proofs about HostLoop, for every queue, every number of streams and of  *)
(* events, on a service or not.  First what the operators on epochs keep,  *)
(* then the types, the input that is shown, and the stream of an epoch.    *)
(***************************************************************************)
EXTENDS HostLoop, FiniteSetTheorems, SequenceTheorems, TLAPS

-----------------------------------------------------------------------------
(* What is done to an epoch gives an epoch whose audio waits only for the    *)
(* room of a device's ring.                                                  *)

Sound(ep) ==
    /\ ep \in Epochs
    /\ ep.pending => ep.paced
    /\ ep.paced => HasDevice(ep)

Maybe(ep) == ep = None \/ Sound(ep)

\* A new epoch is sound.
LEMMA OpenedSound ==
    ASSUME NEW kind \in {"Stream", "Idle"}
    PROVE  Sound(Opened(kind))
BY DEF Sound, Opened, Epochs, HasDevice

\* A chunk heard leaves an epoch sound.
LEMMA HeardSound ==
    ASSUME NEW ep, Sound(ep), NEW s \in 1 .. MaxStreams
    PROVE  Sound([ep EXCEPT !.heard = @ \cup {s}])
BY DEF Sound, Epochs, HasDevice

\* Pumping and finishing leave an epoch sound.
LEMMA FinishingSound ==
    ASSUME NEW old, Sound(old), NEW ep \in Pumped(old)
    PROVE  Sound(Finishing(ep))
<1>1. Sound(ep)
  <2>1. ep = old \/ ep = [old EXCEPT !.pending = FALSE]
    BY DEF Pumped
  <2> QED
    BY <2>1 DEF Sound, Epochs, HasDevice
<1>2. Finishing(ep) = ep \/ Finishing(ep) = [ep EXCEPT !.ending = "set"]
  BY DEF Finishing
<1> QED
  BY <1>1, <1>2 DEF Sound, Epochs, HasDevice

\* A block pushed opens the device or not, and waits only for a device's ring.
LEMMA PushedSound ==
    ASSUME NEW old, Sound(old), NEW ep \in Pushed(old)
    PROVE  Sound(ep)
<1> DEFINE outcomes == IF device THEN {"starting", "failed"} ELSE {"dead", "failed"}
           opened == IF old.output # "closed" THEN {old}
                     ELSE {[old EXCEPT !.output = outcome,
                                       !.paced = /\ outcome # "failed" /\ old.kind = "Stream"
                                                 /\ DevicePaced(source, settings)] :
                             outcome \in outcomes}
<1>1. ASSUME NEW e \in opened
      PROVE  Sound(e)
  <2>1. CASE old.output # "closed"
    BY <1>1, <2>1
  <2>2. CASE old.output = "closed"
    <3> DEFINE paced(o) == /\ o # "failed" /\ old.kind = "Stream"
                           /\ DevicePaced(source, settings)
    <3>1. PICK o \in {"starting", "dead", "failed"} :
            e = [old EXCEPT !.output = o, !.paced = paced(o)]
      BY <1>1, <2>2
    <3>2. paced(o) \in BOOLEAN /\ (paced(o) => o # "failed")
      OBVIOUS
    <3> HIDE DEF paced
    <3>3. ~old.paced /\ ~old.pending
      BY <2>2 DEF Sound, HasDevice, Epochs
    <3> QED
      BY <3>1, <3>2, <3>3 DEF Sound, Epochs, HasDevice
  <2> QED
    BY <2>1, <2>2
<1>2. ep \in opened \/ \E e \in opened : e.paced /\ ep = [e EXCEPT !.pending = TRUE]
  BY DEF Pushed
<1>3. ASSUME NEW e \in opened, e.paced, ep = [e EXCEPT !.pending = TRUE]
      PROVE  Sound(ep)
  BY <1>1, <1>3 DEF Sound, Epochs, HasDevice
<1> QED
  BY <1>1, <1>2, <1>3

\* So is what a chunk or a stream's end renders.
LEMMA RenderedSound ==
    ASSUME NEW old, Sound(old), NEW ep \in Rendered(old)
    PROVE  Sound(ep)
BY PushedSound DEF Rendered

\* So is the epoch after a message.
LEMMA FedSound ==
    ASSUME Maybe(epoch), queue \in Seq([kind : Kinds, stream : 1 .. MaxStreams]),
           NEW ep \in Fed
    PROVE  Maybe(ep)
<1>1. CASE ~Delivers
  BY <1>1 DEF Fed
<1>2. CASE Delivers
  <2>1. Head(queue) \in [kind : Kinds, stream : 1 .. MaxStreams]
    BY <1>2, HeadTailProperties DEF Delivers
  <2>2. CASE Head(queue).kind = "Start"
    BY <1>2, <2>2, OpenedSound DEF Fed, OnStart, Maybe
  <2>3. CASE Head(queue).kind = "Chunk"
    <3> DEFINE old == IF epoch = None \/ epoch.kind = "Idle" THEN Opened("Stream")
                      ELSE epoch
               fed == [old EXCEPT !.heard = @ \cup {Head(queue).stream}]
    <3>1. Sound(old)
      BY OpenedSound DEF Maybe
    <3>2. Head(queue).stream \in 1 .. MaxStreams
      BY <2>1
    <3>3. ep \in Rendered(fed)
      BY <1>2, <2>3 DEF Fed, OnChunk
    <3> HIDE DEF old
    <3>4. Sound(fed)
      BY <3>1, <3>2, HeardSound
    <3> QED
      BY <3>3, <3>4, RenderedSound DEF Maybe
  <2>4. CASE Head(queue).kind = "End"
    <3>1. CASE epoch # None /\ epoch.kind = "Stream" /\ ~epoch.finishing
      <4>1. PICK e \in Rendered(epoch) : ep = [e EXCEPT !.finishing = TRUE]
        BY <1>2, <2>4, <3>1 DEF Fed, OnEnd
      <4>2. Sound(e)
        BY <3>1, <4>1, RenderedSound DEF Maybe
      <4> QED
        BY <4>1, <4>2 DEF Sound, Epochs, HasDevice, Maybe
    <3>2. CASE ~(epoch # None /\ epoch.kind = "Stream" /\ ~epoch.finishing)
      BY <1>2, <2>4, <3>2 DEF Fed, OnEnd
    <3> QED
      BY <3>1, <3>2
  <2> QED
    BY <2>1, <2>2, <2>3, <2>4 DEF Kinds
<1> QED
  BY <1>1, <1>2

\* So is the idle feed's.
LEMMA IdleFedSound ==
    ASSUME NEW old, Maybe(old), armed \in BOOLEAN, NEW ep \in IdleFed(old)
    PROVE  Maybe(ep)
<1> DEFINE idle == IF old = None THEN Opened("Idle") ELSE old
<1>1. Sound(idle)
  BY OpenedSound DEF Maybe
<1>2. idle.kind \in {"Stream", "Idle"}
  BY <1>1 DEF Sound, Epochs
<1>3. CASE idle.kind = "Stream"
  BY <1>3 DEF IdleFed
<1>4. CASE idle.kind = "Idle" /\ armed
  BY <1>1, <1>4, RenderedSound DEF IdleFed, Maybe
<1>5. CASE idle.kind = "Idle" /\ ~armed
  BY <1>5 DEF IdleFed, Maybe, Sound, Epochs, HasDevice
<1> QED
  BY <1>2, <1>3, <1>4, <1>5

\* So is the epoch whose output was reported.
LEMMA ReportedSound ==
    ASSUME NEW old, Maybe(old), NEW ep \in Reported(old)
    PROVE  Maybe(ep)
<1>1. CASE old = None \/ old.ending # "no" \/ ~HasDevice(old)
  BY <1>1 DEF Reported
<1>2. CASE ~(old = None \/ old.ending # "no" \/ ~HasDevice(old))
  <2>1. Sound(old)
    BY <1>2 DEF Maybe
  <2>2. PICK told \in {"Pending", "Playing", "Missing"} : ep = [old EXCEPT !.told = told]
    BY <1>2 DEF Reported
  <2> QED
    BY <2>1, <2>2 DEF Maybe, Sound, Epochs, HasDevice
<1> QED
  BY <1>1, <1>2

-----------------------------------------------------------------------------
(* Types.                                                                    *)

\* The initial state has its types.
LEMMA InitType == Init => TypeOK
<1> SUFFICES ASSUME Init PROVE TypeOK
  OBVIOUS
<1>1. queue \in Seq([kind : Kinds, stream : 1 .. MaxStreams])
  BY EmptySeq DEF Init
<1>2. input \in [staged : Sources \cup {"nothing"}, apply : BOOLEAN, running : Sources,
                failed : BOOLEAN]
  BY DEF Init, Sources
<1>3. asked \in [stop : BOOLEAN, restart : BOOLEAN, standby : BOOLEAN, resume : BOOLEAN]
  BY DEF Init
<1>4. streams \in 0 .. MaxStreams /\ events \in 0 .. MaxEvents
  BY BoundsAssumption DEF Init
<1>5. source \in Sources /\ target \in Sources /\ settings \in AllSettings
      /\ wanted \in AllSettings /\ at \in Places
  BY DEF Init, Sources, AllSettings, Places
<1> QED
  BY <1>1, <1>2, <1>3, <1>4, <1>5 DEF Init, TypeOK

\* The steps of clients and of the system keep the types.
LEMMA ClientType == TypeOK /\ Client => TypeOK'
<1> SUFFICES ASSUME TypeOK, Client PROVE TypeOK'
  OBVIOUS
<1> USE DEF host, loop, run, capture, world, Goto, Counted
<1>1. CASE Stop
  <2>1. asked' \in [stop : BOOLEAN, restart : BOOLEAN, standby : BOOLEAN, resume : BOOLEAN]
    BY <1>1 DEF Stop, TypeOK
  <2>2. at' = at \/ (at = "gap" /\ at' = "ended")
    BY <1>1 DEF Stop
  <2>3. events' \in 0 .. MaxEvents
    BY <1>1, BoundsAssumption DEF Stop, TypeOK
  <2> QED
    BY <1>1, <2>1, <2>2, <2>3 DEF Stop, TypeOK, HasDevice, Places, LoopSteps
<1>2. CASE AskRestart \/ AskStandby \/ Resume
  <2>1. asked' \in [stop : BOOLEAN, restart : BOOLEAN, standby : BOOLEAN, resume : BOOLEAN]
    BY <1>2 DEF AskRestart, AskStandby, Resume, TypeOK
  <2>2. events' \in 0 .. MaxEvents
    BY <1>2, BoundsAssumption DEF AskRestart, AskStandby, Resume, TypeOK
  <2>3. UNCHANGED <<host, run, capture, epoch, input, wanted, device, armed>>
    BY <1>2 DEF AskRestart, AskStandby, Resume
  <2> QED
    BY <2>1, <2>2, <2>3 DEF TypeOK, HasDevice
<1>3. CASE Adjust \/ Arm
  <2>1. events' \in 0 .. MaxEvents
    BY <1>3, BoundsAssumption DEF Adjust, Arm, TypeOK
  <2> QED
    BY <1>3, <2>1 DEF Adjust, Arm, TypeOK, HasDevice
<1>4. ASSUME NEW s \in Sources \cup {"nothing"}, AskApply(s) PROVE TypeOK'
  <2>1. input' \in [staged : Sources \cup {"nothing"}, apply : BOOLEAN, running : Sources,
                    failed : BOOLEAN]
    BY <1>4 DEF AskApply, TypeOK
  <2>2. events' \in 0 .. MaxEvents
    BY <1>4, BoundsAssumption DEF AskApply, TypeOK
  <2> QED
    BY <1>4, <2>1, <2>2 DEF AskApply, TypeOK, HasDevice
<1> QED
  BY <1>1, <1>2, <1>3, <1>4 DEF Client

\* So do the device, the captures and the clock.
LEMMA EnvironmentType == TypeOK /\ (Environment \/ PollDue) => TypeOK'
<1> SUFFICES ASSUME TypeOK, Environment \/ PollDue PROVE TypeOK'
  OBVIOUS
<1> USE DEF host, loop, run, capture, world, Goto, Counted
<1>0. Maybe(epoch)
  BY DEF TypeOK, Maybe, Sound
<1>1. CASE DeviceGoes
  <2>1. Maybe(epoch')
    BY <1>0, <1>1 DEF DeviceGoes, Maybe, Sound, HasDevice, Epochs
  <2>2. events' \in 0 .. MaxEvents
    BY <1>1, BoundsAssumption DEF DeviceGoes, TypeOK
  <2>3. epoch' # None => epoch # None
    BY <1>1 DEF DeviceGoes
  <2>4. UNCHANGED <<host, asked, run, capture, input, wanted, armed>> /\ device' \in BOOLEAN
    BY <1>1 DEF DeviceGoes
  <2> QED
    BY <2>1, <2>2, <2>3, <2>4 DEF TypeOK, Maybe, Sound
<1>2. CASE DeviceComes
  BY <1>2 DEF DeviceComes, TypeOK, HasDevice
<1>3. CASE DeviceAnswers
  <2>1. Maybe(epoch')
    BY <1>0, <1>3 DEF DeviceAnswers, Maybe, Sound, HasDevice, Epochs
  <2> QED
    BY <1>3, <2>1 DEF DeviceAnswers, OfEpoch, TypeOK, Maybe, Sound
<1>4. ASSUME NEW kind \in Kinds, Deliver(kind) PROVE TypeOK'
  <2>1. streams' \in 0 .. MaxStreams
    BY <1>4, BoundsAssumption DEF Deliver, TypeOK
  <2>2. session \in Sessions
    BY <1>4 DEF Deliver, TypeOK
  <2>3. session'.in \in 0 .. MaxStreams
    BY <1>4, <2>2, BoundsAssumption DEF Deliver, TypeOK, Sessions, Kinds
  <2>4. session' \in Sessions
    BY <1>4, <2>2, <2>3 DEF Deliver, Sessions
  <2>5. (IF kind = "Start" THEN streams + 1 ELSE session.in) \in 1 .. MaxStreams
    BY <1>4, <2>2, BoundsAssumption DEF Deliver, Sessions, TypeOK
  <2>6. queue' \in Seq([kind : Kinds, stream : 1 .. MaxStreams])
    BY <1>4, <2>5, AppendProperties DEF Deliver, Msg, TypeOK
  <2>7. UNCHANGED <<host, asked, run, epoch, input, world>>
    BY <1>4 DEF Deliver
  <2> QED
    BY <2>1, <2>4, <2>6, <2>7 DEF TypeOK, HasDevice
<1>5. CASE PollDue
  <2>1. watch' \in Watches
    BY <1>5 DEF PollDue, TypeOK, Watches
  <2> QED
    BY <1>5, <2>1 DEF PollDue, TypeOK, HasDevice
<1> QED
  BY <1>1, <1>2, <1>3, <1>4, <1>5 DEF Environment

\* Every step of the host keeps the types.
LEMMA HostType == TypeOK /\ HostStep => TypeOK'
<1> SUFFICES ASSUME TypeOK, HostStep PROVE TypeOK'
  OBVIOUS
<1> USE DEF host, loop, run, capture, world, Goto
<1> DEFINE Flags == [stop : BOOLEAN, restart : BOOLEAN, standby : BOOLEAN, resume : BOOLEAN]
           Inputs == [staged : Sources \cup {"nothing"}, apply : BOOLEAN, running : Sources,
                      failed : BOOLEAN]
           Queues == Seq([kind : Kinds, stream : 1 .. MaxStreams])
<1>a. <<>> \in Queues
  BY EmptySeq
<1>b. ASSUME NEW key \in Sources PROVE Capture(key) \in Sessions
  BY BoundsAssumption DEF TypeOK, Capture, Sessions
<1>c. Maybe(epoch)
  BY DEF TypeOK, Maybe, Sound
<1>1. CASE Begin
  <2>1. asked' \in Flags
    BY <1>1 DEF Begin, TypeOK
  <2>2. input' \in Inputs
    BY <1>1 DEF Begin
  <2>3. at' \in Places /\ epoch' = None
    BY <1>1 DEF Begin, TypeOK, Places, LoopSteps
  <2>4. settings' \in AllSettings /\ wanted' \in AllSettings
    BY <1>1 DEF Begin, AllSettings
  <2> QED
    BY <1>1, <2>1, <2>2, <2>3, <2>4 DEF Begin, TypeOK
<1>2. CASE OpenFirst
  <2>1. at' \in Places /\ epoch' = None
    BY <1>2 DEF OpenFirst, TypeOK, Places, LoopSteps
  <2>2. session' \in {None} \cup Sessions
    BY <1>2, <1>b DEF OpenFirst, TypeOK
  <2> QED
    BY <1>2, <1>a, <2>1, <2>2 DEF OpenFirst, TypeOK
<1>3. CASE Leave
  <2>1. asked' \in Flags
    BY <1>3 DEF Leave, TypeOK
  <2>2. at' \in Places /\ epoch' = None
    BY <1>3 DEF Leave, TypeOK, Places, LoopSteps
  <2> QED
    BY <1>3, <2>1, <2>2 DEF Leave, TypeOK
<1>4. CASE Requests
  <2>1. asked' \in Flags
    BY <1>4 DEF Requests, TypeOK
  <2>2. at' \in Places /\ epoch' = None
    BY <1>4 DEF Requests, Places
  <2> QED
    BY <1>4, <2>1, <2>2 DEF Requests, TypeOK
<1>5. CASE StandBy
  <2>1. asked' \in Flags
    BY <1>5 DEF StandBy, TypeOK
  <2>2. at' \in Places /\ epoch' = None
    BY <1>5 DEF StandBy, TypeOK, Places, LoopSteps
  <2>3. queue' \in Queues
    BY <1>5, <1>a DEF StandBy, TypeOK
  <2> QED
    BY <1>5, <2>1, <2>2, <2>3 DEF StandBy, TypeOK
<1>6. CASE TryResume
  <2>1. at' \in Places /\ epoch' = None
    BY <1>6 DEF TryResume, TypeOK, Places, LoopSteps
  <2> QED
    BY <1>6, <2>1 DEF TryResume, TypeOK
<1>7. CASE TakeApply
  <2>1. at' \in Places /\ at' \in LoopSteps \ {"reopen"}
    BY <1>7 DEF TakeApply, Places, LoopSteps
  <2>2. input' \in Inputs /\ target' \in Sources
    BY <1>7 DEF TakeApply, TypeOK
  <2>3. queue' \in Queues /\ session' \in {None} \cup Sessions
    BY <1>7, <1>a DEF TakeApply, TypeOK
  <2> QED
    BY <1>7, <2>1, <2>2, <2>3 DEF TakeApply, TypeOK, HasDevice
<1>8. CASE Applied
  <2>1. at' \in Places /\ epoch' = None
    BY <1>8 DEF Applied, Places, LoopSteps
  <2>2. input' \in Inputs /\ session' \in Sessions
    BY <1>8, <1>b DEF Applied, TypeOK
  <2> QED
    BY <1>8, <1>a, <2>1, <2>2 DEF Applied, TypeOK
<1>9. CASE NotApplied
  <2>1. at' \in Places /\ (at' = "reopen" => epoch' = None)
    BY <1>9 DEF NotApplied, Places, LoopSteps
  <2>2. at' \in LoopSteps
    BY <1>9 DEF NotApplied, LoopSteps
  <2>3. epoch' = None \/ epoch' = epoch
    BY <1>9 DEF NotApplied
  <2>4. input' \in Inputs
    <3>1. /\ input \in Inputs /\ source \in Sources
          /\ input' = input \/ input' = [input EXCEPT !.running = source, !.failed = TRUE]
      BY <1>9 DEF NotApplied, TypeOK
    <3> QED
      BY <3>1
  <2> QED
    BY <1>9, <2>1, <2>2, <2>3, <2>4 DEF NotApplied, TypeOK, HasDevice
<1>10. CASE Reopen
  <2>1. at' \in Places /\ epoch' = None
    BY <1>10 DEF Reopen, TypeOK, Places, LoopSteps
  <2>2. session' \in {None} \cup Sessions /\ input' \in Inputs
    BY <1>10, <1>b DEF Reopen, TypeOK
  <2> QED
    BY <1>10, <2>1, <2>2 DEF Reopen, TypeOK
<1>11. CASE Settle
  <2>1. Maybe(epoch')
    BY <1>11, <1>c, FinishingSound DEF Settle, PlayedOut, Maybe
  <2>2. /\ at' \in Places
        /\ epoch' # None => at' \in LoopSteps \ {"reopen"}
    BY <1>11 DEF Settle, Places, LoopSteps
  <2> QED
    BY <1>11, <2>1, <2>2 DEF Settle, TypeOK, Maybe, Sound
<1>12. CASE Take
  <2>1. ASSUME NEW e \in UNION {Reported(f) : f \in UNION {IdleFed(g) : g \in Fed}}
        PROVE  Maybe(e)
    <3>1. PICK g \in Fed : \E f \in IdleFed(g) : e \in Reported(f)
      BY <2>1
    <3>2. PICK f \in IdleFed(g) : e \in Reported(f)
      BY <3>1
    <3>3. Maybe(g)
      BY <1>c, <3>1, FedSound DEF TypeOK
    <3>4. Maybe(f)
      BY <3>2, <3>3, IdleFedSound DEF TypeOK
    <3> QED
      BY <3>2, <3>4, ReportedSound
  <2>2. Maybe(epoch')
    BY <1>12, <2>1 DEF Take, Maybe
  <2>3. watch' \in {None} \cup Watches
    BY <1>12 DEF Take, Watched, Watches, TypeOK
  <2>4. queue' \in Queues
    BY <1>12, HeadTailProperties DEF Take, Delivers, TypeOK
  <2>5. captureGone' \in BOOLEAN /\ streamEnded' \in BOOLEAN
    BY <1>12 DEF Take, TypeOK
  <2>6. at' = "flags"
    BY <1>12 DEF Take
  <2> QED
    BY <1>12, <2>2, <2>3, <2>4, <2>5, <2>6 DEF Take, TypeOK, Maybe, Sound, Places, LoopSteps
<1> QED
  BY <1>1, <1>2, <1>3, <1>4, <1>5, <1>6, <1>7, <1>8, <1>9, <1>10, <1>11, <1>12 DEF HostStep

\* Every variable has its type, whatever clients, the device and the captures do.
THEOREM TypeCorrect == Spec => []TypeOK
<1>1. TypeOK /\ [Next]_vars => TypeOK'
  <2> SUFFICES ASSUME TypeOK, [Next]_vars PROVE TypeOK'
    OBVIOUS
  <2>1. CASE UNCHANGED vars
    BY <2>1 DEF vars, TypeOK, HasDevice
  <2> QED
    BY <2>1, ClientType, EnvironmentType, HostType DEF Next, Idle
<1> QED
  BY <1>1, InitType, PTL DEF Spec

-----------------------------------------------------------------------------
(* The input that is shown is the one that is open.  The turn of the loop    *)
(* gives the invariant its cases: what is open while nothing is being opened,*)
(* and what may be closed while something is.                                *)

ShownInv ==
    /\ bridged /\ at \in {"flags", "settings", "take", "standby", "resuming"} =>
         session # None /\ session.key = source /\ input.running = source
    /\ at = "opening" =>
         (session # None => session.key = source) /\ input.running = source
    /\ at = "built" => input.running = source

\* Who is not the host neither opens an input nor shows one.
LEMMA OthersShown ==
    TypeOK /\ ShownInv /\ (Client \/ PollDue \/ Environment \/ UNCHANGED vars) => ShownInv'
<1> SUFFICES ASSUME TypeOK, ShownInv, Client \/ PollDue \/ Environment \/ UNCHANGED vars
             PROVE  ShownInv'
  OBVIOUS
<1>1. UNCHANGED <<bridged, source>> /\ (at' = at \/ at' = "ended")
  BY DEF Client, PollDue, Environment, Stop, AskRestart, AskStandby, Resume, Adjust, Arm,
         AskApply, DeviceGoes, DeviceComes, DeviceAnswers, OfEpoch, Deliver, host, loop, run,
         vars, Goto
<1>2. input'.running = input.running
  <2>1. ASSUME NEW s \in Sources \cup {"nothing"}, AskApply(s)
        PROVE  input'.running = input.running
    BY <2>1 DEF AskApply, TypeOK
  <2> QED
    BY <2>1 DEF Client, PollDue, Environment, Stop, AskRestart, AskStandby, Resume, Adjust,
           Arm, DeviceGoes, DeviceComes, DeviceAnswers, OfEpoch, Deliver, vars
<1>3. /\ session = None => session' = None
      /\ session # None => session' # None /\ session'.key = session.key
  <2>1. ASSUME NEW kind \in Kinds, Deliver(kind)
        PROVE  session # None /\ session' # None /\ session'.key = session.key
    <3>1. session \in Sessions
      BY <2>1 DEF Deliver, TypeOK
    <3>2. session'.key = session.key /\ session' \in Sessions
      <4>1. streams + 1 \in 0 .. MaxStreams \/ kind # "Start"
        BY <2>1, BoundsAssumption DEF Deliver, TypeOK
      <4>2. session'.in \in 0 .. MaxStreams
        BY <2>1, <3>1, <4>1, BoundsAssumption DEF Deliver, Sessions, Kinds
      <4> QED
        BY <2>1, <3>1, <4>2 DEF Deliver, Sessions
    <3> QED
      BY <2>1, <3>2, NoneAssumption DEF Deliver
  <2> QED
    BY <2>1 DEF Client, PollDue, Environment, Stop, AskRestart, AskStandby, Resume, Adjust,
           Arm, AskApply, DeviceGoes, DeviceComes, DeviceAnswers, OfEpoch, vars, capture
<1> QED
  BY <1>1, <1>2, <1>3 DEF ShownInv

\* Every step of the host leaves the two together, or on the way to it.
LEMMA HostShown == TypeOK /\ ShownInv /\ HostStep => ShownInv'
<1> SUFFICES ASSUME TypeOK, ShownInv, HostStep PROVE ShownInv'
  OBVIOUS
<1> USE DEF host, loop, run, capture, world, Goto
<1>a. ASSUME NEW key \in Sources
      PROVE  Capture(key) # None /\ Capture(key).key = key
  <2>1. Capture(key) \in Sessions
    BY BoundsAssumption DEF TypeOK, Capture, Sessions
  <2>2. Capture(key).key = key
    BY DEF Capture
  <2> QED
    BY <2>1, <2>2, NoneAssumption
<1>1. CASE Begin
  BY <1>1 DEF Begin, ShownInv
<1>2. CASE OpenFirst
  BY <1>2, <1>a DEF OpenFirst, Kept, ShownInv, TypeOK
<1>3. CASE Leave \/ Requests \/ StandBy \/ TryResume \/ Settle \/ Take
  BY <1>3 DEF Leave, Requests, StandBy, TryResume, Settle, Take, ShownInv
<1>4. CASE TakeApply
  <2>1. session # None /\ session.key = source /\ input.running = source
    BY <1>4 DEF TakeApply, ShownInv
  <2>2. input'.running = source
    BY <1>4, <2>1 DEF TakeApply, TypeOK
  <2>3. session' = session \/ (session' = None /\ at' = "opening")
    BY <1>4 DEF TakeApply
  <2>4. at' \in {"opening", "settings"} /\ source' = source
    BY <1>4 DEF TakeApply
  <2> QED
    BY <2>1, <2>2, <2>3, <2>4 DEF ShownInv
<1>5. CASE Applied
  <2>1. input'.running = source' /\ source' = target /\ at' = "settings"
    BY <1>5 DEF Applied, TypeOK
  <2>2. session' # None /\ session'.key = target
    BY <1>5, <1>a DEF Applied, TypeOK
  <2> QED
    BY <2>1, <2>2 DEF ShownInv
<1>6. CASE NotApplied
  <2>1. at' = "reopen" \/ (at' = "settings" /\ session # None /\ input'.running = source)
    BY <1>6 DEF NotApplied, TypeOK
  <2> QED
    BY <1>6, <2>1 DEF NotApplied, ShownInv
<1>7. CASE Reopen
  <2>1. at' = "ended" \/ (at' = "settings" /\ session' = Capture(source)
                            /\ input'.running = source)
    BY <1>7 DEF Reopen, TypeOK
  <2> QED
    BY <1>7, <1>a, <2>1 DEF Reopen, ShownInv, TypeOK
<1> QED
  BY <1>1, <1>2, <1>3, <1>4, <1>5, <1>6, <1>7 DEF HostStep

\* What clients are shown between two turns is what is open, whatever Apply failed.
THEOREM ShownCorrect == Spec => []ShownIsOpen
<1>1. Init => ShownInv
  BY DEF Init, ShownInv
<1>2. TypeOK /\ ShownInv /\ [Next]_vars => ShownInv'
  BY OthersShown, HostShown DEF Next, Idle
<1>3. ShownInv => ShownIsOpen
  BY DEF ShownInv, ShownIsOpen
<1> QED
  BY <1>1, <1>2, <1>3, TypeCorrect, PTL DEF Spec

-----------------------------------------------------------------------------
(* The stream of an epoch.  What the capture has queued is in order, and     *)
(* what comes next is of the stream the epoch heard, unless it is a Start.   *)

QueueInv ==
    /\ session = None => queue = <<>>
    /\ session # None =>
         /\ session.first <= streams
         /\ session.in # 0 => session.in > session.first
         /\ \A i \in 1 .. Len(queue) : queue[i].stream > session.first
         /\ session.in # 0 /\ queue # <<>> => queue[Len(queue)].stream = session.in
    /\ \A i \in 1 .. Len(queue) - 1 :
         queue[i + 1].kind # "Start" => queue[i + 1].stream = queue[i].stream
    /\ at = "reopen" => session = None

HeardInv ==
    epoch # None =>
        /\ \A g, h \in epoch.heard : g = h
        /\ session # None => \A h \in epoch.heard :
             /\ h > session.first
             /\ queue # <<>> /\ queue[1].kind # "Start" => queue[1].stream = h
             /\ queue = <<>> /\ session.in # 0 => session.in = h

\* What renders a block, or none, adds no stream to those an epoch heard.
LEMMA RenderedHeard ==
    ASSUME NEW old, Sound(old), NEW ep \in Rendered(old)
    PROVE  ep.heard = old.heard
<1> DEFINE outcomes == IF device THEN {"starting", "failed"} ELSE {"dead", "failed"}
           opened == IF old.output # "closed" THEN {old}
                     ELSE {[old EXCEPT !.output = outcome,
                                       !.paced = /\ outcome # "failed" /\ old.kind = "Stream"
                                                 /\ DevicePaced(source, settings)] :
                             outcome \in outcomes}
<1>1. ASSUME NEW e \in opened
      PROVE  e \in Epochs /\ e.heard = old.heard
  <2>1. CASE old.output # "closed"
    BY <1>1, <2>1 DEF Sound
  <2>2. CASE old.output = "closed"
    <3> DEFINE paced(o) == /\ o # "failed" /\ old.kind = "Stream"
                           /\ DevicePaced(source, settings)
    <3>1. PICK o \in {"starting", "dead", "failed"} :
            e = [old EXCEPT !.output = o, !.paced = paced(o)]
      BY <1>1, <2>2
    <3>2. paced(o) \in BOOLEAN
      OBVIOUS
    <3> HIDE DEF paced
    <3> QED
      BY <3>1, <3>2 DEF Sound, Epochs
  <2> QED
    BY <2>1, <2>2
<1>2. ep = old \/ ep \in opened \/ \E e \in opened : ep = [e EXCEPT !.pending = TRUE]
  BY DEF Rendered, Pushed
<1>3. ASSUME NEW e \in opened, ep = [e EXCEPT !.pending = TRUE]
      PROVE  ep.heard = old.heard
  BY <1>1, <1>3 DEF Epochs
<1> QED
  BY <1>1, <1>2, <1>3

\* Nor do the idle feed and the report.
LEMMA FeedAndReportHeard ==
    ASSUME NEW old, Maybe(old), armed \in BOOLEAN,
           NEW f \in IdleFed(old), NEW ep \in Reported(f), ep # None
    PROVE  ep.heard = {} \/ (old # None /\ ep.heard = old.heard)
<1>1. Maybe(f)
  BY IdleFedSound
<1>2. f # None /\ ep.heard = f.heard
  <2>1. CASE f = None \/ f.ending # "no" \/ ~HasDevice(f)
    BY <2>1 DEF Reported
  <2>2. CASE ~(f = None \/ f.ending # "no" \/ ~HasDevice(f))
    <3>1. PICK told \in {"Pending", "Playing", "Missing"} : ep = [f EXCEPT !.told = told]
      BY <2>2 DEF Reported
    <3> QED
      BY <1>1, <2>2, <3>1 DEF Maybe, Sound, Epochs
  <2> QED
    BY <2>1, <2>2
<1> DEFINE idle == IF old = None THEN Opened("Idle") ELSE old
<1>3. Sound(idle) /\ idle.kind \in {"Stream", "Idle"}
  BY OpenedSound DEF Maybe, Sound, Epochs
<1>4. idle.heard = {} \/ (old # None /\ idle = old)
  BY DEF Opened
<1>5. f = old \/ f.heard = idle.heard
  <2>1. CASE idle.kind = "Stream"
    BY <2>1 DEF IdleFed
  <2>2. CASE idle.kind = "Idle" /\ armed
    BY <1>3, <2>2, RenderedHeard DEF IdleFed
  <2>3. CASE idle.kind = "Idle" /\ ~armed
    BY <1>3, <2>3 DEF IdleFed, Sound, Epochs
  <2> QED
    BY <1>3, <2>1, <2>2, <2>3
<1> QED
  BY <1>2, <1>4, <1>5

\* Nor do the epoch's own affairs.
LEMMA SettleHeard ==
    ASSUME NEW old, Sound(old), NEW ep \in Pumped(old)
    PROVE  Finishing(ep).heard = old.heard
<1>1. ep \in Epochs /\ ep.heard = old.heard
  <2>1. ep = old \/ ep = [old EXCEPT !.pending = FALSE]
    BY DEF Pumped
  <2> QED
    BY <2>1 DEF Sound, Epochs
<1>2. Finishing(ep) = ep \/ Finishing(ep) = [ep EXCEPT !.ending = "set"]
  BY DEF Finishing
<1> QED
  BY <1>1, <1>2 DEF Epochs

\* A message taken is of the only stream the epoch then heard, or a Start, after which
\* it heard none.
LEMMA FedHeard ==
    ASSUME TypeOK, QueueInv, HeardInv, NEW ep \in Fed, ep # None, NEW h \in ep.heard
    PROVE  IF Delivers THEN queue[1].kind # "Start" /\ queue[1].stream = h
           ELSE epoch # None /\ h \in epoch.heard
<1>1. CASE ~Delivers
  BY <1>1 DEF Fed
<1>2. CASE Delivers
  <2>1. /\ queue # <<>> /\ session # None
        /\ Head(queue) = queue[1] /\ queue[1] \in [kind : Kinds, stream : 1 .. MaxStreams]
    <3>1. queue # <<>> /\ session # None
      BY <1>2 DEF Delivers, QueueInv
    <3>2. queue \in Seq([kind : Kinds, stream : 1 .. MaxStreams])
      BY DEF TypeOK
    <3>3. Head(queue) = queue[1] /\ Len(queue) \in Nat \ {0}
      BY <3>1, <3>2
    <3> QED
      BY <3>1, <3>2, <3>3, HeadTailProperties
  <2>2. Maybe(epoch)
    BY DEF TypeOK, Maybe, Sound
  <2>3. CASE queue[1].kind = "Start"
    BY <1>2, <2>1, <2>3 DEF Fed, OnStart, Opened
  <2>4. CASE queue[1].kind = "Chunk"
    <3> DEFINE old == IF epoch = None \/ epoch.kind = "Idle" THEN Opened("Stream")
                      ELSE epoch
               fed == [old EXCEPT !.heard = @ \cup {queue[1].stream}]
    <3>1. Sound(old) /\ (old.heard = {} \/ (epoch # None /\ old = epoch))
      BY <2>2, OpenedSound DEF Maybe, Opened
    <3>2. ep \in Rendered(fed)
      BY <1>2, <2>1, <2>4 DEF Fed, OnChunk
    <3> HIDE DEF old
    <3>3. Sound(fed) /\ fed.heard = old.heard \cup {queue[1].stream}
      BY <2>1, <3>1, HeardSound DEF Sound, Epochs
    <3>4. h \in old.heard \cup {queue[1].stream}
      BY <3>2, <3>3, RenderedHeard
    <3> QED
      BY <2>1, <2>4, <1>2, <3>1, <3>4 DEF HeardInv
  <2>5. CASE queue[1].kind = "End"
    <3>1. epoch # None /\ ep.heard = epoch.heard
      <4>1. CASE epoch # None /\ epoch.kind = "Stream" /\ ~epoch.finishing
        <5>1. PICK e \in Rendered(epoch) : ep = [e EXCEPT !.finishing = TRUE]
          BY <1>2, <2>1, <2>5, <4>1 DEF Fed, OnEnd
        <5>2. Sound(e) /\ e.heard = epoch.heard
          BY <2>2, <4>1, <5>1, RenderedSound, RenderedHeard DEF Maybe
        <5> QED
          BY <4>1, <5>1, <5>2 DEF Sound, Epochs
      <4>2. CASE ~(epoch # None /\ epoch.kind = "Stream" /\ ~epoch.finishing)
        BY <1>2, <2>1, <2>5, <4>2 DEF Fed, OnEnd
      <4> QED
        BY <4>1, <4>2
    <3> QED
      BY <1>2, <2>1, <2>5, <3>1 DEF HeardInv
  <2> QED
    BY <2>1, <2>3, <2>4, <2>5 DEF Kinds
<1> QED
  BY <1>1, <1>2

\* With the capture and its queue as they were, an epoch that heard no more is still of
\* the stream that comes next.
LEMMA HeardKept ==
    ASSUME HeardInv, UNCHANGED <<session, queue>>,
           \/ epoch' = None
           \/ epoch'.heard = {}
           \/ epoch # None /\ epoch'.heard = epoch.heard
    PROVE  HeardInv'
BY DEF HeardInv

\* So is a queue nothing was put in or taken from.
LEMMA QueueKept ==
    ASSUME QueueInv, UNCHANGED capture, at' = "reopen" => session = None
    PROVE  QueueInv'
BY DEF QueueInv, capture

\* A capture just opened, or kept with nothing queued, is in order.
LEMMA QueueEmptied ==
    ASSUME TypeOK, QueueInv, queue' = <<>>, streams' = streams, at' # "reopen",
           session' \in {None, session} \/ \E key \in Sources : session' = Capture(key)
    PROVE  QueueInv'
<1>1. Len(queue') = 0
  OBVIOUS
<1>2. session' # None =>
        session'.first <= streams' /\ (session'.in # 0 => session'.in > session'.first)
  BY BoundsAssumption DEF QueueInv, Capture, TypeOK
<1> QED
  BY <1>1, <1>2 DEF QueueInv

\* A message delivered is of the stream before it, or a Start.
LEMMA DeliverStream ==
    ASSUME TypeOK, QueueInv, HeardInv, NEW kind \in Kinds, Deliver(kind)
    PROVE  QueueInv' /\ HeardInv'
<1> DEFINE stream == IF kind = "Start" THEN streams + 1 ELSE session.in
           Messages == [kind : Kinds, stream : 1 .. MaxStreams]
<1>1. session \in Sessions /\ session # None /\ epoch' = epoch /\ at' = at
  BY DEF Deliver, TypeOK, host
<1>2. stream \in 1 .. MaxStreams /\ stream > session.first
  BY <1>1, BoundsAssumption DEF Deliver, TypeOK, QueueInv, Sessions
<1>3. streams' \in {streams, streams + 1} /\ streams \in Nat /\ session.first \in Nat
  BY <1>1, BoundsAssumption DEF Deliver, TypeOK, Sessions
<1>4. session'.in \in {0, stream} /\ session'.first = session.first
  BY <1>1, BoundsAssumption DEF Deliver, Sessions, Kinds
<1>5. /\ queue \in Seq(Messages) /\ Msg(kind, stream) \in Messages
      /\ queue' = Append(queue, Msg(kind, stream))
  BY <1>2 DEF Deliver, TypeOK, Msg
<1> DEFINE n == Len(queue)
<1> HIDE DEF stream, Messages
<1>6. /\ n \in Nat /\ Len(queue') = n + 1 /\ queue' # <<>>
      /\ \A i \in 1 .. n : queue'[i] = queue[i]
      /\ queue'[n + 1].kind = kind /\ queue'[n + 1].stream = stream
  <2>1. n \in Nat
    BY <1>5
  <2>2. queue'[n + 1] = Msg(kind, stream)
    BY <1>5, AppendProperties
  <2> QED
    BY <1>5, <2>1, <2>2, AppendProperties DEF Msg
<1>7. n # 0 <=> queue # <<>>
  BY <1>5, <1>6
<1>8. n # 0 /\ kind # "Start" => queue[n].stream = stream
  BY <1>1, <1>7 DEF Deliver, QueueInv, stream
<1>9. QueueInv'
  <2>1. \A i \in 1 .. n + 1 : queue'[i].stream > session.first
    BY <1>1, <1>2, <1>6 DEF QueueInv
  <2>2. \A i \in 1 .. n :
          queue'[i + 1].kind # "Start" => queue'[i + 1].stream = queue'[i].stream
    BY <1>6, <1>8 DEF QueueInv
  <2>3. session.first <= streams /\ (at = "reopen" => session = None)
    BY <1>1 DEF QueueInv
  <2>4. session'.first <= streams' /\ (session'.in # 0 => session'.in > session'.first)
    BY <1>2, <1>3, <1>4, <2>3
  <2>5. session'.in # 0 => queue'[Len(queue')].stream = session'.in
    BY <1>4, <1>6
  <2>6. \A i \in 1 .. Len(queue') : queue'[i].stream > session'.first
    BY <1>4, <1>6, <2>1
  <2>7. \A i \in 1 .. Len(queue') - 1 :
          queue'[i + 1].kind # "Start" => queue'[i + 1].stream = queue'[i].stream
    BY <1>6, <2>2
  <2>8. session' # None
    <3>1. session'.in \in 0 .. MaxStreams
      BY <1>2, <1>4, BoundsAssumption
    <3>2. session' \in Sessions
      BY <1>1, <3>1 DEF Deliver, Sessions
    <3> QED
      BY <3>2, NoneAssumption
  <2>9. at' # "reopen"
    BY <1>1, <2>3
  <2> QED
    BY <1>6, <2>4, <2>5, <2>6, <2>7, <2>8, <2>9 DEF QueueInv
<1>10. HeardInv'
  <2>1. ASSUME epoch # None, NEW h \in epoch.heard, queue'[1].kind # "Start"
        PROVE  queue'[1].stream = h
    <3>1. CASE n = 0
      BY <1>1, <1>6, <1>7, <2>1, <3>1 DEF HeardInv, Deliver, stream
    <3>2. CASE n # 0
      BY <1>1, <1>6, <1>7, <2>1, <3>2 DEF HeardInv
    <3> QED
      BY <3>1, <3>2
  <2> QED
    BY <1>1, <1>4, <1>6, <2>1 DEF HeardInv
<1> QED
  BY <1>9, <1>10

\* Nothing but the host and a delivery changes what is queued or heard.
LEMMA OthersStream ==
    TypeOK /\ QueueInv /\ HeardInv /\ (Client \/ PollDue \/ Environment \/ UNCHANGED vars)
      => QueueInv' /\ HeardInv'
<1> SUFFICES ASSUME TypeOK, QueueInv, HeardInv,
                    Client \/ PollDue \/ Environment \/ UNCHANGED vars
             PROVE  QueueInv' /\ HeardInv'
  OBVIOUS
<1>1. CASE \E kind \in Kinds : Deliver(kind)
  BY <1>1, DeliverStream
<1>2. CASE ~ \E kind \in Kinds : Deliver(kind)
  <2>1. UNCHANGED capture /\ (at' = at \/ at' = "ended")
    BY <1>2 DEF Client, PollDue, Environment, Stop, AskRestart, AskStandby, Resume, Adjust,
           Arm, AskApply, DeviceGoes, DeviceComes, DeviceAnswers, OfEpoch, host, capture,
           vars, Goto
  <2>2. epoch' = epoch \/ (epoch # None /\ epoch'.heard = epoch.heard)
    <3>1. CASE DeviceGoes
      BY <3>1 DEF DeviceGoes, TypeOK, Epochs
    <3>2. CASE DeviceAnswers
      BY <3>2 DEF DeviceAnswers, TypeOK, Epochs
    <3> QED
      BY <1>2, <3>1, <3>2 DEF Client, PollDue, Environment, Stop, AskRestart, AskStandby,
             Resume, Adjust, Arm, AskApply, DeviceComes, vars
  <2>3. QueueInv'
    BY <2>1, QueueKept DEF QueueInv
  <2>4. HeardInv'
    BY <2>1, <2>2, HeardKept DEF capture
  <2> QED
    BY <2>3, <2>4
<1> QED
  BY <1>1, <1>2

\* A message taken: what comes next is of the stream the epoch heard.
LEMMA TakeStream ==
    ASSUME TypeOK, QueueInv, HeardInv, Take
    PROVE  QueueInv' /\ HeardInv'
<1>1. UNCHANGED <<session, streams>> /\ at' = "flags"
  BY DEF Take, Goto
<1>2. ASSUME epoch' # None, NEW h \in epoch'.heard
      PROVE  IF Delivers THEN queue[1].kind # "Start" /\ queue[1].stream = h
             ELSE epoch # None /\ h \in epoch.heard
  <2>1. PICK ep \in UNION {Reported(e) : e \in UNION {IdleFed(g) : g \in Fed}} :
          epoch' = ep
    BY <1>2 DEF Take
  <2>2. PICK g \in Fed : \E f \in IdleFed(g) : ep \in Reported(f)
    BY <2>1
  <2>3. PICK f \in IdleFed(g) : ep \in Reported(f)
    BY <2>2
  <2>4. Maybe(g)
    BY <2>2, FedSound DEF TypeOK, Maybe, Sound
  <2>5. g # None /\ h \in g.heard
    BY <1>2, <2>1, <2>3, <2>4, FeedAndReportHeard DEF TypeOK
  <2> QED
    BY <2>2, <2>5, FedHeard
<1>3. CASE ~Delivers
  <2>1. queue' = queue
    BY <1>3 DEF Take
  <2>2. QueueInv'
    BY <1>1, <2>1, QueueKept DEF capture
  <2>3. ASSUME epoch' # None
        PROVE  epoch'.heard \subseteq epoch.heard /\ (epoch = None => epoch'.heard = {})
    BY <1>2, <1>3, <2>3
  <2>4. HeardInv'
    BY <1>1, <2>1, <2>3 DEF HeardInv
  <2> QED
    BY <2>2, <2>4
<1>4. CASE Delivers
  <2> DEFINE n == Len(queue)
  <2>1. /\ queue \in Seq([kind : Kinds, stream : 1 .. MaxStreams]) /\ queue # <<>>
        /\ queue' = Tail(queue) /\ session # None
    BY <1>4 DEF Take, Delivers, TypeOK, QueueInv
  <2>2. /\ n \in Nat /\ n # 0 /\ Len(queue') = n - 1
        /\ \A i \in 1 .. n - 1 : queue'[i] = queue[i + 1]
    BY <2>1, HeadTailProperties
  <2>3. queue' # <<>> <=> n # 1
    <3>1. queue' \in Seq([kind : Kinds, stream : 1 .. MaxStreams])
      BY <2>1, HeadTailProperties
    <3>2. queue' # <<>> => Len(queue') # 0
      BY <3>1, EmptySeq
    <3> QED
      BY <2>2, <3>2
  <2>4. QueueInv'
    <3>1. \A i \in 1 .. n - 1 : queue'[i].stream > session.first
      BY <2>1, <2>2 DEF QueueInv
    <3>2. \A i \in 1 .. n - 2 :
            queue'[i + 1].kind # "Start" => queue'[i + 1].stream = queue'[i].stream
      BY <2>1, <2>2 DEF QueueInv
    <3>3. session.in # 0 /\ queue' # <<>> => queue'[n - 1].stream = session.in
      BY <2>1, <2>2, <2>3 DEF QueueInv
    <3> HIDE DEF n
    <3>4. Len(queue') - 1 = n - 2
      BY <2>2
    <3> QED
      BY <1>1, <2>1, <2>2, <3>1, <3>2, <3>3, <3>4 DEF QueueInv
  <2>5. HeardInv'
    <3>1. ASSUME epoch' # None, NEW h \in epoch'.heard
          PROVE  queue[1].kind # "Start" /\ queue[1].stream = h
      BY <1>2, <1>4, <3>1
    <3>2. ASSUME queue' # <<>>, queue'[1].kind # "Start"
          PROVE  queue'[1].stream = queue[1].stream
      BY <2>2, <2>3, <3>2 DEF QueueInv
    <3>3. ASSUME queue' = <<>>, session.in # 0
          PROVE  session.in = queue[1].stream
      BY <2>1, <2>2, <2>3, <3>3 DEF QueueInv
    <3>4. queue[1].stream > session.first
      BY <2>1, <2>2 DEF QueueInv
    <3> QED
      BY <1>1, <3>1, <3>2, <3>3, <3>4 DEF HeardInv
  <2> QED
    BY <2>4, <2>5
<1> QED
  BY <1>3, <1>4

\* Every step of the host keeps the queue in order and the epoch of what comes next.
LEMMA HostStream == TypeOK /\ QueueInv /\ HeardInv /\ HostStep => QueueInv' /\ HeardInv'
<1> SUFFICES ASSUME TypeOK, QueueInv, HeardInv, HostStep PROVE QueueInv' /\ HeardInv'
  OBVIOUS
<1> USE DEF Goto
<1>1. CASE Begin \/ Leave \/ Requests \/ TryResume
  <2>1. UNCHANGED capture /\ at' # "reopen" /\ (epoch' = epoch \/ epoch' = None)
    BY <1>1 DEF Begin, Leave, Requests, TryResume
  <2> QED
    BY <2>1, QueueKept, HeardKept DEF capture
<1>2. CASE OpenFirst \/ Applied
  <2>1. epoch' = None
    BY <1>2 DEF OpenFirst, Applied, TypeOK, LoopSteps
  <2>2. /\ queue' = <<>> /\ streams' = streams /\ at' # "reopen"
        /\ session' \in {None, session} \/ \E key \in Sources : session' = Capture(key)
    BY <1>2 DEF OpenFirst, Applied, TypeOK
  <2> QED
    BY <2>1, <2>2, QueueEmptied DEF HeardInv
<1>3. CASE StandBy
  <2>1. epoch' = None
    BY <1>3 DEF StandBy, TypeOK, LoopSteps
  <2>2. UNCHANGED capture \/ (queue' = <<>> /\ UNCHANGED <<session, streams>>)
    BY <1>3 DEF StandBy, capture
  <2>3. at' # "reopen"
    BY <1>3 DEF StandBy
  <2> QED
    BY <2>1, <2>2, <2>3, QueueKept, QueueEmptied DEF HeardInv
<1>4. CASE TakeApply
  <2>1. /\ at' # "reopen" /\ epoch' = epoch /\ streams' = streams
        /\ UNCHANGED <<session, queue>> \/ (session' = None /\ queue' = <<>>)
    BY <1>4 DEF TakeApply
  <2>2. CASE UNCHANGED <<session, queue>>
    BY <2>1, <2>2, QueueKept, HeardKept DEF capture
  <2>3. CASE session' = None /\ queue' = <<>>
    <3>1. HeardInv'
      BY <2>1, <2>3 DEF HeardInv
    <3> QED
      BY <2>1, <2>3, <3>1, QueueEmptied
  <2> QED
    BY <2>1, <2>2, <2>3
<1>5. CASE NotApplied
  <2>1. /\ UNCHANGED capture /\ (epoch' = epoch \/ epoch' = None)
        /\ at' = "reopen" => session = None
    BY <1>5 DEF NotApplied
  <2> QED
    BY <2>1, QueueKept, HeardKept DEF capture
<1>6. CASE Reopen
  <2>1. /\ epoch' = None /\ queue' = <<>> /\ streams' = streams /\ at' # "reopen"
        /\ session' \in {None, session} \/ \E key \in Sources : session' = Capture(key)
    BY <1>6 DEF Reopen, TypeOK, LoopSteps, QueueInv
  <2> QED
    BY <2>1, QueueEmptied DEF HeardInv
<1>7. CASE Settle
  <2>1. epoch' = None \/ (epoch # None /\ epoch'.heard = epoch.heard)
    <3>1. epoch = None \/ Sound(epoch)
      BY DEF TypeOK, Sound
    <3>2. epoch' = None \/ (epoch # None /\ \E ep \in Pumped(epoch) : epoch' = Finishing(ep))
      BY <1>7 DEF Settle, PlayedOut
    <3> QED
      BY <3>1, <3>2, SettleHeard
  <2>2. UNCHANGED capture /\ at' # "reopen"
    BY <1>7 DEF Settle
  <2> QED
    BY <2>1, <2>2, QueueKept, HeardKept DEF capture
<1>8. CASE Take
  BY <1>8, TakeStream
<1> QED
  BY <1>1, <1>2, <1>3, <1>4, <1>5, <1>6, <1>7, <1>8 DEF HostStep

\* No epoch is given the bytes of two streams, nor those of a capture closed since, for
\* any queue, any number of streams and whatever happens in between.
THEOREM OneStream == Spec => []EpochIsOneStream
<1>1. Init => QueueInv /\ HeardInv
  BY BoundsAssumption DEF Init, QueueInv, HeardInv
<1>2. TypeOK /\ QueueInv /\ HeardInv /\ [Next]_vars => QueueInv' /\ HeardInv'
  BY OthersStream, HostStream DEF Next, Idle
<1>3. TypeOK /\ HeardInv => EpochIsOneStream
  <2> SUFFICES ASSUME TypeOK, HeardInv, epoch # None
               PROVE  /\ Cardinality(epoch.heard) <= 1
                      /\ session # None => \A s \in epoch.heard : s > session.first
    BY DEF EpochIsOneStream
  <2>1. \A g, h \in epoch.heard : g = h
    BY DEF HeardInv
  <2>2. epoch.heard = {} \/ \E h : epoch.heard = {h}
    BY <2>1
  <2>3. Cardinality(epoch.heard) <= 1
    <3>1. CASE epoch.heard = {}
      BY <3>1, FS_EmptySet
    <3>2. ASSUME NEW h, epoch.heard = {h} PROVE Cardinality(epoch.heard) <= 1
      <4>1. Cardinality({h}) = 1
        BY FS_Singleton
      <4> QED
        BY <3>2, <4>1
    <3> QED
      BY <2>2, <3>1, <3>2
  <2> QED
    BY <2>3 DEF HeardInv
<1> QED
  BY <1>1, <1>2, <1>3, TypeCorrect, PTL DEF Spec

=============================================================================
