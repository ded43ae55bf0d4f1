-------------------------- MODULE LiveHandoffTurns --------------------------
(***************************************************************************)
(* Proofs about LiveHandoff while instances follow one another, for any    *)
(* engines of the player and any budget: unsaved changes cross every       *)
(* hand-over, and nobody who may save serves what is behind the file.       *)
(*                                                                         *)
(* In turn, at most one engine has the user's state in hand (Runs): then no*)
(* sidecar waits, and its process keeps what it consumed only while that is*)
(* unsaved.  Between two of them the state is in the sidecar, in what the  *)
(* next process consumed, or in the file.                                  *)
(***************************************************************************)
EXTENDS LiveHandoffProofs

-----------------------------------------------------------------------------
(* The inductive invariant.                                                *)

\* A listener that takes over what the player left.
Adopting(e) == op[e].at \in {"adopt", "adopted"}

\* The player's engine is about to load what it will run.
Coming == main[First] \in {"preloaded", "reserved"}
\* The player's engine goes without the port.
Deaf == main[First] \notin {"off", "preloaded"} /\ port # First

\* Who holds the port and who waits for it.
PlaceInv ==
    /\ port \in {None, Cli, First}
    /\ \A e \in Engines : main[e] \in Held \ {"on"} => OpAt(e, "idle")
    /\ main[Cli] \notin {"preloaded", "reserved"}
    /\ main[Cli] \in {"loaded", "built"} => At(First, "off") /\ port = None
    /\ main[Cli] \in Held <=> port = Cli
    /\ main[First] \in {"off", "preloaded"} => port # First
    /\ main[First] \notin {"standby", "resuming"}
    /\ own[First].goal \notin {"standby", "reload"}
    /\ Starting(First) /\ Deaf => At(Cli, "on") /\ ~left.yields
    /\ main[Cli] \in Held \ {"on", "release"} => own[Cli].goal # "reload"
    /\ ~left.yields =>
         /\ ~asked /\ own[Cli].goal # "standby" /\ ~Adopting(Cli)
         /\ main[Cli] \notin {"standby", "resuming"}

\* The engine that has the user's state in its hands.
Runs(e) ==
    \/ main[e] \in {"loaded", "built"} /\ (e = Cli \/ port = e)
    \/ /\ main[e] \in {"on", "leaving", "collect", "write"} /\ port = e
       /\ ~Adopting(e)

\* Its state is marked unsaved, or will be once it is built.
Unsaved(e) ==
    IF ~At(e, "loaded") THEN dirty[e]
    ELSE IF e = Cli THEN cache["cli"] # None ELSE own[e].restored

\* A sidecar waits only while no engine has the user's state in hand ...
SidecarInv ==
    /\ \A e \in Engines :
        /\ Runs(e) \/ OpAt(e, "adopted") => sidecar = None
        /\ At(e, "release") /\ own[e].goal = "reload" => sidecar = None
        /\ ~OpAt(e, "amendWrite")
    /\ At(First, "preloaded") /\ cache["player"] # None =>
         At(Cli, "off") /\ sidecar = None

\* ... and what a process consumed of it is kept only while it is unsaved.
CacheAt(e) ==
    /\ main[e] \in {"loaded", "built", "on", "leaving"} /\ ~Adopting(e) =>
         Unsaved(e) \/ cache[ProcessOf(e)] = None
    /\ op[e].at \in {"clean", "reread"} => cache[ProcessOf(e)] = None
    /\ At(e, "release") => own[e].goal = "reload" \/ cache[ProcessOf(e)] = None

CacheInv ==
    /\ At(First, "off") \/ Deaf => cache["player"] = None
    /\ main[Cli] \in {"off", "standby", "resuming"} \/ OpAt(Cli, "adopt") =>
         cache["cli"] = None
    /\ OpAt(Cli, "adopted") => op[Cli].out.restored \/ cache["cli"] = None
    /\ \A e \in Engines : CacheAt(e)

\* An engine marked unsaved is built, and one that goes without the port has
\* nothing to hand over.
DirtyInv ==
    /\ \A e \in Engines :
        /\ main[e] \in {"collect", "write", "forget"} => dirty[e]
        /\ main[e] \in {"off", "preloaded", "reserved", "loaded"} => ~dirty[e]
        /\ main[e] \in {"off", "preloaded", "reserved"} => ~own[e].restored
    /\ Deaf => ~dirty[First] /\ ~own[First].restored

\* Not behind the file, but for what rests on the defaults ...
Ahead(c) == ~c.d => c.r >= file.r /\ c.v >= file.v
\* ... or an overlay that tells it may be.
Handed(o) == o.fallback \/ Ahead(o)

\* An engine that may not save, or will be told so once it is built.
Refused(e) ==
    IF At(e, "loaded")
    THEN cache[ProcessOf(e)] # None /\ cache[ProcessOf(e)].fallback
    ELSE status[e] = "parse_error"

\* Whatever may be served is ahead of the file, unless its Saves are refused.
AheadAt(e) ==
    /\ Runs(e) => Refused(e) \/ Ahead(live[e])
    /\ At(e, "write") => Handed(own[e].out)
    /\ OpAt(e, "view") /\ op[e].out # None => op[e].out.v = live[e].v

AheadInv ==
    /\ sidecar # None => Handed(sidecar)
    /\ Coming /\ cache["player"] # None => Handed(cache["player"])
    /\ OpAt(Cli, "adopted") /\ op[Cli].out.says # None =>
         op[Cli].out.fallback \/ Ahead(op[Cli].out.says)
    /\ \A e \in Engines : AheadAt(e)

\* The file says what the user heard.
Filed == ~file.broken /\ file.r = heard

\* What a process would load or adopt is what the user heard.
StoredFor(p) == IF Restored(p) THEN WithLive(p).r = heard ELSE Filed
\* The process that will.
Heir == IF Coming THEN "player" ELSE "cli"

\* No engine has the user's state in hand.
Between ==
    \/ port = None /\ main[Cli] \in {"off", "standby", "resuming"}
    \/ \E e \in Engines : /\ main[e] \in {"forget", "release"} /\ port = e
                          /\ own[e].goal # "reload"
    \/ At(First, "reserved") /\ port = First
    \/ OpAt(Cli, "adopt")

\* The user's state is somewhere: in an engine's hands, in the file too unless
\* it is marked unsaved, or stored for the next.
HeardAt(e) ==
    /\ Runs(e) => live[e].r = heard /\ (Unsaved(e) \/ Filed)
    /\ op[e].at \in {"discard", "clear", "clean"} => Filed
    /\ At(e, "write") => own[e].out.r = heard /\ ~own[e].out.stale
    /\ At(e, "forget") => Fresh

HeardInv ==
    /\ Between => StoredFor(Heir)
    /\ OpAt(Cli, "adopted") =>
         /\ op[Cli].out.says # None /\ op[Cli].out.says.r = heard
         /\ op[Cli].out.restored \/ Filed
    /\ \A e \in Engines : HeardAt(e)

TurnInv ==
    /\ OneEach /\ PlaceInv /\ SidecarInv /\ CacheInv /\ DirtyInv /\ AheadInv
    /\ ~excused => HeardInv

-----------------------------------------------------------------------------
(* Who is where.                                                           *)

\* What may not happen in turn.
Calm ==
    /\ ~Allowed("late") /\ ~Allowed("overlap") /\ ~Allowed("sleeper")
    /\ ~Allowed("together")

\* In turn, instances follow one another.
LEMMA TurnIsCalm == InTurn => Calm
BY DEF InTurn, Calm, Allowed

\* The two engines are apart.
LEMMA Two ==
    /\ Cli \in Engines /\ First \in Engines /\ First # Cli
    /\ ProcessOf(Cli) = "cli" /\ ProcessOf(First) = "player"
    /\ {"cli", "player"} = Processes /\ None \notin Engines
BY Names, EnginesAssumption DEF ProcessOf, Processes

\* Any other engine is off and does nothing.
LEMMA OthersOff ==
    ASSUME Kept, OneEach, NEW e \in Engines
    PROVE  e \in {Cli, First} \/ (main[e] = "off" /\ op[e].at = "idle")
BY DEF Kept, HandInv, OneEach, At, Held

\* A control goes on while its engine is on and has the port.
LEMMA AtWork ==
    ASSUME Kept, OneEach, PlaceInv, NEW e \in Engines, ~OpAt(e, "idle")
    PROVE  e \in {Cli, First} /\ At(e, "on") /\ port = e
BY OthersOff DEF Kept, HandInv, PlaceInv, Held, At, OpAt

\* A start.
LEMMA StartPlace ==
    ASSUME Kept, Calm, OneEach, PlaceInv, NEW e \in Engines,
           \/ Preload(e) \/ Reserve(e) \/ Reclaim(e) \/ GiveUp(e) \/ Load(e)
           \/ Build(e) \/ Listen(e) \/ RunDeaf(e)
    PROVE  PlaceInv'
<1>1. /\ main \in [Engines -> Places] /\ own \in [Engines -> Owns]
      /\ left \in BudgetType
  BY DEF Kept, TypeInv
<1>2. e \in {Cli, First}
  BY StartsAlone DEF Calm, Preload, Reserve, Reclaim, GiveUp, Load, Build,
       Listen, RunDeaf, At
<1>3. CASE Preload(e)
  BY <1>1, <1>2, <1>3, Two DEF Preload, MayStart, Calm, PlaceInv, Starting, Deaf,
       Adopting, At, OpAt, Goto, Held, Settled, Spend, threads, signals, BudgetType
<1>4. CASE Reserve(e)
  BY <1>1, <1>2, <1>4, Two DEF Reserve, PlaceInv, Starting, Deaf,
       Adopting, At, OpAt, Goto, Held, threads, signals
<1>5. CASE Reclaim(e)
  BY <1>1, <1>2, <1>5, Two, Names, EnginesAssumption DEF Reclaim, PlaceInv,
       Starting, Deaf, Adopting, At, OpAt, Goto, Held, threads, signals
<1>6. CASE GiveUp(e)
  BY <1>1, <1>2, <1>6, Two DEF GiveUp, PlaceInv, Starting, Deaf,
       Adopting, At, OpAt, Goto, Held, threads, signals
<1>7. CASE Load(e)
  <2>1. own' = [own EXCEPT ![e].restored = Restored(ProcessOf(e))]
    BY <1>7 DEF Load
  <2>2. \A f \in Engines : own'[f].goal = own[f].goal
    BY <1>1, <2>1 DEF Owns
  <2> QED
    BY <1>1, <1>2, <1>7, <2>2, Two DEF Load, MayStart, Calm, PlaceInv, Starting,
         Deaf, Adopting, At, OpAt, Goto, Held, Settled, Spend, threads, signals,
         BudgetType
<1>8. CASE Build(e)
  BY <1>1, <1>2, <1>8, Two DEF Build, PlaceInv, Starting, Deaf, NoOwn,
       Adopting, At, OpAt, Goto, Held, threads, signals
<1>9. CASE Listen(e)
  BY <1>1, <1>2, <1>9, Two DEF Listen, PlaceInv, Starting, Deaf,
       Adopting, At, OpAt, Goto, Held, threads, signals
<1>10. CASE RunDeaf(e)
  BY <1>1, <1>2, <1>10, Two DEF RunDeaf, PlaceInv, Starting, Deaf,
       Adopting, At, OpAt, Goto, Held, threads, signals
<1> QED
  BY <1>3, <1>4, <1>5, <1>6, <1>7, <1>8, <1>9, <1>10

\* What the user or another process asks for.
LEMMA AskedPlace ==
    ASSUME Kept, Calm, OneEach, PlaceInv, NEW e \in Engines,
           \/ Edit(e) \/ SaveBegin(e) \/ View(e) \/ ReloadBegin(e)
           \/ \E known \in BOOLEAN : AskYield(e, known)
    PROVE  PlaceInv'
<1>1. op \in [Engines -> Ops] /\ left \in BudgetType
  BY DEF Kept, TypeInv
<1>2. main' = main /\ own' = own /\ port' = port /\ left'.yields = left.yields
  BY <1>1 DEF Edit, SaveBegin, View, ReloadBegin, AskYield, threads, Spend,
       BudgetType
<1>3. asked' = asked \/ left.yields
  BY DEF Edit, SaveBegin, View, ReloadBegin, AskYield, signals
<1>4. \A f \in Engines :
          op'[f] = op[f] \/ (main[f] = "on" /\ op'[f].at \notin {"adopt", "adopted"})
  BY <1>1 DEF Edit, SaveBegin, View, ReloadBegin, AskYield, Listening, Calm, At,
       OpGoto, threads, Ops
<1> QED
  BY <1>2, <1>3, <1>4, Two DEF PlaceInv, Starting, Deaf, Adopting, At, OpAt, Held

\* A control that goes on.
LEMMA ControlPlace ==
    ASSUME Kept, OneEach, PlaceInv, NEW e \in Engines, Control(e)
    PROVE  PlaceInv'
<1>1. op \in [Engines -> Ops]
  BY DEF Kept, TypeInv
<1>2. /\ main' = main /\ own' = own /\ port' = port /\ left' = left /\ asked' = asked
      /\ ~OpAt(e, "idle")
  BY DEF Control, BackUp, Copied, Rename, Remove, Clear, MarkClean, ViewWrite,
       AmendCache, AmendRead, AmendWrite, Reread, AdoptLoad, AdoptApply, threads,
       signals, OpAt
<1>3. /\ \A f \in Engines \ {e} : op'[f] = op[f]
      /\ op'[e].at \in {"adopt", "adopted"} => Adopting(e)
  BY <1>1 DEF Control, BackUp, Copied, Rename, Remove, Clear, MarkClean, ViewWrite,
       AmendCache, AmendRead, AmendWrite, Reread, AdoptLoad, AdoptApply, OpAt,
       OpGoto, OpEnds, NoOp, Ops, Adopting
<1>4. At(e, "on")
  BY <1>2, AtWork
<1> QED
  BY <1>2, <1>3, <1>4, Two DEF PlaceInv, Starting, Deaf, Adopting, At, OpAt, Held

\* An engine that leaves goes on leaving.
LEMMA LeavePlace ==
    ASSUME Kept, Calm, OneEach, PlaceInv, NEW e \in Engines, 
           Leaving(e) \/ \E known \in BOOLEAN : Drop(e, known)
    PROVE  PlaceInv'
<1>1. /\ main \in [Engines -> Places] /\ own \in [Engines -> Owns]
      /\ op \in [Engines -> Ops]
  BY DEF Kept, TypeInv
<1>2. e \in {Cli, First}
  BY StartsAlone DEF Calm, Leaving, HandOver, Collect, WriteSidecar, Forget,
       Release, Drop, At
<1>3. CASE HandOver(e) \/ WriteSidecar(e) \/ Forget(e)
  BY <1>1, <1>2, <1>3, Two DEF HandOver, WriteSidecar, Forget, PlaceInv,
       Starting, Deaf, Adopting, At, OpAt, Goto, Held, threads, signals
<1>4. CASE Collect(e)
  <2>1. \A f \in Engines : own'[f].goal = own[f].goal
    BY <1>1, <1>4 DEF Collect, Owns
  <2> QED
    BY <1>1, <1>2, <1>4, <2>1, Two DEF Collect, PlaceInv, Starting, Deaf,
         Adopting, At, OpAt, Goto, Held, threads, signals
<1>5. CASE Release(e)
  <2>1. asked' \in {asked, FALSE} /\ left' = left
    BY <1>5 DEF Release, signals
  <2> QED
    BY <1>1, <1>2, <1>5, <2>1, Two DEF Release, PlaceInv, Starting, Deaf,
         Adopting, At, OpAt, Goto, Held, NoOwn
<1>6. CASE \E known \in BOOLEAN : Drop(e, known)
  <2>1. /\ main' = [main EXCEPT ![e] = "leaving"] /\ OpAt(e, "idle") /\ e # Cli
        /\ own' = [own EXCEPT ![e].goal = "quit"] /\ At(e, "on")
        /\ UNCHANGED <<op, port, asked, left>>
    BY <1>6 DEF Drop, Leave, Calm
  <2>2. own'[Cli] = own[Cli] /\ own'[First].goal \notin {"standby", "reload"}
    BY <1>1, <1>2, <2>1, Two DEF Owns
  <2> QED
    BY <1>1, <1>2, <2>1, <2>2, Two DEF PlaceInv, Starting, Deaf, Adopting, At,
         OpAt, Held
<1> QED
  BY <1>3, <1>4, <1>5, <1>6 DEF Leaving

\* The CLI stands by, ends, restarts or comes back.
LEMMA CliPlace ==
    ASSUME Kept, Calm, OneEach, PlaceInv,
           \/ EnterStandby \/ Quit \/ Restart \/ ComeBack \/ ResumeEarly
    PROVE  PlaceInv'
<1>1. /\ main \in [Engines -> Places] /\ own \in [Engines -> Owns]
      /\ op \in [Engines -> Ops] /\ left \in BudgetType
  BY DEF Kept, TypeInv
<1>2. CASE EnterStandby \/ Quit
  <2>1. /\ main' = [main EXCEPT ![Cli] = "leaving"] /\ OpAt(Cli, "idle")
        /\ At(Cli, "on") /\ asked' \in {asked, FALSE}
        /\ UNCHANGED <<op, port, left>>
    BY <1>2 DEF EnterStandby, Quit, Leave, Calm, signals
  <2>2. own'[First] = own[First] /\ own'[Cli].goal \in {"standby", "quit"}
    BY <1>1, <1>2, Two DEF EnterStandby, Quit, Leave, Owns
  <2>3. /\ ~left.yields => own'[Cli].goal = "quit"
        /\ ~left.yields => ~Starting(First)
    BY <1>1, <1>2, Two, Names DEF EnterStandby, Quit, Leave, Owns, PlaceInv,
         NobodyStarts, Calm
  <2>4. main'[Cli] = "leaving" /\ \A f \in Engines \ {Cli} : main'[f] = main[f]
    BY <1>1, <2>1, Two
  <2>5. (Starting(First) /\ Deaf => At(Cli, "on") /\ ~left.yields)'
    BY <2>1, <2>3, <2>4, Two DEF PlaceInv, Starting, Deaf, At
  <2>6. (~left.yields => /\ ~asked /\ own[Cli].goal # "standby" /\ ~Adopting(Cli)
                         /\ main[Cli] \notin {"standby", "resuming"})'
    BY <2>1, <2>2, <2>3, <2>4, Two DEF PlaceInv, Adopting
  <2>7. (main[Cli] \in Held <=> port = Cli)'
    BY <2>1, <2>4 DEF PlaceInv, Held, At
  <2> QED
    BY <2>1, <2>2, <2>4, <2>5, <2>6, <2>7, Two DEF PlaceInv, At, OpAt
<1>3. CASE Restart
  <2>1. /\ main' = [main EXCEPT ![Cli] = "release"] /\ OpAt(Cli, "idle")
        /\ At(Cli, "on") /\ UNCHANGED <<op, port, asked>> /\ ~Starting(First)
        /\ left'.yields = left.yields
    BY <1>1, <1>3, Names DEF Restart, Goto, Spend, signals, NobodyStarts, Calm,
         BudgetType
  <2>2. own'[First] = own[First] /\ own'[Cli].goal = "reload"
    BY <1>1, <1>3, Two DEF Restart, Owns
  <2> QED
    BY <1>1, <2>1, <2>2, Two DEF PlaceInv, Starting, Deaf, Adopting, At,
         OpAt, Held
<1>4. CASE Probe \/ Wake \/ ResumeEarly
  BY <1>1, <1>4, Two DEF Probe, Wake, ResumeEarly, Calm, PlaceInv, Starting, Deaf,
       Adopting, At, OpAt, Goto, Held, threads, signals
<1>5. CASE Resume
  <2>1. op' = [op EXCEPT ![Cli].at = "adopt"]
    BY <1>5 DEF Resume, OpGoto
  <2> QED
    BY <1>1, <1>5, <2>1, Two DEF Resume, PlaceInv, Starting, Deaf, Adopting, At,
         OpAt, Goto, Held, signals
<1>6. CASE StandAgain
  BY <1>6 DEF StandAgain, Calm
<1> QED
  BY <1>2, <1>3, <1>4, <1>5, <1>6 DEF ComeBack

\* A process dies, the file is edited, the sidecar ages.
LEMMA WorldPlace ==
    ASSUME Kept, Calm, OneEach, PlaceInv,
           (\E p \in Processes : Crash(p)) \/ HandEdit \/ Expire
    PROVE  PlaceInv'
<1>1. /\ main \in [Engines -> Places] /\ own \in [Engines -> Owns]
      /\ op \in [Engines -> Ops] /\ left \in BudgetType
  BY DEF Kept, TypeInv
<1>2. left'.yields = left.yields
  BY <1>1 DEF Crash, HandEdit, Expire, Spend, BudgetType
<1>3. CASE HandEdit \/ Expire
  BY <1>2, <1>3 DEF HandEdit, Expire, PlaceInv, Starting, Deaf, Adopting, At,
       OpAt, threads, signals
<1>4. ASSUME NEW p \in Processes, Crash(p)
      PROVE  PlaceInv'
  <2>1. /\ \A f \in Engines :
              IF ProcessOf(f) = p
              THEN main'[f] = "off" /\ own'[f] = NoOwn /\ op'[f] = NoOp
              ELSE main'[f] = main[f] /\ own'[f] = own[f] /\ op'[f] = op[f]
        /\ port' = IF port \in Engines /\ ProcessOf(port) = p THEN None ELSE port
        /\ asked' = asked \/ ~asked'
        /\ p = "cli" /\ ~left.yields => ~Starting(First)
    BY <1>4, Names DEF Crash, NobodyStarts, Calm
  <2>2. \A f \in Engines : \/ main'[f] = "off" /\ op'[f].at = "idle"
                           \/ main'[f] = main[f] /\ op'[f] = op[f]
    BY <2>1 DEF NoOp
  <2>3. CASE p = "cli"
    <3>1. /\ main'[Cli] = "off" /\ own'[Cli] = NoOwn /\ op'[Cli] = NoOp
          /\ main'[First] = main[First] /\ own'[First] = own[First]
          /\ port' = IF port = Cli THEN None ELSE port
      BY <2>1, <2>3, Two DEF PlaceInv
    <3>2. (Starting(First) /\ Deaf => At(Cli, "on") /\ ~left.yields)'
      BY <1>2, <2>1, <2>3, <3>1, Two DEF PlaceInv, Starting, Deaf, At
    <3>3. (~left.yields => /\ ~asked /\ own[Cli].goal # "standby" /\ ~Adopting(Cli)
                           /\ main[Cli] \notin {"standby", "resuming"})'
      BY <1>2, <2>1, <3>1 DEF PlaceInv, Adopting, NoOp, NoOwn
    <3> QED
      BY <2>2, <3>1, <3>2, <3>3, Two DEF PlaceInv, At, OpAt, Held
  <2>4. CASE p = "player"
    <3>1. /\ main'[First] = "off" /\ own'[First] = NoOwn
          /\ main'[Cli] = main[Cli] /\ own'[Cli] = own[Cli] /\ op'[Cli] = op[Cli]
          /\ port' = IF port = First THEN None ELSE port
      BY <2>1, <2>4, Two DEF PlaceInv
    <3>2. (Starting(First) /\ Deaf => At(Cli, "on") /\ ~left.yields)'
      BY <3>1 DEF Starting
    <3>3. (~left.yields => /\ ~asked /\ own[Cli].goal # "standby" /\ ~Adopting(Cli)
                           /\ main[Cli] \notin {"standby", "resuming"})'
      BY <1>2, <2>1, <3>1 DEF PlaceInv, Adopting
    <3> QED
      BY <2>2, <3>1, <3>2, <3>3, Two DEF PlaceInv, At, OpAt, Held, NoOwn
  <2> QED
    BY <2>3, <2>4 DEF Processes
<1> QED
  BY <1>3, <1>4

\* No step moves an engine where PlaceInv does not want it.
LEMMA NextPlace ==
    ASSUME Kept, Calm, OneEach, PlaceInv, [Next]_vars
    PROVE  PlaceInv'
<1>1. CASE UNCHANGED vars
  BY <1>1 DEF vars, threads, signals, PlaceInv, Starting, Deaf, Adopting, At, OpAt
<1> QED
  BY <1>1, StartPlace, AskedPlace, ControlPlace, LeavePlace, CliPlace, WorldPlace
     DEF Next

-----------------------------------------------------------------------------
(* Where the sidecar and the overlays are.                                 *)

\* Two engines never have the user's state in hand, nor one and what another
\* left.
LEMMA OneRuns ==
    ASSUME Kept, OneEach, PlaceInv, NEW e \in Engines, Runs(e)
    PROVE  /\ e \in {Cli, First} /\ (main[e] \in {"loaded", "built"} \/ port = e)
           /\ \A f \in Engines \ {e} : ~Runs(f)
           /\ \A f \in Engines \ {e} : OpAt(f, "idle")
<1>1. \A f \in Engines : Runs(f) => f \in {Cli, First}
  BY Two DEF Runs, OneEach, At
<1>2. \A f \in Engines : ~OpAt(f, "idle") => port = f /\ main[f] = "on"
  BY AtWork DEF At
<1>3. e = Cli => main[Cli] \in {"loaded", "built"} \/ port = Cli
  BY Two DEF Runs
<1>4. e = First => port = First
  BY Two DEF Runs
<1>5. CASE e = Cli
  BY <1>1, <1>2, <1>3, <1>5, Two DEF PlaceInv, Runs, At, Held
<1>6. CASE e = First
  BY <1>1, <1>2, <1>4, <1>6, Two DEF PlaceInv, Runs, At, Held
<1> QED
  BY <1>1, <1>5, <1>6

\* A start.
LEMMA StartDirty ==
    ASSUME Kept, Calm, OneEach, PlaceInv, PlaceInv', SidecarInv, CacheInv, DirtyInv,
           NEW e \in Engines,
           \/ Preload(e) \/ Reserve(e) \/ Reclaim(e) \/ GiveUp(e) \/ Load(e)
           \/ Build(e) \/ Listen(e) \/ RunDeaf(e)
    PROVE  DirtyInv'
<1>1. /\ main \in [Engines -> Places] /\ own \in [Engines -> Owns]
      /\ dirty \in [Engines -> BOOLEAN]
  BY DEF Kept, TypeInv
<1>2. e \in {Cli, First}
  BY StartsAlone DEF Calm, Preload, Reserve, Reclaim, GiveUp, Load, Build,
       Listen, RunDeaf, At
<1>3. CASE Preload(e)
  BY <1>1, <1>2, <1>3, Two DEF Preload, MayStart, DirtyInv, Deaf, At, Goto,
       threads, engine
<1>4. CASE Reserve(e)
  BY <1>1, <1>2, <1>4, Two DEF Reserve, DirtyInv, Deaf, At, Goto, threads, engine
<1>5. CASE Reclaim(e)
  BY <1>1, <1>2, <1>5, Two, Names, EnginesAssumption DEF Reclaim, DirtyInv, Deaf,
       At, Goto, threads, engine, PlaceInv
<1>6. CASE GiveUp(e)
  BY <1>1, <1>2, <1>6, Two DEF GiveUp, DirtyInv, Deaf, At, Goto, threads, engine
<1>7. CASE Load(e)
  <2>1. /\ \A f \in Engines \ {e} : own'[f] = own[f]
        /\ own'[e].restored = Restored(ProcessOf(e))
    BY <1>1, <1>7 DEF Load, Owns
  <2>2. e = First /\ Deaf' => ~Restored("player")
    <3> SUFFICES ASSUME e = First, Deaf'
                 PROVE  ~Restored("player")
      OBVIOUS
    <3>1. Deaf /\ At(First, "reserved") /\ Starting(First)
      BY <1>1, <1>7, Two DEF Deaf, Load, At, Starting
    <3>2. Runs(Cli)
      BY <3>1, Two DEF PlaceInv, Runs, At, Held
    <3> QED
      BY <3>1, <3>2, Two DEF SidecarInv, CacheInv, Restored, Fresh
  <2> QED
    BY <1>1, <1>2, <1>7, <2>1, <2>2, Two DEF Load, MayStart, DirtyInv, Deaf, At,
         Goto, PlaceInv, Held
<1>8. CASE Build(e)
  <2>1. e = First /\ Deaf' => ~own[First].restored
    BY <1>1, <1>8, Two DEF Build, Deaf, At, DirtyInv
  <2> QED
    BY <1>1, <1>2, <1>8, <2>1, Two DEF Build, DirtyInv, Deaf, At, Goto, NoOwn,
         threads, PlaceInv, Held
<1>9. CASE Listen(e)
  BY <1>1, <1>2, <1>9, Two DEF Listen, DirtyInv, Deaf, At, Goto, threads, engine
<1>10. CASE RunDeaf(e)
  BY <1>1, <1>2, <1>10, Two DEF RunDeaf, DirtyInv, Deaf, At, Goto, threads, engine
<1> QED
  BY <1>3, <1>4, <1>5, <1>6, <1>7, <1>8, <1>9, <1>10

\* The controls, those that begin and those that go on.
LEMMA ControlDirty ==
    ASSUME Kept, Calm, OneEach, PlaceInv, DirtyInv, NEW e \in Engines,
           \/ Edit(e) \/ SaveBegin(e) \/ View(e) \/ ReloadBegin(e) \/ Control(e)
           \/ \E known \in BOOLEAN : AskYield(e, known)
    PROVE  DirtyInv'
<1>1. dirty \in [Engines -> BOOLEAN]
  BY DEF Kept, TypeInv
<1>2. main' = main /\ own' = own /\ port' = port
  BY DEF Edit, SaveBegin, View, ReloadBegin, Control, BackUp, Copied, Rename,
       Remove, Clear, MarkClean, ViewWrite, AmendCache, AmendRead, AmendWrite,
       Reread, AdoptLoad, AdoptApply, AskYield, threads
<1>3. dirty' = dirty \/ (main[e] = "on" /\ port = e)
  BY AtWork DEF Edit, SaveBegin, View, ReloadBegin, Control, BackUp, Copied,
       Rename, Remove, Clear, MarkClean, ViewWrite, AmendCache, AmendRead,
       AmendWrite, Reread, AdoptLoad, AdoptApply, AskYield, Listening, Calm, At,
       OpAt, engine
<1>4. \A f \in Engines \ {e} : dirty'[f] = dirty[f]
  BY <1>1 DEF Edit, SaveBegin, View, ReloadBegin, Control, BackUp, Copied, Rename,
       Remove, Clear, MarkClean, ViewWrite, AmendCache, AmendRead, AmendWrite,
       Reread, AdoptLoad, AdoptApply, AskYield, engine
<1> QED
  BY <1>2, <1>3, <1>4, Two DEF DirtyInv, Deaf

\* An engine leaves.
LEMMA LeaveDirty ==
    ASSUME Kept, Calm, OneEach, PlaceInv, DirtyInv, NEW e \in Engines, 
           Leaving(e) \/ \E known \in BOOLEAN : Drop(e, known)
    PROVE  DirtyInv'
<1>1. /\ main \in [Engines -> Places] /\ own \in [Engines -> Owns]
      /\ dirty \in [Engines -> BOOLEAN]
  BY DEF Kept, TypeInv
<1>2. e \in {Cli, First}
  BY StartsAlone DEF Calm, Leaving, HandOver, Collect, WriteSidecar, Forget,
       Release, Drop, At
<1>3. CASE HandOver(e) \/ WriteSidecar(e) \/ Forget(e)
  BY <1>1, <1>2, <1>3, Two DEF HandOver, WriteSidecar, Forget, DirtyInv, Deaf, At,
       Goto, threads, engine
<1>4. CASE Collect(e)
  <2>1. \A f \in Engines : own'[f].restored = own[f].restored
    BY <1>1, <1>4 DEF Collect, Owns
  <2> QED
    BY <1>1, <1>2, <1>4, <2>1, Two DEF Collect, DirtyInv, Deaf, At, Goto, engine
<1>5. CASE Release(e)
  <2>1. /\ own[e].goal = "standby" \/ ~dirty'[e]
        /\ \A f \in Engines \ {e} : dirty'[f] = dirty[f]
    BY <1>1, <1>5 DEF Release, Gone, engine
  <2>2. own'[e] = NoOwn /\ \A f \in Engines \ {e} : own'[f] = own[f]
    BY <1>1, <1>5 DEF Release
  <2>3. main'[e] = IF own[e].goal = "standby" THEN "standby" ELSE "off"
    BY <1>1, <1>5 DEF Release, Goto
  <2>4. \A f \in Engines \ {e} : main'[f] = main[f]
    BY <1>1, <1>5 DEF Release, Goto
  <2>5. port' = IF port = e THEN None ELSE port
    BY <1>5 DEF Release
  <2>6. e = First => main'[First] = "off"
    BY <2>3 DEF PlaceInv
  <2> QED
    BY <1>2, <2>1, <2>2, <2>3, <2>4, <2>5, <2>6, Two DEF DirtyInv, Deaf, NoOwn
<1>6. CASE \E known \in BOOLEAN : Drop(e, known)
  <2>1. \A f \in Engines : own'[f].restored = own[f].restored
    BY <1>1, <1>6 DEF Drop, Leave, Owns
  <2> QED
    BY <1>1, <1>2, <1>6, <2>1, Two DEF Drop, Leave, DirtyInv, Deaf, At, engine
<1> QED
  BY <1>3, <1>4, <1>5, <1>6 DEF Leaving

\* The CLI stands by, ends, restarts or comes back.
LEMMA CliDirty ==
    ASSUME Kept, Calm, OneEach, PlaceInv, DirtyInv,
           \/ EnterStandby \/ Quit \/ Restart \/ ComeBack \/ ResumeEarly
    PROVE  DirtyInv'
<1>1. /\ main \in [Engines -> Places] /\ own \in [Engines -> Owns]
  BY DEF Kept, TypeInv
<1>2. /\ \A f \in Engines : own'[f].restored = own[f].restored
      /\ dirty' = dirty
  BY <1>1 DEF EnterStandby, Quit, Restart, ComeBack, Probe, Wake, Resume,
       StandAgain, ResumeEarly, Leave, Owns, threads, engine
<1>3. /\ main'[Cli] \in {main[Cli], "leaving", "release", "resuming", "on"}
      /\ main'[Cli] = main[Cli] \/ main[Cli] \in {"on", "standby", "resuming"}
      /\ \A f \in Engines \ {Cli} : main'[f] = main[f]
  BY <1>1, Two DEF EnterStandby, Quit, Restart, ComeBack, Probe, Wake, Resume,
       StandAgain, ResumeEarly, Leave, Goto, At, threads
<1>4. port' = port \/ (port = None /\ port' = Cli)
  BY DEF EnterStandby, Quit, Restart, ComeBack, Probe, Wake, Resume, StandAgain,
       ResumeEarly
<1> QED
  BY <1>2, <1>3, <1>4, Two DEF DirtyInv, Deaf

\* A process dies, the file is edited, the sidecar ages.
LEMMA WorldDirty ==
    ASSUME Kept, Calm, OneEach, PlaceInv, DirtyInv,
           (\E p \in Processes : Crash(p)) \/ HandEdit \/ Expire
    PROVE  DirtyInv'
<1>1. CASE HandEdit \/ Expire
  BY <1>1 DEF HandEdit, Expire, DirtyInv, Deaf, At, threads, engine
<1>2. ASSUME NEW p \in Processes, Crash(p)
      PROVE  DirtyInv'
  <2>1. \A f \in Engines :
            IF ProcessOf(f) = p
            THEN main'[f] = "off" /\ own'[f] = NoOwn /\ ~dirty'[f]
            ELSE main'[f] = main[f] /\ own'[f] = own[f] /\ dirty'[f] = dirty[f]
    BY <1>2 DEF Crash, Gone, Kept, TypeInv
  <2>2. /\ port' \in {port, None}
        /\ port = First /\ main'[First] # "off" => port' = port
    BY <1>2, <2>1, Two DEF Crash
  <2> QED
    BY <2>1, <2>2, Two DEF DirtyInv, Deaf, At, NoOwn
<1> QED
  BY <1>1, <1>2

\* Only a built engine is ever marked unsaved, and not without the port.
LEMMA NextDirty ==
    ASSUME Kept, Calm, OneEach, PlaceInv, PlaceInv', SidecarInv, CacheInv,
           DirtyInv, [Next]_vars
    PROVE  DirtyInv'
<1>1. CASE UNCHANGED vars
  BY <1>1 DEF vars, threads, engine, DirtyInv, Deaf, At
<1> QED
  BY <1>1, StartDirty, ControlDirty, LeaveDirty, CliDirty, WorldDirty DEF Next

\* A start consumes the sidecar, or finds its engine with the user's state.
LEMMA StartSidecar ==
    ASSUME Kept, Calm, OneEach, PlaceInv, SidecarInv, CacheInv, NEW e \in Engines,
           \/ Preload(e) \/ Reserve(e) \/ Reclaim(e) \/ GiveUp(e) \/ Load(e)
           \/ Build(e) \/ Listen(e) \/ RunDeaf(e)
    PROVE  SidecarInv'
<1>1. /\ main \in [Engines -> Places] /\ own \in [Engines -> Owns]
      /\ cache \in [Processes -> Overlays \cup {None}]
  BY DEF Kept, TypeInv
<1>2. e \in {Cli, First}
  BY StartsAlone DEF Calm, Preload, Reserve, Reclaim, GiveUp, Load, Build,
       Listen, RunDeaf, At
<1>3. CASE Preload(e)
  <2>1. e = First /\ At(First, "off") /\ cache["player"] = None
    BY <1>2, <1>3 DEF Preload, MayStart, CacheInv
  <2>2. cache'["player"] # None => Fresh
    BY <1>1, <1>3, <2>1, Two DEF Preload, Consume
  <2>3. Fresh => At(Cli, "off")
    BY <1>3, <2>1, Two DEF Preload, MayStart, Settled, Calm, SidecarInv, Runs,
         Fresh, PlaceInv, Held, At, Adopting, OpAt
  <2> QED
    BY <1>1, <1>3, <2>1, <2>2, <2>3, Two DEF Preload, Consume, SidecarInv, Runs,
         At, OpAt, Goto
<1>4. CASE Reserve(e)
  BY <1>1, <1>2, <1>4, Two DEF Reserve, SidecarInv, Runs, Adopting, At, OpAt, Goto,
       threads, disk
<1>5. CASE Reclaim(e)
  BY <1>2, <1>5, Two, Names, EnginesAssumption DEF Reclaim, PlaceInv, At
<1>6. CASE GiveUp(e)
  BY <1>1, <1>2, <1>6, Two DEF GiveUp, SidecarInv, Runs, Adopting, At, OpAt, Goto,
       threads, disk
<1>7. CASE Load(e)
  <2>1. sidecar' = None /\ op' = op
    BY <1>7 DEF Load, Consume
  <2>2. At(First, "preloaded")' => e = Cli /\ At(First, "preloaded")
    BY <1>1, <1>2, <1>7, Two DEF Load, At, Goto
  <2>3. e = Cli => ~At(First, "preloaded")
    BY <1>7, Two DEF Load, MayStart, Calm, PlaceInv, At
  <2> QED
    BY <2>1, <2>2, <2>3 DEF SidecarInv, At, OpAt
<1>8. CASE Build(e)
  <2>1. /\ sidecar' = sidecar /\ op' = op /\ cache' = cache /\ port' = port
        /\ main' = [main EXCEPT ![e] = "built"] /\ At(e, "loaded")
        /\ own'[e] = NoOwn /\ \A f \in Engines \ {e} : own'[f] = own[f]
    BY <1>1, <1>8 DEF Build, Goto, disk
  <2> QED
    BY <1>1, <1>2, <2>1, Two DEF SidecarInv, Runs, Adopting, At, OpAt
<1>9. CASE Listen(e)
  <2>1. e = First => port = First
    BY <1>9, Two DEF Listen, PlaceInv, Starting, Deaf, At, Held
  <2>2. Runs(e)
    BY <1>2, <1>9, <2>1 DEF Listen, Runs, At
  <2> QED
    BY <1>1, <1>2, <1>9, <2>2, Two DEF Listen, SidecarInv, Runs, Adopting, At,
         OpAt, Goto, disk
<1>10. CASE RunDeaf(e)
  BY <1>1, <1>2, <1>10, Two DEF RunDeaf, SidecarInv, Runs, Adopting, At, OpAt,
       Goto, threads, disk, PlaceInv
<1> QED
  BY <1>3, <1>4, <1>5, <1>6, <1>7, <1>8, <1>9, <1>10

\* A control that begins finds no sidecar.
LEMMA AskedSidecar ==
    ASSUME Kept, Calm, OneEach, PlaceInv, SidecarInv, NEW e \in Engines,
           \/ Edit(e) \/ SaveBegin(e) \/ View(e) \/ ReloadBegin(e)
           \/ \E known \in BOOLEAN : AskYield(e, known)
    PROVE  SidecarInv'
<1>1. op \in [Engines -> Ops]
  BY DEF Kept, TypeInv
<1>2. main' = main /\ own' = own /\ port' = port /\ sidecar' = sidecar
      /\ cache' = cache
  BY DEF Edit, SaveBegin, View, ReloadBegin, AskYield, threads, disk
<1>3. \/ op' = op
      \/ /\ op'[e].at \in {"backup", "view", "reload"} /\ OpAt(e, "idle")
         /\ \A f \in Engines \ {e} : op'[f] = op[f]
  BY <1>1 DEF Edit, SaveBegin, View, ReloadBegin, AskYield, Listening, OpGoto,
       threads, Ops, OpAt
<1> QED
  BY <1>2, <1>3, Two DEF SidecarInv, Runs, Adopting, At, OpAt

\* A control goes on without a sidecar, and the listener that comes back has
\* consumed it.
LEMMA ControlSidecar ==
    ASSUME Kept, OneEach, PlaceInv, SidecarInv, NEW e \in Engines, Control(e)
    PROVE  SidecarInv'
<1>1. op \in [Engines -> Ops] /\ cache \in [Processes -> Overlays \cup {None}]
  BY DEF Kept, TypeInv
<1>2. main' = main /\ own' = own /\ port' = port /\ ~OpAt(e, "idle")
  BY DEF Control, BackUp, Copied, Rename, Remove, Clear, MarkClean, ViewWrite,
       AmendCache, AmendRead, AmendWrite, Reread, AdoptLoad, AdoptApply, threads,
       OpAt
<1>3. e \in {Cli, First} /\ At(e, "on") /\ port = e
  BY <1>2, AtWork
<1>4. \A f \in Engines \ {e} : op'[f] = op[f] /\ OpAt(f, "idle")
  BY <1>1, <1>3, AtWork DEF Control, BackUp, Copied, Rename, Remove, Clear,
       MarkClean, ViewWrite, AmendCache, AmendRead, AmendWrite, Reread, AdoptLoad,
       AdoptApply, OpGoto, OpEnds
<1>5. ~At(First, "preloaded") \/ cache'["player"] = cache["player"]
  <2>1. CASE e = First
    BY <1>3, <2>1 DEF At
  <2>2. CASE e = Cli
    BY <1>1, <2>2, Two DEF Control, BackUp, Copied, Rename, Remove, Clear,
         MarkClean, ViewWrite, AmendCache, AmendRead, AmendWrite, Reread,
         AdoptLoad, AdoptApply, Consume, disk
  <2> QED
    BY <1>3, <2>1, <2>2
<1>6. sidecar' = None /\ ~OpAt(e, "amendWrite")'
  <2>1. CASE AdoptLoad(e)
    <3>1. op'[e].at = "adopted"
      BY <2>1, AdoptedInHand DEF Kept
    <3> QED
      BY <2>1, <3>1 DEF AdoptLoad, Consume, OpAt
  <2>2. CASE ~AdoptLoad(e)
    <3>1. Runs(e) \/ OpAt(e, "adopted")
      BY <1>2, <1>3, <2>2 DEF Control, BackUp, Copied, Rename, Remove, Clear,
           MarkClean, ViewWrite, AmendCache, AmendRead, AmendWrite, Reread,
           AdoptApply, OpAt, At, Runs, Adopting
    <3>2. sidecar = None /\ ~OpAt(e, "amendWrite")
      BY <3>1 DEF SidecarInv
    <3> QED
      BY <1>1, <2>2, <3>2 DEF Control, BackUp, Copied, Rename, Remove, Clear,
           MarkClean, ViewWrite, AmendCache, AmendRead, AmendWrite, Reread,
           AdoptApply, OpAt, disk, OpGoto, OpEnds, NoOp, Ops
  <2> QED
    BY <2>1, <2>2
<1> QED
  BY <1>2, <1>3, <1>4, <1>5, <1>6 DEF SidecarInv, At, OpAt

\* An engine writes the sidecar while no other has the user's state in hand.
LEMMA LeaveSidecar ==
    ASSUME Kept, Calm, OneEach, PlaceInv, SidecarInv, DirtyInv, NEW e \in Engines,
           Leaving(e) \/ \E known \in BOOLEAN : Drop(e, known)
    PROVE  SidecarInv'
<1>1. /\ main \in [Engines -> Places] /\ own \in [Engines -> Owns]
      /\ cache \in [Processes -> Overlays \cup {None}]
  BY DEF Kept, TypeInv
<1>2. e \in {Cli, First}
  BY StartsAlone DEF Calm, Leaving, HandOver, Collect, WriteSidecar, Forget,
       Release, Drop, At
<1>3. CASE HandOver(e)
  <2>1. own[e].goal # "reload"
    BY <1>2, <1>3 DEF HandOver, PlaceInv, Held, At
  <2> QED
    BY <1>1, <1>2, <1>3, <2>1, Two DEF HandOver, SidecarInv, Runs, Adopting, At,
         OpAt, Goto, disk
<1>4. CASE Collect(e)
  <2>1. \A f \in Engines : own'[f].goal = own[f].goal
    BY <1>1, <1>4 DEF Collect, Owns
  <2> QED
    BY <1>1, <1>2, <1>4, <2>1, Two DEF Collect, SidecarInv, Runs, Adopting, At,
         OpAt, Goto, disk
<1>5. CASE WriteSidecar(e)
  <2>1. Runs(e)
    BY <1>2, <1>5, Two DEF WriteSidecar, Runs, PlaceInv, DirtyInv, Deaf, At, OpAt,
         Held, Adopting
  <2>2. \A f \in Engines : ~Runs(f)' /\ OpAt(f, "idle")'
    BY <1>1, <1>5, <2>1, OneRuns DEF WriteSidecar, Runs, At, OpAt, Goto, Adopting,
         PlaceInv, Held
  <2>3. \A f \in Engines : ~(At(f, "release") /\ own[f].goal = "reload")'
    BY <1>1, <1>2, <1>5, <2>1, Two DEF WriteSidecar, Runs, PlaceInv, At, Goto,
         Held, OneEach
  <2>4. ~(At(First, "preloaded") /\ cache["player"] # None)'
    BY <1>1, <1>2, <1>5, Two DEF WriteSidecar, SidecarInv, At, Goto
  <2> QED
    BY <2>2, <2>3, <2>4 DEF SidecarInv, OpAt
<1>6. CASE Forget(e)
  <2>1. own[e].goal # "reload"
    BY <1>2, <1>6 DEF Forget, PlaceInv, Held, At
  <2>2. cache'["player"] \in {cache["player"], None}
    BY <1>1, <1>6, Two DEF Forget
  <2> QED
    BY <1>1, <1>2, <1>6, <2>1, <2>2, Two DEF Forget, SidecarInv, Runs, Adopting,
         At, OpAt, Goto, disk
<1>7. CASE Release(e)
  <2>1. \A f \in Engines \ {e} : main'[f] = main[f] /\ own'[f] = own[f]
    BY <1>1, <1>7 DEF Release, Goto
  <2>2. /\ main'[e] \in {"standby", "off"} /\ own'[e] = NoOwn /\ op' = op
        /\ sidecar' = sidecar
        /\ port' = IF port = e THEN None ELSE port
        /\ cache'["player"] = cache["player"] /\ main[e] = "release"
    BY <1>1, <1>7, Two DEF Release, Goto, disk, At
  <2> QED
    BY <1>2, <2>1, <2>2, Two DEF SidecarInv, Runs, Adopting, At, OpAt, NoOwn
<1>8. CASE \E known \in BOOLEAN : Drop(e, known)
  <2>1. /\ main' = [main EXCEPT ![e] = "leaving"] /\ OpAt(e, "idle") /\ At(e, "on")
        /\ UNCHANGED <<op, port, sidecar, cache>> /\ e = First
    BY <1>2, <1>8 DEF Drop, Leave, Calm, disk
  <2>2. \A f \in Engines \ {e} : own'[f] = own[f]
    BY <1>1, <1>8 DEF Drop, Leave
  <2> QED
    BY <1>1, <2>1, <2>2, Two DEF SidecarInv, Runs, Adopting, At, OpAt
<1> QED
  BY <1>3, <1>4, <1>5, <1>6, <1>7, <1>8 DEF Leaving

\* The CLI stands by, ends, restarts or comes back.
LEMMA CliSidecar ==
    ASSUME Kept, Calm, OneEach, PlaceInv, SidecarInv,
           \/ EnterStandby \/ Quit \/ Restart \/ ComeBack \/ ResumeEarly
    PROVE  SidecarInv'
<1>1. /\ main \in [Engines -> Places] /\ own \in [Engines -> Owns]
      /\ op \in [Engines -> Ops]
  BY DEF Kept, TypeInv
<1>2. sidecar' = sidecar /\ cache' = cache
  BY DEF EnterStandby, Quit, Restart, ComeBack, Probe, Wake, Resume, StandAgain,
       ResumeEarly, disk
<1>3. CASE EnterStandby \/ Quit
  <2>1. /\ main' = [main EXCEPT ![Cli] = "leaving"] /\ OpAt(Cli, "idle")
        /\ At(Cli, "on") /\ UNCHANGED <<op, port>>
    BY <1>3 DEF EnterStandby, Quit, Leave, Calm
  <2>2. \A f \in Engines \ {Cli} : own'[f] = own[f]
    BY <1>1, <1>3 DEF EnterStandby, Quit, Leave
  <2> QED
    BY <1>1, <1>2, <2>1, <2>2, Two DEF SidecarInv, Runs, Adopting, At, OpAt
<1>4. CASE Restart
  <2>1. Runs(Cli)
    BY <1>4 DEF Restart, Runs, Adopting, At, OpAt
  <2>2. sidecar = None
    BY <2>1, Two DEF SidecarInv
  <2> QED
    BY <1>1, <1>2, <1>4, <2>2, Two DEF Restart, SidecarInv, At, OpAt, Goto
<1>5. CASE Probe \/ Wake \/ ResumeEarly
  BY <1>1, <1>2, <1>5, Two DEF Probe, Wake, ResumeEarly, SidecarInv, Runs,
       Adopting, At, OpAt, Goto, threads
<1>6. CASE Resume
  <2>1. op'[Cli].at = "adopt" /\ \A f \in Engines \ {Cli} : op'[f] = op[f]
    BY <1>1, <1>6, Two DEF Resume, OpGoto, Ops
  <2> QED
    BY <1>1, <1>2, <1>6, <2>1, Two DEF Resume, SidecarInv, Runs, Adopting, At,
         OpAt, Goto
<1>7. CASE StandAgain
  BY <1>7 DEF StandAgain, Calm
<1> QED
  BY <1>3, <1>4, <1>5, <1>6, <1>7 DEF ComeBack

\* A process dies, the file is edited, the sidecar ages.
LEMMA WorldSidecar ==
    ASSUME Kept, Calm, OneEach, PlaceInv, SidecarInv,
           (\E p \in Processes : Crash(p)) \/ HandEdit \/ Expire
    PROVE  SidecarInv'
<1>1. CASE HandEdit
  BY <1>1 DEF HandEdit, SidecarInv, Runs, Adopting, At, OpAt, threads
<1>2. CASE Expire
  <2>1. sidecar # None /\ UNCHANGED <<port, main, own, op, cache>>
    BY <1>2 DEF Expire, Fresh, threads
  <2> QED
    BY <2>1 DEF SidecarInv, Runs, Adopting, At, OpAt
<1>3. ASSUME NEW p \in Processes, Crash(p)
      PROVE  SidecarInv'
  <2>1. \A f \in Engines :
            IF ProcessOf(f) = p
            THEN main'[f] = "off" /\ op'[f] = NoOp
            ELSE main'[f] = main[f] /\ own'[f] = own[f] /\ op'[f] = op[f]
    BY <1>3 DEF Crash
  <2>2. /\ port' \in {port, None} /\ sidecar' = sidecar
        /\ cache'["player"] \in {cache["player"], None}
    BY <1>3, Two DEF Crash, disk, Kept, TypeInv
  <2> QED
    BY <2>1, <2>2, Two DEF SidecarInv, Runs, Adopting, At, OpAt, NoOp
<1> QED
  BY <1>1, <1>2, <1>3

\* No step leaves a sidecar behind an engine that runs.
LEMMA NextSidecar ==
    ASSUME Kept, Calm, OneEach, PlaceInv, SidecarInv, CacheInv, DirtyInv, [Next]_vars
    PROVE  SidecarInv'
<1>1. CASE UNCHANGED vars
  BY <1>1 DEF vars, threads, disk, SidecarInv, Runs, Adopting, At, OpAt
<1> QED
  BY <1>1, StartSidecar, AskedSidecar, ControlSidecar, LeaveSidecar, CliSidecar,
     WorldSidecar DEF Next

\* An engine that nothing happens to, but that its process may lose its overlay.
LEMMA CacheElsewhere ==
    ASSUME Kept, NEW e \in Engines, CacheAt(e),
           main'[e] = main[e], op'[e] = op[e], own'[e] = own[e],
           dirty'[e] = dirty[e],
           cache'[ProcessOf(e)] \in {cache[ProcessOf(e)], None}
    PROVE  CacheAt(e)'
BY Two DEF CacheAt, Unsaved, Adopting, At

\* A start.
LEMMA StartCache ==
    ASSUME Kept, Calm, OneEach, PlaceInv, SidecarInv, CacheInv, DirtyInv,
           NEW e \in Engines,
           \/ Preload(e) \/ Reserve(e) \/ Reclaim(e) \/ GiveUp(e) \/ Load(e)
           \/ Build(e) \/ Listen(e) \/ RunDeaf(e)
    PROVE  CacheInv'
<1>1. /\ main \in [Engines -> Places] /\ own \in [Engines -> Owns]
      /\ cache \in [Processes -> Overlays \cup {None}]
      /\ dirty \in [Engines -> BOOLEAN]
  BY DEF Kept, TypeInv
<1>2. e \in {Cli, First}
  BY StartsAlone DEF Calm, Preload, Reserve, Reclaim, GiveUp, Load, Build,
       Listen, RunDeaf, At
<1>3. CASE Preload(e)
  <2>1. e = First
    BY <1>2, <1>3 DEF Preload
  <2>2. /\ main' = [main EXCEPT ![First] = "preloaded"]
        /\ cache'["cli"] = cache["cli"]
        /\ UNCHANGED <<own, op, port, dirty>>
    BY <1>1, <1>3, <2>1, Two DEF Preload, Goto, Consume, engine
  <2>3. \A f \in Engines \ {First} :
            f \in {Cli, First} \/ (main'[f] = "off" /\ op'[f].at = "idle")
    BY <1>1, <2>2, OthersOff
  <2>4. \A f \in Engines : CacheAt(f)'
    <3>1. CacheAt(Cli)'
      BY <1>1, <2>2, Two DEF CacheInv, CacheAt, Unsaved, Adopting, At
    <3>2. op[First].at = "idle"
      BY <1>3, <2>1, Two DEF Preload, MayStart, At, Kept, HandInv, Held
    <3>3. CacheAt(First)'
      BY <1>1, <2>2, <3>2, Two DEF CacheAt, At
    <3> QED
      BY <2>3, <3>1, <3>3 DEF CacheAt, At
  <2> QED
    BY <1>1, <2>2, <2>4, Two DEF CacheInv, Deaf, At, OpAt
<1>4. CASE Reserve(e)
  BY <1>1, <1>2, <1>4, Two DEF Reserve, CacheInv, CacheAt, Unsaved, Deaf,
       Adopting, At, OpAt, Goto, engine
<1>5. CASE Reclaim(e)
  BY <1>2, <1>5, Two, Names, EnginesAssumption DEF Reclaim, PlaceInv, At
<1>6. CASE GiveUp(e)
  BY <1>1, <1>2, <1>6, Two DEF GiveUp, CacheInv, CacheAt, SidecarInv, Unsaved,
       Deaf, Adopting, At, OpAt, Goto, engine
<1>7. CASE Load(e)
  <2>1. /\ main' = [main EXCEPT ![e] = "loaded"] /\ UNCHANGED <<op, port, dirty>>
        /\ cache' = [cache EXCEPT ![ProcessOf(e)] = IF Fresh THEN sidecar ELSE @]
        /\ own' = [own EXCEPT ![e].restored = Restored(ProcessOf(e))]
        /\ main[e] \notin Held
    BY <1>7 DEF Load, Goto, Consume, MayStart, Held, At
  <2>2. own'[e].restored = Restored(ProcessOf(e)) /\ own'[e].goal = own[e].goal
        /\ \A f \in Engines \ {e} : own'[f] = own[f]
    BY <1>1, <2>1 DEF Owns
  <2>3. cache'[ProcessOf(e)] # None => Restored(ProcessOf(e))
    BY <1>1, <2>1, ProcessKnown DEF Restored
  <2>4. e = First /\ Deaf' => cache'["player"] = None
    <3> SUFFICES ASSUME e = First, Deaf'
                 PROVE  cache'["player"] = None
      OBVIOUS
    <3>1. Deaf /\ At(First, "reserved") /\ Starting(First)
      BY <1>1, <1>7, Two DEF Deaf, Load, At, Starting
    <3>2. Runs(Cli)
      BY <3>1, Two DEF PlaceInv, Runs, At, Held
    <3> QED
      BY <1>1, <2>1, <3>1, <3>2, Two DEF SidecarInv, CacheInv, CacheAt, Fresh
  <2>5. op[e].at = "idle"
    BY <2>1 DEF Kept, HandInv
  <2>6. CacheAt(e)'
    BY <1>1, <1>2, <2>1, <2>2, <2>3, <2>5, Two DEF CacheAt, Unsaved, At
  <2>7. \A f \in Engines \ {e} :
            f \in {Cli, First} \/ (main'[f] = "off" /\ op'[f].at = "idle")
    BY <1>1, <2>1, OthersOff
  <2>8. \A f \in Engines \ {e} : CacheAt(f)'
    BY <1>1, <1>2, <2>1, <2>2, <2>7, CacheElsewhere, Two DEF CacheInv, CacheAt, At
  <2>9. CASE e = Cli
    BY <1>1, <2>1, <2>5, <2>6, <2>8, <2>9, Two DEF CacheInv, Deaf, At, OpAt
  <2>10. CASE e = First
    BY <1>1, <2>1, <2>4, <2>5, <2>6, <2>8, <2>10, Two DEF CacheInv, Deaf, At, OpAt
  <2> QED
    BY <1>2, <2>9, <2>10
<1>8. CASE Build(e)
  <2>1. /\ main' = [main EXCEPT ![e] = "built"] /\ UNCHANGED <<op, port, cache>>
        /\ dirty' = [dirty EXCEPT ![e] = IF e = Cli THEN cache["cli"] # None
                                         ELSE own[e].restored]
        /\ own'[e] = NoOwn /\ \A f \in Engines \ {e} : own'[f] = own[f]
        /\ At(e, "loaded")
    BY <1>1, <1>8 DEF Build, Goto
  <2>2. Unsaved(e) => dirty'[e]
    BY <1>1, <2>1, Two DEF Unsaved, At
  <2>3. op[e].at = "idle"
    BY <2>1 DEF Kept, HandInv, At, Held
  <2> QED
    BY <1>1, <1>2, <2>1, <2>2, <2>3, Two DEF CacheInv, CacheAt, Unsaved, Deaf,
         Adopting, At, OpAt
<1>9. CASE Listen(e)
  BY <1>1, <1>2, <1>9, Two DEF Listen, CacheInv, CacheAt, Unsaved, Deaf, Adopting,
       At, OpAt, Goto, engine
<1>10. CASE RunDeaf(e)
  BY <1>1, <1>2, <1>10, Two DEF RunDeaf, CacheInv, CacheAt, Unsaved, Deaf,
       Adopting, At, OpAt, Goto, engine
<1> QED
  BY <1>3, <1>4, <1>5, <1>6, <1>7, <1>8, <1>9, <1>10

\* A control that begins.
LEMMA AskedCache ==
    ASSUME Kept, Calm, OneEach, PlaceInv, CacheInv, NEW e \in Engines,
           \/ Edit(e) \/ SaveBegin(e) \/ View(e) \/ ReloadBegin(e)
           \/ \E known \in BOOLEAN : AskYield(e, known)
    PROVE  CacheInv'
<1>1. op \in [Engines -> Ops] /\ dirty \in [Engines -> BOOLEAN]
  BY DEF Kept, TypeInv
<1>2. main' = main /\ own' = own /\ port' = port /\ cache' = cache
  BY DEF Edit, SaveBegin, View, ReloadBegin, AskYield, threads, disk
<1>3. \/ op' = op
      \/ /\ op'[e].at \in {"backup", "view", "reload"} /\ OpAt(e, "idle")
         /\ \A f \in Engines \ {e} : op'[f] = op[f]
  BY <1>1 DEF Edit, SaveBegin, View, ReloadBegin, AskYield, Listening, OpGoto,
       threads, Ops, OpAt
<1>4. \A f \in Engines : dirty[f] => dirty'[f]
  BY <1>1 DEF Edit, SaveBegin, View, ReloadBegin, AskYield, engine
<1> QED
  BY <1>2, <1>3, <1>4, Two DEF CacheInv, CacheAt, Unsaved, Deaf, Adopting, At, OpAt

\* A control that goes on: the state is saved, reloaded or adopted only once the
\* overlay has been dropped.
LEMMA ControlCache ==
    ASSUME Kept, OneEach, OneEach', PlaceInv, CacheInv, NEW e \in Engines,
           Control(e),
           Kept'
    PROVE  CacheInv'
<1>1. /\ op \in [Engines -> Ops] /\ cache \in [Processes -> Overlays \cup {None}]
      /\ dirty \in [Engines -> BOOLEAN]
  BY DEF Kept, TypeInv
<1>2. main' = main /\ own' = own /\ port' = port /\ ~OpAt(e, "idle")
  BY DEF Control, BackUp, Copied, Rename, Remove, Clear, MarkClean, ViewWrite,
       AmendCache, AmendRead, AmendWrite, Reread, AdoptLoad, AdoptApply, threads,
       OpAt
<1>3. e \in {Cli, First} /\ At(e, "on") /\ port = e
  BY <1>2, AtWork
<1>4. /\ \A f \in Engines \ {e} : op'[f] = op[f] /\ OpAt(f, "idle")
            /\ dirty'[f] = dirty[f]
      /\ \A q \in Processes \ {ProcessOf(e)} : cache'[q] = cache[q]
  BY <1>1, <1>3, AtWork DEF Control, BackUp, Copied, Rename, Remove, Clear,
       MarkClean, ViewWrite, AmendCache, AmendRead, AmendWrite, Reread, AdoptLoad,
       AdoptApply, OpGoto, OpEnds, Consume, disk, engine
<1>5. Adopting(e) => e = Cli
  BY DEF Adopting, Kept, HandInv
<1>6. /\ ~Adopting(e)' => dirty'[e] \/ cache'[ProcessOf(e)] = None
      /\ op'[e].at \in {"clean", "reread"} => cache'[ProcessOf(e)] = None
      /\ op'[e].at # "adopt"
      /\ op'[e].at = "adopted" => op'[e].out.restored \/ cache'[ProcessOf(e)] = None
  <2>1. CASE AdoptLoad(e)
    <3>1. /\ op'[e].at = "adopted" /\ op'[e].out.restored = Restored(ProcessOf(e))
      BY <1>1, <2>1 DEF AdoptLoad
    <3>2. cache'[ProcessOf(e)] # None => Restored(ProcessOf(e))
      BY <1>1, <2>1, ProcessKnown DEF AdoptLoad, Restored, Consume
    <3> QED
      BY <3>1, <3>2 DEF Adopting
  <2>2. CASE AdoptApply(e)
    <3>1. /\ op'[e] = NoOp /\ cache' = cache /\ dirty'[e] = op[e].out.restored
          /\ OpAt(e, "adopted")
      BY <1>1, <2>2 DEF AdoptApply, OpEnds
    <3> QED
      BY <1>5, <3>1, Two DEF CacheInv, CacheAt, NoOp, Adopting, OpAt
  <2>3. CASE Clear(e)
    <3>1. cache'[ProcessOf(e)] = None
      BY <1>1, <2>3, ProcessKnown DEF Clear
    <3>2. op'[e].at \in {"clean", "reread"}
      BY <1>1, <2>3 DEF Clear, OpGoto, Ops
    <3> QED
      BY <3>1, <3>2
  <2>4. CASE MarkClean(e) \/ Reread(e)
    <3>1. /\ op'[e] = NoOp /\ cache' = cache /\ op[e].at \in {"clean", "reread"}
      BY <1>1, <2>4 DEF MarkClean, Reread, OpEnds, OpAt
    <3> QED
      BY <3>1, Two DEF CacheInv, CacheAt, NoOp
  <2>5. CASE AmendCache(e)
    <3>1. /\ op'[e].at = "amendDisk" /\ dirty' = dirty /\ ~Adopting(e)
          /\ cache[ProcessOf(e)] = None => cache'[ProcessOf(e)] = None
      BY <1>1, <2>5, ProcessKnown DEF AmendCache, OpGoto, Ops, engine, Adopting,
           OpAt
    <3> QED
      BY <1>3, <3>1 DEF CacheInv, CacheAt, Unsaved, At
  <2>6. CASE \/ BackUp(e) \/ Copied(e) \/ Rename(e) \/ Remove(e) \/ ViewWrite(e)
             \/ AmendRead(e) \/ AmendWrite(e)
    <3>1. /\ dirty' = dirty /\ cache' = cache /\ ~Adopting(e)
          /\ op'[e].at \notin {"clean", "reread", "adopt", "adopted"}
      BY <1>1, <2>6 DEF BackUp, Copied, Rename, Remove, ViewWrite, AmendRead,
           AmendWrite, OpGoto, OpEnds, NoOp, Ops, engine, Adopting, OpAt
    <3> QED
      BY <1>3, <3>1 DEF CacheInv, CacheAt, Unsaved, At
  <2> QED
    BY <2>1, <2>2, <2>3, <2>4, <2>5, <2>6 DEF Control
<1>7. CacheAt(e)'
  BY <1>2, <1>3, <1>6 DEF CacheAt, Unsaved, At, Adopting
<1>8. \A f \in Engines \ {e} : CacheAt(f)'
  <2>1. \A f \in Engines \ {e} :
            f \in {Cli, First} \/ (main'[f] = "off" /\ op'[f].at = "idle")
    BY <1>2, <1>4 DEF OneEach, At, OpAt
  <2> QED
    BY <1>2, <1>3, <1>4, <2>1, CacheElsewhere, ProcessKnown, Two
       DEF CacheInv, CacheAt, At
<1>9. CASE e = Cli
  BY <1>2, <1>3, <1>4, <1>6, <1>7, <1>8, <1>9, Two DEF CacheInv, Deaf, At, OpAt
<1>10. CASE e = First
  BY <1>2, <1>3, <1>4, <1>7, <1>8, <1>10, Two DEF CacheInv, Deaf, At, OpAt
<1> QED
  BY <1>3, <1>9, <1>10

\* An engine leaves its process without an overlay.
LEMMA LeaveCache ==
    ASSUME Kept, Calm, OneEach, PlaceInv, CacheInv, DirtyInv, NEW e \in Engines,
           Leaving(e) \/ \E known \in BOOLEAN : Drop(e, known)
    PROVE  CacheInv'
<1>1. /\ main \in [Engines -> Places] /\ own \in [Engines -> Owns]
      /\ cache \in [Processes -> Overlays \cup {None}]
      /\ dirty \in [Engines -> BOOLEAN]
  BY DEF Kept, TypeInv
<1>2. e \in {Cli, First}
  BY StartsAlone DEF Calm, Leaving, HandOver, Collect, WriteSidecar, Forget,
       Release, Drop, At
<1>3. CASE HandOver(e)
  <2>1. ~Adopting(e)
    BY <1>3, AtWork DEF HandOver, At, OpAt, Adopting
  <2>2. ~dirty[e] => cache[ProcessOf(e)] = None
    BY <1>3, <2>1 DEF HandOver, CacheInv, CacheAt, Unsaved, At
  <2> QED
    BY <1>1, <1>2, <1>3, <2>2, Two DEF HandOver, CacheInv, CacheAt, Unsaved, Deaf,
         Adopting, At, OpAt, Goto, engine
<1>4. CASE Collect(e)
  <2>1. \A f \in Engines : own'[f].goal = own[f].goal
            /\ own'[f].restored = own[f].restored
    BY <1>1, <1>4 DEF Collect, Owns
  <2> QED
    BY <1>1, <1>2, <1>4, <2>1, Two DEF Collect, CacheInv, CacheAt, Unsaved, Deaf,
         Adopting, At, OpAt, Goto, engine
<1>5. CASE WriteSidecar(e)
  BY <1>1, <1>2, <1>5, Two DEF WriteSidecar, CacheInv, CacheAt, Unsaved, Deaf,
       Adopting, At, OpAt, Goto, engine
<1>6. CASE Forget(e)
  <2>1. cache' = [cache EXCEPT ![ProcessOf(e)] = None]
    BY <1>6 DEF Forget
  <2> QED
    BY <1>1, <1>2, <1>6, <2>1, Two DEF Forget, CacheInv, CacheAt, Unsaved, Deaf,
         Adopting, At, OpAt, Goto, engine
<1>7. CASE Release(e)
  <2>1. \A f \in Engines \ {e} : main'[f] = main[f] /\ own'[f] = own[f]
            /\ dirty'[f] = dirty[f]
    BY <1>1, <1>7 DEF Release, Goto, Gone, engine
  <2>2. /\ main'[e] \in {"standby", "off"} /\ op' = op
        /\ port' = IF port = e THEN None ELSE port
        /\ main[e] = "release" /\ OpAt(e, "idle")
    BY <1>1, <1>7, Two DEF Release, Goto, At
  <2>3. /\ cache'["cli"] \in {cache["cli"], None}
        /\ cache'["player"] = cache["player"]
        /\ cache'[ProcessOf(e)] = None
    BY <1>1, <1>2, <1>7, Two DEF Release, CacheInv, CacheAt, PlaceInv, At
  <2>4. CacheAt(e)'
    BY <2>2, <2>3 DEF CacheAt, At, OpAt
  <2>5. \A f \in Engines \ {e} :
            f \in {Cli, First} \/ (main'[f] = "off" /\ op'[f].at = "idle")
    BY <2>1, <2>2, OthersOff
  <2>6. \A f \in Engines \ {e} : CacheAt(f)'
    BY <1>2, <2>1, <2>2, <2>3, <2>5, CacheElsewhere, Two DEF CacheInv, CacheAt, At
  <2>7. CASE e = Cli
    BY <2>1, <2>2, <2>3, <2>4, <2>6, <2>7, Two DEF CacheInv, Deaf, At, OpAt
  <2>8. CASE e = First
    BY <2>1, <2>2, <2>3, <2>4, <2>6, <2>8, Two DEF CacheInv, Deaf, At, OpAt
  <2> QED
    BY <1>2, <2>7, <2>8
<1>8. CASE \E known \in BOOLEAN : Drop(e, known)
  <2>1. /\ main' = [main EXCEPT ![e] = "leaving"] /\ OpAt(e, "idle") /\ At(e, "on")
        /\ UNCHANGED <<op, port, cache, dirty>> /\ e = First
    BY <1>2, <1>8 DEF Drop, Leave, Calm, engine
  <2>2. \A f \in Engines \ {e} : own'[f] = own[f]
    BY <1>1, <1>8 DEF Drop, Leave
  <2> QED
    BY <1>1, <2>1, <2>2, Two DEF CacheInv, CacheAt, Unsaved, Deaf, Adopting, At,
         OpAt
<1> QED
  BY <1>3, <1>4, <1>5, <1>6, <1>7, <1>8 DEF Leaving

\* The CLI stands by, ends, restarts or comes back.
LEMMA CliCache ==
    ASSUME Kept, Calm, OneEach, PlaceInv, CacheInv,
           \/ EnterStandby \/ Quit \/ Restart \/ ComeBack \/ ResumeEarly
    PROVE  CacheInv'
<1>1. /\ main \in [Engines -> Places] /\ own \in [Engines -> Owns]
      /\ op \in [Engines -> Ops]
  BY DEF Kept, TypeInv
<1>2. cache' = cache /\ dirty' = dirty
  BY DEF EnterStandby, Quit, Restart, ComeBack, Probe, Wake, Resume, StandAgain,
       ResumeEarly, engine
<1>3. CASE EnterStandby \/ Quit
  <2>1. /\ main' = [main EXCEPT ![Cli] = "leaving"] /\ OpAt(Cli, "idle")
        /\ At(Cli, "on") /\ UNCHANGED <<op, port>>
    BY <1>3 DEF EnterStandby, Quit, Leave, Calm
  <2>2. \A f \in Engines \ {Cli} : own'[f] = own[f]
    BY <1>1, <1>3 DEF EnterStandby, Quit, Leave
  <2> QED
    BY <1>1, <1>2, <2>1, <2>2, Two DEF CacheInv, CacheAt, Unsaved, Deaf, Adopting,
         At, OpAt
<1>4. CASE Restart
  <2>1. /\ main' = [main EXCEPT ![Cli] = "release"] /\ OpAt(Cli, "idle")
        /\ At(Cli, "on") /\ UNCHANGED <<op, port>>
    BY <1>4 DEF Restart, Goto
  <2>2. own'[Cli].goal = "reload" /\ \A f \in Engines \ {Cli} : own'[f] = own[f]
    BY <1>1, <1>4, Two DEF Restart, Owns
  <2> QED
    BY <1>1, <1>2, <2>1, <2>2, Two DEF CacheInv, CacheAt, Unsaved, Deaf, Adopting,
         At, OpAt
<1>5. CASE Probe \/ Wake \/ ResumeEarly
  BY <1>1, <1>2, <1>5, Two DEF Probe, Wake, ResumeEarly, CacheInv, CacheAt,
       Unsaved, Deaf, Adopting, At, OpAt, Goto, threads
<1>6. CASE Resume
  <2>1. op'[Cli].at = "adopt" /\ \A f \in Engines \ {Cli} : op'[f] = op[f]
    BY <1>1, <1>6, Two DEF Resume, OpGoto, Ops
  <2> QED
    BY <1>1, <1>2, <1>6, <2>1, Two DEF Resume, CacheInv, CacheAt, Unsaved, Deaf,
         Adopting, At, OpAt, Goto
<1>7. CASE StandAgain
  BY <1>7 DEF StandAgain, Calm
<1> QED
  BY <1>3, <1>4, <1>5, <1>6, <1>7 DEF ComeBack

\* A process dies, the file is edited, the sidecar ages.
LEMMA WorldCache ==
    ASSUME Kept, Calm, OneEach, PlaceInv, CacheInv,
           (\E p \in Processes : Crash(p)) \/ HandEdit \/ Expire
    PROVE  CacheInv'
<1>1. CASE HandEdit \/ Expire
  BY <1>1 DEF HandEdit, Expire, CacheInv, CacheAt, Unsaved, Deaf, Adopting, At,
       OpAt, threads, engine
<1>2. ASSUME NEW p \in Processes, Crash(p)
      PROVE  CacheInv'
  <2>1. \A f \in Engines :
            IF ProcessOf(f) = p
            THEN main'[f] = "off" /\ op'[f] = NoOp
            ELSE /\ main'[f] = main[f] /\ own'[f] = own[f] /\ op'[f] = op[f]
                 /\ dirty'[f] = dirty[f]
    BY <1>2 DEF Crash, Gone, Kept, TypeInv
  <2>2. /\ cache' = [cache EXCEPT ![p] = None]
        /\ port' = IF port \in Engines /\ ProcessOf(port) = p THEN None ELSE port
    BY <1>2 DEF Crash
  <2>3. cache \in [Processes -> Overlays \cup {None}]
    BY DEF Kept, TypeInv
  <2> QED
    BY <2>1, <2>2, <2>3, Two, ProcessKnown DEF CacheInv, CacheAt, Unsaved, Deaf,
         Adopting, At, OpAt, NoOp
<1> QED
  BY <1>1, <1>2

\* No step keeps what was consumed once it is saved.
LEMMA NextCache ==
    ASSUME Kept, Calm, OneEach, PlaceInv, SidecarInv, CacheInv, DirtyInv,
           [Next]_vars,
           Kept', OneEach'
    PROVE  CacheInv'
<1>1. CASE UNCHANGED vars
  BY <1>1 DEF vars, threads, disk, engine, CacheInv, CacheAt, Unsaved, Deaf,
       Adopting, At, OpAt
<1> QED
  BY <1>1, StartCache, AskedCache, ControlCache, LeaveCache, CliCache, WorldCache
     DEF Next

-----------------------------------------------------------------------------
(* Nobody serves what is behind the file.                                  *)

\* The overlay a process reads.
Overlay(p) == IF Fresh THEN sidecar ELSE cache[p]

\* What is read of settings that are ahead of the file is ahead of it, unless the
\* overlay tells it may not be.
LEMMA ReadAhead ==
    ASSUME Kept, AheadInv, NEW p \in Processes, cache[p] # None => Handed(cache[p])
    PROVE  (Overlay(p) # None /\ Overlay(p).fallback) \/ Ahead(WithLive(p))
<1>1. Ahead(FileOrDefault)
  BY DEF Ahead, FileOrDefault, Defaults, Says, Kept, TypeInv, Files
<1>2. Overlay(p) = None => WithLive(p) = FileOrDefault
  BY DEF Overlay, WithLive, Fresh
<1>3. Overlay(p) # None => Handed(Overlay(p)) /\ WithLive(p) = Says(Overlay(p))
  BY DEF AheadInv, Overlay, WithLive, Fresh
<1> QED
  BY <1>1, <1>2, <1>3 DEF Handed, Ahead, Says

\* What a file says is something.
LEMMA SaysSomething ==
    ASSUME Kept
    PROVE  Says(file) # None
BY NoneAssumption DEF Kept, TypeInv, Files, Says

\* An engine that nothing happens to.
LEMMA AheadElsewhere ==
    ASSUME NEW e \in Engines, AheadAt(e),
           main'[e] = main[e], op'[e] = op[e], own'[e] = own[e], live'[e] = live[e],
           status'[e] = status[e],
           At(e, "loaded") => cache'[ProcessOf(e)] = cache[ProcessOf(e)],
           port' = e => port = e,
           file'.r = file.r, file'.v = file.v
    PROVE  AheadAt(e)'
BY DEF AheadAt, Runs, Refused, Handed, Ahead, Adopting, At, OpAt

\* While one of them does something, the other keeps its overlay.
LEMMA OtherCache ==
    ASSUME OneEach, NEW e \in {Cli, First}, NEW f \in Engines \ {e}, At(f, "loaded")
    PROVE  ProcessOf(f) # ProcessOf(e)
BY Two DEF OneEach, At

\* A start.
LEMMA StartAhead ==
    ASSUME Kept, Calm, OneEach, PlaceInv, SidecarInv, CacheInv, AheadInv,
           NEW e \in Engines,
           \/ Preload(e) \/ Reserve(e) \/ Reclaim(e) \/ GiveUp(e) \/ Load(e)
           \/ Build(e) \/ Listen(e) \/ RunDeaf(e)
    PROVE  AheadInv'
<1>1. /\ main \in [Engines -> Places] /\ own \in [Engines -> Owns]
      /\ live \in [Engines -> Contents] /\ DOMAIN status = Engines
      /\ cache \in [Processes -> Overlays \cup {None}]
  BY DEF Kept, TypeInv
<1>2. e \in {Cli, First}
  BY StartsAlone DEF Calm, Preload, Reserve, Reclaim, GiveUp, Load, Build,
       Listen, RunDeaf, At
<1>3. file' = file /\ op' = op /\ sidecar' \in {sidecar, None}
  BY DEF Preload, Reserve, Reclaim, GiveUp, Load, Build, Listen, RunDeaf, Consume,
       disk, threads
<1>4. \A f \in Engines \ {e} :
          /\ main'[f] = main[f] /\ own'[f] = own[f] /\ live'[f] = live[f]
          /\ status'[f] = status[f]
  BY <1>1 DEF Preload, Reserve, Reclaim, GiveUp, Load, Build, Listen, RunDeaf,
       Goto, threads, engine
<1>5. port' \in {port, e}
  BY DEF Preload, Reserve, Reclaim, GiveUp, Load, Build, Listen, RunDeaf
<1>6. \A f \in Engines \ {e} : AheadAt(f)'
  <2>1. \A p \in Processes \ {ProcessOf(e)} : cache'[p] = cache[p]
    BY <1>1 DEF Preload, Reserve, Reclaim, GiveUp, Load, Build, Listen, RunDeaf,
         Consume
  <2>2. \A f \in Engines \ {e} :
            At(f, "loaded") => cache'[ProcessOf(f)] = cache[ProcessOf(f)]
    BY <1>2, <2>1, OtherCache, ProcessKnown
  <2> QED
    BY <1>3, <1>4, <1>5, <2>2, AheadElsewhere DEF AheadInv
<1>7. AheadAt(e)'
  <2>1. OpAt(e, "idle")
    BY AtWork DEF Preload, Reserve, Reclaim, GiveUp, Load, Build, Listen, RunDeaf,
         MayStart, At
  <2>2. CASE Load(e)
    <3>1. live'[e] = WithLive(ProcessOf(e)) /\ main'[e] = "loaded"
      BY <1>1, <2>2 DEF Load, Goto
    <3>2. cache[ProcessOf(e)] # None => Handed(cache[ProcessOf(e)])
      BY <1>2, <2>2, Two DEF Load, MayStart, AheadInv, CacheInv, Coming, At,
           PlaceInv
    <3>3. cache'[ProcessOf(e)] = Overlay(ProcessOf(e))
      BY <1>1, <2>2, ProcessKnown DEF Load, Consume, Overlay
    <3>4. Refused(e)' \/ Ahead(WithLive(ProcessOf(e)))
      BY <3>1, <3>2, <3>3, ReadAhead, ProcessKnown DEF Refused, At
    <3> QED
      BY <1>3, <2>1, <3>1, <3>4 DEF AheadAt, Ahead, At, OpAt
  <2>3. CASE Build(e) \/ Listen(e) \/ RunDeaf(e)
    <3>1. Runs(e)' => Runs(e)
      <4>1. CASE Build(e)
        BY <1>1, <4>1 DEF Build, Runs, At, Goto
      <4>2. CASE Listen(e)
        BY <1>2, <4>2, Two DEF Listen, Runs, At, PlaceInv, Starting, Deaf, Held
      <4>3. CASE RunDeaf(e)
        BY <1>1, <1>2, <4>3, Two DEF RunDeaf, Runs, At, Goto, PlaceInv
      <4> QED
        BY <2>3, <4>1, <4>2, <4>3
    <3>2. live' = live /\ main'[e] \in {"built", "on"}
      BY <1>1, <2>3 DEF Build, Listen, RunDeaf, Goto, engine
    <3>3. Refused(e) => Refused(e)'
      BY <1>1, <2>3, <3>2 DEF Build, Listen, RunDeaf, BootStatus, Refused, At,
           engine, Kept, TypeInv
    <3> QED
      BY <1>3, <2>1, <3>1, <3>2, <3>3 DEF AheadInv, AheadAt, Ahead, At, OpAt
  <2>4. CASE Preload(e) \/ Reserve(e) \/ Reclaim(e) \/ GiveUp(e)
    <3>1. main'[e] \in {"preloaded", "reserved"}
      BY <1>1, <2>4 DEF Preload, Reserve, Reclaim, GiveUp, Goto
    <3> QED
      BY <1>3, <2>1, <3>1 DEF AheadAt, Runs, At, OpAt
  <2> QED
    BY <2>2, <2>3, <2>4
<1>8. (Coming /\ cache["player"] # None => Handed(cache["player"]))'
  <2>1. CASE Preload(e)
    <3>1. e = First /\ cache["player"] = None
      BY <1>2, <2>1 DEF Preload, MayStart, CacheInv
    <3>2. cache'["player"] = (IF Fresh THEN sidecar ELSE cache["player"])
      BY <1>1, <2>1, <3>1, Two DEF Preload, Consume
    <3> QED
      BY <1>3, <3>1, <3>2 DEF AheadInv, Handed, Ahead, Fresh
  <2>2. CASE Load(e)
    <3>1. CASE e = First
      BY <1>1, <2>2, <3>1 DEF Load, Goto, Coming
    <3>2. CASE e = Cli
      <4>1. cache'["player"] = cache["player"] /\ main'[First] = main[First]
        BY <1>1, <1>4, <2>2, <3>2, Two DEF Load, Consume
      <4> QED
        BY <1>3, <4>1 DEF AheadInv, Handed, Ahead, Coming
    <3> QED
      BY <1>2, <3>1, <3>2
  <2>3. CASE ~Preload(e) /\ ~Load(e)
    <3>1. cache' = cache /\ (Coming' => Coming)
      BY <1>1, <1>2, <1>4, <2>3, Two DEF Reserve, Reclaim, GiveUp, Build, Listen,
           RunDeaf, Goto, Coming, At
    <3> QED
      BY <1>3, <3>1 DEF AheadInv, Handed, Ahead
  <2> QED
    BY <2>1, <2>2, <2>3
<1>9. /\ (sidecar # None => Handed(sidecar))'
      /\ (OpAt(Cli, "adopted") /\ op[Cli].out.says # None =>
            op[Cli].out.fallback \/ Ahead(op[Cli].out.says))'
  BY <1>3 DEF AheadInv, Handed, Ahead, OpAt
<1> QED
  BY <1>6, <1>7, <1>8, <1>9 DEF AheadInv

\* A control that begins: an edit or a view change is the latest.
LEMMA AskedAhead ==
    ASSUME Kept, Calm, OneEach, PlaceInv, AheadInv, NEW e \in Engines,
           \/ Edit(e) \/ SaveBegin(e) \/ View(e) \/ ReloadBegin(e)
           \/ \E known \in BOOLEAN : AskYield(e, known)
    PROVE  AheadInv'
<1>1. /\ op \in [Engines -> Ops] /\ live \in [Engines -> Contents]
      /\ file \in Files /\ used \in [edits : Nat, views : Nat]
  BY DEF Kept, TypeInv
<1>2. /\ main' = main /\ own' = own /\ port' = port /\ file' = file
      /\ sidecar' = sidecar /\ cache' = cache /\ status' = status
  BY DEF Edit, SaveBegin, View, ReloadBegin, AskYield, threads, disk, engine
<1>3. \A f \in Engines \ {e} : op'[f] = op[f] /\ live'[f] = live[f]
  BY <1>1 DEF Edit, SaveBegin, View, ReloadBegin, AskYield, threads, engine, OpGoto
<1>4. \A f \in Engines \ {e} : AheadAt(f)'
  BY <1>2, <1>3, AheadElsewhere DEF AheadInv
<1>5. AheadAt(e)'
  <2>1. CASE Edit(e)
    <3>1. /\ live'[e].r = used.edits + 1 /\ live'[e].v = live[e].v
          /\ live'[e].d = live[e].d /\ op' = op
      BY <1>1, <2>1 DEF Edit, threads, Contents
    <3>2. file.r <= used.edits + 1
      BY <1>1 DEF Files
    <3>3. Runs(e)' => Runs(e)
      BY <1>2, <3>1 DEF Runs, Adopting
    <3>4. live[e].r \in Nat /\ file.r \in Nat
      BY <1>1 DEF Contents, Files
    <3> QED
      BY <1>1, <1>2, <3>1, <3>2, <3>3, <3>4 DEF AheadInv, AheadAt, Refused,
           Handed, Ahead, At, OpAt
  <2>2. CASE View(e)
    <3>1. /\ live'[e].v = used.views + 1 /\ live'[e].r = live[e].r
          /\ live'[e].d = live[e].d
          /\ op'[e] = [at |-> "view",
                       out |-> IF file.broken THEN None
                               ELSE [file EXCEPT !.v = used.views + 1]]
      BY <1>1, <2>2 DEF View, Contents
    <3>2. file.v <= used.views + 1
      BY <1>1 DEF Files
    <3>3. Runs(e)' => Runs(e)
      BY <1>2, <2>2 DEF Runs, View, Listening, OpAt, Adopting
    <3>4. op'[e].out # None => op'[e].out.v = live'[e].v
      BY <1>1, <3>1 DEF Files
    <3> QED
      BY <1>1, <1>2, <3>1, <3>2, <3>3, <3>4 DEF AheadInv, AheadAt, Refused,
           Handed, Ahead, At, OpAt
  <2>3. CASE SaveBegin(e) \/ ReloadBegin(e)
    <3>1. live' = live /\ op'[e].at \in {"backup", "reload"} /\ OpAt(e, "idle")
      BY <1>1, <2>3 DEF SaveBegin, ReloadBegin, engine, OpGoto, Listening, Ops
    <3> QED
      BY <1>2, <3>1 DEF AheadInv, AheadAt, Runs, Adopting, Refused, Handed, Ahead,
           At, OpAt
  <2>4. CASE \E known \in BOOLEAN : AskYield(e, known)
    BY <1>2, <2>4, AheadElsewhere DEF AskYield, AheadInv, engine, threads
  <2> QED
    BY <2>1, <2>2, <2>3, <2>4
<1>6. OpAt(Cli, "adopted")' => OpAt(Cli, "adopted") /\ op'[Cli] = op[Cli]
  BY <1>1, Two DEF Edit, SaveBegin, View, ReloadBegin, AskYield, threads, OpGoto,
       OpAt, Ops
<1> QED
  BY <1>2, <1>4, <1>5, <1>6 DEF AheadInv, Handed, Ahead, Coming

\* A control that goes on: a Save and a view change write what their engine runs,
\* and nobody else waits with something older.
LEMMA ControlAhead ==
    ASSUME Kept, HandOrigin, OneEach, PlaceInv, SidecarInv, CacheInv, DirtyInv,
           AheadInv, PlaceInv', SidecarInv', CacheInv', DirtyInv',
           NEW e \in Engines, Control(e)
    PROVE  AheadInv'
<1>1. /\ op \in [Engines -> Ops] /\ live \in [Engines -> Contents] /\ file \in Files
      /\ cache \in [Processes -> Overlays \cup {None}]
  BY DEF Kept, TypeInv
<1>2. main' = main /\ own' = own /\ port' = port /\ ~OpAt(e, "idle")
  BY DEF Control, BackUp, Copied, Rename, Remove, Clear, MarkClean, ViewWrite,
       AmendCache, AmendRead, AmendWrite, Reread, AdoptLoad, AdoptApply, threads,
       OpAt
<1>3. e \in {Cli, First} /\ At(e, "on") /\ port = e
  BY <1>2, AtWork
<1>4. \A f \in Engines \ {e} : op'[f] = op[f] /\ OpAt(f, "idle")
          /\ live'[f] = live[f]
  BY <1>1, <1>3, AtWork DEF Control, BackUp, Copied, Rename, Remove, Clear,
       MarkClean, ViewWrite, AmendCache, AmendRead, AmendWrite, Reread, AdoptLoad,
       AdoptApply, Switch, OpGoto, OpEnds, engine
\* What else could be served is not there.
<1>5. \A f \in Engines \ {e} : AheadAt(f)'
  <2>1. ASSUME NEW f \in Engines \ {e}
        PROVE  ~Runs(f) /\ main[f] # "write"
    <3>1. f \in {Cli, First} \/ main[f] = "off"
      BY OthersOff
    <3> QED
      BY <1>3, <3>1, Two DEF Runs, PlaceInv, DirtyInv, Deaf, At, Held
  <2> QED
    BY <1>2, <1>4, <2>1 DEF AheadAt, Runs, Adopting, At, OpAt
<1>6. sidecar' = None
  <2>1. Runs(e)' \/ OpAt(e, "adopted")' \/ OpAt(e, "adopt")'
    BY <1>2, <1>3 DEF Runs, Adopting, At, OpAt
  <2>2. ~OpAt(e, "adopt")'
    BY <1>1 DEF Control, BackUp, Copied, Rename, Remove, Clear, MarkClean,
         ViewWrite, AmendCache, AmendRead, AmendWrite, Reread, AdoptLoad,
         AdoptApply, OpGoto, OpEnds, OpAt, NoOp, Ops
  <2> QED
    BY <2>1, <2>2 DEF SidecarInv
<1>7. ~(Coming /\ cache["player"] # None)'
  <2>1. CASE e = First
    BY <1>2, <1>3, <2>1 DEF Coming, At
  <2>2. CASE e = Cli
    BY <1>2, <1>3, <2>2, Two DEF Coming, At, SidecarInv, CacheInv, Deaf
  <2> QED
    BY <1>3, <2>1, <2>2
<1>8. cache["cli"] = None \/ e = First \/ ~AdoptLoad(e)
  BY <1>3 DEF AdoptLoad, CacheInv
<1>9. /\ AheadAt(e)'
      /\ (OpAt(Cli, "adopted") /\ op[Cli].out.says # None =>
            op[Cli].out.fallback \/ Ahead(op[Cli].out.says))'
  <2>1. CASE AdoptLoad(e)
    <3>1. e = Cli
      BY <2>1 DEF AdoptLoad, Kept, HandInv, OpAt
    <3>2. /\ op'[e].at = "adopted" /\ op'[e].out.says \in {None, WithLive("cli")}
          /\ op'[e].out.fallback <=> Overlay("cli") # None /\ Overlay("cli").fallback
          /\ file' = file
      BY <1>1, <2>1, <3>1, Two DEF AdoptLoad, Adoptable, Overlay, Fresh, Kept,
           TypeInv, Overlays
    <3>3. op'[e].out.fallback \/ Ahead(WithLive("cli"))
      BY <1>8, <2>1, <3>1, <3>2, ReadAhead, Two
    <3> QED
      BY <1>2, <1>3, <3>1, <3>2, <3>3 DEF AheadAt, Runs, Adopting, Ahead, At, OpAt
  <2>2. CASE AdoptApply(e)
    <3>1. e = Cli
      BY <2>2 DEF AdoptApply, Kept, HandInv, OpAt
    <3>2. /\ op'[e] = NoOp /\ file' = file /\ OpAt(Cli, "adopted")
          /\ op[e].out.says # None => live'[e] = op[e].out.says
          /\ status'[e] = IF op[e].out.fallback THEN "parse_error" ELSE FileStatus
      BY <1>1, <2>2, <3>1 DEF AdoptApply, Switch, OpEnds, disk, Kept, TypeInv
    <3>3. op[e].out.says = None => status'[e] = "parse_error"
      BY <3>1, <3>2 DEF HandOrigin, AdoptionTold, FileStatus, OpAt
    <3>4. ~At(e, "loaded")'
      BY <1>2, <1>3 DEF At
    <3>5. status'[e] = "parse_error" \/ Ahead(live[e])'
      BY <3>1, <3>2, <3>3 DEF AheadInv, Ahead
    <3> QED
      BY <1>2, <1>3, <3>1, <3>2, <3>4, <3>5 DEF AheadAt, Refused, At, OpAt, NoOp
  <2>3. CASE Rename(e)
    <3>1. /\ file' = [r |-> live[e].r, v |-> live[e].v, d |-> live[e].d,
                      broken |-> FALSE]
          /\ live' = live /\ op'[e].at = "discard"
      BY <1>1, <2>3 DEF Rename, OpAt, OpGoto, Kept, WriterInv, Saving, engine, Ops
    <3>2. live[e].r \in Nat /\ live[e].v \in Nat
      BY <1>1 DEF Contents, Kept, TypeInv
    <3> QED
      BY <1>2, <1>3, <1>4, <3>1, <3>2, Two DEF AheadAt, Ahead, At, OpAt
  <2>4. CASE ViewWrite(e)
    <3>1. /\ file' = IF op[e].out = None THEN file ELSE op[e].out
          /\ live' = live /\ status' = status
          /\ op'[e].at = "amend" /\ OpAt(e, "view")
      BY <1>1, <2>4 DEF ViewWrite, OpGoto, engine, Ops
    <3>2. file'.r = file.r /\ (file'.v = file.v \/ file'.v = live[e].v)
      BY <3>1 DEF Kept, WriterInv, AheadInv, AheadAt, OpAt
    <3>3. status[e] = "parse_error" \/ Ahead(live[e])
      BY <1>3, <3>1 DEF AheadInv, AheadAt, Refused, Runs, Adopting, At, OpAt
    <3>4. live[e].v \in Nat
      BY <1>1 DEF Contents, Kept, TypeInv
    <3> QED
      BY <1>2, <1>3, <1>4, <3>1, <3>2, <3>3, <3>4, Two DEF AheadAt, Refused, Ahead,
           At, OpAt
  <2>5. CASE Reread(e)
    <3>1. /\ op'[e] = NoOp /\ file' = file /\ status'[e] = FileStatus
          /\ ~file.broken => live'[e] = Says(file)
      BY <1>1, <2>5, SaysSomething DEF Reread, Switch, OpEnds, disk, Kept, TypeInv
    <3>2. Ahead(Says(file)) /\ (file.broken => status'[e] = "parse_error")
      BY <1>1, <3>1 DEF Ahead, Says, Files, FileStatus, Kept, TypeInv
    <3> QED
      BY <1>2, <1>3, <1>4, <3>1, <3>2, Two DEF AheadAt, Refused, Ahead, At, OpAt,
           NoOp
  <2>6. CASE \/ BackUp(e) \/ Copied(e) \/ Remove(e) \/ Clear(e) \/ MarkClean(e)
             \/ AmendCache(e) \/ AmendRead(e) \/ AmendWrite(e)
    <3>1. /\ live' = live /\ file' = file /\ status' = status /\ ~Adopting(e)
          /\ op'[e].at \notin {"adopt", "adopted", "view"}
      BY <1>1, <2>6 DEF BackUp, Copied, Remove, Clear, MarkClean, AmendCache,
           AmendRead, AmendWrite, OpGoto, OpEnds, NoOp, Ops, engine, disk,
           Adopting, OpAt
    <3> QED
      BY <1>2, <1>3, <1>4, <3>1, Two DEF AheadInv, AheadAt, Runs, Refused,
           Adopting, Ahead, At, OpAt
  <2> QED
    BY <2>1, <2>2, <2>3, <2>4, <2>5, <2>6 DEF Control
<1> QED
  BY <1>5, <1>6, <1>7, <1>9 DEF AheadInv

\* An engine leaves: what it hands over is what it runs.
LEMMA LeaveAhead ==
    ASSUME Kept, Calm, OneEach, PlaceInv, SidecarInv, CacheInv, DirtyInv, AheadInv,
           NEW e \in Engines,
           Leaving(e) \/ \E known \in BOOLEAN : Drop(e, known)
    PROVE  AheadInv'
<1>1. /\ main \in [Engines -> Places] /\ own \in [Engines -> Owns]
      /\ live \in [Engines -> Contents]
      /\ cache \in [Processes -> Overlays \cup {None}]
  BY DEF Kept, TypeInv
<1>2. e \in {Cli, First}
  BY StartsAlone DEF Calm, Leaving, HandOver, Collect, WriteSidecar, Forget,
       Release, Drop, At
<1>3. /\ file' = file /\ op' = op
      /\ cache'["player"] \in {cache["player"], None}
      /\ main[e] \notin {"off", "preloaded", "reserved"}
      /\ main'[e] \notin {"preloaded", "reserved"}
  BY <1>1, Two DEF Leaving, HandOver, Collect, WriteSidecar, Forget, Release, Drop,
       Leave, Goto, At, disk, threads
<1>4. \A f \in Engines \ {e} :
          /\ main'[f] = main[f] /\ own'[f] = own[f] /\ live'[f] = live[f]
          /\ status'[f] = status[f]
  BY <1>1 DEF Leaving, HandOver, Collect, WriteSidecar, Forget, Release, Drop,
       Leave, Goto, Gone, engine
<1>5. port' \in {port, None}
  BY DEF Leaving, HandOver, Collect, WriteSidecar, Forget, Release, Drop
<1>6. \A f \in Engines \ {e} : AheadAt(f)'
  <2>1. \A p \in Processes \ {ProcessOf(e)} : cache'[p] = cache[p]
    BY <1>1, Two DEF Leaving, HandOver, Collect, WriteSidecar, Forget, Release,
         Drop
  <2>2. \A f \in Engines \ {e} :
            At(f, "loaded") => cache'[ProcessOf(f)] = cache[ProcessOf(f)]
    BY <1>2, <2>1, OtherCache, ProcessKnown
  <2> QED
    BY <1>3, <1>4, <1>5, <2>2, AheadElsewhere, Two DEF AheadInv
<1>7. AheadAt(e)' /\ (sidecar # None => Handed(sidecar))'
  <2>1. OpAt(e, "idle")
    BY AtWork DEF Leaving, HandOver, Collect, WriteSidecar, Forget, Release, Drop,
         At, Leave, Calm
  <2>2. CASE HandOver(e)
    <3>1. /\ live' = live /\ status' = status /\ sidecar' = sidecar
          /\ main[e] = "leaving" /\ main'[e] \in {"collect", "release"}
      BY <1>1, <2>2 DEF HandOver, Goto, At, engine, disk
    <3>2. Runs(e)' => Runs(e)
      BY <1>1, <2>1, <2>2 DEF HandOver, Runs, Adopting, At, OpAt, Goto
    <3> QED
      BY <1>3, <2>1, <3>1, <3>2 DEF AheadInv, AheadAt, Refused, Handed, Ahead, At,
           OpAt
  <2>3. CASE Collect(e)
    <3>1. Runs(e)
      BY <1>2, <2>1, <2>3, Two DEF Collect, Runs, PlaceInv, DirtyInv, Deaf, At,
           OpAt, Held, Adopting
    <3>2. /\ live' = live /\ status' = status /\ sidecar' = sidecar
          /\ main'[e] = "write"
          /\ own'[e].out.r = live[e].r /\ own'[e].out.v = live[e].v
          /\ own'[e].out.d = live[e].d
          /\ own'[e].out.fallback = (status[e] = "parse_error")
          /\ main[e] = "collect"
      BY <1>1, <2>3 DEF Collect, Goto, At, engine, disk, Owns
    <3>3. own'[e].out.fallback \/ Ahead(live[e])
      BY <3>1, <3>2 DEF AheadInv, AheadAt, Refused, At
    <3>4. Handed(own'[e].out) /\ file' = file
      BY <1>3, <3>2, <3>3 DEF Handed, Ahead
    <3>5. (sidecar # None => Handed(sidecar))'
      BY <1>3, <3>2 DEF AheadInv, Handed, Ahead
    <3>6. Handed(own[e].out)'
      BY <3>4 DEF Handed, Ahead
    <3>7. Refused(e)' \/ Ahead(live[e])'
      BY <1>3, <3>1, <3>2 DEF AheadInv, AheadAt, Refused, Ahead, At, engine
    <3> QED
      BY <1>3, <2>1, <3>2, <3>5, <3>6, <3>7 DEF AheadAt, OpAt
  <2>4. CASE WriteSidecar(e)
    <3>1. sidecar' = own[e].out /\ main'[e] = "forget" /\ At(e, "write")
      BY <1>1, <2>4 DEF WriteSidecar, Goto
    <3> QED
      BY <1>3, <2>1, <3>1 DEF AheadInv, AheadAt, Runs, Handed, Ahead, At, OpAt
  <2>5. CASE Forget(e) \/ Release(e)
    <3>1. sidecar' = sidecar /\ main'[e] \in {"release", "off", "standby"}
      BY <1>1, <2>5 DEF Forget, Release, Goto, disk
    <3> QED
      BY <1>3, <2>1, <3>1 DEF AheadInv, AheadAt, Runs, Handed, Ahead, At, OpAt
  <2>6. CASE \E known \in BOOLEAN : Drop(e, known)
    <3>1. /\ sidecar' = sidecar /\ main'[e] = "leaving" /\ main[e] = "on"
          /\ port' = port
          /\ live' = live /\ status' = status
      BY <1>1, <2>6 DEF Drop, Leave, At, disk, engine
    <3> QED
      BY <1>3, <2>1, <3>1 DEF AheadInv, AheadAt, Runs, Refused, Adopting, Handed,
           Ahead, At, OpAt
  <2> QED
    BY <2>2, <2>3, <2>4, <2>5, <2>6 DEF Leaving
<1>8. Coming' => Coming
  BY <1>2, <1>3, <1>4, Two DEF Coming
<1> QED
  BY <1>3, <1>6, <1>7, <1>8 DEF AheadInv, Handed, Ahead, OpAt

\* The CLI stands by, ends, restarts or comes back.
LEMMA CliAhead ==
    ASSUME Kept, Calm, OneEach, PlaceInv, AheadInv,
           \/ EnterStandby \/ Quit \/ Restart \/ ComeBack \/ ResumeEarly
    PROVE  AheadInv'
<1>1. /\ main \in [Engines -> Places] /\ own \in [Engines -> Owns]
      /\ op \in [Engines -> Ops]
  BY DEF Kept, TypeInv
<1>2. /\ file' = file /\ sidecar' = sidecar /\ cache' = cache /\ live' = live
      /\ status' = status
  BY DEF EnterStandby, Quit, Restart, ComeBack, Probe, Wake, Resume, StandAgain,
       ResumeEarly, disk, engine
<1>3. /\ \A f \in Engines \ {Cli} :
            main'[f] = main[f] /\ own'[f] = own[f] /\ op'[f] = op[f]
      /\ port' \in {port, Cli}
  BY <1>1, Two DEF EnterStandby, Quit, Restart, ComeBack, Probe, Wake, Resume,
       StandAgain, ResumeEarly, Leave, Goto, OpGoto, threads
<1>4. \A f \in Engines \ {Cli} : AheadAt(f)'
  BY <1>2, <1>3, AheadElsewhere DEF AheadInv
<1>5. AheadAt(Cli)' /\ (OpAt(Cli, "adopted")' => OpAt(Cli, "adopted") /\ op' = op)
  <2>1. CASE EnterStandby \/ Quit \/ Restart
    <3>1. /\ main'[Cli] \in {"leaving", "release"} /\ main[Cli] = "on"
          /\ port' = port
          /\ op' = op
      BY <1>1, <2>1, Two DEF EnterStandby, Quit, Restart, Leave, Goto, At, Calm
    <3>2. Runs(Cli)' => Runs(Cli)
      BY <3>1 DEF Runs, Adopting
    <3>3. AheadAt(Cli)'
      BY <1>2, <3>1, <3>2, Two DEF AheadInv, AheadAt, Refused, Ahead, At, OpAt
    <3> QED
      BY <3>1, <3>3 DEF OpAt
  <2>2. CASE Wake
    <3>1. main'[Cli] = "resuming" /\ op' = op
      BY <1>1, <2>2, Two DEF Wake, Goto
    <3>2. AheadAt(Cli)'
      BY <1>2, <3>1, Two DEF AheadInv, AheadAt, Runs, At, OpAt
    <3> QED
      BY <3>1, <3>2 DEF OpAt
  <2>3. CASE Resume
    <3>1. main'[Cli] = "on" /\ op'[Cli].at = "adopt"
      BY <1>1, <2>3, Two DEF Resume, Goto, OpGoto, Ops
    <3> QED
      BY <3>1 DEF AheadAt, Runs, Adopting, At, OpAt
  <2>4. CASE Probe \/ ResumeEarly
    <3>1. main' = main /\ op' = op /\ own' = own /\ port' = port
      BY <2>4 DEF Probe, ResumeEarly, threads
    <3>2. AheadAt(Cli)'
      BY <1>2, <3>1, AheadElsewhere, Two DEF AheadInv
    <3> QED
      BY <3>1, <3>2 DEF OpAt
  <2>5. CASE StandAgain
    BY <2>5 DEF StandAgain, Calm
  <2> QED
    BY <2>1, <2>2, <2>3, <2>4, <2>5 DEF ComeBack
<1>6. main'[First] = main[First]
  BY <1>3, Two
<1> QED
  BY <1>2, <1>4, <1>5, <1>6 DEF AheadInv, Handed, Ahead, Coming, OpAt

\* A process dies, the file is edited, the sidecar ages.
LEMMA WorldAhead ==
    ASSUME Kept, OneEach, PlaceInv, AheadInv,
           (\E p \in Processes : Crash(p)) \/ HandEdit \/ Expire
    PROVE  AheadInv'
<1>1. file'.r = file.r /\ file'.v = file.v
  BY DEF Crash, HandEdit, Expire, disk, Kept, TypeInv, Files
<1>2. CASE HandEdit \/ Expire
  <2>1. UNCHANGED <<cache, port, main, own, op, live, status>>
    BY <1>2 DEF HandEdit, Expire, threads, engine
  <2>2. \A f \in Engines : AheadAt(f)'
    BY <1>1, <2>1, AheadElsewhere DEF AheadInv
  <2>3. sidecar' # None => /\ sidecar # None /\ sidecar'.r = sidecar.r
                           /\ sidecar'.v = sidecar.v /\ sidecar'.d = sidecar.d
                           /\ sidecar'.fallback = sidecar.fallback
    BY <1>2 DEF HandEdit, Expire, Fresh, Kept, TypeInv, Overlays
  <2> QED
    BY <1>1, <2>1, <2>2, <2>3 DEF AheadInv, Handed, Ahead, Coming, OpAt
<1>3. ASSUME NEW p \in Processes, Crash(p)
      PROVE  AheadInv'
  <2>1. \A f \in Engines :
            IF ProcessOf(f) = p
            THEN main'[f] = "off" /\ op'[f] = NoOp
            ELSE /\ main'[f] = main[f] /\ own'[f] = own[f] /\ op'[f] = op[f]
                 /\ live'[f] = live[f] /\ status'[f] = status[f]
                 /\ cache'[ProcessOf(f)] = cache[ProcessOf(f)]
    BY <1>3, ProcessKnown DEF Crash, Gone, Kept, TypeInv
  <2>2. /\ port' \in {port, None} /\ sidecar' = sidecar
        /\ cache'["player"] \in {cache["player"], None}
        /\ Coming' => Coming
    BY <1>3, <2>1, Two DEF Crash, disk, Coming, Kept, TypeInv
  <2>3. \A f \in Engines : AheadAt(f)'
    <3>1. ASSUME NEW f \in Engines, ProcessOf(f) = p
          PROVE  AheadAt(f)'
      BY <2>1, <3>1 DEF AheadAt, Runs, At, OpAt, NoOp
    <3>2. ASSUME NEW f \in Engines, ProcessOf(f) # p
          PROVE  AheadAt(f)'
      BY <1>1, <2>1, <2>2, <3>2, AheadElsewhere, Two DEF AheadInv
    <3> QED
      BY <3>1, <3>2
  <2>4. OpAt(Cli, "adopted")' => OpAt(Cli, "adopted") /\ op'[Cli] = op[Cli]
    BY <2>1, Two DEF OpAt, NoOp
  <2> QED
    BY <1>1, <2>2, <2>3, <2>4 DEF AheadInv, Handed, Ahead
<1> QED
  BY <1>2, <1>3

\* No step puts anything behind the file.
LEMMA NextAhead ==
    ASSUME Kept, HandOrigin, Calm, OneEach, PlaceInv, SidecarInv, CacheInv,
           DirtyInv, AheadInv, PlaceInv', SidecarInv', CacheInv', DirtyInv',
           [Next]_vars
    PROVE  AheadInv'
<1>1. CASE UNCHANGED vars
  BY <1>1 DEF vars, threads, disk, engine, AheadInv, AheadAt, Refused, Handed, Ahead,
       Coming, Runs, Adopting, At, OpAt
<1> QED
  BY <1>1, StartAhead, AskedAhead, ControlAhead, LeaveAhead, CliAhead, WorldAhead
     DEF Next

-----------------------------------------------------------------------------
(* Unsaved changes cross every hand-over.                                  *)

\* What is read where the state is stored is the state, unsaved or in the file.
LEMMA ReadHeard ==
    ASSUME NEW p \in Processes, StoredFor(p)
    PROVE  WithLive(p).r = heard /\ (Restored(p) \/ Filed)
BY DEF StoredFor, WithLive, Restored, Filed, FileOrDefault, Says

\* What is stored stays stored while nobody touches it.
LEMMA StoredStays ==
    ASSUME NEW p \in Processes, StoredFor(p), sidecar' = sidecar,
           cache'[p] = cache[p], file'.r = file.r, file'.broken = file.broken,
           heard' = heard, file.broken \/ file' = file \/ Restored(p)
    PROVE  StoredFor(p)'
BY DEF StoredFor, WithLive, Restored, Filed, Fresh, Says

\* An engine that nothing happens to.
LEMMA HeardElsewhere ==
    ASSUME NEW e \in Engines, HeardAt(e),
           main'[e] = main[e], op'[e] = op[e], own'[e] = own[e], live'[e] = live[e],
           dirty'[e] = dirty[e], cache'[ProcessOf(e)] = cache[ProcessOf(e)],
           port' = e => port = e, heard' = heard,
           Filed => Filed', At(e, "forget") => sidecar' = sidecar
    PROVE  HeardAt(e)'
BY Two DEF HeardAt, Runs, Unsaved, Adopting, At, OpAt, Fresh

\* A start loads what was stored.
LEMMA StartHeard ==
    ASSUME Kept, Calm, OneEach, PlaceInv, PlaceInv', SidecarInv, CacheInv, DirtyInv,
           HeardInv, NEW e \in Engines,
           \/ Preload(e) \/ Reserve(e) \/ Reclaim(e) \/ GiveUp(e) \/ Load(e)
           \/ Build(e) \/ Listen(e) \/ RunDeaf(e)
    PROVE  HeardInv'
<1>1. /\ main \in [Engines -> Places] /\ own \in [Engines -> Owns]
      /\ live \in [Engines -> Contents] /\ dirty \in [Engines -> BOOLEAN]
      /\ cache \in [Processes -> Overlays \cup {None}]
  BY DEF Kept, TypeInv
<1>2. e \in {Cli, First}
  BY StartsAlone DEF Calm, Preload, Reserve, Reclaim, GiveUp, Load, Build,
       Listen, RunDeaf, At
<1>3. file' = file /\ op' = op /\ heard' = heard /\ Filed' = Filed
  BY DEF Preload, Reserve, Reclaim, GiveUp, Load, Build, Listen, RunDeaf, disk,
       threads, history, Filed
<1>4. \A f \in Engines \ {e} :
          main'[f] = main[f] /\ own'[f] = own[f] /\ live'[f] = live[f]
          /\ dirty'[f] = dirty[f]
  BY <1>1 DEF Preload, Reserve, Reclaim, GiveUp, Load, Build, Listen, RunDeaf,
       Goto, threads, engine
<1>5. port' \in {port, e}
  BY DEF Preload, Reserve, Reclaim, GiveUp, Load, Build, Listen, RunDeaf
<1>6. \A f \in Engines \ {e} : HeardAt(f)'
  <2> SUFFICES ASSUME NEW f \in Engines \ {e}
               PROVE  HeardAt(f)'
    OBVIOUS
  <2>1. CASE f \notin {Cli, First}
    BY <1>3, <1>4, <2>1, OthersOff DEF HeardAt, Runs, At
  <2>2. CASE f \in {Cli, First}
    <3>1. cache'[ProcessOf(f)] = cache[ProcessOf(f)]
      BY <1>1, <1>2, <2>2, Two DEF Preload, Reserve, Reclaim, GiveUp, Load, Build,
           Listen, RunDeaf, Consume
    <3>2. At(f, "forget") => sidecar' = sidecar
      BY <1>2, <2>2, Two DEF Preload, Reserve, Reclaim, GiveUp, Load, Build,
           Listen, RunDeaf, disk, MayStart, Settled, Calm, At, PlaceInv, Starting,
           Deaf, Held
    <3> QED
      BY <1>3, <1>4, <1>5, <3>1, <3>2, HeardElsewhere DEF HeardInv
  <2> QED
    BY <2>1, <2>2
<1>7. OpAt(e, "idle")
  BY AtWork DEF Preload, Reserve, Reclaim, GiveUp, Load, Build, Listen, RunDeaf,
       MayStart, At
<1>8. CASE Preload(e)
  <2>1. e = First /\ At(First, "off") /\ main'[First] = "preloaded" /\ port' = port
    BY <1>1, <1>2, <1>8 DEF Preload, MayStart, Goto
  <2>2. HeardAt(e)'
    BY <1>3, <1>7, <2>1, Two DEF HeardAt, Runs, At, OpAt
  <2>3. Between' => port = None /\ main[Cli] \in {"off", "standby", "resuming"}
    <3>1. ~OpAt(Cli, "adopt") /\ main[Cli] \notin {"forget", "release"}
      BY <1>8, <2>1, Two DEF Preload, MayStart, Settled, Calm, At, OpAt, PlaceInv,
           Held
    <3>2. \A f \in Engines : main'[f] \notin {"forget", "release"}
      BY <1>4, <2>1, <3>1, OthersOff, Two
    <3> QED
      BY <1>3, <1>4, <2>1, <3>1, <3>2, Two DEF Between, At, OpAt
  <2>4. ASSUME port = None, main[Cli] \in {"off", "standby", "resuming"}
        PROVE  StoredFor("player")'
    <3>1. StoredFor("cli") /\ cache["cli"] = None /\ cache["player"] = None
      BY <2>1, <2>4 DEF HeardInv, Between, Heir, Coming, At, CacheInv
    <3>2. sidecar' = None /\ cache'["player"] = IF Fresh THEN sidecar ELSE None
      BY <1>1, <1>8, <2>1, <3>1, Two DEF Preload, Consume
    <3> QED
      BY <1>3, <3>1, <3>2 DEF StoredFor, WithLive, Restored, Filed, Fresh, Says
  <2> QED
    BY <1>3, <1>6, <2>1, <2>2, <2>3, <2>4 DEF HeardInv, Heir, Coming, OpAt
<1>9. CASE Reserve(e)
  <2>1. /\ e = First /\ At(First, "preloaded") /\ main'[First] = "reserved"
        /\ port = None /\ main[Cli] \in {"off", "standby", "resuming"}
        /\ UNCHANGED <<file, sidecar, cache>>
    BY <1>1, <1>2, <1>9, Two DEF Reserve, Goto, PlaceInv, At, Held, Kept, TypeInv,
         Places, disk
  <2>2. HeardAt(e)'
    BY <1>3, <1>7, <2>1, Two DEF HeardAt, Runs, At, OpAt
  <2>3. StoredFor("player")'
    BY <1>3, <2>1, StoredStays, Two DEF HeardInv, Between, Heir, Coming, At
  <2> QED
    BY <1>3, <1>6, <2>1, <2>2, <2>3 DEF HeardInv, Heir, Coming, OpAt
<1>10. CASE Reclaim(e)
  BY <1>2, <1>10, Two, Names, EnginesAssumption DEF Reclaim, PlaceInv, At
<1>11. CASE GiveUp(e) \/ Load(e) \/ Build(e) \/ Listen(e) \/ RunDeaf(e)
  <2>1. main'[e] \in {"reserved", "loaded", "built", "on"}
    BY <1>1, <1>11 DEF GiveUp, Load, Build, Listen, RunDeaf, Goto
  <2>2. ~Between'
    <3>1. CASE e = Cli
      <4>1. main'[Cli] \in {"loaded", "built", "on"} /\ At(First, "off")
        BY <1>1, <1>11, <3>1, Two DEF GiveUp, Load, Build, Listen, RunDeaf, Goto,
             At, MayStart, Calm, PlaceInv
      <4> QED
        BY <1>3, <1>4, <1>7, <3>1, <4>1, OthersOff, Two DEF Between, At, OpAt
    <3>2. CASE e = First
      <4>1. CASE ~left.yields /\ port = Cli /\ At(Cli, "on")
        <5>1. port' = Cli /\ ~OpAt(Cli, "adopt")
          BY <1>11, <3>2, <4>1, Two DEF GiveUp, Load, Build, Listen, RunDeaf,
               PlaceInv, Adopting, At, OpAt
        <5> QED
          BY <1>3, <1>4, <2>1, <3>2, <4>1, <5>1, OthersOff, Two DEF Between, At,
               OpAt
      <4>2. CASE ~(~left.yields /\ port = Cli /\ At(Cli, "on"))
        <5>1. ~GiveUp(e) /\ main[First] \in {"reserved", "loaded", "built"}
          BY <1>11, <3>2, <4>2, Two DEF GiveUp, Load, Build, Listen, RunDeaf, At
        <5>2. port = First
          BY <4>2, <5>1, Two DEF Deaf, Starting, PlaceInv, Held, At
        <5>3. port' = First /\ main'[First] # "reserved" /\ port # Cli
          BY <1>1, <1>11, <3>2, <5>1, <5>2, Two DEF Load, Build, Listen, RunDeaf,
               Goto
        <5>4. ~OpAt(Cli, "adopt")
          BY <5>3, AtWork, Two DEF OpAt
        <5> QED
          BY <1>3, <1>4, <2>1, <3>2, <5>3, <5>4, Two DEF Between, At, OpAt
      <4> QED
        BY <4>1, <4>2
    <3> QED
      BY <1>2, <3>1, <3>2
  <2>3. HeardAt(e)'
    <3>1. CASE Load(e)
      <4> SUFFICES ASSUME Runs(e)'
                   PROVE  live'[e].r = heard /\ (Unsaved(e)' \/ Filed)
        BY <1>1, <1>3, <1>7, <3>1 DEF HeardAt, Load, Goto, At, OpAt
      <4>1. /\ main'[e] = "loaded" /\ live'[e] = WithLive(ProcessOf(e))
            /\ port' = port
            /\ own'[e].restored = Restored(ProcessOf(e))
            /\ cache'[ProcessOf(e)] = IF Fresh THEN sidecar ELSE cache[ProcessOf(e)]
        BY <1>1, <3>1, ProcessKnown DEF Load, Goto, Consume, Owns
      <4>2. Between /\ Heir = ProcessOf(e)
        BY <1>2, <3>1, <4>1, Two DEF Load, MayStart, Calm, PlaceInv, Runs,
             Between, Heir, Coming, At, Held
      <4>3. live'[e].r = heard /\ (Restored(ProcessOf(e)) \/ Filed)
        BY <4>1, <4>2, ReadHeard, ProcessKnown DEF HeardInv
      <4>4. Restored(ProcessOf(e)) => Unsaved(e)'
        BY <1>2, <4>1, Two DEF Unsaved, Restored, Fresh, At
      <4> QED
        BY <4>3, <4>4
    <3>2. CASE Build(e)
      <4>1. /\ main'[e] = "built" /\ live' = live /\ port' = port
            /\ main[e] = "loaded"
            /\ Unsaved(e) => dirty'[e]
        BY <1>1, <3>2, Two DEF Build, Goto, At, Unsaved
      <4> QED
        BY <1>3, <1>7, <4>1 DEF HeardInv, HeardAt, Runs, Unsaved, At, OpAt
    <3>3. CASE Listen(e)
      <4>1. /\ main'[e] = "on" /\ live' = live /\ dirty' = dirty /\ main[e] = "built"
            /\ Runs(e)
        BY <1>1, <1>2, <3>3, Two DEF Listen, Goto, engine, Runs, At, PlaceInv,
             Starting, Deaf, Held
      <4> QED
        BY <1>3, <1>7, <4>1 DEF HeardInv, HeardAt, Unsaved, At, OpAt
    <3>4. CASE GiveUp(e) \/ RunDeaf(e)
      <4>1. ~Runs(e)'
        BY <1>1, <1>2, <3>4, Two DEF GiveUp, RunDeaf, Goto, Runs, At, PlaceInv
      <4> QED
        BY <1>3, <1>7, <2>1, <4>1 DEF HeardAt, At, OpAt
    <3> QED
      BY <1>11, <3>1, <3>2, <3>3, <3>4
  <2> QED
    BY <1>2, <1>3, <1>6, <1>7, <2>2, <2>3 DEF HeardInv, OpAt
<1> QED
  BY <1>8, <1>9, <1>10, <1>11

\* A control that begins: the user hears the edit, and its engine holds it.
LEMMA AskedHeard ==
    ASSUME Kept, Calm, OneEach, PlaceInv, CacheInv, DirtyInv, ~excused => HeardInv,
           NEW e \in Engines, ~excused',
           \/ Edit(e) \/ SaveBegin(e) \/ View(e) \/ ReloadBegin(e)
           \/ \E known \in BOOLEAN : AskYield(e, known)
    PROVE  HeardInv'
<1>1. /\ op \in [Engines -> Ops] /\ live \in [Engines -> Contents]
      /\ dirty \in [Engines -> BOOLEAN] /\ used \in [edits : Nat, views : Nat]
  BY DEF Kept, TypeInv
<1>2. /\ main' = main /\ own' = own /\ port' = port /\ file' = file
      /\ sidecar' = sidecar /\ cache' = cache
  BY DEF Edit, SaveBegin, View, ReloadBegin, AskYield, threads, disk
<1>3. CASE Edit(e)
  <2>1. /\ live'[e].r = used.edits + 1 /\ heard' = used.edits + 1 /\ dirty'[e]
        /\ op' = op
        /\ \A f \in Engines \ {e} : live'[f] = live[f] /\ dirty'[f] = dirty[f]
        /\ main[e] = "on" /\ port = e /\ OpAt(e, "idle")
    BY <1>1, <1>3 DEF Edit, Listening, Calm, threads, Contents, At
  <2>2. e \in {Cli, First} /\ \A f \in Engines \ {e} : OpAt(f, "idle")
    BY <2>1, AtWork, Two DEF PlaceInv, OpAt
  <2>3. \A f \in Engines \ {e} : ~Runs(f) /\ main[f] \notin {"write", "forget"}
    <3>1. Runs(e)
      BY <2>1 DEF Runs, Adopting, OpAt
    <3> QED
      BY <2>1, <2>2, <3>1, OneRuns, OthersOff, Two DEF PlaceInv, DirtyInv, Deaf,
           Held
  <2>4. \A f \in Engines : HeardAt(f)'
    BY <1>2, <2>1, <2>2, <2>3 DEF HeardAt, Runs, Unsaved, At, OpAt, Adopting
  <2>5. ~Between'
    BY <1>2, <2>1, <2>2, OthersOff, Two DEF Between, At, OpAt
  <2>6. ~OpAt(Cli, "adopted")'
    BY <2>1, <2>2, Two DEF OpAt
  <2> QED
    BY <2>4, <2>5, <2>6 DEF HeardInv
<1>4. CASE ~Edit(e)
  <2>1. ~excused /\ heard' = heard
    BY <1>4 DEF SaveBegin, View, ReloadBegin, AskYield, history
  <2>2. \A f \in Engines : live'[f].r = live[f].r /\ dirty'[f] = dirty[f]
    BY <1>1, <1>4 DEF SaveBegin, View, ReloadBegin, AskYield, engine, Contents
  <2>3. \A f \in Engines : \/ op'[f] = op[f]
                           \/ /\ OpAt(f, "idle")
                              /\ op'[f].at \in {"backup", "view", "reload"}
    BY <1>1, <1>4 DEF SaveBegin, View, ReloadBegin, AskYield, threads, OpGoto,
         OpAt, Ops, Listening
  <2>4. \A f \in Engines : HeardAt(f)'
    <3>1. \A f \in Engines : HeardAt(f) /\ (Runs(f)' => Runs(f))
      BY <1>2, <2>1, <2>3 DEF HeardInv, Runs, Adopting, OpAt
    <3> QED
      BY <1>2, <2>1, <2>2, <2>3, <3>1, Two DEF HeardAt, Unsaved, Filed, Fresh, At,
           OpAt
  <2>5. Between' => Between
    BY <1>2, <2>3, Two DEF Between, At, OpAt
  <2>6. StoredFor(Heir) => StoredFor(Heir)'
    BY <1>2, <2>1 DEF StoredFor, Restored, WithLive, Fresh, Filed, Says,
         FileOrDefault, Heir, Coming
  <2>7. OpAt(Cli, "adopted")' => OpAt(Cli, "adopted") /\ op'[Cli] = op[Cli]
    BY <2>3, Two DEF OpAt
  <2> QED
    BY <1>2, <2>1, <2>4, <2>5, <2>6, <2>7 DEF HeardInv, Filed
<1> QED
  BY <1>3, <1>4

\* While an engine holds the port, the others have nothing in hand.
LEMMA OthersApart ==
    ASSUME Kept, OneEach, PlaceInv, DirtyInv, NEW e \in Engines,
           port = e, NEW f \in Engines \ {e}
    PROVE  ~Runs(f) /\ OpAt(f, "idle") /\ main[f] \notin {"write", "forget"}
<1>1. OpAt(f, "idle")
  BY AtWork DEF OpAt
<1>2. ~Runs(f) /\ main[f] \notin {"write", "forget"}
  BY OthersOff, Two DEF Runs, PlaceInv, DirtyInv, Deaf, Held, At
<1> QED
  BY <1>1, <1>2

\* A control goes on: a Save has the user's state in the file before it counts
\* as saved, a reload makes the file what the user hears, and what a listener
\* adopts is what was stored.
LEMMA ControlHeard ==
    ASSUME Kept, OneEach, PlaceInv, SidecarInv, CacheInv, DirtyInv,
           ~excused => HeardInv, NEW e \in Engines, Control(e), ~excused'
    PROVE  HeardInv'
<1>1. /\ op \in [Engines -> Ops] /\ live \in [Engines -> Contents]
      /\ dirty \in [Engines -> BOOLEAN]
  BY DEF Kept, TypeInv
<1>2. main' = main /\ own' = own /\ port' = port /\ ~OpAt(e, "idle")
  BY DEF Control, BackUp, Copied, Rename, Remove, Clear, MarkClean, ViewWrite,
       AmendCache, AmendRead, AmendWrite, Reread, AdoptLoad, AdoptApply, threads,
       OpAt
<1>3. e \in {Cli, First} /\ At(e, "on") /\ port = e
  BY <1>2, AtWork
<1>4. \A f \in Engines \ {e} : op'[f] = op[f]
  BY <1>1 DEF Control, BackUp, Copied, Rename, Remove, Clear, MarkClean,
       ViewWrite, AmendCache, AmendRead, AmendWrite, Reread, AdoptLoad,
       AdoptApply, OpGoto, OpEnds
<1>5. \A f \in Engines \ {e} : HeardAt(f)'
  BY <1>2, <1>3, <1>4, OthersApart DEF HeardAt, Runs, Adopting, At, OpAt
<1>6. /\ op'[e].at # "adopt" /\ (op'[e].at = "adopted" => AdoptLoad(e))
      /\ op'[e].at \in {"discard", "clear", "clean"} =>
           Rename(e) \/ op[e].at \in {"discard", "clear"}
  <2>1. CASE AdoptLoad(e)
    BY <1>1, <2>1 DEF AdoptLoad
  <2>2. CASE MarkClean(e) \/ Reread(e) \/ AmendWrite(e) \/ AdoptApply(e)
    BY <1>1, <2>2 DEF MarkClean, Reread, AmendWrite, AdoptApply, OpEnds, NoOp
  <2>3. CASE AmendRead(e)
    BY <1>1, <2>3 DEF AmendRead, OpEnds, NoOp
  <2>4. CASE Remove(e) \/ Clear(e)
    BY <1>1, <2>4, OpMoved DEF Remove, Clear, OpAt, OpPlaces
  <2>5. CASE BackUp(e) \/ Copied(e) \/ Rename(e) \/ ViewWrite(e) \/ AmendCache(e)
    BY <1>1, <2>5, OpMoved DEF BackUp, Copied, Rename, ViewWrite, AmendCache,
         OpPlaces
  <2> QED
    BY <2>1, <2>2, <2>3, <2>4, <2>5 DEF Control
<1>7. ~Between'
  <2>1. ~OpAt(Cli, "adopt")'
    BY <1>3, <1>4, <1>6, OthersApart, Two DEF OpAt
  <2> QED
    BY <1>2, <1>3, <2>1, Two DEF Between, At
<1>8. CASE AdoptLoad(e)
  <2>1. e = Cli /\ OpAt(Cli, "adopt") /\ ~excused /\ heard' = heard /\ file' = file
    BY <1>8 DEF AdoptLoad, Kept, HandInv, OpAt, history
  <2>2. StoredFor("cli")
    <3>1. StoredFor(Heir)
      BY <2>1 DEF HeardInv, Between
    <3>2. Coming => At(First, "preloaded")
      BY <1>3, <2>1, Two DEF Coming, PlaceInv, Starting, Deaf, Adopting, At, OpAt
    <3>3. Coming => cache["player"] = None
      BY <1>3, <2>1, <3>2 DEF SidecarInv, At
    <3>4. cache["cli"] = None
      BY <2>1 DEF CacheInv
    <3> QED
      BY <3>1, <3>3, <3>4 DEF StoredFor, Heir, Restored, WithLive
  <2>3. WithLive("cli").r = heard /\ (Restored("cli") \/ Filed)
    BY <2>2, ReadHeard, Two
  <2>4. /\ op'[Cli].out.says = WithLive("cli") /\ op'[Cli].out.says # None
        /\ op'[Cli].out.restored = Restored("cli")
    <3>1. WithLive("cli") # None
      BY ReadTyped, Two, NoneAssumption DEF Contents, Kept, TypeInv
    <3>2. Adoptable("cli") = WithLive("cli")
      BY <2>3 DEF Adoptable, Filed
    <3> QED
      BY <1>1, <1>8, <2>1, <3>1, <3>2, Two DEF AdoptLoad
  <2>5. OpAt(Cli, "adopted")'
    BY <1>1, <1>8, <2>1, Two DEF AdoptLoad, OpAt
  <2>6. HeardAt(e)'
    BY <1>2, <1>3, <2>1, <2>5 DEF HeardAt, Runs, Adopting, At, OpAt
  <2>7. OpAt(Cli, "adopted")' =>
          /\ op'[Cli].out.says # None /\ op'[Cli].out.says.r = heard'
          /\ op'[Cli].out.restored \/ Filed'
    BY <2>1, <2>3, <2>4 DEF Filed
  <2> QED
    BY <1>5, <1>7, <2>6, <2>7 DEF HeardInv
<1>9. CASE ~AdoptLoad(e)
  <2>1. ~OpAt(Cli, "adopted")'
    <3>1. op'[e].at # "adopted"
      BY <1>6, <1>9
    <3> QED
      BY <1>3, <1>4, <3>1, OthersApart, Two DEF OpAt
  <2>2. HeardAt(e)'
    <3> SUFFICES live'[e].r = heard' /\ (dirty'[e] \/ Filed')
                 /\ (op'[e].at \in {"discard", "clear", "clean"} => Filed')
      BY <1>2, <1>3 DEF HeardAt, Unsaved, At, OpAt
    <3>1. CASE Reread(e)
      <4>1. /\ live'[e] = Says(file) /\ heard' = live'[e].r /\ file' = file
            /\ ~file.broken /\ op'[e].at = "idle"
        BY <1>1, <3>1, SaysSomething DEF Reread, Switch, OpEnds, NoOp, disk
      <4>2. Filed' /\ live'[e].r = heard'
        BY <4>1 DEF Says, Filed
      <4> QED
        BY <4>1, <4>2
    <3>2. CASE ~Reread(e)
      <4>1. ~excused /\ heard' = heard
        BY <1>9, <3>2 DEF Control, BackUp, Copied, Rename, Remove, Clear,
             MarkClean, ViewWrite, AmendCache, AmendRead, AmendWrite, AdoptApply,
             history
      <4>2. CASE AdoptApply(e)
        <5>1. /\ e = Cli /\ OpAt(Cli, "adopted") /\ file' = file
              /\ op[e].out.says # None => live'[e] = op[e].out.says
              /\ dirty'[e] = op[e].out.restored /\ op'[e].at = "idle"
          BY <1>1, <4>2 DEF AdoptApply, Switch, Kept, HandInv, OpAt, OpEnds, NoOp,
               disk
        <5> QED
          BY <4>1, <5>1 DEF HeardInv, Filed
      <4>3. CASE ~AdoptApply(e)
        <5>1. live'[e] = live[e] /\ ~Adopting(e)
          BY <1>9, <3>2, <4>3 DEF Control, BackUp, Copied, Rename, Remove, Clear,
               MarkClean, ViewWrite, AmendCache, AmendRead, AmendWrite, engine,
               Adopting, OpAt
        <5>2. Runs(e) /\ live[e].r = heard /\ (dirty[e] \/ Filed)
          BY <1>3, <4>1, <5>1 DEF HeardInv, HeardAt, Runs, Unsaved, At
        <5>3. CASE Rename(e)
          <6>1. file'.r = live[e].r /\ ~file'.broken
            BY <5>3 DEF Rename, Kept, WriterInv, Saving, OpAt
          <6> QED
            BY <4>1, <5>1, <5>2, <6>1 DEF Filed
        <5>4. CASE ~Rename(e)
          <6>1. file'.r = file.r /\ file'.broken = file.broken
            BY <1>9, <3>2, <4>3, <5>4 DEF Control, BackUp, Copied, Remove, Clear,
                 MarkClean, ViewWrite, AmendCache, AmendRead, AmendWrite, disk,
                 Kept, WriterInv, OpAt
          <6>2. op'[e].at \in {"discard", "clear", "clean"} =>
                  op[e].at \in {"discard", "clear", "clean"}
            BY <1>6, <5>4
          <6>3. dirty'[e] = dirty[e] \/ OpAt(e, "clean")
            BY <1>9, <3>2, <4>3, <5>4 DEF Control, BackUp, Copied, Remove, Clear,
                 MarkClean, ViewWrite, AmendCache, AmendRead, AmendWrite, engine
          <6>4. op[e].at \in {"discard", "clear", "clean"} => Filed
            BY <4>1 DEF HeardInv, HeardAt
          <6> QED
            BY <4>1, <5>1, <5>2, <6>1, <6>2, <6>3, <6>4 DEF Filed, OpAt
        <5> QED
          BY <5>3, <5>4
      <4> QED
        BY <4>2, <4>3
    <3> QED
      BY <3>1, <3>2
  <2> QED
    BY <1>5, <1>7, <2>1, <2>2 DEF HeardInv
<1> QED
  BY <1>8, <1>9

\* No overlay is None.
LEMMA NoneApart ==
    ASSUME Kept
    PROVE  None \notin Overlays
BY NoneAssumption DEF Kept, TypeInv, Overlays

\* While the CLI has the port, and runs, the player's process keeps nothing.
LEMMA HeirKeeps ==
    ASSUME Kept, Calm, OneEach, PlaceInv, SidecarInv, CacheInv, DirtyInv,
           NEW e \in Engines, port = e, main[e] \in Held \ {"on"},
           cache[ProcessOf(e)] = None
    PROVE  cache[Heir] = None
<1>1. CASE e = First
  BY <1>1, Two DEF PlaceInv, CacheInv, Heir, Coming, Held, At, Kept, TypeInv,
       Places
<1>2. CASE e = Cli
  <2>1. At(First, "reserved") => FALSE
    BY <1>2, Two DEF PlaceInv, Starting, Deaf, Held, At
  <2>2. Coming => cache["player"] = None
    BY <1>2, <2>1 DEF SidecarInv, Coming, At, Held
  <2> QED
    BY <1>2, <2>2, Two DEF Heir
<1> QED
  BY <1>1, <1>2, Two DEF PlaceInv

\* An engine leaves: what is unsaved is in the sidecar before the port is free,
\* and what is not is in the file.
LEMMA LeaveHeard ==
    ASSUME Kept, Calm, OneEach, PlaceInv, SidecarInv, CacheInv, DirtyInv,
           ~excused => HeardInv, NEW e \in Engines, ~excused',
           Leaving(e) \/ \E known \in BOOLEAN : Drop(e, known)
    PROVE  HeardInv'
<1>1. /\ main \in [Engines -> Places] /\ own \in [Engines -> Owns]
      /\ live \in [Engines -> Contents] /\ dirty \in [Engines -> BOOLEAN]
      /\ cache \in [Processes -> Overlays \cup {None}]
  BY DEF Kept, TypeInv
<1>2. e \in {Cli, First}
  BY StartsAlone DEF Calm, Leaving, HandOver, Collect, WriteSidecar, Forget,
       Release, Drop, At
<1>3. file' = file /\ op' = op /\ OpAt(e, "idle") /\ ~At(e, "off")
  BY DEF Leaving, HandOver, Collect, WriteSidecar, Forget, Release, Drop, Leave,
       disk, threads, PlaceInv, Held, At, OpAt, Calm
<1>4. \A f \in Engines \ {e} :
          main'[f] = main[f] /\ own'[f] = own[f] /\ live'[f] = live[f]
          /\ dirty'[f] = dirty[f]
  BY <1>1 DEF Leaving, HandOver, Collect, WriteSidecar, Forget, Release, Drop,
       Leave, Goto, Gone, engine, threads
<1>5. \A f \in Engines \ {e} : port = e => HeardAt(f)'
  <2> SUFFICES ASSUME NEW f \in Engines \ {e}, port = e
               PROVE  HeardAt(f)'
    OBVIOUS
  <2>1. port' \in {port, None}
    BY DEF Leaving, HandOver, Collect, WriteSidecar, Forget, Release, Drop
  <2>2. f = Cli => main[f] \notin {"loaded", "built"}
    BY Two DEF PlaceInv
  <2> QED
    BY <1>3, <1>4, <2>1, <2>2, OthersApart, Two DEF HeardAt, Runs, Adopting, At,
         OpAt
<1>6. CASE HandOver(e) \/ \E known \in BOOLEAN : Drop(e, known)
  <2>1. /\ ~excused /\ heard' = heard /\ live' = live /\ dirty' = dirty
        /\ port' = port /\ sidecar' = sidecar /\ cache' = cache
    BY <1>6 DEF HandOver, Drop, history, engine, disk
  <2>2. /\ \/ main[e] = "on" /\ main'[e] = "leaving"
           \/ main[e] = "leaving" /\ main'[e] \in {"collect", "release"}
        /\ main'[e] = "release" => ~dirty[e]
    BY <1>1, <1>6 DEF HandOver, Drop, Leave, Goto, At
  <2>3. HeardAt(e)'
    BY <1>3, <2>1, <2>2 DEF HeardInv, HeardAt, Runs, Unsaved, Adopting, Filed, At,
         OpAt
  <2>4. \A f \in Engines \ {e} : HeardAt(f)'
    BY <1>3, <1>4, <2>1, HeardElsewhere DEF HeardInv, Filed
  <2>5. Between' => Between \/ (main'[e] = "release" /\ port = e)
    BY <1>3, <1>4, <2>1, <2>2, Two DEF Between, At, OpAt
  <2>6. Heir' = Heir
    BY <1>2, <1>4, <2>2, Two DEF Heir, Coming
  <2>7. StoredFor(Heir) => StoredFor(Heir)'
    BY <1>3, <2>1, <2>6 DEF StoredFor, Restored, WithLive, Fresh, Filed, Says,
         FileOrDefault
  <2>8. ASSUME main'[e] = "release", port = e
        PROVE  StoredFor(Heir)
    <3>1. Runs(e) /\ main[e] = "leaving" /\ ~dirty[e]
      BY <1>3, <2>2, <2>8 DEF Runs, Adopting, OpAt
    <3>2. sidecar = None /\ Filed
      BY <2>1, <3>1 DEF SidecarInv, HeardInv, HeardAt, Unsaved, At
    <3>3. cache[ProcessOf(e)] = None
      BY <1>3, <3>1 DEF CacheInv, CacheAt, Unsaved, Adopting, At, OpAt
    <3>4. cache[Heir] = None
      BY <2>8, <3>1, <3>3, HeirKeeps DEF Held
    <3> QED
      BY <3>2, <3>4 DEF StoredFor, Restored, Fresh
  <2> QED
    BY <1>3, <2>1, <2>3, <2>4, <2>5, <2>7, <2>8 DEF HeardInv, OpAt, Filed
<1>7. CASE Collect(e) \/ WriteSidecar(e) \/ Forget(e)
  <2>1. /\ ~excused /\ heard' = heard /\ live' = live /\ dirty' = dirty
        /\ port' = port /\ main[e] \in {"collect", "write", "forget"}
    BY <1>7 DEF Collect, WriteSidecar, Forget, history, engine, At
  <2>2. port = e /\ own[e].goal # "reload" /\ own'[e].goal = own[e].goal
    BY <1>1, <1>2, <1>7, <2>1, Two DEF DirtyInv, Deaf, PlaceInv, Held, Collect,
         WriteSidecar, Forget, threads, Owns
  <2>3. \A f \in Engines \ {e} : HeardAt(f)'
    BY <1>5, <2>2
  <2>4. ~OpAt(Cli, "adopted")'
    BY <1>2, <1>3, <2>2, OthersApart, Two DEF OpAt
  <2>5. Heir' = Heir
    BY <1>1, <1>2, <1>4, <1>7, <2>1, Two DEF Heir, Coming, Collect, WriteSidecar,
         Forget, Goto
  <2>6. CASE Collect(e)
    <3>1. /\ main'[e] = "write" /\ own'[e].out.r = live[e].r /\ ~own'[e].out.stale
          /\ Runs(e)
      BY <1>1, <1>3, <2>2, <2>6 DEF Collect, Goto, Runs, Adopting, At, OpAt, Owns
    <3>2. HeardAt(e)'
      BY <1>3, <2>1, <3>1 DEF HeardInv, HeardAt, Runs, Unsaved, Adopting, Filed,
           At, OpAt
    <3>3. ~Between'
      BY <1>2, <1>3, <1>4, <2>1, <2>2, <3>1, OthersApart, Two DEF Between, At, OpAt
    <3> QED
      BY <2>3, <2>4, <3>2, <3>3 DEF HeardInv
  <2>7. CASE WriteSidecar(e)
    <3>1. main'[e] = "forget" /\ sidecar' = own[e].out /\ At(e, "write")
      BY <1>1, <2>7 DEF WriteSidecar, Goto
    <3>2. own[e].out.r = heard /\ ~own[e].out.stale /\ own[e].out # None
      BY <2>1, <3>1, NoneApart DEF HeardInv, HeardAt, Kept, TypeInv
    <3>3. HeardAt(e)' /\ StoredFor(Heir)'
      BY <1>3, <2>1, <3>1, <3>2 DEF HeardAt, Runs, StoredFor, Restored, WithLive,
           Fresh, Says, At, OpAt
    <3> QED
      BY <2>3, <2>4, <3>3 DEF HeardInv
  <2>8. CASE Forget(e)
    <3>1. main'[e] = "release" /\ sidecar' = sidecar /\ Fresh
      BY <1>1, <2>1, <2>8 DEF Forget, Goto, disk, HeardInv, HeardAt
    <3>2. StoredFor(Heir)
      BY <2>1, <2>2, <2>8 DEF HeardInv, Between, Forget, At
    <3>3. HeardAt(e)' /\ StoredFor(Heir)'
      BY <1>3, <2>1, <2>5, <3>1, <3>2 DEF HeardAt, Runs, StoredFor, Restored,
           WithLive, Fresh, Says, At, OpAt
    <3> QED
      BY <2>3, <2>4, <3>3 DEF HeardInv
  <2> QED
    BY <1>7, <2>6, <2>7, <2>8
<1>8. CASE Release(e)
  <2>1. /\ At(e, "release") /\ main'[e] \in {"standby", "off"} /\ sidecar' = sidecar
        /\ port' = IF port = e THEN None ELSE port
    BY <1>1, <1>8 DEF Release, Goto, disk
  <2>2. HeardAt(e)'
    BY <1>3, <2>1 DEF HeardAt, Runs, At, OpAt
  <2>3. Heir' = Heir
    BY <1>2, <1>4, <2>1, Two DEF Heir, Coming, At
  <2>4. CASE own[e].goal = "reload"
    <3>1. /\ e = Cli /\ port = Cli /\ heard' = file.r /\ ~file.broken
          /\ cache'["cli"] = None /\ cache'["player"] = cache["player"]
      BY <1>1, <1>2, <1>8, <2>1, <2>4, Two DEF Release, PlaceInv, Held, At
    <3>2. sidecar = None
      BY <2>1, <2>4 DEF SidecarInv
    <3>3. Coming => cache["player"] = None
      BY <2>1, <3>1, Two DEF Coming, SidecarInv, PlaceInv, Starting, Deaf, At
    <3>4. StoredFor(Heir)'
      BY <1>3, <2>1, <2>3, <3>1, <3>2, <3>3 DEF Heir, StoredFor, Restored, Fresh,
           Filed
    <3> QED
      BY <1>3, <1>5, <2>2, <3>1, <3>4, Two DEF HeardInv, OpAt
  <2>5. CASE own[e].goal # "reload"
    <3>1. /\ ~excused /\ heard' = heard /\ cache[ProcessOf(e)] = None
          /\ cache' = [cache EXCEPT ![ProcessOf(e)] = None] \/ cache' = cache
      BY <1>8, <2>1, <2>5, Two DEF Release, CacheInv, CacheAt
    <3>2. cache' = cache
      BY <1>1, <3>1
    <3>3. \A f \in Engines \ {e} : HeardAt(f)'
      BY <1>3, <1>4, <2>1, <3>1, <3>2, HeardElsewhere, Two DEF HeardInv, Filed
    <3>4. Between' => Between
      BY <1>2, <1>3, <1>4, <2>1, <2>5, Two DEF Between, PlaceInv, Held, At, OpAt
    <3>5. StoredFor(Heir) => StoredFor(Heir)'
      BY <1>3, <2>1, <2>3, <3>1, <3>2 DEF StoredFor, Restored, WithLive, Fresh,
           Filed, Says, FileOrDefault
    <3> QED
      BY <1>3, <2>2, <3>1, <3>3, <3>4, <3>5 DEF HeardInv, OpAt, Filed
  <2> QED
    BY <2>4, <2>5
<1> QED
  BY <1>6, <1>7, <1>8 DEF Leaving

\* The CLI stands by, ends, restarts or comes back.
LEMMA CliHeard ==
    ASSUME Kept, Calm, OneEach, PlaceInv, ~excused => HeardInv, ~excused',
           \/ EnterStandby \/ Quit \/ Restart \/ ComeBack \/ ResumeEarly
    PROVE  HeardInv'
<1>1. main \in [Engines -> Places] /\ own \in [Engines -> Owns]
      /\ op \in [Engines -> Ops]
  BY DEF Kept, TypeInv
<1>2. /\ ~excused /\ heard' = heard /\ file' = file /\ sidecar' = sidecar
      /\ cache' = cache
      /\ live' = live /\ dirty' = dirty /\ Filed' = Filed
  BY DEF EnterStandby, Quit, Restart, ComeBack, Probe, Wake, Resume, StandAgain,
       ResumeEarly, history, disk, engine, Filed
<1>3. \A f \in Engines \ {Cli} :
          main'[f] = main[f] /\ own'[f] = own[f] /\ op'[f] = op[f]
  BY <1>1 DEF EnterStandby, Quit, Restart, ComeBack, Probe, Wake, Resume,
       StandAgain, ResumeEarly, Leave, Goto, OpGoto, threads
<1>4. port' \in {port, Cli}
  BY DEF EnterStandby, Quit, Restart, ComeBack, Probe, Wake, Resume, StandAgain,
       ResumeEarly
<1>5. \A f \in Engines \ {Cli} : HeardAt(f)'
  BY <1>2, <1>3, <1>4, HeardElsewhere DEF HeardInv
<1>6. StoredFor(Heir) => StoredFor(Heir)'
  <2>1. Heir' = Heir
    BY <1>3, Two DEF Heir, Coming
  <2> QED
    BY <1>2, <2>1 DEF StoredFor, Restored, WithLive, Fresh, Filed, Says,
         FileOrDefault
<1>7. CASE Resume
  <2>1. /\ main'[Cli] = "on" /\ op'[Cli].at = "adopt" /\ port = None
        /\ At(Cli, "resuming")
    BY <1>1, <1>7, OpMoved, Two DEF Resume, Goto, OpPlaces
  <2>2. StoredFor(Heir)'
    BY <1>2, <1>6, <2>1 DEF HeardInv, Between, At
  <2>3. HeardAt(Cli)'
    BY <2>1 DEF HeardAt, Runs, Adopting, At, OpAt
  <2> QED
    BY <1>5, <2>1, <2>2, <2>3 DEF HeardInv, OpAt
<1>8. CASE ~Resume
  <2>1. op' = op /\ port' = port
    BY <1>8 DEF EnterStandby, Quit, Restart, ComeBack, Probe, Wake, StandAgain,
         ResumeEarly, threads
  <2>2. \/ main' = main /\ own' = own
        \/ At(Cli, "standby") /\ main'[Cli] = "resuming"
        \/ At(Cli, "on") /\ main'[Cli] = "leaving"
        \/ main'[Cli] = "release" /\ own'[Cli].goal = "reload"
    BY <1>1, <1>8, Two DEF EnterStandby, Quit, Restart, ComeBack, Probe, Wake,
         StandAgain, ResumeEarly, Leave, Goto, Calm, threads, Owns
  <2>3. HeardAt(Cli)'
    <3>1. CASE main' = main /\ own' = own
      BY <1>2, <2>1, <3>1, Two DEF HeardInv, HeardAt, Runs, Unsaved, Adopting, At,
           OpAt, Fresh
    <3>2. CASE main'[Cli] \in {"resuming", "leaving", "release"}
      <4>1. Runs(Cli)' => Runs(Cli)
        BY <2>1, <2>2, <3>2 DEF Runs, Adopting, At, OpAt
      <4>2. Unsaved(Cli) => Unsaved(Cli)' \/ ~Runs(Cli)'
        BY <1>2, <2>2, <3>2 DEF Unsaved, Runs, At
      <4> QED
        BY <1>2, <2>1, <3>2, <4>1, <4>2, Two DEF HeardInv, HeardAt, At, OpAt
    <3> QED
      BY <2>2, <3>1, <3>2
  <2>4. Between' => Between
    BY <1>3, <2>1, <2>2, Two DEF Between, At, OpAt
  <2> QED
    BY <1>2, <1>5, <1>6, <2>1, <2>3, <2>4 DEF HeardInv, OpAt
<1> QED
  BY <1>7, <1>8

\* No step loses what the user heard, but a crash, a hand edit and a sidecar's end.
LEMMA NextHeard ==
    ASSUME Kept, Calm, OneEach, PlaceInv, PlaceInv', SidecarInv, CacheInv, DirtyInv,
           ~excused => HeardInv, ~excused', [Next]_vars
    PROVE  HeardInv'
<1>1. CASE UNCHANGED vars
  <2>1. /\ ~excused /\ UNCHANGED <<port, main, own, op, live, dirty>>
        /\ UNCHANGED <<heard, file, sidecar, cache>>
    BY <1>1 DEF vars, disk, threads, engine, history
  <2>2. \A e \in Engines : HeardAt(e)'
    BY <2>1, HeardElsewhere DEF HeardInv, Filed
  <2>3. (Between' => Between) /\ Heir' = Heir
    BY <2>1 DEF Between, Heir, Coming, At, OpAt
  <2>4. StoredFor(Heir) => StoredFor(Heir)'
    BY <2>1, <2>3 DEF StoredFor, Restored, WithLive, Fresh, Filed, Says,
         FileOrDefault
  <2> QED
    BY <2>1, <2>2, <2>3, <2>4 DEF HeardInv, OpAt, Filed
<1>2. ASSUME NEW e \in Engines,
             \/ Preload(e) \/ Reserve(e) \/ Reclaim(e) \/ GiveUp(e) \/ Load(e)
             \/ Build(e) \/ Listen(e) \/ RunDeaf(e)
      PROVE  HeardInv'
  <2>1. ~excused
    BY <1>2 DEF Preload, Reserve, Reclaim, GiveUp, Load, Build, Listen, RunDeaf,
         history
  <2> QED
    BY <1>2, <2>1, StartHeard
<1>3. ASSUME NEW p \in Processes, Crash(p)
      PROVE  FALSE
  BY <1>3 DEF Crash
<1>4. ~HandEdit /\ ~Expire
  BY DEF HandEdit, Expire
<1> QED
  BY <1>1, <1>2, <1>3, <1>4, AskedHeard, ControlHeard, LeaveHeard, CliHeard DEF
       Next

-----------------------------------------------------------------------------
(* The theorems.                                                           *)

\* At the start every engine is off and nothing is stored but the file.
LEMMA InitTurn == Init => TurnInv
<1> SUFFICES ASSUME Init
             PROVE  TurnInv
  OBVIOUS
<1>1. /\ \A e \in Engines :
           /\ At(e, "off") /\ OpAt(e, "idle") /\ dirty[e] = FALSE
           /\ own[e].goal = "none"
           /\ own[e].restored = FALSE
      /\ \A p \in Processes : cache[p] = None
      /\ port = None /\ sidecar = None /\ asked = FALSE /\ heard = 0 /\ Filed
  BY DEF Init, At, OpAt, NoOp, NoOwn, Filed
<1>2. \A e \in Engines : ~Runs(e) /\ ~Adopting(e)
  BY <1>1 DEF Runs, Adopting, At, OpAt
<1>3. OneEach /\ PlaceInv
  BY <1>1, <1>2, Two DEF OneEach, PlaceInv, Held, Starting, Deaf, At
<1>4. SidecarInv
  BY <1>1, <1>2, Two DEF SidecarInv, OpAt
<1>5. CacheInv
  BY <1>1, Two, ProcessKnown DEF CacheInv, CacheAt, OpAt
<1>6. DirtyInv
  BY <1>1, Two DEF DirtyInv, Deaf, At
<1>7. AheadInv
  BY <1>1, <1>2, Two DEF AheadInv, AheadAt, At, OpAt
<1>8. HeardInv
  <2>1. \A p \in Processes : StoredFor(p)
    BY <1>1 DEF StoredFor, Restored, Fresh
  <2>2. \A e \in Engines : HeardAt(e)
    BY <1>1, <1>2 DEF HeardAt, At, OpAt
  <2> QED
    BY <1>1, <2>1, <2>2, Two DEF HeardInv, Heir, OpAt
<1> QED
  BY <1>3, <1>4, <1>5, <1>6, <1>7, <1>8 DEF TurnInv

\* No step of instances that follow one another loses or sets back their state.
LEMMA NextTurn ==
    IInv /\ Kept' /\ (InTurn => TurnInv) /\ [Next]_vars => (InTurn' => TurnInv')
<1> SUFFICES ASSUME IInv, Kept', InTurn => TurnInv, [Next]_vars, InTurn'
             PROVE  TurnInv'
  OBVIOUS
<1> Kept
  BY DEF IInv, Kept
<1>1. InTurn /\ HandOrigin
  BY AllowKept DEF IInv, Kept, InTurn, Ordered, OriginInv
<1>2. Calm /\ OneEach /\ PlaceInv /\ SidecarInv /\ CacheInv /\ DirtyInv /\ AheadInv
      /\ (~excused => HeardInv)
  BY <1>1, TurnIsCalm DEF TurnInv
<1>3. OneEach' /\ PlaceInv'
  BY <1>2, OneEachKept, NextPlace DEF Calm
<1>4. SidecarInv' /\ CacheInv' /\ DirtyInv'
  BY <1>2, <1>3, NextSidecar, NextCache, NextDirty
<1>5. AheadInv'
  BY <1>1, <1>2, <1>3, <1>4, NextAhead
<1>6. ~excused' => HeardInv'
  BY <1>2, <1>3, NextHeard
<1> QED
  BY <1>3, <1>4, <1>5, <1>6 DEF TurnInv

\* The inductive invariant holds throughout.
THEOREM TurnInvariance == Spec => [](IInv /\ (InTurn => TurnInv))
<1>1. Init => (InTurn => TurnInv)
  BY InitTurn
<1>2. IInv /\ IInv' /\ (InTurn => TurnInv) /\ [Next]_vars => (InTurn => TurnInv)'
  BY NextTurn DEF IInv, Kept
<1> QED
  BY <1>1, <1>2, Invariance, PTL DEF Spec

\* Whoever serves the port after instances followed one another, through any
\* number of starts, stand-bys, ends, restarts and Saves, runs the render state
\* the user last heard, but for a crash, a hand edit or a sidecar past its time.
THEOREM UnsavedAlwaysHandedOver == Spec => []UnsavedHandedOver
<1>1. IInv /\ (InTurn => TurnInv) => UnsavedHandedOver
  BY DEF UnsavedHandedOver, UnsavedKept, TurnInv, HeardInv, HeardAt, Runs, Serving,
       Adopting, At, OpAt
<1> QED
  BY <1>1, TurnInvariance, PTL

\* Whoever serves the port after instances followed one another, and may save,
\* never runs anything older than the file, crashes, hand edits and sidecars past
\* their time included.
THEOREM NeverBehindTheFile == Spec => []NotBehindTheFile
<1>1. IInv /\ (InTurn => TurnInv) => NotBehindTheFile
  <2> SUFFICES ASSUME IInv, TurnInv, InTurn, NEW e \in Engines, Serving(e),
                      status[e] = "loaded"
               PROVE  live[e].r >= file.r /\ live[e].v >= file.v
    BY DEF NotBehindTheFile, AheadOfTheFile
  <2>1. Runs(e) /\ ~Refused(e) /\ ~At(e, "loaded")
    BY DEF Runs, Refused, Serving, Adopting, At, OpAt
  <2>2. ~live[e].d
    BY <2>1 DEF IInv, InTurn, Ordered, OriginInv, EngineOrigin
  <2> QED
    BY <2>1, <2>2 DEF TurnInv, AheadInv, AheadAt, Ahead
<1> QED
  BY <1>1, TurnInvariance, PTL

=====
