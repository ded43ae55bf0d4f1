---------------------------- MODULE LiveHandoff -----------------------------
(***************************************************************************)
(* What the engines of one machine keep of the user's settings: the file    *)
(* config.yaml, the sidecar config.live.yaml through which an instance that *)
(* leaves hands its unsaved state to the next, and the overlay each process  *)
(* keeps of the sidecar it consumed (config.rs, persist.rs, osc.rs).        *)
(*                                                                         *)
(* Two processes share them: the CLI, which stands by while a player's       *)
(* embedded engine holds the OSC port, and the player.  An engine has an     *)
(* owner thread (`main': its start, its standby, its end) and, while it      *)
(* holds the port, a listener thread that runs one control at a time (`op'). *)
(* An action is one access to a file or to what the other thread sees.       *)
(*                                                                         *)
(* A content is what a config file says or an engine runs: `r' stands for    *)
(* the render state and `v' for the view state, each the number of the edit  *)
(* that made it; `d' tells that the render state rests on the built-in       *)
(* defaults of a file that did not parse.                                   *)
(***************************************************************************)
EXTENDS Integers, FiniteSets

CONSTANTS
    Cli,        \* the CLI's engine
    Players,    \* the engines of the player, one or two
    None,       \* nobody, nothing
    Torn,       \* a copy that was not finished
    Budgets     \* what may happen in a run (Init chooses one)

Engines == {Cli} \cup Players
Processes == {"cli", "player"}
ProcessOf(e) == IF e = Cli THEN "cli" ELSE "player"

\* What a budget may allow: a control while the owner thread hands over, a
\* player's engine made before the last one is dropped, a hand-over by an
\* instance that stands by, a file repaired between the two readings of a start
\* or of an adoption, an instance that starts while another starts, comes back,
\* ends by itself or is restarted, or a CLI beside a player.
Hazards == {"late", "overlap", "sleeper", "bootFix", "together"}
BudgetType == [edits : Nat, views : Nat, saves : Nat, reloads : Nat,
               starts : Nat, crashes : Nat, breaks : Nat, expiries : Nat,
               yields : BOOLEAN, allow : SUBSET Hazards]

ASSUME EnginesAssumption ==
    Players # {} /\ Cli \notin Players /\ None \notin Engines
\* None is no overlay and no content either.
ASSUME NoneAssumption ==
    /\ None \notin [r : Nat, v : Nat, d : BOOLEAN, fallback : BOOLEAN, stale : BOOLEAN]
    /\ None \notin [r : Nat, v : Nat, d : BOOLEAN]
ASSUME BudgetsAssumption == Budgets \subseteq BudgetType

VARIABLES
    file,       \* config.yaml: a content, and whether it parses
    bak,        \* config.yaml.bak: what a Save replaced, None, or Torn
    sidecar,    \* config.live.yaml: None, or a content, its origin and age
    cache,      \* LIVE_OVERLAY of each process
    port,       \* the engine that holds the OSC port, listening or reserving
    main, own,  \* each engine's owner thread: its place and its locals
    op,         \* each engine's listener thread: its control under way
    live,       \* what each engine runs
    dirty,      \* RendererControl::config_dirty
    status,     \* RendererControl::config_status
    asked,      \* the CLI was asked to stand by
    resume,     \* the CLI was asked to resume
    target,     \* the player knows where the CLI listens for `resume'
    left,       \* the budget
    used,       \* history: how many edits and view changes were made
    heard,      \* history: the render state the user last heard
    excused     \* history: it may be lost: a crash, a hand edit, the TTL

disk == <<file, bak, sidecar>>
engine == <<live, dirty, status>>
threads == <<main, own, op>>
signals == <<asked, resume, target>>
history == <<used, heard, excused>>
vars == <<disk, cache, port, threads, engine, signals, left, history>>

Defaults == [r |-> 0, v |-> 0, d |-> TRUE]
Empty == [r |-> 0, v |-> 0, d |-> FALSE]
Says(c) == [r |-> c.r, v |-> c.v, d |-> c.d]
NoOp == [at |-> "idle", out |-> None]
NoOwn == [goal |-> "none", out |-> None, restored |-> FALSE]

Init ==
    /\ left \in Budgets
    /\ file = [r |-> 0, v |-> 0, d |-> FALSE, broken |-> FALSE]
    /\ bak = None /\ sidecar = None
    /\ cache = [p \in Processes |-> None]
    /\ port = None
    /\ main = [e \in Engines |-> "off"] /\ own = [e \in Engines |-> NoOwn]
    /\ op = [e \in Engines |-> NoOp]
    /\ live = [e \in Engines |-> Empty]
    /\ dirty = [e \in Engines |-> FALSE]
    /\ status = [e \in Engines |-> "loaded"]
    /\ asked = FALSE /\ resume = FALSE /\ target = FALSE
    /\ used = [edits |-> 0, views |-> 0] /\ heard = 0 /\ excused = FALSE

\* What an engine ran is gone with it.
Gone(dead) ==
    /\ live' = [e \in Engines |-> IF e \in dead THEN Empty ELSE live[e]]
    /\ dirty' = [e \in Engines |-> e \notin dead /\ dirty[e]]
    /\ status' = [e \in Engines |-> IF e \in dead THEN "loaded" ELSE status[e]]

Spend(what) == left[what] > 0 /\ left' = [left EXCEPT ![what] = @ - 1]
Allowed(hazard) == hazard \in left.allow
At(e, place) == main[e] = place
Goto(e, place) == main' = [main EXCEPT ![e] = place]
OpAt(e, place) == op[e].at = place
OpGoto(e, place) == op' = [op EXCEPT ![e].at = place]
OpEnds(e) == op' = [op EXCEPT ![e] = NoOp]

-----------------------------------------------------------------------------
(* Reading the settings. *)

FileStatus == IF file.broken THEN "parse_error" ELSE "loaded"
\* load_or_default.
FileOrDefault == IF file.broken THEN Defaults ELSE Says(file)

\* A sidecar young enough to be applied.
Fresh == sidecar # None /\ ~sidecar.stale
\* load_or_default_with_live, for process p: the sidecar, else what the process
\* consumed before, else the file.
Restored(p) == Fresh \/ cache[p] # None
WithLive(p) ==
    IF Fresh THEN Says(sidecar)
    ELSE IF cache[p] # None THEN Says(cache[p]) ELSE FileOrDefault

\* Mutant of Consume: the sidecar is left where it is.
Consume_Kept(p) ==
    /\ cache' = [cache EXCEPT ![p] = IF Fresh THEN sidecar ELSE @]
    /\ UNCHANGED sidecar

\* The sidecar is consumed: removed, applied or not, and kept as the overlay.
Consume(p) ==
    /\ cache' = [cache EXCEPT ![p] = IF Fresh THEN sidecar ELSE @]
    /\ sidecar' = None

\* Mutant of BootStatus: the status is always that of the file.
BootStatus_File(p) == FileStatus

\* boot_load_status: the file's, unless the overlay was the fallback of an
\* instance that could not parse it.
BootStatus(p) ==
    IF cache[p] # None /\ cache[p].fallback THEN "parse_error" ELSE FileStatus

-----------------------------------------------------------------------------
(* An engine starts. *)

Starting(e) == main[e] \in {"preloaded", "reserved", "loaded", "built"}
\* Neither starting, leaving nor about to come back.
Settled(e) ==
    \/ main[e] \in {"off", "on"} /\ op[e].at \notin {"adopt", "adopted"}
    \/ At(e, "standby") /\ port # None
\* Of engines of a player that follow one another, a name stands for all.
First == CHOOSE e \in Players : TRUE
\* Whether an engine starts now: by itself or, of a player, before the last one
\* of its process is dropped.
MayStart(e) ==
    /\ At(e, "off")
    /\ e \in {Cli, First} \/ Allowed("overlap")
    /\ \A f \in Engines \ {e} :
        /\ Settled(f) \/ Allowed("together")
        /\ f # Cli /\ ~At(f, "off") =>
             Allowed(IF e = Cli THEN "together" ELSE "overlap")

\* orender_create reads the settings once before it negotiates the port.
Preload(e) ==
    /\ e # Cli /\ MayStart(e) /\ Goto(e, "preloaded")
    /\ Spend("starts")
    /\ Consume(ProcessOf(e))
    /\ UNCHANGED <<file, bak, port, own, op, engine, signals, history>>

\* negotiate_rx_port: a free port is reserved ...
Reserve(e) ==
    /\ At(e, "preloaded") /\ port = None /\ Goto(e, "reserved")
    /\ port' = e
    /\ UNCHANGED <<disk, cache, own, op, engine, signals, left, history>>

\* ... one held by an engine of this process is taken from its listener, which
\* ends after the control it runs ...
Reclaim(e) ==
    /\ At(e, "preloaded") /\ Goto(e, "reserved")
    /\ port \in Players \ {e} /\ OpAt(port, "idle")
    /\ port' = e
    /\ UNCHANGED <<disk, cache, own, op, engine, signals, left, history>>

\* ... and the CLI is asked to stand by: it says where it waits for `resume',
\* an answer that may be lost.
AskYield(e, told) ==
    /\ main[e] \in {"preloaded", "built"} /\ e # Cli
    /\ port = Cli /\ At(Cli, "on") /\ OpAt(Cli, "idle")
    /\ left.yields /\ ~asked
    /\ asked' = TRUE /\ target' = told
    /\ UNCHANGED <<disk, cache, port, threads, engine, resume, left, history>>

\* A CLI that does not yield: the player goes on without the port.
GiveUp(e) ==
    /\ At(e, "preloaded") /\ Goto(e, "reserved")
    /\ port = Cli /\ At(Cli, "on") /\ ~left.yields
    /\ UNCHANGED <<disk, cache, port, own, op, engine, signals, left, history>>

\* The settings the engine is built from: Engine::from_paths, or the CLI's
\* resolve_effective_decode_args.
Load(e) ==
    /\ \/ At(e, "reserved") /\ UNCHANGED left
       \/ e = Cli /\ MayStart(e) /\ Spend("starts")
    /\ Goto(e, "loaded")
    /\ live' = [live EXCEPT ![e] = WithLive(ProcessOf(e))]
    /\ own' = [own EXCEPT ![e].restored = Restored(ProcessOf(e))]
    /\ Consume(ProcessOf(e))
    /\ UNCHANGED <<file, bak, port, op, dirty, status, signals, history>>

\* Once the engine is built (seconds later), its status is read, and what was
\* restored is marked unsaved: the player by what its load said, the CLI by the
\* overlay.
Build(e) ==
    /\ At(e, "loaded") /\ Goto(e, "built")
    /\ status' = [status EXCEPT ![e] = BootStatus(ProcessOf(e))]
    /\ dirty' = [dirty EXCEPT ![e] =
            IF e = Cli THEN cache["cli"] # None ELSE own[e].restored]
    /\ own' = [own EXCEPT ![e] = NoOwn]
    /\ UNCHANGED <<disk, cache, port, op, live, signals, left, history>>

\* start_listener, with the port free or reserved for it ...
Listen(e) ==
    /\ At(e, "built") /\ port \in {None, e} /\ Goto(e, "on")
    /\ port' = e
    /\ UNCHANGED <<disk, cache, own, op, engine, signals, left, history>>

\* ... or held by another: the engine runs without a listener.
RunDeaf(e) ==
    /\ At(e, "built") /\ port \notin {None, e} /\ Goto(e, "on")
    /\ e = Cli \/ port # Cli \/ ~left.yields
    /\ UNCHANGED <<disk, cache, port, own, op, engine, signals, left, history>>

-----------------------------------------------------------------------------
(* The controls an engine's listener runs. *)

\* The listener is free for a control; a late one comes while the engine's
\* owner hands over.
Listening(e) ==
    /\ port = e /\ OpAt(e, "idle")
    /\ \/ At(e, "on")
       \/ Allowed("late") /\ main[e] \in {"leaving", "collect", "write", "forget"}

\* A render setting changes: unsaved until a Save.
Edit(e) ==
    /\ Listening(e) /\ Spend("edits")
    /\ used' = [used EXCEPT !.edits = @ + 1]
    /\ live' = [live EXCEPT ![e].r = used'.edits]
    /\ dirty' = [dirty EXCEPT ![e] = TRUE]
    /\ heard' = used'.edits /\ excused' = FALSE
    /\ UNCHANGED <<disk, cache, port, threads, status, signals>>

\* save_live_config: refused on the state of a file that did not parse, and on
\* a file that does not.
SaveBegin(e) ==
    /\ Listening(e) /\ Spend("saves")
    /\ status[e] # "parse_error" /\ ~file.broken
    /\ op' = [op EXCEPT ![e] = [at |-> "backup", out |-> live[e]]]
    /\ UNCHANGED <<disk, cache, port, main, own, engine, signals, history>>

\* Mutant of BackUp: the new file is renamed over the old before the copy.
BackUp_AfterRename(e) ==
    /\ OpAt(e, "backup") /\ OpGoto(e, "copy")
    /\ bak' = Torn
    /\ file' = [r |-> op[e].out.r, v |-> op[e].out.v, d |-> op[e].out.d,
                broken |-> FALSE]
    /\ UNCHANGED <<sidecar, cache, port, main, own, engine, signals, left,
                   history>>

\* replace_file: the file is copied to the backup, which is torn meanwhile ...
BackUp(e) ==
    /\ OpAt(e, "backup") /\ OpGoto(e, "copy")
    /\ bak' = Torn
    /\ UNCHANGED <<file, sidecar, cache, port, main, own, engine, signals,
                   left, history>>
Copied(e) ==
    /\ OpAt(e, "copy") /\ OpGoto(e, "rename")
    /\ bak' = Says(file)
    /\ UNCHANGED <<file, sidecar, cache, port, main, own, engine, signals,
                   left, history>>

\* ... and the new one is renamed over it.
Rename(e) ==
    /\ OpAt(e, "rename") /\ OpGoto(e, "discard")
    /\ file' = [r |-> op[e].out.r, v |-> op[e].out.v, d |-> op[e].out.d,
                broken |-> FALSE]
    /\ UNCHANGED <<bak, sidecar, cache, port, main, own, engine, signals,
                   left, history>>

\* discard_live_sidecar, for a Save or a reload: the file, then the overlay.
Remove(e) ==
    /\ \/ OpAt(e, "discard") /\ OpGoto(e, "clear")
       \/ OpAt(e, "reload") /\ OpGoto(e, "reloadClear")
    /\ sidecar' = None
    /\ UNCHANGED <<file, bak, cache, port, main, own, engine, signals, left,
                   history>>
Clear(e) ==
    /\ \/ OpAt(e, "clear") /\ OpGoto(e, "clean")
       \/ OpAt(e, "reloadClear") /\ OpGoto(e, "reread")
    /\ cache' = [cache EXCEPT ![ProcessOf(e)] = None]
    /\ UNCHANGED <<disk, port, main, own, engine, signals, left, history>>
MarkClean(e) ==
    /\ OpAt(e, "clean") /\ OpEnds(e)
    /\ dirty' = [dirty EXCEPT ![e] = FALSE]
    /\ UNCHANGED <<disk, cache, port, main, own, live, status, signals, left,
                   history>>

\* A view setting changes, and is to be written at once: what the file holds
\* is read, unless it does not parse.
View(e) ==
    /\ Listening(e) /\ Spend("views")
    /\ used' = [used EXCEPT !.views = @ + 1]
    /\ live' = [live EXCEPT ![e].v = used'.views]
    /\ op' = [op EXCEPT ![e] =
            [at |-> "view",
             out |-> IF file.broken THEN None ELSE [file EXCEPT !.v = used'.views]]]
    /\ UNCHANGED <<disk, cache, port, main, own, dirty, status, signals, heard,
                   excused>>

\* Mutant of ViewWrite: the whole live state is written.
ViewWrite_Live(e) ==
    /\ OpAt(e, "view") /\ OpGoto(e, "amend")
    /\ file' = IF op[e].out = None THEN file
               ELSE [op[e].out EXCEPT !.r = live[e].r, !.d = live[e].d]
    /\ UNCHANGED <<bak, sidecar, cache, port, main, own, engine, signals,
                   left, history>>

\* The one field is written, without a backup.
ViewWrite(e) ==
    /\ OpAt(e, "view") /\ OpGoto(e, "amend")
    /\ file' = IF op[e].out = None THEN file ELSE op[e].out
    /\ UNCHANGED <<bak, sidecar, cache, port, main, own, engine, signals,
                   left, history>>

\* amend_live_overlay: the overlay of this process, then a sidecar that waits.
AmendCache(e) ==
    /\ OpAt(e, "amend") /\ OpGoto(e, "amendDisk")
    /\ cache' = [cache EXCEPT ![ProcessOf(e)] =
            IF @ = None THEN None ELSE [@ EXCEPT !.v = live[e].v]]
    /\ UNCHANGED <<disk, port, main, own, engine, signals, left, history>>
AmendRead(e) ==
    /\ OpAt(e, "amendDisk")
    /\ IF sidecar = None THEN OpEnds(e)
       ELSE op' = [op EXCEPT ![e] = [at |-> "amendWrite",
                                     out |-> [sidecar EXCEPT !.v = live[e].v]]]
    /\ UNCHANGED <<disk, cache, port, main, own, engine, signals, left, history>>
AmendWrite(e) ==
    /\ OpAt(e, "amendWrite") /\ OpEnds(e)
    /\ sidecar' = [op[e].out EXCEPT !.stale = FALSE]
    /\ UNCHANGED <<file, bak, cache, port, main, own, engine, signals, left,
                   history>>

\* apply_switched_profile: the engine runs what was read.  The configuration of
\* a file that does not parse (None) has no render section, and changes nothing.
Switch(e, read) ==
    live' = IF read = None THEN live ELSE [live EXCEPT ![e] = read]

\* reload_config_in_place, in a player: the overlays are thrown away ...
ReloadBegin(e) ==
    /\ Listening(e) /\ e # Cli /\ Spend("reloads")
    /\ OpGoto(e, "reload")
    /\ UNCHANGED <<disk, cache, port, main, own, engine, signals, history>>
\* ... and the file read, with its status: unless it does not parse, it is what
\* the engine runs now.
Reread(e) ==
    /\ OpAt(e, "reread") /\ OpEnds(e)
    /\ Switch(e, IF file.broken THEN None ELSE Says(file))
    /\ dirty' = [dirty EXCEPT ![e] = FALSE]
    /\ status' = [status EXCEPT ![e] = FileStatus]
    /\ heard' = live'[e].r /\ excused' = file.broken
    /\ UNCHANGED <<disk, cache, port, main, own, signals, left, used>>

\* What an adoption finds to run.
Adoptable(p) == IF ~Restored(p) /\ file.broken THEN None ELSE WithLive(p)

\* adopt_handoff_live_state, first thing a listener does after a standby.
AdoptLoad(e) ==
    /\ OpAt(e, "adopt")
    /\ op' = [op EXCEPT ![e] =
            [at |-> "adopted",
             out |-> [says |-> Adoptable(ProcessOf(e)),
                      restored |-> Restored(ProcessOf(e)),
                      fallback |-> IF Fresh THEN sidecar.fallback
                                   ELSE cache["cli"] # None
                                        /\ cache["cli"].fallback]]]
    /\ Consume(ProcessOf(e))
    /\ UNCHANGED <<file, bak, port, main, own, engine, signals, left, history>>

\* Mutant of AdoptApply: what was adopted counts as saved.
AdoptApply_Clean(e) ==
    /\ OpAt(e, "adopted") /\ OpEnds(e)
    /\ Switch(e, op[e].out.says)
    /\ status' = [status EXCEPT ![e] =
            IF op[e].out.fallback THEN "parse_error" ELSE FileStatus]
    /\ dirty' = [dirty EXCEPT ![e] = FALSE]
    /\ UNCHANGED <<disk, cache, port, main, own, signals, left, history>>

AdoptApply(e) ==
    /\ OpAt(e, "adopted") /\ OpEnds(e)
    /\ Switch(e, op[e].out.says)
    /\ status' = [status EXCEPT ![e] =
            IF op[e].out.fallback THEN "parse_error" ELSE FileStatus]
    /\ dirty' = [dirty EXCEPT ![e] = op[e].out.restored]
    /\ UNCHANGED <<disk, cache, port, main, own, signals, left, history>>

-----------------------------------------------------------------------------
(* An engine leaves: it stands by, is dropped, or is restarted from the      *)
(* file.                                                                     *)

Leave(e, goal) ==
    /\ OpAt(e, "idle") \/ Allowed("late")
    /\ main' = [main EXCEPT ![e] = "leaving"]
    /\ own' = [own EXCEPT ![e].goal = goal]

\* stand_by: the port is to be given up.
EnterStandby ==
    /\ At(Cli, "on") /\ asked /\ Leave(Cli, "standby")
    /\ asked' = FALSE
    /\ UNCHANGED <<disk, cache, port, op, engine, resume, target, left, history>>

\* The CLI goes while no player starts.
NobodyStarts == Allowed("together") \/ \A e \in Players : ~Starting(e)

\* The CLI ends, or restarts keeping its live state: at any time, in its
\* standby too.
Quit ==
    /\ \/ At(Cli, "on")
       \/ At(Cli, "standby") /\ Allowed("sleeper")
    /\ NobodyStarts
    /\ Leave(Cli, "quit")
    /\ UNCHANGED <<disk, cache, port, op, engine, signals, left, history>>

\* The CLI restarts from the file: nothing is handed over.
Restart ==
    /\ At(Cli, "on") /\ port = Cli /\ OpAt(Cli, "idle") /\ Spend("reloads")
    /\ NobodyStarts
    /\ Goto(Cli, "release") /\ own' = [own EXCEPT ![Cli].goal = "reload"]
    /\ UNCHANGED <<disk, cache, port, op, engine, signals, history>>

\* A player's engine is dropped: while no other took its port over, the CLI it
\* displaced is told to resume, in a datagram that may be lost.
Drop(e, arrives) ==
    /\ e # Cli /\ At(e, "on") /\ Leave(e, "quit")
    /\ IF port = e /\ target
       THEN target' = FALSE /\ resume' = (resume \/ (arrives /\ At(Cli, "standby")))
       ELSE arrives /\ UNCHANGED <<target, resume>>
    /\ UNCHANGED <<disk, cache, port, op, engine, asked, left, history>>

\* write_live_handoff_sidecar: only unsaved changes are handed over ...
HandOver(e) ==
    /\ At(e, "leaving") /\ Goto(e, IF dirty[e] THEN "collect" ELSE "release")
    /\ UNCHANGED <<disk, cache, port, own, op, engine, signals, left, history>>
\* ... as what the engine runs, with its origin ...
Collect(e) ==
    /\ At(e, "collect") /\ Goto(e, "write")
    /\ own' = [own EXCEPT ![e].out =
            [r |-> live[e].r, v |-> live[e].v, d |-> live[e].d,
             fallback |-> status[e] = "parse_error", stale |-> FALSE]]
    /\ UNCHANGED <<disk, cache, port, op, engine, signals, left, history>>
WriteSidecar(e) ==
    /\ At(e, "write") /\ Goto(e, "forget")
    /\ sidecar' = own[e].out
    /\ UNCHANGED <<file, bak, cache, port, own, op, engine, signals, left,
                   history>>
\* ... and the overlay of this process is superseded.
Forget(e) ==
    /\ At(e, "forget") /\ Goto(e, "release")
    /\ cache' = [cache EXCEPT ![ProcessOf(e)] = None]
    /\ UNCHANGED <<disk, port, own, op, engine, signals, left, history>>

\* Mutant of Release: the control under way is not waited for.
Release_Unjoined(e) ==
    /\ At(e, "release") /\ Goto(e, "off")
    /\ own' = [own EXCEPT ![e] = NoOwn]
    /\ port' = IF port = e THEN None ELSE port
    /\ Gone({e})
    /\ UNCHANGED <<disk, cache, op, signals, left, history>>

\* The listener is stopped and waited for, and the port is free.
Release(e) ==
    /\ At(e, "release") /\ OpAt(e, "idle")
    /\ Goto(e, IF own[e].goal = "standby" THEN "standby" ELSE "off")
    /\ own' = [own EXCEPT ![e] = NoOwn]
    /\ port' = IF port = e THEN None ELSE port
    /\ cache' = IF e = Cli /\ own[e].goal # "standby"
                THEN [cache EXCEPT !["cli"] = None] ELSE cache
    /\ IF e = Cli /\ own[e].goal = "quit"
       THEN asked' = FALSE /\ resume' = FALSE ELSE UNCHANGED <<asked, resume>>
    /\ IF own[e].goal = "reload"
       THEN heard' = file.r /\ excused' = file.broken
       ELSE UNCHANGED <<heard, excused>>
    /\ IF own[e].goal = "standby" THEN UNCHANGED engine ELSE Gone({e})
    /\ UNCHANGED <<disk, op, target, left, used>>

-----------------------------------------------------------------------------
(* The CLI comes back from its standby. *)

\* Mutant of Probe: the standby waits for `resume' alone.
Probe_Never ==
    /\ At(Cli, "standby") /\ port = None /\ ~resume /\ FALSE
    /\ resume' = TRUE
    /\ UNCHANGED <<disk, cache, port, threads, engine, asked, target, left,
                   history>>

\* The safety net: the port is tried now and then.
Probe ==
    /\ At(Cli, "standby") /\ port = None /\ ~resume
    /\ resume' = TRUE
    /\ UNCHANGED <<disk, cache, port, threads, engine, asked, target, left,
                   history>>

\* A client may ask a listening CLI to resume.
ResumeEarly ==
    /\ Allowed("sleeper") /\ port = Cli /\ At(Cli, "on") /\ ~resume
    /\ resume' = TRUE
    /\ UNCHANGED <<disk, cache, port, threads, engine, asked, target, left,
                   history>>

Wake ==
    /\ At(Cli, "standby") /\ resume /\ Goto(Cli, "resuming")
    /\ resume' = FALSE /\ target' = FALSE
    /\ UNCHANGED <<disk, cache, port, own, op, engine, asked, left, history>>

\* The port is bound again; the listener adopts what it finds.
Resume ==
    /\ At(Cli, "resuming") /\ port = None /\ Goto(Cli, "on")
    /\ port' = Cli
    /\ OpGoto(Cli, "adopt")
    /\ UNCHANGED <<disk, cache, own, engine, signals, left, history>>

\* The port is still held when the time to bind it is over.
StandAgain ==
    /\ Allowed("sleeper")
    /\ At(Cli, "resuming") /\ port # None /\ Leave(Cli, "standby")
    /\ UNCHANGED <<disk, cache, port, op, engine, signals, left, history>>

-----------------------------------------------------------------------------
(* What happens to the files and the processes. *)

\* A process dies: its files stay as they are.
Crash(p) ==
    /\ \E e \in Engines : ProcessOf(e) = p /\ ~At(e, "off")
    /\ Spend("crashes")
    /\ p = "cli" /\ ~left.yields => NobodyStarts
    /\ LET dead == {e \in Engines : ProcessOf(e) = p} IN
       /\ main' = [e \in Engines |-> IF e \in dead THEN "off" ELSE main[e]]
       /\ own' = [e \in Engines |-> IF e \in dead THEN NoOwn ELSE own[e]]
       /\ op' = [e \in Engines |-> IF e \in dead THEN NoOp ELSE op[e]]
       /\ port' = IF port \in dead THEN None ELSE port
       /\ Gone(dead)
    /\ cache' = [cache EXCEPT ![p] = None]
    /\ IF p = "cli" THEN asked' = FALSE /\ resume' = FALSE /\ UNCHANGED target
       ELSE target' = FALSE /\ UNCHANGED <<asked, resume>>
    /\ excused' = TRUE
    /\ UNCHANGED <<disk, used, heard>>

\* The user edits the file by hand, between two controls or while a listener
\* adopts: it does not parse any more, or again.
HandEdit ==
    /\ \A e \in Engines : op[e].at \in {"idle", "adopt", "adopted"}
    /\ \/ ~file.broken /\ Spend("breaks")
       \/ /\ file.broken /\ UNCHANGED left
          /\ \/ Allowed("bootFix")
             \/ \A e \in Engines : ~At(e, "loaded") /\ ~OpAt(e, "adopted")
    /\ file' = [file EXCEPT !.broken = ~@]
    /\ excused' = TRUE
    /\ UNCHANGED <<bak, sidecar, cache, port, threads, engine, signals, used,
                   heard>>

\* A sidecar outlives LIVE_SIDECAR_TTL.
Expire ==
    /\ Fresh /\ Spend("expiries")
    /\ sidecar' = [sidecar EXCEPT !.stale = TRUE]
    /\ excused' = TRUE
    /\ UNCHANGED <<file, bak, cache, port, threads, engine, signals, used, heard>>

-----------------------------------------------------------------------------

\* A control that began goes on by itself.
Control(e) ==
    \/ BackUp(e) \/ Copied(e) \/ Rename(e) \/ Remove(e) \/ Clear(e)
    \/ MarkClean(e) \/ ViewWrite(e) \/ AmendCache(e) \/ AmendRead(e)
    \/ AmendWrite(e) \/ Reread(e) \/ AdoptLoad(e) \/ AdoptApply(e)
Leaving(e) ==
    HandOver(e) \/ Collect(e) \/ WriteSidecar(e) \/ Forget(e) \/ Release(e)
ComeBack == Probe \/ Wake \/ Resume \/ StandAgain

Next ==
    \/ \E e \in Engines :
        \/ Preload(e) \/ Reserve(e) \/ Reclaim(e) \/ GiveUp(e) \/ Load(e)
        \/ Build(e) \/ Listen(e) \/ RunDeaf(e)
        \/ Edit(e) \/ SaveBegin(e) \/ View(e) \/ ReloadBegin(e)
        \/ Control(e) \/ Leaving(e)
        \/ \E known \in BOOLEAN : AskYield(e, known) \/ Drop(e, known)
    \/ EnterStandby \/ Quit \/ Restart
    \/ ComeBack \/ ResumeEarly
    \/ \E p \in Processes : Crash(p)
    \/ HandEdit \/ Expire

Spec == Init /\ [][Next]_vars

\* Every thread goes on with what it began; the standby looks at its socket and
\* at the port again and again.  Nothing is assumed of the user, of when
\* instances start or end, or of a crash.
FairSpec ==
    /\ Spec
    /\ \A e \in Engines : WF_vars(Control(e)) /\ WF_vars(Leaving(e))
    /\ WF_vars(ComeBack)

-----------------------------------------------------------------------------
(* Properties. *)

Contents == [r : 0..used.edits, v : 0..used.views, d : BOOLEAN]
Overlays == [r : 0..used.edits, v : 0..used.views, d : BOOLEAN,
             fallback : BOOLEAN, stale : BOOLEAN]

\* Types of the files, the overlays and the engines; nothing says what no edit
\* made, and who listens holds the port.
TypeOK ==
    /\ Says(file) \in Contents /\ file.broken \in BOOLEAN
    /\ bak \in Contents \cup {None, Torn}
    /\ sidecar \in Overlays \cup {None}
    /\ cache \in [Processes -> Overlays \cup {None}]
    /\ port \in Engines \cup {None}
    /\ \A e \in Engines :
        /\ main[e] \in {"off", "preloaded", "reserved", "loaded", "built", "on",
                        "leaving", "collect", "write", "forget", "release",
                        "standby", "resuming"}
        /\ own[e].goal \in {"none", "standby", "quit", "reload"}
        /\ op[e].at # "idle" => port = e
    /\ live \in [Engines -> Contents]
    /\ dirty \in [Engines -> BOOLEAN]
    /\ status \in [Engines -> {"loaded", "parse_error"}]
    /\ {asked, resume, target} \subseteq BOOLEAN

\* An engine that listens and runs no control.
Serving(e) == port = e /\ At(e, "on") /\ OpAt(e, "idle")

\* docs/persistence-policy.md:41-43: unsaved changes cross every hand-over.
\* Whoever takes the port over runs the render state the user last heard, but
\* for a crash, a hand edit of the file or a sidecar past its time.
UnsavedKept ==
    ~excused => \A e \in Engines : Serving(e) => live[e].r = heard

\* persist.rs:338-348: a stale sidecar must not override the file.  Whoever
\* listens and may save never runs a render state older than the last Save wrote,
\* nor a view state older than the last view change wrote, whichever instance
\* wrote it.  An engine that met a file that did not parse may run what is older
\* (the defaults, or what it ran before), and its Saves are refused.
AheadOfTheFile ==
    \A e \in Engines :
        Serving(e) /\ status[e] = "loaded" =>
            live[e].r >= file.r /\ live[e].v >= file.v

\* docs/persistence-policy.md:120-128: what an engine runs because the file did
\* not parse is never saved over the file, through however many instances it
\* was handed on and whatever the file holds by then.
DefaultsUnsaved ==
    ~file.d /\ (bak \notin {None, Torn} => ~bak.d)

\* Instances follow one another: each starts, ends, stands by and comes back
\* while no other does, no control comes while its engine hands over, and no file
\* is repaired between two readings that belong together.
InTurn == left.allow = {}

\* UnsavedKept, of instances that follow one another.
UnsavedHandedOver == InTurn => UnsavedKept

\* AheadOfTheFile, of instances that follow one another.
NotBehindTheFile == InTurn => AheadOfTheFile

\* DefaultsUnsaved, in every order of instances and controls, but for a file
\* repaired between the two readings of a start or of an adoption, and for a
\* player with two engines.
DefaultsNeverSaved == left.allow \cap {"bootFix", "overlap"} = {} => DefaultsUnsaved

\* config.rs:1354: when a Save replaces the file, its backup is whole and is
\* the file replaced, view changes included; no other write moves it.
BackupIsPrevious ==
    [][/\ file'.r # file.r => bak' = Says(file)
       /\ bak' # bak => bak' = Torn \/ bak' = Says(file')]_vars

\* docs/persistence-policy.md:108: nothing but a Save writes the render state.
\* The file only moves forward, and to what its writer runs.
OnlySavesWriteRender ==
    [][file'.r # file.r =>
        \E e \in Engines : OpAt(e, "rename") /\ file'.r = live[e].r]_vars

\* osc.rs:1083: a CLI that stands by comes back once the player is gone, though
\* the player crashed or its datagram was lost.
ComesBack ==
    <>[](\A e \in Players : At(e, "off"))
        => []<>(main[Cli] \notin {"standby", "resuming"})

=============================================================================
