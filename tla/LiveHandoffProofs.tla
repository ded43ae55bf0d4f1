------------------------- MODULE LiveHandoffProofs --------------------------
(***************************************************************************)
(* Proofs about LiveHandoff, for any engines of the player and any budget:  *)
(* the types, what a backup and a Save write, and that what an engine runs  *)
(* for want of a file that parses is never saved.                           *)
(***************************************************************************)
EXTENDS LiveHandoff, TLAPS

-----------------------------------------------------------------------------
(* The inductive invariant. *)

Files == [r : 0..used.edits, v : 0..used.views, d : BOOLEAN, broken : BOOLEAN]
Adopted == [says : Contents \cup {None}, restored : BOOLEAN, fallback : BOOLEAN]

Places == {"off", "preloaded", "reserved", "loaded", "built", "on", "leaving",
           "collect", "write", "forget", "release", "standby", "resuming"}
Owns == [goal : {"none", "standby", "quit", "reload"},
         out : Overlays \cup {None}, restored : BOOLEAN]
OpPlaces == {"idle", "backup", "copy", "rename", "discard", "clear", "clean",
             "view", "amend", "amendDisk", "amendWrite", "reload",
             "reloadClear", "reread", "adopt", "adopted"}
Ops == [at : OpPlaces, out : Contents \cup Files \cup Overlays \cup Adopted
                             \cup {None}]
\* The controls that write a content, and where a listener may run one.
Saving == {"backup", "copy", "rename"}
Held == {"on", "leaving", "collect", "write", "forget", "release"}

\* The types; whoever runs a control holds the port and has not left.
TypeInv ==
    /\ left \in BudgetType
    /\ used \in [edits : Nat, views : Nat]
    /\ file \in Files
    /\ bak \in Contents \cup {None, Torn}
    /\ sidecar \in Overlays \cup {None}
    /\ cache \in [Processes -> Overlays \cup {None}]
    /\ port \in Engines \cup {None}
    /\ main \in [Engines -> Places]
    /\ own \in [Engines -> Owns]
    /\ op \in [Engines -> Ops]
    /\ live \in [Engines -> Contents]
    /\ dirty \in [Engines -> BOOLEAN]
    /\ status \in [Engines -> {"loaded", "parse_error"}]
    /\ asked \in BOOLEAN /\ resume \in BOOLEAN /\ target \in BOOLEAN
    /\ \A e \in Engines : At(e, "write") => own[e].out \in Overlays

\* What the control under way has in hand.
HandInv ==
    \A e \in Engines :
        /\ op[e].at # "idle" => port = e /\ main[e] \in Held
        /\ op[e].at \in Saving => op[e].out \in Contents
        /\ op[e].at = "view" => op[e].out \in Files \cup {None}
        /\ op[e].at = "amendWrite" => op[e].out \in Overlays
        /\ op[e].at \in {"adopt", "adopted"} => e = Cli
        /\ op[e].at = "adopted" => op[e].out \in Adopted

\* One control runs at a time, so a Save writes what its engine runs over a
\* file that parses, and a view change what the file still holds.
WriterInv ==
    \A e \in Engines :
        /\ op[e].at \in Saving => op[e].out = live[e] /\ ~file.broken
        /\ op[e].at = "rename" => bak = Says(file)
        /\ op[e].at = "view" /\ op[e].out # None =>
             /\ op[e].out.r = file.r /\ op[e].out.d = file.d
             /\ op[e].out.broken = file.broken

\* An overlay that rests on the defaults of a broken file says so.
Honest(o) == o.d => o.fallback

\* Wherever those defaults are, something tells it: what an overlay says of
\* its origin, the status of the engine that runs them, or what that status
\* will be once it is built.  None are in the file or its backup.
DiskOrigin ==
    /\ ~file.d
    /\ bak \notin {None, Torn} => ~bak.d
    /\ sidecar # None => Honest(sidecar)
    /\ \A p \in Processes : cache[p] # None => Honest(cache[p])

OneEach == \A e \in Engines \ {Cli, First} : At(e, "off")

EngineOrigin ==
    \A e \in Engines :
        live[e].d => IF At(e, "loaded")
                     THEN BootStatus(ProcessOf(e)) = "parse_error"
                     ELSE status[e] = "parse_error"

\* What is adopted: nothing of a file that still does not parse, or what an
\* overlay tells of.
AdoptionTold(o) == IF o.says = None THEN file.broken ELSE o.says.d => o.fallback

HandOrigin ==
    \A e \in Engines :
        /\ At(e, "write") => Honest(own[e].out)
        /\ op[e].at \in Saving => ~live[e].d
        /\ op[e].at = "amendWrite" => Honest(op[e].out)
        /\ op[e].at = "adopted" => AdoptionTold(op[e].out)

OriginInv == DiskOrigin /\ OneEach /\ EngineOrigin /\ HandOrigin

\* The disorders DefaultsNeverSaved leaves out.
Ordered == left.allow \cap {"bootFix", "overlap"} = {}

IInv == TypeInv /\ HandInv /\ WriterInv /\ (Ordered => OriginInv)

-----------------------------------------------------------------------------
(* Contents and overlays. *)

Typed == used \in [edits : Nat, views : Nat]

\* What stays a content, a file or an overlay.
LEMMA Contained ==
    ASSUME Typed
    PROVE  /\ Empty \in Contents /\ Defaults \in Contents
           /\ \A f \in Files : /\ Says(f) \in Contents
                              /\ [f EXCEPT !.broken = ~@] \in Files
           /\ \A o \in Overlays : /\ Says(o) \in Contents
                                 /\ [o EXCEPT !.stale = TRUE] \in Overlays
                                 /\ [o EXCEPT !.stale = FALSE] \in Overlays
<1>1. Empty \in Contents /\ Defaults \in Contents
  BY DEF Empty, Defaults, Contents, Typed
<1>2. ASSUME NEW f \in Files
      PROVE  Says(f) \in Contents /\ [f EXCEPT !.broken = ~@] \in Files
  BY <1>2 DEF Files, Says, Contents
<1>3. ASSUME NEW o \in Overlays
      PROVE  /\ Says(o) \in Contents
             /\ [o EXCEPT !.stale = TRUE] \in Overlays
             /\ [o EXCEPT !.stale = FALSE] \in Overlays
  BY <1>3 DEF Overlays, Says, Contents
<1> QED
  BY <1>1, <1>2, <1>3

\* A content with an origin is an overlay, and one written is a file.
LEMMA Written ==
    ASSUME NEW c \in Contents
    PROVE  /\ [r |-> c.r, v |-> c.v, d |-> c.d, broken |-> FALSE] \in Files
           /\ \A b \in BOOLEAN :
                [r |-> c.r, v |-> c.v, d |-> c.d, fallback |-> b,
                 stale |-> FALSE] \in Overlays
           /\ \A o \in Overlays : [o EXCEPT !.v = c.v] \in Overlays
BY DEF Contents, Files, Overlays

\* New edits and view changes make more contents, and what is older remains.
LEMMA Grown ==
    ASSUME Typed, Typed', used'.edits >= used.edits, used'.views >= used.views
    PROVE  /\ Contents \subseteq Contents' /\ Files \subseteq Files'
           /\ Overlays \subseteq Overlays' /\ Adopted \subseteq Adopted'
           /\ Owns \subseteq Owns' /\ Ops \subseteq Ops'
<1>1. 0..used.edits \subseteq 0..used'.edits /\ 0..used.views \subseteq 0..used'.views
  BY DEF Typed
<1>2. /\ Contents \subseteq Contents' /\ Files \subseteq Files'
      /\ Overlays \subseteq Overlays'
  BY <1>1 DEF Contents, Files, Overlays
<1>3. Adopted \subseteq Adopted'
  BY <1>2 DEF Adopted
<1>4. Owns \subseteq Owns'
  BY <1>2 DEF Owns
<1>5. Ops \subseteq Ops'
  BY <1>2, <1>3 DEF Ops
<1> QED
  BY <1>2, <1>3, <1>4, <1>5

\* While no edit is made, the contents are the same.
LEMMA Unchanging ==
    ASSUME used' = used
    PROVE  /\ Contents' = Contents /\ Files' = Files /\ Overlays' = Overlays
           /\ Adopted' = Adopted /\ Owns' = Owns /\ Ops' = Ops
<1>1. Contents' = Contents /\ Files' = Files /\ Overlays' = Overlays
  BY DEF Contents, Files, Overlays
<1>2. Adopted' = Adopted
  BY <1>1 DEF Adopted
<1> QED
  BY <1>1, <1>2 DEF Owns, Ops

\* What is read of the settings is a content, its status one of two.
LEMMA ReadTyped ==
    ASSUME TypeInv, NEW p \in Processes
    PROVE  /\ WithLive(p) \in Contents /\ FileOrDefault \in Contents
           /\ Restored(p) \in BOOLEAN
           /\ FileStatus \in {"loaded", "parse_error"}
           /\ BootStatus(p) \in {"loaded", "parse_error"}
<1>1. /\ file \in Files /\ sidecar \in Overlays \cup {None}
      /\ cache[p] \in Overlays \cup {None}
  BY DEF TypeInv
<1>2. Says(file) \in Contents /\ Defaults \in Contents
  BY <1>1, Contained DEF TypeInv, Typed
<1>3. \A o \in Overlays : Says(o) \in Contents
  BY Contained DEF TypeInv, Typed
<1>4. FileOrDefault \in Contents
  BY <1>2 DEF FileOrDefault
<1>5. WithLive(p) \in Contents
  BY <1>1, <1>3, <1>4 DEF WithLive, Fresh
<1>6. FileStatus \in {"loaded", "parse_error"}
  BY DEF FileStatus
<1> QED
  BY <1>4, <1>5, <1>6 DEF Restored, Fresh, BootStatus

\* What is consumed leaves overlays and nothing else.
LEMMA ConsumeTyped ==
    ASSUME TypeInv, NEW p \in Processes, Consume(p)
    PROVE  /\ sidecar' \in Overlays \cup {None}
           /\ cache' \in [Processes -> Overlays \cup {None}]
BY DEF TypeInv, Consume, Fresh

\* A budget is spent on one thing and allows what it did.
LEMMA Spent ==
    ASSUME left \in BudgetType,
           NEW what \in {"edits", "views", "saves", "reloads", "starts",
                         "crashes", "breaks", "expiries"},
           Spend(what)
    PROVE  left' \in BudgetType /\ left'.allow = left.allow
BY DEF BudgetType, Spend

\* The process of an engine is one of the two.
LEMMA ProcessKnown == \A e \in Engines : ProcessOf(e) \in Processes
BY DEF ProcessOf, Processes

\* The CLI and the first of the player's engines are engines.
LEMMA Names == Cli \in Engines /\ Players \subseteq Engines /\ First \in Players
BY EnginesAssumption DEF Engines, First

-----------------------------------------------------------------------------
(* The types are kept. *)

\* A place is left, a mark set: the locals of an owner thread stay typed.
LEMMA OwnTyped ==
    ASSUME own \in [Engines -> Owns], NEW e \in Engines
    PROVE  /\ [own EXCEPT ![e] = NoOwn] \in [Engines -> Owns]
           /\ \A b \in BOOLEAN : [own EXCEPT ![e].restored = b] \in [Engines -> Owns]
           /\ \A g \in {"none", "standby", "quit", "reload"} :
                [own EXCEPT ![e].goal = g] \in [Engines -> Owns]
           /\ \A o \in Overlays : [own EXCEPT ![e].out = o] \in [Engines -> Owns]
BY DEF Owns, NoOwn

\* So do those of a listener.
LEMMA OpTyped ==
    ASSUME op \in [Engines -> Ops], NEW e \in Engines
    PROVE  /\ OpEnds(e) => op' \in [Engines -> Ops]
           /\ \A place \in OpPlaces : OpGoto(e, place) => op' \in [Engines -> Ops]
           /\ \A place \in OpPlaces :
                \A x \in Contents \cup Files \cup Overlays \cup Adopted \cup {None} :
                    op' = [op EXCEPT ![e] = [at |-> place, out |-> x]]
                        => op' \in [Engines -> Ops]
<1>1. OpEnds(e) => op' \in [Engines -> Ops]
  <2>1. NoOp \in Ops
    BY DEF NoOp, Ops, OpPlaces
  <2> QED
    BY <2>1 DEF OpEnds
<1>2. ASSUME NEW place \in OpPlaces, OpGoto(e, place)
      PROVE  op' \in [Engines -> Ops]
  <2>1. [op[e] EXCEPT !.at = place] \in Ops
    BY DEF Ops
  <2> QED
    BY <1>2, <2>1 DEF OpGoto
<1>3. ASSUME NEW place \in OpPlaces,
             NEW x \in Contents \cup Files \cup Overlays \cup Adopted \cup {None},
             op' = [op EXCEPT ![e] = [at |-> place, out |-> x]]
      PROVE  op' \in [Engines -> Ops]
  <2>1. [at |-> place, out |-> x] \in Ops
    BY DEF Ops
  <2> QED
    BY <1>3, <2>1
<1> QED
  BY <1>1, <1>2, <1>3

\* What is read to be amended.
LEMMA AmendedTyped ==
    ASSUME TypeInv, NEW e \in Engines, sidecar # None
    PROVE  [sidecar EXCEPT !.v = live[e].v] \in Overlays
BY Written DEF TypeInv

\* What was read to be adopted.
LEMMA AdoptedTyped ==
    ASSUME TypeInv, NEW e \in Engines, NEW b \in BOOLEAN
    PROVE  [says |-> Adoptable(ProcessOf(e)), restored |-> Restored(ProcessOf(e)),
            fallback |-> b] \in Adopted
BY ReadTyped, ProcessKnown DEF Adopted, Adoptable

\* What is adopted, once read, is in hand.
LEMMA AdoptedInHand ==
    ASSUME TypeInv, NEW e \in Engines, AdoptLoad(e)
    PROVE  /\ op' = [op EXCEPT ![e] = [at |-> "adopted", out |-> op'[e].out]]
           /\ op'[e].at = "adopted" /\ op'[e].out \in Adopted
           /\ \A f \in Engines \ {e} : op'[f] = op[f]
<1> DEFINE fallback == IF Fresh THEN sidecar.fallback
                       ELSE cache["cli"] # None /\ cache["cli"].fallback
           out == [says |-> Adoptable(ProcessOf(e)),
                   restored |-> Restored(ProcessOf(e)), fallback |-> fallback]
<1>1. fallback \in BOOLEAN
  BY DEF TypeInv, Fresh, Overlays, Processes
<1>2. op' = [op EXCEPT ![e] = [at |-> "adopted", out |-> out]]
  BY DEF AdoptLoad
<1> HIDE DEF fallback
<1>3. out \in Adopted
  BY <1>1, AdoptedTyped
<1> HIDE DEF out
<1> QED
  BY <1>2, <1>3 DEF TypeInv

\* A start.
LEMMA StartTyped ==
    ASSUME TypeInv,
           NEW e \in Engines,
           \/ Preload(e) \/ Reserve(e) \/ Reclaim(e) \/ GiveUp(e) \/ Load(e)
           \/ Build(e) \/ Listen(e) \/ RunDeaf(e)
    PROVE  TypeInv'
<1>1. CASE Preload(e)
  BY <1>1, Unchanging, ProcessKnown, ConsumeTyped, Spent DEF TypeInv, Preload,
       Goto, At, disk, engine, threads, signals, history, Places
<1>2. CASE Reserve(e)
  BY <1>2, Unchanging DEF TypeInv, Reserve, Goto, At, disk, engine, threads,
       signals, history, Places
<1>3. CASE Reclaim(e)
  BY <1>3, Unchanging DEF TypeInv, Reclaim, Goto, At, disk, engine, threads,
       signals, history, Places
<1>4. CASE GiveUp(e)
  BY <1>4, Unchanging DEF TypeInv, GiveUp, Goto, At, disk, engine, threads,
       signals, history, Places
<1>5. CASE Load(e)
  <2>1. own' \in [Engines -> Owns] /\ \A f \in Engines \ {e} : own'[f] = own[f]
    BY <1>5, Unchanging, OwnTyped, ReadTyped, ProcessKnown DEF TypeInv, Load
  <2> QED
    BY <1>5, <2>1, Unchanging, ProcessKnown, ReadTyped, ConsumeTyped, Spent
       DEF TypeInv, Load, Goto, At, disk, engine, threads, signals, history,
         Places
<1>6. CASE Build(e)
  <2>1. own' \in [Engines -> Owns] /\ \A f \in Engines \ {e} : own'[f] = own[f]
    BY <1>6, Unchanging, OwnTyped DEF TypeInv, Build
  <2> QED
    BY <1>6, <2>1, Unchanging, ProcessKnown, ReadTyped DEF TypeInv, Build,
         Goto, At, disk, engine, threads, signals, history, Places, Owns
<1>7. CASE Listen(e)
  BY <1>7, Unchanging DEF TypeInv, Listen, Goto, At, disk, engine, threads,
       signals, history, Places
<1>8. CASE RunDeaf(e)
  BY <1>8, Unchanging DEF TypeInv, RunDeaf, Goto, At, disk, engine, threads,
       signals, history, Places
<1> QED
  BY <1>1, <1>2, <1>3, <1>4, <1>5, <1>6, <1>7, <1>8

\* A control that goes on.
LEMMA ControlTyped ==
    ASSUME TypeInv, HandInv,
           NEW e \in Engines,
           Control(e)
    PROVE  TypeInv'
<1>1. CASE BackUp(e)
  <2>1. op' \in [Engines -> Ops]
    BY <1>1, OpTyped DEF TypeInv, BackUp, OpPlaces
  <2> QED
    BY <1>1, <2>1, Unchanging DEF TypeInv, BackUp, Goto, At, disk, engine,
         threads, signals, history, HandInv, OpAt
<1>2. CASE Copied(e)
  <2>1. op' \in [Engines -> Ops]
    BY <1>2, OpTyped DEF TypeInv, Copied, OpPlaces
  <2>2. bak' \in Contents
    BY <1>2, Contained DEF TypeInv, Copied, Typed
  <2> QED
    BY <1>2, <2>1, <2>2, Unchanging DEF TypeInv, Copied, Goto, At, disk,
         engine, threads, signals, history, OpAt
<1>3. CASE Rename(e)
  <2>1. op' \in [Engines -> Ops]
    BY <1>3, OpTyped DEF TypeInv, Rename, OpPlaces
  <2>2. file' \in Files
    BY <1>3, Written DEF TypeInv, Rename, HandInv, OpAt, Saving
  <2> QED
    BY <1>3, <2>1, <2>2, Unchanging DEF TypeInv, Rename, Goto, At, disk,
         engine, threads, signals, history, OpAt
<1>4. CASE Remove(e)
  <2>1. op' \in [Engines -> Ops]
    BY <1>4, OpTyped DEF TypeInv, Remove, OpPlaces
  <2> QED
    BY <1>4, <2>1, Unchanging DEF TypeInv, Remove, Goto, At, disk, engine,
         threads, signals, history, HandInv, OpAt
<1>5. CASE Clear(e)
  <2>1. op' \in [Engines -> Ops]
    BY <1>5, OpTyped DEF TypeInv, Clear, OpPlaces
  <2> QED
    BY <1>5, <2>1, Unchanging, ProcessKnown DEF TypeInv, Clear, Goto, At,
         disk, engine, threads, signals, history, HandInv, OpAt
<1>6. CASE MarkClean(e)
  <2>1. op' \in [Engines -> Ops]
    BY <1>6, OpTyped DEF TypeInv, MarkClean, OpPlaces
  <2> QED
    BY <1>6, <2>1, Unchanging DEF TypeInv, MarkClean, Goto, At, disk, engine,
         threads, signals, history, HandInv, OpAt
<1>7. CASE ViewWrite(e)
  <2>1. op' \in [Engines -> Ops]
    BY <1>7, OpTyped DEF TypeInv, ViewWrite, OpPlaces
  <2>2. file' \in Files
    BY <1>7 DEF TypeInv, ViewWrite, HandInv, OpAt
  <2> QED
    BY <1>7, <2>1, <2>2, Unchanging DEF TypeInv, ViewWrite, Goto, At, disk,
         engine, threads, signals, history, OpAt
<1>8. CASE AmendCache(e)
  <2>1. op' \in [Engines -> Ops]
    BY <1>8, OpTyped DEF TypeInv, AmendCache, OpPlaces
  <2>2. cache' \in [Processes -> Overlays \cup {None}]
    BY <1>8, Written, ProcessKnown DEF TypeInv, AmendCache, OpAt
  <2> QED
    BY <1>8, <2>1, <2>2, Unchanging DEF TypeInv, AmendCache, Goto, At, disk,
         engine, threads, signals, history, OpAt
<1>9. CASE AmendRead(e)
  <2>1. op' \in [Engines -> Ops]
    BY <1>9, OpTyped, AmendedTyped DEF TypeInv, AmendRead, OpPlaces
  <2> QED
    BY <1>9, <2>1, Unchanging DEF TypeInv, AmendRead, Goto, At, disk, engine,
         threads, signals, history, HandInv, OpAt
<1>10. CASE AmendWrite(e)
  <2>1. op' \in [Engines -> Ops]
    BY <1>10, OpTyped DEF TypeInv, AmendWrite, OpPlaces
  <2>2. sidecar' \in Overlays
    BY <1>10, Contained DEF TypeInv, AmendWrite, HandInv, OpAt, Typed
  <2> QED
    BY <1>10, <2>1, <2>2, Unchanging DEF TypeInv, AmendWrite, Goto, At, disk,
         engine, threads, signals, history, OpAt
<1>11. CASE Reread(e)
  <2>1. op' \in [Engines -> Ops]
    BY <1>11, OpTyped DEF TypeInv, Reread, OpPlaces
  <2>2. live' \in [Engines -> Contents]
    BY <1>11, Contained, NoneAssumption DEF TypeInv, Reread, Switch, Typed
  <2>3. /\ status' \in [Engines -> {"loaded", "parse_error"}]
        /\ dirty' \in [Engines -> BOOLEAN]
    BY <1>11 DEF TypeInv, Reread, FileStatus
  <2> QED
    BY <1>11, <2>1, <2>2, <2>3, Unchanging DEF TypeInv, Reread, disk, engine,
         signals, At
<1>12. CASE AdoptLoad(e)
  <2>1. op' \in [Engines -> Ops]
    BY <1>12, AdoptedInHand, OpTyped DEF TypeInv, OpPlaces
  <2> QED
    BY <1>12, <2>1, Unchanging, ProcessKnown, ConsumeTyped DEF TypeInv,
         AdoptLoad, disk, engine, signals, history, At
<1>13. CASE AdoptApply(e)
  <2>1. op' \in [Engines -> Ops]
    BY <1>13, OpTyped DEF TypeInv, AdoptApply, OpPlaces
  <2>2. live' \in [Engines -> Contents]
    BY <1>13 DEF TypeInv, AdoptApply, Switch, HandInv, OpAt, Adopted
  <2>3. /\ status' \in [Engines -> {"loaded", "parse_error"}]
        /\ dirty' \in [Engines -> BOOLEAN]
    BY <1>13 DEF TypeInv, AdoptApply, FileStatus, HandInv, OpAt, Adopted
  <2> QED
    BY <1>13, <2>1, <2>2, <2>3, Unchanging DEF TypeInv, AdoptApply, disk,
         engine, signals, history, At
<1> QED
  BY <1>1, <1>2, <1>3, <1>4, <1>5, <1>6, <1>7, <1>8, <1>9, <1>10, <1>11,
     <1>12,
     <1>13 DEF Control

\* A control that begins.
LEMMA AskedTyped ==
    ASSUME TypeInv,
           NEW e \in Engines,
           \/ Edit(e) \/ SaveBegin(e) \/ View(e) \/ ReloadBegin(e)
    PROVE  TypeInv'
<1>1. CASE Edit(e)
  <2>1. /\ Typed /\ Typed' /\ used'.edits = used.edits + 1
        /\ used'.views = used.views
    BY <1>1 DEF TypeInv, Edit, Typed
  <2>2. /\ Contents \subseteq Contents' /\ Files \subseteq Files'
        /\ Overlays \subseteq Overlays' /\ Owns \subseteq Owns' /\ Ops \subseteq Ops'
    BY <2>1, Grown DEF Typed
  <2>3. live' \in [Engines -> Contents']
    BY <1>1, <2>1, <2>2 DEF TypeInv, Edit, Contents, Typed
  <2> QED
    <3>1. /\ file' \in Files' /\ bak' \in Contents' \cup {None, Torn}
          /\ sidecar' \in Overlays' \cup {None}
          /\ cache' \in [Processes -> Overlays' \cup {None}]
      BY <1>1, <2>2 DEF TypeInv, Edit, disk
    <3>2. /\ own' \in [Engines -> Owns'] /\ op' \in [Engines -> Ops']
          /\ main' = main /\ own' = own
      BY <1>1, <2>2 DEF TypeInv, Edit, threads
    <3>3. /\ left' \in BudgetType /\ port' = port /\ status' = status
          /\ dirty' \in [Engines -> BOOLEAN] /\ UNCHANGED signals
      BY <1>1, Spent DEF TypeInv, Edit
    <3>4. \A f \in Engines : At(f, "write")' => own'[f].out \in Overlays'
      BY <2>2, <3>2 DEF TypeInv, At
    <3> QED
      BY <2>1, <2>3, <3>1, <3>2, <3>3, <3>4 DEF TypeInv, Typed, signals
<1>2. CASE SaveBegin(e)
  <2>1. op' \in [Engines -> Ops]
    <3>1. /\ live[e] \in Contents /\ op \in [Engines -> Ops]
          /\ op' = [op EXCEPT ![e] = [at |-> "backup", out |-> live[e]]]
      BY <1>2 DEF TypeInv, SaveBegin
    <3> QED
      BY <3>1, OpTyped DEF OpPlaces
  <2>2. left' \in BudgetType
    BY <1>2, Spent DEF TypeInv, SaveBegin
  <2> QED
    BY <1>2, <2>1, <2>2, Unchanging DEF TypeInv, SaveBegin, At, disk, engine, signals,
         history
<1>3. CASE View(e)
  <2>1. /\ Typed /\ Typed' /\ used'.views = used.views + 1
        /\ used'.edits = used.edits
    BY <1>3 DEF TypeInv, View, Typed
  <2>2. /\ Contents \subseteq Contents' /\ Files \subseteq Files'
        /\ Overlays \subseteq Overlays' /\ Owns \subseteq Owns' /\ Ops \subseteq Ops'
    BY <2>1, Grown DEF Typed
  <2>3. live' \in [Engines -> Contents']
    BY <1>3, <2>1, <2>2 DEF TypeInv, View, Contents, Typed
  <2>4. [file EXCEPT !.v = used'.views] \in Files'
    BY <2>1 DEF TypeInv, Files, Typed
  <2>5. op' \in [Engines -> Ops']
    BY <1>3, <2>2, <2>4 DEF TypeInv, View, Ops, OpPlaces
  <2> QED
    BY <1>3, <2>1, <2>2, <2>3, <2>5, Spent DEF TypeInv, View, Typed, At, disk,
         signals
<1>4. CASE ReloadBegin(e)
  <2>1. op' \in [Engines -> Ops]
    BY <1>4, OpTyped DEF TypeInv, ReloadBegin, OpPlaces
  <2>2. left' \in BudgetType
    BY <1>4, Spent DEF TypeInv, ReloadBegin
  <2> QED
    BY <1>4, <2>1, <2>2, Unchanging DEF TypeInv, ReloadBegin, At, disk, engine, signals,
         history
<1> QED
  BY <1>1, <1>2, <1>3, <1>4

\* An engine that is gone runs nothing.
LEMMA GoneTyped ==
    ASSUME TypeInv, NEW dead, Gone(dead)
    PROVE  /\ live' \in [Engines -> Contents] /\ dirty' \in [Engines -> BOOLEAN]
           /\ status' \in [Engines -> {"loaded", "parse_error"}]
<1>1. Empty \in Contents
  BY Contained DEF TypeInv, Typed
<1> QED
  BY <1>1 DEF TypeInv, Gone

\* An engine that leaves.
LEMMA LeaveTyped ==
    ASSUME TypeInv,
           NEW e \in Engines,
           Leaving(e)
    PROVE  TypeInv'
<1>1. CASE HandOver(e)
  BY <1>1, Unchanging DEF TypeInv, HandOver, Goto, At, disk, engine, threads,
       signals, history, Places
<1>2. CASE Collect(e)
  <2>1. own'[e].out \in Overlays /\ own' \in [Engines -> Owns]
    <3>1. [r |-> live[e].r, v |-> live[e].v, d |-> live[e].d,
           fallback |-> status[e] = "parse_error", stale |-> FALSE] \in Overlays
      BY Written DEF TypeInv
    <3>2. own' = [own EXCEPT ![e].out =
            [r |-> live[e].r, v |-> live[e].v, d |-> live[e].d,
             fallback |-> status[e] = "parse_error", stale |-> FALSE]]
      BY <1>2 DEF Collect
    <3>3. own' \in [Engines -> Owns]
      BY <3>1, <3>2, OwnTyped DEF TypeInv
    <3>4. own'[e].out \in Overlays
      BY <3>1, <3>2 DEF TypeInv, Owns
    <3> QED
      BY <3>3, <3>4
  <2>2. \A f \in Engines \ {e} : own'[f] = own[f] /\ main'[f] = main[f]
    BY <1>2 DEF TypeInv, Collect, Goto
  <2> QED
    BY <1>2, <2>1, <2>2, Unchanging DEF TypeInv, Collect, Goto, At, disk,
         engine, threads, signals, history, Places
<1>3. CASE WriteSidecar(e)
  BY <1>3, Unchanging DEF TypeInv, WriteSidecar, Goto, At, disk, engine,
       threads, signals, history, Places
<1>4. CASE Forget(e)
  BY <1>4, Unchanging, ProcessKnown DEF TypeInv, Forget, Goto, At, disk,
       engine, threads, signals, history, Places
<1>5. CASE Release(e)
  <2>1. own' \in [Engines -> Owns] /\ main' \in [Engines -> Places]
    BY <1>5, OwnTyped DEF TypeInv, Release, Goto, Places
  <2>2. /\ live' \in [Engines -> Contents] /\ dirty' \in [Engines -> BOOLEAN]
        /\ status' \in [Engines -> {"loaded", "parse_error"}]
    BY <1>5, GoneTyped DEF TypeInv, Release, engine
  <2>3. \A f \in Engines : main'[f] = "write" => own'[f] = own[f] /\ main[f] = "write"
    BY <1>5 DEF TypeInv, Release, Goto
  <2> QED
    BY <1>5, <2>1, <2>2, <2>3, Unchanging DEF TypeInv, Release, disk, At,
         Processes
<1> QED
  BY <1>1, <1>2, <1>3, <1>4, <1>5 DEF Leaving

\* A player that asks for the port, or is dropped.
LEMMA PlayerTyped ==
    ASSUME TypeInv,
           NEW e \in Engines, NEW known \in BOOLEAN, AskYield(e, known) \/ Drop(e, known)
    PROVE  TypeInv'
<1>1. CASE AskYield(e, known)
  BY <1>1, Names, Unchanging DEF TypeInv, AskYield, Goto, At, Places, disk,
       engine, threads, history
<1>2. CASE Drop(e, known)
  <2>1. own' \in [Engines -> Owns] /\ main' \in [Engines -> Places]
    BY <1>2, OwnTyped, Names DEF TypeInv, Drop, Leave, Goto, Places
  <2>2. \A f \in Engines : main'[f] = "write" => own'[f] = own[f] /\ main[f] = "write"
    BY <1>2, Names DEF TypeInv, Drop, Leave, Goto
  <2> QED
    BY <1>2, <2>1, <2>2, Spent, Unchanging DEF TypeInv, Drop, Leave, disk,
         engine, history, At
<1> QED
  BY <1>1, <1>2

\* The CLI stands by, ends, restarts or comes back.
LEMMA CliTyped ==
    ASSUME TypeInv,
           EnterStandby \/ Quit \/ Restart \/ Probe \/ Wake \/ Resume \/ StandAgain
             \/ ResumeEarly
    PROVE  TypeInv'
<1>1. CASE EnterStandby
  <2>1. own' \in [Engines -> Owns] /\ main' \in [Engines -> Places]
    BY <1>1, OwnTyped, Names DEF TypeInv, EnterStandby, Leave, Goto, Places
  <2>2. \A f \in Engines : main'[f] = "write" => own'[f] = own[f] /\ main[f] = "write"
    BY <1>1, Names DEF TypeInv, EnterStandby, Leave, Goto
  <2> QED
    BY <1>1, <2>1, <2>2, Spent, Unchanging DEF TypeInv, EnterStandby, Leave,
         disk, engine, history, At
<1>2. CASE Quit
  <2>1. own' \in [Engines -> Owns] /\ main' \in [Engines -> Places]
    BY <1>2, OwnTyped, Names DEF TypeInv, Quit, Leave, Goto, Places
  <2>2. \A f \in Engines : main'[f] = "write" => own'[f] = own[f] /\ main[f] = "write"
    BY <1>2, Names DEF TypeInv, Quit, Leave, Goto
  <2> QED
    BY <1>2, <2>1, <2>2, Spent, Unchanging DEF TypeInv, Quit, Leave, disk,
         engine, signals, history, At
<1>3. CASE Restart
  <2>1. own' \in [Engines -> Owns] /\ main' \in [Engines -> Places]
    BY <1>3, OwnTyped, Names DEF TypeInv, Restart, Goto, Places
  <2>2. \A f \in Engines : main'[f] = "write" => own'[f] = own[f] /\ main[f] = "write"
    BY <1>3, Names DEF TypeInv, Restart, Goto
  <2> QED
    BY <1>3, <2>1, <2>2, Spent, Unchanging DEF TypeInv, Restart, disk, engine,
         signals, history, At
<1>4. CASE Probe
  BY <1>4, Names, Unchanging DEF TypeInv, Probe, Goto, At, Places, disk,
       engine, threads, history
<1>5. CASE Wake
  BY <1>5, Names, Unchanging DEF TypeInv, Wake, Goto, At, Places, disk,
       engine, threads, history
<1>6. CASE Resume
  <2>1. op' \in [Engines -> Ops]
    BY <1>6, OpTyped, Names DEF TypeInv, Resume, OpPlaces
  <2> QED
    BY <1>6, <2>1, Names, Unchanging DEF TypeInv, Resume, Goto, At, Places,
         disk, engine, signals, history
<1>7. CASE StandAgain
  <2>1. own' \in [Engines -> Owns] /\ main' \in [Engines -> Places]
    BY <1>7, OwnTyped, Names DEF TypeInv, StandAgain, Leave, Goto, Places
  <2>2. \A f \in Engines : main'[f] = "write" => own'[f] = own[f] /\ main[f] = "write"
    BY <1>7, Names DEF TypeInv, StandAgain, Leave, Goto
  <2> QED
    BY <1>7, <2>1, <2>2, Spent, Unchanging DEF TypeInv, StandAgain, Leave,
         disk, engine, signals, history, At
<1>8. CASE ResumeEarly
  BY <1>8, Names, Unchanging DEF TypeInv, ResumeEarly, Goto, At, Places, disk,
       engine, threads, history
<1> QED
  BY <1>1, <1>2, <1>3, <1>4, <1>5, <1>6, <1>7, <1>8

\* The files and the processes.
LEMMA WorldTyped ==
    ASSUME TypeInv,
           (\E p \in Processes : Crash(p)) \/ HandEdit \/ Expire
    PROVE  TypeInv'
<1>1. ASSUME NEW p \in Processes, Crash(p)
      PROVE  TypeInv'
  <2>1. /\ own' \in [Engines -> Owns] /\ op' \in [Engines -> Ops]
        /\ main' \in [Engines -> Places]
    <3>1. NoOwn \in Owns /\ NoOp \in Ops
      BY DEF NoOwn, Owns, NoOp, Ops, OpPlaces
    <3> QED
      BY <1>1, <3>1 DEF TypeInv, Crash, Places
  <2>2. /\ live' \in [Engines -> Contents] /\ dirty' \in [Engines -> BOOLEAN]
        /\ status' \in [Engines -> {"loaded", "parse_error"}]
    BY <1>1, GoneTyped DEF Crash
  <2>3. \A f \in Engines : main'[f] = "write" => own'[f] = own[f] /\ main[f] = "write"
    BY <1>1 DEF TypeInv, Crash
  <2> QED
    BY <1>1, <2>1, <2>2, <2>3, Spent, Unchanging DEF TypeInv, Crash, disk, At
<1>2. CASE HandEdit
  <2>1. file' \in Files
    BY <1>2, Contained DEF TypeInv, HandEdit, Typed
  <2> QED
    BY <1>2, <2>1, Spent, Unchanging DEF TypeInv, HandEdit, threads, engine,
         signals, At
<1>3. CASE Expire
  <2>1. sidecar' \in Overlays
    BY <1>3, Contained DEF TypeInv, Expire, Fresh, Typed
  <2> QED
    BY <1>3, <2>1, Spent, Unchanging DEF TypeInv, Expire, threads, engine,
         signals, At
<1> QED
  BY <1>1, <1>2, <1>3

\* Nothing happens.
LEMMA StutterTyped == TypeInv /\ UNCHANGED vars => TypeInv'
BY Unchanging DEF TypeInv, vars, disk, threads, engine, signals, history, At

\* The types hold at the start.
LEMMA InitTyped == Init => TypeInv
<1> SUFFICES ASSUME Init
             PROVE  TypeInv
  OBVIOUS
<1>1. Typed
  BY DEF Init, Typed
<1>2. Empty \in Contents /\ NoOwn \in Owns /\ NoOp \in Ops
  BY <1>1, Contained DEF NoOwn, Owns, NoOp, Ops, OpPlaces
<1>3. file \in Files
  BY DEF Init, Files
<1> QED
  BY <1>2, <1>3, BudgetsAssumption DEF Init, TypeInv, Places, At

\* Every step keeps the types.
LEMMA NextTyped == TypeInv /\ HandInv /\ [Next]_vars => TypeInv'
<1> SUFFICES ASSUME TypeInv, HandInv, [Next]_vars
             PROVE  TypeInv'
  OBVIOUS
<1>1. CASE Next
  BY <1>1, StartTyped, AskedTyped, ControlTyped, LeaveTyped, PlayerTyped,
     CliTyped, WorldTyped DEF Next, ComeBack
<1> QED
  BY <1>1, StutterTyped

-----------------------------------------------------------------------------
(* Whoever runs a control holds the port, with in hand what the control      *)
(* wants.                                                                    *)

\* A control that goes on, or ends, is the only one whose place changes.
LEMMA OpMoved ==
    ASSUME op \in [Engines -> Ops], NEW e \in Engines
    PROVE  /\ OpEnds(e) =>
                /\ op'[e].at = "idle"
                /\ \A f \in Engines \ {e} : op'[f] = op[f]
           /\ \A place \in OpPlaces : OpGoto(e, place) =>
                /\ op'[e].at = place /\ op'[e].out = op[e].out
                /\ \A f \in Engines \ {e} : op'[f] = op[f]
           /\ \A place \in OpPlaces : \A x :
                op' = [op EXCEPT ![e] = [at |-> place, out |-> x]] =>
                    /\ op'[e].at = place /\ op'[e].out = x
                    /\ \A f \in Engines \ {e} : op'[f] = op[f]
BY DEF OpEnds, NoOp, OpGoto, Ops

\* No control moves, and whoever runs one keeps the port and its place.
LEMMA HandStays ==
    ASSUME HandInv, used' = used, op' = op,
           \A f \in Engines : op[f].at # "idle" => port' = port /\ main'[f] \in Held
    PROVE  HandInv'
BY Unchanging DEF HandInv

\* One control moves, of an engine that holds the port, to a place for which it
\* has what is wanted.
LEMMA HandMoves ==
    ASSUME HandInv, used' = used, NEW e \in Engines,
           \A f \in Engines \ {e} : op'[f] = op[f],
           port' = port, main' = main,
           op'[e].at # "idle" => port = e /\ main[e] \in Held,
           op'[e].at \in Saving => op'[e].out \in Contents,
           op'[e].at = "view" => op'[e].out \in Files \cup {None},
           op'[e].at = "amendWrite" => op'[e].out \in Overlays,
           op'[e].at \in {"adopt", "adopted"} => e = Cli,
           op'[e].at = "adopted" => op'[e].out \in Adopted
    PROVE  HandInv'
BY Unchanging DEF HandInv

\* Who listens may run a control.
LEMMA ListeningHeld ==
    ASSUME NEW e \in Engines, Listening(e)
    PROVE  port = e /\ main[e] \in Held
BY DEF Listening, At, Held

\* Who starts runs no control, and takes the port from nobody who does.
LEMMA StartHand ==
    ASSUME TypeInv, HandInv, NEW e \in Engines,
           \/ Preload(e) \/ Reserve(e) \/ Reclaim(e) \/ GiveUp(e) \/ Load(e)
           \/ Build(e) \/ Listen(e) \/ RunDeaf(e)
    PROVE  HandInv'
<1>1. op' = op /\ used' = used
  BY DEF Preload, Reserve, Reclaim, GiveUp, Load, Build, Listen, RunDeaf,
       threads, history
<1>2. main[e] \notin Held /\ \A f \in Engines \ {e} : main'[f] = main[f]
  BY DEF Preload, Reserve, Reclaim, GiveUp, Load, Build, Listen, RunDeaf,
       Goto, At, Held, MayStart, TypeInv
<1>3. port' = port \/ \A f \in Engines : op[f].at = "idle" \/ port' = f
  BY EnginesAssumption DEF Preload, Reserve, Reclaim, GiveUp, Load, Build,
       Listen, RunDeaf, HandInv, OpAt, Engines, engine
<1>4. ASSUME NEW f \in Engines, op[f].at # "idle"
      PROVE  port' = port /\ main'[f] \in Held
  BY <1>2, <1>3, <1>4 DEF HandInv
<1> QED
  BY <1>1, <1>4, HandStays

\* A control that begins has what it wants.
LEMMA AskedHand ==
    ASSUME TypeInv, HandInv, NEW e \in Engines,
           \/ Edit(e) \/ SaveBegin(e) \/ View(e) \/ ReloadBegin(e)
    PROVE  HandInv'
<1>1. port = e /\ main[e] \in Held
  BY ListeningHeld DEF Edit, SaveBegin, View, ReloadBegin
<1>2. CASE Edit(e)
  <2>1. /\ Typed /\ Typed' /\ used'.edits >= used.edits
        /\ used'.views >= used.views
    BY <1>2 DEF TypeInv, Edit, Typed
  <2>2. /\ Contents \subseteq Contents' /\ Files \subseteq Files'
        /\ Overlays \subseteq Overlays' /\ Adopted \subseteq Adopted'
    BY <2>1, Grown
  <2> QED
    BY <1>2, <2>2 DEF HandInv, Edit, threads
<1>3. CASE SaveBegin(e)
  BY <1>1, <1>3, OpMoved, HandMoves DEF TypeInv, SaveBegin, OpPlaces, Saving,
       history
<1>4. CASE View(e)
  <2>1. /\ Typed /\ Typed' /\ used'.edits >= used.edits
        /\ used'.views >= used.views
    BY <1>4 DEF TypeInv, View, Typed
  <2>2. /\ Contents \subseteq Contents' /\ Files \subseteq Files'
        /\ Overlays \subseteq Overlays' /\ Adopted \subseteq Adopted'
    BY <2>1, Grown
  <2>3. [file EXCEPT !.v = used'.views] \in Files'
    BY <1>4 DEF TypeInv, View, Files, Typed
  <2>4. /\ op'[e].at = "view" /\ op'[e].out \in Files' \cup {None}
        /\ \A f \in Engines \ {e} : op'[f] = op[f]
    BY <1>4, <2>3 DEF TypeInv, View
  <2> QED
    BY <1>1, <1>4, <2>2, <2>4 DEF HandInv, View, Saving
<1>5. CASE ReloadBegin(e)
  BY <1>1, <1>5, OpMoved, HandMoves DEF TypeInv, ReloadBegin, OpPlaces,
       Saving, history
<1> QED
  BY <1>2, <1>3, <1>4, <1>5

\* A control that goes on has what its next step wants.
LEMMA ControlHand ==
    ASSUME TypeInv, HandInv, NEW e \in Engines, Control(e)
    PROVE  HandInv'
<1>1. op[e].at # "idle" /\ used' = used /\ port' = port /\ main' = main
  BY DEF Control, BackUp, Copied, Rename, Remove, Clear, MarkClean, ViewWrite,
       AmendCache, AmendRead, AmendWrite, Reread, AdoptLoad, AdoptApply, OpAt,
       history
<1>2. port = e /\ main[e] \in Held
  BY <1>1 DEF HandInv
<1>3. CASE BackUp(e) \/ Copied(e)
  BY <1>1, <1>2, <1>3, OpMoved, HandMoves DEF TypeInv, HandInv, BackUp,
       Copied, OpAt, OpPlaces, Saving
<1>4. CASE Rename(e) \/ Remove(e) \/ Clear(e) \/ ViewWrite(e) \/ AmendCache(e)
  BY <1>1, <1>2, <1>4, OpMoved, HandMoves DEF TypeInv, Rename, Remove, Clear,
       ViewWrite, AmendCache, OpPlaces, Saving
<1>5. CASE MarkClean(e) \/ AmendWrite(e) \/ Reread(e) \/ AdoptApply(e)
  BY <1>1, <1>2, <1>5, OpMoved, HandMoves DEF TypeInv, MarkClean, AmendWrite,
       Reread, AdoptApply, Saving
<1>6. CASE AmendRead(e)
  <2>1. CASE sidecar = None
    BY <1>1, <1>6, <2>1, OpMoved, HandMoves DEF TypeInv, AmendRead, Saving
  <2>2. CASE sidecar # None
    BY <1>1, <1>2, <1>6, <2>2, AmendedTyped, OpMoved, HandMoves DEF TypeInv,
         AmendRead, OpPlaces, Saving
  <2> QED
    BY <2>1, <2>2
<1>7. CASE AdoptLoad(e)
  <2>1. /\ op'[e].at = "adopted" /\ op'[e].out \in Adopted
        /\ \A f \in Engines \ {e} : op'[f] = op[f]
    BY <1>7, AdoptedInHand
  <2>2. e = Cli
    BY <1>7 DEF AdoptLoad, OpAt, HandInv
  <2> QED
    BY <1>1, <1>2, <2>1, <2>2, HandMoves DEF Saving
<1> QED
  BY <1>3, <1>4, <1>5, <1>6, <1>7 DEF Control

\* Who leaves waits for its control before it gives up the port.
LEMMA LeaveHand ==
    ASSUME TypeInv, HandInv, NEW e \in Engines, Leaving(e)
    PROVE  HandInv'
<1>1. op' = op /\ used' = used /\ \A f \in Engines \ {e} : main'[f] = main[f]
  BY DEF Leaving, HandOver, Collect, WriteSidecar, Forget, Release, Goto,
       TypeInv, history
<1>2. main'[e] \in Held \/ op[e].at = "idle"
  BY DEF Leaving, HandOver, Collect, WriteSidecar, Forget, Release, Goto,
       TypeInv, Held, OpAt
<1>3. port' = port \/ (port = e /\ op[e].at = "idle")
  BY DEF Leaving, HandOver, Collect, WriteSidecar, Forget, Release, OpAt
<1> QED
  BY <1>1, <1>2, <1>3, HandStays DEF HandInv

\* Asking for the port, and being dropped, leave controls alone.
LEMMA PlayerHand ==
    ASSUME TypeInv, HandInv, NEW e \in Engines, NEW known \in BOOLEAN,
           AskYield(e, known) \/ Drop(e, known)
    PROVE  HandInv'
<1>1. op' = op /\ used' = used /\ port' = port
  BY DEF AskYield, Drop, threads, history
<1>2. \A f \in Engines : main'[f] = main[f] \/ main'[f] \in Held
  BY DEF AskYield, Drop, Leave, threads, TypeInv, Held
<1> QED
  BY <1>1, <1>2, HandStays DEF HandInv

\* The CLI that comes back takes a free port, and adopts.
LEMMA CliHand ==
    ASSUME TypeInv, HandInv,
           EnterStandby \/ Quit \/ Restart \/ Probe \/ Wake \/ Resume \/ StandAgain
             \/ ResumeEarly
    PROVE  HandInv'
<1>1. used' = used
  BY DEF EnterStandby, Quit, Restart, Probe, Wake, Resume, StandAgain,
       ResumeEarly, history
<1>2. CASE Resume
  <2>1. \A f \in Engines : op[f].at = "idle"
    BY <1>2, EnginesAssumption DEF Resume, HandInv
  <2>2. /\ op'[Cli].at = "adopt" /\ \A f \in Engines \ {Cli} : op'[f] = op[f]
        /\ port' = Cli /\ main'[Cli] \in Held
    BY <1>2, Names, OpMoved DEF Resume, TypeInv, OpPlaces, Goto, Held
  <2> QED
    BY <2>1, <2>2 DEF HandInv, Saving
<1>3. CASE EnterStandby \/ Quit \/ Restart \/ Probe \/ Wake \/ StandAgain \/ ResumeEarly
  <2>1. op' = op /\ port' = port
    BY <1>3 DEF EnterStandby, Quit, Restart, Probe, Wake, StandAgain,
         ResumeEarly, threads
  <2>2. \A f \in Engines :
           main'[f] = main[f] \/ main'[f] \in Held \/ main[f] = "standby"
    BY <1>3, Names DEF EnterStandby, Quit, Restart, Probe, Wake, StandAgain,
         ResumeEarly, threads, Leave, Goto, At, Held, TypeInv
  <2> QED
    BY <1>1, <2>1, <2>2, HandStays DEF HandInv, Held
<1> QED
  BY <1>2, <1>3

\* A crash ends the controls of its process with their engines.
LEMMA WorldHand ==
    ASSUME TypeInv, HandInv,
           (\E p \in Processes : Crash(p)) \/ HandEdit \/ Expire
    PROVE  HandInv'
<1>1. ASSUME NEW p \in Processes, Crash(p)
      PROVE  HandInv'
  <2>1. \A f \in Engines : op'[f] = NoOp \/ (op'[f] = op[f] /\ main'[f] = main[f])
    BY <1>1 DEF Crash
  <2>2. \A f \in Engines : op'[f] = NoOp \/ (port = f => port' = f)
    BY <1>1 DEF Crash
  <2>3. used' = used
    BY <1>1 DEF Crash
  <2> QED
    BY <2>1, <2>2, <2>3, Unchanging DEF HandInv, NoOp, Saving
<1>2. CASE HandEdit \/ Expire
  BY <1>2, HandStays DEF HandEdit, Expire, HandInv, threads
<1> QED
  BY <1>1, <1>2

\* Nothing happens.
LEMMA StutterHand == HandInv /\ UNCHANGED vars => HandInv'
BY HandStays DEF HandInv, vars, threads, history

\* No control runs at the start.
LEMMA InitHand == Init => HandInv
BY DEF Init, HandInv, NoOp, Saving

\* Every step keeps it.
LEMMA NextHand == TypeInv /\ HandInv /\ [Next]_vars => HandInv'
<1> SUFFICES ASSUME TypeInv, HandInv, [Next]_vars
             PROVE  HandInv'
  OBVIOUS
<1>1. CASE Next
  BY <1>1, StartHand, AskedHand, ControlHand, LeaveHand, PlayerHand, CliHand,
     WorldHand DEF Next, ComeBack
<1> QED
  BY <1>1, StutterHand

-----------------------------------------------------------------------------
(* One control runs at a time, so a Save writes what its engine runs.        *)

\* While one engine runs a control, or holds the port, the others run none.
LEMMA OneAtATime ==
    ASSUME HandInv, NEW e \in Engines, port = e, NEW f \in Engines \ {e}
    PROVE  op[f].at = "idle"
BY DEF HandInv

\* No control moves, and the files and what a busy engine runs stay.
LEMMA WriterStays ==
    ASSUME WriterInv, op' = op, file' = file, bak' = bak,
           \A f \in Engines : op[f].at # "idle" => live'[f] = live[f]
    PROVE  WriterInv'
BY DEF WriterInv, Saving, Says

\* One control moves and no other runs: its own place is what matters.
LEMMA WriterMoves ==
    ASSUME NEW e \in Engines, \A f \in Engines \ {e} : op'[f].at = "idle",
           op'[e].at \in Saving => op'[e].out = live'[e] /\ ~file'.broken,
           op'[e].at = "rename" => bak' = Says(file'),
           op'[e].at = "view" /\ op'[e].out # None =>
             /\ op'[e].out.r = file'.r /\ op'[e].out.d = file'.d
             /\ op'[e].out.broken = file'.broken
    PROVE  WriterInv'
BY DEF WriterInv, Saving, Says

\* Who starts runs no control.
LEMMA StartWriter ==
    ASSUME TypeInv, HandInv, WriterInv, NEW e \in Engines,
           \/ Preload(e) \/ Reserve(e) \/ Reclaim(e) \/ GiveUp(e) \/ Load(e)
           \/ Build(e) \/ Listen(e) \/ RunDeaf(e)
    PROVE  WriterInv'
<1>1. op' = op /\ file' = file /\ bak' = bak
  BY DEF Preload, Reserve, Reclaim, GiveUp, Load, Build, Listen, RunDeaf,
       threads, disk
<1>2. op[e].at = "idle"
  BY DEF Preload, Reserve, Reclaim, GiveUp, Load, Build, Listen, RunDeaf,
       MayStart, At, HandInv, Held
<1>3. \A f \in Engines \ {e} : live'[f] = live[f]
  BY DEF Preload, Reserve, Reclaim, GiveUp, Load, Build, Listen, RunDeaf,
       engine, TypeInv
<1> QED
  BY <1>1, <1>2, <1>3, WriterStays

\* What a control begins with is what is there.
LEMMA AskedWriter ==
    ASSUME TypeInv, HandInv, WriterInv, NEW e \in Engines,
           \/ Edit(e) \/ SaveBegin(e) \/ View(e) \/ ReloadBegin(e)
    PROVE  WriterInv'
<1>1. \A f \in Engines : op[f].at = "idle"
  BY OneAtATime DEF Edit, SaveBegin, View, ReloadBegin, Listening, OpAt
<1>2. CASE Edit(e)
  BY <1>1, <1>2 DEF WriterInv, Edit, threads, Saving
<1>3. CASE SaveBegin(e)
  <2>1. /\ op'[e].at = "backup" /\ op'[e].out = live[e]
        /\ \A f \in Engines \ {e} : op'[f] = op[f]
    <3>1. /\ op \in [Engines -> Ops]
          /\ op' = [op EXCEPT ![e] = [at |-> "backup", out |-> live[e]]]
      BY <1>3 DEF TypeInv, SaveBegin
    <3> QED
      BY <3>1, OpMoved DEF OpPlaces
  <2> QED
    <3>1. live' = live /\ file' = file /\ ~file.broken
      BY <1>3 DEF SaveBegin, engine, disk
    <3> QED
      BY <1>1, <2>1, <3>1, WriterMoves
<1>4. CASE View(e)
  <2>1. /\ op'[e].at = "view"
        /\ op'[e].out = IF file.broken THEN None ELSE [file EXCEPT !.v = used'.views]
        /\ \A f \in Engines \ {e} : op'[f] = op[f]
    <3> DEFINE out == IF file.broken THEN None
                      ELSE [file EXCEPT !.v = used'.views]
    <3>1. /\ op \in [Engines -> Ops]
          /\ op' = [op EXCEPT ![e] = [at |-> "view", out |-> out]]
      BY <1>4 DEF TypeInv, View
    <3> HIDE DEF out
    <3>2. /\ op'[e].at = "view" /\ op'[e].out = out
          /\ \A f \in Engines \ {e} : op'[f] = op[f]
      BY <3>1, OpMoved DEF OpPlaces
    <3> QED
      BY <3>2 DEF out
  <2>2. op'[e].out # None =>
          /\ op'[e].out.r = file.r /\ op'[e].out.d = file.d
          /\ op'[e].out.broken = file.broken
    BY <2>1 DEF TypeInv, Files
  <2> QED
    BY <1>1, <1>4, <2>1, <2>2, WriterMoves DEF View, disk, Saving
<1>5. CASE ReloadBegin(e)
  <2>1. /\ op'[e].at = "reload" /\ \A f \in Engines \ {e} : op'[f] = op[f]
    BY <1>5, OpMoved DEF TypeInv, ReloadBegin, OpPlaces
  <2> QED
    BY <1>1, <2>1, WriterMoves DEF Saving
<1> QED
  BY <1>2, <1>3, <1>4, <1>5

\* A Save goes on with what its engine runs, the backup made on the way.
LEMMA ControlWriter ==
    ASSUME TypeInv, HandInv, WriterInv, NEW e \in Engines, Control(e)
    PROVE  WriterInv'
<1>1. \A f \in Engines \ {e} : op[f].at = "idle"
  <2>1. op[e].at # "idle"
    BY DEF Control, BackUp, Copied, Rename, Remove, Clear, MarkClean,
         ViewWrite, AmendCache, AmendRead, AmendWrite, Reread, AdoptLoad,
         AdoptApply, OpAt
  <2> QED
    BY <2>1, OneAtATime DEF HandInv
<1>2. CASE BackUp(e)
  BY <1>1, <1>2, OpMoved, WriterMoves DEF TypeInv, WriterInv, BackUp, OpAt,
       OpPlaces, Saving, engine
<1>3. CASE Copied(e)
  BY <1>1, <1>3, OpMoved, WriterMoves DEF TypeInv, WriterInv, Copied, OpAt,
       OpPlaces, Saving, engine
<1>4. CASE Rename(e) \/ Remove(e) \/ Clear(e) \/ ViewWrite(e) \/ AmendCache(e)
  BY <1>1, <1>4, OpMoved, WriterMoves DEF TypeInv, Rename, Remove, Clear,
       ViewWrite, AmendCache, OpPlaces, Saving
<1>5. CASE MarkClean(e) \/ AmendRead(e) \/ AmendWrite(e) \/ Reread(e) \/ AdoptApply(e)
  BY <1>1, <1>5, OpMoved, WriterMoves DEF TypeInv, MarkClean, AmendRead,
       AmendWrite, Reread, AdoptApply, OpPlaces, Saving
<1>6. CASE AdoptLoad(e)
  BY <1>1, <1>6, AdoptedInHand, WriterMoves DEF Saving
<1> QED
  BY <1>2, <1>3, <1>4, <1>5, <1>6 DEF Control

\* What a busy engine runs does not go before its control ends.
LEMMA LeaveWriter ==
    ASSUME TypeInv, HandInv, WriterInv, NEW e \in Engines, Leaving(e)
    PROVE  WriterInv'
<1>1. op' = op /\ file' = file /\ bak' = bak
  BY DEF Leaving, HandOver, Collect, WriteSidecar, Forget, Release, disk
<1>2. CASE Release(e)
  <2>1. op[e].at = "idle" /\ \A f \in Engines \ {e} : live'[f] = live[f]
    BY <1>2 DEF Release, Gone, engine, OpAt
  <2> QED
    BY <1>1, <2>1, WriterStays
<1>3. CASE HandOver(e) \/ Collect(e) \/ WriteSidecar(e) \/ Forget(e)
  BY <1>1, <1>3, WriterStays DEF HandOver, Collect, WriteSidecar, Forget,
       engine
<1> QED
  BY <1>2, <1>3 DEF Leaving

\* Asking for the port, and being dropped, leave files alone.
LEMMA PlayerWriter ==
    ASSUME WriterInv, NEW e \in Engines, NEW known \in BOOLEAN,
           AskYield(e, known) \/ Drop(e, known)
    PROVE  WriterInv'
BY WriterStays DEF AskYield, Drop, threads, disk, engine

\* So do the comings and goings of the CLI, but for what it adopts.
LEMMA CliWriter ==
    ASSUME TypeInv, HandInv, WriterInv,
           EnterStandby \/ Quit \/ Restart \/ Probe \/ Wake \/ Resume \/ StandAgain
             \/ ResumeEarly
    PROVE  WriterInv'
<1>1. CASE Resume
  <2>1. \A f \in Engines : op[f].at = "idle"
    BY <1>1, EnginesAssumption DEF Resume, HandInv
  <2>2. /\ op'[Cli].at = "adopt" /\ \A f \in Engines \ {Cli} : op'[f] = op[f]
    BY <1>1, Names, OpMoved DEF Resume, TypeInv, OpPlaces
  <2> QED
    BY <2>1, <2>2, Names, WriterMoves DEF Saving
<1>2. CASE EnterStandby \/ Quit \/ Restart \/ Probe \/ Wake \/ StandAgain \/ ResumeEarly
  BY <1>2, WriterStays DEF EnterStandby, Quit, Restart, Probe, Wake,
       StandAgain, ResumeEarly, threads, disk, engine
<1> QED
  BY <1>1, <1>2

\* The user edits the file between controls; a crash ends them.
LEMMA WorldWriter ==
    ASSUME WriterInv, (\E p \in Processes : Crash(p)) \/ HandEdit \/ Expire
    PROVE  WriterInv'
<1>1. ASSUME NEW p \in Processes, Crash(p)
      PROVE  WriterInv'
  <2>1. \A f \in Engines : op'[f] = NoOp \/ (op'[f] = op[f] /\ live'[f] = live[f])
    BY <1>1 DEF Crash, Gone
  <2>2. file' = file /\ bak' = bak
    BY <1>1 DEF Crash, disk
  <2> QED
    BY <2>1, <2>2 DEF WriterInv, NoOp, Saving, Says
<1>2. CASE HandEdit
  BY <1>2 DEF HandEdit, WriterInv, OpAt, threads, Saving
<1>3. CASE Expire
  BY <1>3, WriterStays DEF Expire, threads, engine
<1> QED
  BY <1>1, <1>2, <1>3

\* Nothing happens.
LEMMA StutterWriter == WriterInv /\ UNCHANGED vars => WriterInv'
BY WriterStays DEF vars, threads, disk, engine

\* No control runs at the start.
LEMMA InitWriter == Init => WriterInv
<1>1. Init => \A e \in Engines : op[e].at = "idle"
  BY DEF Init, NoOp
<1> QED
  BY <1>1 DEF WriterInv, Saving

\* Every step keeps it.
LEMMA NextWriter == TypeInv /\ HandInv /\ WriterInv /\ [Next]_vars => WriterInv'
<1> SUFFICES ASSUME TypeInv, HandInv, WriterInv, [Next]_vars
             PROVE  WriterInv'
  OBVIOUS
<1>1. CASE Next
  BY <1>1, StartWriter, AskedWriter, ControlWriter, LeaveWriter, PlayerWriter,
     CliWriter, WorldWriter DEF Next, ComeBack
<1> QED
  BY <1>1, StutterWriter

-----------------------------------------------------------------------------
(* The built-in defaults are always told from what the user set.             *)

Kept == TypeInv /\ HandInv /\ WriterInv

\* What may happen does not change.
LEMMA AllowKept ==
    ASSUME TypeInv, [Next]_vars
    PROVE  left'.allow = left.allow
<1>1. left \in BudgetType
  BY DEF TypeInv
<1>2. CASE left' = left
  BY <1>2
<1>3. CASE \E what \in {"edits", "views", "saves", "reloads", "starts", "crashes",
                        "breaks", "expiries"} : Spend(what)
  BY <1>1, <1>3, Spent
<1> HIDE DEF TypeInv
<1>4. CASE UNCHANGED vars
  BY <1>2, <1>4 DEF vars
<1>5. ASSUME NEW e \in Engines,
             \/ Preload(e) \/ Reserve(e) \/ Reclaim(e) \/ GiveUp(e) \/ Load(e)
             \/ Build(e) \/ Listen(e) \/ RunDeaf(e)
      PROVE  left'.allow = left.allow
  BY <1>2, <1>3, <1>5 DEF Preload, Reserve, Reclaim, GiveUp, Load, Build,
       Listen, RunDeaf
<1>6. ASSUME NEW e \in Engines,
             \/ Edit(e) \/ SaveBegin(e) \/ View(e) \/ ReloadBegin(e)
      PROVE  left'.allow = left.allow
  BY <1>3, <1>6 DEF Edit, SaveBegin, View, ReloadBegin
<1>7. ASSUME NEW e \in Engines, Control(e)
      PROVE  left'.allow = left.allow
  BY <1>2, <1>7 DEF Control, BackUp, Copied, Rename, Remove, Clear, MarkClean,
       ViewWrite, AmendCache, AmendRead, AmendWrite, Reread, AdoptLoad,
       AdoptApply
<1>8. ASSUME NEW e \in Engines, Leaving(e)
      PROVE  left'.allow = left.allow
  BY <1>2, <1>8 DEF Leaving, HandOver, Collect, WriteSidecar, Forget, Release
<1>9. ASSUME NEW e \in Engines, NEW known \in BOOLEAN,
             AskYield(e, known) \/ Drop(e, known)
      PROVE  left'.allow = left.allow
  BY <1>2, <1>9 DEF AskYield, Drop
<1>10. CASE EnterStandby \/ Quit \/ Restart \/ Probe \/ Wake \/ Resume \/ StandAgain
              \/ ResumeEarly
  BY <1>2, <1>3, <1>10 DEF EnterStandby, Quit, Restart, Probe, Wake, Resume,
       StandAgain, ResumeEarly
<1>11. CASE (\E q \in Processes : Crash(q)) \/ HandEdit \/ Expire
  BY <1>2, <1>3, <1>11 DEF Crash, HandEdit, Expire
<1> QED
  BY <1>4, <1>5, <1>6, <1>7, <1>8, <1>9, <1>10, <1>11 DEF Next, ComeBack

\* A player makes no second engine, so two that run are of two processes.
LEMMA Apart ==
    ASSUME OneEach, NEW e \in Engines, NEW f \in Engines, e # f,
           ~At(e, "off"), f \in {Cli, First} \/ ~At(f, "off")
    PROVE  ProcessOf(e) # ProcessOf(f)
BY EnginesAssumption, Names DEF OneEach, ProcessOf, Engines

\* Who starts is the CLI or the one engine of the player.
LEMMA StartsAlone ==
    ASSUME ~Allowed("overlap"), OneEach,
           NEW e \in Engines, MayStart(e) \/ ~At(e, "off")
    PROVE  e \in {Cli, First}
BY DEF OneEach, MayStart

\* No step starts a second engine of the player.
LEMMA OneEachKept ==
    ASSUME Kept, ~Allowed("overlap"), OneEach, [Next]_vars
    PROVE  OneEach'
<1>1. CASE UNCHANGED vars
  BY <1>1 DEF vars, threads, OneEach, At
<1>2. ASSUME NEW e \in Engines,
             \/ Preload(e) \/ Reserve(e) \/ Reclaim(e) \/ GiveUp(e) \/ Load(e)
             \/ Build(e) \/ Listen(e) \/ RunDeaf(e)
      PROVE  OneEach'
  <2>1. e \in {Cli, First}
    BY <1>2, StartsAlone DEF Preload, Reserve, Reclaim, GiveUp, Load, Build,
         Listen, RunDeaf, At
  <2>2. \A f \in Engines \ {e} : main'[f] = main[f]
    BY <1>2 DEF Kept, TypeInv, Preload, Reserve, Reclaim, GiveUp, Load, Build,
         Listen, RunDeaf, Goto
  <2> QED
    BY <2>1, <2>2 DEF OneEach, At
<1>3. ASSUME NEW e \in Engines,
             \/ Edit(e) \/ SaveBegin(e) \/ View(e) \/ ReloadBegin(e) \/ Control(e)
      PROVE  OneEach'
  <2>1. main' = main
    BY <1>3 DEF Edit, SaveBegin, View, ReloadBegin, Control, BackUp, Copied,
         Rename, Remove, Clear, MarkClean, ViewWrite, AmendCache, AmendRead,
         AmendWrite, Reread, AdoptLoad, AdoptApply, threads
  <2> QED
    BY <2>1 DEF OneEach, At
<1>4. ASSUME NEW e \in Engines, NEW known \in BOOLEAN,
             Leaving(e) \/ AskYield(e, known) \/ Drop(e, known)
      PROVE  OneEach'
  <2>1. CASE AskYield(e, known)
    BY <2>1 DEF AskYield, threads, OneEach, At
  <2>2. CASE Leaving(e) \/ Drop(e, known)
    <3>1. ~At(e, "off") /\ \A f \in Engines \ {e} : main'[f] = main[f]
      BY <2>2 DEF Kept, TypeInv, Leaving, HandOver, Collect, WriteSidecar,
           Forget, Release, Drop, Leave, Goto, At
    <3> QED
      BY <3>1, StartsAlone DEF OneEach, At
  <2> QED
    BY <1>4, <2>1, <2>2
<1>5. CASE EnterStandby \/ Quit \/ Restart \/ Probe \/ Wake \/ Resume \/ StandAgain
             \/ ResumeEarly
  <2>1. \A f \in Engines \ {Cli} : main'[f] = main[f]
    BY <1>5 DEF Kept, TypeInv, EnterStandby, Quit, Restart, Probe, Wake,
         Resume, StandAgain, ResumeEarly, Leave, Goto, threads
  <2> QED
    BY <2>1 DEF OneEach, At
<1>6. CASE (\E q \in Processes : Crash(q)) \/ HandEdit \/ Expire
  <2>1. \A f \in Engines : main'[f] = main[f] \/ main'[f] = "off"
    BY <1>6 DEF Crash, HandEdit, Expire, threads
  <2> QED
    BY <2>1 DEF OneEach, At
<1> QED
  BY <1>1, <1>2, <1>3, <1>4, <1>5, <1>6, TRUE \in BOOLEAN DEF Next, ComeBack

\* Files and overlays that stay as they are, or go, say what they said.
LEMMA DiskStays ==
    ASSUME DiskOrigin, file' = file, bak' = bak, sidecar' \in {sidecar, None},
           \A p \in Processes : cache'[p] \in {cache[p], None}
    PROVE  DiskOrigin'
BY DEF DiskOrigin, Honest

\* An overlay is honest whatever view state it is given and however old.
LEMMA StaysHonest ==
    ASSUME NEW o \in Overlays, Honest(o), NEW x
    PROVE  /\ Honest([o EXCEPT !.v = x]) /\ Honest([o EXCEPT !.stale = x])
BY DEF Overlays, Honest

\* What is consumed says of its origin what the sidecar said.
LEMMA ConsumeDisk ==
    ASSUME TypeInv, DiskOrigin, NEW p \in Processes, Consume(p),
           file' = file, bak' = bak
    PROVE  DiskOrigin'
<1>1. \A q \in Processes : cache'[q] = cache[q] \/ (cache'[q] = sidecar /\ sidecar # None)
  BY DEF TypeInv, Consume, Fresh
<1>2. \A q \in Processes : cache'[q] # None => Honest(cache'[q])
  BY <1>1 DEF DiskOrigin
<1> QED
  BY <1>2 DEF DiskOrigin, Consume, Honest

\* A control writes no defaults.
LEMMA ControlDisk ==
    ASSUME Kept, DiskOrigin, HandOrigin, NEW e \in Engines, Control(e)
    PROVE  DiskOrigin'
<1>1. CASE BackUp(e)
  BY <1>1 DEF BackUp, DiskOrigin, Honest
<1>2. CASE Copied(e)
  <2>1. bak'.d = file.d
    BY <1>2 DEF Copied, Says
  <2> QED
    BY <1>2, <2>1 DEF Copied, DiskOrigin, Honest
<1>3. CASE Rename(e)
  <2>1. ~file'.d
    BY <1>3 DEF Rename, Kept, WriterInv, HandOrigin, OpAt, Saving
  <2> QED
    BY <1>3, <2>1 DEF Rename, DiskOrigin, Honest
<1>4. CASE ViewWrite(e)
  <2>1. file'.d = file.d
    BY <1>4 DEF ViewWrite, Kept, WriterInv, OpAt
  <2> QED
    BY <1>4, <2>1 DEF ViewWrite, DiskOrigin, Honest
<1>5. CASE Remove(e) \/ Clear(e) \/ MarkClean(e) \/ AmendRead(e) \/ Reread(e) \/ AdoptApply(e)
  BY <1>5, DiskStays DEF Kept, TypeInv, Remove, Clear, MarkClean, AmendRead,
       Reread, AdoptApply, disk
<1>6. CASE AmendCache(e)
  <2>1. ASSUME NEW q \in Processes, cache'[q] # None
        PROVE  Honest(cache'[q])
    <3>1. cache[q] \in Overlays \cup {None} /\ (cache[q] # None => Honest(cache[q]))
      BY DEF Kept, TypeInv, DiskOrigin
    <3>2. \/ cache'[q] = cache[q]
          \/ cache'[q] = [cache[q] EXCEPT !.v = live[e].v] /\ cache[q] # None
      BY <1>6, <2>1 DEF AmendCache, Kept, TypeInv
    <3> QED
      BY <2>1, <3>1, <3>2, StaysHonest
  <2> QED
    BY <1>6, <2>1 DEF AmendCache, disk, DiskOrigin, Honest
<1>7. CASE AmendWrite(e)
  <2>1. op[e].out \in Overlays /\ Honest(op[e].out)
    BY <1>7 DEF AmendWrite, OpAt, Kept, HandInv, HandOrigin
  <2>2. Honest(sidecar')
    BY <1>7, <2>1, StaysHonest DEF AmendWrite, Honest
  <2> QED
    BY <1>7, <2>2 DEF AmendWrite, DiskOrigin, Honest
<1>8. CASE AdoptLoad(e)
  BY <1>8, ConsumeDisk, ProcessKnown DEF AdoptLoad, Kept
<1> QED
  BY <1>1, <1>2, <1>3, <1>4, <1>5, <1>6, <1>7, <1>8 DEF Control

\* No step does.
LEMMA NextDisk ==
    ASSUME Kept, DiskOrigin, HandOrigin, [Next]_vars
    PROVE  DiskOrigin'
<1>1. CASE UNCHANGED vars
  BY <1>1, DiskStays DEF vars, disk
<1>2. ASSUME NEW e \in Engines, Preload(e) \/ Load(e)
      PROVE  DiskOrigin'
  BY <1>2, ConsumeDisk, ProcessKnown DEF Kept, Preload, Load
<1>3. ASSUME NEW e \in Engines,
             \/ Reserve(e) \/ Reclaim(e) \/ GiveUp(e) \/ Build(e) \/ Listen(e) \/ RunDeaf(e)
      PROVE  DiskOrigin'
  BY <1>3, DiskStays DEF Reserve, Reclaim, GiveUp, Build, Listen, RunDeaf,
       disk
<1>4. ASSUME NEW e \in Engines,
             \/ Edit(e) \/ SaveBegin(e) \/ View(e) \/ ReloadBegin(e)
      PROVE  DiskOrigin'
  BY <1>4, DiskStays DEF Edit, SaveBegin, View, ReloadBegin, disk
<1>5. ASSUME NEW e \in Engines, Control(e)
      PROVE  DiskOrigin'
  BY <1>5, ControlDisk
<1>6. ASSUME NEW e \in Engines, Leaving(e)
      PROVE  DiskOrigin'
  <2>1. CASE WriteSidecar(e)
    <3>1. Honest(sidecar')
      BY <2>1 DEF WriteSidecar, HandOrigin, Honest
    <3> QED
      BY <2>1, <3>1 DEF WriteSidecar, DiskOrigin, Honest
  <2>2. CASE HandOver(e) \/ Collect(e) \/ Forget(e) \/ Release(e)
    BY <2>2, DiskStays DEF Kept, TypeInv, HandOver, Collect, Forget, Release,
         disk
  <2> QED
    BY <1>6, <2>1, <2>2 DEF Leaving
<1>7. ASSUME NEW e \in Engines, NEW known \in BOOLEAN,
             AskYield(e, known) \/ Drop(e, known)
      PROVE  DiskOrigin'
  BY <1>7, DiskStays DEF AskYield, Drop, disk
<1>8. CASE EnterStandby \/ Quit \/ Restart \/ Probe \/ Wake \/ Resume \/ StandAgain
             \/ ResumeEarly
  BY <1>8, DiskStays DEF EnterStandby, Quit, Restart, Probe, Wake, Resume,
       StandAgain, ResumeEarly, disk
<1>9. ASSUME NEW q \in Processes, Crash(q)
      PROVE  DiskOrigin'
  BY <1>9, DiskStays DEF Kept, TypeInv, Crash, disk
<1>10. CASE HandEdit
  BY <1>10 DEF Kept, TypeInv, HandEdit, Files, DiskOrigin, Honest
<1>11. CASE Expire
  <2>1. sidecar \in Overlays /\ Honest(sidecar)
    BY <1>11 DEF Expire, Fresh, Kept, TypeInv, DiskOrigin
  <2>2. Honest(sidecar')
    BY <1>11, <2>1, StaysHonest DEF Expire, Honest
  <2> QED
    BY <1>11, <2>2 DEF Expire, DiskOrigin, Honest
<1> QED
  BY <1>1, <1>2, <1>3, <1>4, <1>5, <1>6, <1>7, <1>8, <1>9, <1>10, <1>11
     DEF Next, ComeBack

\* What was read to be adopted or run is told from what the user set.
LEMMA LoadedTold ==
    ASSUME TypeInv, DiskOrigin, NEW p \in Processes, WithLive(p).d
    PROVE  IF Fresh THEN sidecar.fallback
           ELSE IF cache[p] # None THEN cache[p].fallback ELSE file.broken
BY DEF WithLive, Fresh, FileOrDefault, Says, DiskOrigin, Honest

\* No control moves, nor what one in hand was told of.
LEMMA HandStaysTold ==
    ASSUME HandOrigin, op' = op,
           \A f \in Engines :
               /\ op[f].at # "idle" => live'[f] = live[f]
               /\ op[f].at = "adopted" => file' = file \/ file'.broken,
           \A f \in Engines : main'[f] = "write" => main[f] = "write" /\ own'[f].out = own[f].out
    PROVE  HandOrigin'
BY DEF HandOrigin, AdoptionTold, Honest, At, Saving

\* One control moves and no other runs: its own place is what matters.
LEMMA HandMovesTold ==
    ASSUME HandOrigin, NEW e \in Engines, \A f \in Engines \ {e} : op'[f].at = "idle",
           main' = main, own' = own,
           op'[e].at \in Saving => ~live'[e].d,
           op'[e].at = "amendWrite" => Honest(op'[e].out),
           op'[e].at = "adopted" => AdoptionTold(op[e].out)'
    PROVE  HandOrigin'
BY DEF HandOrigin, AdoptionTold, Honest, At, Saving

\* A Save begins on nothing that rests on the defaults.
LEMMA AskedTold ==
    ASSUME Kept, EngineOrigin, HandOrigin, NEW e \in Engines,
           Edit(e) \/ SaveBegin(e) \/ View(e) \/ ReloadBegin(e)
    PROVE  HandOrigin'
<1>1. \A f \in Engines : op[f].at = "idle"
  BY OneAtATime DEF Edit, SaveBegin, View, ReloadBegin, Listening, OpAt, Kept
<1>2. CASE Edit(e)
  BY <1>1, <1>2, HandStaysTold DEF Edit, threads
<1>3. CASE SaveBegin(e)
  <2>1. ~live[e].d
    BY <1>3 DEF SaveBegin, EngineOrigin, Listening, At
  <2>2. op'[e].at = "backup" /\ \A f \in Engines \ {e} : op'[f] = op[f]
    BY <1>3, OpMoved DEF Kept, TypeInv, SaveBegin, OpPlaces
  <2> QED
    BY <1>1, <1>3, <2>1, <2>2, HandMovesTold DEF SaveBegin, engine
<1>4. CASE View(e) \/ ReloadBegin(e)
  <2>1. op'[e].at \in {"view", "reload"} /\ \A f \in Engines \ {e} : op'[f] = op[f]
    BY <1>4, OpMoved DEF Kept, TypeInv, View, ReloadBegin, OpPlaces
  <2> QED
    BY <1>1, <1>4, <2>1, HandMovesTold DEF View, ReloadBegin, Saving
<1> QED
  BY <1>2, <1>3, <1>4

\* What a control goes on with is told from the defaults.
LEMMA ControlTold ==
    ASSUME Kept, DiskOrigin, HandOrigin, NEW e \in Engines, Control(e)
    PROVE  HandOrigin'
<1>1. op[e].at # "idle" /\ main' = main /\ own' = own
  BY DEF Control, BackUp, Copied, Rename, Remove, Clear, MarkClean, ViewWrite,
       AmendCache, AmendRead, AmendWrite, Reread, AdoptLoad, AdoptApply, OpAt
<1>2. \A f \in Engines \ {e} : op[f].at = "idle"
  BY <1>1, OneAtATime DEF HandInv, Kept
<1>3. CASE BackUp(e) \/ Copied(e)
  <2>1. ~live[e].d /\ live' = live
    BY <1>3 DEF BackUp, Copied, OpAt, HandOrigin, Saving, engine
  <2>2. op'[e].at \in {"copy", "rename"} /\ \A f \in Engines \ {e} : op'[f] = op[f]
    BY <1>3, OpMoved DEF Kept, TypeInv, BackUp, Copied, OpPlaces
  <2> QED
    BY <1>1, <1>2, <2>1, <2>2, HandMovesTold
<1>4. CASE Rename(e) \/ Remove(e) \/ Clear(e) \/ ViewWrite(e) \/ AmendCache(e)
  <2>1. /\ op'[e].at \in {"discard", "clear", "reloadClear", "clean", "reread", "amend",
                          "amendDisk"}
        /\ \A f \in Engines \ {e} : op'[f] = op[f]
    BY <1>4, OpMoved DEF Kept, TypeInv, Rename, Remove, Clear, ViewWrite,
         AmendCache, OpPlaces
  <2> QED
    BY <1>1, <1>2, <2>1, HandMovesTold DEF Saving
<1>5. CASE MarkClean(e) \/ AmendWrite(e) \/ Reread(e) \/ AdoptApply(e)
  <2>1. op'[e].at = "idle" /\ \A f \in Engines \ {e} : op'[f] = op[f]
    BY <1>5, OpMoved DEF Kept, TypeInv, MarkClean, AmendWrite, Reread,
         AdoptApply
  <2> QED
    BY <1>1, <1>2, <2>1, HandMovesTold DEF Saving
<1>6. CASE AmendRead(e)
  <2>1. CASE sidecar = None
    <3>1. op'[e].at = "idle" /\ \A f \in Engines \ {e} : op'[f] = op[f]
      BY <1>6, <2>1, OpMoved DEF Kept, TypeInv, AmendRead
    <3> QED
      BY <1>1, <1>2, <3>1, HandMovesTold DEF Saving
  <2>2. CASE sidecar # None
    <3>1. /\ op'[e].at = "amendWrite" /\ op'[e].out = [sidecar EXCEPT !.v = live[e].v]
          /\ \A f \in Engines \ {e} : op'[f] = op[f]
      BY <1>6, <2>2, OpMoved DEF Kept, TypeInv, AmendRead, OpPlaces
    <3>2. Honest([sidecar EXCEPT !.v = live[e].v])
      BY <2>2, StaysHonest DEF Kept, TypeInv, DiskOrigin
    <3>3. Honest(op'[e].out)
      BY <3>1, <3>2
    <3> QED
      BY <1>1, <1>2, <3>1, <3>3, HandMovesTold DEF Saving
  <2> QED
    BY <2>1, <2>2
<1>7. CASE AdoptLoad(e)
  <2>1. e = Cli /\ ProcessOf(e) = "cli" /\ "cli" \in Processes
    BY <1>7 DEF AdoptLoad, OpAt, HandInv, Kept, ProcessOf, Processes
  <2>2. /\ op'[e].at = "adopted" /\ \A f \in Engines \ {e} : op'[f] = op[f]
    BY <1>7, AdoptedInHand DEF Kept
  <2>3. /\ op'[e].out.says = Adoptable("cli")
        /\ op'[e].out.fallback = IF Fresh THEN sidecar.fallback
                                 ELSE cache["cli"] # None /\ cache["cli"].fallback
        /\ file' = file
    BY <1>7, <2>1 DEF AdoptLoad, Kept, TypeInv
  <2>4. AdoptionTold(op[e].out)'
    <3>1. CASE ~Restored("cli") /\ file.broken
      BY <2>3, <3>1 DEF AdoptionTold, Adoptable
    <3>2. CASE Restored("cli") \/ ~file.broken
      <4>1. op'[e].out.says = WithLive("cli")
        BY <2>3, <3>2 DEF Adoptable
      <4>2. WithLive("cli") \in Contents
        BY <2>1, ReadTyped DEF Kept
      <4>3. WithLive("cli") # None
        BY <4>2, NoneAssumption DEF Contents, Kept, TypeInv
      <4>4. WithLive("cli").d => op'[e].out.fallback
        BY <2>1, <2>3, <3>2, LoadedTold DEF Kept, Restored
      <4> QED
        BY <4>1, <4>3, <4>4 DEF AdoptionTold
    <3> QED
      BY <3>1, <3>2
  <2> QED
    BY <1>1, <1>2, <2>2, <2>4, HandMovesTold DEF Saving
<1> QED
  BY <1>3, <1>4, <1>5, <1>6, <1>7 DEF Control

\* What is collected to be handed over says where it comes from.
LEMMA LeaveTold ==
    ASSUME Kept, EngineOrigin, HandOrigin, NEW e \in Engines, Leaving(e)
    PROVE  HandOrigin'
<1>1. op' = op /\ file' = file
  BY DEF Leaving, HandOver, Collect, WriteSidecar, Forget, Release, disk
<1>2. CASE Collect(e)
  <2>1. own'[e].out.d = live[e].d /\ own'[e].out.fallback = (status[e] = "parse_error")
    BY <1>2 DEF Kept, TypeInv, Owns, Collect
  <2>2. Honest(own'[e].out)
    BY <1>2, <2>1 DEF Collect, EngineOrigin, At, Honest
  <2>3. /\ live' = live
        /\ \A f \in Engines \ {e} : main'[f] = main[f] /\ own'[f] = own[f]
    BY <1>2 DEF Kept, TypeInv, Collect, Goto, engine
  <2>4. \A f \in Engines : main'[f] = "write" => Honest(own'[f].out)
    BY <2>2, <2>3 DEF HandOrigin, At
  <2> QED
    BY <1>1, <2>3, <2>4 DEF HandOrigin, AdoptionTold, Honest, At
<1>3. CASE Release(e)
  <2>1. /\ op[e].at = "idle" /\ main'[e] # "write"
        /\ \A f \in Engines \ {e} :
             live'[f] = live[f] /\ main'[f] = main[f] /\ own'[f] = own[f]
    BY <1>3 DEF Release, Gone, engine, OpAt, Kept, TypeInv, Goto
  <2> QED
    BY <1>1, <2>1, HandStaysTold
<1>4. CASE HandOver(e) \/ WriteSidecar(e) \/ Forget(e)
  <2>1. /\ own' = own /\ live' = live
        /\ \A f \in Engines : main'[f] = "write" => main[f] = "write"
    BY <1>4 DEF HandOver, WriteSidecar, Forget, engine, Kept, TypeInv, Goto
  <2> QED
    BY <1>1, <2>1, HandStaysTold
<1> QED
  BY <1>2, <1>3, <1>4 DEF Leaving

\* Every step keeps it.
LEMMA NextTold ==
    ASSUME Kept, Ordered, DiskOrigin, EngineOrigin, HandOrigin, [Next]_vars
    PROVE  HandOrigin'
<1>1. CASE UNCHANGED vars
  BY <1>1, HandStaysTold DEF vars, threads, disk, engine
<1>2. ASSUME NEW e \in Engines,
             \/ Preload(e) \/ Reserve(e) \/ Reclaim(e) \/ GiveUp(e) \/ Load(e)
             \/ Build(e) \/ Listen(e) \/ RunDeaf(e)
      PROVE  HandOrigin'
  <2>1. op' = op /\ file' = file
    BY <1>2 DEF Preload, Reserve, Reclaim, GiveUp, Load, Build, Listen,
         RunDeaf, threads, disk
  <2>2. op[e].at = "idle" /\ main'[e] # "write"
    BY <1>2 DEF Preload, Reserve, Reclaim, GiveUp, Load, Build, Listen,
         RunDeaf, MayStart, At, Goto, HandInv, Held, Kept, TypeInv
  <2>3. \A f \in Engines \ {e} :
           live'[f] = live[f] /\ main'[f] = main[f] /\ own'[f] = own[f]
    BY <1>2 DEF Preload, Reserve, Reclaim, GiveUp, Load, Build, Listen,
         RunDeaf, Goto, engine, Kept, TypeInv
  <2> QED
    BY <2>1, <2>2, <2>3, HandStaysTold
<1>3. ASSUME NEW e \in Engines, NEW known \in BOOLEAN,
             AskYield(e, known) \/ Drop(e, known)
      PROVE  HandOrigin'
  <2>1. op' = op /\ file' = file /\ live' = live
    BY <1>3 DEF AskYield, Drop, threads, disk, engine
  <2>2. \A f \in Engines : main'[f] = "write" => main[f] = "write" /\ own'[f].out = own[f].out
    BY <1>3 DEF AskYield, Drop, Leave, threads, At, Kept, TypeInv, Owns
  <2> QED
    BY <2>1, <2>2, HandStaysTold
<1>4. CASE EnterStandby \/ Quit \/ Restart \/ Probe \/ Wake \/ StandAgain \/ ResumeEarly
  <2>1. op' = op /\ file' = file /\ live' = live
    BY <1>4 DEF EnterStandby, Quit, Restart, Probe, Wake, StandAgain,
         ResumeEarly, threads, disk, engine
  <2>2. \A f \in Engines : main'[f] = "write" => main[f] = "write" /\ own'[f].out = own[f].out
    BY <1>4, Names DEF EnterStandby, Quit, Restart, Probe, Wake, StandAgain,
         ResumeEarly, Leave, Goto, threads, At, Kept, TypeInv, Owns
  <2> QED
    BY <2>1, <2>2, HandStaysTold
<1>5. CASE Resume
  <2>1. \A f \in Engines : op[f].at = "idle"
    BY <1>5, EnginesAssumption DEF Resume, HandInv, Kept
  <2>2. /\ op'[Cli].at = "adopt" /\ \A f \in Engines \ {Cli} : op'[f] = op[f]
        /\ own' = own
        /\ \A f \in Engines : main'[f] = "write" => main[f] = "write"
    BY <1>5, Names, OpMoved DEF Resume, Goto, Kept, TypeInv, OpPlaces
  <2> QED
    BY <2>1, <2>2 DEF HandOrigin, Honest, At, Saving
<1>6. ASSUME NEW q \in Processes, Crash(q)
      PROVE  HandOrigin'
  <2>1. \A f \in Engines :
          \/ op'[f] = NoOp /\ main'[f] = "off"
          \/ /\ op'[f] = op[f] /\ live'[f] = live[f] /\ main'[f] = main[f]
             /\ own'[f] = own[f]
    BY <1>6 DEF Crash, Gone
  <2>2. file' = file
    BY <1>6 DEF Crash, disk
  <2> QED
    BY <2>1, <2>2 DEF HandOrigin, AdoptionTold, NoOp, Saving, Honest, At
<1>7. CASE HandEdit \/ Expire
  <2>1. op' = op /\ main' = main /\ own' = own /\ live' = live
    BY <1>7 DEF HandEdit, Expire, threads, engine
  <2>2. \A f \in Engines : op[f].at = "adopted" => file' = file \/ file'.broken
    BY <1>7 DEF HandEdit, Expire, OpAt, Ordered, Allowed, Kept, TypeInv, Files
  <2> QED
    BY <2>1, <2>2, HandStaysTold
<1> QED
  BY <1>1, <1>2, <1>3, <1>4, <1>5, <1>6, <1>7, AskedTold, ControlTold,
     LeaveTold DEF Next, ComeBack

\* What an engine that loads its settings will be told of them stays while it
\* is built: the file does not parse until then, and nobody else has its
\* process's overlay.
LEMMA BrokenStays ==
    ASSUME Kept, Ordered, [Next]_vars, NEW e \in Engines, At(e, "loaded"), file.broken
    PROVE  file'.broken
<1>1. CASE file' = file
  BY <1>1
<1>2. ASSUME NEW f \in Engines, Control(f)
      PROVE  file'.broken
  <2>1. CASE Rename(f)
    BY <2>1 DEF Rename, OpAt, Kept, WriterInv, Saving
  <2>2. CASE ViewWrite(f)
    BY <2>2 DEF ViewWrite, OpAt, Kept, WriterInv
  <2>3. CASE file' = file
    BY <2>3
  <2> QED
    BY <1>2, <2>1, <2>2, <2>3 DEF Control, BackUp, Copied, Remove, Clear,
         MarkClean, AmendCache, AmendRead, AmendWrite, Reread, AdoptLoad,
         AdoptApply, disk
<1>3. CASE HandEdit
  BY <1>3 DEF HandEdit, Ordered, Allowed
<1>4. ASSUME NEW f \in Engines,
             \/ Preload(f) \/ Reserve(f) \/ Reclaim(f) \/ GiveUp(f) \/ Load(f)
             \/ Build(f) \/ Listen(f) \/ RunDeaf(f)
             \/ Edit(f) \/ SaveBegin(f) \/ View(f) \/ ReloadBegin(f) \/ Leaving(f)
      PROVE  file' = file
  BY <1>4 DEF Preload, Reserve, Reclaim, GiveUp, Load, Build, Listen, RunDeaf,
       Edit, SaveBegin, View, ReloadBegin, Leaving, HandOver, Collect,
       WriteSidecar, Forget, Release, disk
<1>5. ASSUME NEW f \in Engines, NEW known \in BOOLEAN,
             AskYield(f, known) \/ Drop(f, known)
      PROVE  file' = file
  BY <1>5 DEF AskYield, Drop, disk
<1>6. CASE \/ EnterStandby \/ Quit \/ Restart \/ ComeBack \/ ResumeEarly \/ Expire
           \/ (\E q \in Processes : Crash(q)) \/ UNCHANGED vars
  <2>1. file' = file
    BY <1>6 DEF EnterStandby, Quit, Restart, ComeBack, Probe, Wake, Resume,
         StandAgain, ResumeEarly, Expire, Crash, vars, disk
  <2> QED
    BY <2>1
<1> QED
  BY <1>1, <1>2, <1>3, <1>4, <1>5, <1>6 DEF Next

\* Nobody but its own engine changes the overlay of a process.
LEMMA OverlayStays ==
    ASSUME Kept, Ordered, OneEach, [Next]_vars,
           NEW e \in Engines, At(e, "loaded"), At(e, "loaded")'
    PROVE  cache'[ProcessOf(e)] = cache[ProcessOf(e)]
<1>1. \A f \in Engines : f # e /\ (f \in {Cli, First} \/ ~At(f, "off")) =>
                           ProcessOf(f) # ProcessOf(e)
  BY Apart DEF At
<1>2. \A f \in Engines : op[f].at # "idle" => f # e /\ ~At(f, "off")
  BY DEF Kept, HandInv, Held, At
<1>3. ASSUME NEW f \in Engines, Preload(f) \/ Load(f)
      PROVE  cache'[ProcessOf(e)] = cache[ProcessOf(e)]
  <2>1. f # e /\ ProcessOf(f) # ProcessOf(e)
    BY <1>1, <1>3, StartsAlone DEF Preload, Load, MayStart, At, Ordered, Allowed
  <2>2. \A q \in Processes \ {ProcessOf(f)} : cache'[q] = cache[q]
    BY <1>3 DEF Preload, Load, Consume, Kept, TypeInv
  <2> QED
    BY <2>1, <2>2, ProcessKnown
<1>4. ASSUME NEW f \in Engines, Control(f)
      PROVE  cache'[ProcessOf(e)] = cache[ProcessOf(e)]
  <2>1. ProcessOf(f) # ProcessOf(e)
    BY <1>1, <1>2, <1>4 DEF Control, BackUp, Copied, Rename, Remove, Clear,
         MarkClean, ViewWrite, AmendCache, AmendRead, AmendWrite, Reread,
         AdoptLoad, AdoptApply, OpAt
  <2>2. \A q \in Processes \ {ProcessOf(f)} : cache'[q] = cache[q]
    BY <1>4 DEF Control, BackUp, Copied, Rename, Remove, Clear, MarkClean,
         ViewWrite, AmendCache, AmendRead, AmendWrite, Reread, AdoptLoad,
         AdoptApply, Consume, Kept, TypeInv, disk
  <2> QED
    BY <2>1, <2>2, ProcessKnown
<1>5. ASSUME NEW f \in Engines, Leaving(f)
      PROVE  cache'[ProcessOf(e)] = cache[ProcessOf(e)]
  <2>1. ProcessOf(f) # ProcessOf(e)
    BY <1>1, <1>5 DEF Leaving, HandOver, Collect, WriteSidecar, Forget,
         Release, At
  <2>2. f = Cli => ProcessOf(f) = "cli"
    BY DEF ProcessOf
  <2>3. \A q \in Processes \ {ProcessOf(f)} : cache'[q] = cache[q]
    BY <1>5, <2>2 DEF Leaving, HandOver, Collect, WriteSidecar, Forget,
         Release, Kept, TypeInv
  <2> QED
    BY <2>1, <2>3, ProcessKnown
<1>6. ASSUME NEW q \in Processes, Crash(q)
      PROVE  cache'[ProcessOf(e)] = cache[ProcessOf(e)]
  <2>1. q # ProcessOf(e)
    BY <1>6 DEF Crash, At
  <2> QED
    BY <1>6, <2>1, ProcessKnown DEF Crash, Kept, TypeInv
<1>7. ASSUME NEW f \in Engines,
             \/ Reserve(f) \/ Reclaim(f) \/ GiveUp(f) \/ Build(f) \/ Listen(f) \/ RunDeaf(f)
             \/ Edit(f) \/ SaveBegin(f) \/ View(f) \/ ReloadBegin(f)
      PROVE  cache' = cache
  BY <1>7 DEF Reserve, Reclaim, GiveUp, Build, Listen, RunDeaf, Edit,
       SaveBegin, View, ReloadBegin
<1>8. ASSUME NEW f \in Engines, NEW known \in BOOLEAN,
             AskYield(f, known) \/ Drop(f, known)
      PROVE  cache' = cache
  BY <1>8 DEF AskYield, Drop
<1>9. CASE \/ EnterStandby \/ Quit \/ Restart \/ ComeBack \/ ResumeEarly \/ Expire
           \/ HandEdit \/ UNCHANGED vars
  <2>1. cache' = cache
    BY <1>9 DEF EnterStandby, Quit, Restart, ComeBack, Probe, Wake, Resume,
         StandAgain, ResumeEarly, Expire, HandEdit, vars
  <2> QED
    BY <2>1
<1> QED
  BY <1>3, <1>4, <1>5, <1>6, <1>7, <1>8, <1>9 DEF Next

\* So what an engine will be told of its settings stays while it loads.
LEMMA StatusStays ==
    ASSUME Kept, Ordered, OneEach, [Next]_vars,
           NEW e \in Engines, At(e, "loaded"), At(e, "loaded")',
           BootStatus(ProcessOf(e)) = "parse_error"
    PROVE  BootStatus(ProcessOf(e))' = "parse_error"
<1>1. cache'[ProcessOf(e)] = cache[ProcessOf(e)] /\ (file.broken => file'.broken)
  BY OverlayStays, BrokenStays
<1> QED
  BY <1>1 DEF BootStatus, FileStatus

\* Engines that load nothing, are told nothing and run what they did, or nothing
\* that rests on the defaults, keep what they are told.
LEMMA EngineStays ==
    ASSUME Kept, Ordered, OneEach, EngineOrigin, [Next]_vars,
           \A e \in Engines :
             \/ live'[e].d = FALSE
             \/ /\ live'[e].d = live[e].d /\ status'[e] = status[e]
                /\ At(e, "loaded")' = At(e, "loaded")
             \/ ~At(e, "loaded")' /\ status'[e] = "parse_error"
             \/ At(e, "loaded")' /\ BootStatus(ProcessOf(e))' = "parse_error"
    PROVE  EngineOrigin'
<1>1. ASSUME NEW e \in Engines, live'[e].d
      PROVE  IF At(e, "loaded")' THEN BootStatus(ProcessOf(e))' = "parse_error"
             ELSE status'[e] = "parse_error"
  <2>1. CASE ~At(e, "loaded")' /\ status'[e] = "parse_error"
    BY <2>1
  <2>2. CASE /\ live'[e].d = live[e].d /\ status'[e] = status[e]
             /\ At(e, "loaded")' = At(e, "loaded")
    <3>1. CASE At(e, "loaded")
      BY <1>1, <2>2, <3>1, StatusStays DEF EngineOrigin
    <3>2. CASE ~At(e, "loaded")
      BY <1>1, <2>2, <3>2 DEF EngineOrigin
    <3> QED
      BY <3>1, <3>2
  <2> QED
    BY <1>1, <2>1, <2>2
<1> QED
  BY <1>1 DEF EngineOrigin

\* What is loaded is told by the overlay it leaves, or by the file.
LEMMA LoadTold ==
    ASSUME TypeInv, DiskOrigin, NEW p \in Processes, Consume(p), file' = file,
           WithLive(p).d
    PROVE  BootStatus(p)' = "parse_error"
<1>1. cache'[p] = IF Fresh THEN sidecar ELSE cache[p]
  BY DEF TypeInv, Consume
<1>2. CASE Fresh
  BY <1>1, <1>2, LoadedTold DEF BootStatus, Fresh
<1>3. CASE ~Fresh
  BY <1>1, <1>3, LoadedTold DEF BootStatus, FileStatus
<1> QED
  BY <1>2, <1>3

\* An engine that starts is told of the defaults it loaded.
LEMMA StartEngine ==
    ASSUME Kept, Ordered, OneEach, DiskOrigin, EngineOrigin, [Next]_vars, NEW e \in Engines,
           \/ Preload(e) \/ Reserve(e) \/ Reclaim(e) \/ GiveUp(e) \/ Load(e)
           \/ Build(e) \/ Listen(e) \/ RunDeaf(e)
    PROVE  EngineOrigin'
<1>1. CASE Load(e)
  <2>1. /\ live'[e].d = WithLive(ProcessOf(e)).d /\ main'[e] = "loaded" /\ file' = file
        /\ Consume(ProcessOf(e)) /\ ProcessOf(e) \in Processes
        /\ \A f \in Engines \ {e} :
             live'[f] = live[f] /\ status'[f] = status[f] /\ main'[f] = main[f]
    BY <1>1, ProcessKnown DEF Load, Goto, Kept, TypeInv
  <2>2. live'[e].d => BootStatus(ProcessOf(e))' = "parse_error"
    BY <2>1, LoadTold DEF Kept
  <2>3. live'[e].d \in BOOLEAN
    BY <2>1, ReadTyped DEF Kept, Contents
  <2> QED
    BY <2>1, <2>2, <2>3, EngineStays DEF At
<1>2. CASE Build(e)
  <2>1. /\ live' = live /\ At(e, "loaded") /\ main'[e] = "built"
        /\ status'[e] = BootStatus(ProcessOf(e))
        /\ \A f \in Engines \ {e} : status'[f] = status[f] /\ main'[f] = main[f]
    BY <1>2 DEF Build, Goto, Kept, TypeInv
  <2>2. live[e].d => status'[e] = "parse_error"
    BY <2>1 DEF EngineOrigin
  <2>3. live[e].d \in BOOLEAN
    BY DEF Kept, TypeInv, Contents
  <2> QED
    BY <2>1, <2>2, <2>3, EngineStays DEF At
<1>3. CASE \/ Preload(e) \/ Reserve(e) \/ Reclaim(e) \/ GiveUp(e) \/ Listen(e) \/ RunDeaf(e)
  <2>1. /\ live' = live /\ status' = status /\ main[e] # "loaded" /\ main'[e] # "loaded"
        /\ \A f \in Engines \ {e} : main'[f] = main[f]
    BY <1>3 DEF Preload, Reserve, Reclaim, GiveUp, Listen, RunDeaf, MayStart,
         Goto, At, engine, Kept, TypeInv
  <2> QED
    BY <2>1, EngineStays DEF At
<1> QED
  BY <1>1, <1>2, <1>3

\* So is one that reads the file again, or adopts what it finds.
LEMMA ControlEngine ==
    ASSUME Kept, Ordered, OneEach, DiskOrigin, EngineOrigin, HandOrigin, [Next]_vars,
           NEW e \in Engines, Control(e)
    PROVE  EngineOrigin'
<1>1. main' = main /\ ~At(e, "loaded")
  BY DEF Control, BackUp, Copied, Rename, Remove, Clear, MarkClean, ViewWrite,
       AmendCache, AmendRead, AmendWrite, Reread, AdoptLoad, AdoptApply, OpAt,
       Kept, HandInv, Held, At
<1>2. CASE Reread(e)
  <2>1. /\ status'[e] = FileStatus
        /\ \A f \in Engines \ {e} : live'[f] = live[f] /\ status'[f] = status[f]
    BY <1>2 DEF Reread, Switch, Kept, TypeInv
  <2>2. CASE file.broken
    <3>1. live' = live /\ status'[e] = "parse_error"
      BY <1>2, <2>1, <2>2 DEF Reread, Switch, FileStatus
    <3> QED
      BY <1>1, <2>1, <3>1, EngineStays DEF At, Kept, TypeInv, Contents
  <2>3. CASE ~file.broken
    <3>1. Says(file) \in Contents
      BY Contained DEF Kept, TypeInv, Typed
    <3>2. live'[e] = Says(file)
      BY <1>2, <2>3, <3>1, NoneAssumption DEF Reread, Switch, Contents, Kept, TypeInv
    <3>3. live'[e].d = FALSE
      BY <3>2 DEF Says, DiskOrigin, Kept, TypeInv, Files
    <3> QED
      BY <1>1, <2>1, <3>3, EngineStays DEF At
  <2> QED
    BY <2>2, <2>3
<1>3. CASE AdoptApply(e)
  <2>1. /\ live'[e] = IF op[e].out.says = None THEN live[e] ELSE op[e].out.says
        /\ status'[e] = IF op[e].out.fallback THEN "parse_error" ELSE FileStatus
        /\ \A f \in Engines \ {e} : live'[f] = live[f] /\ status'[f] = status[f]
    BY <1>3 DEF AdoptApply, Switch, Kept, TypeInv
  <2>2. AdoptionTold(op[e].out)
    BY <1>3 DEF AdoptApply, OpAt, HandOrigin
  <2>3. live'[e].d => status'[e] = "parse_error"
    BY <2>1, <2>2 DEF AdoptionTold, FileStatus
  <2>4. live'[e].d \in BOOLEAN
    BY <1>3, <2>1 DEF AdoptApply, OpAt, Kept, TypeInv, HandInv, Adopted, Contents
  <2> QED
    BY <1>1, <2>1, <2>3, <2>4, EngineStays DEF At
<1>4. CASE \/ BackUp(e) \/ Copied(e) \/ Rename(e) \/ Remove(e) \/ Clear(e) \/ MarkClean(e)
           \/ ViewWrite(e) \/ AmendCache(e) \/ AmendRead(e) \/ AmendWrite(e) \/ AdoptLoad(e)
  <2>1. live' = live /\ status' = status
    BY <1>4 DEF BackUp, Copied, Rename, Remove, Clear, MarkClean, ViewWrite,
         AmendCache, AmendRead, AmendWrite, AdoptLoad, engine
  <2> QED
    BY <1>1, <2>1, EngineStays DEF At
<1> QED
  BY <1>2, <1>3, <1>4 DEF Control

\* Every step leaves every engine told.
LEMMA NextEngine ==
    ASSUME Kept, Ordered, OneEach, DiskOrigin, EngineOrigin, HandOrigin, [Next]_vars
    PROVE  EngineOrigin'
<1>1. ASSUME NEW e \in Engines, Edit(e) \/ SaveBegin(e) \/ View(e) \/ ReloadBegin(e)
      PROVE  EngineOrigin'
  <2>1. main' = main /\ status' = status
    BY <1>1 DEF Edit, SaveBegin, View, ReloadBegin, threads, engine
  <2>2. \A f \in Engines : live'[f].d = live[f].d
    <3>1. live \in [Engines -> Contents]
      BY DEF Kept, TypeInv
    <3>2. CASE Edit(e)
      BY <3>1, <3>2 DEF Edit, Contents
    <3>3. CASE View(e)
      BY <3>1, <3>3 DEF View, Contents
    <3>4. CASE SaveBegin(e) \/ ReloadBegin(e)
      BY <3>4 DEF SaveBegin, ReloadBegin, engine
    <3> QED
      BY <1>1, <3>2, <3>3, <3>4
  <2> QED
    BY <2>1, <2>2, EngineStays DEF At
<1>2. ASSUME NEW e \in Engines, Leaving(e)
      PROVE  EngineOrigin'
  <2>1. /\ main[e] # "loaded" /\ main'[e] # "loaded"
        /\ \A f \in Engines \ {e} : main'[f] = main[f]
    BY <1>2 DEF Leaving, HandOver, Collect, WriteSidecar, Forget, Release,
         Goto, At, Kept, TypeInv
  <2>2. \A f \in Engines :
           live'[f].d = FALSE \/ (live'[f] = live[f] /\ status'[f] = status[f])
    BY <1>2 DEF Leaving, HandOver, Collect, WriteSidecar, Forget, Release,
         Gone, Empty, engine
  <2> QED
    BY <2>1, <2>2, EngineStays DEF At
<1>3. ASSUME NEW q \in Processes, Crash(q)
      PROVE  EngineOrigin'
  <2>1. \A f \in Engines :
          \/ live'[f].d = FALSE
          \/ live'[f] = live[f] /\ status'[f] = status[f] /\ main'[f] = main[f]
    BY <1>3 DEF Crash, Gone, Empty
  <2> QED
    BY <2>1, EngineStays DEF At
<1>4. ASSUME NEW e \in Engines, NEW known \in BOOLEAN,
             AskYield(e, known) \/ Drop(e, known)
      PROVE  EngineOrigin'
  <2>1. live' = live /\ status' = status
    BY <1>4 DEF AskYield, Drop, engine
  <2>2. \A f \in Engines : (main'[f] = "loaded") = (main[f] = "loaded")
    BY <1>4 DEF AskYield, Drop, Leave, threads, At, Kept, TypeInv
  <2> QED
    BY <2>1, <2>2, EngineStays DEF At
<1>5. CASE \/ EnterStandby \/ Quit \/ Restart \/ ComeBack \/ ResumeEarly \/ Expire
           \/ HandEdit \/ UNCHANGED vars
  <2>1. live' = live /\ status' = status
    BY <1>5 DEF EnterStandby, Quit, Restart, ComeBack, Probe, Wake, Resume,
         StandAgain, ResumeEarly, Expire, HandEdit, vars, engine
  <2>2. \A f \in Engines : (main'[f] = "loaded") = (main[f] = "loaded")
    BY <1>5, Names DEF EnterStandby, Quit, Restart, ComeBack, Probe, Wake,
         Resume, StandAgain, ResumeEarly, Expire, HandEdit, vars, Leave, Goto,
         threads, At, Kept, TypeInv
  <2> QED
    BY <2>1, <2>2, EngineStays DEF At
<1> QED
  BY <1>1, <1>2, <1>3, <1>4, <1>5, StartEngine, ControlEngine DEF Next

\* Nothing rests on the defaults at the start.
LEMMA InitOrigin == Init => OriginInv
<1> SUFFICES ASSUME Init
             PROVE  OriginInv
  OBVIOUS
<1>1. DiskOrigin /\ OneEach
  BY DEF Init, DiskOrigin, OneEach, At
<1>2. EngineOrigin
  BY DEF Init, EngineOrigin, Empty
<1>3. HandOrigin
  <2>1. \A e \in Engines : op[e].at = "idle" /\ main[e] = "off"
    BY DEF Init, NoOp
  <2> QED
    BY <2>1 DEF HandOrigin, Saving, At
<1> QED
  BY <1>1, <1>2, <1>3 DEF OriginInv

\* No step hides where the defaults are.
LEMMA NextOrigin ==
    Kept /\ (Ordered => OriginInv) /\ [Next]_vars => (Ordered' => OriginInv')
<1> SUFFICES ASSUME Kept, Ordered => OriginInv, [Next]_vars, Ordered'
             PROVE  OriginInv'
  OBVIOUS
<1>1. Ordered
  BY AllowKept DEF Kept, Ordered
<1>2. DiskOrigin /\ OneEach /\ EngineOrigin /\ HandOrigin
  BY <1>1 DEF OriginInv
<1> QED
  BY <1>1, <1>2, NextDisk, OneEachKept, NextEngine, NextTold DEF OriginInv, Ordered,
       Allowed

-----------------------------------------------------------------------------
(* The theorems. *)

\* The inductive invariant holds throughout.
THEOREM Invariance == Spec => []IInv
<1>1. Init => IInv
  BY InitTyped, InitHand, InitWriter, InitOrigin DEF IInv
<1>2. IInv /\ [Next]_vars => IInv'
  BY NextTyped, NextHand, NextWriter, NextOrigin DEF IInv, Kept
<1> QED
  BY <1>1, <1>2, PTL DEF Spec

\* The types of files, overlays and engines: nothing says what no edit made, and
\* who runs a control holds the port.
THEOREM TypeCorrect == Spec => []TypeOK
<1>1. IInv => TypeOK
  BY Contained DEF IInv, TypeInv, HandInv, TypeOK, Typed, Files, Places, Owns
<1> QED
  BY <1>1, Invariance, PTL

\* What an engine runs because the file did not parse is never saved over it,
\* whatever order instances start, stand by, crash, hand over and save in, but for
\* a file repaired between two readings that belong together and for a player with
\* two engines.
THEOREM DefaultsStayUnsaved == Spec => []DefaultsNeverSaved
<1>1. IInv => DefaultsNeverSaved
  BY DEF IInv, Ordered, OriginInv, DiskOrigin, DefaultsNeverSaved,
       DefaultsUnsaved
<1> QED
  BY <1>1, Invariance, PTL

\* Only the end of a Save gives the file another render state, and only its
\* beginning moves the backup.
LEMMA FileMoves ==
    ASSUME Kept, [Next]_vars
    PROVE  /\ file'.r # file.r => \E e \in Engines : Rename(e)
           /\ bak' # bak => \E e \in Engines : BackUp(e) \/ Copied(e)
<1>1. CASE file'.r = file.r /\ bak' = bak
  BY <1>1
<1>2. ASSUME NEW e \in Engines, Control(e)
      PROVE  /\ file'.r # file.r => Rename(e)
             /\ bak' # bak => BackUp(e) \/ Copied(e)
  <2>1. ViewWrite(e) => file'.r = file.r
    BY DEF ViewWrite, OpAt, Kept, WriterInv
  <2> QED
    BY <1>2, <2>1 DEF Control, BackUp, Copied, Rename, Remove, Clear,
         MarkClean, ViewWrite, AmendCache, AmendRead, AmendWrite, Reread,
         AdoptLoad, AdoptApply, disk
<1>3. ASSUME NEW e \in Engines,
             \/ Preload(e) \/ Reserve(e) \/ Reclaim(e) \/ GiveUp(e) \/ Load(e)
             \/ Build(e) \/ Listen(e) \/ RunDeaf(e)
             \/ Edit(e) \/ SaveBegin(e) \/ View(e) \/ ReloadBegin(e) \/ Leaving(e)
      PROVE  file' = file /\ bak' = bak
  BY <1>3 DEF Preload, Reserve, Reclaim, GiveUp, Load, Build, Listen, RunDeaf,
       Edit, SaveBegin, View, ReloadBegin, Leaving, HandOver, Collect,
       WriteSidecar, Forget, Release, disk
<1>4. ASSUME NEW e \in Engines, NEW known \in BOOLEAN,
             AskYield(e, known) \/ Drop(e, known)
      PROVE  file' = file /\ bak' = bak
  BY <1>4 DEF AskYield, Drop, disk
<1>5. CASE \/ EnterStandby \/ Quit \/ Restart \/ ComeBack \/ ResumeEarly \/ Expire
           \/ (\E q \in Processes : Crash(q)) \/ HandEdit \/ UNCHANGED vars
  <2>1. file'.r = file.r /\ bak' = bak
    BY <1>5 DEF EnterStandby, Quit, Restart, ComeBack, Probe, Wake, Resume,
         StandAgain, ResumeEarly, Expire, HandEdit, Crash, vars, disk, Kept,
         TypeInv, Files
  <2> QED
    BY <2>1
<1> QED
  BY <1>2, <1>3, <1>4, <1>5 DEF Next

\* When a Save replaces the file its backup is whole and is what was replaced.
THEOREM BackupIsWhole == Spec => BackupIsPrevious
<1>1. IInv /\ [Next]_vars =>
        [/\ file'.r # file.r => bak' = Says(file)
         /\ bak' # bak => bak' = Torn \/ bak' = Says(file')]_vars
  <2> SUFFICES ASSUME IInv, [Next]_vars
               PROVE  /\ file'.r # file.r => bak' = Says(file)
                      /\ bak' # bak => bak' = Torn \/ bak' = Says(file')
    OBVIOUS
  <2>1. ASSUME NEW e \in Engines, Rename(e)
        PROVE  bak' = Says(file)
    BY <2>1 DEF IInv, WriterInv, Rename, OpAt
  <2>2. ASSUME NEW e \in Engines, BackUp(e) \/ Copied(e)
        PROVE  bak' = Torn \/ bak' = Says(file')
    BY <2>2 DEF BackUp, Copied, Says
  <2> QED
    BY <2>1, <2>2, FileMoves DEF IInv, Kept
<1> QED
  BY <1>1, Invariance, PTL DEF Spec, BackupIsPrevious

\* The render state of the file changes only to what the engine that saves it
\* runs at that moment.
THEOREM SavesWhatRuns == Spec => OnlySavesWriteRender
<1>1. IInv /\ [Next]_vars =>
        [file'.r # file.r =>
            \E e \in Engines : OpAt(e, "rename") /\ file'.r = live[e].r]_vars
  <2>1. ASSUME IInv, NEW e \in Engines, Rename(e)
        PROVE  OpAt(e, "rename") /\ file'.r = live[e].r
    BY <2>1 DEF IInv, WriterInv, Rename, OpAt, Saving
  <2> QED
    BY <2>1, FileMoves DEF IInv, Kept
<1> QED
  BY <1>1, Invariance, PTL DEF Spec, OnlySavesWriteRender
=============================================================================
