# Omniphony renderer: TLA+ models, checks and proofs

Omniphony renders object audio to loudspeakers or headphones in real time. A
source (a pipe, a file, or a sink of its own) is read by one thread, decoded
and rendered by another, played by an audio callback, and steered over OSC by
clients such as Studio. What can go wrong lies between those threads: most of
the code is sample arithmetic that a test can pin down, and a small part is
flags, queues, counters, locks, files and messages whose bugs need an
interleaving nobody scheduled. This directory models that part.

Paths below are relative to `src/omniphony-renderer/` unless they start with
`src/`.

## 1. Inventory

| Component | State | Operations | Works with | Hard behaviour |
|---|---|---|---|---|
| Frame ring, `audio_rt/src/ring.rs` | slots, `written`, `read` | `push`, `read_exact`, `read_up_to`, `discard`, `free`, `available` | audio callbacks, own sink, device output | lock-free; each end sees the other's counter late; slots are reused |
| Pipe and file capture, `src/cli/sync_host/reader.rs` | bounded channel, `stop`, `paced`, `queued`, counters of what was read and dropped | read loop; `recv_timeout`, `discard_pending`, `set_paced`, `drop` | run loop of the sync host | a count kept beside the channel, a pacing that changes while a chunk is on its way, a join on a thread that may block |
| Topology rebuild, `orender_engine/src/osc/recompute.rs`; grid requests, `renderer/src/evaluation_grid.rs` | `recomputing`, `recompute_pending`, `GridRequests` (generation, pair, hint), the topology in force | `request_grid`, `start_recompute` and its worker, `request_live_grid`, `record_live_grid`, `take_bridge_grid`, `publish_topology_if_current`, `grid_rebuild_failed` | OSC listener, recompute threads, speaker stage, layout follower | builds of seconds that overlap with requests; flags that are read and stored, not claimed |
| Layout follower, `renderer/src/spatial_renderer/layout_follower.rs` | a channel of one place, `last_seen` | `poll`, `follow` | render thread, grid requests, `recomputing` | decides first and reads what is wanted later; its build is not guarded against a panic |
| Renderer control, `renderer/src/live_params.rs` | live parameters, editable layout, `geometry_generation`, `render_layout_key` | setters, `prepare_topology_rebuild` | all of the above | several locks, read one after the other |
| Sync host run loop, `src/cli/sync_host/mod.rs` | epoch (stream or idle), settings, source, capture, output watch, `pending` audio | one turn of the loop; open and close an epoch, standby, input apply, lost output | capture, engine, telemetry, the flags of `sys` | requests in any order between two turns; reuse of a running capture; an output lost while a paced source waits for it |
| Own sink, `src/cli/sync_host/own_sink.rs` | a ring per stream, its format | PipeWire callback, host read | frame ring, run loop | format change under a running callback |
| OSC publication, `orender_engine/src/osc.rs`, `osc/{client_registry,transport,export,telemetry}.rs` | state count, publication lock, clients, `live_state_generation`, the events posted to the telemetry thread | `register`, `heartbeat`, `refresh`, every publisher, time-outs | Studio, recompute threads, render thread | lossy, reordered datagrams; state captured on one thread and sent after another's; an acknowledgement that runs ahead |
| Stream transport, `orender_engine/src/osc/{peer,inbound}.rs` | a bounded queue per client, the channel to the listener | `accept`, `read`, `push`, writer, stop and join | listener, Studio | a client slower than the publishers; joins on threads that may block |
| Studio's link, `src/omniphony-studio-egui/core/src/osc/{mod,link,state_sync}.rs` | the count held, parts of a snapshot, heartbeat, back-off, the stream | register, heartbeat, refresh, upgrade, fall back | engine | counts itself current or not; comes back to a stream |
| Live log, `live_log/src/lib.rs` | ring of records, next number | `push_record`, `records_since` | every thread, telemetry | numbers drawn outside the lock |
| Process flags, `sys/src/shutdown.rs`, `sys/src/windows.rs` | stop, restart, standby, resume | request, install and take | signal handlers, OSC, run loop | a request lost between two takes |
| Settings and their hand-over, `renderer/src/config.rs`, `runtime_control/src/persist.rs`, `orender_engine/src/osc.rs` | `config.yaml`, its backup, the live sidecar, each process's overlay of it, the dirty flag, the port | Save, single-field writes, reload; hand over, standby, resume, probe; load at boot | another process, the file system, the user's editor | a crash between two steps; two processes on one file; unsaved state that must survive a hand-over and must not override a later Save |
| Clock servo, `audio_sync/src/` | estimators, loop state, epochs | observe, correct, raise the target | run loop, callbacks | numeric; epoch bookkeeping |
| Audio output, `audio_output/src/` | resampler, device | callback, open, close | ring, servo | device errors |
| Decoder bridges, `orender_engine/src/bridge_set.rs`, `bridge_api/` | plugin instances | probe, push, read | engine | foreign code |
| Engine and frame pipeline, `orender_engine/src/{engine,frame_pipeline}.rs` | stream state, beds and objects | one frame at a time | all | mostly sequential |
| Embedding interface, `orender_ffi/src/lib.rs` | sessions, decode queue | C calls | engine | contract of the caller |
| Measurement, profiles, `orender_engine/src/osc/` | a session, stored profiles | start, capture, switch | renderer control | a switch applied while a rebuild runs |
| Renderer DSP and geometry, `renderer/src/`, `omniphony_geometry/` | filters, panners | per block | topology | numeric |
| S/PDIF deframer, `spdif/src/lib.rs` | a partial burst | push bytes | bridges | sequential parser |
| OSC contract, Studio's windows, browser capture, packaging | | | | outside the renderer's process |

What makes each modelled component correct:

- **Frame ring.** No slot is written by one end and read by the other without
  the counters ordering the two; the consumer gets the frames pushed, in order,
  each once; the unsigned subtractions of `free` and `available` stay in range
  although one operand was loaded earlier.
- **Capture.** What a follower of the writer's clock drops is told with the
  next chunk, so the timeline has no hole; a paced source loses nothing, is not
  read ahead of its host, and is read on when the host has taken what there
  was; an end is delivered; closing terminates.
- **Rebuild.** Only an answer to the latest grid request comes into force;
  once nothing is under way the topology in force is such an answer, so the
  speaker stage follows it; every rebuild ends, unless the follower's build
  panics; the follower alone ends on what is wanted.
- **Run loop.** No epoch is fed the bytes of two streams; clients are shown the
  input that is open; an output that comes back is played on; a stop and a
  restart are served wherever the loop is.
- **Publication.** A client that counts itself current holds what was published
  at that count; no thread publishes older state under a later count; a client
  catches up whatever the network did.
- **Stream.** An open stream misses no state however slow its client; a `SYNC`
  is answered after everything it comes after; Studio ends on a stream.
- **Hand-over.** Unsaved changes cross it; nobody who may save runs what is
  older than the file; the defaults a broken file left an engine with are never
  saved over it;
  a backup is what was replaced; a standby ends.

`PROJECT.json` lists every hazard met while reading, at its line, with the
properties aimed at it, or why none is.

## 2. Plan

Done, most important first:

1. `FrameQueue`, `FrameRing`, `FrameRingProofs`: the ring, its abstract queue,
   the refinement, the proofs.
2. `PipeCapture`, `PipeCaptureProofs`: the reader thread and the capture's
   handle, every safety property proved.
3. `TopologyRebuild`, `MCTopologyRebuild`, `TopologyRebuildProofs`: listener,
   recompute threads, follower and render thread over one control.
4. `StateSync`, `StatePublication`, `MCStatePublication`,
   `StatePublicationProofs`: the count of the state, its publishers, and a
   client over datagrams, every safety property proved.
5. `LiveHandoff`, `MCLiveHandoff`, `LiveHandoffProofs`, `LiveHandoffTurns`: the
   settings on disk, the sidecar and the instances that hand the port to one
   another, every safety property proved.
6. `StreamLink`, `MCStreamLink`, `StreamLinkProofs`: the stream transport over
   `StateSync`, every safety property proved.
7. `HostLoop`, `HostLoopProofs`: the sync host's runs and its loop.

Left: the live log (numbers drawn outside the lock against a reader's cursor);
the own sink over `FrameQueue` (the refinement of section 6 lets it use the
abstract ring); the band engines of the speaker stage against the topology in
force; and profile operations.

The modules compose so: `FrameRing` implements `FrameQueue`; `StatePublication`
and `StreamLink` both extend `StateSync`, Studio's bookkeeping of counts, and
`StreamLink` takes of the datagram session only what `StatePublication` shows
(now and then Studio is brought up to date); `HostLoop` takes of a capture what
`PipeCapture` promises (streams in order, each a start, chunks and an end).

## 3. Modules

### FrameQueue

What a ring promises: a bounded queue of whole frames, appended to in batches
that fit, from whose head the consumer takes or skips.

### FrameRing (`audio_rt/src/ring.rs`)

`buf`, `written` and `read` are `Shared`'s fields. An operation is several
steps, as in the code: load the other end's counter, copy frame by frame,
store one's own counter. `push` is `PushBegin`, `PushCopy`, `PushPublish`;
`read_exact` and `read_up_to` are `ReadExact` and `ReadUpTo`, then `FetchCopy`
and `FetchPublish`; `discard` is `Discard`. A frame stands for the samples of
its channels: the code divides the lengths it is given by `channels` first.

The loads are acquire loads, not sequentially consistent ones. `readLoads` and
`writtenLoads` are the values a load may return: any the counter has held that
is not older than the one last acquired. `lastWrite` and `lastRead` remember
the accesses of each slot, so a data race is a state: an access to a slot whose
last conflicting access is not ordered before it by an acquired release.
`CopySlot` is the two-part copy of `Shared::copy`. The counters are `u64`, which
do not overflow in the life of a machine, and are not bounded here.

### PipeCapture (`src/cli/sync_host/reader.rs`)

The reader thread is a program counter through `read_loop` with its locals
(`pacedNow`, `inStream`, `skipped`, the chunk in hand); the host thread is the
method of `Capture` it is in. Every access to the channel or to one of the
three atomics is an action: `Count` adds to `queued` before `HandOver` sends,
`Undo` subtracts after a full channel; `Recv` takes off the channel and `Taken`
subtracts later; `Discard`, `Drain`, `Zero` are `discard_pending`; `DropStop`,
`DropClose`, `DropJoin` are `drop`. `queued` wraps at `CounterSize`, as a
`usize` does. Chunks are numbered in the order they are read, and `skipped`
counts chunks. The time without data that ends the stream of a FIFO is a flag
(`quiet`) which `Silence` may raise at any moment and data, or a paced wait,
lowers. What is captured, a FIFO or a source read to its end, is chosen by
`Init` from `Kinds`.

Left out: the arrival times of the chunks, the drain of the kernel's buffer at
the start, and the Windows pipe, none of which changes who holds which chunk.

### TopologyRebuild (`osc/recompute.rs`, `evaluation_grid.rs`, `layout_follower.rs`)

Threads are the listener, the follower and `Workers`, the recompute threads;
each has a label and locals. An action is one access to shared state, and
everything a lock covers is one action. The actions are grouped as the code
is: `take_bridge_grid` (`TakeOffered`, `TakeHint`, `TakeStore`, `TakeLive`), an
edit of the forced grid (`EditGrid`, then `ApplyEffects` with its bump of the
geometry generation),
`request_live_grid` (`RequestRead`, then `Unchanged`, `Adopt` or `NeedRebuild`
under the lock), `start_recompute` (`Ask` to `Spawn`), the worker (`Start` to
`Sweep`), the follower (`Wake`, `Check`, `CompareExchange`, `Decide`). A build
that fails (`BuildFails`) answers the request and lowers the flag on either
thread. A panic does so on a recompute thread alone, which catches it
(`recompute.rs:146-160`); the follower's thread is gone (`FollowerPanics`), with
the flag it claimed up and nobody to be asked any more (`FollowerLives`). `live`
is what the parameters and the editable layout ask for: the number of the last
layout edit staged and of the last applied, the BRIR set wanted (0 for none),
the grid's source, the bridge's hint and the grid. A topology is its identity,
layout, geometry generation, gain model, grid and grid generation; a gain model
is known by the layout it was built for and whether it keeps negative z.

Abstractions: one backend, so `model_backend_id` never differs; two grids are
two tables (`same_table`); `Install` stands for the speaker stage and the worker
that builds its bands; a profile switch is `Stage` and `Apply` with nothing
in between; the key of the BRIR set and the layout loaded from it are read
together; the grid and the generations a plan reads under the live parameters'
read lock are read together; relaxed loads and stores of the flags are
sequentially consistent here, which leaves out no interleaving of the accesses
but may leave out reorderings of two flags; a recompute thread is only spawned
when one of `Workers` is free. Gain tables and the offline render that settles
on the calling thread are not modelled; the broadcasts of a rebuild are
`StatePublication`'s.

`MCTopologyRebuild` adds a `VIEW` without the locals a thread no longer reads
(no action or property reads them in that state) and, for the safety runs, the
symmetry of the recompute threads. For `rebuild_handover` it adds the
constraint `Stories`, a bound: at most one set and two hints or claims with a
listener, a failure, a panic or a refusal. Stories without one of these, which
are all that `FollowerCatchesUp` speaks of, are not cut. A step that leaves the
bound is never the only one fairness could ask for, so every behaviour that stays
within it is judged whole.

### StateSync (`src/omniphony-studio-egui/core/src/osc/state_sync.rs`)

`StateSync` is the code's struct: `held`, the pending snapshot (`gen`, `seen`)
and `stale`; `OnUpdate`, `OnPart`, `OnAck`, `Abandon` are its methods and
`Current` what a client takes for "I hold the engine's state". Counts wrap and
are compared for equality, as in the code.

### StatePublication (`orender_engine/src/osc.rs`, `osc/client_registry.rs`, `osc/transport.rs`, `osc/export.rs`, `osc/telemetry.rs`, `core/src/osc/mod.rs`)

State is a few items, each a version number; item *i* travels in part *i* of a
snapshot. The publishers are the code's: the listener's poll of
`live_state_generation` (`PollMoved`, `BroadcastMoved`), the answer to a control
(`PublishControl`), the telemetry thread with an event posted to it
(`PostState`, the loudness of a new segment, which the render path posts only
when it sees a live client; `PublishEvent` sends the value of now), a recompute
thread and the flag that shows it (`PublishStarted`, `PublishBuilt`,
`PublishDone`). A publication takes the lock, captures, advances
`count` and sends its packets one by one (`Send`) before the lock is free. The
client registers, takes snapshots and updates, sends heartbeats whose
acknowledgement carries the count (`ReadCount` under the lock, `Answer` later),
and asks again when something is missing. Faults: a datagram is lost (`Lose`) or
overtaken (`Overtake`), the client is silent past its time-out (`Silence`), the
engine is replaced behind its port (`Restart`). The recompute flag is numbered
like the items and no snapshot carries it, as in the code. Left out: meters and
traces, which carry no state; more than one client (a publication sends to each
in turn and nothing flows between them); the registration that comes between the
render path's look for a client and its post. The budgets count changes,
recomputes, faults, restarts and datagrams that overtake another (`overtakes`).
The count is 32 bits wide and does not come round while anything it numbered is
on its way: `CountsSuffice` says so of every budget.

### StreamLink (`osc/inbound.rs`, `osc/peer.rs`, `core/src/osc/link.rs`, `core/src/osc/mod.rs`)

A connection is its two ways: `up`, read by its reader into the bounded `inbox`
of the listener, and `outbox` (`STREAM_QUEUE_MAX_BYTES`) drained by its writer
into `pipe`, what the sockets and Studio's receive budget hold. `Push` drops
telemetry for a full queue and shuts the connection rather than drop state.
`Accept`, `Read`, `ReadEnds`, `AcceptorEnds`, `ReceiverEnds`, `Joined` are the
engine's threads and their end; `Leave`, `Bind`, `BindStream` an engine going
and the next one coming; `Register`, `Refresh`, `Heartbeat`, `Synchronise` and
the controls the listener's turn; `Open`, `Drop`, `StreamClosed`, `AckTimeout`,
`NotAnEngine`, `BackoffEnds` Studio's link. The state is one version number, and
a control is the number it was sent as, which its refusal names (the code's error
names its address: no two controls of a behaviour have the same here).
Left out: a second request of one kind on its way (nothing is learnt from the
duplicate), timers shorter than an answer, a stream resumed by the same engine
(each bind is a new epoch), the framing.

### LiveHandoff (`renderer/src/config.rs`, `runtime_control/src/persist.rs`, `orender_engine/src/osc.rs`, `orender_engine/src/engine.rs`, `orender_ffi/src/lib.rs`)

Two processes share `config.yaml` and the sidecar: the CLI, which stands by
while a player's embedded engine holds the port, and the player, which may hold
two engines at a time. An engine has an owner thread (`main`) and, on the port, a
listener thread that runs one control at a time (`op`); an action is one access
to a file or to what the other thread sees. A Save is `BackUp`, `Copied`,
`Rename`, `Remove`, `Clear`, `MarkClean`; a view change is `ViewWrite` and the
two updates of the overlay; a reload is `ReloadBegin`, `Remove`, `Clear`,
`Reread`; what a listener adopts after a standby is `AdoptLoad`, `AdoptApply`
(two, for the file is read again for its status); both end in `Switch`, which
leaves what the engine runs alone when the file that was read does not parse; a
hand-over is `Collect`, `WriteSidecar`, `Forget`, `Release`; a start is
`Preload`, `Reserve` or `Reclaim`, `Load`, `Build`, `Listen`; a standby is
`Probe`, `Wake`, `Resume`, `StandAgain`. A crash may fall between any two, the
user may save a file that does not parse, and a sidecar may get too old. A
content is the number of the edit that made its render state, that of its view
state, and whether it rests on the defaults of a broken file. A budget also says
which disorders it allows: a control during a hand-over (`late`), a player's next
engine made before the last is dropped (`overlap`), a standby that ends itself
(`sleeper`), a file repaired between the two readings of a start or of an adoption
(`bootFix`), instances that start together, or a CLI that ends, restarts or crashes
while a player starts (`together`).

Left out: profile operations, filters kept inline, the write in place when a
rename would change the file's owner, power loss, a failed write of the sidecar;
a file that parses and has no render section; the user edits the file only
between controls, or while a listener adopts.

### HostLoop (`src/cli/sync_host/mod.rs`, `src/cli/decode/session_run.rs`, `sys/src/shutdown.rs`)

`at` is where the host's thread is: between two runs of `cmd_render` (`gap`), in
a run being built, in the loop (`flags`, `settings`, `take`, and the one or two
steps of opening an input), in a standby, leaving. A turn of the loop reads the
flags (`Requests`, `StandBy`, `TakeApply`, `Applied`, `NotApplied`, `Reopen`),
settles the settings (`Settle`) and takes a message (`Take`: feed it to the
epoch, finish what it finishes, report, watch the output). The operators on an
epoch (`Pumped`, `Finishing`, `Pushed`, `Rendered`, `OnStart`, `OnChunk`,
`OnEnd`, `Reported`, `Watched`) are `Epoch`'s methods. Clients ask for a stop, a
restart, a standby, a resume, an input, other settings or a test; the device
goes and comes. A capture outlives the run that opened it.

Abstractions: the output is the device, not a file; a chunk may or may not give
a block; what a timer decides may be decided on any turn, but for the poll of the
devices; a restart may read any input; the device is there at the start; with no
device, `Settle` closes a finished epoch one turn later than the code; whether a
host runs on at the end of its input (`continuous`) stays as it was over a
restart. Left out: a run that ends in an error (`session_run.rs:283`), a change of
the channel mapping and the reopening for a new format, the `seconds` limit, the
servo and telemetry; and a restart asked for after a standby was taken and before
its listener stops (`sync_host/mod.rs:843-853`, `:1186`): clients of a host that
stands by ask for nothing but a stop or a resume.

## 4. Runs

| Run | Instance | Shows |
|---|---|---|
| `ring` | capacity 3, batches of 2, 6 frames of 2 values | `IInv` (the inductive invariant of section 6), `RaceFree`, `InOrder`, the refinement of `FrameQueue`, and `PublishedFramesLeave` |
| `pipe` | a FIFO and a file, channel of 3, pacing at 2, 5 chunks, 2 changes of clock, a discard | `SkippedAccounts`, `CountMatches`, `PacedHoldsBack`, `FileWhole`, `ReadsOnUndiscarded`, `DropEnds`, `FileDelivered` |
| `rebuild_host` | the listener, 2 recompute threads, an edit, a hint, 2 source switches or grid edits, a failing build, the listener stopping and the follower, whose build may panic | `AnsweredWhenQuiet`, `InForceIsLatest` |
| `rebuild_handover` | the follower, then the listener with one recompute thread as well: 2 sets, 3 hints, a failure, a panic of the follower, a refusal, within `Stories` | `RebuildsEnd`, `FollowerCatchesUp` |
| `publication` | 2 items, 1 recompute thread, 2 datagrams on their way, counts modulo 9; seven budgets of changes, recomputes, faults, overtaking datagrams and restarts | `CurrentIsAsPublished`, `CurrentWhenQuiet`, `AckAfterState`, `NeverOlder`, `CatchesUp` |
| `stream` | 2 connections, queues of 2, 1 and 1; five stories: a slow client, controls and a `SYNC`, a reset, an engine that goes, another service on the port | `StreamWhole`, `SyncBarrier`, `StreamRegained` |
| `handoff` | the CLI and two player engines; eight budgets: one instance after the other with a crash, a reload and an old sidecar, a broken file, or no standby; and every disorder | `UnsavedHandedOver`, `NotBehindTheFile`, `DefaultsNeverSaved`, `BackupIsPrevious`, `OnlySavesWriteRender`, `ComesBack` |
| `host` | every input, queue of 1, 2 streams, 2 events of clients or the device | `EpochIsOneStream`, `ShownIsOpen`, `OutputComesBack`, `RequestsServed` |
| `reads_on_discard`, `overtaken`, `lost_flag`, `sleeper` | small bounds that show it | the disagreements of section 5 |

The passing runs also check their module's `TypeOK`, but for
`rebuild_handover`, which is about liveness alone; the ring's is a part of `IInv`.

Why the bounds are enough. The ring's capacity is smaller than two batches and
than the frames pushed, so batches are cut, slots are reused a second time and
both parts of a copy occur at every offset; the proofs remove the bounds. The
channel has more room than the pacing, as in the code, and more chunks pass
than it holds, so it fills, drops, and empties again; the proofs remove the
bounds. Two recompute threads are what the double check of the flag can give; a
rebuild overtaken by a request overtaken by another needs two requests, which a
hint and two switches exceed; the proofs remove the bounds. The follower keeps
one request and one round owed: of two sets one can land in its round and one
while a request is already waiting, and three hints put two topologies back and
forth. In `publication` the count starts at its last value,
so it wraps, and it has more values than a budget publishes (`CountsSuffice`, an
assumption of the proofs too); two parts are what tells a whole snapshot from
half of one, and two datagrams on their way are what can overtake each other;
the proofs remove the bounds. In `stream` a queue of two fills with one update and
its telemetry, and the second connection is the one that replaces the first; the
proofs remove the bounds. In
`handoff` three or four starts are a CLI, a player and the next; two edits and
two saves tell the last Save from the one before. In `host` two streams are what
an epoch may confuse and two events are a request that arrives while another is
served, or a device that goes and comes.

`CHECK_DEADLOCK FALSE` is set where the system may stop: a capture that is
closed, a control that nobody asks anything, engines that have left and are not
started again.

**Fairness.** `FrameRing`: the consumer's callback goes on being called and an
operation begun is finished; nothing of the producer. `PipeCapture`: the
reader thread runs whenever it can (its sleeps and polls have timeouts), the
host's loop turns and takes messages, a method of `Capture` begun is finished;
nothing of the writer, of the clock, of the requests. `TopologyRebuild`: every
thread that can go on does, which is the operating system's scheduling; frames
keep coming, so the render thread polls and installs; nothing of clients, hints
and sets. `StatePublication`: every thread goes on, a datagram that is neither
lost nor overtaken arrives, the client's timers fire; the listener's poll of
`live_state_generation` is strongly fair: requests that keep coming may take the
listener away from it again and again, but its loop polls on every turn.
`StreamLink`: all threads, the timers, and the next engine that comes; nothing
of the faults. `LiveHandoff`: a control begun, a hand-over begun and the
standby's look at its socket and at the port; nothing of the user, of starts, of
ends, of crashes. `HostLoop`: the host's thread, whose waits are bounded (20 ms
for a message, 50 ms in a standby), and the clock of the device poll; nothing of
clients, devices or sources. All but that one poll is weak fairness.

## 5. Disagreements between the code and its comments

Four are runs TLC refutes, with the line quoted in `PROJECT.json`.

- **`reads_on_discard`.** The reader counts a chunk, finds the channel full and
  subtracts it again; a `discard_pending` in between stored 0, so the count
  wraps and a reader that is paced afterwards holds back for ever. Reached by a
  restart of a pipe whose queue is full with the source clock changed to `none`.
- **`overtaken`.** A grid request that puts a topology back overtakes the build
  of a layout edit. Whether that build is to be run again it decides from
  `recomputing`, read after the requests' lock is released; the worker has been
  found outdated, has lowered the flag and has looked for queued requests by
  then, so nothing runs the edit's build again.
- **`lost_flag`.** `speakers/recomputing` is published under the state count but
  is no part of the snapshot: a client that lost the datagram that lowers it
  asks for a refresh, gets all of it, and is current with a rebuild shown as
  running.
- **`sleeper`.** An instance that stands by keeps its dirty flag. When it ends,
  or stands by again after a resume that failed, it writes its old state to the
  sidecar, and the next start restores that over what was saved meanwhile.

More of them were met while modelling. Each shows when a bound or a constant is
changed as said, or was read off the code the model then allows; none has a run
of its own.

The rebuild (`TopologyRebuild`):

- A request that saw `recomputing` up stores `recompute_pending` after the
  worker lowered the one and took the other (`recompute.rs:88-94`). It waits for
  the next rebuild, if there is one: this is why `AnsweredWhenQuiet` calls a
  system with a queued request not quiet.
- A host's recompute reads `recomputing` (`recompute.rs:88`) and stores it after
  its plan was made (`:118`). The follower claims it in between and both build;
  the doc of the claim (`layout_follower.rs:88-89`) says one does. `FlagIsHeld`
  is what is left true.
- A layout edit is staged without a new geometry generation. A rebuild asked for
  by another grid reads the editable layout, staged edit included, and keeps the
  gain models of the former layout (`backend_registry.rs:464-479`, against
  `:425-427`).
- `take_bridge_grid` and a switch of the source make the new grid live before
  `request_live_grid` bumps the geometry generation for a change of negative z
  (`evaluation_grid.rs:501-507`). A queued rebuild in between records that grid,
  plans it on the former generation and reuses the former gain models; the
  request then finds its grid recorded.
- The follower settles on a grid-only rebuild, a BRIR set lands, the plan is made
  for the set and published as differing by its grid alone
  (`layout_follower.rs:109`, `:118`, against `:41-42`). A later hint puts the
  replaced topology back, on the former layout, and `render_layout_key` says it
  is the wanted one. `FollowerCatchesUp` leaves out the behaviours in which such a
  build is made (`MoreThanTheGrid`): without that condition TLC finds it violated
  by one set and two hints.
- A panic in the follower's build ends its thread with `recomputing` up
  (`layout_follower.rs:124`; the worker's build has a `catch_unwind`,
  `recompute.rs:146-160`). Nothing lowers the flag: clients are shown a rebuild
  that runs for ever, a host's requests are queued for ever, and once no host is
  there hints and sets are followed no more. `RebuildsEnd` and `FlagIsHeld` say
  "while the follower lives": without it TLC finds `RebuildsEnd` violated by one
  panic.
- A backend that has no plan at the first `prepare_topology_rebuild` of
  `start_recompute` leaves the grid request counted and unanswered
  (`recompute.rs:80-86`), where the second one calls `grid_rebuild_failed`:
  with `MaxRefusals` above 0 `AnsweredWhenQuiet` fails, and the theorem
  `Answered` assumes it 0.

Publication and streams:

- The render path looks for live clients before it posts the loudness of a new
  segment (`frame_pipeline.rs:133-140`), and nothing publishes it later. A client
  not heard for `CLIENT_TIMEOUT` that comes back with a heartbeat before anything
  else was sent is still registered, at the engine's count, and current without
  that change, against `state_sync.rs:8-12`. `unposted` remembers it: without
  that conjunct TLC finds `CurrentWhenQuiet` violated.
- Parts of two engines' snapshots complete each other when the second engine
  comes before the first's first acknowledgement was heard; the budgets' `early`
  says which behaviours do, and the properties are stated of the others. A
  datagram of the first engine that arrives after the second's acknowledgement
  can do the same: with a restart, a loss and four overtaking datagrams TLC finds
  `CurrentIsAsPublished` violated. The run's budgets hold less than that, and the
  theorems are of one engine, or of datagrams that keep their order (`InOrder`).
- An acknowledgement overtaken by the publication after it makes a client ask
  for a snapshot it does not need; on a stream, one read before a publication is
  queued after it and does the same (`link.rs:12-19` says no refresh is asked
  on a stream).
- A goodbye queued when `close` comes may not be written, for the writer returns
  without draining. A closed client that a queued register puts back is only
  forgotten at the next send.

Hand-over (`LiveHandoff`; each named disorder is one a budget can allow):

- A player makes its next track's engine before it drops the last
  (`osc.rs:144-150`, `1178-1182`): the successor restores what the last one had
  not handed over (against `docs/persistence-policy.md:41-43`).
- A file repaired while a start reads it twice lets an engine that runs on
  defaults count as loaded (`renderer_build.rs:735`, `engine.rs:749`, against
  `docs/persistence-policy.md:120-128`), and its Save replaces the file. One
  repaired between the two readings of an adoption (`profiles.rs:308`, `:312`)
  does the same for a CLI that comes back on what it ran before: the defaults, if
  it started on them. Budgets allow both with `bootFix`.
- An engine that adopts, or reloads, a file that does not parse keeps what it ran
  (`profiles.rs:389-391`), with nothing marked unsaved. After a standby that may be
  older than what the player saved; its Saves are refused until the file is read
  whole. `NotBehindTheFile` is therefore stated of the engines that may save.
- A control that arrives while its engine hands over changes what was already
  collected; an engine dropped after its successor saved writes or clears the
  sidecar; the CLI reads the configuration before it has the port; a player's
  preload consumes the sidecar before it negotiates for the port; a player that
  goes on without the port, which the CLI did not give up, has read its
  configuration when that CLI ends, restarts or crashes. This is why
  `UnsavedHandedOver` and `NotBehindTheFile` are stated of instances that follow
  one another (`InTurn`).

Host (`HostLoop`):

- A service's Stop between two runs is flagged by `sys/src/windows.rs:79-93` and
  cleared by the `ShutdownHandle::install` of the next run (`shutdown.rs:203-206`,
  `session_run.rs:274`) when it comes after `cmd_render` looked
  (`session_run.rs:330`): set `Service = TRUE` and `RequestsServed` fails.
- `RELOAD_REQUESTED` (SIGHUP, service code 128) is said to restart the stream
  (`shutdown.rs:13-14`); the sync host never takes it.
- A device absent when it is opened and back before the two seconds of the
  report is never seen absent, so it is not opened again
  (`sync_host/mod.rs:194-197`); hence `watch.seen` in `OutputComesBack`.
- A paced file whose device cannot be opened is consumed and dropped unpaced,
  against "A paced source waits instead: nothing of it is dropped"
  (`sync_host/mod.rs:2470`); a device that comes back closes the epoch and drops
  what waited.
- A capture opened again after a failed Apply does not clear `capture_gone`, and
  an Apply of the same input never opens a dead capture; an End discarded in a
  standby keeps a run that is not continuous from finishing; a resume left
  flagged makes the next standby try to resume at once.

## 6. Proofs

tlapm proves the following for every value of the constants, under the
assumptions the modules name on them.

| Module | Theorem | Property |
|---|---|---|
| `FrameRingProofs` | `Invariance`, `TypeCorrect`, `NoWrap`, `NoDataRace`, `FirstInFirstOut`, `Implements` | `IInv`, `TypeOK`, `DifferencesInRange`, `RaceFree`, `InOrder`, `ImplementsQueue` |
| `PipeCaptureProofs` | `TypeCorrect`, `FileKeptWhole`, `SkippedAccounted`, `CountExact`, `PacedIsHeldBack` | `TypeOK`, `FileWhole`, `SkippedAccounts`, `CountMatches`, `PacedHoldsBack` |
| `TopologyRebuildProofs` | `TypeCorrect`, `LatestComesIntoForce`, `Answered`, `FlagIsHeld` | `TypeOK`, `InForceIsLatest`, `AnsweredWhenQuiet`, `RaisedIsHeld` |
| `HostLoopProofs` | `TypeCorrect`, `ShownCorrect`, `OneStream` | `TypeOK`, `ShownIsOpen`, `EpochIsOneStream` |
| `StatePublicationProofs` | `NeverOlderHolds`, `TypeCorrect`, `AckAfterStateHolds`, `CurrentIsAsPublishedHolds`, `CurrentWhenQuietHolds` | `NeverOlder`, `TypeOK`, `AckAfterState`, `CurrentIsAsPublished`, `CurrentWhenQuiet` |
| `LiveHandoffProofs` | `TypeCorrect`, `DefaultsStayUnsaved`, `BackupIsWhole`, `SavesWhatRuns` | `TypeOK`, `DefaultsNeverSaved`, `BackupIsPrevious`, `OnlySavesWriteRender` |
| `StreamLinkProofs` | `TypesHold`, `StreamIsWhole`, `SyncIsABarrier` | `TypeOK`, `StreamWhole`, `SyncBarrier` |
| `LiveHandoffTurns` | `TurnInvariance`, `UnsavedAlwaysHandedOver`, `NeverBehindTheFile` | `TurnInv`, `UnsavedHandedOver`, `NotBehindTheFile` |

**FrameRing** (a capacity of at least one frame; the marks are no frames).
None of the last three is inductive. The order of what came out says nothing of
what is in the slots, and the slots are overwritten by a producer that goes by
a stale counter. `IInv` therefore says where each end stands: a value that may
be loaded lies between the last one acquired and the counter (`LoadsInv`); an
operation under way stays in the region its end owns (`RegionInv`); the slots
between the counters, and those already copied, hold the right frames
(`ContentsInv`); the last accesses of a slot belong to frames of that slot, no
further than each end has got (`AccessInv`). One lemma per action shows that it
preserves `IInv`. `ReleaseInvariant` is shared by the end of a read and by
`discard`. All reasoning about `%` sits in the first lemmas: `CopySlotIsSlot`
says that the two-part copy puts its k-th frame where frame `at + k` belongs,
`SlotsApart` that two frames of one slot are at least a capacity apart, which
is what keeps a push off the frames still to be read. `RaceFree` follows: the
frame that last sat in the slot being written is a capacity back, so the value
of `read` acquired already covers it.

`Implements` says that the ring implements `FrameQueue`. By
`ContentsInv` the frames between the counters are a `Window` of what was pushed
(`UnreadIsWindow`), so the slots drop out of the argument: three lemmas say what
a window is, what a batch appended makes of it and what is left of it after n
frames. Publishing a push is then `Push`, the end of a read `Take`, a discard
`Skip` or, of nothing, a stutter; every other step leaves both counters and both
histories alone.

**PipeCapture** (the channel has more room than the pacing; a `usize` counts
more than the channel and the two hands hold). The types are inductive with
where the chunk in hand and what was skipped come from (`CountsInv`). `FileInv`
keeps a file's reader from ever dropping. `SkippedAccounts` is inductive as stated, once the chunks of a queue
are linked each to the one before (`Linked`, and what an append, a tail and a
discard make of it). `CountMatches` needs the classification of every step by
what it adds to the queue and to the hands (`SizeSteps`), so that the modular
arithmetic is done once; `DiscardInv` ties it to there having been no discard.
`PacedHoldsBack` is weaker than what is inductive: `PacedInv` charges each
discard whose zeroing is done (`Zeroings`) with one more paced queue, for the
reader goes on by a count that was zeroed under the chunks still in its way.

**TopologyRebuild** (any grids, any set of recompute threads, any bounds).
`TypeInv` adds the locals, that a staged edit was counted and that a hint taken
was offered. `InForceIsLatest` is a step property on top of it: a topology is
built under the check of the generation or put back with a new one. For
`AnsweredWhenQuiet` the state must say who will answer: `DebtInv` says that as
long as the generation in force is not the latest, the queued flag is up, or a
thread `Owes` the answer: it is on its way to a plan, carries a plan of that very
generation, or is the follower with a round owed or a rebuild decided. Each
action hands the debt on: `NeedRebuild` takes it, `Queue` turns it into the flag,
`Sweep` turns the flag back, `Spawn` passes it to a thread, an overtaken build
never had it, for whoever overtook it does. The one action that drops it is the
refused first plan, which is why the theorem assumes `MaxRefusals = 0`.
`RaisedIsHeld` is the safety half of `RebuildsEnd`: one thread's end may lower
the flag under another's build, but a flag that is up is held by a thread that
will lower it. `FlagIsHeld` says so while the follower lives; so does the
invariant behind `Answered`, of the debt. A follower that panicked is gone for
good (`DeadStays`), which is never quiet: `AnsweredWhenQuiet` needs no exception.

**HostLoop** (`None` is no capture). The types rest on what every method of an
epoch keeps (`Sound`: audio waits only for the room of a paced device).
`ShownIsOpen` holds between two turns only; `ShownInv` says what holds at every
step of an Apply, taken, refused or reopened. `OneStream` needs what the queue
may hold: `QueueInv` says that a stream changes in it only at a start and that its
last message is of the stream the capture is in, and `HeardInv` that whatever comes
next, but a start, is of the one stream the epoch heard.

**StatePublication** (no worker has the name of another thread; the count has
more values than a budget publishes). `NeverOlder` is a property of steps;
`OrderInv` is what makes it true of each: what was published of an item is no
newer than the item, nor than what the listener is about to publish of its own
item. The listener alone publishes that one (`EventInv` and `StepsInv` keep the
other threads off it), and every other publication reads its value under the
lock, so it cannot be older than one that held the lock before. A restart's
versions are newer than any before it.

`CurrentIsAsPublished` is far from inductive: it says nothing of a client that
is behind, nor of what is on its way to it. What does is a history the model does
not keep: `since[i]`, how many publications ago item *i* was last published, and
*n*, how many there were since the engine started. `PublishedInv` says that one
such history explains everything. What a packet says under the count *g* is no
older than what was last published, or is from before a publication of that item
that came after *g* (`AsOf`, with `Age(count, g)` for how long ago *g* was); an
update or a flag is alone with its count (`Faithful`); a client that missed
nothing has every item as it was at the count it holds (`Holds`). The history is
quantified, not a variable, so the model goes without it. Ages are differences of
counts that wrap, which can be told apart because no budget brings the count
round: `BudgetInv` counts the publications the threads still owe against
`CountsSuffice`. After an engine's first acknowledgement nothing of another is on
its way to the client (`NetInv`), which is lost when one engine's datagrams are
overtaken by the next one's: hence the hypothesis `InOrder`, a condition on the
budget, of `CurrentIsAsPublishedHolds` and `CurrentWhenQuietHolds`. The invariant
takes it as a parameter, so the types and `AckAfterState` hold without it.
`CurrentWhenQuiet` adds that nothing gets ahead of the state (`AheadInv`) and that
an item that was not published as it is has a thread, a flag or an event that
will publish it (`PendingInv`), but for the unposted loudness.

**LiveHandoff** (the player has an engine; the CLI is none of its). None of the
four is inductive. `HandInv` says that whoever runs a control holds the port, so
that one control runs at a time, over all processes; `WriterInv` that the file
under a Save parses and is the one its backup was made of, that what the Save
writes is what its engine still runs, and that what a view change writes has the
render state the file still holds. `BackupIsPrevious` and `OnlySavesWriteRender`
are then properties of the one step that renames. `DefaultsNeverSaved` follows the
built-in defaults wherever they go: `DiskOrigin` says none are in the file or its
backup and that a sidecar or an overlay that rests on them says so,
`EngineOrigin` that an engine that runs them has the status of a file that did
not parse, or will have it once it is built, and `HandOrigin` the same of what is
being written, amended or adopted. The step that needs the assumption on the
budget is the one between two readings, of a start or of an adoption: the file
must still be broken (no `bootFix`, and a Save never begins on a broken file) and,
at a start, the overlay of its process still there (no `overlap`), which
`BrokenStays` and `OverlayStays` prove.

`LiveHandoffTurns` proves what relates an engine to the user's last change, of
instances that follow one another (`InTurn`, of the budget). Neither property is
inductive: both speak of the engine that serves, and between two of them nobody
does. `TurnInv` says where the state is meanwhile. `PlaceInv` orders who holds
the port, who waits for it and who goes without; from it follows that at most one
engine `Runs` with the user's state in its hands (`OneRuns`). While one does, no
sidecar waits (`SidecarInv`), and its process keeps what it consumed of one only
while that is unsaved (`CacheInv`), so nothing a later start or reload restores
is older than a Save; an engine without the port has nothing to hand over
(`DirtyInv`). `AheadInv` then says that whatever may be served next is ahead of
the file, or is known to come from a file that did not parse: its engine is
`Refused` a Save, or will be, and an overlay says so (`Handed`). This takes from
`HandOrigin` that what a listener adopted is the configuration of a file that
parses, and `NotBehindTheFile` speaks only of engines that may save.
`HeardInv` says that the last state heard is in the engine that runs,
and in the file too unless it is marked unsaved; or else, `Between` two of them,
is what the next to start will load (`StoredFor` its process): from the sidecar,
from what the process consumed, or from the file. Each conjunct has a lemma for
each group of actions, and they are proved in that order, each from those before.

**StreamLink** (any connections, queues of at least one; `None` and `Other` are no
connections and no numbers). A packet is told of by what is ahead of it, so the
argument is about two sequences and what any step does to them. What is on its
way to Studio (`Coming`: the pipe, then the queue) is left alone, grows at its
end, is shifted by a packet taken or is cut off by an end of the connection;
`LinkMoves` and `TakeMoves` sort the whole next-state relation into these, with
what was pushed, and each invariant is then proved once for each of them. What is
on its way to the listener (`Waiting`: the channel, then what is unread) is kept in
its order, other connections' requests aside (`WaitingKept`, `WaitingHandled`).
`Places` ties connections to engines: whatever refers to one is of the engine that
runs, a port given up leaves its connections closed, and the only connection
Studio has not dropped is its link; so only a `Live` link has to be spoken of.

`StreamWhole` needs `StateKept` (the last state on its way, or else the one held)
for links that were served, and that those are registered, so that no publication
passes them by (`Registered`: until then a registration is ahead of everything
else the link asked). `SyncBarrier` is inductive only with what a `SYNC` will find:
`Sequenced` says that the controls are in order in front of it, `Answered` that
what each came to is on its way or known (`Reached`) unless it is still to be
published, `Greeted` that an acknowledgement is ahead of any state that a control
made, without which Studio would throw that state away as another engine's on the
acknowledgement that comes after, and `Barriers` that what a queued answer speaks
of is ahead of it. `Ordered` says that states on their way never go back.

The invariants were checked by TLC before they were proved. Model-checked only:
every liveness property of every module (`RebuildsEnd`, `FollowerCatchesUp`,
`CatchesUp`, `StreamRegained` and the rest), for leads-to under fairness and
ENABLED are beyond the prover.

## 7. Not modelled

The numeric code (panning, convolution, crossovers, metering, resampling, the
servo's loop), which is real-valued; device and file I/O; plugins behind the C
ABI; the S/PDIF deframer; the measurement session and profile operations; the
live log and the own sink; Studio's windows, the browser extension, packaging
and scripts. Most of the renderer's lines are the first of these, which is why
the modules stand for a small share of the source: they cover the part whose
behaviour depends on who runs when.
