----------------------------- MODULE PipeCapture ----------------------------
(***************************************************************************)
(* The capture of a pipe or a file (sync_host/reader.rs): a reader thread  *)
(* that reads the source and hands chunks to the host through a bounded    *)
(* channel, and the methods of Capture the host thread calls.              *)
(*                                                                         *)
(* The two threads share the channel and three atomics: `stop', `paced'    *)
(* and `queued', the count of chunks handed over and not taken.  The count *)
(* is kept beside the channel, not with it: the reader adds to it before   *)
(* it sends, subtracts when the channel was full, the host subtracts after *)
(* it received and zeroes it after it discarded.  Each of those is a step  *)
(* of its own.  The count is a `usize': it wraps.                          *)
(*                                                                         *)
(* A chunk is one read of the source.  Chunks are numbered in the order    *)
(* they are read, and `skipped' counts chunks instead of bytes.  The       *)
(* silence that ends the stream of a FIFO is a flag the clock may raise at *)
(* any time and that data, or a paced wait, lowers.                        *)
(***************************************************************************)
EXTENDS Integers, Sequences, FiniteSets

CONSTANTS
    Kinds,              \* the sources captured: of "Fifo", "ToEnd" (ReadKind)
    QueueChunks,        \* QUEUE_CHUNKS: what the channel holds
    PacedQueueChunks,   \* PACED_QUEUE_CHUNKS: where a paced reader stops
    CounterSize,        \* values a `usize' takes: arithmetic is modulo it
    MaxChunks,          \* bound: chunks the source delivers
    MaxDiscards,        \* bound: times the host discards
    MaxSwitches         \* bound: times the host changes the pacing

ASSUME KindsAssumption == Kinds \subseteq {"Fifo", "ToEnd"}
ASSUME SizesAssumption ==
    /\ PacedQueueChunks \in Nat \ {0}
    /\ QueueChunks \in Nat /\ QueueChunks > PacedQueueChunks
    /\ CounterSize \in Nat /\ CounterSize > QueueChunks + 2
ASSUME BoundsAssumption ==
    MaxChunks \in Nat /\ MaxDiscards \in Nat /\ MaxSwitches \in Nat

VARIABLES
    kind,       \* what is captured
    unread,     \* chunks the source holds, written and not read
    written,    \* chunks written to the source so far
    closed,     \* a file's end, or the writer of standard input, is reached
    quiet,      \* END_OF_STREAM_S has passed since `last_data'
    queue,      \* the channel
    open,       \* the host holds the receiving end
    stop,       \* Capture::stop
    paced,      \* Capture::paced
    queued,     \* Capture::queued
    reader,     \* the reader: where it is, and its locals
    bytesRead,  \* ReaderStats::bytes_read, in chunks
    dropped,    \* ReaderStats::chunks_dropped
    host,       \* the host: the Capture method under way, or "idle"
    discards,   \* history: times the host discarded
    switches,   \* history: times the host changed the pacing
    lastGone,   \* history: the last chunk that left the channel
    heard       \* history: the last message received: "none", or its kind

source == <<kind, unread, written, closed>>
channel == <<queue, open>>
stats == <<bytesRead, dropped>>
history == <<discards, switches, lastGone, heard>>
vars == <<kind, unread, written, closed, quiet, queue, open, stop, paced,
          queued, reader, bytesRead, dropped, host, discards, switches, lastGone, heard>>

Start == [kind |-> "Start"]
End == [kind |-> "End"]
Chunk(n, skipped) == [kind |-> "Chunk", n |-> n, skipped |-> skipped]
IsChunk(m) == m.kind = "Chunk"

ReaderSteps == {"top", "gate", "read", "start", "count", "hand", "undo",
                "end", "eof", "done"}
HostSteps == {"idle", "taken", "drain", "zero", "close", "join", "gone"}

\* Mutant of Paced0: a file's pacing is only set once its thread runs.
Paced0_Late == FALSE

\* spawn_read_loop: whether the source is paced is said before its first read.
Paced0 == kind = "ToEnd"

Init ==
    /\ kind \in Kinds
    /\ unread = 0 /\ written = 0 /\ closed = FALSE
    /\ quiet = FALSE
    /\ queue = <<>> /\ open = TRUE
    /\ stop = FALSE
    /\ paced = Paced0
    /\ queued = 0
    /\ reader = [at |-> "top", pacedNow |-> FALSE, inStream |-> FALSE,
                 skipped |-> 0, chunk |-> Start]
    /\ bytesRead = 0 /\ dropped = 0
    /\ host = "idle"
    /\ discards = 0 /\ switches = 0 /\ lastGone = 0 /\ heard = "none"

\* Wrapping addition on a `usize'.
Plus(n, d) == (n + d) % CounterSize

-----------------------------------------------------------------------------
(* The source and the clock. *)

\* The writer writes a chunk: a FIFO takes what its buffer has room for.
Write ==
    /\ ~closed
    /\ written < MaxChunks
    /\ unread < QueueChunks
    /\ unread' = unread + 1 /\ written' = written + 1
    /\ UNCHANGED <<kind, closed, quiet, channel, stop, paced, queued, reader,
                   stats, host, history>>

\* The end of a file; a FIFO is held open for writing and has none.
Close ==
    /\ kind = "ToEnd"
    /\ ~closed /\ closed' = TRUE
    /\ UNCHANGED <<kind, unread, written, quiet, channel, stop, paced, queued,
                   reader, stats, host, history>>

\* Time passes without data.
Silence ==
    /\ kind = "Fifo"
    /\ reader.inStream
    /\ ~quiet /\ quiet' = TRUE
    /\ UNCHANGED <<source, channel, stop, paced, queued, reader, stats, host,
                   history>>

-----------------------------------------------------------------------------
(* The reader thread: read_loop. *)

At(step) == reader.at = step
Goto(step) == reader' = [reader EXCEPT !.at = step]

\* The head of the loop: stop, or load `paced'.
Top ==
    /\ At("top")
    /\ IF stop THEN Goto("done")
       ELSE reader' = [reader EXCEPT !.pacedNow = paced,
                                     !.at = IF paced THEN "gate" ELSE "read"]
    /\ UNCHANGED <<source, quiet, channel, stop, paced, queued, stats, host,
                   history>>

\* Mutant of Gate: one chunk too many.
Gate_OffByOne ==
    /\ At("gate")
    /\ IF queued > PacedQueueChunks
       THEN quiet' = FALSE /\ Goto("top")
       ELSE UNCHANGED quiet /\ Goto("read")
    /\ UNCHANGED <<source, channel, stop, paced, queued, stats, host, history>>

\* A paced reader with enough waiting reads no further, and counts no silence.
Gate ==
    /\ At("gate")
    /\ IF queued >= PacedQueueChunks
       THEN quiet' = FALSE /\ Goto("top")
       ELSE UNCHANGED quiet /\ Goto("read")
    /\ UNCHANGED <<source, channel, stop, paced, queued, stats, host, history>>

\* Bytes were read: the first ones of a stream start it.
ReadBytes ==
    /\ At("read")
    /\ unread > 0
    /\ unread' = unread - 1
    /\ quiet' = FALSE
    /\ reader' = [reader EXCEPT !.inStream = TRUE,
                     !.at = IF reader.inStream THEN "count" ELSE "start"]
    /\ UNCHANGED <<kind, written, closed, channel, stop, paced, queued, stats,
                   host, history>>

\* Mutant of ReadNothing: the reader of a file stops without saying so.
ReadNothing_Mute ==
    /\ At("read")
    /\ unread = 0
    /\ IF closed THEN Goto("done")
       ELSE IF kind = "Fifo" /\ reader.inStream /\ quiet
       THEN reader' = [reader EXCEPT !.inStream = FALSE, !.at = "end"]
       ELSE Goto("top")
    /\ UNCHANGED <<source, quiet, channel, stop, paced, queued, stats, host,
                   history>>

\* Nothing to read: the end of a file, the end of a FIFO's stream, or the
\* next turn.
ReadNothing ==
    /\ At("read")
    /\ unread = 0
    /\ IF closed
       THEN Goto(IF reader.inStream THEN "eof" ELSE "done")
       ELSE IF kind = "Fifo" /\ reader.inStream /\ quiet
       THEN reader' = [reader EXCEPT !.inStream = FALSE, !.at = "end"]
       ELSE Goto("top")
    /\ UNCHANGED <<source, quiet, channel, stop, paced, queued, stats, host,
                   history>>

\* A blocking send: waits for room, and fails when the receiver is gone.
Send(m, then, else) ==
    \/ ~open /\ Goto(else) /\ UNCHANGED queue
    \/ /\ open /\ Len(queue) < QueueChunks
       /\ queue' = Append(queue, m) /\ Goto(then)

SendStart ==
    /\ At("start")
    /\ Send(Start, "count", "done")
    /\ UNCHANGED <<source, quiet, open, stop, paced, queued, stats, host,
                   history>>

SendEnd ==
    /\ \/ At("end") /\ Send(End, "top", "done")
       \/ At("eof") /\ Send(End, "done", "done")
    /\ UNCHANGED <<source, quiet, open, stop, paced, queued, stats, host,
                   history>>

\* The chunk is made, with what was skipped before it, and counted.
Count ==
    /\ At("count")
    /\ bytesRead' = bytesRead + 1
    /\ reader' = [reader EXCEPT !.chunk = Chunk(bytesRead', reader.skipped),
                                !.skipped = 0,
                                !.at = "hand"]
    /\ queued' = Plus(queued, 1)
    /\ UNCHANGED <<source, quiet, channel, stop, paced, dropped, host, history>>

\* The chunk is handed over: waited for when paced, tried when followed.
HandOver ==
    /\ At("hand")
    /\ \/ Send(reader.chunk, "top", "done")
       \/ /\ ~reader.pacedNow
          /\ open /\ Len(queue) >= QueueChunks
          /\ Goto("undo") /\ UNCHANGED queue
    /\ UNCHANGED <<source, quiet, open, stop, paced, queued, stats, host,
                   history>>

\* Mutant of Undo: what the dropped chunk itself had skipped is forgotten.
Undo_Forgetful ==
    /\ At("undo")
    /\ reader' = [reader EXCEPT !.skipped = 1, !.at = "top"]
    /\ queued' = Plus(queued, CounterSize - 1)
    /\ dropped' = dropped + 1
    /\ UNCHANGED <<source, quiet, channel, stop, paced, bytesRead, host,
                   history>>

\* Mutant of Undo: the dropped chunk stays counted.
Undo_Counted ==
    /\ At("undo")
    /\ reader' = [reader EXCEPT !.skipped = reader.chunk.skipped + 1,
                                !.at = "top"]
    /\ dropped' = dropped + 1
    /\ UNCHANGED <<source, quiet, channel, stop, paced, queued, bytesRead,
                   host, history>>

\* The channel was full: the chunk is skipped, and not counted after all.
Undo ==
    /\ At("undo")
    /\ reader' = [reader EXCEPT !.skipped = reader.chunk.skipped + 1,
                                !.at = "top"]
    /\ queued' = Plus(queued, CounterSize - 1)
    /\ dropped' = dropped + 1
    /\ UNCHANGED <<source, quiet, channel, stop, paced, bytesRead, host,
                   history>>

Read == Top \/ Gate \/ ReadBytes \/ ReadNothing \/ SendStart \/ SendEnd
        \/ Count \/ HandOver \/ Undo

-----------------------------------------------------------------------------
(* The host thread: the methods of Capture. *)

Leaves(m) == lastGone' = IF IsChunk(m) THEN m.n ELSE lastGone

\* recv_timeout: a message is taken off the channel.
Recv ==
    /\ host = "idle"
    /\ queue # <<>>
    /\ queue' = Tail(queue)
    /\ heard' = Head(queue).kind
    /\ Leaves(Head(queue))
    /\ host' = IF IsChunk(Head(queue)) THEN "taken" ELSE "idle"
    /\ UNCHANGED <<source, quiet, open, stop, paced, queued, reader, stats,
                   discards, switches>>

\* Mutant of Taken: the count is not checked against none.
Taken_Unchecked ==
    /\ host = "taken"
    /\ host' = "idle"
    /\ queued' = queued - 1
    /\ UNCHANGED <<source, quiet, channel, stop, paced, reader, stats, history>>

\* Mutant of Taken: what is received stays counted.
Taken_Forgotten ==
    /\ host = "taken"
    /\ host' = "idle"
    /\ UNCHANGED <<source, quiet, channel, stop, paced, queued, reader, stats,
                   history>>

\* recv_timeout: one less waiting, never below none.
Taken ==
    /\ host = "taken"
    /\ host' = "idle"
    /\ queued' = IF queued > 0 THEN queued - 1 ELSE 0
    /\ UNCHANGED <<source, quiet, channel, stop, paced, reader, stats, history>>

\* discard_pending is called: at a standby, or by a run that takes the
\* capture of the last one over.
Discard ==
    /\ host = "idle"
    /\ discards < MaxDiscards
    /\ discards' = discards + 1
    /\ host' = "drain"
    /\ UNCHANGED <<source, quiet, channel, stop, paced, queued, reader, stats,
                   switches, lastGone, heard>>

\* discard_pending: what is in the channel goes, one message at a time.
Drain ==
    /\ host = "drain"
    /\ IF queue # <<>>
       THEN /\ queue' = Tail(queue)
            /\ Leaves(Head(queue))
            /\ UNCHANGED host
       ELSE host' = "zero" /\ UNCHANGED <<queue, lastGone>>
    /\ UNCHANGED <<source, quiet, open, stop, paced, queued, reader, stats,
                   discards, switches, heard>>

\* discard_pending: the count is stored.
Zero ==
    /\ host = "zero"
    /\ host' = "idle"
    /\ queued' = 0
    /\ UNCHANGED <<source, quiet, channel, stop, paced, reader, stats, history>>

\* set_paced: the source clock of a pipe is changed (a file is always paced).
SetPaced ==
    /\ kind = "Fifo"
    /\ host = "idle"
    /\ switches < MaxSwitches
    /\ switches' = switches + 1
    /\ paced' = ~paced
    /\ UNCHANGED <<source, quiet, channel, stop, queued, reader, stats, host,
                   discards, lastGone, heard>>

\* drop: the stop flag is raised ...
DropStop ==
    /\ host = "idle"
    /\ stop' = TRUE /\ host' = "close"
    /\ UNCHANGED <<source, quiet, channel, paced, queued, reader, stats,
                   history>>

\* Mutant of DropClose: the thread is waited for with the receiver open.
DropClose_Later ==
    /\ host = "close"
    /\ host' = "join"
    /\ UNCHANGED <<source, quiet, channel, stop, paced, queued, reader, stats,
                   history>>

\* ... the receiver is closed, with what the channel held ...
DropClose ==
    /\ host = "close"
    /\ open' = FALSE /\ queue' = <<>>
    /\ host' = "join"
    /\ UNCHANGED <<source, quiet, stop, paced, queued, reader, stats, history>>

\* ... and the thread is waited for.
DropJoin ==
    /\ host = "join"
    /\ At("done")
    /\ host' = "gone"
    /\ UNCHANGED <<source, quiet, channel, stop, paced, queued, reader, stats,
                   history>>

Host == Recv \/ Taken \/ Discard \/ Drain \/ Zero \/ SetPaced
        \/ DropStop \/ DropClose \/ DropJoin

Next == Write \/ Close \/ Silence \/ Read \/ Host

Spec == Init /\ [][Next]_vars

\* The reader thread runs whenever it can: its sleeps and its polls end.  The
\* host's run loop turns for ever, and takes a message whenever it is not in
\* another method; no call in a method of Capture waits for anything but the
\* thread joined.  Nothing is assumed of the writer, of the clock, or of what
\* the host may be asked for.
FairSpec ==
    /\ Spec
    /\ WF_vars(Read)
    /\ WF_vars(Recv) /\ WF_vars(Taken \/ Drain \/ Zero)
    /\ WF_vars(DropClose) /\ WF_vars(DropJoin)

-----------------------------------------------------------------------------
(* Properties. *)

Messages == {Start, End} \cup
            {Chunk(n, k) : n \in 1..MaxChunks, k \in 0..MaxChunks}
Readers == [at : ReaderSteps, pacedNow : BOOLEAN, inStream : BOOLEAN,
            skipped : 0..MaxChunks, chunk : Messages]

\* Every variable has its type.
TypeOK ==
    /\ kind \in Kinds
    /\ unread \in 0..QueueChunks /\ written \in 0..MaxChunks
    /\ queue \in Seq(Messages) /\ Len(queue) <= QueueChunks
    /\ closed \in BOOLEAN /\ quiet \in BOOLEAN
    /\ open \in BOOLEAN /\ stop \in BOOLEAN /\ paced \in BOOLEAN
    /\ queued \in 0..(CounterSize - 1)
    /\ reader \in Readers
    /\ bytesRead \in 0..MaxChunks /\ dropped \in 0..MaxChunks
    /\ host \in HostSteps
    /\ discards \in 0..MaxDiscards /\ switches \in 0..MaxSwitches
    /\ lastGone \in 0..MaxChunks
    /\ heard \in {"none", "Start", "Chunk", "End"}

\* The places of the channel that hold a chunk, and the number of chunks waiting:
\* those, and the one in hand.
Chunks(q) == {i \in 1..Len(q) : IsChunk(q[i])}
InHand == At("hand") \/ At("undo")
Waiting == Cardinality(Chunks(queue)) + (IF InHand THEN 1 ELSE 0)

\* The last chunk before place i of the channel q is number n; `gone' left it last.
LastBefore(q, gone, i, n) ==
    \/ n = gone /\ \A j \in Chunks(q) : j >= i
    \/ \E j \in Chunks(q) :
          j < i /\ n = q[j].n /\ \A k \in Chunks(q) : k < i => k <= j

\* The number of the last chunk handed over before the chunk m.
Precedes(m) == m.n - m.skipped - 1

\* reader.rs:40: a chunk says how much was read just before it and not handed
\* over.  So the chunk that leaves, the chunks waiting and the one to come
\* follow each other without a hole or an overlap, whatever was dropped, and
\* the host can place each on the carrier's timeline.
SkippedAccounts ==
    open =>
        /\ \A i \in Chunks(queue) : LastBefore(queue, lastGone, i, Precedes(queue[i]))
        /\ LastBefore(queue, lastGone, Len(queue) + 1,
                      IF InHand THEN Precedes(reader.chunk)
                      ELSE bytesRead - reader.skipped)

\* reader.rs:117: while nothing was discarded, `queued' is the number of chunks
\* handed over and not taken, but for those whose hand-over or whose taking is
\* under way.
CountMatches ==
    discards = 0 /\ open =>
        queued = Waiting + (IF host = "taken" THEN 1 ELSE 0)

\* reader.rs:293: a source that is paced from its first byte is read no more
\* than PACED_QUEUE_CHUNKS ahead of the host.  Each discard may add as much: it
\* zeroes the count under the chunks handed over since it found the channel
\* empty, and the count stays that much short until the channel is empty again.
PacedHoldsBack ==
    kind = "ToEnd" => Waiting <= PacedQueueChunks * (1 + discards)

\* reader.rs:537: nothing is dropped from a file.
FileWhole == kind = "ToEnd" => dropped = 0 /\ reader.skipped = 0

\* reader.rs:211: a file is one stream, delivered whole: once its end is
\* reached, the host that neither discards nor drops the capture hears the end
\* of a stream of all its chunks, and of an empty file nothing.
FileDelivered ==
    closed ~> \/ discards > 0 \/ stop
              \/ written = 0 /\ At("done") /\ heard = "none"
              \/ lastGone = written /\ heard = "End"

\* The host has taken all there is, and the source holds more.
HostStarves == host = "idle" /\ open /\ queue = <<>> /\ unread > 0

\* reader.rs:135: the reader waits for the host to take what it read, and then
\* it reads on: a host that has taken everything gets what the source holds,
\* however the pacing was changed before.
ReadsOn == HostStarves ~> ~HostStarves

\* The same of a host that discards nothing: the count of queued chunks then
\* comes down with every chunk taken.
ReadsOnUndiscarded == HostStarves ~> ~HostStarves \/ discards > 0

\* reader.rs:102: dropping the capture stops its thread and waits for it, and
\* that wait ends, wherever the thread was.
DropEnds == host = "close" ~> host = "gone"

=============================================================================
