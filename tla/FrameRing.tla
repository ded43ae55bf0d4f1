------------------------------ MODULE FrameRing -----------------------------
(***************************************************************************)
(* The single-producer single-consumer ring of frames (audio_rt, ring.rs). *)
(*                                                                         *)
(* Each end owns one monotonic counter (`written', `read') and loads the   *)
(* other's.  An operation is not atomic: it loads the other counter,       *)
(* copies frame by frame, then publishes its own counter; the other end    *)
(* runs between any two of these steps.  The loads are Acquire loads, not  *)
(* sequentially consistent ones, so a load may return any value the        *)
(* counter has held that is not older than the value last acquired.        *)
(*                                                                         *)
(* A frame stands for the `channels' samples of an interleaved frame: the  *)
(* operations divide the lengths they are given by `channels' first and    *)
(* move whole frames only.                                                 *)
(***************************************************************************)
EXTENDS Integers, Sequences

CONSTANTS
    Frame,      \* what a frame can hold
    Silence,    \* what a slot holds before its first frame
    Skipped,    \* stands, in `out', for a frame discarded unread
    Capacity,   \* frames the ring holds
    MaxBatch,   \* bound: frames one operation is asked for
    MaxFrames   \* bound: frames pushed over the life of the ring

ASSUME CapacityAssumption == Capacity \in Nat \ {0}
ASSUME BoundsAssumption == MaxBatch \in Nat /\ MaxFrames \in Nat
ASSUME MarksAssumption == Silence \notin Frame /\ Skipped \notin Frame

VARIABLES
    buf,            \* the slots
    written,        \* the producer's counter
    read,           \* the consumer's counter
    readLoads,      \* the values a load of `read' by the producer may return
    writtenLoads,   \* the values a load of `written' by the consumer may return
    sawRead,        \* the value of `read' the producer last acquired
    sawWritten,     \* the value of `written' the consumer last acquired
    push,           \* the push under way: its frames, and how many are copied
    fetch,          \* the read under way: frames wanted, and those copied out
    pushed,         \* history: the frames accepted, in order
    out,            \* history: what became of each frame consumed, in order
    lastWrite,      \* history: 1 + the frame last written to each slot, or 0
    lastRead        \* history: 1 + the frame last read from each slot, or 0

counters == <<written, read, readLoads, writtenLoads, sawRead, sawWritten>>
vars == <<buf, written, read, readLoads, writtenLoads, sawRead, sawWritten,
          push, fetch, pushed, out, lastWrite, lastRead>>

Slots == 0..(Capacity - 1)

\* The slot of absolute frame n.
Slot(n) == n % Capacity

\* The slot of the k-th frame copied (from 0) by an operation that starts at
\* absolute frame `at': the first part runs to the end of the buffer, the
\* second restarts at its base.
CopySlot(at, k) ==
    IF Slot(at) + k < Capacity THEN Slot(at) + k ELSE Slot(at) + k - Capacity

Lesser(a, b) == IF a < b THEN a ELSE b

NoPush == [frames |-> <<>>, done |-> 0]
NoFetch == [frames |-> 0, got |-> <<>>]

Pushing == Len(push.frames) > 0
Fetching == fetch.frames > 0

Offers == UNION {[1..n -> Frame] : n \in 0..MaxBatch}

Init ==
    /\ buf = [s \in Slots |-> Silence]
    /\ written = 0 /\ read = 0
    /\ readLoads = {0} /\ writtenLoads = {0}
    /\ sawRead = 0 /\ sawWritten = 0
    /\ push = NoPush /\ fetch = NoFetch
    /\ pushed = <<>> /\ out = <<>>
    /\ lastWrite = [s \in Slots |-> 0]
    /\ lastRead = [s \in Slots |-> 0]

-----------------------------------------------------------------------------
(* The producer. *)

\* Mutant of AcquireRead: a Relaxed load, which orders nothing after it.
AcquireRead_Relaxed(v) == v \in readLoads /\ UNCHANGED <<sawRead, readLoads>>

\* Acquire v: later loads return nothing older.
AcquireRead(v) ==
    /\ v \in readLoads
    /\ sawRead' = v
    /\ readLoads' = {u \in readLoads : u >= v}

\* Mutant of Free: off by one at a full ring.
Free_OffByOne(v) == Capacity - (written - v) + 1

\* Frames that fit, as far as the producer can tell once it has acquired v.
Free(v) == Capacity - (written - v)

\* push: the frames that fit are taken in hand; none and it returns 0.
PushBegin(offer, v) ==
    /\ ~Pushing
    /\ written + Len(offer) <= MaxFrames
    /\ AcquireRead(v)
    /\ LET frames == Lesser(Len(offer), Free(v))
       IN  push' = IF frames = 0 THEN NoPush
                   ELSE [frames |-> SubSeq(offer, 1, frames), done |-> 0]
    /\ UNCHANGED <<buf, written, read, writtenLoads, sawWritten, fetch,
                   pushed, out, lastWrite, lastRead>>

\* copy, into the ring, one frame.
PushCopy ==
    /\ Pushing
    /\ push.done < Len(push.frames)
    /\ LET s == CopySlot(written, push.done)
       IN  /\ buf' = [buf EXCEPT ![s] = push.frames[push.done + 1]]
           /\ lastWrite' = [lastWrite EXCEPT ![s] = written + push.done + 1]
    /\ push' = [push EXCEPT !.done = @ + 1]
    /\ UNCHANGED <<counters, fetch, pushed, out, lastRead>>

\* Mutant of PushPublish: the counter is stored before the copy is complete.
PushPublish_Early ==
    /\ Pushing
    /\ push.done < Len(push.frames)
    /\ written' = written + Len(push.frames)
    /\ writtenLoads' = writtenLoads \cup {written'}
    /\ pushed' = pushed \o push.frames
    /\ push' = NoPush
    /\ UNCHANGED <<buf, read, readLoads, sawRead, sawWritten, fetch, out,
                   lastWrite, lastRead>>

\* The Release store of `written' and the return.
PushPublish ==
    /\ Pushing
    /\ push.done = Len(push.frames)
    /\ written' = written + Len(push.frames)
    /\ writtenLoads' = writtenLoads \cup {written'}
    /\ pushed' = pushed \o push.frames
    /\ push' = NoPush
    /\ UNCHANGED <<buf, read, readLoads, sawRead, sawWritten, fetch, out,
                   lastWrite, lastRead>>

-----------------------------------------------------------------------------
(* The consumer. *)

AcquireWritten(v) ==
    /\ v \in writtenLoads
    /\ sawWritten' = v
    /\ writtenLoads' = {u \in writtenLoads : u >= v}

\* Frames readable, as far as the consumer can tell once it has acquired v.
Available(v) == v - read

FetchBegin(frames, v) ==
    /\ ~Fetching
    /\ AcquireWritten(v)
    /\ fetch' = [frames |-> frames, got |-> <<>>]
    /\ UNCHANGED <<buf, written, read, readLoads, sawRead, push, pushed, out,
                   lastWrite, lastRead>>

\* read_exact: everything asked for, or nothing (false).
ReadExact(want, v) ==
    FetchBegin(IF want > Available(v) THEN 0 ELSE want, v)

\* Mutant of ReadUpTo: what is available is not checked.
ReadUpTo_Unchecked(want, v) == FetchBegin(want, v)

\* read_up_to: what there is of what was asked for.
ReadUpTo(want, v) == FetchBegin(Lesser(want, Available(v)), v)

\* copy, out of the ring, one frame.
FetchCopy ==
    /\ Fetching
    /\ Len(fetch.got) < fetch.frames
    /\ LET k == Len(fetch.got)
           s == CopySlot(read, k)
       IN  /\ fetch' = [fetch EXCEPT !.got = Append(@, buf[s])]
           /\ lastRead' = [lastRead EXCEPT ![s] = read + k + 1]
    /\ UNCHANGED <<buf, counters, push, pushed, out, lastWrite>>

\* Mutant of Release: the slots are never handed back.
Release_Forgotten(n, as) == UNCHANGED <<read, readLoads, out>>

\* The Release store of `read' that hands n slots back.
Release(n, as) ==
    /\ read' = read + n
    /\ readLoads' = readLoads \cup {read'}
    /\ out' = out \o as

\* The end of read_exact and of read_up_to.
FetchPublish ==
    /\ Fetching
    /\ Len(fetch.got) = fetch.frames
    /\ Release(fetch.frames, fetch.got)
    /\ fetch' = NoFetch
    /\ UNCHANGED <<buf, written, writtenLoads, sawRead, sawWritten, push,
                   pushed, lastWrite, lastRead>>

\* Mutant of Discard: what is available is not checked.
Discard_Unchecked(n, v) ==
    /\ ~Fetching
    /\ AcquireWritten(v)
    /\ Release(n, [i \in 1..n |-> Skipped])
    /\ UNCHANGED <<buf, written, sawRead, push, fetch, pushed, lastWrite,
                   lastRead>>

\* discard: up to n frames dropped unread.
Discard(n, v) ==
    /\ ~Fetching
    /\ AcquireWritten(v)
    /\ LET frames == Lesser(n, Available(v))
       IN  Release(frames, [i \in 1..frames |-> Skipped])
    /\ UNCHANGED <<buf, written, sawRead, push, fetch, pushed, lastWrite,
                   lastRead>>

-----------------------------------------------------------------------------

Produce == (\E offer \in Offers, v \in readLoads : PushBegin(offer, v))
           \/ PushCopy \/ PushPublish

Consume == (\E n \in 0..MaxBatch, v \in writtenLoads :
              ReadExact(n, v) \/ ReadUpTo(n, v) \/ Discard(n, v))
           \/ FetchCopy \/ FetchPublish

Next == Produce \/ Consume

Spec == Init /\ [][Next]_vars

\* A copy under way ends, since nothing in it waits.  The output callback runs
\* every period and asks for at least a frame, and a store is visible to the
\* other thread in finite time, so a read that loads the newest `written'
\* happens again and again.  Nothing is assumed of the producer's arrival.
FairSpec ==
    /\ Spec
    /\ WF_vars(PushCopy \/ PushPublish)
    /\ WF_vars(FetchCopy \/ FetchPublish)
    /\ WF_vars(\E n \in 1..MaxBatch : ReadUpTo(n, written))

-----------------------------------------------------------------------------
(* Properties. *)

\* Every variable has its type.
TypeOK ==
    /\ buf \in [Slots -> Frame \cup {Silence}]
    /\ written \in Nat /\ read \in Nat
    /\ readLoads \subseteq Nat /\ writtenLoads \subseteq Nat
    /\ sawRead \in Nat /\ sawWritten \in Nat
    /\ push.frames \in Seq(Frame) /\ push.done \in Nat
    /\ push = [frames |-> push.frames, done |-> push.done]
    /\ fetch.frames \in Nat /\ fetch.got \in Seq(Frame \cup {Silence})
    /\ fetch = [frames |-> fetch.frames, got |-> fetch.got]
    /\ pushed \in Seq(Frame)
    /\ out \in Seq(Frame \cup {Silence, Skipped})
    /\ lastWrite \in [Slots -> Nat]
    /\ lastRead \in [Slots -> Nat]

\* ring.rs, `free' and `available': the differences of a counter and a value
\* of the other loaded earlier never wrap below zero and never exceed the
\* capacity, however stale the load.
DifferencesInRange ==
    /\ written - sawRead \in 0..Capacity
    /\ sawWritten - read \in 0..Capacity

\* ring.rs, the SAFETY argument of `Sync for Shared': no data race.  Whenever
\* the producer is about to write a slot, the store that released the last
\* read of that slot is one it has acquired; whenever the consumer is about to
\* read a slot, the store that published its last write is one it has acquired.
RaceFree ==
    /\ Pushing /\ push.done < Len(push.frames)
         => lastRead[CopySlot(written, push.done)] <= sawRead
    /\ Fetching /\ Len(fetch.got) < fetch.frames
         => lastWrite[CopySlot(read, Len(fetch.got))] <= sawWritten

\* ring.rs, module comment: the consumer gets the frames the producer pushed,
\* each once and in order; a frame it does not get is one it discarded.
InOrder ==
    /\ Len(out) <= Len(pushed)
    /\ \A i \in 1..Len(out) : out[i] \in {pushed[i], Skipped}

\* What a load may return lies between what was acquired and the counter.
LoadsInv ==
    /\ read \in readLoads
    /\ written \in writtenLoads
    /\ \A v \in readLoads : sawRead <= v /\ v <= read
    /\ \A v \in writtenLoads : sawWritten <= v /\ v <= written

\* An operation under way stays inside the region its end owns.
RegionInv ==
    /\ push.done <= Len(push.frames)
    /\ written + Len(push.frames) <= sawRead + Capacity
    /\ Len(fetch.got) <= fetch.frames
    /\ read + fetch.frames <= sawWritten

\* The slots hold the frames the counters say they hold, and so do the frames
\* copied so far by the operations under way.
ContentsInv ==
    /\ Len(pushed) = written
    /\ Len(out) = read
    /\ \A n \in read..(written - 1) : buf[Slot(n)] = pushed[n + 1]
    /\ \A k \in 0..(push.done - 1) :
          buf[Slot(written + k)] = push.frames[k + 1]
    /\ \A k \in 1..Len(fetch.got) : fetch.got[k] = pushed[read + k]
    /\ \A i \in 1..Len(out) : out[i] \in {pushed[i], Skipped}

\* The last accesses of a slot were for frames of that slot, no further than
\* each end has got.
AccessInv ==
    \A s \in Slots :
        /\ lastWrite[s] > 0 => /\ lastWrite[s] <= written + push.done
                               /\ Slot(lastWrite[s] - 1) = s
        /\ lastRead[s] > 0 => /\ lastRead[s] <= read + Len(fetch.got)
                              /\ Slot(lastRead[s] - 1) = s

\* The inductive invariant: what TLAPS proves every step preserves.
IInv == TypeOK /\ LoadsInv /\ RegionInv /\ ContentsInv /\ AccessInv

\* The frames the counters cover, oldest first.
Unread == [i \in 1..(written - read) |-> buf[Slot(read + i - 1)]]

\* The ring implements the bounded queue: the frames queued are those its
\* counters cover, and what left it is what the reads returned.
Queue == INSTANCE FrameQueue WITH queue <- Unread, taken <- out
ImplementsQueue == Queue!Spec

\* A frame published leaves the ring as long as the callback keeps reading,
\* however the pushes interleave: neither counter can get stuck.
PublishedFramesLeave ==
    \A n \in 1..MaxFrames : written >= n ~> read >= n

=============================================================================
