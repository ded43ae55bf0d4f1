--------------------------- MODULE FrameRingProofs --------------------------
(***************************************************************************)
(* Proofs about FrameRing, for every capacity, every set of frames and     *)
(* every bound.  First the arithmetic of the slots, then the inductive     *)
(* invariant, then what follows from it; last, the abstract queue that the *)
(* ring implements.                                                        *)
(***************************************************************************)
EXTENDS FrameRing, SequenceTheorems, TLAPS

-----------------------------------------------------------------------------
(* The slots: `%' is only ever reasoned about here. *)

\* Every frame has a slot of the buffer.
LEMMA SlotInRange ==
    ASSUME NEW n \in Nat
    PROVE  Slot(n) \in Slots
BY CapacityAssumption DEF Slot, Slots

\* Euclid's division of a frame number by the capacity.
LEMMA SlotDivision ==
    ASSUME NEW n \in Nat
    PROVE  /\ n = Capacity * (n \div Capacity) + Slot(n)
           /\ n \div Capacity \in Nat
BY CapacityAssumption DEF Slot

\* Two laps of the buffer are at least a capacity apart.
LEMMA LapsApart ==
    ASSUME NEW p \in Nat, NEW q \in Nat, p < q
    PROVE  Capacity * q >= Capacity * p + Capacity
<1>1. Capacity * q >= Capacity * (p + 1)
  BY CapacityAssumption
<1>2. Capacity * (p + 1) = Capacity * p + Capacity
  BY CapacityAssumption
<1> QED
  BY <1>1, <1>2, CapacityAssumption

\* The remainder is the only one: a frame q laps and r slots on is in slot r.
LEMMA SlotUnique ==
    ASSUME NEW n \in Nat, NEW q \in Nat, NEW r \in Slots,
           n = Capacity * q + r
    PROVE  Slot(n) = r
<1> DEFINE p == n \div Capacity
<1>1. n = Capacity * p + Slot(n) /\ p \in Nat
  BY SlotDivision
<1>2. Slot(n) \in 0..(Capacity - 1) /\ r \in 0..(Capacity - 1)
  BY SlotInRange DEF Slots
<1> HIDE DEF p
<1>3. Capacity * p \in Nat /\ Capacity * q \in Nat
  BY <1>1, CapacityAssumption
<1>4. p = q
  <2>1. ~(p < q)
    BY <1>1, <1>2, <1>3, LapsApart, CapacityAssumption
  <2>2. ~(q < p)
    BY <1>1, <1>2, <1>3, LapsApart, CapacityAssumption
  <2> QED
    BY <2>1, <2>2, <1>1
<1> QED
  BY <1>1, <1>2, <1>3, <1>4, CapacityAssumption

\* ring.rs `copy': the two parts of a copy put its k-th frame where absolute
\* frame at + k belongs.
LEMMA CopySlotIsSlot ==
    ASSUME NEW at \in Nat, NEW k \in Nat, k < Capacity
    PROVE  CopySlot(at, k) = Slot(at + k)
<1> DEFINE q == at \div Capacity
<1>1. at = Capacity * q + Slot(at) /\ q \in Nat
  BY SlotDivision
<1>2. Slot(at) \in 0..(Capacity - 1)
  BY SlotInRange DEF Slots
<1> HIDE DEF q
<1>3. /\ Capacity * q \in Nat
      /\ Capacity * (q + 1) = Capacity * q + Capacity
  BY <1>1, CapacityAssumption
<1>4. CASE Slot(at) + k < Capacity
  <2>1. Slot(at) + k \in Slots
    BY <1>2, <1>4, CapacityAssumption DEF Slots
  <2>2. at + k = Capacity * q + (Slot(at) + k)
    BY <1>1, <1>2, <1>3
  <2> QED
    BY <2>1, <2>2, <1>1, <1>4, SlotUnique DEF CopySlot
<1>5. CASE ~(Slot(at) + k < Capacity)
  <2>1. Slot(at) + k - Capacity \in Slots
    BY <1>2, <1>5, CapacityAssumption DEF Slots
  <2>2. at + k = Capacity * (q + 1) + (Slot(at) + k - Capacity)
    BY <1>1, <1>2, <1>3, CapacityAssumption
  <2> QED
    BY <2>1, <2>2, <1>1, <1>5, SlotUnique DEF CopySlot
<1> QED
  BY <1>4, <1>5

\* Two frames that share a slot are at least a capacity apart: the frames of
\* any window of `Capacity' have slots of their own.
LEMMA SlotsApart ==
    ASSUME NEW a \in Nat, NEW b \in Nat, Slot(a) = Slot(b), a < b
    PROVE  b >= a + Capacity
<1> DEFINE p == a \div Capacity
           q == b \div Capacity
<1>1. a = Capacity * p + Slot(a) /\ p \in Nat
  BY SlotDivision
<1>2. b = Capacity * q + Slot(b) /\ q \in Nat
  BY SlotDivision
<1>3. Slot(a) \in 0..(Capacity - 1)
  BY SlotInRange DEF Slots
<1> HIDE DEF p, q
<1>4. Capacity * p \in Nat /\ Capacity * q \in Nat
  BY <1>1, <1>2, CapacityAssumption
<1>5. ~(q < p)
  BY <1>1, <1>2, <1>3, <1>4, LapsApart, CapacityAssumption
<1>6. p # q
  BY <1>1, <1>2, <1>3, <1>4
<1>7. Capacity * q >= Capacity * p + Capacity
  BY <1>1, <1>2, <1>5, <1>6, LapsApart
<1> QED
  BY <1>1, <1>2, <1>3, <1>4, <1>7, CapacityAssumption

-----------------------------------------------------------------------------
(* The inductive invariant. *)

\* The initial state satisfies the inductive invariant.
LEMMA InitInvariant == Init => IInv
<1> SUFFICES ASSUME Init PROVE IInv
  OBVIOUS
<1> USE CapacityAssumption DEF Init, NoPush, NoFetch
<1>1. TypeOK
  BY SlotInRange DEF TypeOK
<1>2. LoadsInv
  BY DEF LoadsInv
<1>3. RegionInv
  BY DEF RegionInv
<1>4. ContentsInv
  BY DEF ContentsInv
<1>5. AccessInv
  BY DEF AccessInv
<1> QED
  BY <1>1, <1>2, <1>3, <1>4, <1>5 DEF IInv

-----------------------------------------------------------------------------
(* The steps of the producer. *)

\* Whatever a push is offered is a sequence of frames.
LEMMA OffersAreSequences == Offers \subseteq Seq(Frame)
BY BoundsAssumption, SeqDef DEF Offers

\* The numbers of a state, as the solver needs them.
LEMMA Numbers ==
    ASSUME IInv
    PROVE  /\ written \in Nat /\ read \in Nat
           /\ sawRead \in Nat /\ sawWritten \in Nat
           /\ readLoads \subseteq Nat /\ writtenLoads \subseteq Nat
           /\ push.done \in Nat /\ Len(push.frames) \in Nat
           /\ fetch.frames \in Nat /\ Len(fetch.got) \in Nat
           /\ sawRead <= read /\ read <= sawWritten /\ sawWritten <= written
           /\ push.done <= Len(push.frames)
           /\ written + Len(push.frames) <= sawRead + Capacity
           /\ Len(fetch.got) <= fetch.frames
           /\ read + fetch.frames <= sawWritten
<1>1. /\ written \in Nat /\ read \in Nat
      /\ sawRead \in Nat /\ sawWritten \in Nat
      /\ readLoads \subseteq Nat /\ writtenLoads \subseteq Nat
      /\ push.done \in Nat /\ push.frames \in Seq(Frame)
      /\ fetch.frames \in Nat /\ fetch.got \in Seq(Frame \cup {Silence})
  BY DEF IInv, TypeOK
<1>2. Len(push.frames) \in Nat /\ Len(fetch.got) \in Nat
  BY <1>1, LenProperties
<1>3. sawRead <= read /\ sawWritten <= written
  BY DEF IInv, LoadsInv
<1>4. /\ push.done <= Len(push.frames)
      /\ written + Len(push.frames) <= sawRead + Capacity
      /\ Len(fetch.got) <= fetch.frames
      /\ read + fetch.frames <= sawWritten
  BY DEF IInv, RegionInv
<1> QED
  BY <1>1, <1>2, <1>3, <1>4

\* Taking the frames that fit in hand preserves the invariant.
LEMMA PushBeginInvariant ==
    ASSUME IInv, NEW offer \in Offers, NEW v \in readLoads,
           PushBegin(offer, v)
    PROVE  IInv'
<1> DEFINE frames == Lesser(Len(offer), Free(v))
<1>1. offer \in Seq(Frame) /\ Len(offer) \in Nat
  BY OffersAreSequences, LenProperties
<1>2. v \in Nat /\ v <= read /\ sawRead <= v
  BY Numbers DEF IInv, LoadsInv
<1>3. Len(push.frames) = 0 /\ push.done = 0
  BY Numbers DEF PushBegin, Pushing
<1>4. frames \in Nat /\ frames <= Len(offer)
      /\ written + frames <= v + Capacity
  <2>1. /\ written \in Nat /\ sawRead \in Nat
        /\ written + Len(push.frames) <= sawRead + Capacity
    BY Numbers
  <2> QED
    BY <1>1, <1>2, <1>3, <2>1, CapacityAssumption DEF Lesser, Free
<1>5. /\ push'.frames \in Seq(Frame)
      /\ Len(push'.frames) = frames
      /\ push'.done = 0
      /\ push' = [frames |-> push'.frames, done |-> push'.done]
  <2>1. push' = IF frames = 0 THEN NoPush
                ELSE [frames |-> SubSeq(offer, 1, frames), done |-> 0]
    BY DEF PushBegin
  <2> HIDE DEF frames
  <2>2. \A i \in 1..frames : offer[i] \in Frame
    BY <1>1, <1>4, ElementOfSeq
  <2>3. CASE frames = 0
    BY <2>1, <2>3, EmptySeq DEF NoPush
  <2>4. CASE frames # 0
    <3>1. /\ SubSeq(offer, 1, frames) \in Seq(Frame)
          /\ Len(SubSeq(offer, 1, frames)) = frames
      <4>1. Len(SubSeq(offer, 1, frames))
              = IF 1 <= frames THEN frames - 1 + 1 ELSE 0
        BY <2>2, <1>4, SubSeqProperties
      <4>2. SubSeq(offer, 1, frames) \in Seq(Frame)
        BY <2>2, <1>4, SubSeqProperties
      <4> QED
        BY <4>1, <4>2, <2>4, <1>4
    <3>2. push' = [frames |-> SubSeq(offer, 1, frames), done |-> 0]
      BY <2>1, <2>4
    <3> QED
      BY <3>1, <3>2
  <2> QED
    BY <2>3, <2>4
<1> HIDE DEF frames
<1>6. /\ sawRead' = v /\ readLoads' = {u \in readLoads : u >= v}
      /\ UNCHANGED <<buf, written, read, writtenLoads, sawWritten, fetch,
                     pushed, out, lastWrite, lastRead>>
  BY DEF PushBegin, AcquireRead
<1>7. TypeOK'
  BY <1>2, <1>5, <1>6 DEF IInv, TypeOK
<1>8. LoadsInv'
  BY <1>2, <1>6, Numbers DEF IInv, LoadsInv
<1>9. RegionInv'
  BY <1>4, <1>5, <1>6, Numbers DEF RegionInv
<1>10. ContentsInv'
  BY <1>5, <1>6 DEF IInv, ContentsInv
<1>11. AccessInv'
  BY <1>3, <1>5, <1>6 DEF IInv, AccessInv
<1> QED
  BY <1>7, <1>8, <1>9, <1>10, <1>11 DEF IInv

\* Copying a frame in preserves the invariant: the slot it overwrites holds no
\* frame still to be read.
LEMMA PushCopyInvariant ==
    ASSUME IInv, PushCopy
    PROVE  IInv'
<1> DEFINE d == push.done
           n == written + d
           f == push.frames[d + 1]
<1>1. /\ d \in Nat /\ n \in Nat /\ d + 1 <= Len(push.frames)
      /\ n < sawRead + Capacity /\ d < Capacity
  <2>1. /\ d \in Nat /\ written \in Nat /\ Len(push.frames) \in Nat
        /\ sawRead \in Nat /\ sawRead <= written
        /\ written + Len(push.frames) <= sawRead + Capacity
    <3>1. sawRead <= read /\ read <= sawWritten /\ sawWritten <= written
      BY Numbers
    <3>2. /\ sawRead \in Nat /\ read \in Nat /\ sawWritten \in Nat /\ written \in Nat
          /\ d \in Nat /\ Len(push.frames) \in Nat
          /\ written + Len(push.frames) <= sawRead + Capacity
      BY Numbers
    <3> QED
      BY <3>1, <3>2
  <2>2. d < Len(push.frames)
    BY DEF PushCopy
  <2> HIDE DEF d
  <2> QED
    BY <2>1, <2>2, CapacityAssumption DEF n
<1>2. CopySlot(written, d) = Slot(n) /\ Slot(n) \in Slots
  BY <1>1, Numbers, CopySlotIsSlot, SlotInRange
<1>3. f \in Frame
  BY <1>1, Numbers, ElementOfSeq DEF IInv, TypeOK
<1>4. /\ buf' = [buf EXCEPT ![Slot(n)] = f]
      /\ lastWrite' = [lastWrite EXCEPT ![Slot(n)] = n + 1]
      /\ push' = [push EXCEPT !.done = @ + 1]
  BY <1>2 DEF PushCopy
<1>5. push' = [frames |-> push.frames, done |-> d + 1]
  BY <1>4 DEF IInv, TypeOK
<1>6. UNCHANGED <<written, read, readLoads, writtenLoads, sawRead, sawWritten,
                  fetch, pushed, out, lastRead>>
  BY DEF PushCopy, counters
<1>7. d = push.done /\ n = written + d /\ f = push.frames[d + 1]
  OBVIOUS
<1> HIDE DEF d, n, f
<1>8. buf \in [Slots -> Frame \cup {Silence}] /\ lastWrite \in [Slots -> Nat]
  BY DEF IInv, TypeOK
<1>9. TypeOK'
  <2>1. buf' \in [Slots -> Frame \cup {Silence}]
        /\ lastWrite' \in [Slots -> Nat]
    BY <1>1, <1>2, <1>3, <1>4, <1>8
  <2>2. /\ push'.frames \in Seq(Frame) /\ push'.done \in Nat
        /\ push' = [frames |-> push'.frames, done |-> push'.done]
    BY <1>1, <1>5 DEF IInv, TypeOK
  <2> QED
    BY <2>1, <2>2, <1>6 DEF IInv, TypeOK
<1>10. LoadsInv'
  BY <1>6 DEF IInv, LoadsInv
<1>11. RegionInv'
  BY <1>1, <1>5, <1>6 DEF IInv, RegionInv
<1>12. ContentsInv'
  <2>1. ASSUME NEW m \in read..(written - 1)
        PROVE  buf'[Slot(m)] = pushed[m + 1]
    <3>1. m \in Nat /\ m < n /\ n < m + Capacity
      <4>1. /\ n = written + d /\ d \in Nat
            /\ written \in Nat /\ read \in Nat /\ sawRead \in Nat
            /\ sawRead <= read /\ n < sawRead + Capacity
        BY <1>1, <1>7, Numbers
      <4> QED
        BY <4>1, CapacityAssumption
    <3>2. Slot(m) # Slot(n) /\ Slot(m) \in Slots
      BY <3>1, <1>1, SlotsApart, SlotInRange, CapacityAssumption
    <3>3. buf[Slot(m)] = pushed[m + 1]
      BY DEF IInv, ContentsInv
    <3> QED
      BY <3>2, <3>3, <1>4, <1>8
  <2>2. ASSUME NEW k \in 0..d
        PROVE  buf'[Slot(written + k)] = push.frames[k + 1]
    <3>1. CASE k = d
      BY <3>1, <1>2, <1>4, <1>7, <1>8
    <3>2. CASE k < d
      <4>1. /\ written + k \in Nat /\ written + k < n
            /\ n < (written + k) + Capacity
        <5>1. /\ n = written + d /\ d \in Nat /\ d < Capacity
              /\ written \in Nat
          BY <1>1, <1>7, Numbers
        <5> QED
          BY <5>1, <3>2, CapacityAssumption
      <4>2. Slot(written + k) # Slot(n) /\ Slot(written + k) \in Slots
        BY <4>1, <1>1, SlotsApart, SlotInRange, CapacityAssumption
      <4>3. k \in 0..(push.done - 1)
        BY <3>2, <1>1, <1>7
      <4>4. buf[Slot(written + k)] = push.frames[k + 1]
        BY <4>3 DEF IInv, ContentsInv
      <4> QED
        BY <4>2, <4>4, <1>4, <1>8
    <3> QED
      BY <3>1, <3>2, <1>1
  <2>3. push'.frames = push.frames /\ push'.done - 1 = d
    BY <1>1, <1>5
  <2> QED
    BY <2>1, <2>2, <2>3, <1>6 DEF IInv, ContentsInv
<1>13. AccessInv'
  <2>1. ASSUME NEW s \in Slots, lastWrite'[s] > 0
        PROVE  lastWrite'[s] <= written + d + 1 /\ Slot(lastWrite'[s] - 1) = s
    <3>1. CASE s = Slot(n)
      <4>1. lastWrite'[s] = n + 1
        BY <3>1, <1>4, <1>7, <1>8
      <4>2. written \in Nat /\ n + 1 - 1 = n
        BY <1>1, Numbers
      <4> QED
        BY <3>1, <4>1, <4>2, <1>1, <1>7
    <3>2. CASE s # Slot(n)
      BY <2>1, <3>2, <1>1, <1>4, <1>7, <1>8, Numbers DEF IInv, AccessInv
    <3> QED
      BY <3>1, <3>2
  <2>2. push'.done = d + 1
    BY <1>5
  <2>3. written + (d + 1) = written + d + 1
    BY <1>1, Numbers
  <2> QED
    BY <2>1, <2>2, <2>3, <1>6 DEF IInv, AccessInv
<1> QED
  BY <1>9, <1>10, <1>11, <1>12, <1>13 DEF IInv

\* Publishing the batch preserves the invariant: the counter covers exactly the
\* frames copied.
LEMMA PushPublishInvariant ==
    ASSUME IInv, PushPublish
    PROVE  IInv'
<1> DEFINE l == Len(push.frames)
<1>1. /\ push.done = l /\ l \in Nat
      /\ push.frames \in Seq(Frame) /\ pushed \in Seq(Frame)
      /\ Len(pushed) = written
  BY Numbers DEF PushPublish, IInv, TypeOK, ContentsInv
<1>2. /\ pushed' \in Seq(Frame)
      /\ Len(pushed') = written + l
      /\ \A i \in 1..(written + l) :
            pushed'[i] = IF i <= written THEN pushed[i]
                         ELSE push.frames[i - written]
  BY <1>1, ConcatProperties DEF PushPublish
<1>3. /\ written' = written + l
      /\ writtenLoads' = writtenLoads \cup {written + l}
      /\ push' = NoPush
      /\ UNCHANGED <<buf, read, readLoads, sawRead, sawWritten, fetch, out,
                     lastWrite, lastRead>>
  BY DEF PushPublish
<1>4. push'.frames = <<>> /\ push'.done = 0 /\ Len(push'.frames) = 0
      /\ push'.frames \in Seq(Frame)
  BY <1>3, EmptySeq DEF NoPush
<1> HIDE DEF l
<1>5. TypeOK'
  <2>1. push' = [frames |-> push'.frames, done |-> push'.done]
    BY <1>3, <1>4 DEF NoPush
  <2>2. /\ push'.done \in Nat /\ written' \in Nat
        /\ writtenLoads' \subseteq Nat
    BY <1>1, <1>3, <1>4, Numbers
  <2> QED
    BY <2>1, <2>2, <1>2, <1>3, <1>4 DEF IInv, TypeOK
<1>6. LoadsInv'
  BY <1>1, <1>3, Numbers DEF IInv, LoadsInv
<1>7. RegionInv'
  BY <1>1, <1>3, <1>4, Numbers DEF RegionInv, l
<1>8. ContentsInv'
  <2>1. ASSUME NEW n \in read..((written + l) - 1)
        PROVE  buf[Slot(n)] = pushed'[n + 1]
    <3>1. CASE n < written
      <4>1. n \in read..(written - 1) /\ n + 1 <= written
            /\ n + 1 \in 1..(written + l)
        BY <3>1, <1>1, Numbers
      <4>2. buf[Slot(n)] = pushed[n + 1]
        BY <4>1 DEF IInv, ContentsInv
      <4> QED
        BY <4>1, <4>2, <1>2
    <3>2. CASE n >= written
      <4>1. /\ n - written \in 0..(push.done - 1)
            /\ written + (n - written) = n
            /\ n + 1 \in 1..(written + l)
            /\ ~(n + 1 <= written)
            /\ (n + 1) - written = (n - written) + 1
        <5>1. /\ written \in Nat /\ read \in Nat /\ l \in Nat
              /\ push.done = l
          BY <1>1, Numbers
        <5> QED
          BY <5>1, <3>2
      <4>2. buf[Slot(written + (n - written))] = push.frames[(n - written) + 1]
        BY <4>1 DEF IInv, ContentsInv
      <4>3. pushed'[n + 1] = push.frames[(n + 1) - written]
        <5>1. \A i \in 1..(written + l) :
                 ~(i <= written) => pushed'[i] = push.frames[i - written]
          BY <1>2
        <5>2. n + 1 \in 1..(written + l) /\ ~(n + 1 <= written)
          BY <4>1
        <5> QED
          BY <5>1, <5>2
      <4> QED
        BY <4>1, <4>2, <4>3
    <3> QED
      BY <3>1, <3>2, Numbers
  <2>2. \A k \in 1..Len(fetch.got) : fetch.got[k] = pushed'[read + k]
    <3> TAKE k \in 1..Len(fetch.got)
    <3>1. read + k \in 1..(written + l) /\ read + k <= written
      <4>1. /\ read \in Nat /\ written \in Nat /\ sawWritten \in Nat /\ l \in Nat
            /\ Len(fetch.got) \in Nat /\ fetch.frames \in Nat
        BY <1>1, Numbers
      <4>2. /\ Len(fetch.got) <= fetch.frames /\ read + fetch.frames <= sawWritten
            /\ sawWritten <= written
        BY Numbers
      <4> QED
        BY <4>1, <4>2
    <3>2. fetch.got[k] = pushed[read + k]
      BY DEF IInv, ContentsInv
    <3> QED
      BY <3>1, <3>2, <1>2
  <2>3. Len(out) = read
    BY DEF IInv, ContentsInv
  <2>4. \A i \in 1..Len(out) : out[i] \in {pushed'[i], Skipped}
    <3> TAKE i \in 1..Len(out)
    <3>1. i \in 1..(written + l) /\ i <= written
      BY <2>3, <1>1, Numbers
    <3>2. out[i] \in {pushed[i], Skipped}
      BY DEF IInv, ContentsInv
    <3> QED
      BY <3>1, <3>2, <1>2
  <2>5. 0..(push'.done - 1) = {}
    BY <1>4
  <2>6. \A n \in read'..(written' - 1) : buf'[Slot(n)] = pushed'[n + 1]
    <3>1. read' = read /\ written' - 1 = (written + l) - 1 /\ buf' = buf
      BY <1>3
    <3> QED
      BY <2>1, <3>1
  <2>7. \A k \in 0..(push'.done - 1) :
           buf'[Slot(written' + k)] = push'.frames[k + 1]
    BY <2>5
  <2>8. /\ \A k \in 1..Len(fetch'.got) : fetch'.got[k] = pushed'[read' + k]
        /\ Len(out') = read' /\ Len(pushed') = written'
        /\ \A i \in 1..Len(out') : out'[i] \in {pushed'[i], Skipped}
    BY <2>2, <2>3, <2>4, <1>2, <1>3
  <2> QED
    BY <2>6, <2>7, <2>8 DEF ContentsInv
<1>9. AccessInv'
  <2>1. written' + push'.done = written + push.done
    BY <1>1, <1>3, <1>4, Numbers
  <2> QED
    BY <2>1, <1>3 DEF IInv, AccessInv
<1> QED
  BY <1>5, <1>6, <1>7, <1>8, <1>9 DEF IInv

-----------------------------------------------------------------------------
(* The steps of the consumer. *)

\* Starting a read of frames the value acquired covers preserves the invariant.
LEMMA FetchBeginInvariant ==
    ASSUME IInv, NEW v \in writtenLoads, NEW frames \in Nat,
           frames <= v - read, FetchBegin(frames, v)
    PROVE  IInv'
<1>1. v \in Nat /\ sawWritten <= v /\ v <= written
  BY Numbers DEF IInv, LoadsInv
<1>2. /\ sawWritten' = v /\ writtenLoads' = {u \in writtenLoads : u >= v}
      /\ fetch' = [frames |-> frames, got |-> <<>>]
      /\ UNCHANGED <<buf, written, read, readLoads, sawRead, push, pushed,
                     out, lastWrite, lastRead>>
  BY DEF FetchBegin, AcquireWritten
<1>3. /\ fetch'.frames = frames /\ fetch'.got = <<>> /\ Len(fetch'.got) = 0
      /\ fetch'.got \in Seq(Frame \cup {Silence})
      /\ fetch' = [frames |-> fetch'.frames, got |-> fetch'.got]
  BY <1>2, EmptySeq
<1>4. Len(fetch.got) = 0
  BY Numbers DEF FetchBegin, Fetching
<1>5. TypeOK'
  BY <1>1, <1>2, <1>3 DEF IInv, TypeOK
<1>6. LoadsInv'
  BY <1>1, <1>2, Numbers DEF IInv, LoadsInv
<1>7. RegionInv'
  BY <1>1, <1>2, <1>3, Numbers DEF RegionInv
<1>8. ContentsInv'
  <2>1. 1..Len(fetch'.got) = {}
    BY <1>3
  <2> QED
    BY <2>1, <1>2 DEF IInv, ContentsInv
<1>9. AccessInv'
  BY <1>2, <1>3, <1>4 DEF IInv, AccessInv
<1> QED
  BY <1>5, <1>6, <1>7, <1>8, <1>9 DEF IInv

\* read_exact and read_up_to start reads of what is available.
LEMMA ReadInvariant ==
    ASSUME IInv, NEW v \in writtenLoads, NEW want \in 0..MaxBatch,
           ReadExact(want, v) \/ ReadUpTo(want, v)
    PROVE  IInv'
<1>1. v \in Nat /\ v >= read
  BY Numbers DEF IInv, LoadsInv
<1>2. CASE ReadExact(want, v)
  <2> DEFINE frames == IF want > Available(v) THEN 0 ELSE want
  <2>1. frames \in Nat /\ frames <= v - read
    BY <1>1, Numbers, BoundsAssumption DEF Available
  <2>2. FetchBegin(frames, v)
    BY <1>2 DEF ReadExact
  <2> QED
    BY <2>1, <2>2, FetchBeginInvariant
<1>3. CASE ReadUpTo(want, v)
  <2> DEFINE frames == Lesser(want, Available(v))
  <2>1. frames \in Nat /\ frames <= v - read
    BY <1>1, Numbers, BoundsAssumption DEF Available, Lesser
  <2>2. FetchBegin(frames, v)
    BY <1>3 DEF ReadUpTo
  <2> QED
    BY <2>1, <2>2, FetchBeginInvariant
<1> QED
  BY <1>2, <1>3

\* Copying a frame out preserves the invariant: it is the frame that was pushed.
LEMMA FetchCopyInvariant ==
    ASSUME IInv, FetchCopy
    PROVE  IInv'
<1> DEFINE k == Len(fetch.got)
           n == read + k
<1>1. /\ k \in Nat /\ n \in Nat /\ k + 1 <= fetch.frames
      /\ n < sawWritten /\ n < written /\ k < Capacity
  <2>1. k < fetch.frames
    BY DEF FetchCopy
  <2>2. sawWritten <= read + Capacity
    BY Numbers, CapacityAssumption
  <2>3. /\ k \in Nat /\ n = read + k /\ read \in Nat
        /\ fetch.frames \in Nat /\ read + fetch.frames <= sawWritten
        /\ sawWritten \in Nat /\ sawWritten <= written /\ written \in Nat
    BY Numbers
  <2> HIDE DEF k, n
  <2> QED
    BY <2>1, <2>2, <2>3, CapacityAssumption
<1>2. CopySlot(read, k) = Slot(n) /\ Slot(n) \in Slots
  BY <1>1, Numbers, CopySlotIsSlot, SlotInRange
<1>3. /\ fetch' = [fetch EXCEPT !.got = Append(@, buf[Slot(n)])]
      /\ lastRead' = [lastRead EXCEPT ![Slot(n)] = n + 1]
      /\ UNCHANGED <<buf, written, read, readLoads, writtenLoads, sawRead,
                     sawWritten, push, pushed, out, lastWrite>>
  BY <1>2 DEF FetchCopy, counters
<1>4. /\ buf[Slot(n)] \in Frame \cup {Silence}
      /\ fetch.got \in Seq(Frame \cup {Silence})
      /\ lastRead \in [Slots -> Nat]
      /\ fetch = [frames |-> fetch.frames, got |-> fetch.got]
  BY <1>2 DEF IInv, TypeOK
<1>5. fetch' = [frames |-> fetch.frames,
                got |-> Append(fetch.got, buf[Slot(n)])]
  BY <1>3, <1>4
<1>6. /\ fetch'.frames = fetch.frames
      /\ fetch'.got \in Seq(Frame \cup {Silence})
      /\ Len(fetch'.got) = k + 1
      /\ \A i \in 1..k : fetch'.got[i] = fetch.got[i]
      /\ fetch'.got[k + 1] = buf[Slot(n)]
  BY <1>4, <1>5, AppendProperties
<1>7. k = Len(fetch.got) /\ n = read + k
  OBVIOUS
<1> HIDE DEF k, n
<1>8. TypeOK'
  <2>1. /\ fetch' = [frames |-> fetch'.frames, got |-> fetch'.got]
        /\ fetch'.frames \in Nat
    BY <1>5, <1>6, Numbers
  <2>2. lastRead' \in [Slots -> Nat]
    BY <1>1, <1>2, <1>3, <1>4
  <2> QED
    BY <2>1, <2>2, <1>3, <1>6 DEF IInv, TypeOK
<1>9. LoadsInv'
  BY <1>3 DEF IInv, LoadsInv
<1>10. RegionInv'
  BY <1>1, <1>3, <1>6 DEF IInv, RegionInv
<1>11. ContentsInv'
  <2>1. buf[Slot(n)] = pushed[n + 1]
    <3>1. n \in read..(written - 1)
      BY <1>1, <1>7, Numbers
    <3> QED
      BY <3>1 DEF IInv, ContentsInv
  <2>2. ASSUME NEW i \in 1..(k + 1)
        PROVE  fetch'.got[i] = pushed[read + i]
    <3>1. CASE i = k + 1
      <4>1. read + i = n + 1
        BY <3>1, <1>1, <1>7, Numbers
      <4> QED
        BY <3>1, <4>1, <2>1, <1>6
    <3>2. CASE i <= k
      <4>1. i \in 1..k
        BY <3>2, <1>1
      <4> QED
        BY <4>1, <1>6, <1>7 DEF IInv, ContentsInv
    <3> QED
      BY <3>1, <3>2, <1>1
  <2> QED
    BY <2>2, <1>3, <1>6 DEF IInv, ContentsInv
<1>12. AccessInv'
  <2>1. ASSUME NEW s \in Slots, lastRead'[s] > 0
        PROVE  lastRead'[s] <= read + (k + 1) /\ Slot(lastRead'[s] - 1) = s
    <3>1. CASE s = Slot(n)
      <4>1. lastRead'[s] = n + 1
        BY <3>1, <1>3, <1>4
      <4>2. read \in Nat /\ n + 1 - 1 = n
        BY <1>1, Numbers
      <4> QED
        BY <3>1, <4>1, <4>2, <1>1, <1>7
    <3>2. CASE s # Slot(n)
      <4>1. lastRead'[s] = lastRead[s] /\ lastRead[s] \in Nat
        BY <3>2, <1>3, <1>4
      <4>2. lastRead[s] <= read + k /\ Slot(lastRead[s] - 1) = s
        BY <2>1, <4>1, <1>7 DEF IInv, AccessInv
      <4>3. read \in Nat
        BY Numbers
      <4> QED
        BY <4>1, <4>2, <4>3, <1>1
    <3> QED
      BY <3>1, <3>2
  <2> QED
    BY <2>1, <1>3, <1>6 DEF IInv, AccessInv
<1> QED
  BY <1>8, <1>9, <1>10, <1>11, <1>12 DEF IInv

\* What `out' holds once a batch is appended to it.
LEMMA OutGrows ==
    ASSUME NEW Entry, NEW as \in Seq(Entry), out \in Seq(Entry),
           out' = out \o as
    PROVE  /\ out' \in Seq(Entry)
           /\ Len(out') = Len(out) + Len(as)
           /\ \A i \in 1..(Len(out) + Len(as)) :
                 out'[i] = IF i <= Len(out) THEN out[i] ELSE as[i - Len(out)]
BY ConcatProperties

\* Handing back the oldest n frames, each read as it was pushed or skipped,
\* preserves what the invariant says of the counters and of the contents.
LEMMA ReleaseInvariant ==
    ASSUME IInv, NEW n \in Nat, n <= sawWritten' - read,
           NEW as \in Seq(Frame \cup {Silence, Skipped}), Len(as) = n,
           \A k \in 1..n : as[k] \in {pushed[read + k], Skipped},
           Release(n, as),
           sawWritten' \in Nat, writtenLoads' \subseteq Nat,
           written \in writtenLoads',
           \A v \in writtenLoads' : sawWritten' <= v /\ v <= written,
           push' = push, Len(fetch'.got) = 0, fetch'.frames = 0,
           fetch'.got \in Seq(Frame \cup {Silence}),
           fetch' = [frames |-> fetch'.frames, got |-> fetch'.got],
           Len(fetch.got) <= n,
           UNCHANGED <<buf, written, sawRead, pushed, lastWrite, lastRead>>
    PROVE  IInv'
<1>1. read + n \in Nat /\ read + n <= sawWritten' /\ sawWritten' <= written
  <2>1. read \in Nat
    BY Numbers
  <2>2. sawWritten' <= written
    OBVIOUS
  <2> QED
    BY <2>1, <2>2
<1>2. read' = read + n /\ readLoads' = readLoads \cup {read + n}
      /\ out' = out \o as
  BY DEF Release
<1>3. /\ out \in Seq(Frame \cup {Silence, Skipped})
      /\ Len(out) = read /\ Len(pushed) = written
      /\ \A i \in 1..Len(out) : out[i] \in {pushed[i], Skipped}
  BY DEF IInv, TypeOK, ContentsInv
<1>4. /\ out' \in Seq(Frame \cup {Silence, Skipped})
      /\ Len(out') = read + n
      /\ \A i \in 1..(read + n) :
            out'[i] = IF i <= read THEN out[i] ELSE as[i - read]
  <2> DEFINE Entry == Frame \cup {Silence, Skipped}
  <2>1. /\ out \in Seq(Entry) /\ as \in Seq(Entry) /\ out' = out \o as
        /\ Len(out) = read /\ Len(as) = n
    BY <1>2, <1>3
  <2> HIDE DEF Entry
  <2>2. /\ out' \in Seq(Entry)
        /\ Len(out') = read + n
        /\ \A i \in 1..(read + n) :
              out'[i] = IF i <= read THEN out[i] ELSE as[i - read]
    <3>1. /\ out' \in Seq(Entry)
          /\ Len(out') = Len(out) + Len(as)
          /\ \A i \in 1..(Len(out) + Len(as)) :
                out'[i] = IF i <= Len(out) THEN out[i] ELSE as[i - Len(out)]
      BY <2>1, OutGrows
    <3> QED
      BY <2>1, <3>1
  <2> QED
    BY <2>2 DEF Entry
<1>5. TypeOK'
  <2>1. read' \in Nat /\ readLoads' \subseteq Nat
    BY <1>1, <1>2, Numbers
  <2>2. fetch'.frames \in Nat
    OBVIOUS
  <2> QED
    BY <2>1, <2>2, <1>4 DEF IInv, TypeOK
<1>6. LoadsInv'
  <2>1. read' \in readLoads' /\ written' \in writtenLoads'
    BY <1>2
  <2>2. \A v \in readLoads' : sawRead <= v /\ v <= read + n
    BY <1>2, Numbers DEF IInv, LoadsInv
  <2>3. \A v \in writtenLoads' : sawWritten' <= v /\ v <= written
    OBVIOUS
  <2> QED
    BY <2>1, <2>2, <2>3, <1>2 DEF LoadsInv
<1>7. RegionInv'
  BY <1>1, <1>2, Numbers DEF RegionInv
<1>8. ContentsInv'
  <2>1. \A i \in 1..(read + n) : out'[i] \in {pushed[i], Skipped}
    <3> TAKE i \in 1..(read + n)
    <3>1. CASE i <= read
      <4>1. i \in 1..Len(out)
        BY <3>1, <1>3, Numbers
      <4>2. out'[i] = out[i]
        BY <3>1, <1>4
      <4> QED
        BY <4>1, <4>2, <1>3
    <3>2. CASE ~(i <= read)
      <4>1. i - read \in 1..n /\ read + (i - read) = i
        <5>1. read \in Nat
          BY Numbers
        <5> QED
          BY <3>2, <5>1
      <4>2. out'[i] = as[i - read]
        BY <3>2, <1>4
      <4>3. as[i - read] \in {pushed[read + (i - read)], Skipped}
        BY <4>1
      <4> QED
        BY <4>1, <4>2, <4>3
    <3> QED
      BY <3>1, <3>2
  <2>2. \A m \in read'..(written' - 1) : buf'[Slot(m)] = pushed'[m + 1]
    <3> TAKE m \in read'..(written' - 1)
    <3>1. m \in read..(written - 1)
      BY <1>2, Numbers
    <3> QED
      BY <3>1 DEF IInv, ContentsInv
  <2>3. 1..Len(fetch'.got) = {}
    OBVIOUS
  <2> QED
    BY <2>1, <2>2, <2>3, <1>2, <1>3, <1>4 DEF IInv, ContentsInv
<1>9. AccessInv'
  <2>1. ASSUME NEW s \in Slots, lastRead[s] > 0
        PROVE  lastRead[s] <= read' + Len(fetch'.got)
               /\ Slot(lastRead[s] - 1) = s
    <3>1. lastRead[s] \in Nat /\ lastRead[s] <= read + Len(fetch.got)
          /\ Slot(lastRead[s] - 1) = s
      BY <2>1 DEF IInv, AccessInv, TypeOK
    <3>2. read \in Nat /\ Len(fetch.got) \in Nat /\ Len(fetch.got) <= fetch.frames
      BY Numbers
    <3> QED
      BY <3>1, <3>2, <1>2
  <2> QED
    BY <2>1 DEF IInv, AccessInv
<1> QED
  BY <1>5, <1>6, <1>7, <1>8, <1>9 DEF IInv

\* The end of a read preserves the invariant.
LEMMA FetchPublishInvariant ==
    ASSUME IInv, FetchPublish
    PROVE  IInv'
<1> DEFINE n == fetch.frames
           as == fetch.got
<1>1. /\ Len(as) = n /\ n \in Nat /\ n <= sawWritten - read
  BY Numbers DEF FetchPublish
<1>2. as \in Seq(Frame \cup {Silence, Skipped})
  <2>1. \A k \in 1..Len(as) : as[k] \in Frame \cup {Silence}
    BY ElementOfSeq DEF IInv, TypeOK
  <2>2. as \in Seq(Frame \cup {Silence})
    BY DEF IInv, TypeOK
  <2> HIDE DEF as
  <2> QED
    BY <2>2, SeqMonotonic
<1>3. \A k \in 1..n : as[k] \in {pushed[read + k], Skipped}
  BY <1>1 DEF IInv, ContentsInv
<1>4. /\ fetch' = [frames |-> 0, got |-> <<>>] /\ Release(n, as)
      /\ UNCHANGED <<buf, written, writtenLoads, sawRead, sawWritten, push,
                     pushed, lastWrite, lastRead>>
  BY DEF FetchPublish, NoFetch
<1>5. /\ Len(fetch'.got) = 0 /\ fetch'.frames = 0
      /\ fetch'.got \in Seq(Frame \cup {Silence})
      /\ fetch' = [frames |-> fetch'.frames, got |-> fetch'.got]
  BY <1>4, EmptySeq
<1>6. /\ sawWritten' \in Nat /\ writtenLoads' \subseteq Nat
      /\ written \in writtenLoads' /\ n <= sawWritten' - read
      /\ \A v \in writtenLoads' : sawWritten' <= v /\ v <= written
  BY <1>1, <1>4, Numbers DEF IInv, LoadsInv
<1>7. Len(fetch.got) <= n
  BY <1>1
<1> HIDE DEF n, as
<1> QED
  BY <1>1, <1>2, <1>3, <1>4, <1>5, <1>6, <1>7, ReleaseInvariant

\* Dropping frames unread preserves the invariant.
LEMMA DiscardInvariant ==
    ASSUME IInv, NEW v \in writtenLoads, NEW want \in 0..MaxBatch,
           Discard(want, v)
    PROVE  IInv'
<1> DEFINE n == Lesser(want, Available(v))
           as == [i \in 1..n |-> Skipped]
<1>1. v \in Nat /\ read <= v /\ v <= written
  BY Numbers DEF IInv, LoadsInv
<1>2. n \in Nat /\ n <= v - read
  BY <1>1, Numbers, BoundsAssumption DEF Available, Lesser
<1>3. /\ sawWritten' = v /\ writtenLoads' = {u \in writtenLoads : u >= v}
      /\ Release(n, as)
      /\ UNCHANGED <<buf, written, sawRead, push, fetch, pushed, lastWrite,
                     lastRead>>
  BY DEF Discard, AcquireWritten
<1>4. /\ as \in Seq(Frame \cup {Silence, Skipped}) /\ Len(as) = n
      /\ \A k \in 1..n : as[k] \in {pushed[read + k], Skipped}
  <2> HIDE DEF n
  <2>1. as \in [1..n -> Frame \cup {Silence, Skipped}]
    OBVIOUS
  <2>2. as \in Seq(Frame \cup {Silence, Skipped})
    BY <2>1, <1>2, SeqDef
  <2>3. Len(as) = n
    BY <1>2
  <2> QED
    BY <2>2, <2>3
<1>5. /\ sawWritten' \in Nat /\ writtenLoads' \subseteq Nat
      /\ written \in writtenLoads' /\ n <= sawWritten' - read
      /\ \A u \in writtenLoads' : sawWritten' <= u /\ u <= written
  <2> HIDE DEF n
  <2> QED
    BY <1>1, <1>2, <1>3, Numbers DEF IInv, LoadsInv
<1>6. /\ fetch'.frames = 0 /\ Len(fetch'.got) = 0 /\ Len(fetch.got) <= n
      /\ fetch'.got \in Seq(Frame \cup {Silence})
      /\ fetch' = [frames |-> fetch'.frames, got |-> fetch'.got]
  <2> HIDE DEF n
  <2>1. fetch.frames = 0 /\ Len(fetch.got) = 0
    BY Numbers DEF Discard, Fetching
  <2> QED
    BY <2>1, <1>2, <1>3 DEF IInv, TypeOK
<1> HIDE DEF n, as
<1> QED
  BY <1>2, <1>3, <1>4, <1>5, <1>6, ReleaseInvariant

-----------------------------------------------------------------------------
(* The theorems. *)

\* Every step, and every stuttering step, preserves the inductive invariant.
LEMMA NextInvariant == IInv /\ [Next]_vars => IInv'
<1> SUFFICES ASSUME IInv, [Next]_vars PROVE IInv'
  OBVIOUS
<1>1. ASSUME NEW offer \in Offers, NEW v \in readLoads, PushBegin(offer, v)
      PROVE  IInv'
  BY <1>1, PushBeginInvariant
<1>2. CASE PushCopy
  BY <1>2, PushCopyInvariant
<1>3. CASE PushPublish
  BY <1>3, PushPublishInvariant
<1>4. ASSUME NEW n \in 0..MaxBatch, NEW v \in writtenLoads,
             ReadExact(n, v) \/ ReadUpTo(n, v) \/ Discard(n, v)
      PROVE  IInv'
  BY <1>4, ReadInvariant, DiscardInvariant
<1>5. CASE FetchCopy
  BY <1>5, FetchCopyInvariant
<1>6. CASE FetchPublish
  BY <1>6, FetchPublishInvariant
<1>7. CASE UNCHANGED vars
  BY <1>7 DEF vars, IInv, TypeOK, LoadsInv, RegionInv, ContentsInv, AccessInv
<1> QED
  BY <1>1, <1>2, <1>3, <1>4, <1>5, <1>6, <1>7 DEF Next, Produce, Consume

\* The inductive invariant holds in every reachable state.
THEOREM Invariance == Spec => []IInv
BY InitInvariant, NextInvariant, PTL DEF Spec

\* Every variable of the ring keeps its type, whatever the capacity.
THEOREM TypeCorrect == Spec => []TypeOK
<1>1. IInv => TypeOK
  BY DEF IInv
<1> QED
  BY <1>1, Invariance, PTL

\* `free' and `available' never wrap, however stale the counter they loaded.
THEOREM NoWrap == Spec => []DifferencesInRange
<1>1. ASSUME IInv
      PROVE  DifferencesInRange
  <2>1. /\ written \in Nat /\ sawRead \in Nat /\ sawWritten \in Nat /\ read \in Nat
        /\ readLoads \subseteq Nat /\ writtenLoads \subseteq Nat
    BY <1>1, Numbers
  <2>2. sawRead <= read /\ read <= sawWritten /\ sawWritten <= written
    BY <1>1, Numbers
  <2>3. Capacity \in Nat
    BY CapacityAssumption
  <2> QED
    BY <1>1, <2>1, <2>2, <2>3, Numbers DEF DifferencesInRange
<1> QED
  BY <1>1, Invariance, PTL

\* The SAFETY argument of `Sync for Shared': no access to a slot races with one
\* of the other end.
THEOREM NoDataRace == Spec => []RaceFree
<1>1. IInv => RaceFree
  <2> SUFFICES ASSUME IInv PROVE RaceFree
    OBVIOUS
  <2>1. ASSUME Pushing, push.done < Len(push.frames)
        PROVE  lastRead[CopySlot(written, push.done)] <= sawRead
    <3> DEFINE n == written + push.done
               s == CopySlot(written, push.done)
               m == lastRead[s] - 1
    <3>1. n \in Nat /\ written <= n /\ n < sawRead + Capacity
          /\ push.done < Capacity
      <4>1. /\ written \in Nat /\ push.done \in Nat /\ Len(push.frames) \in Nat
            /\ sawRead \in Nat /\ read \in Nat /\ sawWritten \in Nat
            /\ written + Len(push.frames) <= sawRead + Capacity
        BY Numbers
      <4>2. sawRead <= read /\ read <= sawWritten /\ sawWritten <= written
        BY Numbers
      <4> QED
        BY <2>1, <4>1, <4>2, CapacityAssumption
    <3>2. s = Slot(n) /\ s \in Slots
      BY <3>1, Numbers, CopySlotIsSlot, SlotInRange
    <3> HIDE DEF n, s
    <3>3. lastRead[s] \in Nat
      BY <3>2 DEF IInv, TypeOK
    <3>4. CASE lastRead[s] > 0
      <4>1. lastRead[s] <= read + Len(fetch.got) /\ Slot(m) = s
        BY <3>2, <3>4 DEF IInv, AccessInv
      <4>2. m \in Nat /\ m < written
        <5>1. /\ read \in Nat /\ Len(fetch.got) \in Nat /\ fetch.frames \in Nat
              /\ sawWritten \in Nat /\ written \in Nat
              /\ Len(fetch.got) <= fetch.frames
              /\ read + fetch.frames <= sawWritten /\ sawWritten <= written
          BY Numbers
        <5> QED
          BY <4>1, <3>3, <3>4, <5>1
      <4>3. m < n
        BY <4>2, <3>1, Numbers
      <4>4. n >= m + Capacity
        <5> HIDE DEF m
        <5> QED
          BY <4>1, <4>2, <4>3, <3>1, <3>2, SlotsApart
      <4> QED
        <5>1. sawRead \in Nat
          BY Numbers
        <5> QED
          BY <4>2, <4>4, <3>1, <3>3, <5>1, CapacityAssumption DEF s
    <3>5. CASE lastRead[s] = 0
      BY <3>5, Numbers DEF s
    <3> QED
      BY <3>3, <3>4, <3>5
  <2>2. ASSUME Fetching, Len(fetch.got) < fetch.frames
        PROVE  lastWrite[CopySlot(read, Len(fetch.got))] <= sawWritten
    <3> DEFINE n == read + Len(fetch.got)
               s == CopySlot(read, Len(fetch.got))
               m == lastWrite[s] - 1
    <3>1. n \in Nat /\ read <= n /\ n < sawWritten
          /\ Len(fetch.got) < Capacity
      <4>1. sawWritten <= read + Capacity
        BY Numbers, CapacityAssumption
      <4>2. /\ read \in Nat /\ Len(fetch.got) \in Nat /\ fetch.frames \in Nat
            /\ sawWritten \in Nat /\ read + fetch.frames <= sawWritten
        BY Numbers
      <4> QED
        BY <4>1, <4>2, <2>2, CapacityAssumption
    <3>2. s = Slot(n) /\ s \in Slots
      BY <3>1, Numbers, CopySlotIsSlot, SlotInRange
    <3> HIDE DEF n, s
    <3>3. lastWrite[s] \in Nat
      BY <3>2 DEF IInv, TypeOK
    <3>4. CASE lastWrite[s] > 0
      <4>1. lastWrite[s] <= written + push.done /\ Slot(m) = s
        BY <3>2, <3>4 DEF IInv, AccessInv
      <4>2. m \in Nat /\ m < read + Capacity
        <5>1. /\ written \in Nat /\ push.done \in Nat /\ Len(push.frames) \in Nat
              /\ sawRead \in Nat /\ read \in Nat
              /\ push.done <= Len(push.frames)
              /\ written + Len(push.frames) <= sawRead + Capacity /\ sawRead <= read
          BY Numbers
        <5> QED
          BY <4>1, <3>3, <3>4, <5>1, CapacityAssumption
      <4>3. ~(n < m)
        <5>1. ~(m >= n + Capacity)
          <6>1. read \in Nat
            BY Numbers
          <6> QED
            BY <4>2, <3>1, <6>1, CapacityAssumption
        <5> HIDE DEF m
        <5> QED
          BY <5>1, <4>1, <4>2, <3>1, <3>2, SlotsApart
      <4> QED
        BY <4>2, <4>3, <3>1, <3>3, Numbers DEF s
    <3>5. CASE lastWrite[s] = 0
      BY <3>5, Numbers DEF s
    <3> QED
      BY <3>3, <3>4, <3>5
  <2> QED
    BY <2>1, <2>2 DEF RaceFree
<1> QED
  BY <1>1, Invariance, PTL

\* The consumer gets the frames the producer pushed, in order, each once.
THEOREM FirstInFirstOut == Spec => []InOrder
<1>1. IInv => InOrder
  BY Numbers DEF IInv, ContentsInv, InOrder
<1> QED
  BY <1>1, Invariance, PTL

-----------------------------------------------------------------------------
(* The ring of frames implements the bounded queue FrameQueue.  Between    *)
(* the counters lie the frames pushed and not handed back (the contents    *)
(* part of the inductive invariant), so what a step does to the queue is   *)
(* told by the counters and by what was pushed: only the two publishing    *)
(* stores and a discard change it.                                         *)

\* A window of a sequence: the entries after the first r, up to the w-th.
Window(s, r, w) == [i \in 1..(w - r) |-> s[r + i]]

\* A window is a sequence of its width.
LEMMA WindowIsSeq ==
    ASSUME NEW S, NEW s \in Seq(S), NEW r \in Nat, NEW w \in 0..Len(s), r <= w
    PROVE  /\ Window(s, r, w) \in Seq(S)
           /\ Len(Window(s, r, w)) = w - r
           /\ \A i \in 1..(w - r) : Window(s, r, w)[i] = s[r + i]
<1>1. Len(s) \in Nat
  BY LenProperties
<1>2. w - r \in Nat
  BY <1>1
<1>3. ASSUME NEW i \in 1..(w - r)
      PROVE  s[r + i] \in S
  <2>1. r + i \in 1..Len(s)
    BY <1>1, <1>2
  <2> QED
    BY <2>1, ElementOfSeq
<1>4. Window(s, r, w) \in [1..(w - r) -> S]
  BY <1>3 DEF Window
<1>5. Window(s, r, w) \in Seq(S)
  BY <1>2, <1>4, SeqDef
<1> QED
  BY <1>2, <1>4, <1>5, LenProperties DEF Window

\* A batch appended to the sequence is appended to the window at its end.
LEMMA WindowGrows ==
    ASSUME NEW S, NEW s \in Seq(S), NEW f \in Seq(S), NEW r \in 0..Len(s),
           NEW t, t = s \o f
    PROVE  Window(t, r, Len(s) + Len(f)) = Window(s, r, Len(s)) \o f
<1> DEFINE whole == Window(t, r, Len(s) + Len(f))
           first == Window(s, r, Len(s))
<1>1. Len(s) \in Nat /\ Len(f) \in Nat
  BY LenProperties
<1>2. /\ t \in Seq(S) /\ Len(t) = Len(s) + Len(f)
      /\ \A i \in 1..(Len(s) + Len(f)) :
            t[i] = IF i <= Len(s) THEN s[i] ELSE f[i - Len(s)]
  BY ConcatProperties
<1>3. /\ whole \in Seq(S) /\ Len(whole) = Len(s) + Len(f) - r
      /\ \A i \in 1..(Len(s) + Len(f) - r) : whole[i] = t[r + i]
  <2>1. /\ r \in Nat /\ r <= Len(s) + Len(f)
    BY <1>1
  <2>2. PICK w \in 0..Len(t) : w = Len(s) + Len(f)
    BY <1>1, <1>2
  <2>3. /\ Window(t, r, w) \in Seq(S) /\ Len(Window(t, r, w)) = w - r
        /\ \A i \in 1..(w - r) : Window(t, r, w)[i] = t[r + i]
    BY <1>2, <2>1, <2>2, WindowIsSeq
  <2> QED
    BY <2>2, <2>3
<1>4. /\ first \in Seq(S) /\ Len(first) = Len(s) - r
      /\ \A i \in 1..(Len(s) - r) : first[i] = s[r + i]
  <2>1. r \in Nat /\ r <= Len(s) /\ Len(s) \in 0..Len(s)
    BY <1>1
  <2> QED
    BY <2>1, WindowIsSeq
<1> HIDE DEF whole, first
<1>5. /\ first \o f \in Seq(S) /\ Len(first \o f) = Len(first) + Len(f)
      /\ \A i \in 1..(Len(first) + Len(f)) :
            (first \o f)[i] = IF i <= Len(first) THEN first[i] ELSE f[i - Len(first)]
  BY <1>4, ConcatProperties
<1>6. ASSUME NEW i \in 1..Len(whole)
      PROVE  whole[i] = (first \o f)[i]
  <2>1. i \in 1..(Len(s) + Len(f) - r) /\ r + i \in 1..(Len(s) + Len(f))
    BY <1>1, <1>3
  <2>2. i \in 1..(Len(first) + Len(f))
    BY <1>1, <1>3, <1>4
  <2>3. whole[i] = IF r + i <= Len(s) THEN s[r + i] ELSE f[r + i - Len(s)]
    BY <1>2, <1>3, <2>1
  <2>4. CASE r + i <= Len(s)
    <3>1. i \in 1..(Len(s) - r) /\ i <= Len(first)
      BY <1>1, <1>4, <2>1, <2>4
    <3> QED
      BY <1>4, <1>5, <2>2, <2>3, <2>4, <3>1
  <2>5. CASE ~(r + i <= Len(s))
    <3>1. ~(i <= Len(first)) /\ r + i - Len(s) = i - Len(first)
      BY <1>1, <1>4, <2>1, <2>5
    <3> QED
      BY <1>5, <2>2, <2>3, <2>5, <3>1
  <2> QED
    BY <2>4, <2>5
<1>7. Len(whole) = Len(first \o f)
  BY <1>1, <1>3, <1>4, <1>5
<1>8. whole = first \o f
  BY <1>3, <1>5, <1>6, <1>7, SeqEqual
<1> QED
  BY <1>8 DEF whole, first

\* Handing back n entries leaves the window without its first n.
LEMMA WindowShrinks ==
    ASSUME NEW S, NEW s \in Seq(S), NEW r \in Nat, NEW w \in 0..Len(s),
           NEW n \in Nat, r + n <= w
    PROVE  Window(s, r + n, w) =
             SubSeq(Window(s, r, w), n + 1, Len(Window(s, r, w)))
<1> DEFINE all == Window(s, r, w)
           rest == Window(s, r + n, w)
           sub == SubSeq(all, n + 1, Len(all))
<1>1. Len(s) \in Nat /\ w \in Nat
  BY LenProperties
<1>2. /\ all \in Seq(S) /\ Len(all) = w - r
      /\ \A i \in 1..(w - r) : all[i] = s[r + i]
  <2>1. r <= w
    BY <1>1
  <2> QED
    BY <2>1, WindowIsSeq
<1>3. /\ rest \in Seq(S) /\ Len(rest) = w - (r + n)
      /\ \A i \in 1..(w - (r + n)) : rest[i] = s[r + n + i]
  <2>1. r + n \in Nat
    OBVIOUS
  <2> QED
    BY <2>1, WindowIsSeq
<1> HIDE DEF all, rest
<1>4. /\ sub \in Seq(S)
      /\ Len(sub) = IF n + 1 <= w - r THEN w - r - (n + 1) + 1 ELSE 0
      /\ \A i \in 1..(w - r - (n + 1) + 1) : sub[i] = all[n + 1 + i - 1]
  <2>1. \A i \in (n + 1)..Len(all) : all[i] \in S
    <3>1. \A i \in (n + 1)..Len(all) : i \in 1..Len(all)
      BY <1>1, <1>2
    <3> QED
      BY <1>2, <3>1, ElementOfSeq
  <2>2. n + 1 \in Int /\ Len(all) \in Int
    BY <1>1, <1>2
  <2>3. /\ sub \in Seq(S)
        /\ Len(sub) = IF n + 1 <= Len(all) THEN Len(all) - (n + 1) + 1 ELSE 0
        /\ \A i \in 1..(Len(all) - (n + 1) + 1) : sub[i] = all[n + 1 + i - 1]
    BY <2>1, <2>2, SubSeqProperties
  <2> QED
    BY <1>2, <2>3
<1>5. Len(rest) = Len(sub)
  BY <1>1, <1>3, <1>4
<1>6. ASSUME NEW i \in 1..Len(rest)
      PROVE  rest[i] = sub[i]
  <2>1. /\ i \in 1..(w - (r + n)) /\ i \in 1..(w - r - (n + 1) + 1)
        /\ n + 1 + i - 1 = n + i /\ n + i \in 1..(w - r) /\ r + (n + i) = r + n + i
    BY <1>1, <1>3
  <2>2. rest[i] = s[r + n + i] /\ sub[i] = all[n + i]
    BY <1>3, <1>4, <2>1
  <2>3. all[n + i] = s[r + (n + i)]
    BY <1>2, <2>1
  <2> QED
    BY <2>1, <2>2, <2>3
<1> HIDE DEF sub
<1>7. rest = sub
  BY <1>3, <1>4, <1>5, <1>6, SeqEqual
<1> QED
  BY <1>7 DEF rest, sub, all

-----------------------------------------------------------------------------
(* The queue of the ring. *)

\* What the counters cover is what was pushed and not handed back, and fits.
Covered ==
    /\ Unread = Window(pushed, read, written)
    /\ Unread \in Seq(Frame) /\ Len(Unread) = written - read
    /\ written - read \in 0..Capacity
    /\ written = Len(pushed) /\ pushed \in Seq(Frame)
    /\ read \in Nat /\ written \in Nat

LEMMA UnreadIsWindow == IInv => Covered
<1> SUFFICES ASSUME IInv PROVE Covered
  OBVIOUS
<1>1. written = Len(pushed) /\ pushed \in Seq(Frame)
  BY DEF IInv, TypeOK, ContentsInv
<1>2. /\ read \in Nat /\ written \in Nat /\ sawRead \in Nat /\ sawWritten \in Nat
      /\ Len(push.frames) \in Nat
  BY Numbers
<1>3. /\ sawRead <= read /\ read <= sawWritten /\ sawWritten <= written
      /\ written + Len(push.frames) <= sawRead + Capacity
  BY Numbers
<1>4. written - read \in 0..Capacity
  BY <1>2, <1>3, CapacityAssumption
<1>5. ASSUME NEW i \in 1..(written - read)
      PROVE  buf[Slot(read + i - 1)] = pushed[read + i]
  <2>1. read + i - 1 \in read..(written - 1) /\ read + i - 1 + 1 = read + i
    BY <1>2
  <2> QED
    BY <2>1 DEF IInv, ContentsInv
<1>6. Unread = Window(pushed, read, written)
  BY <1>5 DEF Unread, Window
<1>7. Window(pushed, read, written) \in Seq(Frame)
      /\ Len(Window(pushed, read, written)) = written - read
  <2>1. written \in 0..Len(pushed) /\ read <= written
    BY <1>1, <1>2, <1>4
  <2> QED
    BY <1>1, <1>2, <2>1, WindowIsSeq
<1> QED
  BY <1>1, <1>2, <1>4, <1>6, <1>7 DEF Covered

\* The same, of the state after a step.
LEMMA UnreadNext == IInv' => Covered'
BY UnreadIsWindow, PTL

\* A step that leaves the counters and the histories alone leaves the queue alone.
LEMMA QueueStutters ==
    ASSUME IInv, IInv', UNCHANGED <<written, read, pushed, out>>
    PROVE  UNCHANGED Queue!vars
BY UnreadIsWindow, UnreadNext DEF Covered, Queue!vars

\* Publishing a push appends its batch.
LEMMA PushPublishes ==
    ASSUME IInv, IInv', PushPublish
    PROVE  Queue!Push
<1> DEFINE n == Len(push.frames)
<1>1. /\ pushed' = pushed \o push.frames /\ written' = written + n
      /\ read' = read /\ out' = out /\ n > 0
  BY DEF PushPublish, Pushing
<1>2. push.frames \in Seq(Frame) /\ n \in Nat
  BY LenProperties DEF IInv, TypeOK
<1>3. /\ pushed \in Seq(Frame) /\ written = Len(pushed) /\ read \in 0..Len(pushed)
      /\ read \in Nat /\ written \in Nat
      /\ Unread = Window(pushed, read, Len(pushed))
  BY UnreadIsWindow DEF Covered
<1>4. Unread' = Unread \o push.frames
  <2>1. Unread' = Window(pushed', read, Len(pushed) + Len(push.frames))
    BY <1>1, <1>3, UnreadNext DEF Covered
  <2> QED
    BY <1>1, <1>2, <1>3, <2>1, WindowGrows
<1>5. n \in 1..(Capacity - Len(Unread))
  <2>1. written' - read' <= Capacity
    BY UnreadNext, CapacityAssumption DEF Covered
  <2>2. Len(Unread) = written - read
    BY UnreadIsWindow DEF Covered
  <2> QED
    BY <1>1, <1>2, <1>3, <2>1, <2>2, CapacityAssumption
<1>6. push.frames \in [1..n -> Frame]
  BY <1>2, LenProperties
<1> HIDE DEF n
<1> QED
  BY <1>1, <1>4, <1>5, <1>6 DEF Queue!Push

\* Handing back the oldest n frames takes them off the queue.
LEMMA ReleaseShrinks ==
    ASSUME IInv, IInv', NEW n \in Nat, n <= written - read,
           NEW as, Release(n, as), UNCHANGED <<written, pushed>>
    PROVE  Queue!Leaves(n, as)
<1>1. read' = read + n /\ out' = out \o as
  BY DEF Release
<1>2. /\ pushed \in Seq(Frame) /\ written \in 0..Len(pushed)
      /\ read \in Nat /\ written \in Nat /\ Unread = Window(pushed, read, written)
  BY UnreadIsWindow DEF Covered
<1>3. Unread' = Window(pushed, read + n, written)
  BY <1>1, UnreadNext DEF Covered
<1>4. Unread' = SubSeq(Unread, n + 1, Len(Unread))
  <2>1. read + n <= written
    BY <1>2
  <2> QED
    BY <1>2, <1>3, <2>1, WindowShrinks
<1> QED
  BY <1>1, <1>4 DEF Queue!Leaves

\* A read gives the consumer the oldest frames of the queue.
LEMMA FetchTakes ==
    ASSUME IInv, IInv', FetchPublish
    PROVE  Queue!Take
<1> DEFINE n == fetch.frames
<1>1. /\ Release(n, fetch.got) /\ Len(fetch.got) = n /\ n > 0
      /\ UNCHANGED <<written, pushed>>
  BY DEF FetchPublish, Fetching
<1>2. n \in Nat /\ n <= written - read
  <2>1. /\ n \in Nat /\ read \in Nat /\ sawWritten \in Nat /\ written \in Nat
    BY Numbers
  <2>2. read + n <= sawWritten /\ sawWritten <= written
    BY Numbers
  <2> QED
    BY <2>1, <2>2
<1>3. /\ Unread \in Seq(Frame) /\ Len(Unread) = written - read
      /\ written \in Nat /\ read \in Nat
      /\ \A i \in 1..(written - read) : Unread[i] = pushed[read + i]
  <2>1. Unread = Window(pushed, read, written)
    BY UnreadIsWindow DEF Covered
  <2> QED
    BY <2>1, UnreadIsWindow DEF Covered, Window
<1>4. fetch.got = SubSeq(Unread, 1, n)
  <2> DEFINE first == SubSeq(Unread, 1, n)
  <2>1. /\ first \in Seq(Frame) /\ Len(first) = n
        /\ \A i \in 1..n : first[i] = Unread[i]
    <3>1. \A i \in 1..n : Unread[i] \in Frame
      <4>1. \A i \in 1..n : i \in 1..Len(Unread)
        BY <1>2, <1>3
      <4> QED
        BY <1>3, <4>1, ElementOfSeq
    <3>2. /\ first \in Seq(Frame)
          /\ Len(first) = IF 1 <= n THEN n - 1 + 1 ELSE 0
          /\ \A i \in 1..(n - 1 + 1) : first[i] = Unread[1 + i - 1]
      BY <1>2, <3>1, SubSeqProperties
    <3>3. n - 1 + 1 = n /\ \A i \in 1..n : 1 + i - 1 = i
      BY <1>2
    <3> QED
      BY <1>1, <1>2, <3>2, <3>3
  <2>2. \A i \in 1..n : fetch.got[i] = first[i]
    <3>1. \A i \in 1..n : i \in 1..(written - read)
      BY <1>2, <1>3
    <3>2. \A i \in 1..n : fetch.got[i] = pushed[read + i]
      BY <1>1 DEF IInv, ContentsInv
    <3> QED
      BY <1>3, <2>1, <3>1, <3>2
  <2>3. fetch.got \in Seq(Frame \cup {Silence}) /\ first \in Seq(Frame \cup {Silence})
    <3>1. fetch.got \in Seq(Frame \cup {Silence})
      BY DEF IInv, TypeOK
    <3>2. first \in Seq(Frame \cup {Silence})
      BY <2>1, SeqMonotonic
    <3> QED
      BY <3>1, <3>2
  <2> HIDE DEF first
  <2>4. fetch.got = first
    BY <1>1, <2>1, <2>2, <2>3, SeqEqual
  <2> QED
    BY <2>4 DEF first
<1>5. Queue!Leaves(n, SubSeq(Unread, 1, n))
  BY <1>1, <1>2, <1>4, ReleaseShrinks
<1>6. n \in 1..Len(Unread)
  BY <1>1, <1>2, <1>3
<1> HIDE DEF n
<1> QED
  BY <1>5, <1>6 DEF Queue!Take

\* A discard skips the oldest frames of the queue, or finds none.
LEMMA DiscardSkips ==
    ASSUME IInv, IInv', NEW k \in 0..MaxBatch, NEW v \in writtenLoads, Discard(k, v)
    PROVE  Queue!Skip \/ UNCHANGED Queue!vars
<1> DEFINE n == Lesser(k, Available(v))
<1>1. /\ Release(n, [i \in 1..n |-> Skipped])
      /\ UNCHANGED <<written, pushed>>
  BY DEF Discard
<1>2. v \in Nat /\ sawWritten <= v /\ v <= written
  BY Numbers DEF IInv, LoadsInv
<1>3. /\ read \in Nat /\ written \in Nat /\ sawWritten \in Nat /\ read <= sawWritten
      /\ k \in Nat
  <2>1. k \in Nat
    BY BoundsAssumption
  <2> QED
    BY <2>1, Numbers
<1>4. n \in Nat /\ n <= written - read
  BY <1>2, <1>3 DEF Lesser, Available
<1>5. Len(Unread) = written - read
  BY UnreadIsWindow DEF Covered
<1> HIDE DEF n
<1>6. CASE n > 0
  <2>1. n \in 1..Len(Unread)
    BY <1>3, <1>4, <1>5, <1>6
  <2>2. Queue!Leaves(n, [i \in 1..n |-> Skipped])
    BY <1>1, <1>4, ReleaseShrinks
  <2> QED
    BY <2>1, <2>2 DEF Queue!Skip
<1>7. CASE n = 0
  <2>1. read' = read /\ out' = out \o [i \in 1..n |-> Skipped]
    BY <1>1, <1>3, <1>7 DEF Release
  <2>2. [i \in 1..n |-> Skipped] = <<>>
    BY <1>7
  <2>3. out' = out
    <3>1. out \in Seq(Frame \cup {Silence, Skipped})
      BY DEF IInv, TypeOK
    <3> QED
      BY <2>1, <2>2, <3>1, ConcatEmptySeq
  <2> QED
    BY <1>1, <2>1, <2>3, QueueStutters
<1> QED
  BY <1>4, <1>6, <1>7

-----------------------------------------------------------------------------
(* The refinement. *)

\* An empty ring is an empty queue.
LEMMA InitIsQueueInit == Init => Queue!Init
<1> SUFFICES ASSUME Init
             PROVE  Queue!Init
  OBVIOUS
<1>1. written = 0 /\ read = 0 /\ out = <<>>
  BY DEF Init
<1>2. Unread = <<>>
  BY <1>1 DEF Unread
<1> QED
  BY <1>1, <1>2 DEF Queue!Init

\* Every step of the two ends is a step of the queue, or leaves it alone.
LEMMA NextIsQueueNext ==
    ASSUME IInv, IInv', [Next]_vars
    PROVE  [Queue!Next]_(Queue!vars)
<1>1. ASSUME NEW offer \in Offers, NEW v \in readLoads, PushBegin(offer, v)
      PROVE  UNCHANGED Queue!vars
  BY <1>1, QueueStutters DEF PushBegin
<1>2. CASE PushCopy
  BY <1>2, QueueStutters DEF PushCopy, counters
<1>3. CASE PushPublish
  BY <1>3, PushPublishes DEF Queue!Next
<1>4. ASSUME NEW n \in 0..MaxBatch, NEW v \in writtenLoads, ReadExact(n, v) \/ ReadUpTo(n, v)
      PROVE  UNCHANGED Queue!vars
  <2>1. UNCHANGED <<written, read, pushed, out>>
    BY <1>4 DEF ReadExact, ReadUpTo, FetchBegin
  <2> QED
    BY <2>1, QueueStutters
<1>5. ASSUME NEW n \in 0..MaxBatch, NEW v \in writtenLoads, Discard(n, v)
      PROVE  Queue!Next \/ UNCHANGED Queue!vars
  BY <1>5, DiscardSkips DEF Queue!Next
<1>6. CASE FetchCopy
  BY <1>6, QueueStutters DEF FetchCopy, counters
<1>7. CASE FetchPublish
  BY <1>7, FetchTakes DEF Queue!Next
<1>8. CASE UNCHANGED vars
  BY <1>8, QueueStutters DEF vars
<1> QED
  BY <1>1, <1>2, <1>3, <1>4, <1>5, <1>6, <1>7, <1>8 DEF Next, Produce, Consume

\* The ring is a bounded queue to its two ends, whatever its capacity, the
\* batches and the interleaving of their loads, copies and stores.
THEOREM Implements == Spec => ImplementsQueue
<1>1. Init => Queue!Init
  BY InitIsQueueInit
<1>2. IInv /\ IInv' /\ [Next]_vars => [Queue!Next]_(Queue!vars)
  BY NextIsQueueNext
<1> QED
  BY <1>1, <1>2, Invariance, PTL DEF Spec, ImplementsQueue, Queue!Spec

=============================================================================
