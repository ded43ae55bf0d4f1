-------------------------- MODULE PipeCaptureProofs -------------------------
(***************************************************************************)
(* Proofs about PipeCapture, for a channel of any length, any pacing below  *)
(* it and a source of any length: what the chunks of a channel are as it is *)
(* filled and emptied, the types, and then the accounts of what is dropped, *)
(* counted, held back and kept whole.                                       *)
(***************************************************************************)
EXTENDS PipeCapture, FiniteSetTheorems, FunctionTheorems, SequenceTheorems, TLAPS

-----------------------------------------------------------------------------
(* Messages and channels.                                                    *)

\* What a message is made of.
LEMMA MessageParts ==
    ASSUME NEW m \in Messages
    PROVE  /\ m.kind \in {"Start", "Chunk", "End"}
           /\ IsChunk(m) => /\ m.n \in 1..MaxChunks /\ m.skipped \in 0..MaxChunks
                            /\ m = Chunk(m.n, m.skipped)
BY DEF Messages, Start, End, Chunk, IsChunk

\* A channel holds finitely many chunks, no more than messages.
LEMMA ChunksFinite ==
    ASSUME NEW S, NEW q \in Seq(S)
    PROVE  /\ IsFiniteSet(Chunks(q))
           /\ Cardinality(Chunks(q)) \in 0..Len(q)
           /\ Chunks(q) \subseteq 1..Len(q)
<1>1. Len(q) \in Nat /\ Chunks(q) \subseteq 1..Len(q)
  BY LenProperties DEF Chunks
<1>2. IsFiniteSet(1..Len(q)) /\ Cardinality(1..Len(q)) = Len(q)
  <2>1. \A n \in Nat : IsFiniteSet(1..n) /\ Cardinality(1..n) = n
    BY FS_Interval
  <2> QED
    BY <1>1, <2>1
<1>3. IsFiniteSet(Chunks(q)) /\ Cardinality(Chunks(q)) <= Len(q)
  BY <1>1, <1>2, FS_Subset
<1>4. Cardinality(Chunks(q)) \in Nat
  BY <1>3, FS_CardinalityType
<1> QED
  BY <1>1, <1>3, <1>4

\* An empty channel holds none.
LEMMA NoChunks == Chunks(<<>>) = {} /\ Cardinality(Chunks(<<>>)) = 0
<1>1. Chunks(<<>>) = {}
  BY DEF Chunks
<1> QED
  BY <1>1, FS_EmptySet

\* A chunk appended is one chunk more, any other message none.
LEMMA ChunksOfAppend ==
    ASSUME NEW S, NEW q \in Seq(S), NEW m \in S
    PROVE  /\ Chunks(Append(q, m)) =
                Chunks(q) \cup (IF IsChunk(m) THEN {Len(q) + 1} ELSE {})
           /\ Cardinality(Chunks(Append(q, m))) =
                Cardinality(Chunks(q)) + (IF IsChunk(m) THEN 1 ELSE 0)
<1>1. /\ Len(Append(q, m)) = Len(q) + 1 /\ Len(q) \in Nat
      /\ \A i \in 1..Len(q) : Append(q, m)[i] = q[i]
      /\ Append(q, m)[Len(q) + 1] = m
  BY AppendProperties, LenProperties
<1>2. Chunks(Append(q, m)) = Chunks(q) \cup (IF IsChunk(m) THEN {Len(q) + 1} ELSE {})
  BY <1>1 DEF Chunks
<1>3. /\ IsFiniteSet(Chunks(q)) /\ Cardinality(Chunks(q)) \in Nat
      /\ Len(q) + 1 \notin Chunks(q)
  BY <1>1, ChunksFinite
<1>4. Cardinality(Chunks(q) \cup {Len(q) + 1}) = Cardinality(Chunks(q)) + 1
  BY <1>3, FS_AddElement
<1>5. CASE IsChunk(m)
  BY <1>2, <1>4, <1>5
<1>6. CASE ~IsChunk(m)
  BY <1>2, <1>3, <1>6
<1> QED
  BY <1>5, <1>6

\* Taking the head moves every place down by one, and takes its chunk if it is one.
LEMMA ChunksOfTail ==
    ASSUME NEW S, NEW q \in Seq(S), q # <<>>
    PROVE  /\ Len(Tail(q)) = Len(q) - 1 /\ Len(q) \in Nat
           /\ \A i \in 1..Len(Tail(q)) : Tail(q)[i] = q[i + 1]
           /\ Chunks(Tail(q)) = {i \in 1..(Len(q) - 1) : i + 1 \in Chunks(q)}
           /\ Cardinality(Chunks(Tail(q))) =
                Cardinality(Chunks(q)) - (IF IsChunk(Head(q)) THEN 1 ELSE 0)
<1> DEFINE rest == Chunks(q) \ {1}
           up == [i \in Chunks(Tail(q)) |-> i + 1]
<1>1. /\ Len(Tail(q)) = Len(q) - 1 /\ Len(q) \in Nat
      /\ \A i \in 1..Len(Tail(q)) : Tail(q)[i] = q[i + 1]
  BY HeadTailProperties, LenProperties
<1>2. Chunks(Tail(q)) = {i \in 1..(Len(q) - 1) : i + 1 \in Chunks(q)}
  BY <1>1 DEF Chunks
<1>3. Head(q) = q[1] /\ Len(q) >= 1
  BY <1>1
<1>4. 1 \in Chunks(q) <=> IsChunk(Head(q))
  BY <1>1, <1>3 DEF Chunks
<1>5. /\ IsFiniteSet(Chunks(q)) /\ Chunks(q) \subseteq 1..Len(q)
      /\ Cardinality(Chunks(q)) \in Nat
  BY ChunksFinite
<1>6. /\ IsFiniteSet(rest)
      /\ Cardinality(rest) = Cardinality(Chunks(q)) - (IF IsChunk(Head(q)) THEN 1 ELSE 0)
  <2>1. /\ IsFiniteSet(rest)
        /\ Cardinality(rest) = IF 1 \in Chunks(q) THEN Cardinality(Chunks(q)) - 1
                               ELSE Cardinality(Chunks(q))
    BY <1>5, FS_RemoveElement
  <2>2. CASE IsChunk(Head(q))
    BY <1>4, <1>5, <2>1, <2>2
  <2>3. CASE ~IsChunk(Head(q))
    BY <1>4, <1>5, <2>1, <2>3
  <2> QED
    BY <2>2, <2>3
<1>7. IsFiniteSet(Chunks(Tail(q)))
  <2>1. Tail(q) \in Seq(S)
    BY HeadTailProperties
  <2> QED
    BY <2>1, ChunksFinite
<1>8. up \in Bijection(Chunks(Tail(q)), rest)
  <2>1. \A i \in Chunks(Tail(q)) : i \in Int /\ up[i] \in rest /\ up[i] = i + 1
    BY <1>1, <1>2, <1>5
  <2>2. \A j \in rest : j - 1 \in Chunks(Tail(q)) /\ up[j - 1] = j
    BY <1>1, <1>2, <1>5
  <2>3. \A a, b \in Chunks(Tail(q)) : up[a] = up[b] => a = b
    BY <2>1
  <2>4. \A j \in rest : \E i \in Chunks(Tail(q)) : up[i] = j
    BY <2>2
  <2> HIDE DEF rest
  <2>5. up \in [Chunks(Tail(q)) -> rest]
    BY <2>1
  <2> QED
    BY <2>3, <2>4, <2>5, Fun_IsBij
<1>9. Cardinality(rest) = Cardinality(Chunks(Tail(q)))
  BY <1>7, <1>8, FS_Bijection DEF ExistsBijection
<1> QED
  BY <1>1, <1>2, <1>6, <1>9

\* The chunks of a channel follow one another, and the next one follows number last.
Linked(q, gone, last) ==
    /\ \A i \in Chunks(q) : LastBefore(q, gone, i, Precedes(q[i]))
    /\ LastBefore(q, gone, Len(q) + 1, last)

\* What comes before a place is not changed by what is appended after it.
LEMMA BeforeAppended ==
    ASSUME NEW S, NEW q \in Seq(S), NEW m \in S, NEW gone, NEW n,
           NEW i \in 1..(Len(q) + 1), LastBefore(q, gone, i, n)
    PROVE  LastBefore(Append(q, m), gone, i, n)
<1> DEFINE a == Append(q, m)
<1>1. /\ Len(q) \in Nat /\ Chunks(q) \subseteq 1..Len(q)
      /\ \A j \in 1..Len(q) : a[j] = q[j]
      /\ Chunks(a) = Chunks(q) \cup (IF IsChunk(m) THEN {Len(q) + 1} ELSE {})
  BY ChunksFinite, ChunksOfAppend, AppendProperties, LenProperties
<1>2. Chunks(q) \subseteq Chunks(a) /\ \A k \in Chunks(a) : k \in Chunks(q) \/ k >= i
  BY <1>1
<1> HIDE DEF a
<1>3. CASE n = gone /\ \A j \in Chunks(q) : j >= i
  BY <1>2, <1>3 DEF LastBefore, a
<1>4. ASSUME NEW j \in Chunks(q), j < i, n = q[j].n,
             \A k \in Chunks(q) : k < i => k <= j
      PROVE  LastBefore(a, gone, i, n)
  <2>1. j \in Chunks(a) /\ a[j] = q[j] /\ \A k \in Chunks(a) : k < i => k <= j
    BY <1>1, <1>2, <1>4
  <2> QED
    BY <1>4, <2>1 DEF LastBefore
<1> QED
  BY <1>3, <1>4 DEF LastBefore, a

\* A message that is no chunk may be sent at any time.
LEMMA LinkedOther ==
    ASSUME NEW S, NEW q \in Seq(S), NEW m \in S, NEW gone, NEW last,
           Linked(q, gone, last), ~IsChunk(m)
    PROVE  Linked(Append(q, m), gone, last)
<1> DEFINE a == Append(q, m)
<1>1. /\ Len(q) \in Nat /\ Chunks(q) \subseteq 1..Len(q)
      /\ \A j \in 1..Len(q) : a[j] = q[j]
      /\ Chunks(a) = Chunks(q) /\ Len(a) = Len(q) + 1
  BY ChunksFinite, ChunksOfAppend, AppendProperties, LenProperties
<1>2. ASSUME NEW i \in Chunks(a)
      PROVE  LastBefore(a, gone, i, Precedes(a[i]))
  <2>1. i \in 1..(Len(q) + 1) /\ a[i] = q[i] /\ LastBefore(q, gone, i, Precedes(q[i]))
    BY <1>1, <1>2 DEF Linked
  <2> QED
    BY <2>1, BeforeAppended
<1>3. LastBefore(a, gone, Len(q) + 1, last)
  <2>1. Len(q) + 1 \in 1..(Len(q) + 1)
    BY <1>1
  <2> QED
    BY <2>1, BeforeAppended DEF Linked
<1> HIDE DEF a
<1>4. LastBefore(a, gone, Len(a) + 1, last)
  <2>1. \A j \in Chunks(a) : j \in Int /\ j < Len(q) + 1 /\ j < Len(a) + 1
    BY <1>1
  <2> QED
    BY <1>1, <1>3, <2>1 DEF LastBefore
<1> QED
  BY <1>2, <1>4 DEF Linked, a

\* A chunk that follows the last one is itself the last one then.
LEMMA LinkedChunk ==
    ASSUME NEW S, NEW q \in Seq(S), NEW m \in S, NEW gone,
           Linked(q, gone, Precedes(m)), IsChunk(m)
    PROVE  Linked(Append(q, m), gone, m.n)
<1> DEFINE a == Append(q, m)
<1>1. /\ Len(q) \in Nat /\ Chunks(q) \subseteq 1..Len(q)
      /\ \A j \in 1..Len(q) : a[j] = q[j]
      /\ a[Len(q) + 1] = m
      /\ Chunks(a) = Chunks(q) \cup {Len(q) + 1} /\ Len(a) = Len(q) + 1
  BY ChunksFinite, ChunksOfAppend, AppendProperties, LenProperties
<1>2. ASSUME NEW i \in Chunks(a)
      PROVE  LastBefore(a, gone, i, Precedes(a[i]))
  <2>1. i \in 1..(Len(q) + 1) /\ LastBefore(q, gone, i, Precedes(a[i]))
    BY <1>1, <1>2 DEF Linked
  <2> QED
    BY <2>1, BeforeAppended
<1>3. LastBefore(a, gone, Len(a) + 1, m.n)
  <2> HIDE DEF a
  <2>1. /\ Len(q) + 1 \in Chunks(a) /\ Len(q) + 1 < Len(a) + 1
        /\ \A k \in Chunks(a) : k <= Len(q) + 1
    BY <1>1
  <2> QED
    BY <1>1, <2>1 DEF LastBefore
<1> QED
  BY <1>2, <1>3 DEF Linked

\* The chunk that leaves is what came before the next one.
LEMMA BeforeInTail ==
    ASSUME NEW S, NEW q \in Seq(S), q # <<>>, NEW gone, NEW n,
           NEW i \in 1..Len(q), LastBefore(q, gone, i + 1, n)
    PROVE  LastBefore(Tail(q), IF IsChunk(Head(q)) THEN Head(q).n ELSE gone, i, n)
<1> DEFINE rest == Tail(q)
           next == IF IsChunk(Head(q)) THEN Head(q).n ELSE gone
<1>1. /\ Len(q) \in Nat /\ Chunks(q) \subseteq 1..Len(q)
      /\ \A j \in 1..(Len(q) - 1) : rest[j] = q[j + 1]
      /\ Chunks(rest) = {j \in 1..(Len(q) - 1) : j + 1 \in Chunks(q)}
  BY ChunksFinite, ChunksOfTail
<1>2. Head(q) = q[1] /\ Len(q) >= 1
  BY <1>1
<1>3. 1 \in Chunks(q) <=> IsChunk(Head(q))
  BY <1>1, <1>2 DEF Chunks
<1>4. \A j \in Chunks(rest) : j \in Int /\ j + 1 \in Chunks(q) /\ rest[j] = q[j + 1]
  BY <1>1
<1>5. \A j \in Chunks(q) : j \in Int /\ (j # 1 => j - 1 \in Chunks(rest)
                                                /\ rest[j - 1] = q[j])
  BY <1>1
<1> HIDE DEF rest
<1>6. CASE n = gone /\ \A j \in Chunks(q) : j >= i + 1
  <2>1. next = gone
    BY <1>3, <1>6
  <2>2. \A j \in Chunks(rest) : j >= i
    BY <1>4, <1>6
  <2> QED
    BY <1>6, <2>1, <2>2 DEF LastBefore, rest
<1>7. ASSUME NEW j \in Chunks(q), j < i + 1, n = q[j].n,
             \A k \in Chunks(q) : k < i + 1 => k <= j
      PROVE  LastBefore(rest, next, i, n)
  <2>1. CASE j = 1
    <3>1. next = n
      BY <1>2, <1>3, <1>7, <2>1
    <3>2. \A k \in Chunks(rest) : k >= i
      BY <1>1, <1>4, <1>7, <2>1
    <3> QED
      BY <3>1, <3>2 DEF LastBefore
  <2>2. CASE j # 1
    <3>1. j - 1 \in Chunks(rest) /\ rest[j - 1].n = n /\ j - 1 < i
      BY <1>5, <1>7, <2>2
    <3>2. \A k \in Chunks(rest) : k < i => k <= j - 1
      BY <1>4, <1>5, <1>7
    <3> QED
      BY <3>1, <3>2 DEF LastBefore
  <2> QED
    BY <2>1, <2>2
<1> QED
  BY <1>6, <1>7 DEF LastBefore, rest

\* So the others still follow one another.
LEMMA LinkedTail ==
    ASSUME NEW S, NEW q \in Seq(S), q # <<>>, NEW gone, NEW last,
           Linked(q, gone, last)
    PROVE  Linked(Tail(q), IF IsChunk(Head(q)) THEN Head(q).n ELSE gone, last)
<1> DEFINE rest == Tail(q)
           next == IF IsChunk(Head(q)) THEN Head(q).n ELSE gone
<1>1. /\ Len(q) \in Nat /\ Len(q) >= 1 /\ Len(rest) = Len(q) - 1
      /\ \A j \in 1..(Len(q) - 1) : rest[j] = q[j + 1]
      /\ Chunks(rest) = {j \in 1..(Len(q) - 1) : j + 1 \in Chunks(q)}
  BY ChunksFinite, ChunksOfTail
<1>2. ASSUME NEW i \in Chunks(rest)
      PROVE  LastBefore(rest, next, i, Precedes(rest[i]))
  <2>1. i \in 1..Len(q) /\ LastBefore(q, gone, i + 1, Precedes(rest[i]))
    BY <1>1, <1>2 DEF Linked
  <2> QED
    BY <2>1, BeforeInTail
<1>3. LastBefore(rest, next, Len(rest) + 1, last)
  <2>1. Len(q) \in 1..Len(q) /\ Len(rest) + 1 = Len(q)
    BY <1>1
  <2>2. LastBefore(rest, next, Len(q), last)
    BY <2>1, BeforeInTail DEF Linked
  <2> QED
    BY <2>1, <2>2
<1> QED
  BY <1>2, <1>3 DEF Linked

-----------------------------------------------------------------------------
(* The types, with what is read, in hand and dropped.                        *)

\* What was written is read, being read or unread; what was read was dropped or not;
\* the chunk in hand is the last one read, with all that was skipped before it.
CountsInv ==
    /\ bytesRead + unread + (IF At("start") \/ At("count") THEN 1 ELSE 0) <= written
    /\ dropped + (IF InHand THEN 1 ELSE 0) <= bytesRead
    /\ InHand => /\ reader.chunk = Chunk(bytesRead, reader.chunk.skipped)
                 /\ reader.chunk.skipped \in 0..(bytesRead - 1)
                 /\ reader.skipped = 0
    /\ reader.skipped <= bytesRead

TypeInv == TypeOK /\ CountsInv

\* The sizes are numbers, and the channel has room past the pacing.
LEMMA Sizes ==
    /\ MaxChunks \in Nat /\ MaxDiscards \in Nat /\ MaxSwitches \in Nat
    /\ QueueChunks \in Nat /\ PacedQueueChunks \in Nat /\ CounterSize \in Nat
    /\ 1 <= PacedQueueChunks /\ PacedQueueChunks < QueueChunks
    /\ QueueChunks + 2 < CounterSize
BY SizesAssumption, BoundsAssumption

\* What is sent is a message.
LEMMA SentType ==
    /\ Start \in Messages /\ End \in Messages
    /\ \A n \in 1..MaxChunks, k \in 0..MaxChunks : Chunk(n, k) \in Messages
BY DEF Messages

\* A count that is added to stays one.
LEMMA PlusType ==
    ASSUME NEW n \in Int, NEW d \in Int
    PROVE  Plus(n, d) \in 0..(CounterSize - 1)
BY Sizes DEF Plus

LEMMA InitType == Init => TypeInv
<1> SUFFICES ASSUME Init
             PROVE  TypeInv
  OBVIOUS
<1>1. queue \in Seq(Messages) /\ Len(queue) = 0
  BY EmptySeq DEF Init
<1>2. reader \in Readers
  BY Sizes, SentType DEF Init, Readers, ReaderSteps
<1>3. paced \in BOOLEAN
  BY DEF Init, Paced0
<1>4. /\ unread \in 0..QueueChunks /\ written \in 0..MaxChunks
      /\ queued \in 0..(CounterSize - 1)
      /\ bytesRead \in 0..MaxChunks /\ dropped \in 0..MaxChunks
      /\ discards \in 0..MaxDiscards /\ switches \in 0..MaxSwitches
      /\ lastGone \in 0..MaxChunks
  BY Sizes DEF Init
<1>5. /\ kind \in Kinds /\ host \in HostSteps
      /\ heard \in {"none", "Start", "Chunk", "End"}
      /\ closed \in BOOLEAN /\ quiet \in BOOLEAN /\ open \in BOOLEAN /\ stop \in BOOLEAN
  BY DEF Init, HostSteps
<1>6. TypeOK
  BY Sizes, <1>1, <1>2, <1>3, <1>4, <1>5 DEF TypeOK
<1>7. CountsInv
  BY DEF Init, CountsInv, InHand, At
<1> QED
  BY <1>6, <1>7 DEF TypeInv

\* The source and the clock.
LEMMA SourceType == TypeInv /\ (Write \/ Close \/ Silence) => TypeInv'
<1> SUFFICES ASSUME TypeInv, Write \/ Close \/ Silence
             PROVE  TypeInv'
  OBVIOUS
<1> USE Sizes DEF TypeInv, TypeOK, CountsInv, InHand, At, stats, history, channel, source
<1>1. CASE Write
  <2>1. unread' \in 0..QueueChunks /\ written' \in 0..MaxChunks
    BY <1>1 DEF Write
  <2>2. unread' = unread + 1 /\ written' = written + 1
    BY <1>1 DEF Write
  <2>3. TypeOK'
    BY <1>1, <2>1 DEF Write
  <2>4. CountsInv'
    BY <1>1, <2>2 DEF Write
  <2> QED
    BY <2>3, <2>4
<1>2. CASE Close
  BY <1>2 DEF Close
<1>3. CASE Silence
  BY <1>3 DEF Silence
<1> QED
  BY <1>1, <1>2, <1>3

\* The reader's steps that send nothing.
LEMMA ReadingType ==
    TypeInv /\ (Top \/ Gate \/ ReadBytes \/ ReadNothing \/ Count \/ Undo) => TypeInv'
<1> SUFFICES ASSUME TypeInv, Top \/ Gate \/ ReadBytes \/ ReadNothing \/ Count \/ Undo
             PROVE  TypeInv'
  OBVIOUS
<1>1. CASE Top
  <2>1. reader' \in Readers
    BY <1>1 DEF TypeInv, TypeOK, Top, Goto, Readers, ReaderSteps
  <2>2. /\ reader'.skipped = reader.skipped /\ reader.at = "top"
        /\ reader'.at \in {"done", "gate", "read"}
    BY <1>1 DEF TypeInv, TypeOK, Top, At, Goto, Readers
  <2>3. TypeOK'
    BY <1>1, <2>1 DEF TypeInv, TypeOK, Top, source, channel, stats, history
  <2> QED
    BY <1>1, <2>2, <2>3 DEF TypeInv, CountsInv, InHand, At, Top, source, stats
<1>2. CASE Gate
  <2>1. reader' \in Readers
    BY <1>2 DEF TypeInv, TypeOK, Gate, Goto, Readers, ReaderSteps
  <2>2. /\ reader'.skipped = reader.skipped /\ reader.at = "gate"
        /\ reader'.at \in {"top", "read"}
    BY <1>2 DEF TypeInv, TypeOK, Gate, At, Goto, Readers
  <2>3. TypeOK'
    BY <1>2, <2>1 DEF TypeInv, TypeOK, Gate, source, channel, stats, history
  <2> QED
    BY <1>2, <2>2, <2>3 DEF TypeInv, CountsInv, InHand, At, Gate, source, stats
<1>3. CASE ReadBytes
  <2>1. reader' \in Readers
    BY <1>3 DEF TypeInv, TypeOK, ReadBytes, Readers, ReaderSteps
  <2>2. /\ reader'.skipped = reader.skipped /\ reader.at = "read"
        /\ reader'.at \in {"start", "count"}
    BY <1>3 DEF TypeInv, TypeOK, ReadBytes, At, Readers
  <2>3. unread' = unread - 1 /\ unread' \in 0..QueueChunks
    <3>1. unread \in 0..QueueChunks
      BY DEF TypeInv, TypeOK
    <3>2. unread > 0 /\ unread' = unread - 1
      BY <1>3 DEF ReadBytes
    <3> QED
      BY <3>1, <3>2, Sizes
  <2>4. TypeOK'
    BY <1>3, <2>1, <2>3 DEF TypeInv, TypeOK, ReadBytes, channel, stats, history
  <2>5. CountsInv'
    <3>1. bytesRead' = bytesRead /\ dropped' = dropped /\ written' = written
      BY <1>3 DEF ReadBytes, stats
    <3>2. /\ unread \in Int /\ bytesRead \in Nat /\ dropped \in Nat /\ written \in Nat
      BY DEF TypeInv, TypeOK
    <3>3. CountsInv
      BY DEF TypeInv
    <3> QED
      BY <2>2, <2>3, <3>1, <3>2, <3>3 DEF CountsInv, InHand, At
  <2> QED
    BY <2>4, <2>5 DEF TypeInv
<1>4. CASE ReadNothing
  <2>1. reader' \in Readers
    <3>1. reader \in Readers
      BY DEF TypeInv, TypeOK
    <3>2. \/ \E step \in {"eof", "done", "top"} : reader' = [reader EXCEPT !.at = step]
          \/ reader' = [reader EXCEPT !.inStream = FALSE, !.at = "end"]
      BY <1>4 DEF ReadNothing, Goto
    <3> QED
      BY <3>1, <3>2 DEF Readers, ReaderSteps
  <2>2. /\ reader'.skipped = reader.skipped /\ reader.at = "read"
        /\ reader'.at \in {"top", "end", "eof", "done"}
    BY <1>4 DEF TypeInv, TypeOK, ReadNothing, At, Goto, Readers
  <2>3. TypeOK'
    BY <1>4, <2>1 DEF TypeInv, TypeOK, ReadNothing, source, channel, stats, history
  <2> QED
    BY <1>4, <2>2, <2>3 DEF TypeInv, CountsInv, InHand, At, ReadNothing, source, stats
<1>5. CASE Count
  <2>1. /\ reader.at = "count" /\ reader.skipped \in 0..bytesRead /\ reader \in Readers
        /\ bytesRead + unread + 1 <= written
    BY <1>5 DEF TypeInv, TypeOK, CountsInv, InHand, At, Count, Readers
  <2>2. bytesRead' = bytesRead + 1 /\ bytesRead' \in 1..MaxChunks
    <3>1. /\ bytesRead \in Nat /\ unread \in Nat /\ written \in Nat
          /\ written <= MaxChunks
      BY Sizes DEF TypeInv, TypeOK
    <3>2. bytesRead' = bytesRead + 1
      BY <1>5 DEF Count
    <3> QED
      BY <2>1, <3>1, <3>2, Sizes
  <2>3. /\ Chunk(bytesRead', reader.skipped) \in Messages
        /\ reader.skipped \in 0..(bytesRead' - 1)
    BY <2>1, <2>2, Sizes, SentType DEF TypeInv, TypeOK
  <2>4. reader' = [reader EXCEPT !.chunk = Chunk(bytesRead', reader.skipped),
                                 !.skipped = 0, !.at = "hand"]
    BY <1>5 DEF Count
  <2>5. /\ reader' \in Readers
        /\ reader'.at = "hand" /\ reader'.skipped = 0
        /\ reader'.chunk = Chunk(bytesRead', reader.skipped)
    <3>1. ASSUME NEW c \in Messages, NEW r, r = [reader EXCEPT !.chunk = c, !.skipped = 0,
                                                              !.at = "hand"]
          PROVE  r \in Readers /\ r.at = "hand" /\ r.skipped = 0 /\ r.chunk = c
      <4>1. reader \in Readers /\ "hand" \in ReaderSteps /\ 0 \in 0..MaxChunks
        BY <2>1, Sizes DEF ReaderSteps
      <4> QED
        BY <3>1, <4>1 DEF Readers
    <3> QED
      BY <2>3, <2>4, <3>1
  <2>6. reader'.chunk.skipped = reader.skipped
    BY <2>5 DEF Chunk
  <2>7. queued' \in 0..(CounterSize - 1)
    <3>1. queued \in Int
      BY DEF TypeInv, TypeOK
    <3>2. queued' = Plus(queued, 1)
      BY <1>5 DEF Count
    <3> QED
      BY <3>1, <3>2, PlusType
  <2>8. TypeOK'
    BY <1>5, <2>2, <2>5, <2>7, Sizes DEF TypeInv, TypeOK, Count, source, channel, history
  <2>9. CountsInv'
    <3>1. dropped' = dropped /\ unread' = unread /\ written' = written
      BY <1>5 DEF Count, source
    <3>2. /\ bytesRead \in Nat /\ unread \in Nat /\ dropped \in Nat
          /\ dropped <= bytesRead /\ written \in Nat
      BY <2>1 DEF TypeInv, TypeOK, CountsInv, InHand, At
    <3>3. reader'.chunk = Chunk(bytesRead', reader'.chunk.skipped)
      BY <2>5, <2>6
    <3>4. reader'.chunk.skipped \in 0..(bytesRead' - 1)
      BY <2>3, <2>6
    <3> QED
      BY <2>1, <2>2, <2>5, <3>1, <3>2, <3>3, <3>4 DEF CountsInv, InHand, At
  <2> QED
    BY <2>8, <2>9 DEF TypeInv
<1>6. CASE Undo
  <2>1. /\ reader.at = "undo" /\ reader.chunk.skipped \in 0..(bytesRead - 1)
        /\ dropped + 1 <= bytesRead /\ reader \in Readers
    BY <1>6 DEF TypeInv, TypeOK, CountsInv, InHand, At, Undo
  <2>2. dropped' = dropped + 1 /\ dropped' \in 1..bytesRead /\ dropped' \in 0..MaxChunks
    <3>1. /\ dropped \in Nat /\ bytesRead \in Nat /\ bytesRead <= MaxChunks
      BY DEF TypeInv, TypeOK
    <3>2. dropped' = dropped + 1
      BY <1>6 DEF Undo
    <3> QED
      BY <2>1, <3>1, <3>2, Sizes
  <2>3. reader.chunk.skipped + 1 \in 0..bytesRead
    BY <2>1, Sizes DEF TypeInv, TypeOK
  <2>4. /\ reader' \in Readers
        /\ reader'.at = "top" /\ reader'.skipped = reader.chunk.skipped + 1
    <3>1. reader.chunk.skipped + 1 \in 0..MaxChunks
      BY <2>3, Sizes DEF TypeInv, TypeOK
    <3>2. reader' = [reader EXCEPT !.skipped = reader.chunk.skipped + 1, !.at = "top"]
      BY <1>6 DEF Undo
    <3> QED
      BY <2>1, <3>1, <3>2 DEF Readers, ReaderSteps
  <2>5. queued' \in 0..(CounterSize - 1)
    <3>1. queued \in Int /\ CounterSize - 1 \in Int
      BY Sizes DEF TypeInv, TypeOK
    <3>2. queued' = Plus(queued, CounterSize - 1)
      BY <1>6 DEF Undo
    <3> QED
      BY <3>1, <3>2, PlusType
  <2>6. TypeOK'
    BY <1>6, <2>2, <2>4, <2>5 DEF TypeInv, TypeOK, Undo, source, channel, history
  <2>7. CountsInv'
    <3>1. bytesRead' = bytesRead /\ unread' = unread /\ written' = written
      BY <1>6 DEF Undo, source
    <3>2. /\ bytesRead \in Nat /\ unread \in Nat /\ bytesRead + unread <= written
          /\ written \in Nat
      BY <2>1 DEF TypeInv, TypeOK, CountsInv, InHand, At
    <3> QED
      BY <2>1, <2>2, <2>3, <2>4, <3>1, <3>2 DEF CountsInv, InHand, At
  <2> QED
    BY <2>6, <2>7 DEF TypeInv
<1> QED
  BY <1>1, <1>2, <1>3, <1>4, <1>5, <1>6

\* The reader's steps that send a message, or find the receiver gone.
LEMMA SendingType == TypeInv /\ (SendStart \/ SendEnd \/ HandOver) => TypeInv'
<1> SUFFICES ASSUME TypeInv, SendStart \/ SendEnd \/ HandOver
             PROVE  TypeInv'
  OBVIOUS
<1>1. /\ reader.at \in {"start", "end", "eof", "hand"} /\ reader \in Readers
      /\ \E step \in ReaderSteps : reader' = [reader EXCEPT !.at = step]
      /\ reader'.at \in {"count", "top", "done", "undo"}
      /\ reader'.at = "count" => reader.at = "start"
      /\ reader'.at = "undo" => reader.at = "hand"
  BY DEF TypeInv, TypeOK, SendStart, SendEnd, HandOver, Send, At, Goto, Readers, ReaderSteps
<1>2. /\ reader' \in Readers
      /\ reader'.skipped = reader.skipped /\ reader'.chunk = reader.chunk
  BY <1>1 DEF Readers
<1>3. PICK m \in Messages :
        queue' = queue \/ (queue' = Append(queue, m) /\ Len(queue) < QueueChunks)
  BY SentType DEF TypeInv, TypeOK, SendStart, SendEnd, HandOver, Send, Readers
<1>4. queue' \in Seq(Messages) /\ Len(queue') <= QueueChunks
  <2>1. queue \in Seq(Messages) /\ Len(queue) <= QueueChunks /\ Len(queue) \in Nat
    BY LenProperties DEF TypeInv, TypeOK
  <2>2. Append(queue, m) \in Seq(Messages) /\ Len(Append(queue, m)) = Len(queue) + 1
    BY <2>1, AppendProperties
  <2> QED
    BY <1>3, <2>1, <2>2, Sizes
<1>5. UNCHANGED <<source, quiet, open, stop, paced, queued, stats, host, history>>
  BY DEF SendStart, SendEnd, HandOver
<1>6. TypeOK'
  BY <1>2, <1>4, <1>5 DEF TypeInv, TypeOK, source, stats, history
<1>7. /\ bytesRead' = bytesRead /\ dropped' = dropped /\ unread' = unread
      /\ written' = written
  BY <1>5 DEF source, stats
<1>8. CountsInv'
  <2>1. reader'.at # "start" /\ (reader'.at = "count" => reader.at = "start")
    BY <1>1
  <2>2. reader'.at # "hand" /\ (reader'.at = "undo" => reader.at = "hand")
    BY <1>1
  <2>3. reader.chunk = Chunk(bytesRead, reader.chunk.skipped)
          => reader'.chunk = Chunk(bytesRead', reader'.chunk.skipped)
    BY <1>2, <1>7
  <2> HIDE DEF Chunk
  <2> QED
    BY <1>2, <1>7, <2>1, <2>2, <2>3 DEF TypeInv, TypeOK, CountsInv, InHand, At
<1> QED
  BY <1>6, <1>8 DEF TypeInv

\* What leaves the channel is a message of its type, and so is what is left of it.
LEMMA LeavingType ==
    ASSUME TypeInv, queue # <<>>
    PROVE  /\ Head(queue) \in Messages
           /\ Tail(queue) \in Seq(Messages) /\ Len(Tail(queue)) <= QueueChunks
           /\ Leaves(Head(queue)) => lastGone' \in 0..MaxChunks
<1>1. queue \in Seq(Messages) /\ Len(queue) <= QueueChunks /\ Len(queue) \in Nat
  BY LenProperties DEF TypeInv, TypeOK
<1>2. /\ Head(queue) \in Messages
      /\ Tail(queue) \in Seq(Messages) /\ Len(Tail(queue)) = Len(queue) - 1
  BY <1>1, HeadTailProperties
<1>3. IsChunk(Head(queue)) => Head(queue).n \in 1..MaxChunks
  BY <1>2, MessageParts
<1>4. Leaves(Head(queue)) => lastGone' \in 0..MaxChunks
  BY <1>3 DEF Leaves, TypeInv, TypeOK
<1> QED
  BY <1>1, <1>2, <1>4, Sizes

\* The methods of Capture.
LEMMA HostType == TypeInv /\ Host => TypeInv'
<1> SUFFICES ASSUME TypeInv, Host
             PROVE  TypeInv'
  OBVIOUS
<1>1. UNCHANGED <<kind, unread, written, closed, quiet, reader, bytesRead, dropped>>
  BY DEF Host, Recv, Taken, Discard, Drain, Zero, SetPaced, DropStop, DropClose, DropJoin,
         source, stats
<1>2. CountsInv'
  BY <1>1 DEF TypeInv, CountsInv, InHand, At
<1>3. open' \in BOOLEAN /\ stop' \in BOOLEAN /\ paced' \in BOOLEAN
  BY DEF Host, Recv, Taken, Discard, Drain, Zero, SetPaced, DropStop, DropClose, DropJoin,
         channel, TypeInv, TypeOK
<1>4. host' \in HostSteps
  BY DEF Host, Recv, Taken, Discard, Drain, Zero, SetPaced, DropStop, DropClose, DropJoin,
         TypeInv, TypeOK, HostSteps
<1>5. queued' \in 0..(CounterSize - 1)
  <2>1. queued \in 0..(CounterSize - 1)
    BY DEF TypeInv, TypeOK
  <2>2. \/ queued' = queued \/ queued' = 0
        \/ queued > 0 /\ queued' = queued - 1
    BY <2>1 DEF Host, Recv, Taken, Discard, Drain, Zero, SetPaced, DropStop, DropClose,
                DropJoin
  <2> QED
    BY <2>1, <2>2, Sizes
<1>6. discards' \in 0..MaxDiscards /\ switches' \in 0..MaxSwitches
  <2>1. /\ discards \in 0..MaxDiscards /\ switches \in 0..MaxSwitches
    BY DEF TypeInv, TypeOK
  <2>2. /\ discards' = discards \/ (discards < MaxDiscards /\ discards' = discards + 1)
        /\ switches' = switches \/ (switches < MaxSwitches /\ switches' = switches + 1)
    BY DEF Host, Recv, Taken, Discard, Drain, Zero, SetPaced, DropStop, DropClose, DropJoin,
           history
  <2> QED
    BY <2>1, <2>2, Sizes
<1>7. \/ UNCHANGED <<queue, lastGone>>
      \/ queue # <<>> /\ queue' = Tail(queue) /\ Leaves(Head(queue))
      \/ queue' = <<>> /\ UNCHANGED lastGone
  BY DEF Host, Recv, Taken, Discard, Drain, Zero, SetPaced, DropStop, DropClose, DropJoin,
         channel, history
<1>8. /\ queue' \in Seq(Messages) /\ Len(queue') <= QueueChunks
      /\ lastGone' \in 0..MaxChunks
  <2>1. CASE UNCHANGED <<queue, lastGone>>
    BY <2>1 DEF TypeInv, TypeOK
  <2>2. CASE queue # <<>> /\ queue' = Tail(queue) /\ Leaves(Head(queue))
    BY <2>2, LeavingType
  <2>3. CASE queue' = <<>> /\ UNCHANGED lastGone
    <3>1. queue' \in Seq(Messages) /\ Len(queue') = 0
      BY <2>3, EmptySeq
    <3> QED
      BY <2>3, <3>1, Sizes DEF TypeInv, TypeOK
  <2> QED
    BY <1>7, <2>1, <2>2, <2>3
<1>9. heard' \in {"none", "Start", "Chunk", "End"}
  <2>1. heard' = heard \/ (queue # <<>> /\ heard' = Head(queue).kind)
    BY DEF Host, Recv, Taken, Discard, Drain, Zero, SetPaced, DropStop, DropClose, DropJoin,
           history
  <2>2. queue # <<>> => Head(queue).kind \in {"Start", "Chunk", "End"}
    BY LeavingType, MessageParts
  <2> QED
    BY <2>1, <2>2 DEF TypeInv, TypeOK
<1>10. TypeOK'
  BY <1>1, <1>3, <1>4, <1>5, <1>6, <1>8, <1>9 DEF TypeInv, TypeOK
<1> QED
  BY <1>2, <1>10 DEF TypeInv

LEMMA NextType == TypeInv /\ [Next]_vars => TypeInv'
<1> SUFFICES ASSUME TypeInv, [Next]_vars
             PROVE  TypeInv'
  OBVIOUS
<1>1. CASE UNCHANGED vars
  BY <1>1 DEF vars, TypeInv, TypeOK, CountsInv, InHand, At
<1>2. CASE Next
  BY <1>2, SourceType, ReadingType, SendingType, HostType DEF Next, Read
<1> QED
  BY <1>1, <1>2

\* Every variable has its type, for every size of the channel and of the source; the
\* counts of what was read, dropped and skipped never overrun one another.
THEOREM TypeCorrect == Spec => []TypeOK
<1>1. Init => TypeInv
  BY InitType
<1>2. TypeInv /\ [Next]_vars => TypeInv'
  BY NextType
<1>3. TypeInv => TypeOK
  BY DEF TypeInv
<1> QED
  BY <1>1, <1>2, <1>3, PTL DEF Spec

-----------------------------------------------------------------------------
(* Nothing is dropped from a file.                                           *)

\* The reader of a file finds itself paced from its first turn on, so it waits for
\* room and undoes nothing.
FileInv ==
    kind = "ToEnd" =>
        /\ paced
        /\ At("top") \/ At("done") \/ reader.pacedNow
        /\ ~At("undo")
        /\ dropped = 0 /\ reader.skipped = 0

LEMMA FileStep == TypeInv /\ FileInv /\ [Next]_vars => FileInv'
<1> SUFFICES ASSUME TypeInv, FileInv, [Next]_vars, kind' = "ToEnd"
             PROVE  FileInv'
  BY DEF FileInv
<1>1. kind = "ToEnd" /\ reader \in Readers
  BY DEF TypeInv, TypeOK, vars, Next, Write, Close, Silence, Read, Top, Gate, ReadBytes,
         ReadNothing, SendStart, SendEnd, Count, HandOver, Undo, Host, Recv, Taken, Discard,
         Drain, Zero, SetPaced, DropStop, DropClose, DropJoin, source
<1>2. /\ paced /\ dropped = 0 /\ reader.skipped = 0 /\ reader.at # "undo"
      /\ reader.at \in {"top", "done"} \/ reader.pacedNow
  BY <1>1 DEF FileInv, At
<1>3. CASE UNCHANGED vars \/ Write \/ Close \/ Silence \/ Host
  <2>1. reader' = reader /\ dropped' = dropped /\ paced' = paced
    BY <1>1, <1>3 DEF vars, Write, Close, Silence, Host, Recv, Taken, Discard, Drain, Zero,
                      SetPaced, DropStop, DropClose, DropJoin, stats
  <2> QED
    BY <1>2, <2>1 DEF FileInv, At
<1>4. CASE Top
  <2>1. /\ paced' = paced /\ dropped' = dropped
        /\ reader'.at = "done" \/ (reader'.at = "gate" /\ reader'.pacedNow)
        /\ reader'.skipped = reader.skipped
    <3>1. paced' = paced /\ dropped' = dropped
      BY <1>4 DEF Top, stats
    <3>2. \/ reader' = [reader EXCEPT !.at = "done"]
          \/ reader' = [reader EXCEPT !.pacedNow = TRUE, !.at = "gate"]
      BY <1>2, <1>4 DEF Top, Goto, TypeInv, TypeOK
    <3>3. CASE reader' = [reader EXCEPT !.at = "done"]
      <4>1. reader'.at = "done" /\ reader'.skipped = reader.skipped
        BY <1>1, <3>3 DEF Readers
      <4> QED
        BY <3>1, <4>1
    <3>4. CASE reader' = [reader EXCEPT !.pacedNow = TRUE, !.at = "gate"]
      BY <1>1, <3>1, <3>4 DEF Readers
    <3> QED
      BY <3>2, <3>3, <3>4
  <2> QED
    BY <1>2, <2>1 DEF FileInv, At
<1>5. CASE Gate \/ ReadNothing \/ SendStart \/ SendEnd
  <2>1. /\ paced' = paced /\ dropped' = dropped
        /\ reader'.at # "undo" /\ reader.at \notin {"top", "done"}
        /\ reader'.pacedNow = reader.pacedNow /\ reader'.skipped = reader.skipped
    BY <1>1, <1>5 DEF Gate, ReadNothing, SendStart, SendEnd, Send, Goto, At, stats, Readers
  <2> QED
    BY <1>2, <2>1 DEF FileInv, At
<1>6. CASE ReadBytes
  <2>1. /\ paced' = paced /\ dropped' = dropped
        /\ reader'.at # "undo" /\ reader.at = "read"
        /\ reader'.pacedNow = reader.pacedNow /\ reader'.skipped = reader.skipped
    BY <1>1, <1>6 DEF ReadBytes, At, stats, Readers
  <2> QED
    BY <1>2, <2>1 DEF FileInv, At
<1>7. CASE Count
  <2>1. /\ paced' = paced /\ dropped' = dropped
        /\ reader'.at # "undo" /\ reader.at = "count"
        /\ reader'.pacedNow = reader.pacedNow /\ reader'.skipped = 0
    BY <1>1, <1>7 DEF Count, At, Readers
  <2> QED
    BY <1>2, <2>1 DEF FileInv, At
<1>8. CASE HandOver
  <2>1. reader.at = "hand" /\ reader.pacedNow
    BY <1>2, <1>8 DEF HandOver, At
  <2>2. /\ paced' = paced /\ dropped' = dropped
        /\ reader'.at # "undo"
        /\ reader'.pacedNow = reader.pacedNow /\ reader'.skipped = reader.skipped
    BY <1>1, <1>8, <2>1 DEF HandOver, Send, Goto, stats, Readers
  <2> QED
    BY <1>2, <2>1, <2>2 DEF FileInv, At
<1>9. CASE Undo
  BY <1>2, <1>9 DEF Undo, At
<1> QED
  BY <1>3, <1>4, <1>5, <1>6, <1>7, <1>8, <1>9 DEF Next, Read

LEMMA InitFile == Init => FileInv
<1> SUFFICES ASSUME Init, kind = "ToEnd"
             PROVE  FileInv
  BY DEF FileInv
<1>1. paced
  BY Zenon DEF Init, Paced0
<1>2. reader.at = "top" /\ dropped = 0 /\ reader.skipped = 0
  BY DEF Init
<1> QED
  BY <1>1, <1>2 DEF FileInv, At

\* reader.rs:537: nothing is dropped from a file, however its host dawdles, discards
\* or is asked for another pacing.
THEOREM FileKeptWhole == Spec => []FileWhole
<1>1. Init => TypeInv /\ FileInv
  BY InitType, InitFile
<1>2. TypeInv /\ FileInv /\ [Next]_vars => (TypeInv /\ FileInv)'
  BY NextType, FileStep
<1>3. FileInv => FileWhole
  BY DEF FileInv, FileWhole
<1> QED
  BY <1>1, <1>2, <1>3, PTL DEF Spec

-----------------------------------------------------------------------------
(* The accounts of what is skipped.                                          *)

\* The number before the chunk to come.
Upcoming == IF InHand THEN Precedes(reader.chunk) ELSE bytesRead - reader.skipped

LEMMA AccountsAreLinks == SkippedAccounts <=> (open => Linked(queue, lastGone, Upcoming))
BY DEF SkippedAccounts, Linked, Upcoming

\* While the receiver is there, the chunk to come only moves on when the one in hand is
\* handed over.
LEMMA UpcomingKept ==
    ASSUME TypeInv, open,
           \/ UNCHANGED <<reader, bytesRead>>
           \/ Top \/ Gate \/ ReadBytes \/ ReadNothing \/ SendStart \/ SendEnd
           \/ Count \/ Undo \/ (HandOver /\ At("undo")')
    PROVE  Upcoming' = Upcoming
<1>1. reader \in Readers /\ bytesRead \in Nat
  BY DEF TypeInv, TypeOK
<1>2. CASE UNCHANGED <<reader, bytesRead>>
  BY <1>2 DEF Upcoming, InHand, At
<1>3. CASE Top \/ Gate \/ ReadBytes \/ ReadNothing \/ SendStart \/ SendEnd
  <2>1. /\ reader.at \notin {"hand", "undo"} /\ reader'.at \notin {"hand", "undo"}
        /\ reader'.skipped = reader.skipped /\ bytesRead' = bytesRead
    BY <1>1, <1>3 DEF Top, Gate, ReadBytes, ReadNothing, SendStart, SendEnd, Send, Goto, At,
                      stats, Readers
  <2> QED
    BY <2>1 DEF Upcoming, InHand, At
<1>4. CASE Count
  <2>1. /\ reader.at = "count" /\ bytesRead' = bytesRead + 1
        /\ reader'.at = "hand" /\ reader'.chunk = Chunk(bytesRead', reader.skipped)
    BY <1>1, <1>4 DEF Count, At, Readers
  <2>2. reader'.chunk.n = bytesRead' /\ reader'.chunk.skipped = reader.skipped
    BY <2>1 DEF Chunk
  <2>3. reader.skipped \in Nat
    BY <1>1 DEF Readers
  <2> QED
    BY <1>1, <2>1, <2>2, <2>3 DEF Upcoming, InHand, At, Precedes
<1>5. CASE Undo
  <2>1. /\ reader.at = "undo" /\ bytesRead' = bytesRead
        /\ reader'.at = "top" /\ reader'.skipped = reader.chunk.skipped + 1
    BY <1>1, <1>5 DEF Undo, At, Readers
  <2>2. /\ reader.chunk.skipped \in Nat
        /\ reader.chunk = Chunk(bytesRead, reader.chunk.skipped)
    BY <2>1 DEF TypeInv, CountsInv, InHand, At
  <2>3. reader.chunk.n = bytesRead
    BY <2>2 DEF Chunk
  <2> QED
    BY <1>1, <2>1, <2>2, <2>3 DEF Upcoming, InHand, At, Precedes
<1>6. CASE HandOver /\ At("undo")'
  <2>1. /\ reader.at = "hand" /\ reader'.at = "undo" /\ reader'.chunk = reader.chunk
    BY <1>1, <1>6 DEF HandOver, Send, Goto, At, Readers
  <2> QED
    BY <2>1 DEF Upcoming, InHand, At
<1> QED
  BY <1>2, <1>3, <1>4, <1>5, <1>6

\* Where the reader's steps have a chunk in hand.
LEMMA HandSteps ==
    ASSUME TypeInv
    PROVE  /\ Top \/ Gate \/ ReadBytes \/ ReadNothing \/ SendStart \/ SendEnd
                => ~InHand /\ ~InHand'
           /\ Count => ~InHand /\ At("hand")' /\ UNCHANGED <<queue, lastGone>>
           /\ Undo => InHand /\ ~InHand' /\ UNCHANGED <<queue, lastGone>>
           /\ HandOver =>
                /\ At("hand") /\ UNCHANGED <<lastGone, bytesRead>>
                /\ reader'.skipped = reader.skipped
                /\ \/ ~open /\ At("done")' /\ queue' = queue
                   \/ open /\ At("top")' /\ queue' = Append(queue, reader.chunk)
                   \/ open /\ At("undo")' /\ queue' = queue
<1>1. reader \in Readers
  BY DEF TypeInv, TypeOK
<1>2. Top \/ Gate \/ ReadBytes \/ ReadNothing \/ SendStart \/ SendEnd
        => ~InHand /\ ~InHand'
  BY <1>1 DEF Top, Gate, ReadBytes, ReadNothing, SendStart, SendEnd, Send, Goto, At, InHand,
              Readers
<1>3. Count => ~InHand /\ At("hand")' /\ UNCHANGED <<queue, lastGone>>
  BY <1>1 DEF Count, At, InHand, Readers, channel, history
<1>4. Undo => InHand /\ ~InHand' /\ UNCHANGED <<queue, lastGone>>
  BY <1>1 DEF Undo, At, InHand, Readers, channel, history
<1>5. ASSUME HandOver
      PROVE  /\ At("hand") /\ UNCHANGED <<lastGone, bytesRead>>
             /\ reader'.skipped = reader.skipped
             /\ \/ ~open /\ At("done")' /\ queue' = queue
                \/ open /\ At("top")' /\ queue' = Append(queue, reader.chunk)
                \/ open /\ At("undo")' /\ queue' = queue
  BY <1>1, <1>5 DEF HandOver, Send, Goto, At, Readers, stats, history
<1> QED
  BY <1>2, <1>3, <1>4, <1>5

\* The ways a step leaves an open channel.
Keeps == UNCHANGED <<queue, lastGone>> /\ Upcoming' = Upcoming
SendsOther ==
    /\ \E m \in Messages : ~IsChunk(m) /\ queue' = Append(queue, m)
    /\ UNCHANGED lastGone /\ Upcoming' = Upcoming
HandsOver ==
    /\ At("hand") /\ At("top")' /\ queue' = Append(queue, reader.chunk)
    /\ reader'.skipped = reader.skipped /\ UNCHANGED <<lastGone, bytesRead>>
TakesOff ==
    /\ queue # <<>> /\ queue' = Tail(queue) /\ Leaves(Head(queue))
    /\ Upcoming' = Upcoming

LEMMA ChannelSteps ==
    ASSUME TypeInv, [Next]_vars, open'
    PROVE  open /\ (Keeps \/ SendsOther \/ HandsOver \/ TakesOff)
<1>1. open
  BY DEF vars, Next, Write, Close, Silence, Read, Top, Gate, ReadBytes, ReadNothing,
         SendStart, SendEnd, Count, HandOver, Undo, Host, Recv, Taken, Discard, Drain, Zero,
         SetPaced, DropStop, DropClose, DropJoin, channel
<1>2. CASE UNCHANGED vars \/ Write \/ Close \/ Silence
  <2>1. UNCHANGED <<reader, bytesRead, queue, lastGone>>
    BY <1>2 DEF vars, Write, Close, Silence, channel, stats, history
  <2> QED
    BY <1>1, <2>1, UpcomingKept DEF Keeps
<1>3. CASE Top \/ Gate \/ ReadBytes \/ ReadNothing \/ Count \/ Undo
  <2>1. UNCHANGED <<queue, lastGone>>
    BY <1>3 DEF Top, Gate, ReadBytes, ReadNothing, Count, Undo, channel, history
  <2> QED
    BY <1>1, <1>3, <2>1, UpcomingKept DEF Keeps
<1>4. CASE SendStart \/ SendEnd
  <2>1. \E m \in {Start, End} : queue' = Append(queue, m)
    BY <1>1, <1>4 DEF SendStart, SendEnd, Send
  <2>2. UNCHANGED lastGone /\ Upcoming' = Upcoming
    BY <1>1, <1>4, UpcomingKept DEF SendStart, SendEnd, history
  <2>3. ~IsChunk(Start) /\ ~IsChunk(End)
    BY DEF IsChunk, Start, End
  <2> QED
    BY <1>1, <2>1, <2>2, <2>3, SentType DEF SendsOther
<1>5. CASE HandOver
  <2>1. CASE At("top")' /\ queue' = Append(queue, reader.chunk)
    BY <1>1, <1>5, <2>1, HandSteps DEF HandsOver
  <2>2. CASE At("undo")' /\ queue' = queue
    BY <1>1, <1>5, <2>2, HandSteps, UpcomingKept DEF Keeps
  <2> QED
    BY <1>1, <1>5, <2>1, <2>2, HandSteps
<1>6. CASE Host
  <2>1. UNCHANGED <<reader, bytesRead>>
    BY <1>6 DEF Host, Recv, Taken, Discard, Drain, Zero, SetPaced, DropStop, DropClose,
                DropJoin, stats
  <2>2. Upcoming' = Upcoming
    BY <1>1, <2>1, UpcomingKept
  <2>3. \/ UNCHANGED <<queue, lastGone>>
        \/ queue # <<>> /\ queue' = Tail(queue) /\ Leaves(Head(queue))
    BY <1>1, <1>6 DEF Host, Recv, Taken, Discard, Drain, Zero, SetPaced, DropStop, DropClose,
                      DropJoin, channel, history
  <2> QED
    BY <1>1, <2>2, <2>3 DEF Keeps, TakesOff
<1> QED
  BY <1>2, <1>3, <1>4, <1>5, <1>6 DEF Next, Read

LEMMA AccountsStep == TypeInv /\ SkippedAccounts /\ [Next]_vars => SkippedAccounts'
<1> SUFFICES ASSUME TypeInv, SkippedAccounts, [Next]_vars, open'
             PROVE  Linked(queue', lastGone', Upcoming')
  BY DEF SkippedAccounts, Linked, Upcoming
<1>1. open /\ (Keeps \/ SendsOther \/ HandsOver \/ TakesOff)
  BY ChannelSteps
<1>2. Linked(queue, lastGone, Upcoming) /\ queue \in Seq(Messages)
  BY <1>1, AccountsAreLinks DEF TypeInv, TypeOK
<1>3. CASE Keeps
  BY <1>2, <1>3 DEF Keeps
<1>4. CASE SendsOther
  <2>1. PICK m \in Messages : ~IsChunk(m) /\ queue' = Append(queue, m)
    BY <1>4 DEF SendsOther
  <2>2. Linked(Append(queue, m), lastGone, Upcoming)
    BY <1>2, <2>1, LinkedOther
  <2> QED
    BY <1>4, <2>1, <2>2 DEF SendsOther
<1>5. CASE HandsOver
  <2> DEFINE m == reader.chunk
  <2>1. /\ m \in Messages /\ m = Chunk(bytesRead, m.skipped)
        /\ reader.skipped = 0 /\ Upcoming = Precedes(m) /\ bytesRead \in Nat
    BY <1>5 DEF HandsOver, TypeInv, TypeOK, CountsInv, InHand, At, Readers, Upcoming
  <2>2. IsChunk(m) /\ m.n = bytesRead
    BY <2>1 DEF Chunk, IsChunk
  <2>3. Linked(Append(queue, m), lastGone, m.n)
    BY <1>2, <2>1, <2>2, LinkedChunk
  <2>4. Upcoming' = bytesRead
    BY <1>5, <2>1 DEF HandsOver, Upcoming, InHand, At
  <2> QED
    BY <1>5, <2>2, <2>3, <2>4 DEF HandsOver
<1>6. CASE TakesOff
  <2>1. Linked(Tail(queue), IF IsChunk(Head(queue)) THEN Head(queue).n ELSE lastGone,
               Upcoming)
    BY <1>2, <1>6, LinkedTail DEF TakesOff
  <2> QED
    BY <1>6, <2>1 DEF TakesOff, Leaves
<1> QED
  BY <1>1, <1>3, <1>4, <1>5, <1>6

LEMMA InitAccounts == Init => SkippedAccounts
<1> SUFFICES ASSUME Init
             PROVE  SkippedAccounts
  OBVIOUS
<1>1. queue = <<>> /\ lastGone = 0 /\ bytesRead = 0 /\ reader.skipped = 0 /\ ~InHand
  BY DEF Init, InHand, At
<1> QED
  BY <1>1, NoChunks DEF SkippedAccounts, LastBefore

\* reader.rs:40: the chunks handed over and what each says was skipped before it cover
\* everything read, without a hole or an overlap, for every size of the channel.
THEOREM SkippedAccounted == Spec => []SkippedAccounts
<1>1. Init => TypeInv /\ SkippedAccounts
  BY InitType, InitAccounts
<1>2. TypeInv /\ SkippedAccounts /\ [Next]_vars => (TypeInv /\ SkippedAccounts)'
  BY NextType, AccountsStep
<1> QED
  BY <1>1, <1>2, PTL DEF Spec

-----------------------------------------------------------------------------
(* The count of queued chunks.                                               *)

Bit(b) == IF b THEN 1 ELSE 0

\* What a step does to the chunks waiting and to the count kept of them: a step adds a
\* chunk in hand and counts it, moves one, undoes one, takes one, or lets go of some.
Size == Cardinality(Chunks(queue))
Same == UNCHANGED <<queued, host, discards>> /\ Size' = Size /\ (InHand' <=> InHand)
Counts ==
    /\ ~InHand /\ InHand' /\ At("count")
    /\ Size' = Size /\ queued' = Plus(queued, 1) /\ UNCHANGED <<host, discards>>
Moves ==
    /\ InHand /\ UNCHANGED <<queued, host, discards>>
    /\ \/ ~open /\ ~InHand' /\ Size' = Size
       \/ ~InHand' /\ Size' = Size + 1
       \/ InHand' /\ Size' = Size /\ At("undo")'
Undoes ==
    /\ At("undo") /\ ~InHand' /\ Size' = Size
    /\ queued' = Plus(queued, CounterSize - 1) /\ UNCHANGED <<host, discards>>
Receives ==
    /\ host = "idle" /\ UNCHANGED <<queued, discards>> /\ (InHand' <=> InHand)
    /\ \/ host' = "taken" /\ Size' = Size - 1
       \/ host' = "idle" /\ Size' = Size
Uncounts ==
    /\ host = "taken" /\ host' = "idle" /\ UNCHANGED discards
    /\ queued' = (IF queued > 0 THEN queued - 1 ELSE 0)
    /\ Size' = Size /\ (InHand' <=> InHand)
Begins ==
    /\ host = "idle" /\ host' = "drain" /\ discards' = discards + 1
    /\ Size' = Size /\ (InHand' <=> InHand) /\ UNCHANGED queued
Drains ==
    /\ host = "drain" /\ UNCHANGED <<queued, discards>> /\ (InHand' <=> InHand)
    /\ \/ host' = "drain" /\ Size' \in {Size, Size - 1}
       \/ host' = "zero" /\ Size' = 0
Zeroes ==
    /\ host = "zero" /\ host' = "idle" /\ queued' = 0 /\ UNCHANGED discards
    /\ Size' = Size /\ (InHand' <=> InHand)
Leaving ==
    /\ host \in {"idle", "close", "join"} /\ host' \in {"close", "join", "gone"}
    /\ UNCHANGED <<queued, discards>> /\ (InHand' <=> InHand)
    /\ \/ Size' = Size
       \/ ~open' /\ Size' = 0

LEMMA SizeType ==
    ASSUME TypeInv
    PROVE  Size \in Nat /\ Size <= QueueChunks
<1>1. queue \in Seq(Messages) /\ Len(queue) <= QueueChunks /\ Len(queue) \in Nat
  BY LenProperties DEF TypeInv, TypeOK
<1>2. Size \in 0..Len(queue)
  BY <1>1, ChunksFinite DEF Size
<1> QED
  BY <1>1, <1>2, Sizes

\* A step that leaves the channel alone leaves its chunks.
LEMMA SizeKept == ASSUME queue' = queue PROVE Size' = Size
BY DEF Size

LEMMA ReaderSizes ==
    ASSUME TypeInv, Read
    PROVE  Same \/ Counts \/ Moves \/ Undoes
<1>1. queue \in Seq(Messages) /\ reader \in Readers
  BY DEF TypeInv, TypeOK
<1>2. CASE Top \/ Gate \/ ReadBytes \/ ReadNothing
  <2>1. UNCHANGED <<queue, queued, host, discards>>
    BY <1>2 DEF Top, Gate, ReadBytes, ReadNothing, channel, history
  <2>2. ~InHand /\ ~InHand'
    BY <1>2, HandSteps
  <2> QED
    BY <2>1, <2>2, SizeKept DEF Same
<1>3. CASE SendStart \/ SendEnd
  <2>1. UNCHANGED <<queued, host, discards>>
    BY <1>3 DEF SendStart, SendEnd, history
  <2>2. ~InHand /\ ~InHand'
    BY <1>3, HandSteps
  <2>3. queue' = queue \/ \E m \in {Start, End} : queue' = Append(queue, m)
    BY <1>3 DEF SendStart, SendEnd, Send
  <2>4. ASSUME NEW m \in {Start, End}, queue' = Append(queue, m)
        PROVE  Size' = Size
    <3>1. ~IsChunk(m) /\ m \in Messages
      BY SentType DEF IsChunk, Start, End
    <3>2. Chunks(Append(queue, m)) =
            Chunks(queue) \cup (IF IsChunk(m) THEN {Len(queue) + 1} ELSE {})
      BY <1>1, <3>1, ChunksOfAppend
    <3>3. Chunks(Append(queue, m)) = Chunks(queue)
      BY <3>1, <3>2
    <3> QED
      BY <2>4, <3>3 DEF Size
  <2> QED
    BY <2>1, <2>2, <2>3, <2>4, SizeKept DEF Same
<1>4. CASE Count
  <2>1. /\ At("count") /\ queued' = Plus(queued, 1) /\ UNCHANGED <<queue, host, discards>>
    BY <1>4 DEF Count, channel, history
  <2> QED
    BY <1>4, <2>1, HandSteps, SizeKept DEF Counts, InHand
<1>5. CASE HandOver
  <2>1. UNCHANGED <<queued, host, discards>> /\ InHand
    BY <1>5, HandSteps DEF HandOver, history, InHand
  <2>2. CASE ~open /\ At("done")' /\ queue' = queue
    BY <2>1, <2>2, SizeKept DEF Moves, InHand, At
  <2>3. CASE At("top")' /\ queue' = Append(queue, reader.chunk)
    <3>1. reader.chunk \in Messages /\ IsChunk(reader.chunk)
      BY <1>1, <2>1 DEF Readers, TypeInv, CountsInv, IsChunk, Chunk
    <3>2. Cardinality(Chunks(Append(queue, reader.chunk))) = Cardinality(Chunks(queue)) + 1
      BY <1>1, <3>1, ChunksOfAppend
    <3>3. Size' = Size + 1
      BY <2>3, <3>2 DEF Size
    <3> QED
      BY <2>1, <2>3, <3>3 DEF Moves, InHand, At
  <2>4. CASE At("undo")' /\ queue' = queue
    BY <2>1, <2>4, SizeKept DEF Moves, InHand, At
  <2> QED
    BY <1>5, <2>2, <2>3, <2>4, HandSteps
<1>6. CASE Undo
  <2>1. /\ At("undo") /\ queued' = Plus(queued, CounterSize - 1)
        /\ UNCHANGED <<queue, host, discards>>
    BY <1>6 DEF Undo, channel, history
  <2> QED
    BY <1>6, <2>1, HandSteps, SizeKept DEF Undoes
<1> QED
  BY <1>2, <1>3, <1>4, <1>5, <1>6 DEF Read

LEMMA HostSizes ==
    ASSUME TypeInv, Host
    PROVE  \/ Same \/ Receives \/ Uncounts \/ Begins \/ Drains \/ Zeroes \/ Leaving
<1>1. queue \in Seq(Messages)
  BY DEF TypeInv, TypeOK
<1>2. reader' = reader
  BY DEF Host, Recv, Taken, Discard, Drain, Zero, SetPaced, DropStop, DropClose, DropJoin
<1>3. InHand' <=> InHand
  BY <1>2 DEF InHand, At
<1>4. ASSUME queue # <<>>, queue' = Tail(queue)
      PROVE  Size' = Size - Bit(IsChunk(Head(queue)))
  <2>1. Cardinality(Chunks(Tail(queue))) = Size - Bit(IsChunk(Head(queue)))
    BY <1>1, <1>4, ChunksOfTail DEF Size, Bit
  <2> QED
    BY <1>4, <2>1 DEF Size
<1>5. Size \in Nat
  BY SizeType
<1>6. CASE Recv
  <2>1. /\ host = "idle" /\ UNCHANGED <<queued, discards>>
        /\ queue # <<>> /\ queue' = Tail(queue)
        /\ host' = IF IsChunk(Head(queue)) THEN "taken" ELSE "idle"
    BY <1>6 DEF Recv
  <2> QED
    BY <1>3, <1>4, <1>5, <2>1 DEF Receives, Bit
<1>7. CASE Taken
  BY <1>3, <1>7, SizeKept DEF Taken, Uncounts, channel, history
<1>8. CASE Discard
  BY <1>3, <1>8, SizeKept DEF Discard, Begins, channel
<1>9. CASE Drain
  <2>1. /\ host = "drain" /\ UNCHANGED <<queued, discards>>
        /\ \/ queue # <<>> /\ queue' = Tail(queue) /\ host' = host
           \/ queue = <<>> /\ queue' = queue /\ host' = "zero"
    BY <1>9 DEF Drain
  <2>2. CASE queue # <<>> /\ queue' = Tail(queue) /\ host' = host
    <3>1. Size' \in {Size, Size - 1}
      BY <1>4, <1>5, <2>2 DEF Bit
    <3> QED
      BY <1>3, <2>1, <2>2, <3>1 DEF Drains
  <2>3. CASE queue = <<>> /\ queue' = queue /\ host' = "zero"
    <3>1. Size' = 0
      BY <2>3, NoChunks DEF Size
    <3> QED
      BY <1>3, <2>1, <2>3, <3>1 DEF Drains
  <2> QED
    BY <2>1, <2>2, <2>3
<1>10. CASE Zero
  BY <1>3, <1>10, SizeKept DEF Zero, Zeroes, channel, history
<1>11. CASE SetPaced
  BY <1>3, <1>11, SizeKept DEF SetPaced, Same, channel
<1>12. CASE DropStop \/ DropJoin
  BY <1>3, <1>12, SizeKept DEF DropStop, DropJoin, Leaving, channel, history
<1>13. CASE DropClose
  <2>1. Size' = 0
    BY <1>13, NoChunks DEF DropClose, Size
  <2> QED
    BY <1>3, <1>13, <2>1 DEF DropClose, Leaving, history
<1> QED
  BY <1>6, <1>7, <1>8, <1>9, <1>10, <1>11, <1>12, <1>13 DEF Host

LEMMA SizeSteps ==
    ASSUME TypeInv, [Next]_vars
    PROVE  \/ Same \/ Counts \/ Moves \/ Undoes
           \/ Receives \/ Uncounts \/ Begins \/ Drains \/ Zeroes \/ Leaving
<1>1. CASE UNCHANGED vars \/ Write \/ Close \/ Silence
  <2>1. UNCHANGED <<queue, reader, queued, host, discards>>
    BY <1>1 DEF vars, Write, Close, Silence, channel, history
  <2>2. InHand' <=> InHand
    BY <2>1 DEF InHand, At
  <2> QED
    BY <2>1, <2>2, SizeKept DEF Same
<1> QED
  BY <1>1, ReaderSizes, HostSizes DEF Next

\* A count that has room is added to and taken back as a number is.
LEMMA PlusOne ==
    ASSUME NEW n \in Nat, n + 1 < CounterSize
    PROVE  Plus(n, 1) = n + 1
BY Sizes DEF Plus

LEMMA MinusOne ==
    ASSUME NEW n \in Nat \ {0}, n < CounterSize
    PROVE  Plus(n, CounterSize - 1) = n - 1
<1>1. (n - 1) % CounterSize = n - 1
  BY Sizes
<1>2. ((n - 1) + CounterSize) % CounterSize = (n - 1) % CounterSize
  BY Sizes
<1>3. n + (CounterSize - 1) = (n - 1) + CounterSize
  BY Sizes
<1> QED
  BY <1>1, <1>2, <1>3 DEF Plus

\* A discard under way was counted.
DiscardInv == host \in {"drain", "zero"} => discards > 0

LEMMA DiscardStep == TypeInv /\ DiscardInv /\ [Next]_vars => DiscardInv'
<1> SUFFICES ASSUME TypeInv, DiscardInv, [Next]_vars
             PROVE  DiscardInv'
  OBVIOUS
<1>1. discards \in Nat
  BY Sizes DEF TypeInv, TypeOK
<1> QED
  BY <1>1, SizeSteps
     DEF DiscardInv, Same, Counts, Moves, Undoes, Receives, Uncounts, Begins, Drains, Zeroes,
         Leaving

\* The chunks counted: those waiting, and the one being taken.
LEMMA CountIsSize ==
    CountMatches <=>
        (discards = 0 /\ open => queued = Size + Bit(InHand) + Bit(host = "taken"))
BY DEF CountMatches, Waiting, Size, Bit

LEMMA CountStep == TypeInv /\ DiscardInv /\ CountMatches /\ [Next]_vars => CountMatches'
<1> SUFFICES ASSUME TypeInv, DiscardInv, CountMatches, [Next]_vars, discards' = 0, open'
             PROVE  queued' = Size' + Bit(InHand') + Bit(host' = "taken")
  BY DEF CountMatches, Waiting, Size, Bit
<1>1. open
  BY ChannelSteps
<1>2. discards \in Nat /\ Size \in Nat /\ Size <= QueueChunks
  BY SizeType, Sizes DEF TypeInv, TypeOK
<1>3. discards = 0
  BY <1>2, SizeSteps
     DEF Same, Counts, Moves, Undoes, Receives, Uncounts, Begins, Drains, Zeroes, Leaving
<1>4. /\ queued = Size + Bit(InHand) + Bit(host = "taken")
      /\ host \notin {"drain", "zero"}
  BY <1>1, <1>3, CountIsSize DEF DiscardInv
<1>5. CASE Same
  BY <1>4, <1>5 DEF Same, Bit
<1>6. CASE Counts
  <2>1. /\ queued \in Nat /\ queued + 1 < CounterSize
        /\ queued = Size + Bit(host = "taken")
    BY <1>2, <1>4, <1>6, Sizes DEF Counts, Bit
  <2>2. queued' = queued + 1
    BY <1>6, <2>1, PlusOne DEF Counts
  <2> QED
    BY <1>2, <1>6, <2>1, <2>2 DEF Counts, Bit
<1>7. CASE Moves
  BY <1>1, <1>2, <1>4, <1>7 DEF Moves, Bit
<1>8. CASE Undoes
  <2>1. InHand
    BY <1>8 DEF Undoes, InHand
  <2>2. /\ queued \in Nat \ {0} /\ queued < CounterSize
        /\ queued = Size + 1 + Bit(host = "taken")
    BY <1>2, <1>4, <2>1, Sizes DEF Bit
  <2>3. queued' = queued - 1
    BY <1>8, <2>2, MinusOne DEF Undoes
  <2> QED
    BY <1>2, <1>8, <2>2, <2>3 DEF Undoes, Bit
<1>9. CASE Receives
  BY <1>2, <1>4, <1>9 DEF Receives, Bit
<1>10. CASE Uncounts
  BY <1>2, <1>4, <1>10 DEF Uncounts, Bit
<1>11. CASE Begins \/ Drains \/ Zeroes
  BY <1>3, <1>4, <1>11 DEF Begins, Drains, Zeroes
<1>12. CASE Leaving
  BY <1>2, <1>4, <1>12 DEF Leaving, Bit
<1> QED
  BY SizeSteps, <1>5, <1>6, <1>7, <1>8, <1>9, <1>10, <1>11, <1>12

LEMMA InitCount == Init => DiscardInv /\ CountMatches
<1> SUFFICES ASSUME Init
             PROVE  DiscardInv /\ CountMatches
  OBVIOUS
<1>1. /\ queue = <<>> /\ queued = 0 /\ host = "idle" /\ ~InHand
  BY DEF Init, InHand, At
<1>2. Waiting = 0
  BY <1>1, NoChunks DEF Waiting
<1> QED
  BY <1>1, <1>2 DEF DiscardInv, CountMatches

\* reader.rs:117: while nothing was discarded, the count of queued chunks is that of the
\* chunks handed over and not taken, and never wraps.
THEOREM CountExact == Spec => []CountMatches
<1>1. Init => TypeInv /\ DiscardInv /\ CountMatches
  BY InitType, InitCount
<1>2. TypeInv /\ DiscardInv /\ CountMatches /\ [Next]_vars
        => (TypeInv /\ DiscardInv /\ CountMatches)'
  BY NextType, DiscardStep, CountStep
<1> QED
  BY <1>1, <1>2, PTL DEF Spec

-----------------------------------------------------------------------------
(* How far a paced source is read ahead.                                     *)

\* The discards that have zeroed the count.
Zeroings == discards - Bit(host \in {"drain", "zero"})

\* The reader of a file passes the gate below the pacing only, and the count is short
\* of the chunks ahead by what each zeroing left waiting.
PacedInv ==
    kind = "ToEnd" =>
        /\ queued <= PacedQueueChunks
        /\ (At("read") \/ At("start") \/ At("count")) => queued < PacedQueueChunks
        /\ Size + Bit(InHand) + Bit(host = "taken")
              <= queued + PacedQueueChunks * Zeroings

\* The count only goes up as the chunk is made.
LEMMA GateStep ==
    ASSUME TypeInv, FileInv, PacedInv, [Next]_vars, kind = "ToEnd"
    PROVE  /\ queued' <= PacedQueueChunks
           /\ (At("read") \/ At("start") \/ At("count"))' => queued' < PacedQueueChunks
<1>1. /\ queued \in Nat /\ PacedQueueChunks \in Nat
      /\ PacedQueueChunks < CounterSize /\ CounterSize \in Nat
      /\ queued <= PacedQueueChunks
      /\ reader.at \in {"read", "start", "count"} => queued < PacedQueueChunks
      /\ reader \in Readers /\ reader.at # "undo" /\ 0 < PacedQueueChunks
  BY Sizes DEF TypeInv, TypeOK, PacedInv, FileInv, At
<1>2. CASE UNCHANGED vars \/ Write \/ Close \/ Silence \/ Host
  <2>1. reader' = reader
    BY <1>2 DEF vars, Write, Close, Silence, Host, Recv, Taken, Discard, Drain, Zero,
                SetPaced, DropStop, DropClose, DropJoin
  <2>2. \/ queued' = queued \/ queued' = 0
        \/ queued > 0 /\ queued' = queued - 1
    BY <1>1, <1>2 DEF vars, Write, Close, Silence, Host, Recv, Taken, Discard, Drain, Zero,
                      SetPaced, DropStop, DropClose, DropJoin
  <2> QED
    BY <1>1, <2>1, <2>2 DEF At
<1>3. CASE Top
  <2>1. queued' = queued /\ paced
    BY <1>3 DEF Top, FileInv
  <2>2. reader'.at \in {"done", "gate"}
    BY <1>1, <1>3, <2>1 DEF Top, Goto, Readers
  <2> QED
    BY <1>1, <2>1, <2>2 DEF At
<1>4. CASE Gate
  <2>1. queued' = queued
    BY <1>4 DEF Gate
  <2>2. reader'.at = "top" \/ queued < PacedQueueChunks
    BY <1>1, <1>4 DEF Gate, Goto, Readers
  <2> QED
    BY <1>1, <2>1, <2>2 DEF At
<1>5. CASE ReadBytes \/ ReadNothing \/ SendStart \/ SendEnd \/ HandOver
  <2>1. queued' = queued
    BY <1>5 DEF ReadBytes, ReadNothing, SendStart, SendEnd, HandOver
  <2>2. reader'.at \in {"read", "start", "count"} => reader.at \in {"read", "start"}
    BY <1>1, <1>5 DEF ReadBytes, ReadNothing, SendStart, SendEnd, HandOver, Send, Goto, At,
                      Readers
  <2> QED
    BY <1>1, <2>1, <2>2 DEF At
<1>6. CASE Count
  <2>1. reader.at = "count" /\ queued' = Plus(queued, 1) /\ reader'.at = "hand"
    BY <1>1, <1>6 DEF Count, At, Readers
  <2>2. queued' = queued + 1
    BY <1>1, <2>1, PlusOne
  <2> QED
    BY <1>1, <2>1, <2>2 DEF At
<1>7. CASE Undo
  BY <1>1, <1>7 DEF Undo, At
<1> QED
  BY <1>2, <1>3, <1>4, <1>5, <1>6, <1>7 DEF Next, Read

\* What is ahead of the host stays within the count and what the zeroings left.
LEMMA AheadStep ==
    ASSUME TypeInv, FileInv, DiscardInv, PacedInv, [Next]_vars, kind = "ToEnd"
    PROVE  (Size + Bit(InHand) + Bit(host = "taken")
              <= queued + PacedQueueChunks * Zeroings)'
<1> DEFINE P == PacedQueueChunks
           A == P * Zeroings
<1>1. /\ queued \in Nat /\ queued <= P /\ P \in Nat /\ 0 < P
      /\ P < CounterSize /\ CounterSize \in Nat
      /\ discards \in Nat /\ Size \in Nat
      /\ At("count") => queued < P
      /\ Size + Bit(InHand) + Bit(host = "taken") <= queued + A
  BY Sizes, SizeType DEF TypeInv, TypeOK, PacedInv
<1>2. Zeroings \in Nat /\ A \in Nat
  <2>1. Zeroings \in Nat
    BY <1>1 DEF DiscardInv, Zeroings, Bit
  <2> QED
    BY <1>1, <2>1
<1>3. ~At("undo")
  BY DEF FileInv
<1>4. CASE Zeroes
  <2>1. Zeroings' = Zeroings + 1 /\ queued' = 0 /\ host' = "idle" /\ host = "zero"
    BY <1>1, <1>4 DEF Zeroes, Zeroings, Bit
  <2>2. P * Zeroings' = A + P
    BY <1>1, <1>2, <2>1
  <2> HIDE DEF A
  <2>3. Size' + Bit(InHand') <= queued + A
    BY <1>1, <1>2, <1>4, <2>1 DEF Zeroes, Bit
  <2>4. Size' + Bit(InHand') + Bit(host' = "taken") = Size' + Bit(InHand')
    BY <1>1, <1>4, <2>1 DEF Zeroes, Bit
  <2>5. Size' + Bit(InHand') <= queued' + (A + P)
    BY <1>1, <1>2, <1>4, <2>1, <2>3 DEF Zeroes, Bit
  <2> QED
    BY <2>2, <2>4, <2>5
<1>5. CASE ~Zeroes
  <2>1. Zeroings' = Zeroings
    BY <1>1, <1>5, SizeSteps
       DEF Same, Counts, Moves, Undoes, Receives, Uncounts, Begins, Drains, Leaving,
           Zeroings, Bit
  <2>2. P * Zeroings' = A
    BY <2>1
  <2> HIDE DEF A
  <2>3. Size' + Bit(InHand') + Bit(host' = "taken") <= queued' + A
    <3>1. CASE Same
      BY <1>1, <3>1 DEF Same, Bit
    <3>2. CASE Counts
      <4>1. queued' = queued + 1
        BY <1>1, <3>2, PlusOne DEF Counts
      <4> QED
        BY <1>1, <1>2, <3>2, <4>1 DEF Counts, Bit
    <3>3. CASE Moves
      BY <1>1, <1>2, <3>3 DEF Moves, Bit
    <3>4. CASE Receives
      BY <1>1, <1>2, <3>4 DEF Receives, Bit
    <3>5. CASE Uncounts
      BY <1>1, <1>2, <3>5 DEF Uncounts, Bit
    <3>6. CASE Begins
      BY <1>1, <1>2, <3>6 DEF Begins, Bit
    <3>7. CASE Drains
      BY <1>1, <1>2, <3>7 DEF Drains, Bit
    <3>8. CASE Leaving
      BY <1>1, <1>2, <3>8 DEF Leaving, Bit
    <3> QED
      BY <1>3, <1>5, SizeSteps, <3>1, <3>2, <3>3, <3>4, <3>5, <3>6, <3>7, <3>8 DEF Undoes
  <2> QED
    BY <2>2, <2>3
<1> QED
  BY <1>4, <1>5

LEMMA PacedStep ==
    TypeInv /\ FileInv /\ DiscardInv /\ PacedInv /\ [Next]_vars => PacedInv'
<1> SUFFICES ASSUME TypeInv, FileInv, DiscardInv, PacedInv, [Next]_vars, kind' = "ToEnd"
             PROVE  PacedInv'
  BY DEF PacedInv
<1>1. kind = "ToEnd"
  BY DEF vars, Next, Write, Close, Silence, Read, Top, Gate, ReadBytes, ReadNothing,
         SendStart, SendEnd, Count, HandOver, Undo, Host, Recv, Taken, Discard, Drain, Zero,
         SetPaced, DropStop, DropClose, DropJoin, source
<1> QED
  BY <1>1, GateStep, AheadStep DEF PacedInv

LEMMA InitPaced == Init => PacedInv
<1> SUFFICES ASSUME Init
             PROVE  PacedInv
  OBVIOUS
<1>1. queue = <<>> /\ queued = 0 /\ host = "idle" /\ reader.at = "top" /\ discards = 0
  BY DEF Init
<1>2. Size = 0
  BY <1>1, NoChunks DEF Size
<1>3. Zeroings = 0
  <2>1. Bit(host \in {"drain", "zero"}) = 0
    BY <1>1 DEF Bit
  <2> QED
    BY <1>1, <2>1 DEF Zeroings
<1>4. PacedQueueChunks * Zeroings = 0
  BY <1>3, Sizes
<1> QED
  BY <1>1, <1>2, <1>4, Sizes DEF PacedInv, InHand, At, Bit

\* reader.rs:293: a file is read no further ahead of the host than the paced queue, and
\* as much again for each discard.
THEOREM PacedIsHeldBack == Spec => []PacedHoldsBack
<1>1. Init => TypeInv /\ FileInv /\ DiscardInv /\ PacedInv
  BY InitType, InitFile, InitCount, InitPaced
<1>2. TypeInv /\ FileInv /\ DiscardInv /\ PacedInv /\ [Next]_vars
        => (TypeInv /\ FileInv /\ DiscardInv /\ PacedInv)'
  BY NextType, FileStep, DiscardStep, PacedStep
<1>3. TypeInv /\ DiscardInv /\ PacedInv => PacedHoldsBack
  <2> SUFFICES ASSUME TypeInv, DiscardInv, PacedInv, kind = "ToEnd"
               PROVE  Waiting <= PacedQueueChunks * (1 + discards)
    BY DEF PacedHoldsBack
  <2> DEFINE P == PacedQueueChunks
  <2>1. /\ P \in Nat /\ queued \in Nat /\ queued <= P /\ Size \in Nat /\ discards \in Nat
        /\ Size + Bit(InHand) + Bit(host = "taken") <= queued + P * Zeroings
    BY Sizes, SizeType DEF TypeInv, TypeOK, PacedInv
  <2>2. Zeroings \in Nat /\ Zeroings <= discards
    BY <2>1 DEF DiscardInv, Zeroings, Bit
  <2>3. P * Zeroings <= P * discards /\ P * (1 + discards) = P + P * discards
    BY <2>1, <2>2
  <2>4. P * Zeroings \in Nat /\ P * discards \in Nat
    BY <2>1, <2>2
  <2>5. Waiting = Size + Bit(InHand)
    BY DEF Waiting, Size, Bit
  <2> HIDE DEF P
  <2>6. Waiting <= P * (1 + discards)
    BY <2>1, <2>3, <2>4, <2>5 DEF Bit
  <2> QED
    BY <2>6 DEF P
<1> QED
  BY <1>1, <1>2, <1>3, PTL DEF Spec
=============================================================================
