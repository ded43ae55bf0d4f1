------------------------- MODULE StreamLinkProofs --------------------------
(***************************************************************************)
(* Proofs about StreamLink, for any connections, sizes of the queues and   *)
(* budget: that an open stream misses no state, however slow its client,   *)
(* and that a SYNC is answered after everything it comes after.            *)
(*                                                                         *)
(* Only Studio's link is spoken of: no other connection reaches it.  What  *)
(* is on its way to Studio (Coming) is a sequence that a push lengthens, a *)
(* packet taken shortens at its head, and an end cuts off; what is on its  *)
(* way to the listener (Waiting) is kept in the order it was asked in.     *)
(***************************************************************************)
EXTENDS StreamLink, SequenceTheorems, TLAPS

-----------------------------------------------------------------------------
(* The types.                                                              *)

\* A connection, and the queues of an open and of a closed one.
Conn == [epoch : Nat \cup {None, Other}, accepted : BOOLEAN, reading : BOOLEAN,
         up : Seq(Requests), outbox : Seq(Packets), pipe : Seq(Packets),
         closed : BOOLEAN, fin : BOOLEAN, said : Seq(Nat), served : BOOLEAN]
ConnOK(r) ==
    /\ r \in Conn
    /\ Len(r.outbox) <= OutboxSize /\ Len(r.pipe) <= PipeSize
    /\ r.reading => r.accepted
    /\ r.closed => r.outbox = <<>>
QuietOK(r) == ~r.accepted => r.outbox = <<>>
Entries == [from : Conns, what : Requests]
Steps ==
    [do : {"left", "poll", "receive", "publish"}] \cup [do : {"reply"}, to : Conns]
    \cup [do : {"answer"}, to : Conns, answer : Packets]

ConnsOK == conn = [c \in Conns |-> conn[c]] /\ \A c \in Conns : ConnOK(conn[c])
Accepted == \A c \in Conns : QuietOK(conn[c])
StateOK ==
    /\ truth \in Nat /\ told \in 0 .. truth /\ moved \in BOOLEAN
    /\ count \in Count /\ epoch \in Nat \ {0}
PortOK ==
    /\ mode \in {"binding", "serving", "stopping", "gone"} /\ receiving \in BOOLEAN
    /\ streamPort \in {None, Other} \cup 1 .. epoch
ListenerOK ==
    /\ step \in Steps
    /\ inbox \in Seq(Entries) /\ Len(inbox) <= InboxSize
    /\ registry \subseteq Conns /\ \A c \in registry : conn[c].accepted
    /\ \A k \in 1 .. Len(inbox) : conn[inbox[k].from].accepted
    /\ step.do \in {"reply", "answer"} => conn[step.to].accepted
StudioOK ==
    /\ link \in Conns \cup {None} /\ {confirmed, backoff, ready, asked} \subseteq BOOLEAN
    /\ vals \in Nat /\ sync \in Sync /\ heard \in Nat \cup {None}
    /\ sent \in Nat

TypeInv == ConnsOK /\ Accepted /\ StateOK /\ PortOK /\ ListenerOK /\ StudioOK

\* The fields of the packets and of the requests.
LEMMA PacketFields ==
    /\ \A p \in Packets :
         /\ TellsState(p) => p.val \in Nat /\ p.gen \in Count
         /\ p.kind = "ack" => p.epoch \in Nat /\ p.gen \in Count
         /\ p.kind = "synced" => p.sent \in Nat
         /\ p.kind = "error" => p.of \in Nat
    /\ \A q \in Requests :
         /\ q.kind = "control" => q.number \in Nat
         /\ q.kind = "sync" => q.sent \in Nat
BY DEF Packets, Requests, TellsState

\* The packets and requests there are.
LEMMA PacketMade ==
    /\ \A v \in Nat, g \in Count : /\ [kind |-> "update", val |-> v, gen |-> g] \in Packets
                                   /\ [kind |-> "part", val |-> v, gen |-> g] \in Packets
    /\ \A e \in Nat, g \in Count : [kind |-> "ack", epoch |-> e, gen |-> g] \in Packets
    /\ \A n \in Nat : /\ [kind |-> "synced", sent |-> n] \in Packets
                      /\ [kind |-> "error", of |-> n] \in Packets
    /\ \A k \in {"unknown", "goodbye", "telemetry"} : [kind |-> k] \in Packets
BY DEF Packets
LEMMA RequestMade ==
    /\ AskRegister \in Requests /\ AskHeartbeat \in Requests /\ AskRefresh \in Requests
    /\ \A n \in Nat : /\ [kind |-> "control", number |-> n] \in Requests
                      /\ [kind |-> "sync", sent |-> n] \in Requests
BY DEF Requests, AskRegister, AskHeartbeat, AskRefresh

\* The next count is one.
LEMMA FollowingIsCount == ASSUME NEW c \in Count PROVE Following(c) \in Count
BY CountAssumption DEF Count, Following

-----------------------------------------------------------------------------
(* A connection.                                                           *)

LEMMA Sizes ==
    /\ OutboxSize \in Nat \ {0} /\ PipeSize \in Nat \ {0} /\ InboxSize \in Nat \ {0}
    /\ None # Other /\ None \notin Nat /\ Other \notin Nat /\ None \notin Conns
    /\ None \notin Count
BY SizesAssumption, CountAssumption DEF Count

\* A connection not yet used.
LEMMA UnusedOK == ConnOK(Unused)
<1>1. <<>> \in Seq(Requests) /\ <<>> \in Seq(Packets) /\ <<>> \in Seq(Nat) /\ Len(<<>>) = 0
  BY EmptySeq
<1> QED
  BY <1>1, Sizes DEF Unused, ConnOK, Conn

\* Its end.
LEMMA ShutOK ==
    ASSUME NEW r, ConnOK(r)
    PROVE  /\ ConnOK(Shut(r)) /\ Shut(r).closed /\ Shut(r).outbox = <<>>
           /\ Shut(r) = [r EXCEPT !.closed = TRUE, !.outbox = <<>>]
<1>1. <<>> \in Seq(Packets) /\ Len(<<>>) = 0
  BY EmptySeq
<1>2. Shut(r) = [r EXCEPT !.closed = TRUE, !.outbox = <<>>]
  BY DEF Shut
<1>3. Shut(r) \in Conn /\ Shut(r).closed /\ Shut(r).outbox = <<>>
  BY <1>1, <1>2 DEF ConnOK, Conn
<1>4. Shut(r).pipe = r.pipe /\ Shut(r).reading = r.reading
      /\ Shut(r).accepted = r.accepted
  BY <1>2 DEF ConnOK, Conn
<1> QED
  BY <1>1, <1>2, <1>3, <1>4, Sizes DEF ConnOK

LEMMA ShutKeeps ==
    ASSUME NEW r, ConnOK(r)
    PROVE  /\ Shut(r).epoch = r.epoch /\ Shut(r).accepted = r.accepted
           /\ Shut(r).reading = r.reading /\ Shut(r).up = r.up
           /\ Shut(r).pipe = r.pipe /\ Shut(r).fin = r.fin
           /\ Shut(r).said = r.said /\ Shut(r).served = r.served
BY DEF Shut, ConnOK, Conn

\* A packet for it: queued, dropped for a full queue if it is telemetry, or the
\* end of it.
LEMMA PushIs ==
    ASSUME NEW r, ConnOK(r), NEW p \in Packets
    PROVE  /\ ConnOK(Push(r, p))
           /\ \/ Push(r, p) = r /\ (r.closed \/ p.kind = "telemetry")
              \/ Push(r, p) = [r EXCEPT !.outbox = Append(r.outbox, p)] /\ ~r.closed
              \/ Push(r, p) = [r EXCEPT !.closed = TRUE, !.outbox = <<>>]
<1>1. Len(r.outbox) \in Nat /\ r.outbox \in Seq(Packets)
  BY LenProperties DEF ConnOK, Conn
<1>2. /\ Append(r.outbox, p) \in Seq(Packets)
      /\ Len(Append(r.outbox, p)) = Len(r.outbox) + 1
  BY <1>1, AppendProperties
<1>3. CASE r.closed
  BY <1>3 DEF Push
<1>4. CASE ~r.closed /\ Len(r.outbox) < OutboxSize
  <2>1. Push(r, p) = [r EXCEPT !.outbox = Append(r.outbox, p)]
    BY <1>4 DEF Push
  <2>2. /\ Push(r, p) \in Conn /\ Push(r, p).outbox = Append(r.outbox, p)
        /\ Push(r, p).pipe = r.pipe /\ Push(r, p).reading = r.reading
        /\ Push(r, p).accepted = r.accepted /\ Push(r, p).closed = r.closed
    BY <1>2, <2>1 DEF ConnOK, Conn
  <2>3. ConnOK(Push(r, p))
    BY <1>1, <1>2, <1>4, <2>2, Sizes DEF ConnOK
  <2> QED
    BY <1>4, <2>1, <2>3
<1>5. CASE ~r.closed /\ ~(Len(r.outbox) < OutboxSize)
  BY <1>5, ShutOK DEF Push
<1> QED
  BY <1>3, <1>4, <1>5

\* The fields a push leaves alone.
LEMMA PushKeeps ==
    ASSUME NEW r, ConnOK(r), NEW p \in Packets
    PROVE  /\ Push(r, p).epoch = r.epoch /\ Push(r, p).accepted = r.accepted
           /\ Push(r, p).reading = r.reading /\ Push(r, p).up = r.up
           /\ Push(r, p).pipe = r.pipe /\ Push(r, p).fin = r.fin
           /\ Push(r, p).said = r.said /\ Push(r, p).served = r.served
           /\ r.closed => Push(r, p) = r
BY PushIs DEF Push, Shut, ConnOK, Conn

\* A request sent on it.
LEMMA SentIs ==
    ASSUME NEW r, ConnOK(r), NEW q \in Requests
    PROVE  /\ ConnOK(Sent(r, q))
           /\ \/ Sent(r, q) = r
              \/ Sent(r, q) = [r EXCEPT !.up = Append(r.up, q)] /\ ~r.closed
<1>1. r.up \in Seq(Requests)
  BY DEF ConnOK, Conn
<1>2. Append(r.up, q) \in Seq(Requests)
  BY <1>1, AppendProperties
<1> QED
  BY <1>2 DEF Sent, ConnOK, Conn
\* A packet taken off it, and what it is sent then.
LEMMA TakenOK ==
    ASSUME NEW r, ConnOK(r), r.pipe # <<>>
    PROVE  ConnOK([r EXCEPT !.pipe = Tail(@)])
<1>1. r.pipe \in Seq(Packets)
  BY DEF ConnOK, Conn
<1>2. /\ Tail(r.pipe) \in Seq(Packets) /\ Len(Tail(r.pipe)) = Len(r.pipe) - 1
      /\ Len(r.pipe) \in Nat /\ Head(r.pipe) \in Packets
  BY <1>1, HeadTailProperties, LenProperties
<1> DEFINE q == [r EXCEPT !.pipe = Tail(@)]
<1>3. /\ q \in Conn /\ q.pipe = Tail(r.pipe) /\ q.outbox = r.outbox
      /\ q.reading = r.reading /\ q.accepted = r.accepted /\ q.closed = r.closed
  BY <1>2 DEF ConnOK, Conn
<1> QED
  BY <1>2, <1>3, Sizes DEF ConnOK

Followed(r, registers, due) ==
    SentIf(due, SentIf(registers, [r EXCEPT !.pipe = Tail(@)], AskRegister), AskRefresh)

LEMMA FollowedIs ==
    ASSUME NEW r, ConnOK(r), r.pipe # <<>>, NEW b, NEW d
    PROVE  /\ ConnOK(Followed(r, b, d))
           /\ Followed(r, b, d).epoch = r.epoch
           /\ Followed(r, b, d).accepted = r.accepted
           /\ Followed(r, b, d).pipe = Tail(r.pipe)
           /\ Followed(r, b, d).outbox = r.outbox
           /\ Followed(r, b, d).closed = r.closed /\ Followed(r, b, d).fin = r.fin
           /\ Followed(r, b, d).said = r.said /\ Followed(r, b, d).served = r.served
<1> DEFINE q == [r EXCEPT !.pipe = Tail(@)]
           t == SentIf(b, q, AskRegister)
<1>1. /\ ConnOK(q) /\ q.epoch = r.epoch /\ q.accepted = r.accepted
      /\ q.pipe = Tail(r.pipe) /\ q.outbox = r.outbox /\ q.closed = r.closed
      /\ q.fin = r.fin /\ q.said = r.said /\ q.served = r.served
  BY TakenOK DEF ConnOK, Conn
<1> HIDE DEF q
<1>2. ConnOK(t) /\ (t = q \/ t = [q EXCEPT !.up = Append(q.up, AskRegister)])
  BY <1>1, SentIs, RequestMade DEF SentIf
<1>3. /\ t.epoch = r.epoch /\ t.accepted = r.accepted
      /\ t.pipe = Tail(r.pipe) /\ t.outbox = r.outbox /\ t.closed = r.closed
      /\ t.fin = r.fin /\ t.said = r.said /\ t.served = r.served
  BY <1>1, <1>2 DEF ConnOK, Conn
<1> HIDE DEF t
<1>4. LET u == SentIf(d, t, AskRefresh)
      IN  ConnOK(u) /\ (u = t \/ u = [t EXCEPT !.up = Append(t.up, AskRefresh)])
  BY <1>2, SentIs, RequestMade DEF SentIf
<1>5. Followed(r, b, d) = SentIf(d, t, AskRefresh)
  BY DEF Followed, t, q
<1> QED
  BY <1>3, <1>4, <1>5, <1>2 DEF ConnOK, Conn

\* One connection changes.
LEMMA ConnSet ==
    ASSUME ConnsOK, NEW c \in Conns, NEW r, ConnOK(r), conn' = [conn EXCEPT ![c] = r]
    PROVE  ConnsOK' /\ conn'[c] = r /\ \A d \in Conns \ {c} : conn'[d] = conn[d]
BY DEF ConnsOK

\* Who was accepted stays so, and who is not yet is sent nothing.
KeptBy(r, q) ==
    /\ r.accepted => q.accepted
    /\ q.accepted \/ q.outbox \in {<<>>, r.outbox}
Kept == \A c \in Conns : KeptBy(conn[c], conn'[c])

LEMMA ConnSetKeeps ==
    ASSUME ConnsOK, NEW c \in Conns, NEW r, ConnOK(r), conn' = [conn EXCEPT ![c] = r],
           KeptBy(conn[c], r)
    PROVE  ConnsOK' /\ Kept
BY ConnSet DEF Kept, KeptBy

\* A packet for all the registered ones.
LEMMA BroadcastIs ==
    ASSUME ConnsOK, registry \subseteq Conns, NEW p \in Packets, Broadcast(p)
    PROVE  /\ ConnsOK' /\ registry' \subseteq registry
           /\ \A c \in registry : c \in registry' <=> ~conn[c].closed
           /\ \A c \in Conns : conn'[c] = IF c \in registry' THEN Push(conn[c], p)
                                          ELSE conn[c]
<1>1. /\ registry' = {c \in registry : ~conn[c].closed}
      /\ conn' = [c \in Conns |-> IF c \in registry' THEN Push(conn[c], p) ELSE conn[c]]
  BY DEF Broadcast, Alive
<1>2. \A c \in Conns : ConnOK(conn[c]) /\ ConnOK(Push(conn[c], p))
  BY PushIs DEF ConnsOK
<1>3. \A c \in Conns : conn'[c] = IF c \in registry' THEN Push(conn[c], p) ELSE conn[c]
  BY <1>1
<1>4. ConnsOK'
  BY <1>1, <1>2, <1>3 DEF ConnsOK
<1> QED
  BY <1>1, <1>3, <1>4

LEMMA BroadcastKeeps ==
    ASSUME ConnsOK, registry \subseteq Conns, \A c \in registry : conn[c].accepted,
           NEW p \in Packets, Broadcast(p)
    PROVE  ConnsOK' /\ Kept /\ registry' \subseteq registry
<1>1. /\ ConnsOK' /\ registry' \subseteq registry
      /\ \A c \in Conns : conn'[c] = IF c \in registry' THEN Push(conn[c], p) ELSE conn[c]
  BY BroadcastIs
<1>2. ASSUME NEW c \in Conns
      PROVE  KeptBy(conn[c], conn'[c])
  <2>1. Push(conn[c], p).accepted = conn[c].accepted
    BY PushKeeps DEF ConnsOK
  <2>2. c \in registry' => conn[c].accepted
    BY <1>1
  <2> QED
    BY <1>1, <2>1, <2>2 DEF KeptBy
<1> QED
  BY <1>1, <1>2 DEF Kept

LEMMA AnnounceKeeps ==
    ASSUME ConnsOK, StateOK, registry \subseteq Conns,
           \A c \in registry : conn[c].accepted, NEW v \in Nat, Announce(v)
    PROVE  /\ ConnsOK' /\ Kept /\ registry' \subseteq registry /\ count' \in Count
           /\ Broadcast([kind |-> "update", val |-> v, gen |-> count'])
<1>1. Following(count) \in Count
  BY FollowingIsCount DEF StateOK
<1>2. /\ count' = Following(count)
      /\ Broadcast([kind |-> "update", val |-> v, gen |-> count'])
  BY DEF Announce, Update, Advanced
<1> QED
  BY <1>1, <1>2, PacketMade, BroadcastKeeps

\* The streams keep the connections.
LEMMA StreamsConns ==
    ASSUME TypeInv, Streams
    PROVE  ConnsOK' /\ (Kept \/ \E c \in Conns : Forget(c))
<1>0. ConnsOK /\ \A c \in Conns : ConnOK(conn[c]) /\ QuietOK(conn[c])
  BY DEF TypeInv, ConnsOK, Accepted
<1>1. ASSUME NEW c \in Conns, Accept(c)
      PROVE  ConnsOK' /\ Kept
  <2>1. ConnOK([conn[c] EXCEPT !.accepted = TRUE, !.reading = TRUE])
    BY <1>0 DEF ConnOK, Conn
  <2>2. conn' = [conn EXCEPT ![c] =
                    [conn[c] EXCEPT !.accepted = TRUE, !.reading = TRUE]]
    BY <1>0, <1>1 DEF Accept, ConnsOK
  <2>3. [conn[c] EXCEPT !.accepted = TRUE, !.reading = TRUE].accepted
    BY <1>0 DEF ConnOK, Conn
  <2> QED
    BY <1>0, <2>1, <2>2, <2>3, ConnSetKeeps DEF KeptBy
<1>2. ASSUME NEW c \in Conns, Read(c)
      PROVE  ConnsOK' /\ Kept
  <2>1. conn[c].up \in Seq(Requests) /\ conn[c].up # <<>>
    BY <1>0, <1>2 DEF Read, ConnOK, Conn
  <2>2. Tail(conn[c].up) \in Seq(Requests)
    BY <2>1, HeadTailProperties
  <2>3. ConnOK([conn[c] EXCEPT !.up = Tail(@)])
    BY <1>0, <2>2 DEF ConnOK, Conn
  <2>4. conn' = [conn EXCEPT ![c] = [conn[c] EXCEPT !.up = Tail(@)]]
    BY <1>0, <1>2 DEF Read, ConnsOK
  <2>5. KeptBy(conn[c], [conn[c] EXCEPT !.up = Tail(@)])
    BY <1>0 DEF ConnOK, Conn, KeptBy
  <2> QED
    BY <1>0, <2>3, <2>4, <2>5, ConnSetKeeps
<1>3. ASSUME NEW c \in Conns, ReadEnds(c)
      PROVE  ConnsOK' /\ Kept
  <2>1. /\ ConnOK(Shut(conn[c])) /\ Shut(conn[c]).accepted = conn[c].accepted
        /\ Shut(conn[c]).outbox = <<>>
    BY <1>0, ShutOK, ShutKeeps
  <2>2. ConnOK([Shut(conn[c]) EXCEPT !.reading = FALSE])
    BY <2>1 DEF ConnOK, Conn
  <2>3. conn' = [conn EXCEPT ![c] = [Shut(conn[c]) EXCEPT !.reading = FALSE]]
    BY <1>0, <1>3 DEF ReadEnds, ConnsOK
  <2>4. KeptBy(conn[c], [Shut(conn[c]) EXCEPT !.reading = FALSE])
    BY <2>1 DEF ConnOK, Conn, KeptBy
  <2> QED
    BY <1>0, <2>2, <2>3, <2>4, ConnSetKeeps
<1>4. ASSUME NEW c \in Conns, Write(c)
      PROVE  ConnsOK' /\ Kept
  <2>1. CASE conn[c].fin
    <3>1. conn' = [conn EXCEPT ![c] = Shut(conn[c])]
      BY <1>0, <1>4, <2>1 DEF Write, ConnsOK
    <3> QED
      BY <1>0, <3>1, ShutOK, ShutKeeps, ConnSetKeeps DEF KeptBy
  <2>2. CASE ~conn[c].fin
    <3>1. /\ conn[c].outbox \in Seq(Packets) /\ conn[c].outbox # <<>>
          /\ conn[c].pipe \in Seq(Packets) /\ Len(conn[c].pipe) < PipeSize
      BY <1>0, <1>4, <2>2 DEF Write, ConnOK, Conn
    <3> DEFINE o == Tail(conn[c].outbox)
               p == Append(conn[c].pipe, Head(conn[c].outbox))
               r == [conn[c] EXCEPT !.outbox = o, !.pipe = p]
    <3>2. /\ o \in Seq(Packets) /\ Len(o) = Len(conn[c].outbox) - 1
          /\ p \in Seq(Packets) /\ Len(p) = Len(conn[c].pipe) + 1
          /\ Len(conn[c].outbox) \in Nat /\ Len(conn[c].pipe) \in Nat
      BY <3>1, HeadTailProperties, AppendProperties, LenProperties
    <3>3. conn' = [conn EXCEPT ![c] = r]
      BY <1>0, <1>4, <2>2 DEF Write, ConnsOK
    <3> HIDE DEF o, p
    <3>4. /\ r \in Conn /\ r.outbox = o /\ r.pipe = p /\ r.closed = conn[c].closed
          /\ r.reading = conn[c].reading /\ r.accepted = conn[c].accepted
      BY <1>0, <3>2 DEF ConnOK, Conn
    <3>5. ~conn[c].closed /\ conn[c].accepted
      BY <1>0, <3>1 DEF ConnOK, QuietOK
    <3>6. ConnOK(r)
      BY <1>0, <3>1, <3>2, <3>4, <3>5, Sizes DEF ConnOK
    <3> QED
      BY <1>0, <3>3, <3>4, <3>5, <3>6, ConnSetKeeps DEF KeptBy
  <2> QED
    BY <2>1, <2>2
<1>5. ASSUME NEW c \in Conns, Reset(c)
      PROVE  ConnsOK' /\ Kept
  <2>1. <<>> \in Seq(Packets) /\ Len(<<>>) = 0
    BY EmptySeq
  <2> DEFINE r == [conn[c] EXCEPT !.pipe = <<>>]
  <2>2. /\ r \in Conn /\ r.outbox = conn[c].outbox /\ r.pipe = <<>>
        /\ r.closed = conn[c].closed
        /\ r.reading = conn[c].reading /\ r.accepted = conn[c].accepted
    BY <1>0, <2>1 DEF ConnOK, Conn
  <2>3. ConnOK(r)
    BY <1>0, <2>1, <2>2, Sizes DEF ConnOK
  <2>4. conn' = [conn EXCEPT ![c] = r]
    BY <1>0, <1>5 DEF Reset, ConnsOK
  <2> QED
    BY <1>0, <2>2, <2>3, <2>4, ConnSetKeeps DEF KeptBy
<1>6. ASSUME NEW c \in Conns, Forget(c)
      PROVE  ConnsOK'
  BY <1>0, <1>6, UnusedOK, ConnSet DEF Forget
<1>7. ASSUME AcceptorEnds
      PROVE  ConnsOK' /\ Kept
  <2>1. \A c \in Conns : /\ ConnOK(Shut(conn[c])) /\ Shut(conn[c]).outbox = <<>>
                         /\ Shut(conn[c]).accepted = conn[c].accepted
    BY <1>0, ShutOK, ShutKeeps
  <2>2. conn' = [c \in Conns |-> IF conn[c].epoch = streamPort THEN Shut(conn[c])
                                 ELSE conn[c]]
    BY <1>7 DEF AcceptorEnds
  <2>3. \A c \in Conns : conn'[c] = Shut(conn[c]) \/ conn'[c] = conn[c]
    BY <2>2
  <2> QED
    BY <1>0, <2>1, <2>2, <2>3 DEF ConnsOK, Kept, KeptBy
<1>8. ASSUME ReceiverEnds
      PROVE  ConnsOK' /\ Kept
  BY <1>0, <1>8 DEF ReceiverEnds, ConnsOK, Kept, KeptBy
<1> QED
  BY <1>1, <1>2, <1>3, <1>4, <1>5, <1>6, <1>7, <1>8 DEF Streams
\* What the listener takes from its channel, and what it works on.
LEMMA Received ==
    ASSUME TypeInv, NEW kind, Receive(kind)
    PROVE  /\ From \in Conns /\ Head(inbox) = inbox[1] /\ inbox[1] \in Entries
           /\ inbox[1].from = From /\ inbox[1].what \in Requests
           /\ inbox[1].what.kind = kind /\ conn[From].accepted
           /\ Len(inbox) \in Nat \ {0} /\ step.do = "receive"
           /\ inbox' = Tail(inbox) /\ inbox' \in Seq(Entries)
           /\ Len(inbox') = Len(inbox) - 1
           /\ \A k \in 1 .. Len(inbox') : inbox'[k] = inbox[k + 1]
<1>1. inbox \in Seq(Entries) /\ inbox # <<>>
  BY DEF TypeInv, ListenerOK, Receive
<1>2. Len(inbox) \in Nat \ {0}
  BY <1>1, EmptySeq
<1>3. /\ Tail(inbox) \in Seq(Entries) /\ Len(Tail(inbox)) = Len(inbox) - 1
      /\ \A k \in 1 .. Len(Tail(inbox)) : Tail(inbox)[k] = inbox[k + 1]
  BY <1>1, HeadTailProperties
<1>4. inbox[1] \in Entries /\ Head(inbox) = inbox[1]
  BY <1>1, <1>2, ElementOfSeq
<1>5. conn[inbox[1].from].accepted
  BY <1>2 DEF TypeInv, ListenerOK
<1> QED
  BY <1>2, <1>3, <1>4, <1>5 DEF Receive, From, Entries

LEMMA Stepping ==
    ASSUME ListenerOK
    PROVE  /\ step.do \in {"reply", "answer"} => step.to \in Conns
           /\ step.do = "answer" => step.answer \in Packets
BY DEF ListenerOK, Steps

\* The listener keeps the connections.
LEMMA ListenerConns ==
    ASSUME TypeInv, Listener
    PROVE  ConnsOK' /\ Kept
<1>0. /\ ConnsOK /\ StateOK /\ ListenerOK /\ registry \subseteq Conns
      /\ \A c \in Conns : ConnOK(conn[c])
      /\ \A c \in registry : conn[c].accepted
  BY DEF TypeInv, ConnsOK, ListenerOK
<1>1. CASE UNCHANGED conn
  BY <1>0, <1>1 DEF ConnsOK, Kept, KeptBy
<1>2. CASE Poll
  BY <1>0, <1>1, <1>2, AnnounceKeeps DEF Poll, StateOK
<1>3. CASE Reply
  <2>1. step.to \in Conns /\ conn[step.to].accepted
    BY <1>0, <1>3, Stepping DEF Reply, ListenerOK
  <2> DEFINE p == [kind |-> "part", val |-> truth, gen |-> count]
             q == Push(conn[step.to], p)
             r == [q EXCEPT !.served = ~q.closed]
  <2>2. p \in Packets
    BY <1>0, PacketMade DEF StateOK
  <2>3. ConnOK(q) /\ q.accepted = conn[step.to].accepted
    BY <1>0, <2>1, <2>2, PushIs, PushKeeps
  <2>4. conn' = [conn EXCEPT ![step.to] = r]
    BY <1>3 DEF Reply
  <2> HIDE DEF q
  <2>5. ConnOK(r) /\ r.accepted = q.accepted
    BY <2>3 DEF ConnOK, Conn
  <2> QED
    BY <1>0, <2>1, <2>3, <2>4, <2>5, ConnSetKeeps DEF KeptBy
<1>4. ASSUME NEW c \in Conns, conn[c].accepted, NEW p \in Packets, Answer(c, p)
      PROVE  ConnsOK' /\ Kept
  <2>1. ConnOK(Push(conn[c], p)) /\ Push(conn[c], p).accepted = conn[c].accepted
    BY <1>0, PushIs, PushKeeps
  <2>2. conn' = [conn EXCEPT ![c] = Push(conn[c], p)]
    BY <1>4 DEF Answer
  <2> QED
    BY <1>0, <1>4, <2>1, <2>2, ConnSetKeeps DEF KeptBy
<1>5. CASE SendAnswer
  BY <1>0, <1>4, <1>5, Stepping DEF SendAnswer, ListenerOK
<1>6. CASE Synchronise
  <2>1. From \in Conns /\ conn[From].accepted /\ Head(inbox).what.sent \in Nat
    BY <1>6, Received, PacketFields DEF Synchronise
  <2> QED
    BY <1>4, <1>6, <2>1, PacketMade DEF Synchronise
<1>7. ASSUME NEW c \in Conns, NEW v \in Nat, Said(c, v)
      PROVE  ConnsOK' /\ Kept
  <2>1. conn[c].said \in Seq(Nat)
    BY <1>0 DEF ConnOK, Conn
  <2>2. Append(conn[c].said, v) \in Seq(Nat)
    BY <2>1, AppendProperties
  <2>3. /\ ConnOK([conn[c] EXCEPT !.said = Append(@, v)])
        /\ KeptBy(conn[c], [conn[c] EXCEPT !.said = Append(@, v)])
    BY <1>0, <2>2 DEF ConnOK, Conn, KeptBy
  <2>4. conn' = [conn EXCEPT ![c] = [conn[c] EXCEPT !.said = Append(@, v)]]
    BY <1>0, <1>7 DEF Said, ConnsOK
  <2> QED
    BY <1>0, <2>3, <2>4, ConnSetKeeps
<1>8. CASE ControlPublished \/ ControlBumped
  <2>1. From \in Conns /\ truth' \in Nat /\ Said(From, truth')
    BY <1>0, <1>8, Received DEF ControlPublished, ControlBumped, StateOK
  <2> QED
    BY <1>7, <2>1
<1>9. CASE PublishControl
  BY <1>0, <1>9, AnnounceKeeps DEF PublishControl, StateOK
<1>10. CASE ControlRefused
  <2>1. From \in Conns /\ conn[From].accepted /\ Head(inbox).what.number \in Nat
    BY <1>10, Received, PacketFields DEF ControlRefused
  <2> DEFINE p == [kind |-> "error", of |-> Head(inbox).what.number]
             q == Push(conn[From], p)
             r == [q EXCEPT !.said = Append(@, 0)]
  <2>2. ConnOK(q) /\ q.accepted = conn[From].accepted
    BY <1>0, <2>1, PacketMade, PushIs, PushKeeps
  <2>3. conn' = [conn EXCEPT ![From] = r]
    BY <1>10 DEF ControlRefused
  <2> HIDE DEF q
  <2>4. q.said \in Seq(Nat)
    BY <2>2 DEF ConnOK, Conn
  <2>5. Append(q.said, 0) \in Seq(Nat)
    BY <2>4, AppendProperties
  <2>6. ConnOK(r) /\ r.accepted = q.accepted
    BY <2>2, <2>5 DEF ConnOK, Conn
  <2> QED
    BY <1>0, <2>1, <2>2, <2>3, <2>6, ConnSetKeeps DEF KeptBy
<1> QED
  BY <1>1, <1>2, <1>3, <1>5, <1>6, <1>8, <1>9, <1>10
     DEF Listener, Timeout, Register, Refresh, Heartbeat

\* The engines and the other publishers keep them.
LEMMA EnginesConns ==
    ASSUME TypeInv, Engines \/ Publishers
    PROVE  ConnsOK' /\ Kept
<1>0. ConnsOK /\ StateOK /\ registry \subseteq Conns /\ \A c \in registry : conn[c].accepted
  BY DEF TypeInv, ListenerOK
<1>1. CASE UNCHANGED conn
  BY <1>0, <1>1 DEF ConnsOK, Kept, KeptBy
<1>2. CASE Stop
  BY <1>0, <1>1, <1>2, PacketMade, BroadcastKeeps DEF Stop
<1>3. CASE PublishEvent
  <2>1. truth' \in Nat /\ Announce(truth')
    BY <1>0, <1>3 DEF PublishEvent, StateOK
  <2> QED
    BY <1>0, <2>1, AnnounceKeeps
<1>4. CASE Telemetry
  BY <1>0, <1>4, PacketMade, BroadcastKeeps DEF Telemetry
<1> QED
  BY <1>1, <1>2, <1>3, <1>4
     DEF Engines, Publishers, Leave, Bind, BindStream, LiveChange, studio

\* Studio's hands on its connection.
LEMMA TakeIs ==
    ASSUME Take
    PROVE  /\ link # None /\ conn[link].pipe # <<>>
           /\ \E b \in BOOLEAN : \E d :
                 conn' = [conn EXCEPT ![link] = Followed(conn[link], b, d)]
<1>1. ASSUME NEW b \in BOOLEAN, Follow(b)
      PROVE  \E d : conn' = [conn EXCEPT ![link] = Followed(conn[link], b, d)]
  <2>1. conn' = [conn EXCEPT ![link] = Followed(conn[link], b, sync'.stale /\ ~asked)]
    BY <1>1 DEF Follow, Followed
  <2> QED
    BY <2>1
<1>2. \E b \in BOOLEAN : Follow(b)
  BY DEF Take, HandleUpdate, HandleSnapshot, HandleAck, HandleUnknown,
       HandleGoodbye, HandleOther
<1> QED
  BY <1>1, <1>2 DEF Take

Dropped(r) ==
    [r EXCEPT !.fin = TRUE, !.pipe = <<>>, !.closed = @ \/ ~r.accepted]

LEMMA DroppedOK ==
    ASSUME NEW r, ConnOK(r), r.accepted \/ r.outbox = <<>>
    PROVE  ConnOK(Dropped(r)) /\ KeptBy(r, Dropped(r))
<1>1. <<>> \in Seq(Packets) /\ Len(<<>>) = 0
  BY EmptySeq
<1>2. /\ Dropped(r) \in Conn /\ Dropped(r).accepted = r.accepted
      /\ Dropped(r).outbox = r.outbox /\ Dropped(r).pipe = <<>>
      /\ Dropped(r).closed = (r.closed \/ ~r.accepted) /\ Dropped(r).reading = r.reading
  BY <1>1 DEF Dropped, ConnOK, Conn
<1>3. Dropped(r).closed => Dropped(r).outbox = <<>>
  <2>1. CASE r.closed
    BY <1>2, <2>1 DEF ConnOK
  <2>2. CASE ~r.closed
    BY <1>2, <2>2
  <2> QED
    BY <2>1, <2>2
<1>4. /\ Len(Dropped(r).outbox) <= OutboxSize /\ Len(Dropped(r).pipe) <= PipeSize
      /\ Dropped(r).reading => Dropped(r).accepted
  BY <1>1, <1>2, Sizes DEF ConnOK
<1> QED
  BY <1>2, <1>3, <1>4 DEF ConnOK, KeptBy

LEMMA FollowedKept ==
    ASSUME NEW r, ConnOK(r), r.pipe # <<>>, NEW b, NEW d
    PROVE  KeptBy(r, Followed(r, b, d))
BY FollowedIs DEF KeptBy

LEMMA SentKept ==
    ASSUME NEW r, ConnOK(r), NEW q \in Requests
    PROVE  ConnOK(Sent(r, q)) /\ KeptBy(r, Sent(r, q)) /\ Sent(r, q).accepted = r.accepted
           /\ Sent(r, q).outbox = r.outbox
<1>1. ConnOK(Sent(r, q))
  BY SentIs
<1>2. Sent(r, q).accepted = r.accepted /\ Sent(r, q).outbox = r.outbox
  <2>1. CASE Sent(r, q) = r
    BY <2>1
  <2>2. CASE Sent(r, q) = [r EXCEPT !.up = Append(r.up, q)]
    BY <2>2 DEF ConnOK, Conn
  <2> QED
    BY <2>1, <2>2, SentIs
<1> QED
  BY <1>1, <1>2 DEF KeptBy

\* A request written to the stream without a look at what is on its way.
LEMMA AskedOK ==
    ASSUME NEW r, ConnOK(r), NEW q \in Requests
    PROVE  /\ ConnOK([r EXCEPT !.up = Append(@, q)])
           /\ KeptBy(r, [r EXCEPT !.up = Append(@, q)])
<1>1. r.up \in Seq(Requests)
  BY DEF ConnOK, Conn
<1>2. Append(r.up, q) \in Seq(Requests)
  BY <1>1, AppendProperties
<1> QED
  BY <1>2 DEF ConnOK, Conn, KeptBy

\* The connection opened.
Opened(e) == [Unused EXCEPT !.epoch = e, !.up = <<AskRegister, AskHeartbeat>>]
LEMMA OpenedOK ==
    ASSUME NEW e \in Nat \cup {Other}
    PROVE  ConnOK(Opened(e)) /\ KeptBy(Unused, Opened(e))
<1>1. <<AskRegister, AskHeartbeat>> \in Seq(Requests)
  BY RequestMade
<1>2. ConnOK(Unused) /\ Unused.outbox = <<>> /\ ~Unused.accepted
  BY UnusedOK DEF Unused
<1>3. ConnOK(Opened(e)) /\ Opened(e).outbox = <<>> /\ ~Opened(e).accepted
  BY <1>1, <1>2 DEF Opened, ConnOK, Conn
<1> QED
  BY <1>2, <1>3 DEF KeptBy

\* Studio keeps the connections.
LEMMA StudioConns ==
    ASSUME TypeInv, Studio
    PROVE  ConnsOK' /\ Kept
<1>0. /\ ConnsOK /\ StudioOK /\ PortOK /\ StateOK
      /\ \A c \in Conns : ConnOK(conn[c]) /\ QuietOK(conn[c])
      /\ link # None => link \in Conns
  BY DEF TypeInv, ConnsOK, Accepted, StudioOK
<1>1. CASE UNCHANGED conn
  BY <1>0, <1>1 DEF ConnsOK, Kept, KeptBy
<1>2. ASSUME NEW c \in Conns, Open(c)
      PROVE  ConnsOK' /\ Kept
  <2>1. streamPort \in Nat \cup {Other}
    BY <1>0, <1>2 DEF Open, PortOK, StateOK
  <2>2. conn' = [conn EXCEPT ![c] = Opened(streamPort)] /\ conn[c] = Unused
    BY <1>0, <1>2 DEF Open, Opened, ConnsOK
  <2> QED
    BY <1>0, <2>1, <2>2, OpenedOK, ConnSetKeeps
<1>3. CASE Take
  <2>1. link \in Conns /\ conn[link].pipe # <<>>
    BY <1>0, <1>3, TakeIs
  <2>2. PICK b \in BOOLEAN : \E d :
            conn' = [conn EXCEPT ![link] = Followed(conn[link], b, d)]
    BY <1>3, TakeIs
  <2>3. PICK d : conn' = [conn EXCEPT ![link] = Followed(conn[link], b, d)]
    BY <2>2
  <2>4. ConnOK(Followed(conn[link], b, d)) /\ KeptBy(conn[link], Followed(conn[link], b, d))
    BY <1>0, <2>1, FollowedIs, FollowedKept
  <2> QED
    BY <1>0, <2>1, <2>3, <2>4, ConnSetKeeps
<1>4. ASSUME link # None, Drop
      PROVE  ConnsOK' /\ Kept
  <2>1. conn' = [conn EXCEPT ![link] = Dropped(conn[link])]
    BY <1>0, <1>4 DEF Drop, Dropped, ConnsOK
  <2>2. conn[link].accepted \/ conn[link].outbox = <<>>
    BY <1>0, <1>4 DEF QuietOK
  <2> QED
    BY <1>0, <1>4, <2>1, <2>2, DroppedOK, ConnSetKeeps
<1>5. CASE StreamClosed \/ NotAnEngine \/ AckTimeout
  BY <1>4, <1>5 DEF StreamClosed, NotAnEngine, AckTimeout
<1>6. CASE SendHeartbeat
  <2>1. conn' = [conn EXCEPT ![link] = Sent(conn[link], AskHeartbeat)] /\ link \in Conns
    BY <1>0, <1>6 DEF SendHeartbeat
  <2> QED
    BY <1>0, <2>1, SentKept, RequestMade, ConnSetKeeps
<1>7. CASE RegisterAgain
  <2> DEFINE q == Sent(conn[link], AskRegister)
  <2>1. conn' = [conn EXCEPT ![link] = Sent(q, AskHeartbeat)] /\ link \in Conns
    BY <1>0, <1>7 DEF RegisterAgain
  <2>2. ConnOK(q) /\ q.accepted = conn[link].accepted /\ q.outbox = conn[link].outbox
    BY <1>0, <2>1, SentKept, RequestMade
  <2> HIDE DEF q
  <2>3. ConnOK(Sent(q, AskHeartbeat)) /\ KeptBy(q, Sent(q, AskHeartbeat))
    BY <2>2, SentKept, RequestMade
  <2>4. KeptBy(conn[link], Sent(q, AskHeartbeat))
    BY <2>2, <2>3 DEF KeptBy
  <2> QED
    BY <1>0, <2>1, <2>3, <2>4, ConnSetKeeps
<1>8. ASSUME NEW q \in Requests, link # None,
             conn' = [conn EXCEPT ![link].up = Append(@, q)]
      PROVE  ConnsOK' /\ Kept
  <2>1. conn' = [conn EXCEPT ![link] = [conn[link] EXCEPT !.up = Append(@, q)]]
    BY <1>0, <1>8 DEF ConnsOK
  <2> QED
    BY <1>0, <1>8, <2>1, AskedOK, ConnSetKeeps
<1>9. CASE SendControl
  <2>1. sent + 1 \in Nat
    BY <1>0 DEF StudioOK
  <2> QED
    BY <1>8, <1>9, <2>1, RequestMade DEF SendControl
<1>10. CASE SendSync
  BY <1>0, <1>8, <1>10, RequestMade DEF SendSync, StudioOK
<1> QED
  BY <1>1, <1>2, <1>3, <1>5, <1>6, <1>7, <1>9, <1>10
     DEF Studio, BackoffEnds, Datagrams, RetryDue

\* The rest of the types: the engine's.
LEMMA InitTypes ==
    ASSUME Init
    PROVE  TypeInv
<1>1. ConnsOK /\ Accepted
  BY UnusedOK DEF Init, ConnsOK, Accepted, QuietOK, Unused
<1>2. StateOK /\ PortOK
  <2>1. 0 \in Count
    BY CountAssumption DEF Count
  <2>2. truth = 1 /\ told = 1 /\ moved = FALSE /\ count = 0 /\ epoch = 1
    BY DEF Init
  <2>3. told \in 0 .. truth /\ truth \in Nat /\ epoch \in Nat \ {0}
    BY <2>2
  <2>4. StateOK
    BY <2>1, <2>2, <2>3 DEF StateOK
  <2>5. PortOK
    BY DEF Init, PortOK
  <2> QED
    BY <2>4, <2>5
<1>3. ListenerOK
  BY EmptySeq, Sizes DEF Init, ListenerOK, Steps
<1>4. StudioOK
  BY DEF Init, StudioOK, Sync, Fresh
<1> QED
  BY <1>1, <1>2, <1>3, <1>4 DEF TypeInv

LEMMA NextConns ==
    ASSUME TypeInv, Next
    PROVE  /\ ConnsOK' /\ Accepted'
           /\ Kept \/ \E c \in Conns : Forget(c)
<1>1. ConnsOK' /\ (Kept \/ \E c \in Conns : Forget(c))
  BY StreamsConns, ListenerConns, EnginesConns, StudioConns DEF Next
<1>2. ASSUME Kept
      PROVE  Accepted'
  BY <1>2 DEF TypeInv, Accepted, QuietOK, Kept, KeptBy
<1>3. ASSUME NEW c \in Conns, Forget(c)
      PROVE  Accepted'
  <2>1. conn'[c] = Unused /\ \A d \in Conns \ {c} : conn'[d] = conn[d]
    BY <1>3, UnusedOK, ConnSet DEF Forget, TypeInv
  <2> QED
    BY <2>1 DEF TypeInv, Accepted, QuietOK, Unused
<1> QED
  BY <1>1, <1>2, <1>3

LEMMA StateTypes ==
    ASSUME TypeInv, Next
    PROVE  StateOK' /\ PortOK'
<1>0. StateOK /\ PortOK /\ Following(count) \in Count /\ 0 \in Count
  BY FollowingIsCount, CountAssumption DEF TypeInv, StateOK, Count
<1>1. CASE UNCHANGED <<state, port>>
  BY <1>0, <1>1 DEF StateOK, PortOK, state, port
<1>2. CASE AcceptorEnds \/ ReceiverEnds \/ Stop \/ Leave \/ BindStream
  <2>1. StateOK'
    BY <1>0, <1>2 DEF StateOK, AcceptorEnds, ReceiverEnds, Stop, Leave,
         BindStream, state
  <2>2. epoch' = epoch /\ epoch \in 1 .. epoch
    BY <1>0, <1>2 DEF StateOK, AcceptorEnds, ReceiverEnds, Stop, Leave,
         BindStream, state
  <2>3. streamPort' \in {streamPort, None, epoch}
    BY <1>2 DEF AcceptorEnds, ReceiverEnds, Stop, Leave, BindStream
  <2>4. /\ mode' \in {mode, "stopping", "gone", "serving"}
        /\ receiving' \in {receiving, FALSE, TRUE}
    BY <1>2 DEF AcceptorEnds, ReceiverEnds, Stop, Leave, BindStream
  <2>5. PortOK'
    BY <1>0, <2>2, <2>3, <2>4 DEF PortOK
  <2> QED
    BY <2>1, <2>5
<1>3. CASE Bind
  <2>1. epoch' = epoch + 1 /\ streamPort' = streamPort /\ mode' = "binding"
        /\ receiving' = receiving /\ epoch \in Nat \ {0}
    BY <1>0, <1>3 DEF Bind, StateOK
  <2>2. 1 .. epoch \subseteq 1 .. epoch'
    BY <2>1
  <2>3. PortOK'
    BY <1>0, <2>1, <2>2 DEF PortOK
  <2>4. /\ truth' \in Nat /\ told' \in 0 .. truth' /\ moved' = FALSE /\ count' = 0
        /\ epoch' \in Nat \ {0}
    BY <1>0, <1>3 DEF Bind, StateOK
  <2> QED
    BY <1>0, <2>3, <2>4 DEF StateOK
<1>4. CASE LiveChange \/ ControlBumped
  <2>1. /\ truth' = truth + 1 /\ moved' = TRUE /\ UNCHANGED <<told, count, epoch>>
        /\ UNCHANGED <<mode, streamPort, receiving>>
    BY <1>4 DEF LiveChange, ControlBumped, port
  <2>2. truth' \in Nat /\ told' \in 0 .. truth'
    BY <1>0, <2>1 DEF StateOK
  <2> QED
    BY <1>0, <2>1, <2>2 DEF StateOK, PortOK
<1>5. CASE Poll \/ PublishControl \/ PublishEvent
  <2>1. UNCHANGED <<epoch, port>> /\ count' \in Count
        /\ (UNCHANGED moved \/ moved' = FALSE)
    BY <1>0, <1>5 DEF Poll, PublishControl, PublishEvent, Announce, Advanced,
         StateOK
  <2>2. truth' \in Nat /\ told' \in 0 .. truth'
    BY <1>0, <1>5 DEF Poll, PublishControl, PublishEvent, Announce, StateOK
  <2> QED
    BY <1>0, <2>1, <2>2 DEF StateOK, PortOK, port
<1>6. CASE ControlPublished
  BY <1>0, <1>6 DEF ControlPublished, StateOK, PortOK, port
<1> QED
  BY <1>1, <1>2, <1>3, <1>4, <1>5, <1>6 DEF Next, Streams, Listener, Engines,
       Publishers, Studio, Accept, Read, ReadEnds, Write, Reset, Forget, Timeout,
       Register, Refresh, Reply, Heartbeat, SendAnswer, ControlRefused,
       Synchronise, Telemetry, Open, BackoffEnds, Datagrams, Take, StreamClosed,
       NotAnEngine, AckTimeout, Drop, SendHeartbeat, RegisterAgain, RetryDue,
       SendControl, SendSync

\* The registered ones, those with a request in the channel and the one the
\* listener is to answer are accepted, and no connection that is forgotten.
Refers(c) ==
    \/ c \in registry
    \/ \E k \in 1 .. Len(inbox) : inbox[k].from = c
    \/ step.do \in {"reply", "answer"} /\ step.to = c

LEMMA StillAccepted ==
    ASSUME TypeInv, Next
    PROVE  \A c \in Conns : Refers(c) => conn'[c].accepted
<1> SUFFICES ASSUME NEW c \in Conns, Refers(c)
             PROVE  conn'[c].accepted
  OBVIOUS
<1>1. conn[c].accepted
  BY DEF Refers, TypeInv, ListenerOK
<1>2. CASE Kept
  BY <1>1, <1>2 DEF Kept, KeptBy
<1>3. ASSUME NEW d \in Conns, Forget(d)
      PROVE  conn'[c].accepted
  <2>1. DOMAIN inbox = 1 .. Len(inbox)
    BY LenProperties DEF TypeInv, ListenerOK
  <2>2. c # d
    BY <1>3, <2>1 DEF Forget, Refers
  <2>3. conn'[c] = conn[c]
    BY <1>3, <2>2, UnusedOK, ConnSet DEF Forget, TypeInv
  <2> QED
    BY <1>1, <2>3
<1> QED
  BY <1>2, <1>3, NextConns

\* What the listener's side comes to.
LEMMA ListenerKept ==
    ASSUME TypeInv, Next
    PROVE  ListenerOK'
<1>0. /\ ListenerOK /\ \A c \in registry : Refers(c)
      /\ \A k \in 1 .. Len(inbox) : Refers(inbox[k].from)
      /\ \A k \in 1 .. Len(inbox) : inbox[k].from \in Conns
      /\ step.do \in {"reply", "answer"} => Refers(step.to) /\ step.to \in Conns
  <2>1. \A k \in 1 .. Len(inbox) : inbox[k] \in Entries
    BY ElementOfSeq DEF TypeInv, ListenerOK
  <2> QED
    BY <2>1, Stepping DEF TypeInv, ListenerOK, Refers, Entries
<1>1. \A c \in Conns : Refers(c) => conn'[c].accepted
  BY StillAccepted
<1>2. ASSUME UNCHANGED <<step, inbox>>, registry' \subseteq registry
      PROVE  ListenerOK'
  BY <1>0, <1>1, <1>2 DEF ListenerOK
<1>3. ASSUME UNCHANGED inbox, registry' \subseteq registry,
             step' \in [do : {"poll", "receive"}]
      PROVE  ListenerOK'
  BY <1>0, <1>1, <1>3 DEF ListenerOK, Steps
<1>4. ASSUME NEW kind, Receive(kind), registry' \subseteq registry \cup {From},
             \/ step' \in [do : {"poll", "publish"}]
             \/ step' = [do |-> "reply", to |-> From]
             \/ /\ step' = [do |-> "answer", to |-> From, answer |-> step'.answer]
                /\ step'.answer \in Packets
      PROVE  ListenerOK'
  <2>1. /\ From \in Conns /\ Refers(From) /\ inbox' \in Seq(Entries)
        /\ Len(inbox') = Len(inbox) - 1 /\ Len(inbox) \in Nat
        /\ \A k \in 1 .. Len(inbox') : inbox'[k] = inbox[k + 1]
    BY <1>4, Received DEF Refers
  <2>2. Len(inbox') <= InboxSize
    BY <1>0, <2>1, Sizes DEF ListenerOK
  <2>3. \A k \in 1 .. Len(inbox') : inbox'[k].from \in Conns /\ Refers(inbox'[k].from)
    BY <1>0, <2>1
  <2>4. step' \in Steps
    BY <1>4, <2>1 DEF Steps
  <2>5. step'.do \in {"reply", "answer"} => step'.to = From
    BY <1>4
  <2>6. registry' \subseteq Conns /\ \A c \in registry' : Refers(c)
    BY <1>0, <1>4, <2>1 DEF ListenerOK
  <2> QED
    BY <1>1, <2>1, <2>2, <2>3, <2>4, <2>5, <2>6 DEF ListenerOK
<1>5. CASE Poll \/ PublishControl
  BY <1>0, <1>3, <1>5 DEF Poll, PublishControl, Then, Announce, Broadcast, Alive,
       port, studio
<1>6. CASE PublishEvent \/ Telemetry \/ Stop
  BY <1>2, <1>6 DEF PublishEvent, Telemetry, Stop, Announce, Broadcast, Alive
<1>7. ASSUME NEW c \in Conns, Read(c)
      PROVE  ListenerOK'
  <2>1. /\ conn[c].up \in Seq(Requests) /\ conn[c].up # <<>> /\ conn[c].accepted
        /\ step' = step /\ registry' = registry
    BY <1>7 DEF Read, TypeInv, ConnsOK, ConnOK, Conn
  <2> DEFINE e == [from |-> c, what |-> Head(conn[c].up)]
  <2>2. e \in Entries /\ inbox' = Append(inbox, e) /\ Len(inbox) < InboxSize
    BY <1>7, <2>1, HeadTailProperties DEF Read, Entries
  <2>3. /\ inbox' \in Seq(Entries) /\ Len(inbox') = Len(inbox) + 1 /\ Len(inbox) \in Nat
        /\ \A k \in 1 .. Len(inbox) : inbox'[k] = inbox[k]
        /\ inbox'[Len(inbox) + 1] = e
    BY <1>0, <2>2, AppendProperties, LenProperties DEF ListenerOK
  <2>4. conn'[c].accepted
    <3>1. /\ conn' = [conn EXCEPT ![c] = [conn[c] EXCEPT !.up = Tail(@)]]
          /\ ConnOK(conn[c]) /\ ConnsOK
      BY <1>7 DEF Read, TypeInv, ConnsOK
    <3>2. [conn[c] EXCEPT !.up = Tail(@)].accepted = conn[c].accepted
      BY <3>1 DEF ConnOK, Conn
    <3> QED
      BY <2>1, <3>1, <3>2 DEF ConnsOK
  <2>5. \A k \in 1 .. Len(inbox') : conn'[inbox'[k].from].accepted
    BY <1>0, <1>1, <2>3, <2>4
  <2>6. Len(inbox') <= InboxSize
    BY <2>2, <2>3, Sizes
  <2> QED
    BY <1>0, <1>1, <2>1, <2>3, <2>5, <2>6 DEF ListenerOK
<1>8. CASE Leave
  BY <1>0, <1>1, <1>8, EmptySeq, Sizes DEF Leave, ListenerOK, Steps
<1>9. CASE Bind \/ BindStream
  BY <1>0, <1>2, <1>3, <1>9 DEF Bind, BindStream
<1>10. CASE Register \/ Refresh \/ ControlPublished \/ ControlBumped \/ ControlRefused
            \/ Synchronise
  BY <1>4, <1>10 DEF Register, Refresh, ControlPublished, ControlBumped,
       ControlRefused, Synchronise, Then
<1>11. CASE Heartbeat
  <2>1. /\ [kind |-> "unknown"] \in Packets
        /\ [kind |-> "ack", epoch |-> epoch, gen |-> count] \in Packets
    BY PacketMade DEF TypeInv, StateOK
  <2> QED
    BY <1>4, <1>11, <2>1 DEF Heartbeat, Then
<1>12. CASE Timeout \/ Reply \/ SendAnswer
  BY <1>3, <1>12 DEF Timeout, Reply, SendAnswer, Then
<1> QED
  BY <1>2, <1>5, <1>6, <1>7, <1>8, <1>9, <1>10, <1>11, <1>12 DEF Next, Streams,
       Listener, Engines, Publishers, Studio, Accept, ReadEnds, Write, Reset,
       Forget, AcceptorEnds, ReceiverEnds, LiveChange, Open, BackoffEnds,
       Datagrams, Take, StreamClosed, NotAnEngine, AckTimeout, Drop,
       SendHeartbeat, RegisterAgain, RetryDue, SendControl, SendSync

\* What a snapshot's part, an update and an acknowledgement leave of the sync.
LEMMA SyncKept ==
    ASSUME NEW s \in Sync, NEW g \in Count
    PROVE  /\ OnUpdate(s, g) \in Sync /\ OnPart(s, g, 1) \in Sync /\ OnAck(s, g) \in Sync
           /\ Fresh \in Sync
<1>1. 1 \in Part
  BY PartsAssumption DEF Part
<1>2. OnUpdate(s, g) \in Sync
  BY DEF OnUpdate, Abandon, Sync
<1>3. OnPart(s, g, 1) \in Sync
  BY <1>1 DEF OnPart, Abandon, Sync
<1>4. OnAck(s, g) \in Sync
  BY DEF OnAck, Abandon, Sync
<1>5. Fresh \in Sync
  BY DEF Fresh, Sync
<1> QED
  BY <1>2, <1>3, <1>4, <1>5

LEMMA StudioKept ==
    ASSUME TypeInv, Next
    PROVE  StudioOK'
<1>0. /\ StudioOK /\ StateOK /\ PortOK
      /\ \A c \in Conns : ConnOK(conn[c])
  BY DEF TypeInv, ConnsOK
<1>1. CASE UNCHANGED studio
  BY <1>0, <1>1 DEF StudioOK, studio, model, tally
<1>2. ASSUME NEW c \in Conns, Open(c)
      PROVE  StudioOK'
  BY <1>0, <1>2 DEF Open, StudioOK, model
<1>3. CASE BackoffEnds \/ RetryDue
  BY <1>0, <1>3 DEF BackoffEnds, RetryDue, StudioOK, model, tally
<1>7. CASE SendControl
  <2>1. /\ UNCHANGED <<link, confirmed, backoff, ready, asked, vals, sync, heard>>
        /\ sent' = sent + 1
    BY <1>7 DEF SendControl, model
  <2> QED
    BY <1>0, <2>1 DEF StudioOK
<1>4. CASE Datagrams
  <2>1. /\ UNCHANGED <<link, confirmed, backoff, sent>> /\ ready' = TRUE /\ asked' = FALSE
        /\ vals' = told /\ heard' = epoch /\ sync' = OnPart(Fresh, count, 1)
    BY <1>4 DEF Datagrams, tally
  <2>2. sync' \in Sync
    BY <1>0, <2>1, SyncKept DEF StateOK, StudioOK
  <2>3. vals' \in Nat /\ heard' \in Nat
    BY <1>0, <2>1 DEF StateOK
  <2> QED
    BY <1>0, <2>1, <2>2, <2>3 DEF StudioOK
<1>5. CASE Take
  <2>1. conn[link].pipe \in Seq(Packets) /\ conn[link].pipe # <<>> /\ link \in Conns
    BY <1>0, <1>5 DEF Take, StudioOK, ConnOK, Conn
  <2> DEFINE p == Head(conn[link].pipe)
  <2>2. p \in Packets
    BY <2>1, HeadTailProperties
  <2>3. /\ HandleUpdate(p) \/ HandleSnapshot(p) \/ HandleAck(p) \/ HandleUnknown(p)
           \/ HandleGoodbye(p) \/ HandleOther(p)
        /\ confirmed' = TRUE /\ UNCHANGED <<link, backoff, sent>>
    BY <1>5 DEF Take
  <2> HIDE DEF p
  <2>4. sync' \in Sync /\ vals' \in Nat /\ ready' \in BOOLEAN /\ heard' \in Nat \cup {None}
    <3>0. /\ sync \in Sync /\ vals \in Nat /\ ready \in BOOLEAN /\ heard \in Nat \cup {None}
          /\ Fresh \in Sync
      BY <1>0, SyncKept DEF StudioOK, StateOK
    <3>1. CASE HandleUpdate(p)
      <4>1. p.val \in Nat /\ p.gen \in Count
        BY <2>2, <3>1, PacketFields DEF HandleUpdate, TellsState
      <4> QED
        BY <3>0, <3>1, <4>1, SyncKept DEF HandleUpdate
    <3>2. CASE HandleSnapshot(p)
      <4>1. p.val \in Nat /\ p.gen \in Count
        BY <2>2, <3>2, PacketFields DEF HandleSnapshot, TellsState
      <4> QED
        BY <3>0, <3>2, <4>1, SyncKept DEF HandleSnapshot
    <3>3. CASE HandleAck(p)
      <4>1. p.epoch \in Nat /\ p.gen \in Count
        BY <2>2, <3>3, PacketFields DEF HandleAck
      <4>2. OnAck(Fresh, p.gen) \in Sync /\ OnAck(sync, p.gen) \in Sync
        BY <3>0, <4>1, SyncKept
      <4>3. \/ vals' = 0 /\ ready' = FALSE /\ sync' = OnAck(Fresh, p.gen)
            \/ vals' = vals /\ ready' = ready /\ sync' = OnAck(sync, p.gen)
        BY <3>3 DEF HandleAck
      <4>4. heard' = p.epoch
        BY <3>3 DEF HandleAck
      <4>5. sync' \in Sync
        BY <4>2, <4>3
      <4>6. vals' \in Nat
        BY <3>0, <4>3
      <4>7. ready' \in BOOLEAN
        <5>1. ready' = FALSE \/ ready' = ready
          BY <4>3
        <5> QED
          BY <3>0, <5>1
      <4> QED
        BY <4>1, <4>4, <4>5, <4>6, <4>7
    <3>4. CASE HandleUnknown(p) \/ HandleGoodbye(p) \/ HandleOther(p)
      BY <3>0, <3>4 DEF HandleUnknown, HandleGoodbye, HandleOther
    <3> QED
      BY <2>3, <3>1, <3>2, <3>3, <3>4
  <2>5. asked' \in BOOLEAN
    <3>1. \E b \in BOOLEAN : Follow(b)
      BY <2>3 DEF HandleUpdate, HandleSnapshot, HandleAck, HandleUnknown,
           HandleGoodbye, HandleOther
    <3> QED
      BY <1>0, <2>4, <3>1 DEF Follow, StudioOK, Sync
  <2> QED
    BY <1>0, <2>3, <2>4, <2>5 DEF StudioOK
<1>6. CASE StreamClosed \/ NotAnEngine \/ AckTimeout
  BY <1>0, <1>6 DEF StreamClosed, NotAnEngine, AckTimeout, Drop, StudioOK, model,
       tally
<1> QED
  BY <1>1, <1>2, <1>3, <1>4, <1>5, <1>6, <1>7 DEF Next, Streams, Listener,
       Engines, Publishers, Studio, Accept, Read, ReadEnds, Write, Reset, Forget,
       AcceptorEnds, ReceiverEnds, Poll, Timeout, Register, Refresh, Reply,
       Heartbeat, SendAnswer, ControlPublished, PublishControl, ControlBumped,
       ControlRefused, Synchronise, Stop, Leave, Bind, BindStream, LiveChange,
       PublishEvent, Telemetry, SendHeartbeat, RegisterAgain, SendSync

LEMMA TypesKept ==
    ASSUME TypeInv, [Next]_vars
    PROVE  TypeInv'
<1>1. CASE Next
  BY <1>1, NextConns, StateTypes, ListenerKept, StudioKept DEF TypeInv
<1>2. CASE UNCHANGED vars
  BY <1>2 DEF vars, state, port, studio, model, tally, TypeInv, ConnsOK, Accepted,
       StateOK, PortOK, ListenerOK, StudioOK
<1> QED
  BY <1>1, <1>2

-----------------------------------------------------------------------------
(* The places: which engine a connection, a request and an answer are of.  *)

\* No listener, no requests; and the port of the streams is another's.
IdleOK ==
    mode \in {"gone", "binding"} =>
        inbox = <<>> /\ step = [do |-> "left"] /\ streamPort # epoch

\* A connection's engine: it accepted it, and shut it down before another had
\* the port; and the one connection Studio has not dropped is its link.
PlaceOK(c, r, e, to, top) ==
    /\ r.epoch \in {None, Other} \cup 1 .. e
    /\ r.epoch = None => r = Unused
    /\ r.accepted => r.epoch \notin {None, Other}
    /\ r.epoch # None /\ ~r.fin => to = c
    /\ r.said \in Seq(0 .. top)
ConnPlaces == \A c \in Conns : PlaceOK(c, conn[c], epoch, link, truth)
Referred == \A c \in Conns : Refers(c) => conn[c].epoch = epoch
PortPlaces == streamPort # epoch =>
                  \A c \in Conns : conn[c].epoch = epoch => conn[c].closed
LinkPlaces ==
    /\ link # None => conn[link].epoch # None
    /\ ready => sync.held # None
    /\ step.do = "answer" => \/ step.answer.kind = "ack" /\ step.answer.epoch = epoch
                            \/ step.answer.kind = "unknown"

Places == IdleOK /\ ConnPlaces /\ Referred /\ PortPlaces /\ LinkPlaces

\* What most steps leave of a connection: nothing said but what was just applied.
Kin(r, q, top) ==
    \/ q = r
    \/ /\ r.epoch # None /\ q.epoch = r.epoch
       /\ q.accepted = r.accepted /\ q.fin = r.fin
       /\ r.closed => q.closed
       /\ \/ q.said = r.said
          \/ \E v \in 0 .. top : q.said = Append(r.said, v)
Akin(top) == \A c \in Conns : Kin(conn[c], conn'[c], top)

LEMMA PlaceKept ==
    ASSUME NEW c, NEW r, NEW q, NEW e, NEW to, NEW top \in Nat, NEW top2 \in Nat,
           top <= top2, PlaceOK(c, r, e, to, top), Kin(r, q, top2)
    PROVE  PlaceOK(c, q, e, to, top2)
<1>1. r.said \in Seq(0 .. top2)
  BY SeqMonotonic DEF PlaceOK
<1>2. q.said \in Seq(0 .. top2)
  BY <1>1, AppendProperties DEF Kin
<1> QED
  BY <1>2 DEF PlaceOK, Kin

\* The connections of the places.
LEMMA PlacesConns ==
    ASSUME TypeInv, Places
    PROVE  /\ \A c \in Conns : ConnOK(conn[c]) /\ PlaceOK(c, conn[c], epoch, link, truth)
           /\ \A c \in registry : c \in Conns /\ conn[c].epoch # None /\ conn[c].epoch = epoch
           /\ \A c \in Conns : conn[c].accepted => conn[c].epoch # None
           /\ truth \in Nat /\ epoch \in Nat \ {0} /\ told \in 0 .. truth
           /\ ConnsOK /\ registry \subseteq Conns /\ \A c \in registry : conn[c].accepted
BY Sizes DEF TypeInv, ConnsOK, ListenerOK, StateOK, Places, ConnPlaces, Referred,
     Refers, PlaceOK

LEMMA BroadcastKin ==
    ASSUME TypeInv, Places, NEW p \in Packets, Broadcast(p), NEW top
    PROVE  Akin(top)
<1> SUFFICES ASSUME NEW c \in Conns
             PROVE  Kin(conn[c], conn'[c], top)
  BY DEF Akin
<1>1. ConnOK(conn[c]) /\ ConnsOK /\ registry \subseteq Conns
  BY PlacesConns
<1>2. /\ registry' \subseteq registry
      /\ conn'[c] = IF c \in registry' THEN Push(conn[c], p) ELSE conn[c]
  BY <1>1, BroadcastIs
<1>3. CASE c \in registry'
  BY <1>1, <1>2, <1>3, PushKeeps, PlacesConns DEF Kin
<1> QED
  BY <1>2, <1>3 DEF Kin

LEMMA AnnounceKin ==
    ASSUME TypeInv, Places, NEW v \in Nat, Announce(v), NEW top
    PROVE  Akin(top)
BY AnnounceKeeps, BroadcastKin, PlacesConns, PacketMade DEF TypeInv

LEMMA ShutKin ==
    ASSUME NEW r, ConnOK(r), r.epoch # None, NEW top
    PROVE  Kin(r, Shut(r), top)
<1>1. /\ Shut(r).epoch = r.epoch /\ Shut(r).accepted = r.accepted /\ Shut(r).closed
      /\ Shut(r).fin = r.fin /\ Shut(r).said = r.said
  BY ShutOK, ShutKeeps
<1> QED
  BY <1>1 DEF Kin

LEMMA SetKin ==
    ASSUME TypeInv, NEW c \in Conns, NEW r, ConnOK(r), conn' = [conn EXCEPT ![c] = r],
           NEW top, Kin(conn[c], r, top)
    PROVE  Akin(top)
BY ConnSet DEF TypeInv, Akin, Kin

LEMMA StreamsKin ==
    ASSUME TypeInv, Places, Streams, NEW top
    PROVE  \/ Akin(top)
           \/ \E c \in Conns : /\ Accept(c) \/ Forget(c)
                               /\ \A d \in Conns \ {c} : conn'[d] = conn[d]
<1>0. ConnsOK /\ \A c \in Conns : ConnOK(conn[c]) /\ (conn[c].accepted => conn[c].epoch # None)
  BY PlacesConns
<1>1. ASSUME NEW c \in Conns, Accept(c) \/ Forget(c)
      PROVE  \A d \in Conns \ {c} : conn'[d] = conn[d]
  BY <1>0, <1>1 DEF Accept, Forget, ConnsOK
<1>2. ASSUME NEW c \in Conns, Read(c) \/ ReadEnds(c) \/ Write(c) \/ Reset(c)
      PROVE  Akin(top)
  <2>1. ASSUME NEW d \in Conns, d # c
        PROVE  conn'[d] = conn[d]
    BY <1>0, <1>2, <2>1 DEF Read, ReadEnds, Write, Reset, ConnsOK
  <2>2. conn[c].epoch # None
    <3>1. conn[c].reading \/ conn[c].outbox # <<>> => conn[c].accepted
      BY <1>0 DEF ConnOK, TypeInv, Accepted, QuietOK
    <3>2. conn[c].epoch = None => conn[c].pipe = <<>>
      BY <1>0, PlacesConns DEF PlaceOK, Unused
    <3> QED
      BY <1>0, <1>2, <3>1, <3>2 DEF Read, ReadEnds, Write, Reset
  <2>3. CASE Read(c) \/ Reset(c)
    <3>1. /\ conn'[c].epoch = conn[c].epoch /\ conn'[c].accepted = conn[c].accepted
          /\ conn'[c].fin = conn[c].fin /\ conn'[c].closed = conn[c].closed
          /\ conn'[c].said = conn[c].said
      BY <1>0, <2>3 DEF Read, Reset, ConnsOK, ConnOK, Conn
    <3> QED
      BY <2>1, <2>2, <3>1 DEF Akin, Kin
  <2>4. CASE ReadEnds(c)
    <3>1. ConnOK(Shut(conn[c])) /\ conn'[c] = [Shut(conn[c]) EXCEPT !.reading = FALSE]
      BY <1>0, <2>4, ShutOK DEF ReadEnds, ConnsOK
    <3>2. /\ conn'[c].epoch = Shut(conn[c]).epoch
          /\ conn'[c].accepted = Shut(conn[c]).accepted
          /\ conn'[c].fin = Shut(conn[c]).fin /\ conn'[c].closed = Shut(conn[c]).closed
          /\ conn'[c].said = Shut(conn[c]).said
      BY <3>1 DEF ConnOK, Conn
    <3>3. Shut(conn[c]).closed /\ Kin(conn[c], Shut(conn[c]), top)
      BY <1>0, <2>2, ShutOK, ShutKin
    <3>4. Kin(conn[c], conn'[c], top)
      BY <2>2, <3>2, <3>3, <1>0, ShutKeeps DEF Kin
    <3> QED
      BY <2>1, <3>4 DEF Akin, Kin
  <2>5. CASE Write(c)
    <3>1. CASE conn[c].fin
      <4>1. conn'[c] = Shut(conn[c])
        BY <1>0, <2>5, <3>1 DEF Write, ConnsOK
      <4>2. Kin(conn[c], conn'[c], top)
        BY <1>0, <2>2, <4>1, ShutKin
      <4> QED
        BY <2>1, <4>2 DEF Akin, Kin
    <3>2. CASE ~conn[c].fin
      <4>1. /\ conn'[c].epoch = conn[c].epoch /\ conn'[c].accepted = conn[c].accepted
            /\ conn'[c].fin = conn[c].fin /\ conn'[c].closed = conn[c].closed
            /\ conn'[c].said = conn[c].said
        BY <1>0, <2>5, <3>2 DEF Write, ConnsOK, ConnOK, Conn
      <4> QED
        BY <2>1, <2>2, <4>1 DEF Akin, Kin
    <3> QED
      BY <3>1, <3>2
  <2> QED
    BY <1>2, <2>3, <2>4, <2>5
<1>3. CASE AcceptorEnds
  <2>1. \A d \in Conns : conn'[d] = IF conn[d].epoch = streamPort THEN Shut(conn[d])
                                    ELSE conn[d]
    BY <1>3 DEF AcceptorEnds
  <2>2. streamPort # None
    BY <1>3 DEF AcceptorEnds
  <2>3. ASSUME NEW d \in Conns
        PROVE  Kin(conn[d], conn'[d], top)
    <3>1. CASE conn[d].epoch = streamPort
      BY <1>0, <2>1, <2>2, <3>1, ShutKin
    <3>2. CASE conn[d].epoch # streamPort
      BY <2>1, <3>2 DEF Kin
    <3> QED
      BY <3>1, <3>2
  <2> QED
    BY <2>3 DEF Akin
<1>4. CASE ReceiverEnds
  BY <1>4 DEF ReceiverEnds, Akin, Kin
<1> QED
  BY <1>1, <1>2, <1>3, <1>4 DEF Streams

LEMMA PushKin ==
    ASSUME TypeInv, Places, NEW c \in Conns, conn[c].accepted, NEW p \in Packets, NEW top
    PROVE  ConnOK(Push(conn[c], p)) /\ Kin(conn[c], Push(conn[c], p), top)
<1>1. ConnOK(conn[c]) /\ conn[c].epoch # None
  BY PlacesConns
<1> QED
  BY <1>1, PushIs, PushKeeps DEF Kin

LEMMA ListenerKin ==
    ASSUME TypeInv, Places, Listener
    PROVE  Akin(truth')
<1>0. /\ ConnsOK /\ ListenerOK /\ StateOK /\ truth \in Nat
      /\ \A c \in Conns : ConnOK(conn[c]) /\ (conn[c].accepted => conn[c].epoch # None)
  BY PlacesConns DEF TypeInv
<1>1. CASE UNCHANGED conn
  BY <1>1 DEF Akin, Kin
<1>2. CASE Poll
  BY <1>0, <1>1, <1>2, AnnounceKin DEF Poll
<1>3. CASE PublishControl
  BY <1>0, <1>3, AnnounceKin DEF PublishControl
<1>4. ASSUME NEW c \in Conns, conn[c].accepted, NEW p \in Packets, Answer(c, p)
      PROVE  Akin(truth')
  <2>1. ConnOK(Push(conn[c], p)) /\ Kin(conn[c], Push(conn[c], p), truth')
    BY <1>4, PushKin
  <2>2. conn' = [conn EXCEPT ![c] = Push(conn[c], p)]
    BY <1>4 DEF Answer
  <2> QED
    BY <2>1, <2>2, SetKin
<1>5. CASE SendAnswer
  BY <1>0, <1>4, <1>5, Stepping DEF SendAnswer, ListenerOK
<1>6. CASE Synchronise
  <2>1. From \in Conns /\ conn[From].accepted /\ Head(inbox).what.sent \in Nat
    BY <1>6, Received, PacketFields DEF Synchronise
  <2> QED
    BY <1>4, <1>6, <2>1, PacketMade DEF Synchronise
<1>7. CASE Reply
  <2>1. step.to \in Conns /\ conn[step.to].accepted
    BY <1>0, <1>7, Stepping DEF Reply, ListenerOK
  <2> DEFINE p == [kind |-> "part", val |-> truth, gen |-> count]
             q == Push(conn[step.to], p)
             r == [q EXCEPT !.served = ~q.closed]
  <2>2. p \in Packets
    BY <1>0, PacketMade DEF StateOK
  <2>3. ConnOK(q) /\ Kin(conn[step.to], q, truth')
    BY <1>0, <2>1, <2>2, PushKin
  <2>4. conn' = [conn EXCEPT ![step.to] = r]
    BY <1>7 DEF Reply
  <2>5. conn[step.to].epoch # None
    BY <1>0, <2>1
  <2> HIDE DEF q
  <2>6. /\ ConnOK(r) /\ r.epoch = q.epoch /\ r.accepted = q.accepted /\ r.fin = q.fin
        /\ r.closed = q.closed /\ r.said = q.said
    BY <2>3 DEF ConnOK, Conn
  <2>7. Kin(conn[step.to], r, truth')
    BY <2>3, <2>5, <2>6 DEF Kin
  <2> QED
    BY <2>1, <2>4, <2>6, <2>7, SetKin
<1>8. ASSUME NEW c \in Conns, conn[c].accepted, NEW q, ConnOK(q),
             Kin(conn[c], q, truth'), q.said = conn[c].said, NEW v \in 0 .. truth',
             truth' \in Nat,
             conn' = [conn EXCEPT ![c] = [q EXCEPT !.said = Append(@, v)]]
      PROVE  Akin(truth')
  <2>1. q.said \in Seq(Nat) /\ conn[c].epoch # None /\ v \in Nat
    BY <1>0, <1>8 DEF ConnOK, Conn
  <2>2. Append(q.said, v) \in Seq(Nat)
    BY <2>1, AppendProperties
  <2> DEFINE r == [q EXCEPT !.said = Append(@, v)]
  <2>3. /\ ConnOK(r) /\ r.epoch = q.epoch /\ r.accepted = q.accepted /\ r.fin = q.fin
        /\ r.closed = q.closed /\ r.said = Append(conn[c].said, v)
    BY <1>8, <2>2 DEF ConnOK, Conn
  <2>4. Kin(conn[c], r, truth')
    BY <1>8, <2>1, <2>3 DEF Kin
  <2> QED
    BY <1>8, <2>3, <2>4, SetKin
<1>9. CASE ControlPublished \/ ControlBumped
  <2>1. From \in Conns /\ conn[From].accepted
    BY <1>9, Received DEF ControlPublished, ControlBumped
  <2>2. truth' = truth + 1 /\ Said(From, truth')
    BY <1>9 DEF ControlPublished, ControlBumped
  <2>3. conn' = [conn EXCEPT ![From] = [conn[From] EXCEPT !.said = Append(@, truth')]]
    BY <1>0, <2>2 DEF Said, ConnsOK
  <2>4. Kin(conn[From], conn[From], truth')
    BY DEF Kin
  <2>5. truth' \in Nat /\ truth' \in 0 .. truth'
    BY <1>0, <2>2
  <2> QED
    BY <1>0, <1>8, <2>1, <2>3, <2>4, <2>5
<1>10. CASE ControlRefused
  <2>1. From \in Conns /\ conn[From].accepted /\ Head(inbox).what.number \in Nat
    BY <1>10, Received, PacketFields DEF ControlRefused
  <2> DEFINE p == [kind |-> "error", of |-> Head(inbox).what.number]
             q == Push(conn[From], p)
  <2>2. p \in Packets /\ ConnOK(conn[From])
    BY <1>0, <2>1, PacketMade
  <2>3. ConnOK(q) /\ Kin(conn[From], q, truth') /\ q.said = conn[From].said
    BY <2>1, <2>2, PushKin, PushKeeps
  <2>4. conn' = [conn EXCEPT ![From] = [q EXCEPT !.said = Append(@, 0)]]
    BY <1>10 DEF ControlRefused
  <2>5. truth' \in Nat /\ 0 \in 0 .. truth'
    BY <1>0, <1>10 DEF ControlRefused, state
  <2> HIDE DEF q
  <2> QED
    BY <1>8, <2>1, <2>3, <2>4, <2>5
<1> QED
  BY <1>1, <1>2, <1>3, <1>5, <1>6, <1>7, <1>9, <1>10
     DEF Listener, Timeout, Register, Refresh, Heartbeat

LEMMA EnginesKin ==
    ASSUME TypeInv, Places, Engines \/ Publishers, NEW top
    PROVE  Akin(top)
<1>1. CASE UNCHANGED conn
  BY <1>1 DEF Akin, Kin
<1>2. CASE Stop
  BY <1>1, <1>2, PacketMade, BroadcastKin DEF Stop
<1>3. CASE PublishEvent
  <2>1. truth' \in Nat /\ Announce(truth')
    BY <1>3 DEF PublishEvent, TypeInv, StateOK
  <2> QED
    BY <2>1, AnnounceKin
<1>4. CASE Telemetry
  BY <1>4, PacketMade, BroadcastKin DEF Telemetry
<1> QED
  BY <1>1, <1>2, <1>3, <1>4
     DEF Engines, Publishers, Leave, Bind, BindStream, LiveChange, studio

LEMMA SentKin ==
    ASSUME NEW r, ConnOK(r), r.epoch # None, NEW q \in Requests, NEW top
    PROVE  Kin(r, Sent(r, q), top)
<1>1. CASE Sent(r, q) = r
  BY <1>1 DEF Kin
<1>2. CASE Sent(r, q) = [r EXCEPT !.up = Append(r.up, q)]
  BY <1>2 DEF Kin, ConnOK, Conn
<1> QED
  BY <1>1, <1>2, SentIs

\* Studio: but for opening a connection and dropping it.
Drops == StreamClosed \/ NotAnEngine \/ AckTimeout
LEMMA StudioKin ==
    ASSUME TypeInv, Places, Studio, NEW top
    PROVE  (Akin(top) /\ link' = link) \/ Drops \/ \E c \in Conns : Open(c)
<1>0. /\ ConnsOK /\ StudioOK /\ PortOK /\ StateOK
      /\ \A c \in Conns : ConnOK(conn[c])
      /\ link # None => link \in Conns
      /\ link \in Conns => link # None /\ conn[link].epoch # None
  BY Sizes DEF TypeInv, ConnsOK, StudioOK, Places, LinkPlaces
<1>1. ASSUME UNCHANGED conn
      PROVE  Akin(top)
  BY <1>1 DEF Akin, Kin
<1>3. CASE Take
  <2>1. link \in Conns /\ conn[link].pipe # <<>>
    BY <1>0, <1>3, TakeIs
  <2>2. PICK b \in BOOLEAN : \E d :
            conn' = [conn EXCEPT ![link] = Followed(conn[link], b, d)]
    BY <1>3, TakeIs
  <2>3. PICK d : conn' = [conn EXCEPT ![link] = Followed(conn[link], b, d)]
    BY <2>2
  <2>4. /\ ConnOK(Followed(conn[link], b, d))
        /\ Kin(conn[link], Followed(conn[link], b, d), top)
    BY <1>0, <2>1, FollowedIs DEF Kin
  <2> QED
    BY <1>3, <2>1, <2>3, <2>4, SetKin DEF Take
<1>6. CASE SendHeartbeat
  <2>1. conn' = [conn EXCEPT ![link] = Sent(conn[link], AskHeartbeat)] /\ link \in Conns
    BY <1>0, <1>6 DEF SendHeartbeat
  <2> QED
    BY <1>0, <1>6, <2>1, SentKept, SentKin, RequestMade, SetKin DEF SendHeartbeat,
         studio
<1>7. CASE RegisterAgain
  <2> DEFINE q == Sent(conn[link], AskRegister)
             u == Sent(q, AskHeartbeat)
  <2>1. conn' = [conn EXCEPT ![link] = u] /\ link \in Conns /\ link' = link
    BY <1>0, <1>7 DEF RegisterAgain, studio
  <2>2. ConnOK(q) /\ Kin(conn[link], q, top)
    BY <1>0, <2>1, SentKept, SentKin, RequestMade
  <2>3. q.epoch # None
    BY <1>0, <2>1, <2>2 DEF Kin
  <2> HIDE DEF q
  <2>4. ConnOK(u) /\ Kin(q, u, top)
    BY <2>2, <2>3, SentKept, SentKin, RequestMade
  <2>5. q.said = conn[link].said /\ u.said = q.said
    <3>1. q = conn[link] \/ q = [conn[link] EXCEPT !.up = Append(conn[link].up, AskRegister)]
      BY <1>0, <2>1, SentIs, RequestMade DEF q
    <3>2. u = q \/ u = [q EXCEPT !.up = Append(q.up, AskHeartbeat)]
      BY <2>2, SentIs, RequestMade
    <3> QED
      BY <1>0, <2>1, <2>2, <3>1, <3>2 DEF ConnOK, Conn
  <2> HIDE DEF u
  <2>6. Kin(conn[link], u, top)
    BY <2>2, <2>4, <2>5 DEF Kin
  <2> QED
    BY <2>1, <2>4, <2>6, SetKin
<1>8. ASSUME NEW q \in Requests, link # None,
             conn' = [conn EXCEPT ![link].up = Append(@, q)]
      PROVE  Akin(top)
  <2> DEFINE r == [conn[link] EXCEPT !.up = Append(@, q)]
  <2>1. conn' = [conn EXCEPT ![link] = r] /\ link \in Conns
    BY <1>0, <1>8 DEF ConnsOK
  <2>2. ConnOK(r)
    BY <1>0, <2>1, AskedOK
  <2>3. Kin(conn[link], r, top)
    BY <1>0, <2>1 DEF Kin, ConnOK, Conn
  <2> QED
    BY <2>1, <2>2, <2>3, SetKin
<1>9. CASE SendControl
  <2>1. sent + 1 \in Nat
    BY <1>0 DEF StudioOK
  <2> QED
    BY <1>8, <1>9, <2>1, RequestMade DEF SendControl
<1>10. CASE SendSync
  BY <1>0, <1>8, <1>10, RequestMade DEF SendSync, StudioOK, studio
<1> QED
  BY <1>1, <1>3, <1>6, <1>7, <1>9, <1>10 DEF Studio, Drops, BackoffEnds,
       Datagrams, RetryDue

\* What the engine's numbers do.
LEMMA NumbersMove ==
    ASSUME TypeInv, Next
    PROVE  /\ truth \in Nat /\ truth' \in Nat /\ truth <= truth'
           /\ epoch \in Nat \ {0} /\ (epoch' = epoch \/ (Bind /\ epoch' = epoch + 1))
<1>0. truth \in Nat /\ epoch \in Nat \ {0}
  BY DEF TypeInv, StateOK
<1>1. CASE truth' = truth /\ epoch' = epoch
  <2>1. truth' \in Nat /\ truth <= truth'
    BY <1>0, <1>1
  <2> QED
    BY <1>0, <1>1, <2>1
<1>2. CASE truth' = truth + 1 /\ epoch' = epoch
  <2>1. truth' \in Nat /\ truth <= truth'
    BY <1>0, <1>2
  <2> QED
    BY <1>0, <1>2, <2>1
<1>3. CASE Bind
  BY <1>0, <1>3 DEF Bind
<1>4. \/ truth' = truth /\ epoch' = epoch
      \/ truth' = truth + 1 /\ epoch' = epoch
      \/ Bind
  BY DEF Next, Streams, Listener, Engines, Publishers, Studio, state, Accept,
       Read, ReadEnds, Write, Reset, Forget, AcceptorEnds, ReceiverEnds, Stop,
       Leave, BindStream, LiveChange, PublishEvent, Telemetry, Poll, Timeout,
       Register, Refresh, Reply, Heartbeat, SendAnswer, ControlPublished,
       PublishControl, ControlBumped, ControlRefused, Synchronise, Open,
       BackoffEnds, Datagrams, Take, StreamClosed, NotAnEngine, AckTimeout, Drop,
       SendHeartbeat, RegisterAgain, RetryDue, SendControl, SendSync
<1> QED
  BY <1>1, <1>2, <1>3, <1>4

\* What one step does to the connections.
LEMMA NextKin ==
    ASSUME TypeInv, Places, Next
    PROVE  \/ Akin(truth') /\ link' = link
           \/ \E c \in Conns : /\ Accept(c) \/ Forget(c) \/ Open(c)
                               /\ \A d \in Conns \ {c} : conn'[d] = conn[d]
           \/ Drops
<1>1. ASSUME NEW c \in Conns, Open(c)
      PROVE  \A d \in Conns \ {c} : conn'[d] = conn[d]
  BY <1>1, PlacesConns DEF Open, ConnsOK
<1>2. CASE Streams
  <2>1. link' = link
    BY <1>2 DEF Streams, Accept, Read, ReadEnds, Write, Reset, Forget,
         AcceptorEnds, ReceiverEnds, studio
  <2> QED
    BY <1>2, <2>1, StreamsKin
<1>3. CASE Listener
  <2>1. link' = link
    BY <1>3 DEF Listener, Poll, Timeout, Register, Refresh, Reply, Heartbeat,
         SendAnswer, ControlPublished, PublishControl, ControlBumped,
         ControlRefused, Synchronise, studio
  <2> QED
    BY <1>3, <2>1, ListenerKin
<1>4. CASE Engines \/ Publishers
  <2>1. link' = link
    BY <1>4 DEF Engines, Publishers, Stop, Leave, Bind, BindStream, LiveChange,
         PublishEvent, Telemetry, studio
  <2> QED
    BY <1>4, <2>1, EnginesKin
<1>5. CASE Studio
  BY <1>1, <1>5, StudioKin
<1> QED
  BY <1>2, <1>3, <1>4, <1>5 DEF Next

LEMMA DroppedIs ==
    ASSUME TypeInv, Drops
    PROVE  /\ link \in Conns /\ link' = None
           /\ conn'[link] = Dropped(conn[link])
           /\ \A d \in Conns \ {link} : conn'[d] = conn[d]
           /\ Dropped(conn[link]).epoch = conn[link].epoch
           /\ Dropped(conn[link]).accepted = conn[link].accepted
           /\ Dropped(conn[link]).fin /\ Dropped(conn[link]).said = conn[link].said
           /\ conn[link].closed => Dropped(conn[link]).closed
<1>1. link # None /\ Drop
  BY DEF Drops, StreamClosed, NotAnEngine, AckTimeout
<1>2. link \in Conns /\ ConnsOK /\ ConnOK(conn[link])
  BY <1>1 DEF TypeInv, StudioOK, ConnsOK
<1>3. conn' = [conn EXCEPT ![link] = Dropped(conn[link])] /\ link' = None
  BY <1>1, <1>2 DEF Drop, Dropped, ConnsOK
<1>4. /\ Dropped(conn[link]).epoch = conn[link].epoch
      /\ Dropped(conn[link]).accepted = conn[link].accepted
      /\ Dropped(conn[link]).fin /\ Dropped(conn[link]).said = conn[link].said
      /\ conn[link].closed => Dropped(conn[link]).closed
  BY <1>2 DEF Dropped, ConnOK, Conn
<1> QED
  BY <1>2, <1>3, <1>4 DEF ConnsOK

LEMMA AcceptedIs ==
    ASSUME TypeInv, NEW c \in Conns, Accept(c)
    PROVE  /\ conn[c].epoch = epoch /\ conn'[c].epoch = epoch /\ streamPort = epoch
           /\ conn'[c].fin = conn[c].fin /\ conn'[c].said = conn[c].said
           /\ conn'[c].closed = conn[c].closed
BY DEF Accept, TypeInv, ConnsOK, ConnOK, Conn

LEMMA OpenedIs ==
    ASSUME TypeInv, NEW c \in Conns, Open(c)
    PROVE  /\ conn[c] = Unused /\ conn'[c] = Opened(streamPort)
           /\ link = None /\ link' = c /\ streamPort \in {Other} \cup 1 .. epoch
           /\ ~Opened(streamPort).accepted /\ ~Opened(streamPort).fin
           /\ Opened(streamPort).epoch = streamPort /\ Opened(streamPort).said = <<>>
<1>1. streamPort # None /\ conn[c] = Unused /\ link = None /\ link' = c
  BY DEF Open
<1>2. streamPort \in {Other} \cup 1 .. epoch
  BY <1>1 DEF TypeInv, PortOK
<1>3. conn'[c] = Opened(streamPort)
  BY <1>1 DEF Open, Opened, TypeInv, ConnsOK
<1>4. /\ ~Opened(streamPort).accepted /\ ~Opened(streamPort).fin
      /\ Opened(streamPort).epoch = streamPort /\ Opened(streamPort).said = <<>>
  BY DEF Opened, Unused
<1> QED
  BY <1>1, <1>2, <1>3, <1>4

LEMMA ForgottenIs ==
    ASSUME TypeInv, NEW c \in Conns, Forget(c)
    PROVE  /\ conn'[c] = Unused /\ link # c /\ ~Refers(c)
           /\ Unused.epoch = None /\ ~Unused.accepted
<1>1. conn'[c] = Unused
  BY UnusedOK, ConnSet DEF Forget, TypeInv
<1>2. DOMAIN inbox = 1 .. Len(inbox)
  BY LenProperties DEF TypeInv, ListenerOK
<1> QED
  BY <1>1, <1>2 DEF Forget, Refers, Unused

\* A connection keeps its engine until it is forgotten, and its end.
LEMMA EpochKept ==
    ASSUME TypeInv, Places, Next, NEW c \in Conns, conn[c].epoch # None, ~Forget(c)
    PROVE  conn'[c].epoch = conn[c].epoch /\ (conn[c].closed => conn'[c].closed)
<1>1. CASE Akin(truth')
  BY <1>1 DEF Akin, Kin
<1>2. CASE \E d \in Conns : /\ Accept(d) \/ Forget(d) \/ Open(d)
                            /\ \A e \in Conns \ {d} : conn'[e] = conn[e]
  <2>1. PICK d \in Conns : /\ Accept(d) \/ Forget(d) \/ Open(d)
                           /\ \A e \in Conns \ {d} : conn'[e] = conn[e]
    BY <1>2
  <2>2. CASE d # c
    BY <2>1, <2>2
  <2>3. CASE d = c
    BY <2>1, <2>3, AcceptedIs, OpenedIs DEF Unused
  <2> QED
    BY <2>2, <2>3
<1>3. CASE Drops
  BY <1>3, DroppedIs
<1> QED
  BY <1>1, <1>2, <1>3, NextKin

LEMMA ConnPlacesKept ==
    ASSUME TypeInv, Places, Next
    PROVE  ConnPlaces'
<1>0. /\ truth \in Nat /\ truth' \in Nat /\ truth <= truth'
      /\ epoch \in Nat \ {0} /\ epoch' \in Nat /\ epoch <= epoch'
      /\ 1 .. epoch \subseteq 1 .. epoch'
  BY NumbersMove
<1> SUFFICES ASSUME NEW c \in Conns
             PROVE  PlaceOK(c, conn'[c], epoch', link', truth')
  BY DEF ConnPlaces
<1>1. PlaceOK(c, conn[c], epoch, link, truth)
  BY DEF Places, ConnPlaces
<1>2. PlaceOK(c, conn[c], epoch', link, truth')
  <2>1. conn[c].said \in Seq(0 .. truth')
    BY <1>0, <1>1, SeqMonotonic DEF PlaceOK
  <2> QED
    BY <1>0, <1>1, <2>1 DEF PlaceOK
<1>3. CASE Akin(truth') /\ link' = link
  <2>1. Kin(conn[c], conn'[c], truth')
    BY <1>3 DEF Akin
  <2> QED
    BY <1>0, <1>2, <1>3, <2>1, PlaceKept
<1>4. CASE \E d \in Conns : /\ Accept(d) \/ Forget(d) \/ Open(d)
                            /\ \A e \in Conns \ {d} : conn'[e] = conn[e]
  <2>1. PICK d \in Conns : /\ Accept(d) \/ Forget(d) \/ Open(d)
                           /\ \A e \in Conns \ {d} : conn'[e] = conn[e]
    BY <1>4
  <2>2. CASE Accept(d)
    <3>1. link' = link
      BY <2>2 DEF Accept, studio
    <3>2. CASE d = c
      <4>1. /\ conn'[c].epoch = epoch /\ epoch # None /\ epoch # Other
            /\ conn'[c].fin = conn[c].fin /\ conn'[c].said = conn[c].said
            /\ conn[c].epoch = epoch
        BY <1>0, <2>2, <3>2, AcceptedIs, Sizes
      <4> QED
        BY <1>2, <3>1, <4>1 DEF PlaceOK
    <3> QED
      BY <1>2, <2>1, <3>1, <3>2
  <2>3. CASE Forget(d)
    <3>1. link' = link
      BY <2>3 DEF Forget, studio
    <3>2. CASE d = c
      <4>1. Unused.said = <<>> /\ <<>> \in Seq(0 .. truth')
        BY EmptySeq DEF Unused
      <4> QED
        BY <2>3, <3>2, <4>1, ForgottenIs DEF PlaceOK
    <3> QED
      BY <1>2, <2>1, <3>1, <3>2
  <2>4. CASE Open(d)
    <3>1. link = None /\ link' = d
      BY <2>4, OpenedIs
    <3>2. CASE d = c
      <4>1. /\ conn'[c].epoch \in {Other} \cup 1 .. epoch /\ ~conn'[c].accepted
            /\ conn'[c].said = <<>> /\ <<>> \in Seq(0 .. truth')
        BY <2>4, <3>2, OpenedIs, EmptySeq
      <4>2. conn'[c].epoch # None
        BY <4>1, Sizes
      <4> QED
        BY <1>0, <3>1, <3>2, <4>1, <4>2 DEF PlaceOK
    <3>3. CASE d # c
      <4>1. conn'[c] = conn[c] /\ link # c
        BY <2>1, <3>1, <3>3, Sizes
      <4> QED
        BY <1>2, <4>1 DEF PlaceOK
    <3> QED
      BY <3>2, <3>3
  <2> QED
    BY <2>1, <2>2, <2>3, <2>4
<1>5. CASE Drops
  <2>1. CASE c = link
    <3>1. /\ conn'[c].epoch = conn[c].epoch /\ conn'[c].accepted = conn[c].accepted
          /\ conn'[c].fin /\ conn'[c].said = conn[c].said
      BY <1>5, <2>1, DroppedIs
    <3>2. conn[c].epoch # None
      BY <2>1, Sizes DEF Places, LinkPlaces
    <3> QED
      BY <1>2, <3>1, <3>2 DEF PlaceOK
  <2>2. CASE c # link
    <3>1. conn'[c] = conn[c]
      BY <1>5, <2>2, DroppedIs
    <3> QED
      BY <1>2, <2>2, <3>1 DEF PlaceOK
  <2> QED
    BY <2>1, <2>2
<1> QED
  BY <1>3, <1>4, <1>5, NextKin

\* Only a request read refers to a connection anew.
LEMMA RefersFrom ==
    ASSUME TypeInv, Next, NEW c \in Conns, Refers(c)'
    PROVE  Refers(c) \/ Read(c)
<1>1. ASSUME UNCHANGED <<step, inbox>>, registry' \subseteq registry
      PROVE  Refers(c)
  BY <1>1 DEF Refers
<1>2. ASSUME UNCHANGED inbox, registry' \subseteq registry,
             step' \in [do : {"poll", "receive"}]
      PROVE  Refers(c)
  BY <1>2 DEF Refers
<1>3. ASSUME NEW kind, Receive(kind), registry' \subseteq registry \cup {From},
             step'.do \in {"reply", "answer"} => step'.to = From
      PROVE  Refers(c)
  <2>1. /\ Refers(From) /\ Len(inbox') = Len(inbox) - 1 /\ Len(inbox) \in Nat
        /\ \A k \in 1 .. Len(inbox') : inbox'[k] = inbox[k + 1]
    BY <1>3, Received DEF Refers
  <2>2. ASSUME NEW k \in 1 .. Len(inbox'), inbox'[k].from = c
        PROVE  Refers(c)
    BY <2>1, <2>2 DEF Refers
  <2> QED
    BY <1>3, <2>1, <2>2 DEF Refers
<1>4. CASE Poll \/ PublishControl \/ Timeout \/ Reply \/ SendAnswer \/ BindStream
  <2>1. UNCHANGED inbox /\ registry' \subseteq registry
        /\ step' \in [do : {"poll", "receive"}]
    BY <1>4 DEF Poll, PublishControl, Timeout, Reply, SendAnswer, BindStream,
         Then, Announce, Broadcast, Alive
  <2> QED
    BY <1>2, <2>1
<1>5. CASE PublishEvent \/ Telemetry \/ Stop
  BY <1>1, <1>5 DEF PublishEvent, Telemetry, Stop, Announce, Broadcast, Alive
<1>6. ASSUME NEW d \in Conns, Read(d)
      PROVE  Refers(c) \/ Read(c)
  <2>1. /\ conn[d].up \in Seq(Requests) /\ conn[d].up # <<>>
        /\ step' = step /\ registry' = registry
    BY <1>6 DEF Read, TypeInv, ConnsOK, ConnOK, Conn
  <2> DEFINE e == [from |-> d, what |-> Head(conn[d].up)]
  <2>2. e \in Entries /\ inbox' = Append(inbox, e)
    BY <1>6, <2>1, HeadTailProperties DEF Read, Entries
  <2>3. /\ Len(inbox') = Len(inbox) + 1 /\ Len(inbox) \in Nat
        /\ \A k \in 1 .. Len(inbox) : inbox'[k] = inbox[k]
        /\ inbox'[Len(inbox) + 1] = e
    BY <2>2, AppendProperties, LenProperties DEF TypeInv, ListenerOK
  <2>4. CASE c = d
    BY <1>6, <2>4
  <2>5. CASE c # d
    BY <2>1, <2>3, <2>5 DEF Refers
  <2> QED
    BY <2>4, <2>5
<1>7. CASE Leave
  BY <1>1, <1>7, EmptySeq DEF Leave, Refers
<1>8. CASE Bind
  BY <1>1, <1>8 DEF Bind
<1>9. CASE Register \/ Refresh \/ ControlPublished \/ ControlBumped \/ ControlRefused
            \/ Synchronise \/ Heartbeat
  BY <1>3, <1>9 DEF Register, Refresh, ControlPublished, ControlBumped,
       ControlRefused, Synchronise, Heartbeat, Then
<1> QED
  BY <1>1, <1>4, <1>5, <1>6, <1>7, <1>8, <1>9 DEF Next, Streams, Listener,
       Engines, Publishers, Studio, Accept, ReadEnds, Write, Reset, Forget,
       AcceptorEnds, ReceiverEnds, LiveChange, Open, BackoffEnds, Datagrams, Take,
       StreamClosed, NotAnEngine, AckTimeout, Drop, SendHeartbeat, RegisterAgain,
       RetryDue, SendControl, SendSync

\* As the next engine waits for the port, nothing refers to a connection.
LEMMA NoneReferred ==
    ASSUME TypeInv, Places, Bind
    PROVE  \A c \in Conns : ~Refers(c)'
<1>1. inbox = <<>> /\ step = [do |-> "left"] /\ Len(inbox) = 0
  BY EmptySeq DEF Bind, Places, IdleOK
<1> QED
  BY <1>1 DEF Bind, Refers

LEMMA ReferredKept ==
    ASSUME TypeInv, Places, Next
    PROVE  Referred'
<1>1. CASE Bind
  BY <1>1, NoneReferred DEF Referred
<1>2. CASE ~Bind
  <2> SUFFICES ASSUME NEW c \in Conns, Refers(c)'
               PROVE  conn'[c].epoch = epoch'
    BY DEF Referred
  <2>1. epoch' = epoch /\ epoch # None
    BY <1>2, NumbersMove, Sizes
  <2>2. conn[c].epoch = epoch
    BY RefersFrom DEF Read, Places, Referred
  <2>3. ~Forget(c)
    <3>1. Refers(c) => ~Forget(c)
      BY ForgottenIs
    <3>2. Read(c) => ~Forget(c)
      BY DEF Read, Forget
    <3> QED
      BY <3>1, <3>2, RefersFrom
  <2> QED
    BY <2>1, <2>2, <2>3, EpochKept
<1> QED
  BY <1>1, <1>2

LEMMA PortPlacesKept ==
    ASSUME TypeInv, Places, Next
    PROVE  PortPlaces'
<1> SUFFICES ASSUME streamPort' # epoch', NEW c \in Conns, conn'[c].epoch = epoch'
             PROVE  conn'[c].closed
  BY DEF PortPlaces
<1>0. /\ epoch \in Nat \ {0} /\ epoch # None /\ ConnsOK
      /\ PlaceOK(c, conn[c], epoch, link, truth) /\ ConnOK(conn[c])
  BY PlacesConns, Sizes
<1>1. CASE Bind
  <2>1. conn' = conn /\ epoch' = epoch + 1
    BY <1>1 DEF Bind
  <2>2. conn[c].epoch = epoch + 1
    BY <2>1
  <2>3. conn[c].epoch \notin 1 .. epoch /\ conn[c].epoch \in Nat
    BY <1>0, <2>2
  <2> QED
    BY <1>0, <2>3, Sizes DEF PlaceOK
<1>2. CASE ~Bind /\ ~AcceptorEnds
  <2>1. epoch' = epoch
    BY <1>2, NumbersMove
  <2>2. streamPort' = streamPort \/ (BindStream /\ streamPort = None)
           \/ (BindStream /\ UNCHANGED streamPort)
    BY <1>2, <2>1 DEF Next, Streams, Listener, Engines, Publishers, Studio, port,
         Accept, Read, ReadEnds, Write, Reset, Forget, ReceiverEnds, Stop, Leave,
         BindStream, LiveChange, PublishEvent, Telemetry, Poll, Timeout, Register,
         Refresh, Reply, Heartbeat, SendAnswer, ControlPublished, PublishControl,
         ControlBumped, ControlRefused, Synchronise, Open, BackoffEnds, Datagrams,
         Take, StreamClosed, NotAnEngine, AckTimeout, Drop, SendHeartbeat,
         RegisterAgain, RetryDue, SendControl, SendSync
  <2>3. streamPort # epoch
    BY <1>0, <2>1, <2>2
  <2>4. conn[c].epoch = epoch => conn[c].closed
    BY <2>3 DEF Places, PortPlaces
  <2>5. CASE Forget(c)
    BY <1>0, <2>1, <2>5, ForgottenIs
  <2>6. CASE conn[c].epoch # None /\ ~Forget(c)
    BY <2>1, <2>4, <2>6, EpochKept
  <2>7. CASE conn[c].epoch = None
    <3>1. conn[c] = Unused
      BY <1>0, <2>7 DEF PlaceOK
    <3>2. CASE Akin(truth')
      BY <1>0, <2>1, <2>7, <3>2 DEF Akin, Kin
    <3>3. CASE \E d \in Conns : /\ Accept(d) \/ Forget(d) \/ Open(d)
                                /\ \A e \in Conns \ {d} : conn'[e] = conn[e]
      <4>1. PICK d \in Conns : /\ Accept(d) \/ Forget(d) \/ Open(d)
                               /\ \A e \in Conns \ {d} : conn'[e] = conn[e]
        BY <3>3
      <4>2. CASE d # c
        BY <1>0, <2>1, <2>7, <4>1, <4>2
      <4>3. CASE d = c
        BY <1>0, <2>1, <2>3, <2>7, <4>1, <4>3, AcceptedIs, OpenedIs, ForgottenIs
      <4> QED
        BY <4>2, <4>3
    <3>4. CASE Drops
      BY <1>0, <2>1, <2>7, <3>4, DroppedIs
    <3> QED
      BY <3>2, <3>3, <3>4, NextKin
  <2> QED
    BY <2>5, <2>6, <2>7
<1>3. CASE AcceptorEnds
  <2>1. /\ conn'[c] = IF conn[c].epoch = streamPort THEN Shut(conn[c]) ELSE conn[c]
        /\ epoch' = epoch
    BY <1>3 DEF AcceptorEnds, state
  <2>2. conn[c].epoch = epoch
    BY <1>0, <2>1, ShutKeeps
  <2>3. CASE streamPort = epoch
    BY <1>0, <2>1, <2>2, <2>3, ShutOK
  <2>4. CASE streamPort # epoch
    BY <2>1, <2>2, <2>4 DEF Places, PortPlaces
  <2> QED
    BY <2>3, <2>4
<1> QED
  BY <1>1, <1>2, <1>3

LEMMA IdleKept ==
    ASSUME TypeInv, Places, Next
    PROVE  IdleOK'
<1> SUFFICES ASSUME mode' \in {"gone", "binding"}
             PROVE  inbox' = <<>> /\ step' = [do |-> "left"] /\ streamPort' # epoch'
  BY DEF IdleOK
<1>0. /\ epoch \in Nat \ {0} /\ epoch # None /\ epoch # Other
      /\ streamPort \in {None, Other} \cup 1 .. epoch
  BY Sizes DEF TypeInv, StateOK, PortOK
<1>1. CASE Leave
  BY <1>1 DEF Leave, Joined, state
<1>2. CASE Bind
  <2>1. inbox = <<>> /\ step = [do |-> "left"]
    BY <1>2 DEF Bind, Places, IdleOK
  <2>2. epoch' \in Nat /\ epoch' = epoch + 1 /\ UNCHANGED <<streamPort, inbox, step>>
    BY <1>0, <1>2 DEF Bind
  <2>3. epoch' \notin 1 .. epoch
    BY <1>0, <2>2
  <2> QED
    BY <1>0, <2>1, <2>2, <2>3, Sizes
<1>3. CASE ~Leave /\ ~Bind
  <2>1. epoch' = epoch
    BY <1>3, NumbersMove
  <2>2. mode' = mode \/ Stop \/ BindStream
    BY <1>3 DEF Next, Streams, Listener, Engines, Publishers, Studio, port,
         Accept, Read, ReadEnds, Write, Reset, Forget, ReceiverEnds, AcceptorEnds,
         LiveChange, PublishEvent, Telemetry, Poll, Timeout, Register, Refresh,
         Reply, Heartbeat, SendAnswer, ControlPublished, PublishControl,
         ControlBumped, ControlRefused, Synchronise, Open, BackoffEnds, Datagrams,
         Take, StreamClosed, NotAnEngine, AckTimeout, Drop, SendHeartbeat,
         RegisterAgain, RetryDue, SendControl, SendSync
  <2>3. mode \in {"gone", "binding"} /\ ~Stop /\ ~BindStream
    BY <2>2 DEF Stop, BindStream
  <2>4. inbox = <<>> /\ step = [do |-> "left"] /\ streamPort # epoch
    BY <2>3 DEF Places, IdleOK
  <2>5. UNCHANGED <<inbox, step>> /\ streamPort' \in {streamPort, None}
    <3>1. step.do = "left" /\ step.do \notin {"poll", "receive", "reply", "answer", "publish"}
      BY <2>4
    <3> QED
      BY <1>3, <2>3, <3>1
       DEF Next, Streams, Listener, Engines, Publishers, Studio, port, Accept, Read, ReadEnds,
           Write, Reset, Forget, ReceiverEnds, AcceptorEnds, LiveChange, Receive,
           PublishEvent, Telemetry, Poll, Timeout, Register, Refresh, Reply, Heartbeat,
           SendAnswer, ControlPublished, PublishControl, ControlBumped, ControlRefused,
           Synchronise, Open, BackoffEnds, Datagrams, Take, StreamClosed, NotAnEngine,
           AckTimeout, Drop, SendHeartbeat, RegisterAgain, RetryDue, SendControl, SendSync
  <2> QED
    BY <1>0, <2>1, <2>4, <2>5
<1> QED
  BY <1>1, <1>2, <1>3

\* What Studio holds after each packet.
LEMMA HeldIs ==
    ASSUME NEW s \in Sync, NEW g \in Count
    PROVE  /\ OnUpdate(s, g).held = IF s.held = None THEN None ELSE g
           /\ OnPart(s, g, 1).held = g
           /\ OnAck(s, g).held = s.held
<1>1. OnUpdate(s, g).held = IF s.held = None THEN None ELSE g
  BY DEF OnUpdate, Abandon, Sync
<1>2. OnPart(s, g, 1).held = g
  BY DEF OnPart, Abandon, Sync
<1>3. OnAck(s, g).held = s.held
  BY DEF OnAck, Abandon, Sync
<1> QED
  BY <1>1, <1>2, <1>3

\* What a packet taken changes: the state told, the engine known, the refusals.
TakenBy(p, v, h, ref, v2, h2, ref2) ==
    /\ TellsState(p) => v2 = p.val /\ h2 = h /\ ref2 = ref
    /\ p.kind = "ack" =>
         h2 = p.epoch /\ ref2 = ref /\ (v2 = v \/ (v2 = 0 /\ h # p.epoch))
    /\ p.kind = "error" => ref2 = ref \cup {p.of} /\ v2 = v /\ h2 = h
    /\ ~TellsState(p) /\ p.kind \notin {"ack", "error"} => v2 = v /\ h2 = h /\ ref2 = ref
\* And the sync: the count told is held, once there was a snapshot.
HeldBy(p, known, held, known2, held2) ==
    /\ TellsState(p) =>
         /\ p.kind = "part" => held2 = p.gen
         /\ p.kind = "update" => known2 = known /\ held2 = IF held = None THEN None ELSE p.gen
    /\ ~TellsState(p) => known2 = FALSE \/ (known2 = known /\ held2 = held)
LEMMA TakeEffect ==
    ASSUME TypeInv, Take
    PROVE  /\ link \in Conns /\ link' = link /\ conn[link].pipe # <<>>
           /\ Head(conn[link].pipe) \in Packets
           /\ UNCHANGED <<state, port, step, inbox, registry, sent>>
           /\ TakenBy(Head(conn[link].pipe), vals, heard, refused, vals', heard', refused')
           /\ HeldBy(Head(conn[link].pipe), ready, sync.held, ready', sync'.held)
           /\ vals' = vals \/ TellsState(Head(conn[link].pipe)) \/ ready' = FALSE
<1>0. StudioOK /\ link \in Conns /\ link' = link /\ conn[link].pipe # <<>>
  BY DEF Take, TypeInv, StudioOK
<1>1. conn[link].pipe \in Seq(Packets)
  BY <1>0 DEF TypeInv, ConnsOK, ConnOK, Conn
<1> DEFINE p == Head(conn[link].pipe)
<1>2. p \in Packets
  BY <1>0, <1>1, HeadTailProperties
<1>3. UNCHANGED <<state, port, step, inbox, registry, sent>>
  BY DEF Take
<1>4. HandleUpdate(p) \/ HandleSnapshot(p) \/ HandleAck(p) \/ HandleUnknown(p)
         \/ HandleGoodbye(p) \/ HandleOther(p)
  BY DEF Take
<1> HIDE DEF p
<1>5. TakenBy(p, vals, heard, refused, vals', heard', refused')
  <2>1. CASE HandleUpdate(p) \/ HandleSnapshot(p)
    BY <2>1 DEF TakenBy, TellsState, HandleUpdate, HandleSnapshot
  <2>2. CASE HandleAck(p)
    BY <2>2 DEF TakenBy, TellsState, HandleAck
  <2>3. CASE HandleUnknown(p) \/ HandleGoodbye(p)
    BY <2>3 DEF TakenBy, TellsState, HandleUnknown, HandleGoodbye
  <2>4. CASE HandleOther(p)
    BY <2>4 DEF TakenBy, TellsState, HandleOther
  <2> QED
    BY <1>4, <2>1, <2>2, <2>3, <2>4
<1>6. HeldBy(p, ready, sync.held, ready', sync'.held)
  <2>1. CASE HandleUpdate(p)
    <3>1. p.gen \in Count /\ sync \in Sync
      BY <1>0, <1>2, <2>1, PacketFields DEF HandleUpdate, TellsState, StudioOK
    <3> QED
      BY <2>1, <3>1, HeldIs DEF HandleUpdate, HeldBy, TellsState
  <2>2. CASE HandleSnapshot(p)
    <3>1. p.gen \in Count /\ sync \in Sync
      BY <1>0, <1>2, <2>2, PacketFields DEF HandleSnapshot, TellsState, StudioOK
    <3> QED
      BY <2>2, <3>1, HeldIs DEF HandleSnapshot, HeldBy, TellsState
  <2>3. CASE HandleAck(p)
    <3>1. p.gen \in Count /\ sync \in Sync
      BY <1>0, <1>2, <2>3, PacketFields DEF HandleAck, StudioOK
    <3>2. ready' = FALSE \/ (ready' = ready /\ sync' = OnAck(sync, p.gen))
      BY <2>3 DEF HandleAck
    <3>3. OnAck(sync, p.gen).held = sync.held
      BY <3>1, HeldIs
    <3>4. p.kind = "ack"
      BY <2>3 DEF HandleAck
    <3> QED
      BY <3>2, <3>3, <3>4 DEF HeldBy, TellsState
  <2>4. CASE HandleUnknown(p) \/ HandleGoodbye(p) \/ HandleOther(p)
    BY <2>4 DEF HandleUnknown, HandleGoodbye, HandleOther, HeldBy, TellsState
  <2> QED
    BY <1>4, <2>1, <2>2, <2>3, <2>4
<1>7. vals' = vals \/ TellsState(p) \/ ready' = FALSE
  BY <1>4 DEF TellsState, HandleUpdate, HandleSnapshot, HandleAck, HandleUnknown,
              HandleGoodbye, HandleOther
<1> QED
  BY <1>0, <1>2, <1>3, <1>5, <1>6, <1>7 DEF p

LEMMA LinkPlacesKept ==
    ASSUME TypeInv, Places, Next
    PROVE  LinkPlaces'
<1>0. StudioOK /\ epoch # None /\ Places /\ LinkPlaces /\ None \notin Conns
  BY Sizes DEF TypeInv, StateOK, Places
<1>1. ASSUME link' # None
      PROVE  conn'[link'].epoch # None
  <2>1. CASE \E c \in Conns : Open(c)
    <3>1. PICK c \in Conns : Open(c)
      BY <2>1
    <3>2. link' = c /\ conn'[c].epoch \in {Other} \cup 1 .. epoch
      BY <3>1, OpenedIs
    <3> QED
      BY <3>2, Sizes
  <2>2. CASE ~(\E c \in Conns : Open(c))
    <3>1. link' = link
      <4>1. ASSUME NEW d \in Conns, Accept(d) \/ Forget(d)
            PROVE  link' = link
        BY <4>1 DEF Accept, Forget, studio
      <4> QED
        BY <1>1, <2>2, <4>1, NextKin, DroppedIs
    <3>2. link \in Conns /\ conn[link].epoch # None
      BY <1>0, <1>1, <3>1 DEF StudioOK, LinkPlaces
    <3>3. ~Forget(link)
      BY <3>2, ForgottenIs
    <3> QED
      BY <3>1, <3>2, <3>3, EpochKept
  <2> QED
    BY <2>1, <2>2
<1>2. ready' => sync'.held # None
  <2>1. CASE UNCHANGED <<ready, sync>>
    BY <1>0, <2>1 DEF LinkPlaces
  <2>2. CASE Take
    <3> DEFINE p == Head(conn[link].pipe)
    <3>1. p \in Packets /\ HeldBy(p, ready, sync.held, ready', sync'.held)
      BY <2>2, TakeEffect
    <3>2. TellsState(p) => p.gen # None
      BY <3>1, PacketFields, Sizes
    <3> HIDE DEF p
    <3> QED
      BY <1>0, <3>1, <3>2 DEF HeldBy, LinkPlaces, TellsState, Packets
  <2>3. CASE Datagrams
    <3>1. count \in Count /\ count # None /\ Fresh \in Sync
      BY SyncKept, Sizes DEF TypeInv, StateOK, StudioOK
    <3> QED
      BY <2>3, <3>1, HeldIs DEF Datagrams
  <2> QED
    BY <2>1, <2>2, <2>3 DEF Next, Streams, Listener, Engines, Publishers, Studio,
         studio, model, Drop, Accept, Read, ReadEnds, Write, Reset, Forget,
         ReceiverEnds, AcceptorEnds, Stop, Leave, Bind, BindStream, LiveChange,
         PublishEvent, Telemetry, Poll, Timeout, Register, Refresh, Reply,
         Heartbeat, SendAnswer, ControlPublished, PublishControl, ControlBumped,
         ControlRefused, Synchronise, Open, BackoffEnds, StreamClosed,
         NotAnEngine, AckTimeout, SendHeartbeat, RegisterAgain, RetryDue,
         SendControl, SendSync
<1>3. ASSUME step'.do = "answer"
      PROVE  \/ step'.answer.kind = "ack" /\ step'.answer.epoch = epoch'
             \/ step'.answer.kind = "unknown"
  <2>1. CASE Bind
    BY <1>3, <2>1 DEF Bind, Places, IdleOK
  <2>2. CASE ~Bind
    <3>1. epoch' = epoch
      BY <2>2, NumbersMove
    <3>2. CASE Heartbeat
      BY <1>3, <3>1, <3>2 DEF Heartbeat, Then
    <3>3. CASE ~Heartbeat
      <4>1. step' = step
        <5>1. CASE Streams
          BY <5>1 DEF Streams, Accept, Read, ReadEnds, Write, Reset, Forget,
               ReceiverEnds, AcceptorEnds
        <5>2. CASE Listener
          <6>1. step'.do # "answer"
            BY <3>3, <5>2 DEF Listener, Then, Poll, Timeout, Register, Refresh,
                 Reply, SendAnswer, ControlPublished, PublishControl,
                 ControlBumped, ControlRefused, Synchronise
          <6> QED
            BY <1>3, <6>1
        <5>3. CASE Engines \/ Publishers
          BY <1>3, <2>2, <5>3 DEF Engines, Publishers, Stop, Leave, BindStream,
               LiveChange, PublishEvent, Telemetry
        <5>4. CASE Studio
          BY <5>4 DEF Studio, Drop, Open, BackoffEnds, Datagrams, Take,
               StreamClosed, NotAnEngine, AckTimeout, SendHeartbeat,
               RegisterAgain, RetryDue, SendControl, SendSync
        <5> QED
          BY <5>1, <5>2, <5>3, <5>4 DEF Next
      <4> QED
        BY <1>0, <1>3, <3>1, <4>1 DEF LinkPlaces
    <3> QED
      BY <3>2, <3>3
  <2> QED
    BY <2>1, <2>2
<1> QED
  BY <1>1, <1>2, <1>3 DEF LinkPlaces

LEMMA PlacesKept ==
    ASSUME TypeInv, Places, [Next]_vars
    PROVE  Places'
<1>1. CASE Next
  BY <1>1, ConnPlacesKept, ReferredKept, PortPlacesKept, IdleKept, LinkPlacesKept
       DEF Places
<1>2. CASE UNCHANGED vars
  BY <1>2 DEF vars, state, port, studio, model, tally, Places, IdleOK, ConnPlaces,
       Referred, Refers, PortPlaces, LinkPlaces
<1> QED
  BY <1>1, <1>2

LEMMA InitPlaces ==
    ASSUME Init
    PROVE  Places
<1>1. <<>> \in Seq(0 .. truth) /\ Len(<<>>) = 0
  BY EmptySeq
<1>2. /\ \A c \in Conns : conn[c] = Unused
      /\ epoch = 1 /\ truth = 1 /\ registry = {} /\ inbox = <<>> /\ step = [do |-> "left"]
      /\ link = None /\ ready = FALSE /\ streamPort \in {None, Other}
  BY DEF Init
<1>3. epoch # None /\ epoch # Other
  BY <1>2, Sizes
<1>4. IdleOK /\ Referred /\ PortPlaces /\ LinkPlaces
  BY <1>1, <1>2, <1>3 DEF IdleOK, Referred, Refers, PortPlaces, LinkPlaces, Unused
<1>5. ConnPlaces
  <2>1. Unused.epoch = None /\ ~Unused.accepted /\ Unused.said = <<>>
    BY DEF Unused
  <2> QED
    BY <1>1, <1>2, <2>1 DEF ConnPlaces, PlaceOK
<1> QED
  BY <1>4, <1>5 DEF Places

-----------------------------------------------------------------------------
(* What is on its way to Studio: it grows at the end, is taken from the    *)
(* front, and is cut off when the connection ends.                         *)

Cut(s, t) == Len(t) <= Len(s) /\ \A i \in 1 .. Len(t) : t[i] = s[i]
Grown(s, t, p) ==
    /\ Len(t) = Len(s) + 1 /\ t[Len(s) + 1] = p
    /\ \A i \in 1 .. Len(s) : t[i] = s[i]
Shifted(s, t) ==
    /\ Len(s) = Len(t) + 1
    /\ \A i \in 1 .. Len(t) : t[i] = s[i + 1]

LEMMA ComingOK ==
    ASSUME NEW r, ConnOK(r)
    PROVE  /\ Coming(r) \in Seq(Packets) /\ Len(Coming(r)) \in Nat
           /\ r.pipe \in Seq(Packets) /\ r.outbox \in Seq(Packets)
           /\ \A i \in 1 .. Len(Coming(r)) : Coming(r)[i] \in Packets
           /\ DOMAIN Coming(r) = 1 .. Len(Coming(r))
<1>1. r.pipe \in Seq(Packets) /\ r.outbox \in Seq(Packets)
  BY DEF ConnOK, Conn
<1>2. Coming(r) \in Seq(Packets)
  BY <1>1, ConcatProperties DEF Coming
<1> QED
  BY <1>1, <1>2, LenProperties, ElementOfSeq

\* Two queues that share the first.
LEMMA CutQueue ==
    ASSUME NEW r, NEW q, ConnOK(r), ConnOK(q), q.pipe = r.pipe, q.outbox = <<>>
    PROVE  Cut(Coming(r), Coming(q))
<1>1. /\ r.pipe \in Seq(Packets) /\ r.outbox \in Seq(Packets)
      /\ Len(r.pipe) \in Nat /\ Len(r.outbox) \in Nat
  BY ComingOK, LenProperties
<1>2. Coming(q) = r.pipe
  BY <1>1, ConcatEmptySeq DEF Coming
<1> DEFINE m == Len(r.pipe)
           n == Len(r.outbox)
<1>3. /\ Len(Coming(r)) = m + n
      /\ \A i \in 1 .. m + n : Coming(r)[i] = IF i <= m THEN r.pipe[i] ELSE r.outbox[i - m]
  BY <1>1, ConcatProperties DEF Coming
<1>4. m \in Nat /\ n \in Nat /\ Len(Coming(q)) = m
  BY <1>1, <1>2
<1> HIDE DEF m, n
<1>5. m <= Len(Coming(r)) /\ \A i \in 1 .. m : Coming(r)[i] = r.pipe[i]
  BY <1>3, <1>4
<1> QED
  BY <1>2, <1>4, <1>5 DEF Cut

\* A packet pushed.
LEMMA PushComing ==
    ASSUME NEW r, ConnOK(r), NEW p \in Packets
    PROVE  LET q == Push(r, p)
           IN  \/ q = r /\ (r.closed \/ p.kind = "telemetry")
               \/ ~r.closed /\ q.closed = r.closed /\ Grown(Coming(r), Coming(q), p)
               \/ q.closed /\ Cut(Coming(r), Coming(q))
<1> DEFINE q == Push(r, p)
<1>1. ConnOK(q) /\ q.pipe = r.pipe
  BY PushIs, PushKeeps
<1>2. \/ q = r /\ (r.closed \/ p.kind = "telemetry")
      \/ q = [r EXCEPT !.outbox = Append(r.outbox, p)] /\ ~r.closed
      \/ q = [r EXCEPT !.closed = TRUE, !.outbox = <<>>]
  BY PushIs
<1> HIDE DEF q
<1>3. CASE q = [r EXCEPT !.outbox = Append(r.outbox, p)] /\ ~r.closed
  <2>1. q.outbox = Append(r.outbox, p) /\ q.closed = r.closed
    BY <1>3 DEF ConnOK, Conn
  <2>2. /\ r.pipe \in Seq(Packets) /\ r.outbox \in Seq(Packets)
        /\ Append(r.outbox, p) \in Seq(Packets)
        /\ Len(Append(r.outbox, p)) = Len(r.outbox) + 1
        /\ \A i \in 1 .. Len(r.outbox) : Append(r.outbox, p)[i] = r.outbox[i]
        /\ Append(r.outbox, p)[Len(r.outbox) + 1] = p
        /\ Len(r.pipe) \in Nat /\ Len(r.outbox) \in Nat
    BY ComingOK, AppendProperties, LenProperties
  <2> DEFINE a == Append(r.outbox, p)
             m == Len(r.pipe)
             n == Len(r.outbox)
  <2>3. /\ Len(Coming(r)) = m + n
        /\ \A i \in 1 .. m + n : Coming(r)[i] = IF i <= m THEN r.pipe[i] ELSE r.outbox[i - m]
    BY <2>2, ConcatProperties DEF Coming
  <2>4. /\ Len(Coming(q)) = m + Len(a)
        /\ \A i \in 1 .. m + Len(a) : Coming(q)[i] = IF i <= m THEN r.pipe[i] ELSE a[i - m]
    <3>1. Coming(q) = r.pipe \o a
      BY <1>1, <2>1 DEF Coming
    <3>2. a \in Seq(Packets) /\ r.pipe \in Seq(Packets)
      BY <2>2
    <3> HIDE DEF a
    <3> QED
      BY <3>1, <3>2, ConcatProperties
  <2>5. Len(a) = n + 1 /\ m \in Nat /\ n \in Nat /\ a[n + 1] = p
        /\ \A i \in 1 .. n : a[i] = r.outbox[i]
    BY <2>2
  <2> HIDE DEF a, m, n
  <2>6. Grown(Coming(r), Coming(q), p)
    BY <2>3, <2>4, <2>5 DEF Grown
  <2> QED
    BY <1>3, <2>1, <2>6 DEF q
<1>4. CASE q = [r EXCEPT !.closed = TRUE, !.outbox = <<>>]
  <2>1. q.closed /\ q.outbox = <<>>
    BY <1>4 DEF ConnOK, Conn
  <2> QED
    BY <1>1, <2>1, CutQueue DEF q
<1> QED
  BY <1>2, <1>3, <1>4 DEF q

\* A packet taken.
LEMMA FollowedComing ==
    ASSUME NEW r, ConnOK(r), r.pipe # <<>>, NEW b, NEW d
    PROVE  /\ Shifted(Coming(r), Coming(Followed(r, b, d)))
           /\ Coming(r)[1] = Head(r.pipe) /\ Len(Coming(r)) > 0
<1> DEFINE q == Followed(r, b, d)
<1>1. ConnOK(q) /\ q.pipe = Tail(r.pipe) /\ q.outbox = r.outbox
  BY FollowedIs
<1> HIDE DEF q
<1>2. /\ r.pipe \in Seq(Packets) /\ r.outbox \in Seq(Packets)
      /\ Tail(r.pipe) \in Seq(Packets) /\ Len(Tail(r.pipe)) = Len(r.pipe) - 1
      /\ \A i \in 1 .. Len(Tail(r.pipe)) : Tail(r.pipe)[i] = r.pipe[i + 1]
      /\ Len(r.pipe) \in Nat \ {0} /\ Len(r.outbox) \in Nat
  BY ComingOK, HeadTailProperties, LenProperties, EmptySeq
<1> DEFINE a == Tail(r.pipe)
           m == Len(r.pipe)
           n == Len(r.outbox)
<1>3. /\ Len(Coming(r)) = m + n
      /\ \A i \in 1 .. m + n : Coming(r)[i] = IF i <= m THEN r.pipe[i] ELSE r.outbox[i - m]
  BY <1>2, ConcatProperties DEF Coming
<1>4. /\ Len(Coming(q)) = Len(a) + n
      /\ \A i \in 1 .. Len(a) + n :
            Coming(q)[i] = IF i <= Len(a) THEN a[i] ELSE r.outbox[i - Len(a)]
  <2>1. Coming(q) = a \o r.outbox
    BY <1>1 DEF Coming
  <2>2. a \in Seq(Packets) /\ r.outbox \in Seq(Packets)
    BY <1>2
  <2> HIDE DEF a
  <2> QED
    BY <2>1, <2>2, ConcatProperties
<1>5. /\ Len(a) = m - 1 /\ m \in Nat \ {0} /\ n \in Nat
      /\ \A i \in 1 .. Len(a) : a[i] = r.pipe[i + 1]
  BY <1>2
<1>6. Head(r.pipe) = r.pipe[1]
  BY <1>2
<1> HIDE DEF a, m, n
<1>7. Shifted(Coming(r), Coming(q))
  BY <1>3, <1>4, <1>5 DEF Shifted
<1>8. Coming(r)[1] = r.pipe[1] /\ Len(Coming(r)) > 0
  BY <1>3, <1>5
<1> QED
  BY <1>6, <1>7, <1>8 DEF q

\* A packet written.
LEMMA WrittenComing ==
    ASSUME NEW r, ConnOK(r), r.outbox # <<>>, NEW q, ConnOK(q),
           q.outbox = Tail(r.outbox), q.pipe = Append(r.pipe, Head(r.outbox))
    PROVE  Coming(q) = Coming(r)
<1>1. /\ r.pipe \in Seq(Packets) /\ r.outbox \in Seq(Packets)
      /\ Head(r.outbox) = r.outbox[1] /\ r.outbox[1] \in Packets
      /\ Len(r.pipe) \in Nat /\ Len(r.outbox) \in Nat \ {0}
      /\ Coming(q) \in Seq(Packets) /\ Coming(r) \in Seq(Packets)
  BY ComingOK, HeadTailProperties, LenProperties, EmptySeq
<1> DEFINE a == Append(r.pipe, r.outbox[1])
           b == Tail(r.outbox)
           m == Len(r.pipe)
           n == Len(r.outbox)
<1>2. /\ a \in Seq(Packets) /\ Len(a) = m + 1 /\ a[m + 1] = r.outbox[1]
      /\ \A i \in 1 .. m : a[i] = r.pipe[i]
  BY <1>1, AppendProperties
<1>3. /\ b \in Seq(Packets) /\ Len(b) = n - 1 /\ \A i \in 1 .. n - 1 : b[i] = r.outbox[i + 1]
  BY <1>1, HeadTailProperties
<1>4. /\ Len(Coming(r)) = m + n
      /\ \A i \in 1 .. m + n : Coming(r)[i] = IF i <= m THEN r.pipe[i] ELSE r.outbox[i - m]
  BY <1>1, ConcatProperties DEF Coming
<1>5. /\ Len(Coming(q)) = Len(a) + Len(b)
      /\ \A i \in 1 .. Len(a) + Len(b) : Coming(q)[i] = IF i <= Len(a) THEN a[i] ELSE b[i - Len(a)]
  <2>1. Coming(q) = a \o b
    BY <1>1 DEF Coming
  <2>2. a \in Seq(Packets) /\ b \in Seq(Packets)
    BY <1>2, <1>3
  <2> HIDE DEF a, b
  <2> QED
    BY <2>1, <2>2, ConcatProperties
<1>6. m \in Nat /\ n \in Nat \ {0}
  BY <1>1
<1> HIDE DEF a, b, m, n
<1>7. Len(Coming(q)) = Len(Coming(r))
  BY <1>2, <1>3, <1>4, <1>5, <1>6
<1>8. ASSUME NEW i \in 1 .. Len(Coming(q))
      PROVE  Coming(q)[i] = Coming(r)[i]
  <2>0. /\ i \in 1 .. m + n /\ m \in Nat /\ n \in Nat \ {0}
        /\ Coming(r)[i] = IF i <= m THEN r.pipe[i] ELSE r.outbox[i - m]
        /\ Coming(q)[i] = IF i <= m + 1 THEN a[i] ELSE b[i - (m + 1)]
    BY <1>2, <1>3, <1>4, <1>5, <1>6
  <2>1. CASE i <= m
    BY <1>2, <2>0, <2>1
  <2>2. CASE i = m + 1
    BY <1>2, <2>0, <2>2
  <2>3. CASE i > m + 1
    <3>1. i - (m + 1) \in 1 .. n - 1 /\ i - (m + 1) + 1 = i - m
      BY <2>0, <2>3
    <3>2. b[i - (m + 1)] = r.outbox[i - m]
      BY <1>3, <3>1
    <3> QED
      BY <2>0, <2>3, <3>2
  <2> QED
    BY <1>6, <2>1, <2>2, <2>3
<1> QED
  BY <1>1, <1>7, <1>8, SeqEqual

\* Studio knows, by the packet j, that the engine e is the one it is linked to.
Known(s, h, e, j) == h = e \/ \E i \in 1 .. Len(s) : i < j /\ s[i].kind = "ack"

\* What control k came to, the version x or a refusal, is known by the packet j.
Refused(s, ref, k, j) ==
    k \in ref \/ \E i \in 1 .. Len(s) : i < j /\ s[i].kind = "error" /\ s[i].of = k
Applied(s, v, h, e, x, j) ==
    \/ x <= v /\ h = e
    \/ \E i \in 1 .. Len(s) :
          i < j /\ TellsState(s[i]) /\ x <= s[i].val /\ Known(s, h, e, i)
Reached(s, v, h, ref, e, x, k, j) ==
    IF x = 0 THEN Refused(s, ref, k, j) ELSE Applied(s, v, h, e, x, j)

\* What is on its way is of the one engine e, in the order it was published in,
\* and a barrier comes after all it speaks of.
Ordered(s, e, v, top) ==
    /\ \A i \in 1 .. Len(s) : TellsState(s[i]) => v <= s[i].val /\ s[i].val <= top
    /\ \A i \in 1 .. Len(s) : s[i].kind = "ack" => s[i].epoch = e
    /\ \A i, j \in 1 .. Len(s) :
          i < j /\ TellsState(s[i]) /\ TellsState(s[j]) => s[i].val <= s[j].val
Barriers(s, e, v, said, h, ref) ==
    \A i \in 1 .. Len(s) :
        s[i].kind = "synced" =>
            /\ s[i].sent <= Len(said)
            /\ \A k \in 1 .. s[i].sent : Reached(s, v, h, ref, e, said[k], k, i)

\* The same beginning tells the same.
Agree(s, t, n) ==
    n <= Len(s) /\ n <= Len(t) /\ \A i \in 1 .. n : t[i] = s[i]

LEMMA KnownAgrees ==
    ASSUME NEW s \in Seq(Packets), NEW t \in Seq(Packets), NEW n \in Nat, Agree(s, t, n),
           NEW h, NEW e, NEW j \in Nat, NEW j2 \in Nat, j <= n + 1, j <= j2, Known(s, h, e, j)
    PROVE  Known(t, h, e, j2)
<1>0. Len(s) \in Nat /\ Len(t) \in Nat
  BY LenProperties
<1> QED
  BY <1>0 DEF Known, Agree

LEMMA ReachedAgrees ==
    ASSUME NEW s \in Seq(Packets), NEW t \in Seq(Packets), NEW n \in Nat, Agree(s, t, n),
           NEW v, NEW h, NEW ref, NEW e, NEW x, NEW k, NEW j \in Nat, NEW j2 \in Nat,
           j <= n + 1, j <= j2, Reached(s, v, h, ref, e, x, k, j)
    PROVE  Reached(t, v, h, ref, e, x, k, j2)
<1>0. Len(s) \in Nat /\ Len(t) \in Nat
  BY LenProperties
<1>1. CASE x = 0
  <2>1. Refused(s, ref, k, j)
    BY <1>1 DEF Reached
  <2>2. Refused(t, ref, k, j2)
    BY <1>0, <2>1 DEF Refused, Agree
  <2> QED
    BY <1>1, <2>2 DEF Reached
<1>2. CASE x # 0
  <2>1. Applied(s, v, h, e, x, j)
    BY <1>2 DEF Reached
  <2>2. CASE x <= v /\ h = e
    BY <1>2, <2>2 DEF Reached, Applied
  <2>3. CASE \E i \in 1 .. Len(s) :
                i < j /\ TellsState(s[i]) /\ x <= s[i].val /\ Known(s, h, e, i)
    <3>1. PICK i \in 1 .. Len(s) :
              i < j /\ TellsState(s[i]) /\ x <= s[i].val /\ Known(s, h, e, i)
      BY <2>3
    <3>2. i \in Nat /\ i <= n /\ i < j2 /\ i \in 1 .. Len(t) /\ t[i] = s[i] /\ i <= n + 1
      BY <1>0, <3>1 DEF Agree
    <3>3. Known(t, h, e, i)
      BY <3>1, <3>2, KnownAgrees
    <3>4. i < j2 /\ TellsState(t[i]) /\ x <= t[i].val /\ Known(t, h, e, i)
      BY <3>1, <3>2, <3>3
    <3> QED
      BY <1>2, <3>2, <3>4 DEF Reached, Applied
  <2> QED
    BY <2>1, <2>2, <2>3 DEF Applied
<1> QED
  BY <1>1, <1>2

\* The beginning of what is on its way.
LEMMA CutKeeps ==
    ASSUME NEW s \in Seq(Packets), NEW t \in Seq(Packets), Cut(s, t),
           NEW e, NEW v, NEW top, NEW said, NEW h, NEW ref,
           Ordered(s, e, v, top), Barriers(s, e, v, said, h, ref)
    PROVE  Ordered(t, e, v, top) /\ Barriers(t, e, v, said, h, ref)
<1>0. Len(s) \in Nat /\ Len(t) \in Nat /\ 1 .. Len(t) \subseteq 1 .. Len(s)
      /\ \A i \in 1 .. Len(t) : t[i] = s[i]
  BY LenProperties DEF Cut
<1>1. Ordered(t, e, v, top)
  BY <1>0 DEF Ordered
<1>2. Agree(s, t, Len(t))
  BY <1>0 DEF Agree, Cut
<1>3. ASSUME NEW i \in 1 .. Len(t), t[i].kind = "synced"
      PROVE  /\ t[i].sent <= Len(said)
             /\ \A k \in 1 .. t[i].sent : Reached(t, v, h, ref, e, said[k], k, i)
  <2>1. /\ t[i] = s[i] /\ t[i].sent <= Len(said) /\ i \in Nat /\ i <= Len(t) + 1
        /\ \A k \in 1 .. t[i].sent : Reached(s, v, h, ref, e, said[k], k, i)
    BY <1>0, <1>3 DEF Barriers
  <2> QED
    BY <1>0, <1>2, <2>1, ReachedAgrees
<1> QED
  BY <1>1, <1>3 DEF Barriers

\* More controls are spoken of, and the state moves on.
LEMMA SaidKeeps ==
    ASSUME NEW s \in Seq(Packets), NEW e, NEW v, NEW said \in Seq(Nat), NEW x \in Nat,
           NEW h, NEW ref, Barriers(s, e, v, said, h, ref)
    PROVE  Barriers(s, e, v, Append(said, x), h, ref)
<1>1. /\ Len(Append(said, x)) = Len(said) + 1 /\ Len(said) \in Nat
      /\ \A k \in 1 .. Len(said) : Append(said, x)[k] = said[k]
  BY AppendProperties, LenProperties
<1>2. ASSUME NEW i \in 1 .. Len(s), s[i].kind = "synced"
      PROVE  /\ s[i].sent <= Len(Append(said, x))
             /\ \A k \in 1 .. s[i].sent : Reached(s, v, h, ref, e, Append(said, x)[k], k, i)
  <2>1. /\ s[i].sent <= Len(said) /\ s[i].sent \in Nat
        /\ \A k \in 1 .. s[i].sent : Reached(s, v, h, ref, e, said[k], k, i)
    BY <1>2, ElementOfSeq, PacketFields DEF Barriers
  <2>2. 1 .. s[i].sent \subseteq 1 .. Len(said)
    BY <1>1, <2>1
  <2> QED
    BY <1>1, <2>1, <2>2
<1> QED
  BY <1>2 DEF Barriers

LEMMA TopKeeps ==
    ASSUME NEW s \in Seq(Packets), NEW e, NEW v, NEW top \in Nat, NEW top2 \in Nat, top <= top2,
           Ordered(s, e, v, top)
    PROVE  Ordered(s, e, v, top2)
<1>1. ASSUME NEW i \in 1 .. Len(s), TellsState(s[i])
      PROVE  s[i].val <= top2
  <2>1. s[i].val \in Nat /\ s[i].val <= top
    BY <1>1, ElementOfSeq, PacketFields DEF Ordered
  <2> QED
    BY <2>1
<1> QED
  BY <1>1 DEF Ordered

\* A packet is pushed.
LEMMA GrownOrdered ==
    ASSUME NEW s \in Seq(Packets), NEW t \in Seq(Packets), NEW p \in Packets, Grown(s, t, p),
           NEW e, NEW v \in Nat, NEW top \in Nat, v <= top, Ordered(s, e, v, top),
           TellsState(p) => p.val = top, p.kind = "ack" => p.epoch = e
    PROVE  Ordered(t, e, v, top)
<1>0. /\ Len(s) \in Nat /\ Len(t) = Len(s) + 1
      /\ \A i \in 1 .. Len(t) : (i \in 1 .. Len(s) /\ t[i] = s[i])
                                 \/ (i = Len(s) + 1 /\ t[i] = p)
  BY LenProperties DEF Grown
<1>1. ASSUME NEW i \in 1 .. Len(t), TellsState(t[i])
      PROVE  v <= t[i].val /\ t[i].val <= top
  BY <1>0, <1>1 DEF Ordered
<1>2. ASSUME NEW i \in 1 .. Len(t), t[i].kind = "ack"
      PROVE  t[i].epoch = e
  BY <1>0, <1>2 DEF Ordered
<1>3. ASSUME NEW i \in 1 .. Len(t), NEW j \in 1 .. Len(t), i < j,
             TellsState(t[i]), TellsState(t[j])
      PROVE  t[i].val <= t[j].val
  BY <1>0, <1>1, <1>3 DEF Ordered
<1> QED
  BY <1>1, <1>2, <1>3 DEF Ordered

LEMMA GrownReached ==
    ASSUME NEW s \in Seq(Packets), NEW t \in Seq(Packets), NEW p, Grown(s, t, p),
           NEW v, NEW h, NEW ref, NEW e, NEW x, NEW k, NEW j \in Nat, NEW j2 \in Nat,
           j <= Len(s) + 1, j <= j2, Reached(s, v, h, ref, e, x, k, j)
    PROVE  Reached(t, v, h, ref, e, x, k, j2)
<1>1. Len(s) \in Nat /\ Agree(s, t, Len(s))
  BY LenProperties DEF Grown, Agree
<1> QED
  BY <1>1, ReachedAgrees

LEMMA GrownBarriers ==
    ASSUME NEW s \in Seq(Packets), NEW t \in Seq(Packets), NEW p \in Packets, Grown(s, t, p),
           NEW e, NEW v, NEW said, NEW h, NEW ref, Barriers(s, e, v, said, h, ref),
           p.kind = "synced" =>
               /\ p.sent <= Len(said)
               /\ \A k \in 1 .. p.sent : Reached(s, v, h, ref, e, said[k], k, Len(s) + 1)
    PROVE  Barriers(t, e, v, said, h, ref)
<1>0. /\ Len(s) \in Nat /\ Len(t) = Len(s) + 1
      /\ \A i \in 1 .. Len(t) : (i \in 1 .. Len(s) /\ t[i] = s[i])
                                 \/ (i = Len(s) + 1 /\ t[i] = p)
  BY LenProperties DEF Grown
<1>1. ASSUME NEW i \in 1 .. Len(t), t[i].kind = "synced"
      PROVE  /\ t[i].sent <= Len(said)
             /\ \A k \in 1 .. t[i].sent : Reached(t, v, h, ref, e, said[k], k, i)
  <2>1. /\ t[i].sent <= Len(said) /\ i \in Nat /\ i <= Len(s) + 1
        /\ \A k \in 1 .. t[i].sent : Reached(s, v, h, ref, e, said[k], k, i)
    BY <1>0, <1>1 DEF Barriers
  <2> QED
    BY <2>1, GrownReached
<1> QED
  BY <1>1 DEF Barriers

\* A packet is taken.
LEMMA ShiftedIs ==
    ASSUME NEW s \in Seq(Packets), NEW t \in Seq(Packets), Shifted(s, t)
    PROVE  /\ Len(s) \in Nat \ {0} /\ Len(t) \in Nat /\ Len(s) = Len(t) + 1
           /\ s[1] \in Packets
           /\ \A i \in 1 .. Len(t) : i + 1 \in 1 .. Len(s) /\ t[i] = s[i + 1]
           /\ \A i \in 2 .. Len(s) : i - 1 \in 1 .. Len(t) /\ t[i - 1] = s[i]
<1>1. Len(s) \in Nat /\ Len(t) \in Nat /\ Len(s) = Len(t) + 1
      /\ \A i \in 1 .. Len(t) : t[i] = s[i + 1]
  BY LenProperties DEF Shifted
<1>2. s[1] \in Packets
  BY <1>1, ElementOfSeq
<1>3. \A i \in 2 .. Len(s) : i - 1 \in 1 .. Len(t) /\ t[i - 1] = s[i]
  <2>1. ASSUME NEW i \in 2 .. Len(s)
        PROVE  i - 1 \in 1 .. Len(t) /\ t[i - 1] = s[i]
    <3>1. i - 1 \in 1 .. Len(t) /\ (i - 1) + 1 = i
      BY <1>1
    <3> QED
      BY <1>1, <3>1
  <2> QED
    BY <2>1
<1> QED
  BY <1>1, <1>2, <1>3

LEMMA TakenKnown ==
    ASSUME NEW s \in Seq(Packets), NEW t \in Seq(Packets), Shifted(s, t),
           NEW e, NEW v, NEW h, NEW ref, NEW v2, NEW h2, NEW ref2,
           TakenBy(s[1], v, h, ref, v2, h2, ref2), s[1].kind = "ack" => s[1].epoch = e,
           NEW j \in Nat, j >= 2, Known(s, h, e, j)
    PROVE  Known(t, h2, e, j - 1)
<1>1. CASE h = e
  BY <1>1 DEF Known, TakenBy, TellsState
<1>2. CASE \E i \in 1 .. Len(s) : i < j /\ s[i].kind = "ack"
  <2>1. PICK i \in 1 .. Len(s) : i < j /\ s[i].kind = "ack"
    BY <1>2
  <2>2. CASE i = 1
    BY <2>1, <2>2 DEF Known, TakenBy
  <2>3. CASE i # 1
    <3>1. i \in 2 .. Len(s) /\ i - 1 < j - 1
      BY <2>1, <2>3, ShiftedIs
    <3>2. i - 1 \in 1 .. Len(t) /\ t[i - 1].kind = "ack"
      BY <2>1, <3>1, ShiftedIs
    <3> QED
      BY <3>1, <3>2 DEF Known
  <2> QED
    BY <2>2, <2>3
<1> QED
  BY <1>1, <1>2 DEF Known

LEMMA TakenReached ==
    ASSUME NEW s \in Seq(Packets), NEW t \in Seq(Packets), Shifted(s, t),
           NEW e, NEW v \in Nat, NEW h, NEW ref, NEW v2 \in Nat, NEW h2, NEW ref2, NEW top,
           TakenBy(s[1], v, h, ref, v2, h2, ref2), Ordered(s, e, v, top),
           NEW x \in Nat, NEW k, NEW j \in Nat, j >= 2, Reached(s, v, h, ref, e, x, k, j)
    PROVE  Reached(t, v2, h2, ref2, e, x, k, j - 1)
<1>0. /\ Len(s) \in Nat \ {0} /\ s[1] \in Packets
      /\ s[1].kind = "ack" => s[1].epoch = e
      /\ TellsState(s[1]) => v <= s[1].val /\ s[1].val \in Nat
  BY ShiftedIs, PacketFields DEF Ordered
<1>1. CASE x = 0
  <2>1. Refused(s, ref, k, j)
    BY <1>1 DEF Reached
  <2>2. CASE k \in ref
    <3>1. k \in ref2
      BY <2>2 DEF TakenBy, TellsState
    <3> QED
      BY <1>1, <3>1 DEF Reached, Refused
  <2>3. CASE \E i \in 1 .. Len(s) : i < j /\ s[i].kind = "error" /\ s[i].of = k
    <3>1. PICK i \in 1 .. Len(s) : i < j /\ s[i].kind = "error" /\ s[i].of = k
      BY <2>3
    <3>2. CASE i = 1
      <4>1. k \in ref2
        BY <3>1, <3>2 DEF TakenBy
      <4> QED
        BY <1>1, <4>1 DEF Reached, Refused
    <3>3. CASE i # 1
      <4>1. i \in 2 .. Len(s) /\ i - 1 < j - 1
        BY <3>1, <3>3, <1>0
      <4>2. i - 1 \in 1 .. Len(t) /\ t[i - 1].kind = "error" /\ t[i - 1].of = k
        BY <3>1, <4>1, ShiftedIs
      <4> QED
        BY <1>1, <4>1, <4>2 DEF Reached, Refused
    <3> QED
      BY <3>2, <3>3
  <2> QED
    BY <2>1, <2>2, <2>3 DEF Refused
<1>2. CASE x # 0
  <2>1. Applied(s, v, h, e, x, j)
    BY <1>2 DEF Reached
  <2>2. CASE x <= v /\ h = e
    <3>1. h2 = e
      BY <1>0, <2>2 DEF TakenBy, TellsState
    <3>2. x <= v2
      <4>1. CASE TellsState(s[1])
        BY <1>0, <2>2, <4>1 DEF TakenBy
      <4>2. CASE ~TellsState(s[1])
        BY <1>0, <2>2, <4>2 DEF TakenBy
      <4> QED
        BY <4>1, <4>2
    <3> QED
      BY <1>2, <3>1, <3>2 DEF Reached, Applied
  <2>3. CASE \E i \in 1 .. Len(s) :
                i < j /\ TellsState(s[i]) /\ x <= s[i].val /\ Known(s, h, e, i)
    <3>1. PICK i \in 1 .. Len(s) :
              i < j /\ TellsState(s[i]) /\ x <= s[i].val /\ Known(s, h, e, i)
      BY <2>3
    <3>2. CASE i = 1
      <4>1. h = e
        BY <3>1, <3>2 DEF Known
      <4>2. v2 = s[1].val /\ h2 = h
        BY <3>1, <3>2 DEF TakenBy
      <4> QED
        BY <1>2, <3>1, <3>2, <4>1, <4>2 DEF Reached, Applied
    <3>3. CASE i # 1
      <4>1. i \in 2 .. Len(s) /\ i - 1 < j - 1 /\ i \in Nat /\ i >= 2
        BY <3>1, <3>3, <1>0
      <4>2. i - 1 \in 1 .. Len(t) /\ t[i - 1] = s[i]
        BY <4>1, ShiftedIs
      <4>3. Known(t, h2, e, i - 1)
        BY <1>0, <3>1, <4>1, TakenKnown
      <4>4. i - 1 < j - 1 /\ TellsState(t[i - 1]) /\ x <= t[i - 1].val
        BY <3>1, <4>1, <4>2
      <4> QED
        BY <1>2, <4>2, <4>3, <4>4 DEF Reached, Applied
    <3> QED
      BY <3>2, <3>3
  <2> QED
    BY <2>1, <2>2, <2>3 DEF Applied
<1> QED
  BY <1>1, <1>2

LEMMA TakenOrdered ==
    ASSUME NEW s \in Seq(Packets), NEW t \in Seq(Packets), Shifted(s, t),
           NEW e, NEW v \in Nat, NEW h, NEW ref, NEW v2 \in Nat, NEW h2, NEW ref2,
           NEW top \in Nat, v <= top,
           TakenBy(s[1], v, h, ref, v2, h2, ref2), Ordered(s, e, v, top)
    PROVE  Ordered(t, e, v2, top) /\ v2 <= top
<1>0. /\ Len(s) \in Nat \ {0} /\ s[1] \in Packets /\ 1 \in 1 .. Len(s)
      /\ TellsState(s[1]) => v <= s[1].val /\ s[1].val \in Nat /\ s[1].val <= top
      /\ \A i \in 1 .. Len(t) : /\ i + 1 \in 1 .. Len(s) /\ t[i] = s[i + 1] /\ 1 < i + 1
                                /\ TellsState(t[i]) => t[i].val \in Nat
  BY ShiftedIs, ElementOfSeq, PacketFields DEF Ordered
<1>1. (TellsState(s[1]) /\ v2 = s[1].val) \/ v2 = v \/ v2 = 0
  BY DEF TakenBy, TellsState
<1>2. ASSUME NEW i \in 1 .. Len(t), TellsState(t[i])
      PROVE  v2 <= t[i].val /\ t[i].val <= top
  <2>1. /\ i + 1 \in 1 .. Len(s) /\ 1 < i + 1 /\ t[i] = s[i + 1] /\ t[i].val \in Nat
    BY <1>0, <1>2
  <2>2. v <= t[i].val /\ t[i].val <= top
    BY <1>2, <2>1 DEF Ordered
  <2>3. TellsState(s[1]) => s[1].val <= t[i].val
    BY <1>0, <1>2, <2>1 DEF Ordered
  <2> QED
    BY <1>1, <2>1, <2>2, <2>3
<1>3. ASSUME NEW i \in 1 .. Len(t), t[i].kind = "ack"
      PROVE  t[i].epoch = e
  BY <1>0, <1>3 DEF Ordered
<1>4. ASSUME NEW i \in 1 .. Len(t), NEW j \in 1 .. Len(t), i < j,
             TellsState(t[i]), TellsState(t[j])
      PROVE  t[i].val <= t[j].val
  <2>1. i + 1 < j + 1
    BY <1>4
  <2> QED
    BY <1>0, <1>4, <2>1 DEF Ordered
<1>5. v2 <= top
  BY <1>0, <1>1
<1> QED
  BY <1>2, <1>3, <1>4, <1>5 DEF Ordered

LEMMA TakenBarriers ==
    ASSUME NEW s \in Seq(Packets), NEW t \in Seq(Packets), Shifted(s, t),
           NEW e, NEW v \in Nat, NEW h, NEW ref, NEW v2 \in Nat, NEW h2, NEW ref2, NEW top,
           TakenBy(s[1], v, h, ref, v2, h2, ref2), Ordered(s, e, v, top),
           NEW said \in Seq(Nat), Barriers(s, e, v, said, h, ref)
    PROVE  Barriers(t, e, v2, said, h2, ref2)
<1>1. ASSUME NEW i \in 1 .. Len(t), t[i].kind = "synced"
      PROVE  /\ t[i].sent <= Len(said)
             /\ \A k \in 1 .. t[i].sent : Reached(t, v2, h2, ref2, e, said[k], k, i)
  <2>1. /\ i + 1 \in 1 .. Len(s) /\ t[i] = s[i + 1] /\ i + 1 \in Nat /\ i + 1 >= 2
        /\ (i + 1) - 1 = i /\ t[i] \in Packets /\ t[i].sent \in Nat
    BY <1>1, ShiftedIs, ElementOfSeq, PacketFields
  <2>2. /\ t[i].sent <= Len(said)
        /\ \A k \in 1 .. t[i].sent : Reached(s, v, h, ref, e, said[k], k, i + 1)
    BY <1>1, <2>1 DEF Barriers
  <2>3. \A k \in 1 .. t[i].sent : said[k] \in Nat
    <3>1. Len(said) \in Nat
      BY LenProperties
    <3>2. \A k \in 1 .. t[i].sent : k \in 1 .. Len(said)
      BY <2>1, <2>2, <3>1
    <3> QED
      BY <3>2, ElementOfSeq
  <2>4. \A k \in 1 .. t[i].sent : Reached(t, v2, h2, ref2, e, said[k], k, (i + 1) - 1)
    BY <2>1, <2>2, <2>3, TakenReached
  <2> QED
    BY <2>1, <2>2, <2>4
<1> QED
  BY <1>1 DEF Barriers

-----------------------------------------------------------------------------
(* What is on its way to the listener, in the order it will take it: its   *)
(* channel, then what is still to be read from the connection.             *)

Tagged(c, up) == [k \in 1 .. Len(up) |-> [from |-> c, what |-> up[k]]]
WaitingIn(c, in, up) == in \o Tagged(c, up)
Waiting(c) == WaitingIn(c, inbox, conn[c].up)

LEMMA TaggedIs ==
    ASSUME NEW c \in Conns, NEW up \in Seq(Requests)
    PROVE  /\ Tagged(c, up) \in Seq(Entries) /\ Len(Tagged(c, up)) = Len(up)
           /\ Len(up) \in Nat
           /\ \A k \in 1 .. Len(up) : Tagged(c, up)[k] = [from |-> c, what |-> up[k]]
<1>1. Len(up) \in Nat /\ \A k \in 1 .. Len(up) : up[k] \in Requests
  BY LenProperties, ElementOfSeq
<1>2. \A k \in 1 .. Len(up) : Tagged(c, up)[k] = [from |-> c, what |-> up[k]]
  BY DEF Tagged
<1>3. Tagged(c, up) \in [1 .. Len(up) -> Entries]
  BY <1>1 DEF Tagged, Entries
<1>4. Tagged(c, up) \in Seq(Entries)
  BY <1>1, <1>3, SeqDef
<1>5. DOMAIN Tagged(c, up) = 1 .. Len(up)
  BY DEF Tagged
<1>6. Len(Tagged(c, up)) = Len(up)
  BY <1>1, <1>4, <1>5, LenProperties
<1> QED
  BY <1>1, <1>2, <1>4, <1>6

LEMMA WaitingIs ==
    ASSUME NEW c \in Conns, NEW in \in Seq(Entries), NEW up \in Seq(Requests)
    PROVE  LET w == WaitingIn(c, in, up)
               m == Len(in)
               n == Len(up)
           IN  /\ w \in Seq(Entries) /\ Len(w) = m + n /\ m \in Nat /\ n \in Nat
               /\ \A k \in 1 .. m : w[k] = in[k]
               /\ \A k \in 1 .. n : w[m + k] = [from |-> c, what |-> up[k]]
               /\ \A k \in 1 .. m + n : k <= m \/ (k - m \in 1 .. n /\ w[k] =
                                                    [from |-> c, what |-> up[k - m]])
<1> DEFINE t == Tagged(c, up)
           w == WaitingIn(c, in, up)
           m == Len(in)
           n == Len(up)
<1>1. t \in Seq(Entries) /\ Len(t) = n /\ n \in Nat /\ m \in Nat
      /\ \A k \in 1 .. n : t[k] = [from |-> c, what |-> up[k]]
  BY TaggedIs, LenProperties
<1>2. w = in \o t
  BY DEF WaitingIn
<1> HIDE DEF t, w
<1>3. /\ w \in Seq(Entries) /\ Len(w) = m + n
      /\ \A k \in 1 .. m + n : w[k] = IF k <= m THEN in[k] ELSE t[k - m]
  <2>1. Len(t) = n /\ t \in Seq(Entries)
    BY <1>1
  <2>2. /\ in \o t \in Seq(Entries) /\ Len(in \o t) = Len(in) + Len(t)
        /\ \A k \in 1 .. Len(in) + Len(t) :
              (in \o t)[k] = IF k <= Len(in) THEN in[k] ELSE t[k - Len(in)]
    BY <2>1, ConcatProperties
  <2> QED
    BY <1>2, <2>1, <2>2
<1> HIDE DEF m, n
<1>4. \A k \in 1 .. m : w[k] = in[k]
  BY <1>1, <1>3
<1>5. ASSUME NEW k \in 1 .. n
      PROVE  w[m + k] = [from |-> c, what |-> up[k]]
  <2>1. m + k \in 1 .. m + n /\ ~(m + k <= m) /\ (m + k) - m = k
    BY <1>1
  <2> QED
    BY <1>1, <1>3, <2>1
<1>6. ASSUME NEW k \in 1 .. m + n
      PROVE  k <= m \/ (k - m \in 1 .. n /\ w[k] = [from |-> c, what |-> up[k - m]])
  <2>1. k <= m \/ (k - m \in 1 .. n /\ ~(k <= m))
    BY <1>1
  <2> QED
    BY <1>1, <1>3, <2>1
<1> QED
  BY <1>1, <1>3, <1>4, <1>5, <1>6 DEF w, m, n

\* Those of one connection, and two queues that hold the same of it.
Ones(w, c) == {k \in 1 .. Len(w) : w[k].from = c}
Matches(w, t, c, f) ==
    /\ \A k \in Ones(w, c) : f[k] \in Ones(t, c) /\ t[f[k]] = w[k]
    /\ \A j, k \in Ones(w, c) : j < k => f[j] < f[k]
    /\ \A k \in Ones(t, c) : \E j \in Ones(w, c) : f[j] = k
Alike(w, t, c) == \E f : Matches(w, t, c, f)

\* One kind of request is there, before any of the others.
Leads(w, c, first, then) ==
    /\ \E k \in Ones(w, c) : w[k].what.kind = first
    /\ \A k \in Ones(w, c) : w[k].what.kind \in then =>
          \E j \in Ones(w, c) : j < k /\ w[j].what.kind = first

\* The controls m + 1 to n are there in this order, and each barrier comes after
\* those it speaks of.
Before(w, c, k, m, n) ==
    \A x \in m + 1 .. n :
        \E j \in Ones(w, c) : j < k /\ w[j].what.kind = "control" /\ w[j].what.number = x
Numbered(w, c, m, n) ==
    /\ m <= n /\ \A x \in m + 1 .. n :
          \E j \in Ones(w, c) : w[j].what.kind = "control" /\ w[j].what.number = x
    /\ \A k \in Ones(w, c) : w[k].what.kind = "control" =>
          /\ w[k].what.number \in m + 1 .. n
          /\ Before(w, c, k, m, w[k].what.number - 1)
    /\ \A k \in Ones(w, c) : w[k].what.kind = "sync" =>
          w[k].what.sent <= n /\ Before(w, c, k, m, w[k].what.sent)
    /\ \A j, k \in Ones(w, c) :
          j < k /\ w[j].what.kind = "control" /\ w[k].what.kind = "control" =>
              w[j].what.number < w[k].what.number

LEMMA AlikeLeads ==
    ASSUME NEW w, NEW t, NEW c, Alike(w, t, c), NEW first, NEW then, Leads(w, c, first, then)
    PROVE  Leads(t, c, first, then)
<1>1. PICK f : Matches(w, t, c, f)
  BY DEF Alike
<1>2. \E k \in Ones(t, c) : t[k].what.kind = first
  BY <1>1 DEF Matches, Leads
<1>3. ASSUME NEW k \in Ones(t, c), t[k].what.kind \in then
      PROVE  \E j \in Ones(t, c) : j < k /\ t[j].what.kind = first
  <2>1. PICK i \in Ones(w, c) : f[i] = k
    BY <1>1 DEF Matches
  <2>2. w[i].what.kind \in then
    BY <1>1, <1>3, <2>1 DEF Matches
  <2>3. PICK j \in Ones(w, c) : j < i /\ w[j].what.kind = first
    BY <2>2 DEF Leads
  <2>4. f[j] \in Ones(t, c) /\ f[j] < k /\ t[f[j]].what.kind = first
    BY <1>1, <2>1, <2>3 DEF Matches
  <2> QED
    BY <2>4
<1> QED
  BY <1>2, <1>3 DEF Leads

LEMMA AlikeBefore ==
    ASSUME NEW w, NEW t, NEW c, NEW f, Matches(w, t, c, f), NEW k \in Ones(w, c),
           NEW m, NEW n, Before(w, c, k, m, n)
    PROVE  Before(t, c, f[k], m, n)
<1> SUFFICES ASSUME NEW x \in m + 1 .. n
             PROVE  \E j \in Ones(t, c) : /\ j < f[k] /\ t[j].what.kind = "control"
                                          /\ t[j].what.number = x
  BY DEF Before
<1>1. PICK j \in Ones(w, c) : /\ j < k /\ w[j].what.kind = "control"
                              /\ w[j].what.number = x
  BY DEF Before
<1>2. f[j] \in Ones(t, c) /\ f[j] < f[k] /\ t[f[j]] = w[j]
  BY <1>1 DEF Matches
<1> QED
  BY <1>1, <1>2

LEMMA AlikeNumbered ==
    ASSUME NEW w \in Seq(Entries), NEW t \in Seq(Entries), NEW c, Alike(w, t, c),
           NEW m, NEW n, Numbered(w, c, m, n)
    PROVE  Numbered(t, c, m, n)
<1>1. PICK f : Matches(w, t, c, f)
  BY DEF Alike
<1>2. \A k \in Ones(t, c) : \E i \in Ones(w, c) : f[i] = k /\ t[k] = w[i]
  BY <1>1 DEF Matches
<1>3. ASSUME NEW x \in m + 1 .. n
      PROVE  \E j \in Ones(t, c) : t[j].what.kind = "control" /\ t[j].what.number = x
  <2>1. PICK j \in Ones(w, c) : w[j].what.kind = "control" /\ w[j].what.number = x
    BY DEF Numbered
  <2>2. f[j] \in Ones(t, c) /\ t[f[j]] = w[j]
    BY <1>1 DEF Matches
  <2> QED
    BY <2>1, <2>2
<1>4. ASSUME NEW k \in Ones(t, c), t[k].what.kind = "control"
      PROVE  /\ t[k].what.number \in m + 1 .. n
             /\ Before(t, c, k, m, t[k].what.number - 1)
  <2>1. PICK i \in Ones(w, c) : f[i] = k /\ t[k] = w[i]
    BY <1>2
  <2>2. /\ w[i].what.number \in m + 1 .. n
        /\ Before(w, c, i, m, w[i].what.number - 1)
    BY <1>4, <2>1 DEF Numbered
  <2> QED
    BY <1>1, <2>1, <2>2, AlikeBefore
<1>5. ASSUME NEW k \in Ones(t, c), t[k].what.kind = "sync"
      PROVE  t[k].what.sent <= n /\ Before(t, c, k, m, t[k].what.sent)
  <2>1. PICK i \in Ones(w, c) : f[i] = k /\ t[k] = w[i]
    BY <1>2
  <2>2. w[i].what.sent <= n /\ Before(w, c, i, m, w[i].what.sent)
    BY <1>5, <2>1 DEF Numbered
  <2> QED
    BY <1>1, <2>1, <2>2, AlikeBefore
<1>6. ASSUME NEW j \in Ones(t, c), NEW k \in Ones(t, c), j < k,
             t[j].what.kind = "control", t[k].what.kind = "control"
      PROVE  t[j].what.number < t[k].what.number
  <2>1. PICK a \in Ones(w, c) : f[a] = j /\ t[j] = w[a]
    BY <1>2
  <2>2. PICK b \in Ones(w, c) : f[b] = k /\ t[k] = w[b]
    BY <1>2
  <2>3. a \in Nat /\ b \in Nat /\ j \in Nat /\ k \in Nat
    BY LenProperties DEF Ones
  <2>4. ~(b < a) /\ a # b
    BY <1>1, <1>6, <2>1, <2>2, <2>3 DEF Matches
  <2>5. a < b
    BY <2>3, <2>4
  <2> QED
    BY <1>6, <2>1, <2>2, <2>5 DEF Numbered
<1> QED
  BY <1>3, <1>4, <1>5, <1>6 DEF Numbered

\* A request sent.
LEMMA GrownOnes ==
    ASSUME NEW w \in Seq(Entries), NEW t \in Seq(Entries), NEW q, NEW c, q.from = c,
           Grown(w, t, q)
    PROVE  /\ Len(w) \in Nat /\ Len(w) + 1 \in Ones(t, c) /\ t[Len(w) + 1] = q
           /\ \A k \in Ones(w, c) : k \in Ones(t, c) /\ t[k] = w[k] /\ k \in Nat
                                    /\ k < Len(w) + 1
           /\ \A k \in Ones(t, c) : (k \in Ones(w, c) /\ t[k] = w[k]) \/ k = Len(w) + 1
<1>1. Len(w) \in Nat /\ Len(t) = Len(w) + 1
  BY LenProperties DEF Grown
<1> QED
  BY <1>1 DEF Grown, Ones

LEMMA GrownLeads ==
    ASSUME NEW w \in Seq(Entries), NEW t \in Seq(Entries), NEW q, NEW c, q.from = c,
           Grown(w, t, q), NEW first, NEW then, Leads(w, c, first, then)
    PROVE  Leads(t, c, first, then)
<1>1. PICK a \in Ones(w, c) : w[a].what.kind = first
  BY DEF Leads
<1>2. a \in Ones(t, c) /\ t[a].what.kind = first /\ a < Len(w) + 1
  BY <1>1, GrownOnes
<1>3. ASSUME NEW k \in Ones(t, c), t[k].what.kind \in then
      PROVE  \E j \in Ones(t, c) : j < k /\ t[j].what.kind = first
  <2>1. CASE k = Len(w) + 1
    BY <1>2, <2>1
  <2>2. CASE k \in Ones(w, c) /\ t[k] = w[k]
    <3>1. PICK j \in Ones(w, c) : j < k /\ w[j].what.kind = first
      BY <1>3, <2>2 DEF Leads
    <3>2. j \in Ones(t, c) /\ t[j] = w[j]
      BY GrownOnes
    <3> QED
      BY <3>1, <3>2
  <2> QED
    BY <2>1, <2>2, GrownOnes
<1> QED
  BY <1>2, <1>3 DEF Leads

LEMMA GrownBefore ==
    ASSUME NEW w \in Seq(Entries), NEW t \in Seq(Entries), NEW q, NEW c, q.from = c,
           Grown(w, t, q), NEW k, NEW m, NEW n, Before(w, c, k, m, n)
    PROVE  Before(t, c, k, m, n)
BY GrownOnes DEF Before

\* All the controls there are come before what is sent next.
LEMMA GrownAll ==
    ASSUME NEW w \in Seq(Entries), NEW t \in Seq(Entries), NEW q, NEW c, q.from = c,
           Grown(w, t, q), NEW m, NEW n, Numbered(w, c, m, n)
    PROVE  Before(t, c, Len(w) + 1, m, n)
<1> SUFFICES ASSUME NEW x \in m + 1 .. n
             PROVE  \E j \in Ones(t, c) : /\ j < Len(w) + 1 /\ t[j].what.kind = "control"
                                          /\ t[j].what.number = x
  BY DEF Before
<1>1. PICK j \in Ones(w, c) : w[j].what.kind = "control" /\ w[j].what.number = x
  BY DEF Numbered
<1>2. j \in Ones(t, c) /\ t[j] = w[j] /\ j < Len(w) + 1
  BY GrownOnes
<1> QED
  BY <1>1, <1>2

LEMMA GrownNumbered ==
    ASSUME NEW w \in Seq(Entries), NEW t \in Seq(Entries), NEW q \in Entries, NEW c, q.from = c,
           Grown(w, t, q), NEW m \in Nat, NEW n \in Nat, Numbered(w, c, m, n),
           NEW n2 \in Nat,
           q.what.kind = "control" => q.what.number = n + 1 /\ n2 = n + 1,
           q.what.kind = "sync" => q.what.sent = n,
           q.what.kind # "control" => n2 = n
    PROVE  Numbered(t, c, m, n2)
<1>0. /\ Len(w) \in Nat /\ Len(w) + 1 \in Ones(t, c) /\ t[Len(w) + 1] = q /\ m <= n
      /\ Before(t, c, Len(w) + 1, m, n)
  <2>1. Before(t, c, Len(w) + 1, m, n)
    BY GrownAll
  <2> QED
    BY <2>1, GrownOnes DEF Numbered
<1>1. ASSUME NEW x \in m + 1 .. n2
      PROVE  \E j \in Ones(t, c) : t[j].what.kind = "control" /\ t[j].what.number = x
  <2>1. CASE x \in m + 1 .. n
    BY <1>0, <2>1 DEF Before
  <2>2. CASE x \notin m + 1 .. n
    <3>1. n2 # n
      BY <1>1, <2>2
    <3>2. q.what.kind = "control" /\ x = n + 1
      BY <1>1, <2>2, <3>1
    <3> QED
      BY <1>0, <3>2
  <2> QED
    BY <2>1, <2>2
<1>2. ASSUME NEW k \in Ones(t, c), t[k].what.kind = "control"
      PROVE  /\ t[k].what.number \in m + 1 .. n2
             /\ Before(t, c, k, m, t[k].what.number - 1)
  <2>1. CASE k = Len(w) + 1
    <3>1. t[k].what.number = n + 1 /\ n2 = n + 1 /\ (n + 1) - 1 = n
      BY <1>0, <1>2, <2>1
    <3>2. t[k].what.number \in m + 1 .. n2
      BY <1>0, <3>1
    <3> QED
      BY <1>0, <2>1, <3>1, <3>2
  <2>2. CASE k \in Ones(w, c) /\ t[k] = w[k]
    <3>1. t[k].what.number \in m + 1 .. n /\ Before(w, c, k, m, t[k].what.number - 1)
      BY <1>2, <2>2 DEF Numbered
    <3>2. t[k].what.number \in m + 1 .. n2
      BY <3>1
    <3> QED
      BY <3>1, <3>2, GrownBefore
  <2> QED
    BY <2>1, <2>2, GrownOnes
<1>3. ASSUME NEW k \in Ones(t, c), t[k].what.kind = "sync"
      PROVE  t[k].what.sent <= n2 /\ Before(t, c, k, m, t[k].what.sent)
  <2>1. CASE k = Len(w) + 1
    BY <1>0, <1>3, <2>1
  <2>2. CASE k \in Ones(w, c) /\ t[k] = w[k]
    <3>1. t[k].what.sent <= n /\ Before(w, c, k, m, t[k].what.sent)
      BY <1>3, <2>2 DEF Numbered
    <3>2. t[k].what.sent \in Nat
      <4>1. w[k] \in Entries
        BY <2>2, ElementOfSeq DEF Ones
      <4> QED
        BY <1>3, <2>2, <4>1, PacketFields DEF Entries
    <3>3. t[k].what.sent <= n2
      BY <3>1, <3>2
    <3> QED
      BY <3>1, <3>3, GrownBefore
  <2> QED
    BY <2>1, <2>2, GrownOnes
<1>4. ASSUME NEW j \in Ones(t, c), NEW k \in Ones(t, c), j < k,
             t[j].what.kind = "control", t[k].what.kind = "control"
      PROVE  t[j].what.number < t[k].what.number
  <2>1. CASE k = Len(w) + 1
    <3>0. j # Len(w) + 1
      BY <1>0, <1>4, <2>1
    <3>1. j \in Ones(w, c) /\ t[j] = w[j]
      BY <3>0, GrownOnes
    <3>2. t[j].what.number \in m + 1 .. n
      BY <1>4, <3>1 DEF Numbered
    <3>3. t[k].what.number = n + 1
      BY <1>0, <1>4, <2>1
    <3> QED
      BY <3>2, <3>3
  <2>2. CASE k \in Ones(w, c) /\ t[k] = w[k]
    <3>1. k < Len(w) + 1 /\ j # Len(w) + 1
      BY <1>0, <1>4, <2>2, GrownOnes DEF Ones
    <3>2. j \in Ones(w, c) /\ t[j] = w[j]
      BY <3>1, GrownOnes
    <3> QED
      BY <1>4, <2>2, <3>2 DEF Numbered
  <2> QED
    BY <2>1, <2>2, GrownOnes
<1>5. m <= n2
  BY <1>0
<1> QED
  BY <1>1, <1>2, <1>3, <1>4, <1>5 DEF Numbered

\* A request taken: of another connection, or the first of this one.
LEMMA ShiftedOther ==
    ASSUME NEW w \in Seq(Entries), NEW t \in Seq(Entries), Shifted(w, t), NEW c,
           Len(w) > 0, w[1].from # c
    PROVE  Alike(w, t, c)
<1> DEFINE f == [k \in 1 .. Len(w) |-> k - 1]
<1>1. Len(w) \in Nat /\ Len(t) \in Nat /\ Len(w) = Len(t) + 1
      /\ \A i \in 1 .. Len(t) : t[i] = w[i + 1]
  BY LenProperties DEF Shifted
<1>2. ASSUME NEW k \in Ones(w, c)
      PROVE  f[k] \in Ones(t, c) /\ t[f[k]] = w[k] /\ f[k] = k - 1 /\ k \in Nat
  <2>1. k \in 1 .. Len(w) /\ k # 1 /\ w[k].from = c
    BY <1>2 DEF Ones
  <2>2. f[k] = k - 1 /\ k - 1 \in 1 .. Len(t) /\ (k - 1) + 1 = k
    BY <1>1, <2>1
  <2>3. t[k - 1] = w[k]
    BY <1>1, <2>2
  <2> QED
    BY <2>1, <2>2, <2>3 DEF Ones
<1>3. ASSUME NEW k \in Ones(t, c)
      PROVE  \E j \in Ones(w, c) : f[j] = k
  <2>1. k \in 1 .. Len(t) /\ t[k].from = c
    BY <1>3 DEF Ones
  <2>2. k + 1 \in 1 .. Len(w) /\ w[k + 1].from = c /\ f[k + 1] = k
    BY <1>1, <2>1
  <2> QED
    BY <2>2 DEF Ones
<1> HIDE DEF f
<1>4. \A j, k \in Ones(w, c) : j < k => f[j] < f[k]
  BY <1>2
<1> QED
  BY <1>2, <1>3, <1>4 DEF Alike, Matches

LEMMA ShiftedOnes ==
    ASSUME NEW w \in Seq(Entries), NEW t \in Seq(Entries), Shifted(w, t), NEW c
    PROVE  /\ \A k \in Ones(t, c) : k \in Nat /\ k + 1 \in Ones(w, c) /\ t[k] = w[k + 1]
                                    /\ k + 1 # 1 /\ k >= 1
           /\ \A k \in Ones(w, c) : k \in Nat /\ k >= 1 /\
                  (k # 1 => k - 1 \in Ones(t, c) /\ t[k - 1] = w[k])
<1>1. Len(w) \in Nat /\ Len(t) \in Nat /\ Len(w) = Len(t) + 1
      /\ \A i \in 1 .. Len(t) : t[i] = w[i + 1]
  BY LenProperties DEF Shifted
<1>2. ASSUME NEW k \in Ones(t, c)
      PROVE  k \in Nat /\ k + 1 \in Ones(w, c) /\ t[k] = w[k + 1] /\ k + 1 # 1 /\ k >= 1
  <2>1. k \in 1 .. Len(t) /\ t[k].from = c
    BY DEF Ones
  <2>2. k + 1 \in 1 .. Len(w) /\ t[k] = w[k + 1] /\ k \in Nat /\ k >= 1 /\ k + 1 # 1
    BY <1>1, <2>1
  <2> QED
    BY <2>1, <2>2 DEF Ones
<1>3. ASSUME NEW k \in Ones(w, c)
      PROVE  k \in Nat /\ k >= 1 /\ (k # 1 => k - 1 \in Ones(t, c) /\ t[k - 1] = w[k])
  <2>1. k \in 1 .. Len(w) /\ w[k].from = c /\ k \in Nat /\ k >= 1
    BY <1>1 DEF Ones
  <2>2. ASSUME k # 1
        PROVE  k - 1 \in Ones(t, c) /\ t[k - 1] = w[k]
    <3>1. k - 1 \in 1 .. Len(t) /\ (k - 1) + 1 = k
      BY <1>1, <2>1, <2>2
    <3>2. t[k - 1] = w[k]
      BY <1>1, <3>1
    <3> QED
      BY <2>1, <3>1, <3>2 DEF Ones
  <2> QED
    BY <2>1, <2>2
<1> QED
  BY <1>2, <1>3

LEMMA ShiftedLeads ==
    ASSUME NEW w \in Seq(Entries), NEW t \in Seq(Entries), Shifted(w, t), NEW c,
           NEW first, NEW then, Leads(w, c, first, then), w[1].what.kind # first
    PROVE  Leads(t, c, first, then)
<1>1. \E k \in Ones(t, c) : t[k].what.kind = first
  <2>1. PICK k \in Ones(w, c) : w[k].what.kind = first
    BY DEF Leads
  <2> QED
    BY <2>1, ShiftedOnes
<1>2. ASSUME NEW k \in Ones(t, c), t[k].what.kind \in then
      PROVE  \E j \in Ones(t, c) : j < k /\ t[j].what.kind = first
  <2>1. k + 1 \in Ones(w, c) /\ w[k + 1].what.kind \in then /\ k \in Nat
    BY <1>2, ShiftedOnes
  <2>2. PICK j \in Ones(w, c) : j < k + 1 /\ w[j].what.kind = first
    BY <2>1 DEF Leads
  <2>3. j # 1 /\ j \in Nat /\ j - 1 \in Ones(t, c) /\ t[j - 1] = w[j]
    BY <2>2, ShiftedOnes
  <2> QED
    BY <2>1, <2>2, <2>3
<1> QED
  BY <1>1, <1>2 DEF Leads

\* What comes first of a connection's is nothing that something comes before.
LEMMA LeadsHead ==
    ASSUME NEW w \in Seq(Entries), NEW c, 1 \in Ones(w, c),
           NEW first, NEW then, Leads(w, c, first, then)
    PROVE  w[1].what.kind \notin then
<1> SUFFICES ASSUME w[1].what.kind \in then
             PROVE  FALSE
  OBVIOUS
<1>1. PICK j \in Ones(w, c) : j < 1
  BY DEF Leads
<1>2. j \in 1 .. Len(w) /\ Len(w) \in Nat
  BY LenProperties DEF Ones
<1> QED
  BY <1>1, <1>2

LEMMA NumberedHead ==
    ASSUME NEW w \in Seq(Entries), NEW c, 1 \in Ones(w, c), NEW m \in Nat, NEW n \in Nat,
           Numbered(w, c, m, n)
    PROVE  /\ w[1].what.kind = "control" => w[1].what.number = m + 1
           /\ w[1].what.kind = "sync" => w[1].what.sent <= m
<1>0. /\ w[1].what \in Requests
      /\ \A j \in Ones(w, c) : ~(j < 1)
  <2>1. Len(w) \in Nat /\ 1 \in 1 .. Len(w)
    BY LenProperties DEF Ones
  <2>2. w[1] \in Entries
    BY <2>1, ElementOfSeq
  <2> QED
    BY <2>1, <2>2 DEF Ones, Entries
<1>1. \A y : Before(w, c, 1, m, y) => \A x \in m + 1 .. y : FALSE
  BY <1>0 DEF Before
<1>2. ASSUME w[1].what.kind = "control"
      PROVE  w[1].what.number = m + 1
  <2>1. w[1].what.number \in m + 1 .. n /\ Before(w, c, 1, m, w[1].what.number - 1)
    BY <1>2 DEF Numbered
  <2>2. \A x \in m + 1 .. w[1].what.number - 1 : FALSE
    BY <1>1, <2>1
  <2>3. m + 1 \notin m + 1 .. w[1].what.number - 1
    BY <2>2
  <2> QED
    BY <2>1, <2>3
<1>3. ASSUME w[1].what.kind = "sync"
      PROVE  w[1].what.sent <= m
  <2>1. w[1].what.sent \in Nat /\ Before(w, c, 1, m, w[1].what.sent)
    BY <1>0, <1>3, PacketFields DEF Numbered
  <2>2. \A x \in m + 1 .. w[1].what.sent : FALSE
    BY <1>1, <2>1
  <2>3. m + 1 \notin m + 1 .. w[1].what.sent
    BY <2>2
  <2> QED
    BY <2>1, <2>3
<1> QED
  BY <1>2, <1>3

\* The next of them, m2 of which are handled then.
LEMMA ShiftedNumbered ==
    ASSUME NEW w \in Seq(Entries), NEW t \in Seq(Entries), Shifted(w, t), NEW c,
           1 \in Ones(w, c), NEW m \in Nat, NEW n \in Nat, Numbered(w, c, m, n),
           NEW m2 \in Nat, m2 = IF w[1].what.kind = "control" THEN m + 1 ELSE m
    PROVE  Numbered(t, c, m2, n)
<1>0. /\ w[1].what.kind = "control" => w[1].what.number = m + 1 /\ m + 1 <= n
      /\ m <= n
  <2>1. w[1].what.kind = "control" => w[1].what.number = m + 1
    BY NumberedHead
  <2>2. w[1].what.kind = "control" => w[1].what.number \in m + 1 .. n
    BY DEF Numbered
  <2>3. m <= n
    BY DEF Numbered
  <2> QED
    BY <2>1, <2>2, <2>3
<1>1. ASSUME NEW x \in m2 + 1 .. n, NEW j \in Ones(w, c),
             w[j].what.kind = "control", w[j].what.number = x
      PROVE  j # 1
  BY <1>0, <1>1
<1>2. ASSUME NEW k \in Ones(t, c), NEW y, Before(w, c, k + 1, m, y)
      PROVE  Before(t, c, k, m2, y)
  <2> SUFFICES ASSUME NEW x \in m2 + 1 .. y
               PROVE  \E j \in Ones(t, c) : /\ j < k /\ t[j].what.kind = "control"
                                            /\ t[j].what.number = x
    BY DEF Before
  <2>1. x \in m + 1 .. y /\ (w[1].what.kind = "control" => x # m + 1)
    OBVIOUS
  <2>2. PICK j \in Ones(w, c) : /\ j < k + 1 /\ w[j].what.kind = "control"
                                /\ w[j].what.number = x
    BY <1>2, <2>1 DEF Before
  <2>3. j # 1
    BY <1>0, <2>1, <2>2
  <2>4. /\ j \in Nat /\ j - 1 \in Ones(t, c) /\ t[j - 1] = w[j] /\ k \in Nat
    BY <2>3, ShiftedOnes
  <2> QED
    BY <2>2, <2>4
<1>3. ASSUME NEW x \in m2 + 1 .. n
      PROVE  \E j \in Ones(t, c) : t[j].what.kind = "control" /\ t[j].what.number = x
  <2>1. x \in m + 1 .. n
    BY <1>3
  <2>2. PICK j \in Ones(w, c) : w[j].what.kind = "control" /\ w[j].what.number = x
    BY <2>1 DEF Numbered
  <2>3. j # 1
    BY <1>1, <1>3, <2>2
  <2> QED
    BY <2>2, <2>3, ShiftedOnes
<1>4. ASSUME NEW k \in Ones(t, c), t[k].what.kind = "control"
      PROVE  /\ t[k].what.number \in m2 + 1 .. n
             /\ Before(t, c, k, m2, t[k].what.number - 1)
  <2>1. k + 1 \in Ones(w, c) /\ t[k] = w[k + 1] /\ k \in Nat /\ k >= 1
    BY ShiftedOnes
  <2>2. /\ t[k].what.number \in m + 1 .. n
        /\ Before(w, c, k + 1, m, t[k].what.number - 1)
    BY <1>4, <2>1 DEF Numbered
  <2>3. w[1].what.kind = "control" => w[1].what.number < t[k].what.number
    BY <1>4, <2>1 DEF Numbered
  <2>4. t[k].what.number \in m2 + 1 .. n
    BY <1>0, <2>2, <2>3
  <2> QED
    BY <1>2, <2>2, <2>4
<1>5. ASSUME NEW k \in Ones(t, c), t[k].what.kind = "sync"
      PROVE  t[k].what.sent <= n /\ Before(t, c, k, m2, t[k].what.sent)
  <2>1. k + 1 \in Ones(w, c) /\ t[k] = w[k + 1]
    BY ShiftedOnes
  <2>2. t[k].what.sent <= n /\ Before(w, c, k + 1, m, t[k].what.sent)
    BY <1>5, <2>1 DEF Numbered
  <2> QED
    BY <1>2, <2>2
<1>6. ASSUME NEW j \in Ones(t, c), NEW k \in Ones(t, c), j < k,
             t[j].what.kind = "control", t[k].what.kind = "control"
      PROVE  t[j].what.number < t[k].what.number
  <2>1. /\ j + 1 \in Ones(w, c) /\ t[j] = w[j + 1] /\ k + 1 \in Ones(w, c) /\ t[k] = w[k + 1]
        /\ j \in Nat /\ k \in Nat
    BY ShiftedOnes
  <2>2. j + 1 < k + 1
    BY <1>6, <2>1
  <2> QED
    BY <1>6, <2>1, <2>2 DEF Numbered
<1>7. m2 <= n
  BY <1>0
<1> QED
  BY <1>3, <1>4, <1>5, <1>6, <1>7 DEF Numbered

-----------------------------------------------------------------------------
(* Studio's link, as long as it is a live one: to the engine that runs.    *)

Live == link # None /\ conn[link].epoch = epoch /\ ~conn[link].closed

LEMMA LinkStays ==
    ASSUME TypeInv, Places, Next, link' # None
    PROVE  \/ \E c \in Conns : Open(c)
           \/ link' = link /\ link \in Conns /\ conn[link].epoch # None /\ ~Forget(link)
<1>1. CASE \E c \in Conns : Open(c)
  BY <1>1
<1>2. CASE ~(\E c \in Conns : Open(c))
  <2>1. ASSUME NEW d \in Conns, Accept(d) \/ Forget(d)
        PROVE  link' = link
    BY <2>1 DEF Accept, Forget, studio
  <2>2. link' = link
    BY <1>2, <2>1, NextKin, DroppedIs
  <2>3. link \in Conns /\ conn[link].epoch # None
    BY <2>2 DEF TypeInv, StudioOK, Places, LinkPlaces
  <2> QED
    BY <2>2, <2>3, ForgottenIs
<1> QED
  BY <1>1, <1>2

\* It was one before, or it was just opened; and the engine keeps the ports.
LEMMA LiveFrom ==
    ASSUME TypeInv, Places, Next, Live'
    PROVE  \/ \E c \in Conns : Open(c)
           \/ Live /\ link' = link /\ link \in Conns /\ epoch' = epoch /\ ~Forget(link)
<1>1. CASE \E c \in Conns : Open(c)
  BY <1>1
<1>2. CASE ~(\E c \in Conns : Open(c))
  <2>1. link' = link /\ link \in Conns /\ conn[link].epoch # None /\ ~Forget(link)
    BY <1>2, LinkStays DEF Live
  <2>2. conn'[link].epoch = conn[link].epoch /\ (conn[link].closed => conn'[link].closed)
    BY <2>1, EpochKept
  <2>3. conn[link].epoch \in {None, Other} \cup 1 .. epoch
    BY <2>1, PlacesConns DEF PlaceOK
  <2>4. conn[link].epoch = epoch' /\ ~conn[link].closed
    BY <2>1, <2>2 DEF Live
  <2>5. epoch' = epoch
    <3>1. epoch \in Nat \ {0} /\ (epoch' = epoch \/ epoch' = epoch + 1)
      BY NumbersMove
    <3>2. epoch' # None /\ epoch' # Other
      BY <3>1, Sizes
    <3> QED
      BY <2>3, <2>4, <3>1, <3>2
  <2> QED
    BY <2>1, <2>4, <2>5 DEF Live
<1> QED
  BY <1>1, <1>2

LEMMA LiveServed ==
    ASSUME TypeInv, Places, Live
    PROVE  /\ link \in Conns /\ streamPort = epoch /\ mode \in {"serving", "stopping"}
           /\ ~Bind /\ ~BindStream /\ ~Leave
<1>1. link \in Conns
  BY DEF Live, TypeInv, StudioOK
<1>2. streamPort = epoch
  BY <1>1 DEF Live, Places, PortPlaces
<1>3. mode \in {"serving", "stopping"}
  BY <1>2 DEF TypeInv, PortOK, Places, IdleOK
<1> QED
  BY <1>1, <1>2, <1>3 DEF Bind, BindStream, Leave, Joined

\* What a step leaves of the requests of a connection.
LEMMA BroadcastUp ==
    ASSUME TypeInv, NEW p \in Packets, Broadcast(p), NEW c \in Conns
    PROVE  conn'[c].up = conn[c].up
<1>1. ConnsOK /\ registry \subseteq Conns /\ ConnOK(conn[c])
  BY DEF TypeInv, ConnsOK, ListenerOK
<1>2. conn'[c] = IF c \in registry' THEN Push(conn[c], p) ELSE conn[c]
  BY <1>1, BroadcastIs
<1> QED
  BY <1>1, <1>2, PushKeeps

LEMMA AnnounceUp ==
    ASSUME TypeInv, Places, NEW v \in Nat, Announce(v), NEW c \in Conns
    PROVE  conn'[c].up = conn[c].up
BY AnnounceKeeps, BroadcastUp, PlacesConns, PacketMade DEF TypeInv

LEMMA StreamsUp ==
    ASSUME TypeInv, Streams, NEW c \in Conns, ~Read(c), ~Forget(c)
    PROVE  conn'[c].up = conn[c].up
<1>0. ConnsOK /\ \A d \in Conns : ConnOK(conn[d])
  BY DEF TypeInv, ConnsOK
<1>1. ASSUME NEW d \in Conns,
             Accept(d) \/ Read(d) \/ ReadEnds(d) \/ Write(d) \/ Reset(d) \/ Forget(d)
      PROVE  conn'[c].up = conn[c].up
  <2>1. CASE d # c
    BY <1>0, <1>1, <2>1 DEF Accept, Read, ReadEnds, Write, Reset, Forget, ConnsOK
  <2>2. CASE Accept(c) \/ Reset(c)
    BY <1>0, <2>2 DEF Accept, Reset, ConnsOK, ConnOK, Conn
  <2>3. CASE ReadEnds(c)
    <3>1. ConnOK(Shut(conn[c])) /\ conn'[c] = [Shut(conn[c]) EXCEPT !.reading = FALSE]
      BY <1>0, <2>3, ShutOK DEF ReadEnds, ConnsOK
    <3>2. conn'[c].up = Shut(conn[c]).up
      BY <3>1 DEF ConnOK, Conn
    <3> QED
      BY <1>0, <3>2, ShutKeeps
  <2>4. CASE Write(c)
    <3>1. CASE conn[c].fin
      <4>1. conn'[c] = Shut(conn[c])
        BY <1>0, <2>4, <3>1 DEF Write, ConnsOK
      <4> QED
        BY <1>0, <4>1, ShutKeeps
    <3>2. CASE ~conn[c].fin
      BY <1>0, <2>4, <3>2 DEF Write, ConnsOK, ConnOK, Conn
    <3> QED
      BY <3>1, <3>2
  <2> QED
    BY <1>1, <2>1, <2>2, <2>3, <2>4
<1>2. CASE AcceptorEnds
  <2>1. conn'[c] = IF conn[c].epoch = streamPort THEN Shut(conn[c]) ELSE conn[c]
    BY <1>2 DEF AcceptorEnds
  <2> QED
    BY <1>0, <2>1, ShutKeeps
<1>3. CASE ReceiverEnds
  BY <1>3 DEF ReceiverEnds
<1> QED
  BY <1>1, <1>2, <1>3 DEF Streams

LEMMA ListenerUp ==
    ASSUME TypeInv, Places, Listener, NEW c \in Conns
    PROVE  conn'[c].up = conn[c].up
<1>0. /\ ConnsOK /\ ListenerOK /\ StateOK /\ truth \in Nat
      /\ \A d \in Conns : ConnOK(conn[d])
  BY PlacesConns DEF TypeInv, StateOK
<1>1. CASE UNCHANGED conn
  BY <1>1
<1>2. CASE Poll
  BY <1>0, <1>1, <1>2, AnnounceUp DEF Poll
<1>3. CASE PublishControl
  BY <1>0, <1>3, AnnounceUp DEF PublishControl
<1>4. ASSUME NEW d \in Conns, NEW p \in Packets, Answer(d, p)
      PROVE  conn'[c].up = conn[c].up
  <2>1. conn'[c] = IF c = d THEN Push(conn[c], p) ELSE conn[c]
    BY <1>0, <1>4 DEF Answer, ConnsOK
  <2> QED
    BY <1>0, <2>1, PushKeeps
<1>5. CASE SendAnswer
  BY <1>0, <1>4, <1>5, Stepping DEF SendAnswer, ListenerOK
<1>6. CASE Synchronise
  <2>1. From \in Conns /\ Head(inbox).what.sent \in Nat
    BY <1>6, Received, PacketFields DEF Synchronise
  <2> QED
    BY <1>4, <1>6, <2>1, PacketMade DEF Synchronise
<1>7. CASE Reply
  <2> DEFINE p == [kind |-> "part", val |-> truth, gen |-> count]
             q == Push(conn[step.to], p)
  <2>1. step.to \in Conns /\ p \in Packets
    BY <1>0, <1>7, Stepping, PacketMade DEF Reply, StateOK
  <2>2. ConnOK(q) /\ q.up = conn[step.to].up
    BY <1>0, <2>1, PushIs, PushKeeps
  <2>3. conn'[c] = IF c = step.to THEN [q EXCEPT !.served = ~q.closed] ELSE conn[c]
    BY <1>0, <1>7 DEF Reply, ConnsOK
  <2> HIDE DEF q
  <2> QED
    BY <2>2, <2>3 DEF ConnOK, Conn
<1>8. CASE ControlPublished \/ ControlBumped
  <2>1. Said(From, truth')
    BY <1>8 DEF ControlPublished, ControlBumped
  <2> QED
    BY <1>0, <2>1 DEF Said, ConnsOK, ConnOK, Conn
<1>9. CASE ControlRefused
  <2> DEFINE p == [kind |-> "error", of |-> Head(inbox).what.number]
             q == Push(conn[From], p)
  <2>1. From \in Conns /\ p \in Packets
    BY <1>9, Received, PacketFields, PacketMade DEF ControlRefused
  <2>2. ConnOK(q) /\ q.up = conn[From].up
    BY <1>0, <2>1, PushIs, PushKeeps
  <2>3. conn'[c] = IF c = From THEN [q EXCEPT !.said = Append(@, 0)] ELSE conn[c]
    BY <1>0, <1>9 DEF ControlRefused, ConnsOK
  <2> HIDE DEF q
  <2> QED
    BY <2>2, <2>3 DEF ConnOK, Conn
<1> QED
  BY <1>1, <1>2, <1>3, <1>5, <1>6, <1>7, <1>8, <1>9
     DEF Listener, Timeout, Register, Refresh, Heartbeat

LEMMA EnginesUp ==
    ASSUME TypeInv, Places, Engines \/ Publishers, NEW c \in Conns
    PROVE  conn'[c].up = conn[c].up
<1>1. CASE UNCHANGED conn
  BY <1>1
<1>2. CASE Stop
  BY <1>1, <1>2, PacketMade, BroadcastUp DEF Stop
<1>3. CASE PublishEvent
  <2>1. truth' \in Nat /\ Announce(truth')
    BY <1>3 DEF PublishEvent, TypeInv, StateOK
  <2> QED
    BY <2>1, AnnounceUp
<1>4. CASE Telemetry
  BY <1>4, PacketMade, BroadcastUp DEF Telemetry
<1> QED
  BY <1>1, <1>2, <1>3, <1>4
     DEF Engines, Publishers, Leave, Bind, BindStream, LiveChange, studio

\* A request is sent, read, or taken.
LEMMA WaitingGrown ==
    ASSUME NEW c \in Conns, NEW in \in Seq(Entries), NEW up \in Seq(Requests),
           NEW q \in Requests
    PROVE  Grown(WaitingIn(c, in, up), WaitingIn(c, in, Append(up, q)),
                 [from |-> c, what |-> q])
<1> DEFINE v == Append(up, q)
           m == Len(in)
           n == Len(up)
           w == WaitingIn(c, in, up)
           t == WaitingIn(c, in, v)
<1>1. /\ v \in Seq(Requests) /\ Len(v) = n + 1 /\ v[n + 1] = q
      /\ \A k \in 1 .. n : v[k] = up[k]
  BY AppendProperties
<1>2. /\ Len(w) = m + n /\ m \in Nat /\ n \in Nat
      /\ \A k \in 1 .. m : w[k] = in[k]
      /\ \A k \in 1 .. n : w[m + k] = [from |-> c, what |-> up[k]]
      /\ \A k \in 1 .. m + n : k <= m \/ k - m \in 1 .. n
  BY WaitingIs
<1>3. /\ Len(t) = m + Len(v)
      /\ \A k \in 1 .. m : t[k] = in[k]
      /\ \A k \in 1 .. Len(v) : t[m + k] = [from |-> c, what |-> v[k]]
  <2> HIDE DEF v
  <2> QED
    BY <1>1, WaitingIs
<1> HIDE DEF v, m, n, w, t
<1>4. ASSUME NEW k \in 1 .. m + n
      PROVE  t[k] = w[k]
  <2>1. CASE k <= m
    BY <1>2, <1>3, <2>1
  <2>2. CASE ~(k <= m)
    <3>1. k - m \in 1 .. n /\ m + (k - m) = k /\ k - m \in 1 .. Len(v)
      BY <1>1, <1>2, <2>2
    <3>2. w[m + (k - m)] = [from |-> c, what |-> up[k - m]]
      BY <1>2, <3>1
    <3>3. t[m + (k - m)] = [from |-> c, what |-> v[k - m]] /\ v[k - m] = up[k - m]
      BY <1>1, <1>3, <3>1
    <3> QED
      BY <3>1, <3>2, <3>3
  <2> QED
    BY <2>1, <2>2
<1>5. Len(t) = Len(w) + 1 /\ t[Len(w) + 1] = [from |-> c, what |-> q]
  <2>1. Len(t) = m + (n + 1) /\ n + 1 \in 1 .. Len(v) /\ Len(w) + 1 = m + (n + 1)
    BY <1>1, <1>2, <1>3
  <2>2. t[m + (n + 1)] = [from |-> c, what |-> v[n + 1]]
    BY <1>3, <2>1
  <2> QED
    BY <1>1, <1>2, <2>1, <2>2
<1>6. Grown(w, t, [from |-> c, what |-> q])
  BY <1>2, <1>4, <1>5 DEF Grown
<1> QED
  BY <1>6 DEF w, t, v

LEMMA WaitingRead ==
    ASSUME NEW c \in Conns, NEW in \in Seq(Entries), NEW up \in Seq(Requests), up # <<>>
    PROVE  WaitingIn(c, Append(in, [from |-> c, what |-> Head(up)]), Tail(up))
             = WaitingIn(c, in, up)
<1> DEFINE e == [from |-> c, what |-> Head(up)]
           a == Append(in, e)
           b == Tail(up)
           m == Len(in)
           n == Len(up)
           w == WaitingIn(c, in, up)
           t == WaitingIn(c, a, b)
<1>1. /\ b \in Seq(Requests) /\ Len(b) = n - 1 /\ \A k \in 1 .. n - 1 : b[k] = up[k + 1]
      /\ Head(up) = up[1] /\ up[1] \in Requests /\ n \in Nat \ {0}
  BY HeadTailProperties, LenProperties, EmptySeq
<1>2. e \in Entries
  BY <1>1 DEF Entries
<1>3. /\ a \in Seq(Entries) /\ Len(a) = m + 1 /\ a[m + 1] = e /\ \A k \in 1 .. m : a[k] = in[k]
  <2> HIDE DEF e
  <2> QED
    BY <1>2, AppendProperties
<1>4. /\ w \in Seq(Entries) /\ Len(w) = m + n /\ m \in Nat
      /\ \A k \in 1 .. m : w[k] = in[k]
      /\ \A k \in 1 .. n : w[m + k] = [from |-> c, what |-> up[k]]
  BY WaitingIs
<1>5. /\ t \in Seq(Entries) /\ Len(t) = Len(a) + Len(b)
      /\ \A k \in 1 .. Len(a) : t[k] = a[k]
      /\ \A k \in 1 .. Len(b) : t[Len(a) + k] = [from |-> c, what |-> b[k]]
  <2> HIDE DEF a, b
  <2> QED
    BY <1>1, <1>3, WaitingIs
<1>6. e = [from |-> c, what |-> up[1]]
  BY <1>1
<1> HIDE DEF a, b, m, n, w, t, e
<1>7. Len(t) = Len(w)
  BY <1>1, <1>3, <1>4, <1>5
<1>8. ASSUME NEW k \in 1 .. Len(w)
      PROVE  t[k] = w[k]
  <2>1. CASE k <= m
    <3>1. k \in 1 .. m /\ k \in 1 .. Len(a)
      BY <1>3, <1>4, <2>1
    <3> QED
      BY <1>3, <1>4, <1>5, <3>1
  <2>2. CASE k = m + 1
    <3>1. m + 1 \in 1 .. Len(a) /\ 1 \in 1 .. n
      BY <1>1, <1>3, <1>4
    <3>2. t[m + 1] = e
      BY <1>3, <1>5, <3>1
    <3>3. w[m + 1] = [from |-> c, what |-> up[1]]
      BY <1>4, <3>1
    <3> QED
      BY <1>6, <2>2, <3>2, <3>3
  <2>3. CASE k > m + 1
    <3>1. k - (m + 1) \in 1 .. n - 1 /\ k - (m + 1) + 1 = k - m /\ k - m \in 1 .. n
          /\ m + (k - m) = k /\ (m + 1) + (k - (m + 1)) = k
      BY <1>1, <1>4, <2>3
    <3>2. t[(m + 1) + (k - (m + 1))] = [from |-> c, what |-> b[k - (m + 1)]]
      BY <1>1, <1>3, <1>5, <3>1
    <3>3. b[k - (m + 1)] = up[k - m]
      BY <1>1, <3>1
    <3>4. w[m + (k - m)] = [from |-> c, what |-> up[k - m]]
      BY <1>4, <3>1
    <3> QED
      BY <3>1, <3>2, <3>3, <3>4
  <2> QED
    BY <1>1, <1>4, <2>1, <2>2, <2>3
<1>9. t = w
  BY <1>4, <1>5, <1>7, <1>8, SeqEqual
<1> QED
  BY <1>9 DEF w, t, a, b, e

\* The request of another connection comes between.
LEMMA WaitingOther ==
    ASSUME NEW c \in Conns, NEW in \in Seq(Entries), NEW up \in Seq(Requests),
           NEW e \in Entries, e.from # c
    PROVE  Alike(WaitingIn(c, in, up), WaitingIn(c, Append(in, e), up), c)
<1> DEFINE a == Append(in, e)
           m == Len(in)
           n == Len(up)
           w == WaitingIn(c, in, up)
           t == WaitingIn(c, a, up)
           f == [k \in 1 .. Len(w) |-> IF k <= m THEN k ELSE k + 1]
<1>1. /\ a \in Seq(Entries) /\ Len(a) = m + 1 /\ a[m + 1] = e /\ \A k \in 1 .. m : a[k] = in[k]
  BY AppendProperties
<1>2. /\ Len(w) = m + n /\ m \in Nat /\ n \in Nat
      /\ \A k \in 1 .. m : w[k] = in[k]
      /\ \A k \in 1 .. n : w[m + k] = [from |-> c, what |-> up[k]]
  BY WaitingIs
<1>3. /\ Len(t) = Len(a) + n
      /\ \A k \in 1 .. Len(a) : t[k] = a[k]
      /\ \A k \in 1 .. n : t[Len(a) + k] = [from |-> c, what |-> up[k]]
  <2> HIDE DEF a
  <2> QED
    BY <1>1, WaitingIs
<1>4. \A k \in 1 .. Len(w) : f[k] = IF k <= m THEN k ELSE k + 1
  OBVIOUS
<1> HIDE DEF a, m, n, w, t, f
<1>5. ASSUME NEW k \in 1 .. Len(w)
      PROVE  f[k] \in 1 .. Len(t) /\ t[f[k]] = w[k] /\ k \in Nat
  <2>1. CASE k <= m
    <3>1. k \in 1 .. m /\ k \in 1 .. Len(a) /\ f[k] = k /\ k \in 1 .. Len(t)
      BY <1>1, <1>2, <1>3, <1>4, <2>1
    <3> QED
      BY <1>1, <1>2, <1>3, <3>1
  <2>2. CASE ~(k <= m)
    <3>1. /\ k - m \in 1 .. n /\ m + (k - m) = k /\ f[k] = k + 1 /\ k + 1 \in 1 .. Len(t)
          /\ (m + 1) + (k - m) = k + 1
      BY <1>1, <1>2, <1>3, <1>4, <2>2
    <3>2. w[m + (k - m)] = [from |-> c, what |-> up[k - m]]
      BY <1>2, <3>1
    <3>3. t[(m + 1) + (k - m)] = [from |-> c, what |-> up[k - m]]
      BY <1>1, <1>3, <3>1
    <3> QED
      BY <3>1, <3>2, <3>3
  <2> QED
    BY <2>1, <2>2
<1>6. ASSUME NEW k \in Ones(t, c)
      PROVE  \E j \in Ones(w, c) : f[j] = k
  <2>1. k \in 1 .. m + 1 + n /\ t[k].from = c
    BY <1>1, <1>2, <1>3 DEF Ones
  <2>2. k # m + 1
    <3>1. m + 1 \in 1 .. Len(a)
      BY <1>1, <1>2
    <3> QED
      BY <1>1, <1>3, <2>1, <3>1
  <2>3. CASE k <= m
    <3>1. k \in 1 .. Len(w) /\ f[k] = k
      BY <1>2, <1>4, <2>1, <2>3
    <3> QED
      BY <1>5, <2>1, <3>1 DEF Ones
  <2>4. CASE ~(k <= m)
    <3>1. k - 1 \in 1 .. Len(w) /\ f[k - 1] = k
      BY <1>2, <1>4, <2>1, <2>2, <2>4
    <3> QED
      BY <1>5, <2>1, <3>1 DEF Ones
  <2> QED
    BY <2>3, <2>4
<1>7. ASSUME NEW j \in Ones(w, c), NEW k \in Ones(w, c), j < k
      PROVE  f[j] < f[k]
  <2>1. j \in 1 .. Len(w) /\ k \in 1 .. Len(w)
    BY DEF Ones
  <2> QED
    BY <1>2, <1>4, <1>7, <2>1
<1>8. ASSUME NEW k \in Ones(w, c)
      PROVE  f[k] \in Ones(t, c) /\ t[f[k]] = w[k]
  BY <1>5 DEF Ones
<1>9. Alike(w, t, c)
  BY <1>6, <1>7, <1>8 DEF Alike, Matches
<1> QED
  BY <1>9 DEF w, t, a

\* What the listener takes is the first of them all.
LEMMA WaitingTaken ==
    ASSUME NEW c \in Conns, NEW in \in Seq(Entries), in # <<>>, NEW up \in Seq(Requests)
    PROVE  /\ Shifted(WaitingIn(c, in, up), WaitingIn(c, Tail(in), up))
           /\ WaitingIn(c, in, up)[1] = in[1] /\ Len(WaitingIn(c, in, up)) > 0
<1> DEFINE a == Tail(in)
           m == Len(in)
           n == Len(up)
           w == WaitingIn(c, in, up)
           t == WaitingIn(c, a, up)
<1>1. /\ a \in Seq(Entries) /\ Len(a) = m - 1 /\ \A k \in 1 .. m - 1 : a[k] = in[k + 1]
      /\ m \in Nat \ {0}
  BY HeadTailProperties, LenProperties, EmptySeq
<1>2. /\ Len(w) = m + n /\ n \in Nat
      /\ \A k \in 1 .. m : w[k] = in[k]
      /\ \A k \in 1 .. n : w[m + k] = [from |-> c, what |-> up[k]]
  BY WaitingIs
<1>3. /\ Len(t) = Len(a) + n
      /\ \A k \in 1 .. Len(a) : t[k] = a[k]
      /\ \A k \in 1 .. n : t[Len(a) + k] = [from |-> c, what |-> up[k]]
  <2> HIDE DEF a
  <2> QED
    BY <1>1, WaitingIs
<1> HIDE DEF a, m, n, w, t
<1>4. ASSUME NEW k \in 1 .. Len(t)
      PROVE  t[k] = w[k + 1]
  <2>1. CASE k <= m - 1
    <3>1. k \in 1 .. m - 1 /\ k \in 1 .. Len(a) /\ k + 1 \in 1 .. m
      BY <1>1, <2>1
    <3> QED
      BY <1>1, <1>2, <1>3, <3>1
  <2>2. CASE ~(k <= m - 1)
    <3>1. /\ k - (m - 1) \in 1 .. n /\ (m - 1) + (k - (m - 1)) = k
          /\ m + (k - (m - 1)) = k + 1
      BY <1>1, <1>2, <1>3, <2>2
    <3>2. t[(m - 1) + (k - (m - 1))] = [from |-> c, what |-> up[k - (m - 1)]]
      BY <1>1, <1>3, <3>1
    <3>3. w[m + (k - (m - 1))] = [from |-> c, what |-> up[k - (m - 1)]]
      BY <1>2, <3>1
    <3> QED
      BY <3>1, <3>2, <3>3
  <2> QED
    BY <2>1, <2>2
<1>5. Len(w) = Len(t) + 1 /\ w[1] = in[1] /\ Len(w) > 0
  BY <1>1, <1>2, <1>3
<1>6. Shifted(w, t)
  BY <1>4, <1>5 DEF Shifted
<1> QED
  BY <1>5, <1>6 DEF w, t, a

\* What most steps keep of it: the registration comes first, then a heartbeat,
\* and the controls and the barriers are in order.
AfterRegister == {"heartbeat", "refresh", "control", "sync"}
AfterHeartbeat == {"control", "sync"}
Follows(w, t, c, m, n, n2) ==
    /\ Leads(w, c, "register", AfterRegister) => Leads(t, c, "register", AfterRegister)
    /\ Leads(w, c, "heartbeat", AfterHeartbeat) => Leads(t, c, "heartbeat", AfterHeartbeat)
    /\ Numbered(w, c, m, n) => Numbered(t, c, m, n2)

LEMMA FollowsAlike ==
    ASSUME NEW w \in Seq(Entries), NEW t \in Seq(Entries), NEW c, Alike(w, t, c),
           NEW m, NEW n
    PROVE  Follows(w, t, c, m, n, n)
BY AlikeLeads, AlikeNumbered DEF Follows

LEMMA FollowsSame ==
    ASSUME NEW w, NEW c, NEW m, NEW n
    PROVE  Follows(w, w, c, m, n, n)
BY DEF Follows

LEMMA FollowsGrown ==
    ASSUME NEW c \in Conns, NEW in \in Seq(Entries), NEW up \in Seq(Requests),
           NEW q \in Requests, NEW m \in Nat, NEW n \in Nat, NEW n2 \in Nat,
           q.kind = "control" => q.number = n + 1 /\ n2 = n + 1,
           q.kind = "sync" => q.sent = n,
           q.kind # "control" => n2 = n
    PROVE  Follows(WaitingIn(c, in, up), WaitingIn(c, in, Append(up, q)), c, m, n, n2)
<1> DEFINE w == WaitingIn(c, in, up)
           t == WaitingIn(c, in, Append(up, q))
           e == [from |-> c, what |-> q]
<1>1. Append(up, q) \in Seq(Requests)
  BY AppendProperties
<1>2. w \in Seq(Entries) /\ t \in Seq(Entries) /\ Grown(w, t, e)
  BY <1>1, WaitingIs, WaitingGrown
<1>3. e \in Entries /\ e.from = c /\ e.what = q
  BY DEF Entries
<1> HIDE DEF w, t, e
<1>4. Numbered(w, c, m, n) => Numbered(t, c, m, n2)
  <2> SUFFICES ASSUME Numbered(w, c, m, n)
               PROVE  Numbered(t, c, m, n2)
    OBVIOUS
  <2> QED
    BY <1>2, <1>3, GrownNumbered
<1>5. ASSUME NEW first, NEW then, Leads(w, c, first, then)
      PROVE  Leads(t, c, first, then)
  BY <1>2, <1>3, <1>5, GrownLeads
<1>6. Follows(w, t, c, m, n, n2)
  BY <1>4, <1>5 DEF Follows
<1> QED
  BY <1>6 DEF w, t

LEMMA FollowsSent ==
    ASSUME NEW c \in Conns, NEW in \in Seq(Entries), NEW r, ConnOK(r),
           NEW q \in {AskRegister, AskHeartbeat, AskRefresh}, NEW m \in Nat, NEW n \in Nat
    PROVE  Follows(WaitingIn(c, in, r.up), WaitingIn(c, in, Sent(r, q).up), c, m, n, n)
<1>1. q \in Requests /\ q.kind \notin {"control", "sync"}
  BY RequestMade DEF AskRegister, AskHeartbeat, AskRefresh
<1>2. r.up \in Seq(Requests)
  BY DEF ConnOK, Conn
<1>3. CASE Sent(r, q) = r
  BY <1>3, FollowsSame
<1>4. CASE Sent(r, q) = [r EXCEPT !.up = Append(r.up, q)]
  <2>1. Sent(r, q).up = Append(r.up, q)
    BY <1>4 DEF ConnOK, Conn
  <2>2. Follows(WaitingIn(c, in, r.up), WaitingIn(c, in, Append(r.up, q)), c, m, n, n)
    BY <1>1, <1>2, FollowsGrown
  <2> QED
    BY <2>1, <2>2
<1> QED
  BY <1>1, <1>3, <1>4, SentIs

LEMMA FollowsTaken ==
    ASSUME NEW c \in Conns, NEW in \in Seq(Entries), NEW r, ConnOK(r), r.pipe # <<>>,
           NEW b, NEW d, NEW m \in Nat, NEW n \in Nat
    PROVE  Follows(WaitingIn(c, in, r.up), WaitingIn(c, in, Followed(r, b, d).up), c, m, n, n)
<1> DEFINE a == [r EXCEPT !.pipe = Tail(@)]
           q == SentIf(b, a, AskRegister)
           u == SentIf(d, q, AskRefresh)
<1>1. ConnOK(a) /\ a.up = r.up
  BY TakenOK DEF ConnOK, Conn
<1> HIDE DEF a
<1>2. /\ ConnOK(q)
      /\ Follows(WaitingIn(c, in, a.up), WaitingIn(c, in, q.up), c, m, n, n)
  BY <1>1, FollowsSame, FollowsSent, SentIs, RequestMade DEF SentIf
<1> HIDE DEF q
<1>3. Follows(WaitingIn(c, in, q.up), WaitingIn(c, in, u.up), c, m, n, n)
  BY <1>2, FollowsSame, FollowsSent DEF SentIf
<1>4. u = Followed(r, b, d)
  BY DEF u, q, a, Followed
<1> HIDE DEF u
<1>5. Follows(WaitingIn(c, in, r.up), WaitingIn(c, in, u.up), c, m, n, n)
  BY <1>1, <1>2, <1>3 DEF Follows
<1> QED
  BY <1>4, <1>5

\* What Studio sends.
LEMMA StudioFollows ==
    ASSUME TypeInv, Places, Studio, link \in Conns, link' = link, NEW m \in Nat
    PROVE  Follows(Waiting(link), Waiting(link)', link, m, sent, sent')
<1>0. /\ ConnsOK /\ \A c \in Conns : ConnOK(conn[c])
      /\ conn[link].up \in Seq(Requests) /\ inbox \in Seq(Entries) /\ sent \in Nat
      /\ link # None
  BY Sizes DEF TypeInv, ConnsOK, ConnOK, Conn, ListenerOK, StudioOK
<1>1. inbox' = inbox
  BY DEF Studio, Open, BackoffEnds, Datagrams, Take, StreamClosed, NotAnEngine,
       AckTimeout, Drop, SendHeartbeat, RegisterAgain, RetryDue, SendControl,
       SendSync
<1> DEFINE W(up) == WaitingIn(link, inbox, up)
<1>2. SUFFICES Follows(W(conn[link].up), W(conn'[link].up), link, m, sent, sent')
  BY <1>1 DEF Waiting
<1>3. CASE UNCHANGED <<conn, sent>>
  BY <1>3, FollowsSame
<1>4. CASE Take
  <2>1. conn[link].pipe # <<>> /\ sent' = sent
    BY <1>4 DEF Take
  <2>2. PICK b \in BOOLEAN : \E d :
            conn' = [conn EXCEPT ![link] = Followed(conn[link], b, d)]
    BY <1>4, TakeIs
  <2>3. PICK d : conn' = [conn EXCEPT ![link] = Followed(conn[link], b, d)]
    BY <2>2
  <2>4. conn'[link] = Followed(conn[link], b, d)
    BY <1>0, <2>3 DEF ConnsOK
  <2> QED
    BY <1>0, <2>1, <2>4, FollowsTaken
<1>5. CASE SendHeartbeat
  <2>1. conn'[link] = Sent(conn[link], AskHeartbeat) /\ sent' = sent
    BY <1>0, <1>5 DEF SendHeartbeat, ConnsOK, studio, tally
  <2> QED
    BY <1>0, <2>1, FollowsSent
<1>6. CASE RegisterAgain
  <2> DEFINE q == Sent(conn[link], AskRegister)
             u == Sent(q, AskHeartbeat)
  <2>1. conn'[link] = u /\ sent' = sent
    BY <1>0, <1>6 DEF RegisterAgain, ConnsOK, studio, tally
  <2>2. ConnOK(q)
    BY <1>0, SentIs, RequestMade
  <2>3. Follows(W(conn[link].up), W(q.up), link, m, sent, sent)
    BY <1>0, FollowsSent
  <2> HIDE DEF q
  <2>4. Follows(W(q.up), W(u.up), link, m, sent, sent)
    BY <1>0, <2>2, FollowsSent
  <2> HIDE DEF u
  <2>5. Follows(W(conn[link].up), W(u.up), link, m, sent, sent)
    BY <2>3, <2>4 DEF Follows
  <2> QED
    BY <2>1, <2>5
<1>7. CASE SendControl
  <2> DEFINE q == [kind |-> "control", number |-> sent + 1]
  <2>1. conn'[link].up = Append(conn[link].up, q) /\ sent' = sent + 1
    BY <1>0, <1>7 DEF SendControl, ConnsOK, ConnOK, Conn
  <2>0. sent + 1 \in Nat
    BY <1>0
  <2>2. q \in Requests
    BY <2>0, RequestMade
  <2>3. /\ q.kind = "control" => q.number = sent + 1 /\ sent' = sent + 1
        /\ q.kind = "sync" => q.sent = sent
        /\ q.kind # "control" => sent' = sent
    BY <2>1
  <2> HIDE DEF q
  <2> QED
    BY <1>0, <2>0, <2>1, <2>2, <2>3, FollowsGrown
<1>8. CASE SendSync
  <2> DEFINE q == [kind |-> "sync", sent |-> sent]
  <2>1. conn'[link].up = Append(conn[link].up, q) /\ sent' = sent
    BY <1>0, <1>8 DEF SendSync, ConnsOK, ConnOK, Conn, studio, tally
  <2>2. q \in Requests
    BY <1>0, RequestMade
  <2>3. /\ q.kind = "control" => q.number = sent + 1 /\ sent = sent + 1
        /\ q.kind = "sync" => q.sent = sent
    OBVIOUS
  <2> HIDE DEF q
  <2> QED
    BY <1>0, <2>1, <2>2, <2>3, FollowsGrown
<1> QED
  BY <1>0, <1>3, <1>4, <1>5, <1>6, <1>7, <1>8 DEF Studio, Open, BackoffEnds,
       Datagrams, StreamClosed, NotAnEngine, AckTimeout, Drop, RetryDue, tally

\* The listener takes a request: of the link, or of another.
Handles(kind) == Listener /\ Receive(kind) /\ From = link
LEMMA WaitingHandled ==
    ASSUME TypeInv, Places, NEW kind, Handles(kind), link' = link
    PROVE  /\ link \in Conns /\ sent' = sent /\ inbox[1].what.kind = kind
           /\ Waiting(link) \in Seq(Entries) /\ Waiting(link)' \in Seq(Entries)
           /\ Shifted(Waiting(link), Waiting(link)')
           /\ 1 \in Ones(Waiting(link), link) /\ Waiting(link)[1] = inbox[1]
<1>0. /\ link \in Conns /\ conn[link].up \in Seq(Requests) /\ inbox \in Seq(Entries)
      /\ inbox[1].what.kind = kind
  BY Received DEF Handles, TypeInv, ConnsOK, ConnOK, Conn, ListenerOK
<1>1. sent' = sent
  BY DEF Handles, Listener, Poll, Timeout, Register, Refresh, Reply, Heartbeat,
       SendAnswer, ControlPublished, PublishControl, ControlBumped,
       ControlRefused, Synchronise, studio, tally
<1>2. conn'[link].up = conn[link].up
  BY <1>0, ListenerUp DEF Handles
<1>3. inbox # <<>> /\ inbox' = Tail(inbox) /\ inbox' \in Seq(Entries) /\ inbox[1].from = link
  BY Received DEF Handles, Receive
<1>4. /\ Shifted(Waiting(link), Waiting(link)')
      /\ Waiting(link)[1] = inbox[1] /\ Len(Waiting(link)) > 0
      /\ Waiting(link) \in Seq(Entries) /\ Waiting(link)' \in Seq(Entries)
  BY <1>0, <1>2, <1>3, WaitingTaken, WaitingIs DEF Waiting
<1>5. 1 \in Ones(Waiting(link), link)
  <2>1. Len(Waiting(link)) \in Nat
    BY <1>4, LenProperties
  <2>2. 1 \in 1 .. Len(Waiting(link))
    BY <1>4, <2>1
  <2> QED
    BY <1>3, <1>4, <2>2 DEF Ones
<1> QED
  BY <1>0, <1>1, <1>4, <1>5

LEMMA WaitingKept ==
    ASSUME TypeInv, Places, Next, link \in Conns, link' = link, ~Leave, NEW m \in Nat,
           \A kind : ~Handles(kind)
    PROVE  Follows(Waiting(link), Waiting(link)', link, m, sent, sent')
<1>0. /\ ConnsOK /\ \A c \in Conns : ConnOK(conn[c])
      /\ conn[link].up \in Seq(Requests) /\ inbox \in Seq(Entries) /\ link # None
  BY Sizes DEF TypeInv, ConnsOK, ConnOK, Conn, ListenerOK
<1>1. CASE Studio
  BY <1>1, StudioFollows
<1>2. ASSUME ~Studio
      PROVE  sent' = sent
  BY <1>2 DEF Next, Streams, Listener, Engines, Publishers, Accept, Read,
       ReadEnds, Write, Reset, Forget, AcceptorEnds, ReceiverEnds, Poll, Timeout,
       Register, Refresh, Reply, Heartbeat, SendAnswer, ControlPublished,
       PublishControl, ControlBumped, ControlRefused, Synchronise, Stop, Leave,
       Bind, BindStream, LiveChange, PublishEvent, Telemetry, studio, tally
<1>3. ASSUME sent' = sent, inbox' = inbox, conn'[link].up = conn[link].up
      PROVE  Follows(Waiting(link), Waiting(link)', link, m, sent, sent')
  BY <1>3, FollowsSame DEF Waiting
<1>4. CASE Streams
  <2>2. sent' = sent
    BY <1>4 DEF Streams, Accept, Read, ReadEnds, Write, Reset, Forget,
         AcceptorEnds, ReceiverEnds, studio, tally
  <2>3. CASE Read(link)
    <3>1. /\ conn'[link].up = Tail(conn[link].up) /\ conn[link].up # <<>>
          /\ inbox' = Append(inbox, [from |-> link, what |-> Head(conn[link].up)])
      BY <1>0, <2>3 DEF Read, ConnsOK, ConnOK, Conn
    <3>2. Waiting(link)' = Waiting(link)
      BY <1>0, <3>1, WaitingRead DEF Waiting
    <3> QED
      BY <2>2, <3>2, FollowsSame
  <2>4. ASSUME NEW c \in Conns, c # link, Read(c)
        PROVE  Follows(Waiting(link), Waiting(link)', link, m, sent, sent')
    <3> DEFINE e == [from |-> c, what |-> Head(conn[c].up)]
    <3>1. conn[c].up \in Seq(Requests) /\ conn[c].up # <<>>
      BY <1>0, <2>4 DEF Read, ConnOK, Conn
    <3>2. Head(conn[c].up) \in Requests
      BY <3>1, HeadTailProperties
    <3>3. e \in Entries /\ e.from # link
      BY <2>4, <3>2 DEF Entries
    <3>4. inbox' = Append(inbox, e) /\ conn'[link].up = conn[link].up
      BY <1>0, <2>4 DEF Read, ConnsOK
    <3> HIDE DEF e
    <3>5. Waiting(link)' = WaitingIn(link, Append(inbox, e), conn[link].up)
      BY <3>4 DEF Waiting
    <3>6. /\ Alike(Waiting(link), Waiting(link)', link)
          /\ Waiting(link) \in Seq(Entries) /\ Waiting(link)' \in Seq(Entries)
      <4>1. Append(inbox, e) \in Seq(Entries)
        BY <1>0, <3>3, AppendProperties
      <4>2. Waiting(link) \in Seq(Entries)
        BY <1>0, WaitingIs DEF Waiting
      <4>4. WaitingIn(link, Append(inbox, e), conn[link].up) \in Seq(Entries)
        BY <1>0, <4>1, WaitingIs
      <4>3. Alike(WaitingIn(link, inbox, conn[link].up),
                  WaitingIn(link, Append(inbox, e), conn[link].up), link)
        BY <1>0, <3>3, WaitingOther
      <4> QED
        BY <3>5, <4>2, <4>3, <4>4 DEF Waiting
    <3> QED
      BY <2>2, <3>6, FollowsAlike
  <2>5. ASSUME \A c \in Conns : ~Read(c)
        PROVE  Follows(Waiting(link), Waiting(link)', link, m, sent, sent')
    <3>1. inbox' = inbox
      BY <1>4, <2>5 DEF Streams, Accept, ReadEnds, Write, Reset, Forget,
           AcceptorEnds, ReceiverEnds
    <3>2. conn'[link].up = conn[link].up
      BY <1>4, <2>5, StreamsUp, ForgottenIs
    <3> QED
      BY <1>3, <2>2, <3>1, <3>2
  <2> QED
    BY <2>3, <2>4, <2>5
<1>5. CASE Engines \/ Publishers
  <2>1. inbox' = inbox /\ sent' = sent
    BY <1>5 DEF Engines, Publishers, Stop, Leave, Bind, BindStream, LiveChange,
         PublishEvent, Telemetry, studio, tally
  <2>2. conn'[link].up = conn[link].up
    BY <1>5, EnginesUp
  <2> QED
    BY <1>3, <2>1, <2>2
<1>6. CASE Listener
  <2>1. conn'[link].up = conn[link].up
    BY <1>6, ListenerUp
  <2>2. sent' = sent
    BY <1>6 DEF Listener, Poll, Timeout, Register, Refresh, Reply, Heartbeat,
         SendAnswer, ControlPublished, PublishControl, ControlBumped,
         ControlRefused, Synchronise, studio, tally
  <2>3. CASE inbox' = inbox
    BY <1>3, <2>1, <2>2, <2>3
  <2>4. ASSUME NEW kind, Receive(kind)
        PROVE  Follows(Waiting(link), Waiting(link)', link, m, sent, sent')
    <3>1. inbox # <<>> /\ inbox' = Tail(inbox) /\ inbox' \in Seq(Entries) /\ inbox[1].from = From
      BY <2>4, Received DEF Receive
    <3>2. /\ Shifted(Waiting(link), Waiting(link)')
          /\ Waiting(link)[1] = inbox[1] /\ Len(Waiting(link)) > 0
          /\ Waiting(link) \in Seq(Entries) /\ Waiting(link)' \in Seq(Entries)
      BY <1>0, <2>1, <3>1, WaitingTaken, WaitingIs DEF Waiting
    <3>3. From # link
      BY <1>6, <2>4 DEF Handles
    <3> QED
      BY <2>2, <3>1, <3>2, <3>3, ShiftedOther, FollowsAlike
  <2>5. \/ inbox' = inbox
        \/ \E kind : Receive(kind)
    BY <1>6 DEF Listener, Poll, Timeout, Register, Refresh, Reply, Heartbeat,
         SendAnswer, ControlPublished, PublishControl, ControlBumped,
         ControlRefused, Synchronise
  <2> QED
    BY <2>3, <2>4, <2>5
<1> QED
  BY <1>1, <1>4, <1>5, <1>6 DEF Next

-----------------------------------------------------------------------------
(* What a step does to what is on its way to Studio: it leaves it alone,   *)
(* cuts it off or adds a packet to it, but for the packet Studio takes.    *)

\* A change of state not yet published, and an acknowledgement not yet sent.
Unpublished == step.do = "publish" \/ (step.do = "poll" /\ moved)
AckDue == step.do = "answer" /\ step.to = link /\ step.answer.kind = "ack"

SaidMore(r, q) == q.said = r.said \/ \E x \in Nat : q.said = Append(r.said, x)
Stays(r, q) ==
    /\ Coming(q) = Coming(r) /\ q.served = r.served
    /\ \/ q.said = r.said
       \/ /\ q.said = Append(r.said, truth') /\ truth' # 0 /\ Unpublished'
          /\ Handles("control")
    /\ link \in registry => UNCHANGED <<told, count>> /\ (Unpublished => Unpublished')
    /\ AckDue => AckDue'
Gains(r, q, p) ==
    /\ Grown(Coming(r), Coming(q), p) /\ ~r.closed /\ r.epoch = epoch
    /\ \/ q.served = r.served
       \/ TellsState(p) /\ step.do = "reply" /\ step.to = link
    /\ TellsState(p) => p.val = truth' /\ p.gen = count'
    /\ ~TellsState(p) => UNCHANGED <<told, count>> /\ (Unpublished => Unpublished')
    /\ p.kind = "ack" => p.epoch = epoch
    /\ p.kind = "synced" => Handles("sync") /\ p.sent = inbox[1].what.sent
    /\ \/ q.said = r.said
       \/ /\ q.said = Append(r.said, 0) /\ Handles("control")
          /\ p.kind = "error" /\ p.of = inbox[1].what.number
    /\ AckDue => AckDue' \/ p.kind = "ack"
Moves ==
    LET r == conn[link]
        q == conn'[link]
    IN  \/ Cut(Coming(r), Coming(q)) /\ SaidMore(r, q) /\ (Live' => Stays(r, q))
        \/ \E p \in Packets : Gains(r, q, p)

LEMMA CutSame ==
    ASSUME NEW r, ConnOK(r), NEW q, q.pipe = r.pipe, q.outbox = r.outbox
    PROVE  Coming(q) = Coming(r) /\ Cut(Coming(r), Coming(q))
<1>1. Coming(q) = Coming(r) /\ Len(Coming(r)) \in Nat
  BY ComingOK DEF Coming
<1> QED
  BY <1>1 DEF Cut

\* A packet pushed, or the end.
Pushed(r, q, p) ==
    /\ q.said = r.said /\ q.served = r.served
    /\ \/ Coming(q) = Coming(r) /\ (q.closed \/ p.kind = "telemetry")
       \/ ~r.closed /\ Grown(Coming(r), Coming(q), p)
       \/ q.closed /\ Cut(Coming(r), Coming(q))
LEMMA PushedIs ==
    ASSUME NEW r, ConnOK(r), NEW p \in Packets
    PROVE  Pushed(r, Push(r, p), p)
<1>1. Push(r, p).said = r.said /\ Push(r, p).served = r.served
  BY PushKeeps
<1> QED
  BY <1>1, PushComing DEF Pushed

LEMMA BroadcastMoves ==
    ASSUME TypeInv, Places, link \in Conns, NEW p \in Packets, Broadcast(p)
    PROVE  \/ conn'[link] = conn[link] /\ (link \in registry => conn[link].closed)
           \/ link \in registry /\ Pushed(conn[link], conn'[link], p)
<1>1. ConnsOK /\ registry \subseteq Conns /\ ConnOK(conn[link])
  BY PlacesConns
<1>2. /\ registry' \subseteq registry
      /\ conn'[link] = IF link \in registry' THEN Push(conn[link], p) ELSE conn[link]
      /\ link \in registry => (link \in registry' <=> ~conn[link].closed)
  BY <1>1, BroadcastIs
<1> QED
  BY <1>1, <1>2, PushedIs

LEMMA StreamsMove ==
    ASSUME TypeInv, Places, Next, Streams, link \in Conns, link' = link
    PROVE  /\ Cut(Coming(conn[link]), Coming(conn'[link]))
           /\ conn'[link].said = conn[link].said
           /\ ~conn'[link].closed => /\ Coming(conn'[link]) = Coming(conn[link])
                                     /\ conn'[link].served = conn[link].served
<1>0. /\ ConnsOK /\ ConnOK(conn[link]) /\ ConnOK(conn'[link]) /\ ConnsOK'
      /\ Coming(conn[link]) = conn[link].pipe \o conn[link].outbox
  BY NextConns DEF TypeInv, ConnsOK, Coming
<1> DEFINE r == conn[link]
           q == conn'[link]
<1>1. ASSUME q.pipe = r.pipe, q.outbox = r.outbox, q.said = r.said, q.served = r.served
      PROVE  /\ Cut(Coming(r), Coming(q)) /\ q.said = r.said
             /\ ~q.closed => Coming(q) = Coming(r) /\ q.served = r.served
  BY <1>0, <1>1, CutSame
<1>2. ASSUME NEW c \in Conns, c # link,
             Accept(c) \/ Read(c) \/ ReadEnds(c) \/ Write(c) \/ Reset(c) \/ Forget(c)
      PROVE  q = r
  BY <1>0, <1>2 DEF Accept, Read, ReadEnds, Write, Reset, Forget, ConnsOK
<1>3. CASE Accept(link) \/ Read(link)
  <2>1. q.pipe = r.pipe /\ q.outbox = r.outbox /\ q.said = r.said /\ q.served = r.served
    BY <1>0, <1>3 DEF Accept, Read, ConnsOK, ConnOK, Conn
  <2> QED
    BY <1>1, <2>1
<1>4. ASSUME q = Shut(r) \/ q = [Shut(r) EXCEPT !.reading = FALSE]
      PROVE  Cut(Coming(r), Coming(q)) /\ q.said = r.said /\ q.closed
  <2>1. ConnOK(Shut(r)) /\ Shut(r).closed /\ Shut(r).outbox = <<>>
    BY <1>0, ShutOK
  <2>2. /\ q.closed = Shut(r).closed /\ q.outbox = Shut(r).outbox /\ q.pipe = Shut(r).pipe
        /\ q.said = Shut(r).said
    BY <1>4, <2>1 DEF ConnOK, Conn
  <2>3. Shut(r).pipe = r.pipe /\ Shut(r).said = r.said
    BY <1>0, ShutKeeps
  <2> QED
    BY <1>0, <2>1, <2>2, <2>3, CutQueue
<1>5. CASE ReadEnds(link)
  <2>1. q = [Shut(r) EXCEPT !.reading = FALSE]
    BY <1>0, <1>5 DEF ReadEnds, ConnsOK
  <2> QED
    BY <1>4, <2>1
<1>6. CASE Write(link)
  <2>1. CASE r.fin
    <3>1. q = Shut(r)
      BY <1>0, <1>6, <2>1 DEF Write, ConnsOK
    <3> QED
      BY <1>4, <3>1
  <2>2. CASE ~r.fin
    <3>1. /\ q = [r EXCEPT !.outbox = Tail(r.outbox), !.pipe = Append(r.pipe, Head(r.outbox))]
          /\ r.outbox # <<>>
      BY <1>0, <1>6, <2>2 DEF Write, ConnsOK, ConnOK, Conn
    <3>4. /\ q.outbox = Tail(r.outbox) /\ q.pipe = Append(r.pipe, Head(r.outbox))
          /\ q.said = r.said /\ q.served = r.served
      BY <1>0, <3>1 DEF ConnOK, Conn
    <3>2. Coming(q) = Coming(r)
      BY <1>0, <3>1, <3>4, WrittenComing
    <3>3. Len(Coming(r)) \in Nat
      BY <1>0, ComingOK
    <3> QED
      BY <3>4, <3>2, <3>3 DEF Cut
  <2> QED
    BY <2>1, <2>2
<1>7. CASE Reset(link)
  <2>1. q.closed /\ q.pipe = <<>> /\ q.outbox = <<>> /\ q.said = r.said
    BY <1>0, <1>7 DEF Reset, ConnsOK, ConnOK, Conn
  <2>2. Coming(q) = <<>> /\ Len(Coming(r)) \in Nat
    BY <1>0, <2>1, ComingOK, ConcatEmptySeq DEF Coming
  <2>3. Len(Coming(q)) = 0
    BY <2>2, EmptySeq
  <2> QED
    BY <2>1, <2>2, <2>3 DEF Cut
<1>8. CASE AcceptorEnds
  <2>1. q = Shut(r) \/ q = r
    BY <1>8 DEF AcceptorEnds
  <2> QED
    BY <1>1, <1>4, <2>1
<1>9. CASE ReceiverEnds
  BY <1>1, <1>9 DEF ReceiverEnds
<1>10. ~Forget(link)
  BY ForgottenIs
<1> QED
  BY <1>1, <1>2, <1>3, <1>5, <1>6, <1>7, <1>8, <1>9, <1>10 DEF Streams

\* A packet pushed to the link, and nothing at all.
LEMMA PushedMoves ==
    ASSUME TypeInv, link \in Conns, link' = link, NEW p \in Packets,
           Pushed(conn[link], conn'[link], p), conn[link].epoch = epoch,
           TellsState(p) => p.val = truth' /\ p.gen = count',
           ~TellsState(p) => UNCHANGED <<told, count>> /\ (Unpublished => Unpublished'),
           p.kind = "ack" => p.epoch = epoch,
           p.kind = "synced" =>
               Handles("sync") /\ p.sent = inbox[1].what.sent,
           AckDue => AckDue' \/ p.kind = "ack"
    PROVE  Moves
<1> DEFINE r == conn[link]
           q == conn'[link]
<1>1. Len(Coming(r)) \in Nat /\ ConnOK(r)
  BY ComingOK DEF TypeInv, ConnsOK
<1>2. q.said = r.said /\ q.served = r.served /\ SaidMore(r, q)
  BY DEF Pushed, SaidMore
<1>3. CASE Coming(q) = Coming(r) /\ (q.closed \/ p.kind = "telemetry")
  <2>1. Cut(Coming(r), Coming(q))
    BY <1>1, <1>3 DEF Cut
  <2>2. Live' => p.kind = "telemetry"
    BY <1>3 DEF Live
  <2>3. Live' => Stays(r, q)
    BY <1>2, <1>3, <2>2 DEF Stays, TellsState
  <2> QED
    BY <1>2, <2>1, <2>3 DEF Moves
<1>4. CASE ~r.closed /\ Grown(Coming(r), Coming(q), p)
  <2>1. Gains(r, q, p)
    BY <1>2, <1>4 DEF Gains
  <2> QED
    BY <2>1 DEF Moves
<1>5. CASE q.closed /\ Cut(Coming(r), Coming(q))
  <2>1. ~Live'
    BY <1>5 DEF Live
  <2> QED
    BY <1>2, <1>5, <2>1 DEF Moves
<1> QED
  BY <1>3, <1>4, <1>5 DEF Pushed

LEMMA StillMoves ==
    ASSUME TypeInv, link \in Conns, link' = link,
           conn'[link].pipe = conn[link].pipe, conn'[link].outbox = conn[link].outbox,
           conn'[link].served = conn[link].served,
           SaidMore(conn[link], conn'[link]),
           Live' => \/ conn'[link].said = conn[link].said
                    \/ /\ conn'[link].said = Append(conn[link].said, truth') /\ truth' # 0
                       /\ Unpublished' /\ Handles("control"),
           Live' /\ link \in registry => UNCHANGED <<told, count>> /\ (Unpublished => Unpublished'),
           Live' => (AckDue => AckDue')
    PROVE  Moves
<1>1. ConnOK(conn[link])
  BY DEF TypeInv, ConnsOK
<1>2. /\ Coming(conn'[link]) = Coming(conn[link])
      /\ Cut(Coming(conn[link]), Coming(conn'[link]))
  BY <1>1, CutSame
<1> QED
  BY <1>2 DEF Moves, Stays

LEMMA AnnounceMoves ==
    ASSUME TypeInv, Places, link \in Conns, link' = link, truth' \in Nat, Announce(truth'),
           AckDue => AckDue'
    PROVE  Moves
<1> DEFINE p == [kind |-> "update", val |-> truth', gen |-> count']
<1>1. count' \in Count /\ Broadcast(p)
  BY AnnounceKeeps, PlacesConns DEF TypeInv
<1>2. p \in Packets /\ TellsState(p) /\ p.val = truth' /\ p.gen = count'
      /\ p.kind \notin {"ack", "synced"}
  BY <1>1, PacketMade DEF TellsState
<1> HIDE DEF p
<1>3. CASE conn'[link] = conn[link] /\ (link \in registry => conn[link].closed)
  <2>1. Live' => link \notin registry
    BY <1>3 DEF Live
  <2> QED
    BY <1>3, <2>1, StillMoves DEF SaidMore
<1>4. CASE link \in registry /\ Pushed(conn[link], conn'[link], p)
  <2>1. conn[link].epoch = epoch
    BY <1>4, PlacesConns
  <2> QED
    BY <1>2, <1>4, <2>1, PushedMoves
<1> QED
  BY <1>1, <1>2, <1>3, <1>4, BroadcastMoves

LEMMA BroadcastStill ==
    ASSUME TypeInv, Places, link \in Conns, link' = link, NEW k \in {"goodbye", "telemetry"},
           Broadcast([kind |-> k]), UNCHANGED <<told, count, moved, step>>
    PROVE  Moves
<1> DEFINE p == [kind |-> k]
<1>1. p \in Packets /\ ~TellsState(p) /\ p.kind \notin {"ack", "synced"}
  BY PacketMade DEF TellsState
<1>2. (Unpublished => Unpublished') /\ (AckDue => AckDue')
  BY DEF Unpublished, AckDue
<1> HIDE DEF p
<1>3. CASE conn'[link] = conn[link] /\ (link \in registry => conn[link].closed)
  BY <1>2, <1>3, StillMoves DEF SaidMore
<1>4. CASE link \in registry /\ Pushed(conn[link], conn'[link], p)
  <2>1. conn[link].epoch = epoch
    BY <1>4, PlacesConns
  <2> QED
    BY <1>1, <1>2, <1>4, <2>1, PushedMoves
<1>5. Broadcast(p)
  BY DEF p
<1> QED
  BY <1>1, <1>3, <1>4, <1>5, BroadcastMoves

LEMMA EnginesMove ==
    ASSUME TypeInv, Places, Next, Engines \/ Publishers, link \in Conns, link' = link
    PROVE  Moves
<1>0. truth' \in Nat
  BY NumbersMove
<1>1. CASE Stop
  <2>1. CASE Broadcast([kind |-> "goodbye"])
    BY <1>1, <2>1, BroadcastStill DEF Stop, state
  <2>2. CASE UNCHANGED <<registry, conn>>
    <3>1. UNCHANGED <<told, count, moved, step>>
      BY <1>1 DEF Stop, state
    <3> QED
      BY <2>2, <3>1, StillMoves DEF SaidMore, Unpublished, AckDue
  <2> QED
    BY <1>1, <2>1, <2>2 DEF Stop
<1>2. CASE Leave \/ Bind \/ BindStream
  <2>1. ~Live'
    <3>1. ASSUME Live'
          PROVE  Live
      <4>1. link # None /\ ~(\E c \in Conns : Open(c))
        BY Sizes DEF Open
      <4> QED
        BY <3>1, <4>1, LiveFrom
    <3> QED
      BY <1>2, <3>1, LiveServed
  <2>2. conn' = conn
    BY <1>2 DEF Leave, Bind, BindStream
  <2> QED
    BY <2>1, <2>2, StillMoves DEF SaidMore
<1>3. CASE LiveChange
  <2>1. conn' = conn /\ moved' = TRUE /\ UNCHANGED <<told, count, step>>
    BY <1>3 DEF LiveChange
  <2> QED
    BY <2>1, StillMoves DEF SaidMore, Unpublished, AckDue
<1>4. CASE PublishEvent
  <2>1. Announce(truth') /\ step' = step
    BY <1>4 DEF PublishEvent
  <2>2. AckDue => AckDue'
    BY <2>1 DEF AckDue
  <2> QED
    BY <1>0, <2>1, <2>2, AnnounceMoves
<1>5. CASE Telemetry
  BY <1>5, BroadcastStill DEF Telemetry, state
<1> QED
  BY <1>1, <1>2, <1>3, <1>4, <1>5 DEF Engines, Publishers

\* The listener.
LEMMA AnswerMoves ==
    ASSUME TypeInv, Places, link \in Conns, link' = link,
           NEW c \in Conns, conn[c].epoch = epoch, NEW p \in Packets, Answer(c, p),
           ~TellsState(p), UNCHANGED <<told, count>>, ~Unpublished,
           p.kind = "ack" => p.epoch = epoch,
           p.kind = "synced" =>
               Listener /\ Receive("sync") /\ From = c /\ p.sent = inbox[1].what.sent,
           AckDue => c = link /\ p.kind = "ack"
    PROVE  Moves
<1>0. ConnsOK /\ ConnOK(conn[link])
  BY DEF TypeInv, ConnsOK
<1>1. CASE c = link
  <2>1. conn'[link] = Push(conn[link], p)
    BY <1>0, <1>1 DEF Answer, ConnsOK
  <2>2. Pushed(conn[link], conn'[link], p)
    BY <1>0, <2>1, PushedIs
  <2> QED
    BY <1>1, <2>2, PushedMoves DEF Handles
<1>2. CASE c # link
  <2>1. conn'[link] = conn[link]
    BY <1>0, <1>2 DEF Answer, ConnsOK
  <2> QED
    BY <1>2, <2>1, StillMoves DEF SaidMore
<1> QED
  BY <1>1, <1>2

LEMMA ReplyMoves ==
    ASSUME TypeInv, Places, Reply, link \in Conns, link' = link
    PROVE  Moves
<1>0. /\ ConnsOK /\ ConnOK(conn[link]) /\ ListenerOK /\ StateOK
      /\ UNCHANGED <<truth, told, count>> /\ ~AckDue /\ ~Unpublished /\ step.do = "reply"
  BY DEF TypeInv, ConnsOK, Reply, state, AckDue, Unpublished
<1> DEFINE p == [kind |-> "part", val |-> truth, gen |-> count]
           u == Push(conn[link], p)
<1>1. p \in Packets /\ TellsState(p) /\ p.val = truth' /\ p.gen = count'
      /\ p.kind \notin {"ack", "synced", "telemetry"}
  BY <1>0, PacketMade DEF StateOK, TellsState
<1>2. CASE step.to = link
  <2>1. conn'[link] = [u EXCEPT !.served = ~u.closed]
    BY <1>0, <1>2 DEF Reply, ConnsOK
  <2>2. ConnOK(u) /\ Pushed(conn[link], u, p)
    BY <1>0, <1>1, PushIs, PushedIs
  <2>3. conn[link].epoch = epoch
    BY <1>2 DEF Places, Referred, Refers, Reply
  <2> DEFINE q == conn'[link]
  <2> HIDE DEF p, u
  <2>4. /\ q.pipe = u.pipe /\ q.outbox = u.outbox /\ q.said = u.said /\ q.closed = u.closed
    BY <2>1, <2>2 DEF ConnOK, Conn
  <2>5. Coming(q) = Coming(u)
    BY <2>4 DEF Coming
  <2>6. q.said = conn[link].said
    BY <2>2, <2>4 DEF Pushed
  <2>7. CASE q.closed
    <3>1. ~Live'
      BY <2>7 DEF Live
    <3>2. \/ Coming(q) = Coming(conn[link])
          \/ Cut(Coming(conn[link]), Coming(q))
          \/ ~conn[link].closed /\ Grown(Coming(conn[link]), Coming(q), p)
      BY <2>2, <2>5 DEF Pushed
    <3>3. Len(Coming(conn[link])) \in Nat
      BY <1>0, ComingOK
    <3>4. CASE ~conn[link].closed /\ Grown(Coming(conn[link]), Coming(q), p)
      <4>1. Gains(conn[link], q, p)
        BY <1>0, <1>1, <1>2, <2>3, <2>6, <3>4 DEF Gains
      <4> QED
        BY <1>1, <4>1 DEF Moves
    <3> QED
      BY <2>6, <3>1, <3>2, <3>3, <3>4 DEF Moves, Cut, SaidMore
  <2>8. CASE ~q.closed
    <3>1. ~conn[link].closed /\ Grown(Coming(conn[link]), Coming(q), p)
      BY <1>1, <2>2, <2>4, <2>5, <2>8 DEF Pushed
    <3>2. Gains(conn[link], q, p)
      BY <1>0, <1>1, <1>2, <2>3, <2>6, <3>1 DEF Gains
    <3> QED
      BY <1>1, <3>2 DEF Moves
  <2> QED
    BY <2>7, <2>8
<1>3. CASE step.to # link
  <2>1. conn'[link] = conn[link]
    BY <1>0, <1>3 DEF Reply, ConnsOK
  <2> QED
    BY <1>0, <2>1, StillMoves DEF SaidMore
<1> QED
  BY <1>2, <1>3

LEMMA RefusalMoves ==
    ASSUME TypeInv, Places, ControlRefused, link \in Conns, link' = link
    PROVE  Moves
<1>0. /\ ConnsOK /\ ConnOK(conn[link]) /\ Receive("control") /\ Listener
      /\ UNCHANGED <<truth, told, count>> /\ ~AckDue /\ ~Unpublished
  BY DEF TypeInv, ConnsOK, ControlRefused, Receive, state, AckDue, Unpublished,
       Listener
<1>1. /\ From \in Conns /\ Head(inbox) = inbox[1] /\ inbox[1].from = From
      /\ inbox[1].what.number \in Nat
  BY <1>0, Received, PacketFields
<1> DEFINE p == [kind |-> "error", of |-> inbox[1].what.number]
           u == Push(conn[link], p)
<1>2. p \in Packets /\ ~TellsState(p) /\ p.kind = "error" /\ p.of = inbox[1].what.number
  BY <1>1, PacketMade DEF TellsState
<1>3. CASE From = link
  <2>1. conn'[link] = [u EXCEPT !.said = Append(@, 0)]
    BY <1>0, <1>1, <1>3 DEF ControlRefused, ConnsOK
  <2>2. ConnOK(u) /\ Pushed(conn[link], u, p) /\ u.said = conn[link].said
    BY <1>0, <1>2, PushIs, PushedIs DEF Pushed
  <2>3. conn[link].epoch = epoch
    <3>1. Refers(link)
      BY <1>1, <1>3, <1>0, Received DEF Refers
    <3> QED
      BY <3>1 DEF Places, Referred
  <2> DEFINE q == conn'[link]
  <2> HIDE DEF p, u
  <2>4. /\ q.pipe = u.pipe /\ q.outbox = u.outbox /\ q.closed = u.closed
        /\ q.said = Append(conn[link].said, 0) /\ q.served = u.served
    BY <2>1, <2>2 DEF ConnOK, Conn
  <2>5. Coming(q) = Coming(u) /\ q.served = conn[link].served /\ SaidMore(conn[link], q)
    BY <2>2, <2>4 DEF Coming, Pushed, SaidMore
  <2>6. Len(Coming(conn[link])) \in Nat
    BY <1>0, ComingOK
  <2>7. CASE ~conn[link].closed /\ Grown(Coming(conn[link]), Coming(q), p)
    <3>1. Gains(conn[link], q, p)
      BY <1>0, <1>2, <1>3, <2>3, <2>4, <2>5, <2>7 DEF Gains, Handles
    <3> QED
      BY <1>2, <3>1 DEF Moves
  <2>8. CASE q.closed /\ Cut(Coming(conn[link]), Coming(q))
    BY <2>5, <2>8 DEF Moves, Live
  <2>9. q.closed /\ Coming(q) = Coming(conn[link]) => Cut(Coming(conn[link]), Coming(q))
    BY <2>6 DEF Cut
  <2> QED
    BY <1>2, <2>2, <2>4, <2>5, <2>7, <2>8, <2>9 DEF Pushed
<1>4. CASE From # link
  <2>1. conn'[link] = conn[link]
    BY <1>0, <1>4 DEF ControlRefused, ConnsOK
  <2> QED
    BY <1>0, <2>1, StillMoves DEF SaidMore
<1> QED
  BY <1>3, <1>4

LEMMA ListenerMoves ==
    ASSUME TypeInv, Places, Next, Listener, link \in Conns, link' = link
    PROVE  Moves
<1>0. /\ ConnsOK /\ ConnOK(conn[link]) /\ ListenerOK /\ StateOK /\ truth \in Nat
      /\ truth' \in Nat
  BY NumbersMove DEF TypeInv, ConnsOK, StateOK
<1>1. ASSUME conn'[link] = conn[link], ~Unpublished, ~AckDue, UNCHANGED <<told, count>>
      PROVE  Moves
  BY <1>1, StillMoves DEF SaidMore
<1>2. CASE Poll
  <2>1. ~AckDue /\ truth' = truth
    BY <1>2 DEF Poll, AckDue
  <2>2. CASE moved
    <3>1. Announce(truth')
      BY <1>2, <2>1, <2>2 DEF Poll
    <3> QED
      BY <1>0, <2>1, <3>1, AnnounceMoves
  <2>3. CASE ~moved
    BY <1>1, <1>2, <2>1, <2>3 DEF Poll, Unpublished
  <2> QED
    BY <2>2, <2>3
<1>3. CASE PublishControl
  <2>1. ~AckDue /\ Announce(truth')
    BY <1>3 DEF PublishControl, AckDue
  <2> QED
    BY <1>0, <2>1, AnnounceMoves
<1>4. CASE Timeout \/ Register \/ Refresh \/ Heartbeat
  BY <1>1, <1>4 DEF Timeout, Register, Refresh, Heartbeat, Receive, Unpublished,
       AckDue, state
<1>5. CASE SendAnswer
  <2>1. step.to \in Conns /\ step.answer \in Packets /\ step.do = "answer"
    BY <1>0, <1>5, Stepping DEF SendAnswer
  <2>2. conn[step.to].epoch = epoch
    BY <2>1 DEF Places, Referred, Refers
  <2>3. \/ step.answer.kind = "ack" /\ step.answer.epoch = epoch
        \/ step.answer.kind = "unknown"
    BY <2>1 DEF Places, LinkPlaces
  <2>4. ~TellsState(step.answer) /\ ~Unpublished
    BY <2>1, <2>3 DEF TellsState, Unpublished
  <2>5. AckDue => step.to = link /\ step.answer.kind = "ack"
    BY DEF AckDue
  <2>6. Answer(step.to, step.answer) /\ UNCHANGED <<told, count>>
    BY <1>5 DEF SendAnswer, state
  <2> QED
    BY <2>1, <2>2, <2>3, <2>4, <2>5, <2>6, AnswerMoves
<1>6. CASE Synchronise
  <2>1. /\ From \in Conns /\ Head(inbox) = inbox[1] /\ inbox[1].what.sent \in Nat
        /\ step.do = "receive" /\ Receive("sync") /\ inbox[1].from = From
        /\ Len(inbox) \in Nat \ {0}
    BY <1>6, Received, PacketFields DEF Synchronise
  <2> DEFINE p == [kind |-> "synced", sent |-> inbox[1].what.sent]
  <2>2. p \in Packets /\ ~TellsState(p) /\ p.kind = "synced" /\ p.sent = inbox[1].what.sent
    BY <2>1, PacketMade DEF TellsState
  <2>3. conn[From].epoch = epoch
    <3>1. 1 \in 1 .. Len(inbox)
      BY <2>1
    <3>2. Refers(From)
      BY <2>1, <3>1 DEF Refers
    <3> QED
      BY <2>1, <3>2 DEF Places, Referred
  <2>4. Answer(From, p) /\ UNCHANGED <<told, count>> /\ ~Unpublished /\ ~AckDue
    BY <1>6, <2>1 DEF Synchronise, state, Unpublished, AckDue
  <2> HIDE DEF p
  <2> QED
    BY <2>1, <2>2, <2>3, <2>4, AnswerMoves
<1>7. CASE Reply
  BY <1>7, ReplyMoves
<1>8. CASE ControlRefused
  BY <1>8, RefusalMoves
<1>9. CASE ControlPublished \/ ControlBumped
  <2>1. /\ Said(From, truth') /\ truth' = truth + 1 /\ step.do = "receive" /\ Receive("control")
        /\ UNCHANGED <<told, count>>
        /\ step'.do = "publish" \/ (step'.do = "poll" /\ moved')
    BY <1>9 DEF ControlPublished, ControlBumped, Receive, Then
  <2>2. ~AckDue /\ ~Unpublished /\ Unpublished' /\ truth' # 0
    BY <1>0, <2>1 DEF AckDue, Unpublished
  <2>3. CASE From = link
    <3>1. /\ conn'[link].said = Append(conn[link].said, truth')
          /\ conn'[link].pipe = conn[link].pipe /\ conn'[link].outbox = conn[link].outbox
          /\ conn'[link].served = conn[link].served
      BY <1>0, <2>1, <2>3 DEF Said, ConnsOK, ConnOK, Conn
    <3> QED
      BY <1>0, <2>1, <2>2, <2>3, <3>1, StillMoves DEF SaidMore, Handles
  <2>4. CASE From # link
    <3>1. conn'[link] = conn[link]
      BY <1>0, <2>1, <2>4 DEF Said, ConnsOK
    <3> QED
      BY <1>1, <2>1, <2>2, <3>1
  <2> QED
    BY <2>3, <2>4
<1> QED
  BY <1>2, <1>3, <1>4, <1>5, <1>6, <1>7, <1>8, <1>9 DEF Listener

\* Studio, and all of them.
LEMMA StudioMoves ==
    ASSUME TypeInv, Places, Next, Studio, ~Take, link \in Conns, link' = link
    PROVE  Moves
<1>0. /\ ConnsOK /\ ConnOK(conn[link]) /\ link # None
      /\ UNCHANGED <<told, count, moved, step>>
  BY Sizes DEF TypeInv, ConnsOK, Studio, Open, BackoffEnds, Datagrams,
       StreamClosed, NotAnEngine, AckTimeout, Drop, SendHeartbeat, RegisterAgain,
       RetryDue, SendControl, SendSync, state
<1>1. (Unpublished => Unpublished') /\ (AckDue => AckDue')
  BY <1>0 DEF Unpublished, AckDue
<1>2. ASSUME conn'[link].pipe = conn[link].pipe, conn'[link].outbox = conn[link].outbox,
             conn'[link].said = conn[link].said, conn'[link].served = conn[link].served
      PROVE  Moves
  BY <1>0, <1>1, <1>2, StillMoves DEF SaidMore
<1>3. ASSUME NEW r, ConnOK(r), NEW q \in Requests
      PROVE  /\ ConnOK(Sent(r, q))
             /\ Sent(r, q).pipe = r.pipe /\ Sent(r, q).outbox = r.outbox
             /\ Sent(r, q).said = r.said /\ Sent(r, q).served = r.served
  <2>1. ConnOK(Sent(r, q)) /\ (\/ Sent(r, q) = r \/ Sent(r, q) = [r EXCEPT !.up = Append(r.up, q)])
    BY <1>3, SentIs
  <2> QED
    BY <1>3, <2>1 DEF ConnOK, Conn
<1>4. CASE SendHeartbeat
  <2>1. conn'[link] = Sent(conn[link], AskHeartbeat)
    BY <1>0, <1>4 DEF SendHeartbeat, ConnsOK
  <2> QED
    BY <1>0, <1>2, <1>3, <2>1, RequestMade
<1>5. CASE RegisterAgain
  <2> DEFINE q == Sent(conn[link], AskRegister)
             u == Sent(q, AskHeartbeat)
  <2>1. conn'[link] = u
    BY <1>0, <1>5 DEF RegisterAgain, ConnsOK
  <2>2. /\ ConnOK(q) /\ q.pipe = conn[link].pipe /\ q.outbox = conn[link].outbox
        /\ q.said = conn[link].said /\ q.served = conn[link].served
    BY <1>0, <1>3, RequestMade
  <2> HIDE DEF q
  <2>3. /\ u.pipe = q.pipe /\ u.outbox = q.outbox /\ u.said = q.said /\ u.served = q.served
    BY <1>3, <2>2, RequestMade
  <2> QED
    BY <1>2, <2>1, <2>2, <2>3
<1>6. CASE SendControl \/ SendSync
  BY <1>0, <1>2, <1>6 DEF SendControl, SendSync, ConnsOK, ConnOK, Conn
<1>7. CASE UNCHANGED conn
  BY <1>2, <1>7
<1>8. link' # None
  BY <1>0
<1> QED
  BY <1>0, <1>4, <1>5, <1>6, <1>7, <1>8 DEF Studio, Open, BackoffEnds, Datagrams,
       StreamClosed, NotAnEngine, AckTimeout, Drop, RetryDue

LEMMA LinkMoves ==
    ASSUME TypeInv, Places, Next, ~Take, link \in Conns, link' = link
    PROVE  Moves /\ UNCHANGED <<vals, heard, refused, ready, sync>>
<1>0. link # None
  BY Sizes
<1>1. CASE Streams
  <2>1. UNCHANGED <<told, count, moved, step, vals, heard, refused, ready, sync>>
    BY <1>1 DEF Streams, Accept, Read, ReadEnds, Write, Reset, Forget,
         AcceptorEnds, ReceiverEnds, state, studio, model, tally
  <2>2. (Unpublished => Unpublished') /\ (AckDue => AckDue')
    BY <2>1 DEF Unpublished, AckDue
  <2>3. /\ Cut(Coming(conn[link]), Coming(conn'[link]))
        /\ conn'[link].said = conn[link].said
        /\ ~conn'[link].closed => /\ Coming(conn'[link]) = Coming(conn[link])
                                  /\ conn'[link].served = conn[link].served
    BY <1>1, StreamsMove
  <2>4. Live' => Stays(conn[link], conn'[link])
    BY <2>1, <2>2, <2>3 DEF Live, Stays
  <2> QED
    BY <2>1, <2>3, <2>4 DEF Moves, SaidMore
<1>2. CASE Listener
  <2>1. UNCHANGED <<vals, heard, refused, ready, sync>>
    BY <1>2 DEF Listener, Poll, Timeout, Register, Refresh, Reply, Heartbeat,
         SendAnswer, ControlPublished, PublishControl, ControlBumped,
         ControlRefused, Synchronise, studio, model, tally
  <2> QED
    BY <1>2, <2>1, ListenerMoves
<1>3. CASE Engines \/ Publishers
  <2>1. UNCHANGED <<vals, heard, refused, ready, sync>>
    BY <1>3 DEF Engines, Publishers, Stop, Leave, Bind, BindStream, LiveChange,
         PublishEvent, Telemetry, studio, model, tally
  <2> QED
    BY <1>3, <2>1, EnginesMove
<1>4. CASE Studio
  <2>1. UNCHANGED <<vals, heard, refused, ready, sync>>
    BY <1>0, <1>4 DEF Studio, Open, BackoffEnds, Datagrams, StreamClosed,
         NotAnEngine, AckTimeout, Drop, SendHeartbeat, RegisterAgain, RetryDue,
         SendControl, SendSync, studio, model, tally
  <2> QED
    BY <1>4, <2>1, StudioMoves
<1> QED
  BY <1>1, <1>2, <1>3, <1>4 DEF Next

\* Studio takes a packet.
LEMMA TakeMoves ==
    ASSUME TypeInv, Take
    PROVE  LET r == conn[link]
               q == conn'[link]
           IN  /\ Shifted(Coming(r), Coming(q)) /\ Coming(r)[1] = Head(r.pipe)
               /\ q.said = r.said /\ q.served = r.served
               /\ q.closed = r.closed /\ q.epoch = r.epoch
<1>0. /\ ConnsOK /\ ConnOK(conn[link]) /\ link \in Conns /\ conn[link].pipe # <<>>
  BY TakeEffect DEF TypeInv, ConnsOK
<1>1. PICK b \in BOOLEAN : \E d : conn' = [conn EXCEPT ![link] = Followed(conn[link], b, d)]
  BY TakeIs
<1>2. PICK d : conn' = [conn EXCEPT ![link] = Followed(conn[link], b, d)]
  BY <1>1
<1>3. conn'[link] = Followed(conn[link], b, d)
  BY <1>0, <1>2 DEF ConnsOK
<1> QED
  BY <1>0, <1>3, FollowedComing, FollowedIs

-----------------------------------------------------------------------------
(* The last state on its way, or else the one Studio holds, is the last    *)
(* published.                                                              *)

Whole(s, known, v, held, t, g) ==
    \/ \E k \in 1 .. Len(s) :
          /\ TellsState(s[k]) /\ \A j \in 1 .. Len(s) : j > k => ~TellsState(s[j])
          /\ s[k].val >= t /\ s[k].gen = g
    \/ /\ \A k \in 1 .. Len(s) : ~TellsState(s[k])
       /\ known => v >= t /\ held = g

LEMMA WholeMeans ==
    ASSUME NEW s \in Seq(Packets), NEW known, NEW v, NEW held, NEW t, NEW g,
           Whole(s, known, v, held, t, g)
    PROVE  /\ \A k \in LastState(s) : s[k].val >= t /\ s[k].gen = g
           /\ LastState(s) = {} /\ known => v >= t /\ held = g
<1>1. DOMAIN s = 1 .. Len(s) /\ Len(s) \in Nat
  BY LenProperties
<1>2. CASE \E k \in 1 .. Len(s) :
              /\ TellsState(s[k]) /\ \A j \in 1 .. Len(s) : j > k => ~TellsState(s[j])
              /\ s[k].val >= t /\ s[k].gen = g
  <2>1. PICK k \in 1 .. Len(s) :
              /\ TellsState(s[k]) /\ \A j \in 1 .. Len(s) : j > k => ~TellsState(s[j])
              /\ s[k].val >= t /\ s[k].gen = g
    BY <1>2
  <2>2. k \in LastState(s)
    BY <1>1, <2>1 DEF LastState
  <2>3. ASSUME NEW i \in LastState(s)
        PROVE  i = k
    <3>1. i \in 1 .. Len(s) /\ TellsState(s[i]) /\ (k > i => ~TellsState(s[k]))
      BY <1>1 DEF LastState
    <3>2. ~(i > k) /\ ~(k > i)
      BY <2>1, <3>1
    <3> QED
      BY <1>1, <3>1, <3>2
  <2> QED
    BY <2>1, <2>2, <2>3
<1>3. CASE /\ \A k \in 1 .. Len(s) : ~TellsState(s[k])
           /\ known => v >= t /\ held = g
  BY <1>1, <1>3 DEF LastState
<1> QED
  BY <1>2, <1>3 DEF Whole

LEMMA GrownWhole ==
    ASSUME NEW s \in Seq(Packets), NEW u \in Seq(Packets), NEW p \in Packets, Grown(s, u, p),
           NEW known, NEW v, NEW held, NEW t, NEW g,
           \/ TellsState(p) /\ p.val >= t /\ p.gen = g
           \/ ~TellsState(p) /\ Whole(s, known, v, held, t, g)
    PROVE  Whole(u, known, v, held, t, g)
<1>1. /\ Len(s) \in Nat /\ Len(u) = Len(s) + 1 /\ u[Len(s) + 1] = p
      /\ \A i \in 1 .. Len(s) : u[i] = s[i]
  BY LenProperties DEF Grown
<1> DEFINE n == Len(s)
<1> HIDE DEF n
<1>2. n \in Nat /\ Len(u) = n + 1 /\ u[n + 1] = p /\ Len(s) = n
      /\ \A i \in 1 .. n : u[i] = s[i]
  BY <1>1 DEF n
<1>3. n + 1 \in 1 .. Len(u) /\ \A j \in 1 .. Len(u) : ~(j > n + 1)
  BY <1>2
<1>4. CASE TellsState(p) /\ p.val >= t /\ p.gen = g
  BY <1>2, <1>3, <1>4 DEF Whole
<1>5. CASE ~TellsState(p) /\ Whole(s, known, v, held, t, g)
  <2>0. \A j \in 1 .. Len(u) : j \in 1 .. n \/ j = n + 1
    BY <1>2
  <2>1. CASE \E k \in 1 .. Len(s) :
              /\ TellsState(s[k]) /\ \A j \in 1 .. Len(s) : j > k => ~TellsState(s[j])
              /\ s[k].val >= t /\ s[k].gen = g
    <3>1. PICK k \in 1 .. n :
              /\ TellsState(s[k]) /\ \A j \in 1 .. n : j > k => ~TellsState(s[j])
              /\ s[k].val >= t /\ s[k].gen = g
      BY <1>2, <2>1
    <3>2. k \in 1 .. Len(u) /\ u[k] = s[k]
      BY <1>2
    <3>3. \A j \in 1 .. Len(u) : j > k => ~TellsState(u[j])
      BY <1>2, <1>5, <2>0, <3>1
    <3> QED
      BY <3>1, <3>2, <3>3 DEF Whole
  <2>2. CASE /\ \A k \in 1 .. Len(s) : ~TellsState(s[k])
             /\ known => v >= t /\ held = g
    BY <1>2, <1>5, <2>0, <2>2 DEF Whole
  <2> QED
    BY <1>5, <2>1, <2>2 DEF Whole
<1> QED
  BY <1>4, <1>5

LEMMA TakenWhole ==
    ASSUME NEW s \in Seq(Packets), NEW u \in Seq(Packets), Shifted(s, u),
           NEW known, NEW v, NEW held, NEW known2, NEW v2, NEW held2, NEW t, NEW g,
           Whole(s, known, v, held, t, g),
           HeldBy(s[1], known, held, known2, held2), known => held # None,
           TellsState(s[1]) => v2 = s[1].val,
           ~TellsState(s[1]) => v2 = v \/ known2 = FALSE
    PROVE  Whole(u, known2, v2, held2, t, g)
<1>0. /\ Len(s) \in Nat \ {0} /\ 1 \in 1 .. Len(s)
      /\ \A i \in 1 .. Len(u) : i + 1 \in 1 .. Len(s) /\ u[i] = s[i + 1] /\ i + 1 > 1
      /\ \A i \in 2 .. Len(s) : i - 1 \in 1 .. Len(u) /\ u[i - 1] = s[i]
  BY ShiftedIs
<1>1. CASE \E k \in 1 .. Len(s) :
              /\ TellsState(s[k]) /\ \A j \in 1 .. Len(s) : j > k => ~TellsState(s[j])
              /\ s[k].val >= t /\ s[k].gen = g
  <2>1. PICK k \in 1 .. Len(s) :
              /\ TellsState(s[k]) /\ \A j \in 1 .. Len(s) : j > k => ~TellsState(s[j])
              /\ s[k].val >= t /\ s[k].gen = g
    BY <1>1
  <2>2. CASE k = 1
    <3>1. \A i \in 1 .. Len(u) : ~TellsState(u[i])
      BY <1>0, <2>1, <2>2
    <3>2. v2 = s[1].val /\ s[1].val >= t /\ s[1].gen = g
      BY <2>1, <2>2
    <3>3. known2 => held2 = g
      BY <2>1, <2>2 DEF HeldBy, TellsState
    <3> QED
      BY <3>1, <3>2, <3>3 DEF Whole
  <2>3. CASE k # 1
    <3>1. k \in 2 .. Len(s) /\ k - 1 \in 1 .. Len(u) /\ u[k - 1] = s[k]
      BY <1>0, <2>3
    <3>2. ASSUME NEW j \in 1 .. Len(u), j > k - 1
          PROVE  ~TellsState(u[j])
      <4>1. j + 1 > k /\ j + 1 \in 1 .. Len(s) /\ u[j] = s[j + 1]
        BY <1>0, <3>1, <3>2
      <4> QED
        BY <2>1, <4>1
    <3> QED
      BY <2>1, <3>1, <3>2 DEF Whole
  <2> QED
    BY <2>2, <2>3
<1>2. CASE /\ \A k \in 1 .. Len(s) : ~TellsState(s[k])
           /\ known => v >= t /\ held = g
  <2>1. ~TellsState(s[1]) /\ \A i \in 1 .. Len(u) : ~TellsState(u[i])
    BY <1>0, <1>2
  <2>2. known2 => known2 = known /\ held2 = held /\ v2 = v
    BY <2>1 DEF HeldBy
  <2> QED
    BY <1>2, <2>1, <2>2 DEF Whole
<1> QED
  BY <1>1, <1>2 DEF Whole

-----------------------------------------------------------------------------
(* The invariants of the link.                                             *)

\* What is on its way to Studio, and that it is never ahead of the engine.
Carried ==
    /\ vals <= truth
    /\ link # None =>
         LET r == conn[link]
         IN  /\ Ordered(Coming(r), r.epoch, vals, truth)
             /\ Barriers(Coming(r), r.epoch, vals, r.said, heard, refused)

\* Who is not registered yet was sent nothing, and its registration comes first;
\* then the engine makes itself known before it handles anything.
Registered ==
    Live /\ link \notin registry =>
        /\ ~conn[link].served /\ conn[link].said = <<>>
        /\ ~(step.do \in {"reply", "answer"} /\ step.to = link)
        /\ Leads(Waiting(link), link, "register", AfterRegister)
Arrived(j) == Known(Coming(conn[link]), heard, epoch, j)
Greeted ==
    Live => \/ Arrived(Len(Coming(conn[link])) + 1) \/ AckDue
            \/ /\ conn[link].said = <<>>
               /\ Leads(Waiting(link), link, "heartbeat", AfterHeartbeat)

\* The controls are handled in the order they were sent in.
Sequenced == Live => Numbered(Waiting(link), link, Len(conn[link].said), sent)

\* What each came to is on its way, once it is published.
Due(s, v, h, ref, said, pending) ==
    \A k \in 1 .. Len(said) :
        said[k] = 0 \/ ~pending => Reached(s, v, h, ref, epoch, said[k], k, Len(s) + 1)
Answered ==
    Live => Due(Coming(conn[link]), vals, heard, refused, conn[link].said, Unpublished)

\* And so is the last state, once there was a snapshot.
StateKept ==
    Live /\ conn[link].served =>
        Whole(Coming(conn[link]), ready, vals, sync.held, told, count)

LinkInv ==
    Carried /\ Registered /\ Greeted /\ Sequenced /\ Answered /\ StateKept

\* What a link is as it is opened.
LEMMA OpenedLink ==
    ASSUME TypeInv, Places, Next, NEW c \in Conns, Open(c)
    PROVE  /\ link' = c /\ Coming(conn'[c]) = <<>> /\ conn'[c].said = <<>> /\ ~conn'[c].served
           /\ Waiting(c)' = WaitingIn(c, inbox, <<AskRegister, AskHeartbeat>>)
           /\ \A k \in 1 .. Len(inbox) : inbox[k].from # c
           /\ ~(step.do \in {"reply", "answer"} /\ step.to = c)
           /\ UNCHANGED <<registry, step, vals, truth>> /\ sent' = 0
<1>1. conn[c] = Unused /\ conn'[c] = Opened(streamPort) /\ link' = c
  BY OpenedIs
<1>2. ~Refers(c)
  BY <1>1, Sizes DEF Places, Referred, Unused, TypeInv, StateOK
<1>3. /\ Opened(streamPort).pipe = <<>> /\ Opened(streamPort).outbox = <<>>
      /\ Opened(streamPort).said = <<>> /\ ~Opened(streamPort).served
      /\ Opened(streamPort).up = <<AskRegister, AskHeartbeat>>
  BY DEF Opened, Unused
<1>4. <<>> \in Seq(Packets) /\ <<>> \o <<>> = <<>>
  BY EmptySeq, ConcatEmptySeq
<1>5. Coming(conn'[c]) = <<>>
  BY <1>1, <1>3, <1>4 DEF Coming
<1>6. inbox' = inbox /\ UNCHANGED <<registry, step, vals, truth>> /\ sent' = 0
  BY DEF Open, model, state
<1>7. Waiting(c)' = WaitingIn(c, inbox, <<AskRegister, AskHeartbeat>>)
  BY <1>1, <1>3, <1>6 DEF Waiting
<1> QED
  BY <1>1, <1>2, <1>3, <1>5, <1>6, <1>7 DEF Refers

\* What it asks for first.
LEMMA OpenedWaiting ==
    ASSUME NEW c \in Conns, NEW in \in Seq(Entries), \A k \in 1 .. Len(in) : in[k].from # c
    PROVE  LET w == WaitingIn(c, in, <<AskRegister, AskHeartbeat>>)
           IN  /\ Leads(w, c, "register", AfterRegister)
               /\ Leads(w, c, "heartbeat", AfterHeartbeat)
               /\ Numbered(w, c, 0, 0)
<1> DEFINE up == <<AskRegister, AskHeartbeat>>
           w == WaitingIn(c, in, up)
           m == Len(in)
<1>1. up \in Seq(Requests) /\ Len(up) = 2 /\ up[1] = AskRegister /\ up[2] = AskHeartbeat
  BY RequestMade
<1> HIDE DEF up
<1>2. /\ Len(w) = m + 2 /\ m \in Nat
      /\ \A k \in 1 .. m : w[k] = in[k]
      /\ \A k \in 1 .. 2 : w[m + k] = [from |-> c, what |-> up[k]]
  <2>1. /\ Len(w) = m + Len(up) /\ m \in Nat
        /\ \A k \in 1 .. m : w[k] = in[k]
        /\ \A k \in 1 .. Len(up) : w[m + k] = [from |-> c, what |-> up[k]]
    BY <1>1, WaitingIs
  <2> HIDE DEF w, m
  <2> QED
    BY <1>1, <2>1
<1> HIDE DEF w, m
<1>3. m + 1 \in 1 .. Len(w) /\ m + 2 \in 1 .. Len(w) /\ 1 \in 1 .. 2 /\ 2 \in 1 .. 2
      /\ \A k \in 1 .. Len(w) : k \in 1 .. m \/ k = m + 1 \/ k = m + 2
  BY <1>2
<1>4. /\ w[m + 1].from = c /\ w[m + 1].what = AskRegister
      /\ w[m + 2].from = c /\ w[m + 2].what = AskHeartbeat
  BY <1>1, <1>2, <1>3
<1>5. \A k \in 1 .. m : w[k].from # c
  BY <1>2 DEF m
<1>6. Ones(w, c) = {m + 1, m + 2}
  BY <1>3, <1>4, <1>5 DEF Ones
<1>7. m + 1 < m + 2 /\ m \in Nat
  BY <1>2
<1>8. AskRegister.kind = "register" /\ AskHeartbeat.kind = "heartbeat"
  BY DEF AskRegister, AskHeartbeat
<1>9. Leads(w, c, "register", AfterRegister) /\ Leads(w, c, "heartbeat", AfterHeartbeat)
  BY <1>4, <1>6, <1>7, <1>8 DEF Leads, AfterRegister, AfterHeartbeat
<1>10. \A k \in Ones(w, c) : w[k].what.kind \notin {"control", "sync"}
  BY <1>4, <1>6, <1>8
<1>11. \A x \in 0 + 1 .. 0 : FALSE
  OBVIOUS
<1>12. Numbered(w, c, 0, 0)
  BY <1>10, <1>11 DEF Numbered, Before
<1> QED
  BY <1>9, <1>12 DEF w, up

LEMMA InitLink ==
    ASSUME Init
    PROVE  LinkInv
<1>1. link = None /\ vals = 0 /\ truth = 1
  BY DEF Init
<1> QED
  BY <1>1 DEF LinkInv, Carried, Registered, Greeted, Sequenced, Answered,
       StateKept, Live

\* The facts of the link that a step starts from and ends in.
LEMMA LinkFacts ==
    ASSUME TypeInv, Next, link \in Conns, link' = link
    PROVE  /\ link # None /\ ConnOK(conn[link]) /\ ConnOK(conn'[link])
           /\ Coming(conn[link]) \in Seq(Packets) /\ Coming(conn'[link]) \in Seq(Packets)
           /\ conn[link].said \in Seq(Nat) /\ Len(conn[link].said) \in Nat
           /\ truth \in Nat /\ truth' \in Nat /\ truth <= truth'
           /\ vals \in Nat /\ vals' \in Nat /\ told' \in Nat /\ told' <= truth'
           /\ sent \in Nat /\ sent' \in Nat /\ epoch \in Nat /\ inbox \in Seq(Entries)
           /\ conn[link].up \in Seq(Requests)
<1>1. TypeInv'
  BY TypesKept
<1>2. ConnOK(conn[link]) /\ ConnOK(conn'[link])
  BY <1>1 DEF TypeInv, ConnsOK
<1>3. /\ conn[link].said \in Seq(Nat) /\ Len(conn[link].said) \in Nat
      /\ conn[link].up \in Seq(Requests)
  BY <1>2, LenProperties DEF ConnOK, Conn
<1>4. /\ vals \in Nat /\ vals' \in Nat /\ told' \in Nat /\ told' <= truth'
      /\ sent \in Nat /\ sent' \in Nat /\ epoch \in Nat /\ inbox \in Seq(Entries)
  BY <1>1 DEF TypeInv, StudioOK, StateOK, ListenerOK
<1> QED
  BY <1>2, <1>3, <1>4, NumbersMove, ComingOK, Sizes

\* A request of the link is handled in its turn.
LEMMA HandledNumber ==
    ASSUME TypeInv, Places, LinkInv, Live, NEW kind, Handles(kind)
    PROVE  /\ kind = "control" => inbox[1].what.number = Len(conn[link].said) + 1
           /\ kind = "sync" => inbox[1].what.sent <= Len(conn[link].said)
           /\ inbox[1].what.kind = kind /\ 1 \in Ones(Waiting(link), link)
           /\ Waiting(link)[1] = inbox[1]
<1>0. /\ link \in Conns /\ ConnOK(conn[link]) /\ inbox \in Seq(Entries) /\ inbox # <<>>
      /\ conn[link].up \in Seq(Requests) /\ conn[link].said \in Seq(Nat) /\ sent \in Nat
  BY LiveServed DEF TypeInv, ConnsOK, ConnOK, Conn, ListenerOK, StudioOK, Handles,
       Receive
<1>1. inbox[1].from = link /\ inbox[1].what.kind = kind
  BY Received DEF Handles
<1>2. /\ Waiting(link) \in Seq(Entries)
      /\ Waiting(link)[1] = inbox[1] /\ Len(Waiting(link)) > 0
  BY <1>0, WaitingIs, WaitingTaken DEF Waiting
<1>3. 1 \in Ones(Waiting(link), link)
  <2>1. Len(Waiting(link)) \in Nat
    BY <1>2, LenProperties
  <2>2. 1 \in 1 .. Len(Waiting(link))
    BY <1>2, <2>1
  <2> QED
    BY <1>1, <1>2, <2>2 DEF Ones
<1>4. Numbered(Waiting(link), link, Len(conn[link].said), sent)
  BY DEF LinkInv, Sequenced
<1>5. Len(conn[link].said) \in Nat
  BY <1>0, LenProperties
<1> QED
  BY <1>0, <1>1, <1>2, <1>3, <1>4, <1>5, NumberedHead

LEMMA CarriedKept ==
    ASSUME TypeInv, Places, LinkInv, Next
    PROVE  Carried'
<1>0. vals <= truth /\ truth \in Nat /\ truth' \in Nat /\ truth <= truth' /\ vals \in Nat
  BY NumbersMove DEF LinkInv, Carried, TypeInv, StudioOK
<1>1. vals' <= truth'
  <2>1. CASE Take
    <3>1. /\ link \in Conns /\ link' = link /\ truth' = truth
          /\ TakenBy(Head(conn[link].pipe), vals, heard, refused, vals', heard', refused')
      BY <2>1, TakeEffect DEF state
    <3>2. /\ Coming(conn[link]) \in Seq(Packets) /\ Coming(conn'[link]) \in Seq(Packets)
          /\ vals' \in Nat /\ link # None
      BY <3>1, LinkFacts
    <3>3. /\ Shifted(Coming(conn[link]), Coming(conn'[link]))
          /\ Coming(conn[link])[1] = Head(conn[link].pipe)
      BY <2>1, TakeMoves
    <3>4. Ordered(Coming(conn[link]), conn[link].epoch, vals, truth)
      BY <3>2 DEF LinkInv, Carried
    <3>5. TakenBy(Coming(conn[link])[1], vals, heard, refused, vals', heard', refused')
      BY <3>1, <3>3
    <3>6. Ordered(Coming(conn'[link]), conn[link].epoch, vals', truth) /\ vals' <= truth
      BY <1>0, <3>2, <3>3, <3>4, <3>5, TakenOrdered
    <3> QED
      BY <3>1, <3>6
  <2>2. CASE Datagrams
    <3>1. vals' = told /\ truth' = truth /\ told <= truth
      BY <2>2 DEF Datagrams, state, TypeInv, StateOK
    <3> QED
      BY <3>1
  <2>3. CASE vals' = vals
    BY <1>0, <2>3
  <2> QED
    BY <2>1, <2>2, <2>3 DEF Next, Streams, Listener, Engines, Publishers, Studio,
         studio, model, Drop, Accept, Read, ReadEnds, Write, Reset, Forget,
         ReceiverEnds, AcceptorEnds, Stop, Leave, Bind, BindStream, LiveChange,
         PublishEvent, Telemetry, Poll, Timeout, Register, Refresh, Reply,
         Heartbeat, SendAnswer, ControlPublished, PublishControl, ControlBumped,
         ControlRefused, Synchronise, Open, BackoffEnds, StreamClosed,
         NotAnEngine, AckTimeout, SendHeartbeat, RegisterAgain, RetryDue,
         SendControl, SendSync
<1> DEFINE OK(q) == /\ Ordered(Coming(q), q.epoch, vals', truth')
                    /\ Barriers(Coming(q), q.epoch, vals', q.said, heard', refused')
<1>2. ASSUME NEW c \in Conns, Open(c)
      PROVE  OK(conn'[link'])
  <2>1. link' = c /\ Coming(conn'[c]) = <<>>
    BY <1>2, OpenedLink
  <2>2. \A i \in 1 .. Len(<<>>) : FALSE
    BY EmptySeq
  <2> QED
    BY <2>1, <2>2 DEF Ordered, Barriers
<1>3. ASSUME link' = link, link \in Conns, conn[link].epoch # None, ~Forget(link)
      PROVE  OK(conn'[link'])
  <2> DEFINE r == conn[link]
             q == conn'[link]
             s == Coming(r)
             t == Coming(q)
  <2>1. /\ s \in Seq(Packets) /\ t \in Seq(Packets) /\ r.said \in Seq(Nat) /\ link # None
        /\ vals' \in Nat
    BY <1>3, LinkFacts
  <2>2. /\ Ordered(s, r.epoch, vals, truth)
        /\ Barriers(s, r.epoch, vals, r.said, heard, refused)
    BY <2>1 DEF LinkInv, Carried
  <2>3. q.epoch = r.epoch
    BY <1>3, EpochKept
  <2>4. Ordered(s, r.epoch, vals, truth')
    BY <1>0, <2>1, <2>2, TopKeeps
  <2>5. CASE Take
    <3>1. /\ truth' = truth
          /\ TakenBy(Head(r.pipe), vals, heard, refused, vals', heard', refused')
      BY <2>5, TakeEffect DEF state
    <3>2. Shifted(s, t) /\ s[1] = Head(r.pipe) /\ q.said = r.said
      BY <2>5, TakeMoves
    <3> HIDE DEF s, t, r, q
    <3>6. TakenBy(s[1], vals, heard, refused, vals', heard', refused')
      BY <3>1, <3>2
    <3>3. Ordered(t, r.epoch, vals', truth) /\ vals' <= truth
      BY <1>0, <2>1, <2>2, <3>2, <3>6, TakenOrdered
    <3>4. Barriers(t, r.epoch, vals', r.said, heard', refused')
      BY <1>0, <2>1, <2>2, <3>1, <3>2, TakenBarriers
    <3>5. Ordered(t, q.epoch, vals', truth') /\ Barriers(t, q.epoch, vals', q.said, heard', refused')
      BY <2>3, <3>1, <3>2, <3>3, <3>4
    <3> QED
      BY <1>3, <3>5 DEF t, q
  <2>6. CASE ~Take
    <3>1. Moves /\ vals' = vals /\ heard' = heard /\ refused' = refused
      BY <1>3, <2>6, LinkMoves
    <3>2. ASSUME NEW x \in Nat
          PROVE  Barriers(s, r.epoch, vals, Append(r.said, x), heard, refused)
      BY <2>1, <2>2, SaidKeeps
    <3>3. ASSUME SaidMore(r, q)
          PROVE  Barriers(s, r.epoch, vals, q.said, heard, refused)
      BY <2>2, <3>2, <3>3 DEF SaidMore
    <3>4. CASE Cut(s, t) /\ SaidMore(r, q)
      <4>1. Barriers(s, r.epoch, vals, q.said, heard, refused)
        BY <3>3, <3>4
      <4> HIDE DEF s, t, r, q
      <4>2. /\ Ordered(t, r.epoch, vals, truth')
            /\ Barriers(t, r.epoch, vals, q.said, heard, refused)
        BY <2>1, <2>4, <3>4, <4>1, CutKeeps
      <4>3. Ordered(t, q.epoch, vals', truth') /\ Barriers(t, q.epoch, vals', q.said, heard', refused')
        BY <2>3, <3>1, <4>2
      <4> QED
        BY <1>3, <4>3 DEF t, q
    <3>5. ASSUME NEW p \in Packets, Gains(r, q, p)
          PROVE  OK(conn'[link'])
      <4>1. /\ Grown(s, t, p) /\ ~r.closed /\ r.epoch = epoch
            /\ TellsState(p) => p.val = truth'
            /\ p.kind = "ack" => p.epoch = epoch
            /\ p.kind = "synced" =>
                  Handles("sync") /\ p.sent = inbox[1].what.sent
            /\ SaidMore(r, q) /\ (q.said = r.said \/ p.kind = "error")
        BY <3>5 DEF Gains, SaidMore
      <4>2. Live
        BY <2>1, <4>1 DEF Live
      <4>3. ASSUME p.kind = "synced"
            PROVE  /\ p.sent <= Len(r.said)
                   /\ \A k \in 1 .. p.sent :
                         Reached(s, vals, heard, refused, r.epoch, r.said[k], k, Len(s) + 1)
        <5>1. p.sent <= Len(r.said) /\ p.sent \in Nat
          BY <4>1, <4>2, <4>3, HandledNumber, PacketFields
        <5>2. ~Unpublished
          BY <4>1, <4>3 DEF Handles, Receive, Unpublished
        <5>3. Due(s, vals, heard, refused, r.said, Unpublished)
          BY <4>2 DEF LinkInv, Answered
        <5>4. Len(r.said) \in Nat
          BY <2>1, LenProperties
        <5> HIDE DEF s, r
        <5>5. \A k \in 1 .. p.sent : k \in 1 .. Len(r.said)
          BY <5>1, <5>4
        <5> QED
          BY <4>1, <5>1, <5>2, <5>3, <5>5 DEF Due
      <4>4. Barriers(s, r.epoch, vals, q.said, heard, refused)
        BY <3>3, <4>1
      <4>5. p.kind = "synced" =>
                /\ p.sent <= Len(q.said)
                /\ \A k \in 1 .. p.sent :
                      Reached(s, vals, heard, refused, r.epoch, q.said[k], k, Len(s) + 1)
        BY <4>1, <4>3
      <4>6. vals <= truth'
        BY <1>0
      <4> HIDE DEF s, t, r, q
      <4>7. Ordered(t, r.epoch, vals, truth')
        BY <1>0, <2>1, <2>4, <4>1, <4>6, GrownOrdered
      <4>8. Barriers(t, r.epoch, vals, q.said, heard, refused)
        BY <2>1, <4>1, <4>4, <4>5, GrownBarriers
      <4>9. Ordered(t, q.epoch, vals', truth') /\ Barriers(t, q.epoch, vals', q.said, heard', refused')
        BY <2>3, <3>1, <4>7, <4>8
      <4> QED
        BY <1>3, <4>9 DEF t, q
    <3> QED
      BY <3>1, <3>4, <3>5 DEF Moves
  <2> QED
    BY <2>5, <2>6
<1>4. link' # None => OK(conn'[link'])
  BY <1>2, <1>3, LinkStays
<1> QED
  BY <1>1, <1>4 DEF Carried

\* A request of the link is handled by the action that is for it.
LEMMA HandledBy ==
    ASSUME TypeInv, NEW kind, Listener, Receive(kind)
    PROVE  /\ kind \in {"register"} \cup AfterRegister
           /\ kind = "register" => Register
           /\ kind = "heartbeat" => Heartbeat
           /\ kind = "control" => ControlPublished \/ ControlBumped \/ ControlRefused
           /\ kind = "refresh" => Refresh
           /\ kind = "sync" => Synchronise
<1>1. step.do = "receive" /\ inbox # <<>> /\ Head(inbox).what.kind = kind
  BY DEF Receive
<1>2. ~Poll /\ ~Timeout /\ ~Reply /\ ~SendAnswer /\ ~PublishControl
  BY <1>1 DEF Poll, Timeout, Reply, SendAnswer, PublishControl
<1>3. CASE Register
  <2>1. kind = "register"
    BY <1>1, <1>3 DEF Register, Receive
  <2> QED
    BY <2>1, <1>3
<1>4. CASE Refresh
  <2>1. kind = "refresh"
    BY <1>1, <1>4 DEF Refresh, Receive
  <2> QED
    BY <2>1, <1>4 DEF AfterRegister
<1>5. CASE Heartbeat
  <2>1. kind = "heartbeat"
    BY <1>1, <1>5 DEF Heartbeat, Receive
  <2> QED
    BY <2>1, <1>5 DEF AfterRegister
<1>6. CASE ControlPublished \/ ControlBumped \/ ControlRefused
  <2>1. kind = "control"
    BY <1>1, <1>6 DEF ControlPublished, ControlBumped, ControlRefused, Receive
  <2> QED
    BY <2>1, <1>6 DEF AfterRegister
<1>7. CASE Synchronise
  <2>1. kind = "sync"
    BY <1>1, <1>7 DEF Synchronise, Receive
  <2> QED
    BY <2>1, <1>7 DEF AfterRegister
<1> QED
  BY <1>2, <1>3, <1>4, <1>5, <1>6, <1>7 DEF Listener

\* Whom the listener answers next.
LEMMA ToFrom ==
    ASSUME TypeInv, Next, step' # step, step'.do \in {"reply", "answer"}
    PROVE  \E kind \in {"register", "refresh", "heartbeat"} :
              Listener /\ Receive(kind) /\ step'.to = From
<1>1. CASE Listener
  <2>1. ~(\/ Poll \/ Timeout \/ Reply \/ SendAnswer \/ ControlPublished
          \/ PublishControl \/ ControlBumped \/ ControlRefused \/ Synchronise)
    <3>1. step'.do \notin {"poll", "receive", "publish"}
      OBVIOUS
    <3> QED
      BY <3>1 DEF Poll, Timeout, Reply, SendAnswer, ControlPublished,
           PublishControl, ControlBumped, ControlRefused, Synchronise, Then
  <2>2. CASE Register
    <3>1. Receive("register") /\ step'.to = From
      BY <2>2 DEF Register, Then
    <3> QED
      BY <1>1, <3>1
  <2>3. CASE Refresh
    <3>1. Receive("refresh") /\ step'.to = From
      BY <2>3 DEF Refresh, Then
    <3> QED
      BY <1>1, <3>1
  <2>4. CASE Heartbeat
    <3>1. Receive("heartbeat") /\ step'.to = From
      BY <2>4 DEF Heartbeat, Then
    <3> QED
      BY <1>1, <3>1
  <2> QED
    BY <1>1, <2>1, <2>2, <2>3, <2>4 DEF Listener
<1>2. CASE Streams
  BY <1>2 DEF Streams, Accept, Read, ReadEnds, Write, Reset, Forget, AcceptorEnds,
       ReceiverEnds
<1>3. CASE Engines
  BY <1>3 DEF Engines, Stop, Leave, Bind, BindStream
<1>4. CASE Publishers
  BY <1>4 DEF Publishers, LiveChange, PublishEvent, Telemetry
<1>5. CASE Studio
  BY <1>5 DEF Studio, Open, BackoffEnds, Datagrams, Take, StreamClosed,
       NotAnEngine, AckTimeout, SendHeartbeat, RegisterAgain, RetryDue,
       SendControl, SendSync, Drop
<1> QED
  BY <1>1, <1>2, <1>3, <1>4, <1>5 DEF Next

\* Who is registered stays so while its connection is open.
LEMMA RegistryKept ==
    ASSUME TypeInv, Places, Next, Live, Live', link' = link, link \in registry
    PROVE  link \in registry'
<1>1. ~conn[link].closed /\ ~conn'[link].closed /\ link \in Conns /\ ~Bind
  BY LiveServed DEF Live
<1>2. ASSUME NEW p, Broadcast(p)
      PROVE  link \in registry'
  BY <1>1, <1>2 DEF Broadcast, Alive
<1>3. ASSUME NEW v, Announce(v)
      PROVE  link \in registry'
  BY <1>2, <1>3 DEF Announce
<1>4. CASE Listener
  <2>1. CASE Poll
    BY <1>3, <2>1 DEF Poll
  <2>2. CASE PublishControl
    BY <1>3, <2>2 DEF PublishControl
  <2> QED
    BY <1>4, <2>1, <2>2 DEF Listener, Timeout, Register, Refresh, Reply,
         Heartbeat, SendAnswer, ControlPublished, ControlBumped, ControlRefused,
         Synchronise
<1>5. CASE Streams
  <2>1. ASSUME NEW c \in Conns, ReadEnds(c)
        PROVE  link \in registry'
    <3>1. CASE c = link
      <4>1. conn'[link] = [Shut(conn[link]) EXCEPT !.reading = FALSE]
        BY <1>1, <2>1, <3>1 DEF ReadEnds, TypeInv, ConnsOK
      <4>2. conn'[link].closed
        <5>1. Shut(conn[link]) \in Conn /\ Shut(conn[link]).closed
          BY <1>1, ShutOK DEF TypeInv, ConnsOK, ConnOK
        <5> QED
          BY <4>1, <5>1 DEF Conn
      <4> QED
        BY <4>2, <1>1
    <3> QED
      BY <2>1, <3>1 DEF ReadEnds
  <2> QED
    BY <1>5, <2>1 DEF Streams, Accept, Read, Write, Reset, Forget, AcceptorEnds,
         ReceiverEnds
<1>6. CASE Engines
  BY <1>1, <1>2, <1>6 DEF Engines, Stop, Leave, BindStream
<1>7. CASE Publishers
  BY <1>2, <1>3, <1>7 DEF Publishers, LiveChange, PublishEvent, Telemetry
<1>8. CASE Studio
  BY <1>8 DEF Studio, Open, BackoffEnds, Datagrams, Take, StreamClosed,
       NotAnEngine, AckTimeout, SendHeartbeat, RegisterAgain, RetryDue,
       SendControl, SendSync, Drop
<1> QED
  BY <1>4, <1>5, <1>6, <1>7, <1>8 DEF Next

\* The invariants of the link, one by one, where the link is not a new one.
LEMMA HandledFirst ==
    ASSUME TypeInv, Places, LinkInv, NEW kind, Handles(kind), link' = link, Live,
           link \notin registry
    PROVE  kind = "register" /\ link \in registry'
<1>1. /\ Waiting(link) \in Seq(Entries) /\ 1 \in Ones(Waiting(link), link)
      /\ Waiting(link)[1].what.kind = kind
  BY WaitingHandled
<1>2. Leads(Waiting(link), link, "register", AfterRegister)
  BY DEF LinkInv, Registered
<1>3. kind \notin AfterRegister
  <2> HIDE DEF AfterRegister
  <2> QED
    BY <1>1, <1>2, LeadsHead
<1>4. kind = "register" /\ Register
  BY <1>3, HandledBy DEF Handles
<1> QED
  BY <1>4 DEF Register, Handles

\* What is said changes only as a control of the link is handled.
LEMMA SaidKept ==
    ASSUME TypeInv, Places, Next, link \in Conns, link' = link, Live'
    PROVE  \/ conn'[link].said = conn[link].said
           \/ /\ \E x \in Nat : conn'[link].said = Append(conn[link].said, x)
              /\ Handles("control")
<1>0. truth' \in Nat /\ 0 \in Nat
  BY NumbersMove
<1>1. CASE Take
  BY <1>1, TakeMoves
<1>2. CASE ~Take
  <2>1. Moves
    BY <1>2, LinkMoves
  <2> QED
    BY <1>0, <2>1 DEF Moves, Stays, Gains
<1> QED
  BY <1>1, <1>2

LEMMA ServedKept ==
    ASSUME TypeInv, Places, Next, link \in Conns, link' = link, Live', ~conn[link].served,
           ~(step.do \in {"reply", "answer"} /\ step.to = link)
    PROVE  ~conn'[link].served
<1>1. CASE Take
  BY <1>1, TakeMoves
<1>2. CASE ~Take
  <2>1. Moves
    BY <1>2, LinkMoves
  <2> QED
    BY <2>1 DEF Moves, Stays, Gains
<1> QED
  BY <1>1, <1>2

LEMMA RegisteredKept ==
    ASSUME TypeInv, Places, LinkInv, Next
    PROVE  Registered'
<1> SUFFICES ASSUME Live', link' \notin registry'
             PROVE  /\ ~conn'[link'].served /\ conn'[link'].said = <<>>
                    /\ ~(step'.do \in {"reply", "answer"} /\ step'.to = link')
                    /\ Leads(Waiting(link)', link', "register", AfterRegister)
  <2> HIDE DEF AfterRegister
  <2> QED
    BY DEF Registered
<1> HIDE DEF AfterRegister
<1>1. CASE \E c \in Conns : Open(c)
  <2>1. PICK c \in Conns : Open(c)
    BY <1>1
  <2>2. /\ link' = c /\ conn'[c].said = <<>> /\ ~conn'[c].served /\ step' = step
        /\ Waiting(c)' = WaitingIn(c, inbox, <<AskRegister, AskHeartbeat>>)
        /\ \A k \in 1 .. Len(inbox) : inbox[k].from # c
        /\ ~(step.do \in {"reply", "answer"} /\ step.to = c)
    BY <2>1, OpenedLink
  <2>3. inbox \in Seq(Entries)
    BY DEF TypeInv, ListenerOK
  <2>4. Leads(WaitingIn(c, inbox, <<AskRegister, AskHeartbeat>>), c, "register", AfterRegister)
    BY <2>2, <2>3, OpenedWaiting
  <2>5. Waiting(link)' = Waiting(c)'
    BY <2>2 DEF Waiting
  <2> QED
    BY <2>2, <2>4, <2>5
<1>2. CASE Live /\ link' = link /\ link \in Conns
  <2>1. link \notin registry
    BY <1>2, RegistryKept
  <2>2. /\ ~conn[link].served /\ conn[link].said = <<>>
        /\ ~(step.do \in {"reply", "answer"} /\ step.to = link)
        /\ Leads(Waiting(link), link, "register", AfterRegister)
    BY <1>2, <2>1 DEF LinkInv, Registered
  <2>3. \A kind : ~Handles(kind)
    BY <1>2, <2>1, HandledFirst
  <2>4. conn'[link].said = <<>>
    BY <1>2, <2>2, <2>3, SaidKept
  <2>5. ~conn'[link].served
    BY <1>2, <2>2, ServedKept
  <2>6. ~(step'.do \in {"reply", "answer"} /\ step'.to = link)
    <3>1. CASE step' = step
      BY <2>2, <3>1
    <3>2. CASE step' # step
      BY <2>3, <3>2, ToFrom DEF Handles
    <3> QED
      BY <3>1, <3>2
  <2>7. Leads(Waiting(link)', link, "register", AfterRegister)
    <3>1. ~Leave /\ 0 \in Nat
      BY <1>2, LiveServed
    <3>2. Follows(Waiting(link), Waiting(link)', link, 0, sent, sent')
      BY <1>2, <2>3, <3>1, WaitingKept
    <3> QED
      BY <2>2, <3>2 DEF Follows
  <2> QED
    BY <1>2, <2>4, <2>5, <2>6, <2>7
<1> QED
  BY <1>1, <1>2, LiveFrom

\* The engine made itself known, is about to, or will before anything else.
LEMMA KnownKept ==
    ASSUME TypeInv, Places, LinkInv, Next, link' = link, link \in Conns, Live, Live',
           epoch' = epoch,
           Arrived(Len(Coming(conn[link])) + 1) \/ AckDue
    PROVE  Arrived(Len(Coming(conn[link])) + 1)' \/ AckDue'
<1> DEFINE s == Coming(conn[link])
           t == Coming(conn'[link])
           n == Len(s) + 1
           m == Len(t) + 1
<1>0. /\ s \in Seq(Packets) /\ t \in Seq(Packets) /\ link # None /\ vals \in Nat
      /\ \A i \in 1 .. Len(s) : s[i].kind = "ack" => s[i].epoch = epoch
  BY LinkFacts DEF LinkInv, Carried, Ordered, Live
<1>1. Len(s) \in Nat /\ Len(t) \in Nat /\ n \in Nat /\ m \in Nat
  BY <1>0, LenProperties
<1> SUFFICES ASSUME Known(s, heard, epoch, n) \/ AckDue
             PROVE  Known(t, heard', epoch, m) \/ AckDue'
  BY DEF Arrived
<1> HIDE DEF s, t
<1>2. CASE Take
  <2>1. /\ Shifted(s, t) /\ s[1] = Head(conn[link].pipe)
        /\ TakenBy(Head(conn[link].pipe), vals, heard, refused, vals', heard', refused')
        /\ step' = step
    BY <1>2, TakeMoves, TakeEffect DEF s, t
  <2>2. Len(s) = Len(t) + 1
    BY <2>1 DEF Shifted
  <2>3. CASE AckDue
    BY <2>1, <2>3 DEF AckDue
  <2>4. CASE Known(s, heard, epoch, n)
    <3>1. TakenBy(s[1], vals, heard, refused, vals', heard', refused')
      BY <2>1
    <3>2. 1 \in 1 .. Len(s) /\ n >= 2 /\ n - 1 = m
      BY <1>1, <2>2
    <3>3. s[1].kind = "ack" => s[1].epoch = epoch
      BY <1>0, <3>2
    <3> HIDE DEF n, m
    <3>4. Known(t, heard', epoch, n - 1)
      BY <1>0, <1>1, <2>1, <2>4, <3>1, <3>2, <3>3, TakenKnown
    <3> QED
      BY <3>2, <3>4
  <2> QED
    BY <2>3, <2>4
<1>3. CASE ~Take
  <2>1. Moves /\ heard' = heard
    BY <1>3, LinkMoves
  <2>2. CASE Stays(conn[link], conn'[link])
    BY <2>1, <2>2 DEF Stays, s, t
  <2>3. ASSUME NEW p \in Packets, Gains(conn[link], conn'[link], p)
        PROVE  Known(t, heard', epoch, m) \/ AckDue'
    <3>1. Grown(s, t, p) /\ (AckDue => AckDue' \/ p.kind = "ack")
      BY <2>3 DEF Gains, s, t
    <3>2. Len(t) = Len(s) + 1 /\ t[Len(s) + 1] = p /\ Agree(s, t, Len(s))
      BY <1>1, <3>1 DEF Grown, Agree
    <3>3. Len(s) + 1 \in 1 .. Len(t) /\ Len(s) + 1 < m /\ n <= Len(s) + 1 /\ n <= m
      BY <1>1, <3>2
    <3>4. CASE p.kind = "ack"
      BY <3>2, <3>3, <3>4 DEF Known
    <3>5. CASE Known(s, heard, epoch, n)
      <4> HIDE DEF n, m
      <4>1. Known(t, heard, epoch, m)
        BY <1>0, <1>1, <3>2, <3>3, <3>5, KnownAgrees
      <4> QED
        BY <2>1, <4>1
    <3> QED
      BY <3>1, <3>4, <3>5
  <2> QED
    BY <2>1, <2>2, <2>3 DEF Moves
<1> QED
  BY <1>2, <1>3

\* A control handled is told of.
LEMMA ControlSays ==
    ASSUME TypeInv, Next, ControlPublished \/ ControlBumped \/ ControlRefused, From = link,
           link \in Conns, link' = link
    PROVE  \E x \in Nat : conn'[link].said = Append(conn[link].said, x)
<1>1. truth' \in Nat /\ 0 \in Nat /\ ConnOK(conn[link])
  BY NumbersMove DEF TypeInv, ConnsOK
<1>2. CASE ControlPublished \/ ControlBumped
  <2>1. conn' = [conn EXCEPT ![link].said = Append(@, truth')]
    BY <1>2 DEF ControlPublished, ControlBumped, Said
  <2>2. conn'[link].said = Append(conn[link].said, truth')
    BY <1>1, <2>1 DEF TypeInv, ConnsOK, ConnOK, Conn
  <2> QED
    BY <1>1, <2>2
<1>3. CASE ControlRefused
  <2> DEFINE error == [kind |-> "error", of |-> Head(inbox).what.number]
             q == Push(conn[link], error)
  <2>1. error \in Packets
    <3>1. Head(inbox).what \in Requests /\ Head(inbox).what.kind = "control"
      BY <1>3, Received DEF ControlRefused
    <3> QED
      BY <3>1, PacketFields, PacketMade
  <2>2. conn' = [conn EXCEPT ![link] = [q EXCEPT !.said = Append(@, 0)]]
    BY <1>3 DEF ControlRefused
  <2> HIDE DEF error
  <2>3. ConnOK(q) /\ q.said = conn[link].said
    BY <1>1, <2>1, PushIs, PushKeeps
  <2> HIDE DEF q
  <2>4. conn'[link].said = Append(q.said, 0)
    BY <1>1, <2>2, <2>3 DEF TypeInv, ConnsOK, ConnOK, Conn
  <2> QED
    BY <1>1, <2>3, <2>4
<1> QED
  BY <1>2, <1>3

LEMMA GreetedKept ==
    ASSUME TypeInv, Places, LinkInv, Next
    PROVE  Greeted'
<1> DEFINE First == /\ conn[link].said = <<>>
                    /\ Leads(Waiting(link), link, "heartbeat", AfterHeartbeat)
<1> SUFFICES ASSUME Live'
             PROVE  Arrived(Len(Coming(conn[link])) + 1)' \/ AckDue' \/ First'
  <2> HIDE DEF AfterHeartbeat
  <2> QED
    BY DEF Greeted
<1> HIDE DEF AfterHeartbeat
<1>1. CASE \E c \in Conns : Open(c)
  <2>1. PICK c \in Conns : Open(c)
    BY <1>1
  <2>2. /\ link' = c /\ conn'[c].said = <<>>
        /\ Waiting(c)' = WaitingIn(c, inbox, <<AskRegister, AskHeartbeat>>)
        /\ \A k \in 1 .. Len(inbox) : inbox[k].from # c
    BY <2>1, OpenedLink
  <2>3. inbox \in Seq(Entries)
    BY DEF TypeInv, ListenerOK
  <2>4. Leads(WaitingIn(c, inbox, <<AskRegister, AskHeartbeat>>), c, "heartbeat",
              AfterHeartbeat)
    BY <2>2, <2>3, OpenedWaiting
  <2>5. Waiting(link)' = Waiting(c)'
    BY <2>2 DEF Waiting
  <2> QED
    BY <2>2, <2>4, <2>5
<1>2. CASE Live /\ link' = link /\ link \in Conns /\ epoch' = epoch
  <2>1. CASE Arrived(Len(Coming(conn[link])) + 1) \/ AckDue
    BY <1>2, <2>1, KnownKept
  <2>2. CASE First
    <3>1. CASE \E kind : Handles(kind)
      <4>1. PICK kind : Handles(kind)
        BY <3>1
      <4>2. /\ Waiting(link) \in Seq(Entries) /\ Waiting(link)' \in Seq(Entries)
            /\ Shifted(Waiting(link), Waiting(link)')
            /\ 1 \in Ones(Waiting(link), link) /\ Waiting(link)[1].what.kind = kind
        BY <1>2, <4>1, WaitingHandled
      <4>3. kind \notin AfterHeartbeat
        BY <2>2, <4>2, LeadsHead
      <4>4. ~Handles("control")
        <5>1. kind # "control"
          BY <4>3 DEF AfterHeartbeat
        <5> QED
          BY <4>1, <5>1 DEF Handles, Receive
      <4>5. conn'[link].said = <<>>
        BY <1>2, <2>2, <4>4, SaidKept
      <4>6. CASE kind = "heartbeat"
        <5>1. link \in registry
          BY <1>2, <4>1, <4>6, HandledFirst
        <5>2. Heartbeat /\ From = link
          BY <4>1, <4>6, HandledBy DEF Handles
        <5>3. step' = [do |-> "answer", to |-> link,
                       answer |-> [kind |-> "ack", epoch |-> epoch, gen |-> count]]
          BY <5>1, <5>2 DEF Heartbeat, Then
        <5> QED
          BY <1>2, <5>3 DEF AckDue
      <4>7. CASE kind # "heartbeat"
        <5>1. Leads(Waiting(link)', link, "heartbeat", AfterHeartbeat)
          BY <2>2, <4>2, <4>7, ShiftedLeads
        <5> QED
          BY <1>2, <4>5, <5>1
      <4> QED
        BY <4>6, <4>7
    <3>2. CASE \A kind : ~Handles(kind)
      <4>1. ~Leave /\ 0 \in Nat
        BY <1>2, LiveServed
      <4>2. Follows(Waiting(link), Waiting(link)', link, 0, sent, sent')
        BY <1>2, <3>2, <4>1, WaitingKept
      <4>3. Leads(Waiting(link)', link, "heartbeat", AfterHeartbeat)
        BY <2>2, <4>2 DEF Follows
      <4>4. conn'[link].said = <<>>
        BY <1>2, <2>2, <3>2, SaidKept
      <4> QED
        BY <1>2, <4>3, <4>4
    <3> QED
      BY <3>1, <3>2
  <2>3. (Arrived(Len(Coming(conn[link])) + 1) \/ AckDue) \/ First
    <3> HIDE DEF AfterHeartbeat
    <3> QED
      BY <1>2 DEF LinkInv, Greeted
  <2> QED
    BY <2>1, <2>2, <2>3
<1> QED
  BY <1>1, <1>2, LiveFrom

LEMMA SequencedKept ==
    ASSUME TypeInv, Places, LinkInv, Next
    PROVE  Sequenced'
<1> SUFFICES ASSUME Live'
             PROVE  Numbered(Waiting(link)', link', Len(conn'[link'].said), sent')
  BY DEF Sequenced
<1>1. CASE \E c \in Conns : Open(c)
  <2>1. PICK c \in Conns : Open(c)
    BY <1>1
  <2>2. /\ link' = c /\ conn'[c].said = <<>> /\ sent' = 0
        /\ Waiting(c)' = WaitingIn(c, inbox, <<AskRegister, AskHeartbeat>>)
        /\ \A k \in 1 .. Len(inbox) : inbox[k].from # c
    BY <2>1, OpenedLink
  <2>3. inbox \in Seq(Entries)
    BY DEF TypeInv, ListenerOK
  <2>4. Numbered(WaitingIn(c, inbox, <<AskRegister, AskHeartbeat>>), c, 0, 0)
    BY <2>2, <2>3, OpenedWaiting
  <2>5. Waiting(link)' = Waiting(c)' /\ Len(<<>>) = 0
    BY <2>2, EmptySeq DEF Waiting
  <2> QED
    BY <2>2, <2>4, <2>5
<1>2. CASE Live /\ link' = link /\ link \in Conns
  <2> DEFINE said == conn[link].said
             said2 == conn'[link].said
  <2>1. said \in Seq(Nat) /\ Len(said) \in Nat /\ sent \in Nat
    BY <1>2, LinkFacts
  <2>2. Numbered(Waiting(link), link, Len(said), sent)
    BY <1>2 DEF LinkInv, Sequenced
  <2>3. said2 = said \/ (Handles("control") /\ \E x \in Nat : said2 = Append(said, x))
    BY <1>2, SaidKept
  <2>4. CASE \E kind : Handles(kind)
    <3>1. PICK kind : Handles(kind)
      BY <2>4
    <3>2. /\ Waiting(link) \in Seq(Entries) /\ Waiting(link)' \in Seq(Entries)
          /\ Shifted(Waiting(link), Waiting(link)') /\ sent' = sent
          /\ 1 \in Ones(Waiting(link), link) /\ Waiting(link)[1].what.kind = kind
      BY <1>2, <3>1, WaitingHandled
    <3>3. \A k2 : Handles(k2) => k2 = kind
      BY <3>1 DEF Handles, Receive
    <3>4. CASE kind = "control"
      <4>1. Len(said2) = Len(said) + 1
        <5>1. \E x \in Nat : said2 = Append(said, x)
          <6>1. ControlPublished \/ ControlBumped \/ ControlRefused
            BY <3>1, <3>4, HandledBy DEF Handles
          <6> QED
            BY <1>2, <3>1, <6>1, ControlSays DEF Handles
        <5> QED
          BY <2>1, <5>1, AppendProperties
      <4>2. Len(said) + 1 \in Nat
        BY <2>1
      <4> HIDE DEF said, said2
      <4>3. Numbered(Waiting(link)', link, Len(said) + 1, sent)
        BY <2>1, <2>2, <3>2, <3>4, <4>2, ShiftedNumbered
      <4> QED
        BY <1>2, <3>2, <4>1, <4>3 DEF said2
    <3>5. CASE kind # "control"
      <4>1. said2 = said
        BY <2>3, <3>3, <3>5
      <4> HIDE DEF said
      <4>2. Numbered(Waiting(link)', link, Len(said), sent)
        BY <2>1, <2>2, <3>2, <3>5, ShiftedNumbered
      <4> QED
        BY <1>2, <3>2, <4>1, <4>2
    <3> QED
      BY <3>4, <3>5
  <2>5. CASE \A kind : ~Handles(kind)
    <3>1. ~Leave
      BY <1>2, LiveServed
    <3>2. Follows(Waiting(link), Waiting(link)', link, Len(said), sent, sent')
      BY <1>2, <2>1, <2>5, <3>1, WaitingKept
    <3>3. said2 = said
      BY <2>3, <2>5
    <3> HIDE DEF said
    <3>4. Numbered(Waiting(link)', link, Len(said), sent')
      BY <2>2, <3>2 DEF Follows
    <3> QED
      BY <1>2, <3>3, <3>4
  <2> QED
    BY <2>4, <2>5
<1> QED
  BY <1>1, <1>2, LiveFrom

\* What each control came to is on its way, once it is published.
LEMMA AnsweredKept ==
    ASSUME TypeInv, Places, LinkInv, Next
    PROVE  Answered'
<1> SUFFICES ASSUME Live'
             PROVE  Due(Coming(conn[link]), vals, heard, refused, conn[link].said,
                        Unpublished)'
  BY DEF Answered
<1>1. CASE \E c \in Conns : Open(c)
  <2>1. link' \in Conns /\ conn'[link'].said = <<>>
    BY <1>1, OpenedLink
  <2>2. \A k \in 1 .. Len(<<>>) : FALSE
    BY EmptySeq
  <2> QED
    BY <2>1, <2>2 DEF Due
<1>2. CASE Live /\ link' = link /\ link \in Conns /\ epoch' = epoch
  <2> DEFINE r == conn[link]
             q == conn'[link]
             s == Coming(r)
             t == Coming(q)
             n == Len(s) + 1
             m == Len(t) + 1
             Told(k) == Reached(s, vals, heard, refused, epoch, r.said[k], k, n)
             Tells(k) == Reached(t, vals', heard', refused', epoch, q.said[k], k, m)
  <2>1. /\ s \in Seq(Packets) /\ t \in Seq(Packets) /\ r.said \in Seq(Nat)
        /\ Len(r.said) \in Nat /\ vals \in Nat /\ vals' \in Nat /\ truth \in Nat
        /\ truth' \in Nat /\ truth <= truth' /\ link # None
    BY <1>2, LinkFacts
  <2>2. Len(s) \in Nat /\ Len(t) \in Nat /\ n \in Nat /\ m \in Nat
    BY <2>1, LenProperties
  <2>3. \A k \in 1 .. Len(r.said) : r.said[k] = 0 \/ ~Unpublished => Told(k)
    BY <1>2 DEF LinkInv, Answered, Due
  <2>4. \A k \in 1 .. Len(r.said) : r.said[k] \in Nat /\ r.said[k] <= truth' /\ k \in Nat
    <3>1. r.said \in Seq(0 .. truth)
      BY <1>2 DEF Places, ConnPlaces, PlaceOK
    <3>2. \A k \in 1 .. Len(r.said) : r.said[k] \in 0 .. truth
      BY <3>1, ElementOfSeq
    <3> QED
      BY <2>1, <3>2
  <2>5. Ordered(s, epoch, vals, truth)
    BY <1>2, <2>1 DEF LinkInv, Carried, Live
  <2> SUFFICES \A k \in 1 .. Len(q.said) : q.said[k] = 0 \/ ~Unpublished' => Tells(k)
    BY <1>2 DEF Due
  <2>6. CASE Take
    <3>1. /\ Shifted(s, t) /\ s[1] = Head(r.pipe) /\ q.said = r.said
          /\ TakenBy(Head(r.pipe), vals, heard, refused, vals', heard', refused')
          /\ (Unpublished <=> Unpublished')
      BY <2>6, TakeMoves, TakeEffect DEF state, Unpublished
    <3>2. TakenBy(s[1], vals, heard, refused, vals', heard', refused')
      BY <3>1
    <3>3. n >= 2 /\ n - 1 = m
      BY <2>2, <3>1 DEF Shifted
    <3>4. ASSUME NEW k \in 1 .. Len(r.said), Told(k)
          PROVE  Tells(k)
      <4>1. r.said[k] \in Nat
        BY <2>4
      <4> DEFINE x == r.said[k]
      <4>2. Reached(s, vals, heard, refused, epoch, x, k, n) /\ x \in Nat
        BY <3>4, <4>1
      <4> HIDE DEF x, s, t, n, m
      <4>3. Reached(t, vals', heard', refused', epoch, x, k, n - 1)
        BY <2>1, <2>2, <2>5, <3>1, <3>2, <3>3, <4>2, TakenReached
      <4> QED
        BY <3>1, <3>3, <4>3 DEF x
    <3> HIDE DEF Told, Tells
    <3> QED
      BY <2>3, <3>1, <3>4
  <2>7. CASE ~Take
    <3>1. Moves /\ vals' = vals /\ heard' = heard /\ refused' = refused
      BY <1>2, <2>7, LinkMoves
    <3>2. link \notin registry => Len(r.said) = 0
      BY <1>2, EmptySeq DEF LinkInv, Registered
    <3>3. CASE Stays(r, q)
      <4>1. t = s /\ (link \in registry => (Unpublished => Unpublished'))
        BY <3>3 DEF Stays
      <4>2. ASSUME NEW k \in 1 .. Len(r.said), q.said[k] = r.said[k],
                   r.said[k] = 0 \/ ~Unpublished'
            PROVE  Tells(k)
        <5>1. link \in registry
          BY <2>1, <3>2, <4>2
        <5>2. Told(k)
          <6> HIDE DEF Told
          <6> QED
            BY <2>3, <4>1, <4>2, <5>1
        <5> QED
          BY <3>1, <4>1, <4>2, <5>2
      <4>3. CASE q.said = r.said
        <5> HIDE DEF Tells
        <5> QED
          BY <4>2, <4>3
      <4>4. CASE q.said = Append(r.said, truth') /\ truth' # 0 /\ Unpublished'
        <5>1. /\ Len(q.said) = Len(r.said) + 1
              /\ \A k \in 1 .. Len(r.said) : q.said[k] = r.said[k]
              /\ q.said[Len(r.said) + 1] = truth'
          BY <2>1, <4>4, AppendProperties
        <5>2. \A k \in 1 .. Len(q.said) : k \in 1 .. Len(r.said) \/ k = Len(r.said) + 1
          BY <2>1, <5>1
        <5> HIDE DEF Tells
        <5> QED
          BY <4>2, <4>4, <5>1, <5>2
      <4> QED
        BY <3>3, <4>3, <4>4 DEF Stays
    <3>4. ASSUME NEW p \in Packets, Gains(r, q, p)
          PROVE  \A k \in 1 .. Len(q.said) : q.said[k] = 0 \/ ~Unpublished' => Tells(k)
      <4>1. Grown(s, t, p) /\ (TellsState(p) => p.val = truth')
            /\ (~TellsState(p) => (Unpublished => Unpublished'))
        BY <3>4 DEF Gains
      <4>2. Len(t) = Len(s) + 1 /\ t[Len(s) + 1] = p /\ Agree(s, t, Len(s))
        BY <2>2, <4>1 DEF Grown, Agree
      <4>3. Len(s) + 1 \in 1 .. Len(t) /\ Len(s) + 1 < m /\ n <= Len(s) + 1 /\ n <= m
        BY <2>2, <4>2
      <4>4. ASSUME NEW k \in 1 .. Len(r.said), q.said[k] = r.said[k], Told(k)
            PROVE  Tells(k)
        <5> DEFINE x == r.said[k]
        <5>1. Reached(s, vals, heard, refused, epoch, x, k, n)
          BY <4>4
        <5> HIDE DEF x, s, t, n, m
        <5>2. Reached(t, vals, heard, refused, epoch, x, k, m)
          BY <2>1, <2>2, <4>1, <4>3, <5>1, GrownReached
        <5> QED
          BY <3>1, <4>4, <5>2 DEF x
      <4>5. ASSUME NEW k \in 1 .. Len(r.said), q.said[k] = r.said[k], r.said[k] # 0,
                   Unpublished, ~Unpublished'
            PROVE  Tells(k)
        <5>1. TellsState(p) /\ p.val = truth' /\ r.said[k] <= p.val
          BY <2>4, <4>1, <4>5
        <5>2. Known(s, heard, epoch, n)
          <6>1. ~AckDue
            BY <4>5 DEF Unpublished, AckDue
          <6>2. r.said # <<>>
            BY <2>1, EmptySeq
          <6> QED
            BY <1>2, <6>1, <6>2 DEF LinkInv, Greeted, Arrived
        <5>3. Known(t, heard, epoch, Len(s) + 1)
          <6> HIDE DEF s, t
          <6> QED
            BY <2>1, <2>2, <4>2, <5>2, KnownAgrees
        <5>4. Applied(t, vals, heard, epoch, r.said[k], m)
          <6> HIDE DEF s, t, m, r
          <6> QED
            BY <4>2, <4>3, <5>1, <5>3 DEF Applied
        <5> QED
          BY <3>1, <4>5, <5>4 DEF Reached
      <4>6. ASSUME NEW k \in 1 .. Len(r.said), q.said[k] = r.said[k],
                   q.said[k] = 0 \/ ~Unpublished'
            PROVE  Tells(k)
        <5>1. CASE Unpublished /\ r.said[k] # 0
          <6>1. ~Unpublished'
            BY <4>6, <5>1
          <6> HIDE DEF Tells
          <6> QED
            BY <4>5, <4>6, <5>1, <6>1
        <5>2. CASE r.said[k] = 0 \/ ~Unpublished
          <6>1. Told(k)
            <7> HIDE DEF Told
            <7> QED
              BY <2>3, <5>2
          <6> HIDE DEF Tells, Told
          <6> QED
            BY <4>4, <4>6, <6>1
        <5> HIDE DEF Tells
        <5> QED
          BY <5>1, <5>2
      <4>7. CASE q.said = r.said
        <5> HIDE DEF Tells
        <5> QED
          BY <4>6, <4>7
      <4>8. CASE /\ q.said = Append(r.said, 0) /\ Handles("control")
                 /\ p.kind = "error" /\ p.of = inbox[1].what.number
        <5>1. /\ Len(q.said) = Len(r.said) + 1
              /\ \A k \in 1 .. Len(r.said) : q.said[k] = r.said[k]
              /\ q.said[Len(r.said) + 1] = 0
          BY <2>1, <4>8, AppendProperties
        <5>2. \A k \in 1 .. Len(q.said) : k \in 1 .. Len(r.said) \/ k = Len(r.said) + 1
          BY <2>1, <5>1
        <5>3. p.of = Len(r.said) + 1
          BY <1>2, <4>8, HandledNumber
        <5>4. Tells(Len(r.said) + 1)
          <6>1. Refused(t, refused', Len(r.said) + 1, m)
            <7> HIDE DEF s, t, m, r
            <7> QED
              BY <4>2, <4>3, <4>8, <5>3 DEF Refused
          <6> QED
            BY <5>1, <6>1 DEF Reached
        <5> HIDE DEF Tells
        <5> QED
          BY <4>6, <5>1, <5>2, <5>4
      <4> QED
        BY <3>4, <4>7, <4>8 DEF Gains
    <3> QED
      BY <1>2, <3>1, <3>3, <3>4 DEF Moves
  <2> QED
    BY <2>6, <2>7
<1> QED
  BY <1>1, <1>2, LiveFrom

\* And so is the last state.
LEMMA StateKeptKept ==
    ASSUME TypeInv, Places, LinkInv, Next
    PROVE  StateKept'
<1> SUFFICES ASSUME Live', conn'[link'].served
             PROVE  Whole(Coming(conn[link]), ready, vals, sync.held, told, count)'
  BY DEF StateKept
<1>1. CASE \E c \in Conns : Open(c)
  BY <1>1, OpenedLink
<1>2. CASE Live /\ link' = link /\ link \in Conns
  <2> DEFINE r == conn[link]
             q == conn'[link]
             s == Coming(r)
             t == Coming(q)
  <2>1. /\ s \in Seq(Packets) /\ t \in Seq(Packets) /\ link # None
        /\ told' \in Nat /\ told' <= truth'
    BY <1>2, LinkFacts
  <2>2. r.served => Whole(s, ready, vals, sync.held, told, count)
    BY <1>2 DEF LinkInv, StateKept
  <2>3. r.served => link \in registry
    BY <1>2 DEF LinkInv, Registered
  <2> SUFFICES Whole(t, ready', vals', sync'.held, told', count')
    BY <1>2
  <2>4. CASE Take
    <3>1. /\ Shifted(s, t) /\ s[1] = Head(r.pipe) /\ q.served = r.served
          /\ TakenBy(Head(r.pipe), vals, heard, refused, vals', heard', refused')
          /\ HeldBy(Head(r.pipe), ready, sync.held, ready', sync'.held)
          /\ vals' = vals \/ TellsState(Head(r.pipe)) \/ ready' = FALSE
          /\ told' = told /\ count' = count
      BY <2>4, TakeMoves, TakeEffect DEF state
    <3>2. ready => sync.held # None
      BY DEF Places, LinkPlaces
    <3>3. Whole(s, ready, vals, sync.held, told, count)
      BY <1>2, <2>2, <3>1
    <3>4. /\ HeldBy(s[1], ready, sync.held, ready', sync'.held)
          /\ TellsState(s[1]) => vals' = s[1].val
          /\ ~TellsState(s[1]) => vals' = vals \/ ready' = FALSE
      BY <3>1 DEF TakenBy
    <3> HIDE DEF s, t, r
    <3>5. Whole(t, ready', vals', sync'.held, told, count)
      BY <2>1, <3>1, <3>2, <3>3, <3>4, TakenWhole
    <3> QED
      BY <3>1, <3>5
  <2>5. CASE ~Take
    <3>1. Moves /\ vals' = vals /\ ready' = ready /\ sync' = sync
      BY <1>2, <2>5, LinkMoves
    <3>2. CASE Stays(r, q)
      <4>1. t = s /\ r.served
        BY <1>2, <3>2 DEF Stays
      <4>2. told' = told /\ count' = count
        BY <2>3, <3>2, <4>1 DEF Stays
      <4> HIDE DEF s, t
      <4> QED
        BY <2>2, <3>1, <4>1, <4>2
    <3>3. ASSUME NEW p \in Packets, Gains(r, q, p)
          PROVE  Whole(t, ready', vals', sync'.held, told', count')
      <4>1. Grown(s, t, p)
        BY <3>3 DEF Gains
      <4>2. CASE TellsState(p)
        <5>1. p.val >= told' /\ p.gen = count'
          BY <2>1, <3>3, <4>2 DEF Gains
        <5> HIDE DEF s, t
        <5> QED
          BY <2>1, <4>1, <4>2, <5>1, GrownWhole
      <4>3. CASE ~TellsState(p)
        <5>1. r.served /\ told' = told /\ count' = count
          BY <1>2, <3>3, <4>3 DEF Gains
        <5>2. Whole(s, ready', vals', sync'.held, told', count')
          BY <2>2, <3>1, <5>1
        <5> HIDE DEF s, t
        <5> QED
          BY <2>1, <4>1, <4>3, <5>2, GrownWhole
      <4> QED
        BY <4>2, <4>3
    <3> QED
      BY <1>2, <3>1, <3>2, <3>3 DEF Moves
  <2> QED
    BY <2>4, <2>5
<1> QED
  BY <1>1, <1>2, LiveFrom

LEMMA LinkKept ==
    ASSUME TypeInv, Places, LinkInv, [Next]_vars
    PROVE  LinkInv'
<1>1. CASE Next
  BY <1>1, CarriedKept, RegisteredKept, GreetedKept, SequencedKept, AnsweredKept,
     StateKeptKept DEF LinkInv
<1>2. CASE UNCHANGED vars
  <2>1. UNCHANGED <<truth, told, moved, count, epoch, step, inbox, registry, conn, link,
                    vals, sync, ready, heard, sent, refused>>
    BY <1>2 DEF vars, state, studio, model, tally
  <2>2. Carried'
    BY <2>1 DEF LinkInv, Carried
  <2>3. Live' = Live
    BY <2>1 DEF Live
  <2>4. Waiting(link)' = Waiting(link)
    BY <2>1 DEF Waiting
  <2>5. Registered' /\ Sequenced'
    BY <2>1, <2>3, <2>4 DEF LinkInv, Registered, Sequenced
  <2>6. Greeted'
    BY <2>1, <2>3, <2>4 DEF LinkInv, Greeted, AckDue, Arrived
  <2>7. Answered' /\ StateKept'
    BY <2>1, <2>3 DEF LinkInv, Answered, StateKept, Due, Unpublished
  <2> QED
    BY <2>2, <2>5, <2>6, <2>7 DEF LinkInv
<1> QED
  BY <1>1, <1>2

-----------------------------------------------------------------------------
(* The theorems.                                                           *)

Inv == TypeInv /\ Places /\ LinkInv

LEMMA Inductive == Spec => []Inv
<1>1. Init => Inv
  BY InitTypes, InitPlaces, InitLink DEF Inv
<1>2. Inv /\ [Next]_vars => Inv'
  BY TypesKept, PlacesKept, LinkKept DEF Inv
<1> QED
  BY <1>1, <1>2, PTL DEF Spec

\* Every variable of the link's model keeps its type; no queue outgrows its bound,
\* only a connection the engine accepted is registered or read, nothing is left to
\* write on a closed one, and Studio is never ahead of the engine.
THEOREM TypesHold == Spec => []TypeOK
<1>1. Inv => TypeOK
  <2> SUFFICES ASSUME Inv
               PROVE  TypeOK
    OBVIOUS
  <2>1. TypeInv /\ vals <= truth
    BY DEF Inv, LinkInv, Carried
  <2>2. /\ told \in 0 .. truth /\ vals \in 0 .. truth
        /\ {moved, receiving, confirmed, backoff, ready, asked} \subseteq BOOLEAN
        /\ count \in Count /\ sync \in Sync
        /\ mode \in {"binding", "serving", "stopping", "gone"}
        /\ streamPort \in {None, Other} \cup 1 .. epoch
        /\ registry \subseteq Conns /\ link \in Conns \cup {None}
        /\ Len(inbox) <= InboxSize
    BY <2>1 DEF TypeInv, StateOK, PortOK, ListenerOK, StudioOK
  <2>3. \A k \in DOMAIN inbox : inbox[k].from \in Conns /\ inbox[k].what \in Requests
    <3>1. inbox \in Seq(Entries)
      BY <2>1 DEF TypeInv, ListenerOK
    <3>2. \A k \in 1 .. Len(inbox) : inbox[k] \in Entries
      BY <3>1, ElementOfSeq
    <3> QED
      BY <3>1, <3>2, LenProperties DEF Entries
  <2>4. ASSUME NEW c \in Conns
        PROVE  /\ conn[c].up \in Seq(Requests)
               /\ conn[c].outbox \in Seq(Packets) /\ Len(conn[c].outbox) <= OutboxSize
               /\ conn[c].pipe \in Seq(Packets) /\ Len(conn[c].pipe) <= PipeSize
               /\ conn[c].reading \/ c \in registry => conn[c].accepted
               /\ conn[c].closed => conn[c].outbox = <<>>
    <3>1. ConnOK(conn[c]) /\ (c \in registry => conn[c].accepted)
      BY <2>1 DEF TypeInv, ConnsOK, ListenerOK
    <3> QED
      BY <3>1 DEF ConnOK, Conn
  <2> QED
    BY <2>2, <2>3, <2>4 DEF TypeOK
<1> QED
  BY <1>1, Inductive, PTL

\* Telemetry may be dropped, state never is (peer.rs:14-16): as long as a connection
\* that was sent a snapshot is open, the last state on its way, or else the one that
\* Studio holds, is the last published, with its count.
THEOREM StreamIsWhole == Spec => []StreamWhole
<1>1. Inv => StreamWhole
  <2> SUFFICES ASSUME Inv, NEW c \in registry,
                      conn[c].served, ~conn[c].closed, ~conn[c].fin
               PROVE  LET coming == Coming(conn[c])
                      IN  /\ \A k \in LastState(coming) :
                                coming[k].val >= told /\ coming[k].gen = count
                          /\ LastState(coming) = {} /\ link = c /\ ready =>
                                vals >= told /\ sync.held = count
    BY DEF StreamWhole
  <2>1. TypeInv /\ Places /\ LinkInv
    BY DEF Inv
  <2>2. c \in Conns /\ conn[c].epoch # None /\ conn[c].epoch = epoch /\ ConnOK(conn[c])
    BY <2>1, PlacesConns
  <2>3. link = c
    BY <2>1, <2>2, PlacesConns DEF PlaceOK
  <2>4. Live
    BY <2>2, <2>3, Sizes DEF Live
  <2>5. Whole(Coming(conn[c]), ready, vals, sync.held, told, count)
    BY <2>1, <2>3, <2>4 DEF LinkInv, StateKept
  <2>6. Coming(conn[c]) \in Seq(Packets)
    BY <2>2, ComingOK
  <2> QED
    BY <2>5, <2>6, WholeMeans
<1> QED
  BY <1>1, Inductive, PTL

\* The promise of osc_contract::SYNC: when its answer reaches the client, every control
\* the client sent before on the connection was handled, and the state it made has
\* arrived, or its refusal has.
THEOREM SyncIsABarrier == Spec => []SyncBarrier
<1>1. Inv => SyncBarrier
  <2> SUFFICES ASSUME Inv, link # None, conn[link].pipe # <<>>,
                      Head(conn[link].pipe).kind = "synced"
               PROVE  Settled(link, Head(conn[link].pipe).sent)
    BY DEF SyncBarrier
  <2> DEFINE r == conn[link]
             s == Coming(r)
             p == Head(r.pipe)
  <2>1. TypeInv /\ LinkInv /\ link \in Conns /\ ConnOK(r) /\ p.kind = "synced"
    BY DEF Inv, TypeInv, StudioOK, ConnsOK
  <2>2. s[1] = p /\ 1 \in 1 .. Len(s)
    <3>1. s[1] = p /\ Len(s) > 0
      BY <2>1, FollowedComing
    <3>2. Len(s) \in Nat
      BY <2>1, ComingOK
    <3> QED
      BY <3>1, <3>2
  <2>3. Barriers(s, r.epoch, vals, r.said, heard, refused)
    BY <2>1 DEF LinkInv, Carried
  <2>4. /\ p.sent <= Len(r.said)
        /\ \A k \in 1 .. p.sent :
              Reached(s, vals, heard, refused, r.epoch, r.said[k], k, 1)
    <3> HIDE DEF s, p, r
    <3> QED
      BY <2>1, <2>2, <2>3 DEF Barriers
  <2>5. \A i \in 1 .. Len(s) : ~(i < 1)
    BY <2>1, ComingOK
  <2>6. ASSUME NEW k \in 1 .. p.sent
        PROVE  IF r.said[k] = 0 THEN k \in refused ELSE r.said[k] <= vals
    <3>1. Reached(s, vals, heard, refused, r.epoch, r.said[k], k, 1)
      BY <2>4
    <3> HIDE DEF s, p, r
    <3> QED
      BY <2>5, <3>1 DEF Reached, Refused, Applied
  <2>7. Len(r.said) >= p.sent
    <3>1. p.sent \in Nat /\ Len(r.said) \in Nat
      <4>1. p \in Packets /\ r.said \in Seq(Nat)
        BY <2>1, HeadTailProperties DEF ConnOK, Conn
      <4> QED
        BY <2>1, <4>1, PacketFields, LenProperties
    <3> QED
      BY <2>4, <3>1
  <2> QED
    BY <2>6, <2>7 DEF Settled
<1> QED
  BY <1>1, Inductive, PTL

=============================================================================
