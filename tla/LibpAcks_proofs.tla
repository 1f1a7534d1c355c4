--------------------------- MODULE LibpAcks_proofs --------------------------
(***************************************************************************)
(* Which packet a frame is about.  A node sends the packet at the head of  *)
(* its queue under its seqno, and every ACK repeats the seqno of the frame *)
(* it answers; so an ACK with the seqno of the node is for the head, as    *)
(* long as the head leaves the queue in send_next_packet() only, which     *)
(* also counts seqno up, and seqno does not wrap.                          *)
(* Then, what a handler does to the packets its node has to answer for.    *)
(***************************************************************************)
EXTENDS Libp_proofs

\* The frame is about the packet c is sending, or about an earlier one.
InOrder(c, f) ==
  \/ f.seqno < c.seqno
  \/ /\ f.seqno = c.seqno
     /\ c.send_queue # <<>> /\ Head(c.send_queue) = f.packet

\* What is in order for c is in order for d.
Onward(c, d) ==
  \/ c.seqno < d.seqno
  \/ /\ c.seqno = d.seqno
     /\ c.send_queue # <<>> =>
          d.send_queue # <<>> /\ Head(d.send_queue) = Head(c.send_queue)

OwnFrame(c, f) == f.type = "DATA" /\ f.src = c.addr /\ InOrder(c, f)
Reply(f, g) ==
  f.type = "ACK" /\ f.dst = g.src /\ f.seqno = g.seqno /\ f.packet = g.packet
Alike(f, g) ==
  /\ f.type = g.type /\ f.src = g.src /\ f.dst = g.dst
  /\ f.seqno = g.seqno /\ f.flags = g.flags /\ f.packet = g.packet

\* A frame of d was there before, carries the head, or answers one of G.
Accounted(c, d, G, f) ==
  \/ \E g \in Range(c.mac) : Alike(f, g)
  \/ OwnFrame(d, f)
  \/ \E g \in G : Reply(f, g)

Moves(c, d, G) ==
  /\ d.addr = c.addr
  /\ Onward(c, d)
  /\ \A f \in Range(d.mac) : Accounted(c, d, G, f)

\* The same packet is being sent, and none has left the queue.
Stays(c, d, G) ==
  /\ Moves(c, d, G)
  /\ d.seqno = c.seqno
  /\ Range(c.send_queue) \subseteq Range(d.send_queue)
  /\ c.dropped \subseteq d.dropped

\* An operator that may count seqno up.
Turn(c, d, G) == d.seqno >= c.seqno => Moves(c, d, G)

\* The packets that left the queue.
Gone(c, d) == Range(c.send_queue) \ Range(d.send_queue)

-----------------------------------------------------------------------------
(* How these relations compose.                                            *)

LEMMA MacFrame ==
  ASSUME NEW I, NEW P, NEW c \in SoundConn(I, P), NEW f \in Range(c.mac)
  PROVE  f \in SoundFrame(I) /\ f.seqno \in Nat /\ f.src \in Node /\ f.dst \in Node
<1>1. c.mac \in Seq(SentFrame(I, P))
  BY FieldTypes
<1>2. PICK i \in DOMAIN c.mac : f = c.mac[i]
  BY DEF Range
<1>3. f \in SoundFrame(I)
  BY <1>1, <1>2 DEF SentFrame
<1>4. f.seqno \in 0..UINT8-1 /\ f.src \in Node /\ f.dst \in Node
  BY <1>3, FrameFields
<1> QED  BY <1>3, <1>4

LEMMA InOrderOnward ==
  ASSUME NEW I, NEW P, NEW c \in SoundConn(I, P), NEW d \in SoundConn(I, P), NEW f,
         f.seqno \in Nat, Onward(c, d), InOrder(c, f)
  PROVE  InOrder(d, f)
<1>1. c.seqno \in 0..UINT8-1 /\ d.seqno \in 0..UINT8-1 /\ UINT8 \in Nat
  BY FieldTypes, Numbers
<1> QED  BY <1>1 DEF Onward, InOrder

LEMMA OnwardTrans ==
  ASSUME NEW I, NEW P, NEW c \in SoundConn(I, P), NEW d \in SoundConn(I, P),
         NEW e \in SoundConn(I, P), Onward(c, d), Onward(d, e)
  PROVE  Onward(c, e)
<1>1. /\ c.seqno \in 0..UINT8-1 /\ d.seqno \in 0..UINT8-1 /\ e.seqno \in 0..UINT8-1
      /\ UINT8 \in Nat
  BY FieldTypes, Numbers
<1> QED  BY <1>1 DEF Onward

LEMMA MovesTrans ==
  ASSUME NEW I, NEW P, NEW c \in SoundConn(I, P), NEW d \in SoundConn(I, P),
         NEW e \in SoundConn(I, P), NEW G, Moves(c, d, G), Moves(d, e, G)
  PROVE  Moves(c, e, G)
<1>1. Onward(c, e) /\ e.addr = c.addr
  BY OnwardTrans DEF Moves
<1>2. ASSUME NEW f \in Range(e.mac)
      PROVE  Accounted(c, e, G, f)
  <2>1. CASE OwnFrame(e, f) \/ \E g \in G : Reply(f, g)
    BY <2>1 DEF Accounted
  <2>2. CASE \E g \in Range(d.mac) : Alike(f, g)
    <3>1. PICK g \in Range(d.mac) : Alike(f, g)
      BY <2>2
    <3>2. Accounted(c, d, G, g)
      BY DEF Moves
    <3>3. CASE \E h \in Range(c.mac) : Alike(g, h)
      BY <3>1, <3>3 DEF Accounted, Alike
    <3>4. CASE OwnFrame(d, g)
      <4>1. f.seqno \in Nat /\ f.seqno = g.seqno /\ f.packet = g.packet
        BY <3>1, MacFrame DEF Alike
      <4>2. InOrder(d, f)
        BY <3>4, <4>1 DEF OwnFrame, InOrder
      <4>3. InOrder(e, f)
        BY <4>1, <4>2, InOrderOnward DEF Moves
      <4>4. OwnFrame(e, f)
        BY <3>1, <3>4, <4>3 DEF OwnFrame, Alike, Moves
      <4> QED  BY <4>4 DEF Accounted
    <3>5. CASE \E h \in G : Reply(g, h)
      BY <3>1, <3>5 DEF Accounted, Alike, Reply
    <3> QED  BY <3>2, <3>3, <3>4, <3>5 DEF Accounted
  <2>3. Accounted(d, e, G, f)
    BY DEF Moves
  <2> QED  BY <2>1, <2>2, <2>3 DEF Accounted
<1> QED  BY <1>1, <1>2 DEF Moves

LEMMA StaysTrans ==
  ASSUME NEW I, NEW P, NEW c \in SoundConn(I, P), NEW d \in SoundConn(I, P),
         NEW e \in SoundConn(I, P), NEW G, Stays(c, d, G), Stays(d, e, G)
  PROVE  Stays(c, e, G)
BY MovesTrans DEF Stays

LEMMA TurnAfter ==
  ASSUME NEW I, NEW P, NEW c \in SoundConn(I, P), NEW d \in SoundConn(I, P),
         NEW e \in SoundConn(I, P), NEW G, Stays(c, d, G), Turn(d, e, G)
  PROVE  Turn(c, e, G) /\ Gone(c, e) \subseteq Gone(d, e)
<1>1. Turn(c, e, G)
  BY MovesTrans DEF Stays, Turn
<1> QED  BY <1>1 DEF Stays, Gone

LEMMA MoreReplies ==
  ASSUME NEW c, NEW d, NEW G, NEW H, G \subseteq H
  PROVE  /\ Moves(c, d, G) => Moves(c, d, H)
         /\ Stays(c, d, G) => Stays(c, d, H)
         /\ Turn(c, d, G) => Turn(c, d, H)
<1>1. Moves(c, d, G) => Moves(c, d, H)
  BY DEF Moves, Accounted
<1> QED  BY <1>1 DEF Stays, Turn

\* Nothing has changed that tells frames and packets apart.
LEMMA FieldsStay ==
  ASSUME NEW c, NEW d, NEW G, d.addr = c.addr, d.seqno = c.seqno,
         d.send_queue = c.send_queue, d.mac = c.mac, c.dropped \subseteq d.dropped
  PROVE  Stays(c, d, G)
<1>1. \A f \in Range(d.mac) : Alike(f, f) /\ f \in Range(c.mac)
  BY DEF Alike
<1>2. \A f \in Range(d.mac) : Accounted(c, d, G, f)
  BY <1>1 DEF Accounted
<1> QED  BY <1>2 DEF Stays, Moves, Onward

LEMMA StaysSame ==
  ASSUME NEW c, NEW G
  PROVE  Stays(c, c, G)
BY FieldsStay

LEMMA StaysTurns ==
  ASSUME NEW c, NEW d, NEW G, Stays(c, d, G)
  PROVE  Turn(c, d, G) /\ Gone(c, d) = {}
BY DEF Stays, Turn, Gone

-----------------------------------------------------------------------------
(* Sending the head of the queue, and choosing the parent.                 *)

LEMMA ParentStays ==
  ASSUME NEW I, NEW P, NEW c \in SoundConn(I, P), NEW p, NEW G
  PROVE  Stays(c, [c EXCEPT !.parent = p], G)
<1> DEFINE d == [c EXCEPT !.parent = p]
<1>1. /\ d.addr = c.addr /\ d.seqno = c.seqno /\ d.send_queue = c.send_queue
      /\ d.mac = c.mac /\ d.dropped = c.dropped
  BY FieldTypes DEF SoundFields
<1> HIDE DEF d
<1> QED  BY <1>1, FieldsStay DEF d

LEMMA TableStays ==
  ASSUME NEW I, NEW P, NEW c \in SoundConn(I, P), NEW t, NEW G
  PROVE  Stays(c, [c EXCEPT !.neighbour_list = t], G)
<1> DEFINE d == [c EXCEPT !.neighbour_list = t]
<1>1. /\ d.addr = c.addr /\ d.seqno = c.seqno /\ d.send_queue = c.send_queue
      /\ d.mac = c.mac /\ d.dropped = c.dropped
  BY FieldTypes DEF SoundFields
<1> HIDE DEF d
<1> QED  BY <1>1, FieldsStay DEF d

LEMMA SendingStays ==
  ASSUME NEW I, NEW P, NEW c \in SoundConn(I, P), NEW b, NEW G
  PROVE  Stays(c, [c EXCEPT !.sending = b], G)
<1> DEFINE d == [c EXCEPT !.sending = b]
<1>1. /\ d.addr = c.addr /\ d.seqno = c.seqno /\ d.send_queue = c.send_queue
      /\ d.mac = c.mac /\ d.dropped = c.dropped
  BY FieldTypes DEF SoundFields
<1> HIDE DEF d
<1> QED  BY <1>1, FieldsStay DEF d

LEMMA SendingSet ==
  ASSUME NEW I, NEW P, NEW c \in SoundConn(I, P), NEW d,
         d.sending \in BOOLEAN, d = [c EXCEPT !.sending = d.sending]
  PROVE  /\ d \in SoundConn(I, P) /\ Stays(c, d, {}) /\ d.send_queue = c.send_queue
         /\ d.transmissions = c.transmissions /\ d.max_rexmits = c.max_rexmits
<1>1. /\ d \in SoundConn(I, P) /\ d.send_queue = c.send_queue
      /\ d.transmissions = c.transmissions /\ d.max_rexmits = c.max_rexmits
  BY SetSendingSound
<1>2. PICK b : b = d.sending
  OBVIOUS
<1>3. d = [c EXCEPT !.sending = b]
  BY <1>2, Zenon
<1>4. Stays(c, [c EXCEPT !.sending = b], {})
  BY SendingStays
<1>5. Stays(c, d, {})
  BY ONLY <1>3, <1>4, Zenon
<1> QED  BY ONLY <1>1, <1>5

LEMMA ProgressStays ==
  ASSUME NEW I, NEW P, NEW c \in SoundConn(I, P), NEW k, NEW timer, NEW p, NEW dropped,
         c.dropped \subseteq dropped, NEW G
  PROVE  /\ Stays(c, Progress(c, k, timer, p, dropped), G)
         /\ Progress(c, k, timer, p, dropped).dropped = dropped
         /\ Progress(c, k, timer, p, dropped).send_queue = c.send_queue
<1> DEFINE d == Progress(c, k, timer, p, dropped)
<1>1. /\ d.addr = c.addr /\ d.seqno = c.seqno /\ d.send_queue = c.send_queue
      /\ d.mac = c.mac /\ d.dropped = dropped
  BY FieldTypes DEF SoundFields, Progress
<1> HIDE DEF d
<1> QED  BY <1>1, FieldsStay DEF d

LEMMA SendPacketStays ==
  ASSUME NEW I, NEW P, NEW c \in SoundConn(I, P), NEW to \in Node \cap Parents(P),
         NEW tries \in 0..31, c.send_queue # <<>>, NEW G
  PROVE  Stays(c, send_packet(c, to, tries), G)
<1> DEFINE f == [type |-> "DATA", src |-> c.addr, dst |-> to, seqno |-> c.seqno,
                 rtmetric |-> c.rtmetric, flags |-> {}, packet |-> Head(c.send_queue),
                 tries |-> tries, heard |-> 0]
           m == Append(c.mac, f)
           d == send_packet(c, to, tries)
<1>1. f \in SentFrame(I, P) /\ c.mac \in Seq(SentFrame(I, P))
  BY DataFrame, FieldTypes
<1>2. /\ d.addr = c.addr /\ d.seqno = c.seqno /\ d.send_queue = c.send_queue
      /\ d.mac = m /\ d.dropped = c.dropped
  BY FieldTypes DEF send_packet, unicast_send, SoundFields
<1>3. /\ f.type = "DATA" /\ f.src = c.addr /\ f.seqno = c.seqno
      /\ f.packet = Head(c.send_queue)
  OBVIOUS
<1> HIDE DEF f, d
<1>4. Range(m) = Range(c.mac) \cup {f}
  BY <1>1, AppendTo
<1>5. OwnFrame(d, f)
  BY <1>2, <1>3 DEF OwnFrame, InOrder
<1> HIDE DEF m
<1>6. ASSUME NEW g \in Range(d.mac) PROVE Accounted(c, d, G, g)
  BY <1>2, <1>4, <1>5, <1>6 DEF Accounted, Alike
<1> QED  BY <1>2, <1>6 DEF Stays, Moves, Onward, d

LEMMA SendQueuedStays ==
  ASSUME NEW I, NEW P, NEW c \in SoundConn(I, P), NEW G
  PROVE  Stays(c, send_queued_packet(c), G)
<1> DEFINE idle == c.sending \/ c.send_queue = <<>> \/ Find(c, c.parent) = {}
           max  == Head(c.send_queue).rexmits
           d    == [c EXCEPT !.sending = TRUE, !.current_parent = c.parent,
                             !.transmissions = 0, !.max_rexmits = max]
<1>1. CASE idle
  BY <1>1, StaysSame DEF send_queued_packet
<1>2. CASE ~ idle
  <2>1. Head(c.send_queue) \in Packet
    BY <1>2, HeadSound
  <2>2. max \in 0..31
    BY <2>1 DEF Packet
  <2>3. c.parent \in Node \cap Parents(P)
    BY <1>2, FieldTypes, TableFields DEF Find, libp_neighbour_list_find
  <2>4. AtMost(max, MAX_MAC_REXMITS) \in 0..31
    BY <2>2 DEF AtMost, MAX_MAC_REXMITS
  <2> DEFINE e == send_packet(d, c.parent, AtMost(max, MAX_MAC_REXMITS))
  <2>5. send_queued_packet(c) = e
    BY <1>2 DEF send_queued_packet
  <2> HIDE DEF max
  <2>6. /\ d.addr = c.addr /\ d.seqno = c.seqno /\ d.send_queue = c.send_queue
        /\ d.mac = c.mac /\ d.dropped = c.dropped /\ d.is_sink = c.is_sink
        /\ d.rtmetric = c.rtmetric
    BY FieldTypes DEF SoundFields
  <2>7. d \in SoundFields(I, P)
    <3>1. c \in SoundFields(I, P) /\ c.parent \in Parents(P)
      BY FieldTypes
    <3>2. 0 \in 0..UINT8-1
      BY Numbers
    <3> QED  BY <2>2, <3>1, <3>2, Zenon DEF SoundFields
  <2>8. d \in SoundConn(I, P)
    BY <2>6, <2>7, FieldTypes DEF SoundConn
  <2> HIDE DEF d
  <2>9. Stays(c, d, G)
    BY <2>6, FieldsStay
  <2>10. Stays(d, e, G)
    BY <1>2, <2>3, <2>4, <2>6, <2>8, SendPacketStays
  <2>11. e \in SoundConn(I, P)
    BY <2>5, SendQueuedSound
  <2> HIDE DEF e
  <2> QED  BY <2>5, <2>8, <2>9, <2>10, <2>11, StaysTrans
<1> QED  BY <1>1, <1>2

LEMMA UpdateRankStays ==
  ASSUME NEW I, NEW P, NEW c \in SoundConn(I, P), NEW G
  PROVE  Stays(c, update_rtmetric(c), G)
<1>1. CASE c.rtmetric = RTMETRIC_SINK
  BY <1>1, StaysSame DEF update_rtmetric
<1>2. CASE c.rtmetric # RTMETRIC_SINK
  <2>1. PICK p \in Parents(P) :
          /\ update_parent(c) = [c EXCEPT !.parent = p]
          /\ \A s \in Find(c, p) : Cost(c, Find(c, p)) < RankLimit
    BY ParentChosen
  <2> DEFINE d == [c EXCEPT !.parent = p]
             e == Ranked(d, NewRank(d))
             f == send_queued_packet(e)
  <2>2. /\ d \in SoundConn(I, P) /\ Stays(c, d, G)
        /\ d.parent = p /\ d.rtmetric = c.rtmetric
        /\ d.neighbour_list = c.neighbour_list
    BY SetParentSound, ParentStays
  <2>3. update_rtmetric(c) \in {e, f}
    BY <1>2, <2>1 DEF update_rtmetric
  <2> HIDE DEF d
  <2>4. \A s \in Find(d, d.parent) : Cost(d, Find(d, d.parent)) < RankLimit
    BY <2>1, <2>2 DEF Find, Cost
  <2>5. NewRank(d) \in 0..RankLimit-1 /\ NewRank(d) >= LIBP_LINK_METRIC_UNIT
    BY <2>2, <2>4, NewRankRange
  <2>6. e \in SoundConn(I, P)
    BY <1>2, <2>2, <2>5, RankedSound
  <2>7. Stays(d, e, G)
    <3>1. /\ e.addr = d.addr /\ e.seqno = d.seqno /\ e.send_queue = d.send_queue
          /\ e.mac = d.mac /\ e.dropped = d.dropped
      BY <2>2, FieldTypes DEF SoundFields, Ranked
    <3> HIDE DEF e
    <3> QED  BY <3>1, FieldsStay
  <2> HIDE DEF e
  <2>8. f \in SoundConn(I, P) /\ Stays(e, f, G)
    BY <2>6, SendQueuedSound, SendQueuedStays
  <2> HIDE DEF f
  <2>9. Stays(c, e, G)
    BY <2>2, <2>6, <2>7, StaysTrans
  <2>10. Stays(c, f, G)
    BY <2>6, <2>8, <2>9, StaysTrans
  <2> QED  BY <2>3, <2>9, <2>10
<1> QED  BY <1>1, <1>2

LEMMA TableRankStays ==
  ASSUME NEW I, NEW P, NEW c \in SoundConn(I, P), NEW t \in SoundTable(P), NEW G
  PROVE  Stays(c, update_rtmetric([c EXCEPT !.neighbour_list = t]), G)
<1> DEFINE d == [c EXCEPT !.neighbour_list = t]
           e == update_rtmetric(d)
<1>1. d \in SoundConn(I, P) /\ Stays(c, d, G)
  BY SetTableSound, TableStays
<1> HIDE DEF d
<1>2. e \in SoundConn(I, P) /\ Stays(d, e, G)
  BY <1>1, UpdateRankSound, UpdateRankStays
<1> HIDE DEF e
<1>3. Stays(c, e, G)
  BY <1>1, <1>2, StaysTrans
<1> QED  BY <1>3 DEF d, e


-----------------------------------------------------------------------------
(* The next packet, and the outcome of a transmission.                     *)

\* The node works on its queue: what leaves it is a probe or is counted.
Works(c, d) ==
  /\ Turn(c, d, {})
  /\ c.dropped \subseteq d.dropped
  /\ \A p \in Gone(c, d) : p.probe \/ p.id \in d.dropped

LEMMA StaysWorks ==
  ASSUME NEW c, NEW d, Stays(c, d, {})
  PROVE  Works(c, d)
<1>1. Turn(c, d, {}) /\ Gone(c, d) = {}
  BY StaysTurns
<1> QED  BY <1>1 DEF Works, Stays

LEMMA WorksAfter ==
  ASSUME NEW I, NEW P, NEW c \in SoundConn(I, P), NEW d \in SoundConn(I, P),
         NEW e \in SoundConn(I, P), Stays(c, d, {}), Works(d, e)
  PROVE  Works(c, e)
<1>1. Turn(c, e, {}) /\ Gone(c, e) \subseteq Gone(d, e)
  BY TurnAfter DEF Works
<1>2. c.dropped \subseteq d.dropped
  BY DEF Stays
<1> QED  BY <1>1, <1>2 DEF Works

\* Only the head can leave with its successor being sent.
LEMMA PoppedKeeps ==
  ASSUME NEW S, NEW q \in Seq(S), NEW p \in Range(q), p \notin Range(Popped(q))
  PROVE  q # <<>> /\ p = Head(q)
<1>1. PICK i \in DOMAIN q : p = q[i]
  BY DEF Range
<1>2. i \in 1..Len(q) /\ q # <<>> /\ Head(q) = q[1]
  BY <1>1
<1>3. ASSUME i # 1 PROVE p \in Range(Popped(q))
  <2>1. Tail(q) = [j \in 1..Len(q)-1 |-> IF j < 1 THEN q[j] ELSE q[j+1]]
    BY <1>2, TailOf
  <2>2. i - 1 \in 1..Len(q)-1 /\ ~ (i - 1 < 1) /\ (i - 1) + 1 = i
    BY <1>2, <1>3
  <2> DEFINE k == i - 1
  <2>3. k \in DOMAIN Tail(q) /\ Tail(q)[k] = q[i]
    BY <2>1, <2>2
  <2> QED  BY <1>1, <1>2, <2>3 DEF Popped, Range
<1> QED  BY <1>1, <1>2, <1>3

LEMMA SendNextTurns ==
  ASSUME NEW I, NEW P, NEW c \in SoundConn(I, P)
  PROVE  LET e == send_next_packet(c)
         IN  /\ Turn(c, e, {})
             /\ c.dropped \subseteq e.dropped
             /\ \A p \in Gone(c, e) : c.send_queue # <<>> /\ p = Head(c.send_queue)
<1> DEFINE q == Popped(c.send_queue)
           k == (c.seqno + 1) % UINT8
           d == [c EXCEPT !.send_queue = q, !.seqno = k,
                          !.retransmission_timer = "off",
                          !.sending = FALSE, !.transmissions = 0]
           e == send_queued_packet(d)
<1>1. send_next_packet(c) = e
  BY DEF send_next_packet, Popped
<1>2. /\ k \in 0..UINT8-1 /\ 0 \in 0..UINT8-1
      /\ k >= c.seqno => c.seqno < k
  <2>1. c.seqno \in 0..UINT8-1 /\ UINT8 = 256
    BY FieldTypes, Numbers
  <2> QED  BY <2>1
<1>3. q \in Seq(SoundPacket(I)) /\ c.send_queue \in Seq(SoundPacket(I))
  BY DoneWithHead, FieldTypes
<1>4. \A p \in Range(c.send_queue) :
        p \notin Range(q) => c.send_queue # <<>> /\ p = Head(c.send_queue)
  BY <1>3, PoppedKeeps
<1> HIDE DEF k, q
<1>5. /\ d.addr = c.addr /\ d.is_sink = c.is_sink
      /\ d.send_queue = q /\ d.mac = c.mac /\ d.seqno = k
      /\ d.rtmetric = c.rtmetric /\ d.dropped = c.dropped
  BY FieldTypes DEF SoundFields
<1>6. d \in SoundFields(I, P)
  <2>1. c \in SoundFields(I, P)
    BY FieldTypes
  <2> QED  BY <1>2, <1>3, <2>1, Zenon DEF SoundFields
<1>7. d \in SoundConn(I, P)
  BY <1>5, <1>6, FieldTypes DEF SoundConn
<1> HIDE DEF d
<1>8. e \in SoundConn(I, P) /\ Stays(d, e, {})
  BY <1>7, SendQueuedSound, SendQueuedStays
<1> HIDE DEF e
<1>9. ASSUME k >= c.seqno PROVE Moves(c, d, {})
  <2>1. Onward(c, d)
    BY <1>2, <1>5, <1>9 DEF Onward
  <2>2. \A f \in Range(d.mac) : Alike(f, f) /\ f \in Range(c.mac)
    BY <1>5 DEF Alike
  <2>3. \A f \in Range(d.mac) : Accounted(c, d, {}, f)
    BY <2>2 DEF Accounted
  <2> QED  BY <1>5, <2>1, <2>3 DEF Moves
<1>10. Turn(c, e, {})
  <2> SUFFICES ASSUME e.seqno >= c.seqno PROVE Moves(c, e, {})
    BY DEF Turn
  <2>1. k >= c.seqno
    BY <1>5, <1>8 DEF Stays
  <2> QED  BY <1>7, <1>8, <1>9, <2>1, MovesTrans DEF Stays
<1>11. Gone(c, e) \subseteq Range(c.send_queue) \ Range(q)
  BY <1>5, <1>8 DEF Gone, Stays
<1>12. c.dropped \subseteq e.dropped
  BY <1>5, <1>8 DEF Stays
<1> QED  BY <1>1, <1>4, <1>10, <1>11, <1>12

LEMMA GivenUpStays ==
  ASSUME NEW I, NEW P, NEW c \in SoundConn(I, P), NEW p, NEW G
  PROVE  /\ Stays(c, GivenUp(c, p), G)
         /\ p.probe \/ p.id \in GivenUp(c, p).dropped
         /\ GivenUp(c, p).send_queue = c.send_queue
<1> DEFINE g == IF p.probe THEN c.dropped ELSE c.dropped \cup {p.id}
           d == [c EXCEPT !.dropped = g]
<1>1. GivenUp(c, p) = d
  BY DEF GivenUp
<1>2. c.dropped \subseteq g /\ (p.probe \/ p.id \in g)
  OBVIOUS
<1> HIDE DEF g
<1>3. /\ d.addr = c.addr /\ d.seqno = c.seqno /\ d.send_queue = c.send_queue
      /\ d.mac = c.mac /\ d.dropped = g
  BY FieldTypes DEF SoundFields
<1> HIDE DEF d
<1> QED  BY <1>1, <1>2, <1>3, FieldsStay

LEMMA RankKeepsQueue ==
  ASSUME NEW I, NEW P, NEW c \in SoundConn(I, P)
  PROVE  update_rtmetric(c).send_queue = c.send_queue
BY UpdateRankSound DEF Steady

LEMMA TimedoutWorks ==
  ASSUME NEW I, NEW P, NEW c \in SoundConn(I, P)
  PROVE  Works(c, timedout(c))
<1> DEFINE a == IF c.send_queue = <<>> THEN c ELSE GivenUp(c, Head(c.send_queue))
           b == [a EXCEPT !.sending = FALSE]
           t == libp_neighbour_tx_fail(a.neighbour_list, Find(c, c.current_parent),
                                       c.max_rexmits)
           d == update_rtmetric([b EXCEPT !.neighbour_list = t])
           e == send_next_packet(d)
<1>1. a \in SoundConn(I, P) /\ Stays(c, a, {}) /\ a.send_queue = c.send_queue
      /\ (c.send_queue # <<>> =>
            LET p == Head(c.send_queue) IN p.probe \/ p.id \in a.dropped)
  <2>1. CASE c.send_queue = <<>>
    BY <2>1, StaysSame
  <2>2. CASE c.send_queue # <<>>
    BY <2>2, HeadSound, GivenUpSound, GivenUpStays DEF Serves
  <2> QED  BY <2>1, <2>2
<1> HIDE DEF a
<1>2. t \in SoundTable(P)
  <2>1. a.neighbour_list \in SoundTable(P) /\ c.max_rexmits \in 0..31
    BY <1>1, FieldTypes
  <2>2. c.max_rexmits \in Nat
    BY <2>1
  <2> QED  BY <2>1, <2>2, TxFailSound
<1>3. timedout(c) = e
  <2>1. [a EXCEPT !.sending = FALSE, !.neighbour_list = t]
          = [b EXCEPT !.neighbour_list = t]
    <3> HIDE DEF t
    <3> QED  OBVIOUS
  <2> QED  BY <2>1 DEF timedout, a
<1> HIDE DEF t
<1>4. b \in SoundConn(I, P) /\ Stays(a, b, {}) /\ b.send_queue = a.send_queue
  <2>1. b.sending \in BOOLEAN /\ b = [a EXCEPT !.sending = b.sending]
    BY <1>1, SendingIs
  <2> HIDE DEF b
  <2> QED  BY <1>1, <2>1, SendingSet
<1> HIDE DEF b
<1>5. d \in SoundConn(I, P) /\ Stays(b, d, {}) /\ d.send_queue = b.send_queue
  BY <1>2, <1>4, TableThenRank, TableRankStays DEF Steady
<1> HIDE DEF d
<1>6. /\ e \in SoundConn(I, P) /\ Turn(d, e, {}) /\ d.dropped \subseteq e.dropped
      /\ \A p \in Gone(d, e) : d.send_queue # <<>> /\ p = Head(d.send_queue)
  BY <1>5, SendNextSound, SendNextTurns
<1> HIDE DEF e
<1>7. Stays(c, d, {})
  <2>1. Stays(c, b, {})
    BY <1>1, <1>4, StaysTrans
  <2> QED  BY <1>4, <1>5, <2>1, StaysTrans
<1>8. \A p \in Gone(d, e) : p.probe \/ p.id \in e.dropped
  <2>1. a.dropped \subseteq e.dropped
    BY <1>4, <1>5, <1>6 DEF Stays
  <2> QED  BY <1>1, <1>4, <1>5, <1>6, <2>1
<1>9. Works(d, e)
  BY <1>6, <1>8 DEF Works
<1> QED  BY <1>3, <1>5, <1>6, <1>7, <1>9, WorksAfter

\* The ACK is for the transmission under way, and ends it.
Releases(c, ack) ==
  /\ ack.type = "ACK" /\ ack.seqno = c.seqno
  /\ "DROPPED" \notin ack.flags \/ "LIFETIME_EXCEEDED" \in ack.flags

LEMMA TimerStays ==
  ASSUME NEW I, NEW P, NEW c \in SoundConn(I, P), NEW timer, NEW G
  PROVE  Stays(c, [c EXCEPT !.retransmission_timer = timer], G)
<1> DEFINE d == [c EXCEPT !.retransmission_timer = timer]
<1>1. /\ d.addr = c.addr /\ d.seqno = c.seqno /\ d.send_queue = c.send_queue
      /\ d.mac = c.mac /\ d.dropped = c.dropped
  BY FieldTypes DEF SoundFields
<1> HIDE DEF d
<1> QED  BY <1>1, FieldsStay DEF d

LEMMA PenaliseStays ==
  ASSUME NEW I, NEW P, NEW c \in SoundConn(I, P), NEW n, NEW k \in Nat,
         NEW d, d = update_rtmetric([c EXCEPT !.neighbour_list = libp_neighbour_tx(@, n, k)])
  PROVE  d \in SoundConn(I, P) /\ Stays(c, d, {}) /\ d.send_queue = c.send_queue
<1>1. libp_neighbour_tx(c.neighbour_list, n, k) \in SoundTable(P)
  BY FieldTypes, TxSound
<1> QED  BY <1>1, TableThenRank, TableRankStays DEF Steady

LEMMA HandleAckTurns ==
  ASSUME NEW I, NEW P, NEW c \in SoundConn(I, P), NEW ack \in SoundFrame(I),
         ack.type = "ACK"
  PROVE  LET e == handle_ack(c, ack)
         IN  /\ Turn(c, e, {})
             /\ c.dropped \subseteq e.dropped
             /\ \A p \in Gone(c, e) :
                  Releases(c, ack) /\ c.send_queue # <<>> /\ p = Head(c.send_queue)
<1> DEFINE n  == Find(c, ack.src)
           tx == IF c.transmissions = 0 THEN MAX_MAC_REXMITS ELSE c.transmissions
           t  == libp_neighbour_update_rtmetric(
                   libp_neighbour_tx(c.neighbour_list, n, tx), n, ack.rtmetric)
           Measured == [c EXCEPT !.transmissions = tx, !.neighbour_list = t]
           Penalise(d, k) ==
             update_rtmetric([d EXCEPT !.neighbour_list = libp_neighbour_tx(@, n, k)])
           Congestion(d) ==
             IF "CONGESTED" \in ack.flags THEN Penalise(d, d.max_rexmits * 2) ELSE d
           Ends == "DROPPED" \notin ack.flags \/ "LIFETIME_EXCEEDED" \in ack.flags
           Conclude(d) ==
             IF Ends THEN send_next_packet(d)
             ELSE [Penalise(d, d.max_rexmits) EXCEPT !.retransmission_timer = "retransmit"]
           a == IF n = {} THEN Measured ELSE update_rtmetric(Measured)
           b == Congestion(a)
           Still(d) == d \in SoundConn(I, P) /\ Stays(c, d, {}) /\ d.send_queue = c.send_queue
<1>1. tx \in 0..UINT8-1 /\ tx \in Nat
  <2>1. c.transmissions \in 0..UINT8-1 /\ UINT8 = 256
    BY FieldTypes, Numbers
  <2> QED  BY <2>1 DEF MAX_MAC_REXMITS
<1>2. t \in SoundTable(P)
  <2>1. c.neighbour_list \in SoundTable(P)
    BY FieldTypes
  <2>2. ack.rtmetric \in 0..RankLimit-1
    BY FrameFields
  <2> QED  BY <1>1, <2>1, <2>2, TxSound, UpdateRtmetricSound
<1> HIDE DEF tx, t
<1>3. Still(Measured)
  <2> DEFINE e == [c EXCEPT !.transmissions = tx]
  <2>1. e = Progress(c, tx, c.retransmission_timer, c.current_parent, c.dropped)
    BY FieldTypes DEF SoundFields, Progress
  <2>2. /\ c.retransmission_timer \in {"off", "retransmit", "not_sent"}
        /\ c.current_parent \in Parents(P)
        /\ c.dropped \in SUBSET PacketId
    BY FieldTypes
  <2>3. Measured = [e EXCEPT !.neighbour_list = t]
    BY FieldTypes DEF SoundFields
  <2> HIDE DEF e
  <2>4. e \in SoundConn(I, P) /\ e.send_queue = c.send_queue
    BY <1>1, <2>1, <2>2, SetProgressSound
  <2>5. Stays(c, e, {})
    BY <2>1, ProgressStays
  <2>6. Measured \in SoundConn(I, P) /\ Stays(e, Measured, {})
    BY <1>2, <2>3, <2>4, SetTableSound, TableStays
  <2>7. Measured.send_queue = c.send_queue
    BY FieldTypes DEF SoundFields
  <2> HIDE DEF Measured
  <2> QED  BY <2>4, <2>5, <2>6, <2>7, StaysTrans
<1> HIDE DEF Measured
<1>4. Still(a)
  <2>1. CASE n = {}
    BY <1>3, <2>1
  <2>2. CASE n # {}
    <3> DEFINE e == update_rtmetric(Measured)
    <3>1. /\ e \in SoundConn(I, P) /\ Stays(Measured, e, {})
          /\ e.send_queue = Measured.send_queue
      BY <1>3, UpdateRankSound, UpdateRankStays DEF Steady
    <3>2. a = e
      BY <2>2
    <3> HIDE DEF e
    <3> QED  BY <1>3, <3>1, <3>2, StaysTrans
  <2> QED  BY <2>1, <2>2
<1> HIDE DEF a
<1>5. ASSUME NEW d, Still(d), NEW k \in Nat
      PROVE  Still(Penalise(d, k))
  <2> DEFINE e == Penalise(d, k)
  <2>1. e \in SoundConn(I, P) /\ Stays(d, e, {}) /\ e.send_queue = d.send_queue
    BY <1>5, PenaliseStays
  <2> HIDE DEF e
  <2> QED  BY <1>5, <2>1, StaysTrans DEF e
<1>6. ASSUME NEW d \in SoundConn(I, P)
      PROVE  d.max_rexmits * 2 \in Nat /\ d.max_rexmits \in Nat
  <2>1. d.max_rexmits \in 0..31
    BY FieldTypes
  <2> QED  BY <2>1
<1> HIDE DEF Penalise
<1>7. Still(b)
  <2> HIDE DEF Still
  <2>1. a.max_rexmits * 2 \in Nat
    BY <1>4, <1>6 DEF Still
  <2> QED  BY <1>4, <1>5, <2>1
<1> HIDE DEF b
<1> DEFINE f == Conclude(b)
<1>8. b.max_rexmits \in Nat
  BY <1>6, <1>7
<1>9. /\ Turn(c, f, {}) /\ c.dropped \subseteq f.dropped
      /\ \A p \in Gone(c, f) : Ends /\ c.send_queue # <<>> /\ p = Head(c.send_queue)
  <2>1. CASE Ends
    <3> DEFINE e == send_next_packet(b)
    <3>1. /\ e \in SoundConn(I, P) /\ Turn(b, e, {}) /\ b.dropped \subseteq e.dropped
          /\ \A p \in Gone(b, e) : b.send_queue # <<>> /\ p = Head(b.send_queue)
      BY <1>7, SendNextSound, SendNextTurns
    <3>2. f = e
      BY <2>1
    <3> HIDE DEF e, f
    <3>3. Turn(c, e, {}) /\ Gone(c, e) \subseteq Gone(b, e)
      BY <1>7, <3>1, TurnAfter
    <3>4. c.dropped \subseteq e.dropped
      BY <1>7, <3>1 DEF Stays
    <3> QED  BY <1>7, <2>1, <3>1, <3>2, <3>3, <3>4
  <2>2. CASE ~ Ends
    <3> DEFINE d == Penalise(b, b.max_rexmits)
               e == [d EXCEPT !.retransmission_timer = "retransmit"]
    <3>1. Still(d)
      BY <1>5, <1>7, <1>8
    <3>2. f = e
      BY <2>2
    <3> HIDE DEF d, f
    <3>3. e \in SoundConn(I, P) /\ Stays(d, e, {})
      BY <3>1, SetTimerSound, TimerStays DEF Serves
    <3> HIDE DEF e
    <3>4. Stays(c, e, {})
      BY <3>1, <3>3, StaysTrans
    <3> QED  BY <3>2, <3>4, StaysTurns DEF Stays
  <2> QED  BY <2>1, <2>2
<1>10. handle_ack(c, ack)
         = IF ack.src # c.current_parent \/ ack.seqno # c.seqno THEN c ELSE f
  BY Zenon DEF handle_ack, f, Conclude, Ends, b, a, Measured, t, tx, Penalise
<1> HIDE DEF f
<1>11. CASE ack.src # c.current_parent \/ ack.seqno # c.seqno
  <2>1. Turn(c, c, {}) /\ Gone(c, c) = {}
    BY StaysSame, StaysTurns
  <2> QED  BY <1>10, <1>11, <2>1
<1>12. CASE ~ (ack.src # c.current_parent \/ ack.seqno # c.seqno)
  <2>1. Ends => Releases(c, ack)
    BY <1>12 DEF Releases
  <2> QED  BY <1>9, <1>10, <1>12, <2>1
<1> QED  BY <1>11, <1>12

LEMMA CountStays ==
  ASSUME NEW I, NEW P, NEW c \in SoundConn(I, P), NEW j
  PROVE  Stays(c, [c EXCEPT !.transmissions = (@ + j) % UINT8], {})
<1> DEFINE d == [c EXCEPT !.transmissions = (@ + j) % UINT8]
<1>1. /\ d.addr = c.addr /\ d.seqno = c.seqno /\ d.send_queue = c.send_queue
      /\ d.mac = c.mac /\ d.dropped = c.dropped
  BY FieldTypes DEF SoundFields
<1> HIDE DEF d
<1> QED  BY <1>1, FieldsStay DEF d

LEMMA PacketSentWorks ==
  ASSUME NEW I, NEW P, NEW c \in SoundConn(I, P), NEW frame, NEW t \in Nat
  PROVE  Works(c, node_packet_sent(c, frame, t))
<1> DEFINE d == [c EXCEPT !.transmissions = (@ + t) % UINT8]
           e == timedout(d)
           s == [d EXCEPT !.retransmission_timer = "retransmit"]
<1>1. d \in SoundConn(I, P) /\ Stays(c, d, {})
  BY CountSound, CountStays DEF Serves
<1>2. node_packet_sent(c, frame, t) \in {c, e, s}
  BY Zenon DEF node_packet_sent
<1> HIDE DEF d
<1>3. e \in SoundConn(I, P) /\ Works(d, e)
  BY <1>1, TimedoutSound, TimedoutWorks
<1> HIDE DEF e
<1>4. s \in SoundConn(I, P) /\ Works(d, s)
  BY <1>1, SetTimerSound, TimerStays, StaysWorks DEF Serves
<1> HIDE DEF s
<1>5. Works(c, e) /\ Works(c, s)
  BY <1>1, <1>3, <1>4, WorksAfter
<1> QED  BY <1>2, <1>5, StaysSame, StaysWorks

LEMMA RetransmitStays ==
  ASSUME NEW I, NEW P, NEW c \in SoundConn(I, P), ~ c.sending, TriesLeft(c)
  PROVE  Stays(c, retransmit_current_packet(c), {})
<1> DEFINE u == update_rtmetric(c)
           d == IF u.current_parent = u.parent THEN u
                ELSE [u EXCEPT !.current_parent = u.parent, !.transmissions = 0]
           s == [d EXCEPT !.sending = TRUE]
           tries == AtMost(d.max_rexmits - d.transmissions, MAX_MAC_REXMITS)
           e == IF Find(d, d.current_parent) = {} THEN d
                ELSE send_packet(s, d.current_parent, tries)
<1>1. Armed(c)
  BY DEF Armed
<1>2. CASE c.send_queue = <<>>
  <2>1. retransmit_current_packet(c) = c
    BY <1>2 DEF retransmit_current_packet
  <2> QED  BY <2>1, StaysSame
<1>3. CASE c.send_queue # <<>>
  <2>1. retransmit_current_packet(c) = e
    BY <1>3 DEF retransmit_current_packet
  <2>2. u \in SoundConn(I, P) /\ Stays(c, u, {}) /\ Steady(c, u)
    BY UpdateRankSound, UpdateRankStays
  <2> HIDE DEF u
  <2>3. /\ d \in SoundConn(I, P) /\ Stays(u, d, {}) /\ TriesLeft(d)
        /\ d.send_queue # <<>>
    <3>1. CASE u.current_parent = u.parent
      BY <1>3, <2>2, <3>1, StaysSame DEF Steady
    <3>2. CASE u.current_parent # u.parent
      <4>1. d = Progress(u, 0, u.retransmission_timer, u.parent, u.dropped)
        BY <2>2, <3>2, FieldTypes DEF SoundFields, Progress
      <4>2. /\ u.retransmission_timer \in {"off", "retransmit", "not_sent"}
            /\ u.parent \in Parents(P) /\ u.dropped \in SUBSET PacketId
            /\ u.max_rexmits \in 0..31
        BY <2>2, FieldTypes
      <4>3. 0 \in 0..UINT8-1
        BY Numbers
      <4> HIDE DEF d
      <4>4. /\ d \in SoundConn(I, P)
            /\ d.transmissions = 0
            /\ d.max_rexmits = u.max_rexmits /\ d.send_queue = u.send_queue
        BY <2>2, <4>1, <4>2, <4>3, SetProgressSound
      <4>5. Stays(u, d, {})
        BY <2>2, <4>1, ProgressStays
      <4>6. TriesLeft(d)
        <5>1. 0 <= u.max_rexmits
          BY <4>2
        <5> QED  BY <4>4, <5>1 DEF TriesLeft
      <4> QED  BY <1>3, <2>2, <4>4, <4>5, <4>6 DEF Steady
    <3> QED  BY <3>1, <3>2
  <2> HIDE DEF d
  <2>4. Stays(c, d, {})
    BY <2>2, <2>3, StaysTrans
  <2>5. CASE Find(d, d.current_parent) = {}
    BY <2>1, <2>4, <2>5
  <2>6. CASE Find(d, d.current_parent) # {}
    <3>1. d.current_parent \in Node \cap Parents(P)
      BY <2>3, <2>6, Found, FieldTypes
    <3>2. tries \in 0..31
      <4>1. d.transmissions \in 0..UINT8-1 /\ d.max_rexmits \in 0..31
        BY <2>3, FieldTypes
      <4>2. d.transmissions <= d.max_rexmits
        BY <2>3 DEF TriesLeft
      <4> QED  BY <4>1, <4>2, TriesRange
    <3> HIDE DEF tries
    <3>3. s \in SoundConn(I, P) /\ Stays(d, s, {}) /\ s.send_queue # <<>>
      <4>1. s.sending \in BOOLEAN /\ s = [d EXCEPT !.sending = s.sending]
        BY <2>3, SendingIs
      <4> HIDE DEF s
      <4> QED  BY <2>3, <4>1, SendingSet
    <3> HIDE DEF s
    <3> DEFINE f == send_packet(s, d.current_parent, tries)
    <3>4. f \in SoundConn(I, P) /\ Stays(s, f, {})
      BY <3>1, <3>2, <3>3, SendPacketSound, SendPacketStays
    <3>5. e = f
      BY <2>6
    <3> HIDE DEF f, e
    <3>6. Stays(c, s, {})
      BY <2>3, <2>4, <3>3, StaysTrans
    <3>7. Stays(c, f, {})
      BY <3>3, <3>4, <3>6, StaysTrans
    <3> QED  BY <2>1, <3>5, <3>7
  <2> QED  BY <2>5, <2>6
<1> QED  BY <1>2, <1>3

LEMMA RetransmitCallbackWorks ==
  ASSUME NEW I, NEW P, NEW c \in SoundConn(I, P)
  PROVE  Works(c, retransmit_callback(c))
<1> DEFINE d == [c EXCEPT !.retransmission_timer = "off"]
           s == [d EXCEPT !.sending = FALSE]
<1>1. retransmit_callback(c)
        = IF d.transmissions >= d.max_rexmits THEN timedout(d)
          ELSE retransmit_current_packet(s)
  BY DEF retransmit_callback
<1>2. d = Progress(c, c.transmissions, "off", c.current_parent, c.dropped)
  BY FieldTypes DEF SoundFields, Progress
<1>3. /\ "off" \in {"off", "retransmit", "not_sent"}
      /\ c.transmissions \in 0..UINT8-1
      /\ c.current_parent \in Parents(P) /\ c.dropped \in SUBSET PacketId
  BY FieldTypes
<1> HIDE DEF d
<1>4. d \in SoundConn(I, P) /\ Stays(c, d, {})
  BY <1>2, <1>3, SetProgressSound, ProgressStays
<1>5. CASE d.transmissions >= d.max_rexmits
  <2> DEFINE e == timedout(d)
  <2>1. e \in SoundConn(I, P) /\ Works(d, e)
    BY <1>4, TimedoutSound, TimedoutWorks
  <2> HIDE DEF e
  <2>2. Works(c, e)
    BY <1>4, <2>1, WorksAfter
  <2> QED  BY <1>1, <1>5, <2>2 DEF e
<1>6. CASE ~ (d.transmissions >= d.max_rexmits)
  <2> DEFINE e == retransmit_current_packet(s)
  <2>1. /\ s.sending = FALSE /\ s.sending \in BOOLEAN
        /\ s = [d EXCEPT !.sending = s.sending]
    BY <1>4, SendingIs
  <2> HIDE DEF s
  <2>2. /\ s \in SoundConn(I, P) /\ Stays(d, s, {}) /\ s.sending = FALSE
        /\ s.transmissions = d.transmissions /\ s.max_rexmits = d.max_rexmits
    BY <1>4, <2>1, SendingSet
  <2>3. TriesLeft(s)
    <3>1. PICK x \in 0..UINT8-1 : x = d.transmissions
      BY <1>4, FieldTypes
    <3>2. PICK y \in 0..31 : y = d.max_rexmits
      BY <1>4, FieldTypes
    <3>3. UINT8 \in Int
      BY Numbers
    <3>4. ~ (x >= y)
      BY <1>6, <3>1, <3>2, Zenon
    <3>5. x <= y
      BY ONLY <3>1, <3>2, <3>3, <3>4
    <3>6. s.transmissions = x /\ s.max_rexmits = y
      BY <2>2, <3>1, <3>2, Zenon
    <3> QED  BY ONLY <3>5, <3>6, Zenon DEF TriesLeft
  <2>4. e \in SoundConn(I, P) /\ Stays(s, e, {})
    BY <2>2, <2>3, RetransmitSound, RetransmitStays
  <2> HIDE DEF e
  <2>5. Stays(c, s, {})
    BY <1>4, <2>2, StaysTrans
  <2>6. Works(c, e)
    BY <2>2, <2>4, <2>5, StaysTrans, StaysWorks
  <2> QED  BY <1>1, <1>6, <2>6 DEF e, s
<1> QED  BY <1>5, <1>6

LEMMA NotSentCallbackWorks ==
  ASSUME NEW I, NEW P, NEW c \in SoundConn(I, P)
  PROVE  Works(c, retransmit_not_sent_callback(c))
<1> DEFINE j == MAX_MAC_REXMITS + 1
           d == [c EXCEPT !.transmissions = (@ + j) % UINT8]
           e == retransmit_callback(d)
<1>1. retransmit_not_sent_callback(c) = e
  <2>1. \A k \in 0..UINT8-1 : k + MAX_MAC_REXMITS + 1 = k + j
    BY Numbers DEF MAX_MAC_REXMITS
  <2>2. c.transmissions \in 0..UINT8-1
    BY FieldTypes
  <2> HIDE DEF j
  <2>3. c.transmissions + MAX_MAC_REXMITS + 1 = c.transmissions + j
    BY <2>1, <2>2
  <2> QED  BY <2>3 DEF retransmit_not_sent_callback
<1>2. j \in Nat
  BY DEF MAX_MAC_REXMITS
<1> HIDE DEF j
<1>3. d \in SoundConn(I, P) /\ Stays(c, d, {})
  BY <1>2, CountSound, CountStays DEF Serves
<1> HIDE DEF d
<1>4. e \in SoundConn(I, P) /\ Works(d, e)
  BY <1>3, RetransmitCallbackSound, RetransmitCallbackWorks
<1> HIDE DEF e
<1> QED  BY <1>1, <1>3, <1>4, WorksAfter

-----------------------------------------------------------------------------
(* What else a node does: the head of the queue stays.                     *)

LEMMA AnnouncementStays ==
  ASSUME NEW I, NEW P, NEW c \in SoundConn(I, P), NEW from \in Node,
         NEW value \in 0..RankLimit-1,
         from \in Parents(P) \/ c.rtmetric = RTMETRIC_SINK
  PROVE  Stays(c, received_announcement(c, from, value), {})
<1> DEFINE n == Find(c, from)
           t == IF n # {}
                THEN libp_neighbour_update_rtmetric(c.neighbour_list, n, value)
                ELSE IF value < c.rtmetric
                THEN libp_neighbour_list_add(c.neighbour_list, from, value)
                ELSE c.neighbour_list
<1>1. c.neighbour_list \in SoundTable(P)
  BY FieldTypes
<1>2. t \in SoundTable(P)
  <2>1. value \in Nat /\ RTMETRIC_SINK = 0
    BY Numbers
  <2> QED  BY <1>1, <2>1, UpdateRtmetricSound, AddSound
<1>3. received_announcement(c, from, value)
        = update_rtmetric([c EXCEPT !.neighbour_list = t])
  BY DEF received_announcement
<1> HIDE DEF t
<1> QED  BY <1>2, <1>3, TableRankStays

LEMMA PurgeStays ==
  ASSUME NEW I, NEW P, NEW c \in SoundConn(I, P)
  PROVE  Stays(c, libp_purge(c), {})
<1> DEFINE t == libp_neighbour_list_purge(c.neighbour_list)
           a == [c EXCEPT !.neighbour_list = t]
           b == [a EXCEPT !.parent = NullAddr]
           d == update_rtmetric(b)
           e == [d EXCEPT !.parent = NullAddr]
<1>0. NullAddr \in Parents(P)
  BY DEF Parents
<1>1. t \in SoundTable(P)
  <2>1. c.neighbour_list \in SoundTable(P)
    BY FieldTypes
  <2> QED  BY <2>1, PurgeSound
<1>2. libp_purge(c) = e
  BY DEF libp_purge
<1> HIDE DEF t
<1>3. a \in SoundConn(I, P) /\ Stays(c, a, {})
  BY <1>1, SetTableSound, TableStays
<1> HIDE DEF a
<1>4. b \in SoundConn(I, P) /\ Stays(a, b, {})
  BY <1>0, <1>3, SetParentSound, ParentStays
<1> HIDE DEF b
<1>5. d \in SoundConn(I, P) /\ Stays(b, d, {})
  BY <1>4, UpdateRankSound, UpdateRankStays
<1> HIDE DEF d
<1>6. e \in SoundConn(I, P) /\ Stays(d, e, {})
  BY <1>0, <1>5, SetParentSound, ParentStays
<1> HIDE DEF e
<1>7. Stays(c, b, {})
  BY <1>3, <1>4, StaysTrans
<1>8. Stays(c, d, {})
  BY <1>4, <1>5, <1>7, StaysTrans
<1> QED  BY <1>2, <1>5, <1>6, <1>8, StaysTrans

LEMMA TickStays ==
  ASSUME NEW I, NEW P, NEW c \in SoundConn(I, P)
  PROVE  Stays(c, Tick(c), {})
BY TableStays DEF Tick

LEMMA EnqueuedStays ==
  ASSUME NEW I, NEW P, NEW c \in SoundConn(I, P), NEW p \in SoundPacket(I), NEW G
  PROVE  Stays(c, Enqueued(c, p), G)
<1> DEFINE q == Append(c.send_queue, p)
           d == Enqueued(c, p)
<1>1. c.send_queue \in Seq(SoundPacket(I))
  BY FieldTypes
<1>2. /\ d.addr = c.addr /\ d.seqno = c.seqno /\ d.send_queue = q
      /\ d.mac = c.mac /\ d.dropped = c.dropped
  BY FieldTypes DEF SoundFields, Enqueued
<1>3. /\ Range(q) = Range(c.send_queue) \cup {p}
      /\ c.send_queue # <<>> => q # <<>> /\ Head(q) = Head(c.send_queue)
  <2>1. Range(q) = Range(c.send_queue) \cup {p}
    BY <1>1, AppendTo
  <2> HIDE DEF q
  <2>2. ASSUME c.send_queue # <<>> PROVE q # <<>> /\ Head(q) = Head(c.send_queue)
    BY <1>1, <2>2 DEF q
  <2> QED  BY <2>1, <2>2
<1> HIDE DEF q, d
<1>4. \A f \in Range(d.mac) : Alike(f, f) /\ f \in Range(c.mac)
  BY <1>2 DEF Alike
<1>5. \A f \in Range(d.mac) : Accounted(c, d, G, f)
  BY <1>4 DEF Accounted
<1>6. Moves(c, d, G)
  BY <1>2, <1>3, <1>5 DEF Moves, Onward
<1> QED  BY <1>2, <1>3, <1>6 DEF Stays, d

LEMMA ProbeStays ==
  ASSUME NEW I, NEW P, NEW c \in SoundConn(I, P), NEW room
  PROVE  Stays(c, proactive_probing_callback(c, room), {})
<1> DEFINE n == FirstUnprobed(c)
           p == [id |-> <<c.addr, (c.eseqno - 1) % UINT8, 0>>, ttl |-> 1, hops |-> 1,
                 rexmits |-> PROACTIVE_PROBING_REXMITS, probe |-> TRUE]
           to == c.neighbour_list[Deref(n)].addr
           a == [c EXCEPT !.parent = to]
           b == Enqueued(a, p)
           e == send_queued_packet(b)
           d == [e EXCEPT !.parent = c.parent]
           idle == \/ c.rtmetric \in {RTMETRIC_SINK, RTMETRIC_MAX}
                   \/ c.send_queue # <<>> \/ n = {} \/ ~ HasRoom(c, room)
<1>1. \/ idle /\ proactive_probing_callback(c, room) = c
      \/ ~ idle /\ proactive_probing_callback(c, room) = d
  <2>1. c.addr \in Node /\ a.addr = c.addr /\ a.eseqno = c.eseqno
    BY FieldTypes DEF SoundFields
  <2>2. b = enqueue_dummy_packet(a, PROACTIVE_PROBING_REXMITS)
    BY <2>1 DEF enqueue_dummy_packet
  <2> HIDE DEF b
  <2> QED  BY <2>2 DEF proactive_probing_callback
<1>2. CASE proactive_probing_callback(c, room) = c
  BY <1>2, StaysSame
<1>3. CASE ~ idle /\ proactive_probing_callback(c, room) = d
  <2>1. p \in SoundPacket(I) /\ ~ (p.hops > 1)
    <3>1. c.addr \in Node /\ c.eseqno \in 0..UINT8-1
      BY FieldTypes
    <3>2. (c.eseqno - 1) % UINT8 \in 0..UINT8-1
      BY <3>1, Numbers
    <3>3. p.id \in PacketId
      BY <3>1, <3>2 DEF PacketId
    <3>4. 1 \in 0..MAX_HOPLIM /\ PROACTIVE_PROBING_REXMITS \in 0..31
      BY LibpAssumption
    <3>5. p \in Packet
      BY <3>3, <3>4 DEF Packet
    <3> QED  BY <3>5 DEF SoundPacket, Budgeted
  <2>2. to \in Parents(P)
    <3>1. Deref(n) \in FirstUnprobed(c)
      BY <1>3, DerefIn
    <3>2. Deref(n) \in Listed(c.neighbour_list)
      <4>1. FirstUnprobed(c) \subseteq Unprobed(c)
        BY DEF FirstUnprobed
      <4>2. Unprobed(c) \subseteq Listed(c.neighbour_list)
        BY DEF Unprobed
      <4> HIDE DEF n
      <4> QED  BY <3>1, <4>1, <4>2
    <3>3. c.neighbour_list \in SoundTable(P)
      BY FieldTypes
    <3> QED  BY <3>2, <3>3, TableFields
  <2> HIDE DEF p, to, idle
  <2>3. a \in SoundConn(I, P) /\ Stays(c, a, {})
    BY <2>2, SetParentSound, ParentStays
  <2> HIDE DEF a
  <2>4. b \in SoundConn(I, P) /\ Stays(a, b, {})
    BY <2>1, <2>3, EnqueuedSound, EnqueuedStays DEF Answers
  <2> HIDE DEF b
  <2>5. e \in SoundConn(I, P) /\ Stays(b, e, {})
    BY <2>4, SendQueuedSound, SendQueuedStays
  <2> HIDE DEF e
  <2>6. d \in SoundConn(I, P) /\ Stays(e, d, {})
    <3>1. c.parent \in Parents(P)
      BY FieldTypes
    <3> QED  BY <2>5, <3>1, SetParentSound, ParentStays
  <2> HIDE DEF d
  <2>7. Stays(c, b, {})
    BY <2>3, <2>4, StaysTrans
  <2>8. Stays(c, e, {})
    BY <2>4, <2>5, <2>7, StaysTrans
  <2> QED  BY <1>3, <2>5, <2>6, <2>8, StaysTrans
<1> QED  BY <1>1, <1>2, <1>3

LEMMA SendStays ==
  ASSUME NEW I, NEW P, NEW c \in SoundConn(I, P), <<c.addr, c.eseqno,
         c.sent + 1>> \in I,
         NEW rexmits \in 1..MAX_REXMITS, NEW room
  PROVE  Stays(c, libp_send(c, rexmits, room), {})
<1> DEFINE p == [id |-> <<c.addr, c.eseqno, c.sent + 1>>, ttl |-> MAX_HOPLIM, hops |-> 1,
                 rexmits |-> AtMost(rexmits, MAX_REXMITS), probe |-> FALSE]
           d == Counted(c)
           got == Append(d.received, p.id)
           s == [d EXCEPT !.received = got]
           a == Enqueued(d, p)
           b == send_queued_packet(a)
<1>1. libp_send(c, rexmits, room)
        = IF c.rtmetric = RTMETRIC_SINK THEN s
          ELSE IF HasRoom(c, room) THEN b ELSE d
  BY Zenon DEF libp_send, Counted
<1>2. p \in SoundPacket(I) /\ ~ (p.hops > 1)
  <2>1. c.addr \in Node /\ c.eseqno \in 0..UINT8-1 /\ c.sent \in Nat
    BY FieldTypes
  <2>2. <<c.addr, c.eseqno, c.sent + 1>> \in PacketId
    BY <2>1 DEF PacketId
  <2>3. /\ MAX_HOPLIM \in 0..MAX_HOPLIM /\ MAX_HOPLIM >= 1
        /\ MAX_HOPLIM + 1 = MAX_HOPLIM + 1
        /\ AtMost(rexmits, MAX_REXMITS) \in 0..31
    BY LibpAssumption DEF AtMost
  <2>4. p \in Packet
    BY <2>2, <2>3 DEF Packet
  <2> QED  BY <2>3, <2>4 DEF SoundPacket, Budgeted
<1> HIDE DEF p, got
<1>3. /\ d \in SoundConn(I, P)
      /\ d.addr = c.addr /\ d.seqno = c.seqno /\ d.send_queue = c.send_queue
      /\ d.mac = c.mac /\ d.dropped = c.dropped
  <2>1. d.addr = c.addr /\ d.seqno = c.seqno /\ d.send_queue = c.send_queue
        /\ d.mac = c.mac /\ d.dropped = c.dropped
    BY FieldTypes DEF SoundFields, Counted
  <2> HIDE DEF d
  <2>2. d \in SoundConn(I, P)
    BY CountedSound DEF d
  <2> QED  BY <2>1, <2>2
<1> HIDE DEF d
<1>4. Stays(c, d, {})
  BY <1>3, FieldsStay
<1>5. Stays(c, s, {})
  <2>1. /\ s.addr = d.addr /\ s.seqno = d.seqno /\ s.send_queue = d.send_queue
        /\ s.mac = d.mac /\ s.dropped = d.dropped
    BY <1>3, FieldTypes DEF SoundFields
  <2> HIDE DEF s
  <2> QED  BY <1>3, <2>1, FieldsStay
<1> HIDE DEF s
<1>6. a \in SoundConn(I, P) /\ Stays(d, a, {})
  <2>1. Answers(I, P, d, a)
    BY <1>2, <1>3, EnqueuedSound
  <2> QED  BY <1>2, <1>3, <2>1, EnqueuedStays DEF Answers
<1> HIDE DEF a
<1>7. b \in SoundConn(I, P) /\ Stays(a, b, {})
  BY <1>6, SendQueuedSound, SendQueuedStays
<1> HIDE DEF b
<1>8. Stays(c, b, {})
  BY <1>3, <1>4, <1>6, <1>7, StaysTrans
<1> QED  BY <1>1, <1>4, <1>5, <1>8

-----------------------------------------------------------------------------
(* A frame arrives and is answered.                                        *)

LEMMA AckStays ==
  ASSUME NEW I, NEW P, NEW c \in SoundConn(I, P), NEW data \in SoundFrame(I),
         NEW flags \in SUBSET AckFlags
  PROVE  Stays(c, send_ack(c, data, flags), {data})
<1> DEFINE f == AckFrame(c, data, flags)
           d == send_ack(c, data, flags)
           m == Append(c.mac, f)
<1>1. f \in SentFrame(I, P)
  <2>1. d \in SoundConn(I, P) /\ d.mac = m
    BY AckSound DEF Answers
  <2>2. c.mac \in Seq(SentFrame(I, P)) /\ d.mac \in Seq(SentFrame(I, P))
    BY <2>1, FieldTypes
  <2> HIDE DEF f, d
  <2>3. Len(m) = Len(c.mac) + 1 /\ m[Len(c.mac) + 1] = f /\ Len(c.mac) + 1 \in DOMAIN m
    BY <2>2
  <2>4. m \in Seq(SentFrame(I, P))
    BY <2>1, <2>2
  <2> HIDE DEF m
  <2> QED  BY <2>3, <2>4
<1>2. /\ d.addr = c.addr /\ d.seqno = c.seqno /\ d.send_queue = c.send_queue
      /\ d.mac = m /\ d.dropped = c.dropped
  BY FieldTypes DEF SoundFields, send_ack, AckFrame
<1>3. Reply(f, data)
  BY DEF Reply, AckFrame
<1> HIDE DEF f, d
<1>4. c.mac \in Seq(SentFrame(I, P))
  BY FieldTypes
<1>5. Range(m) = Range(c.mac) \cup {f}
  BY <1>1, <1>4, AppendTo
<1> HIDE DEF m
<1>6. ASSUME NEW g \in Range(d.mac) PROVE Accounted(c, d, {data}, g)
  BY <1>2, <1>3, <1>5, <1>6 DEF Accounted, Alike
<1> QED  BY <1>2, <1>6 DEF Stays, Moves, Onward, d

LEMMA RememberStays ==
  ASSUME NEW I, NEW P, NEW c \in SoundConn(I, P), NEW p, NEW G
  PROVE  Stays(c, add_packet_to_recent_packets(c, p), G)
<1> DEFINE r == Append(IF Len(c.recent_packets) < NUM_RECENT_PACKETS
                       THEN c.recent_packets ELSE Tail(c.recent_packets), p.id)
           d == [c EXCEPT !.recent_packets = r]
<1>1. add_packet_to_recent_packets(c, p) \in {c, d}
  BY DEF add_packet_to_recent_packets
<1> HIDE DEF r
<1>2. /\ d.addr = c.addr /\ d.seqno = c.seqno /\ d.send_queue = c.send_queue
      /\ d.mac = c.mac /\ d.dropped = c.dropped
  BY FieldTypes DEF SoundFields
<1> HIDE DEF d
<1> QED  BY <1>1, <1>2, FieldsStay

LEMMA DeliverStays ==
  ASSUME NEW I, NEW P, NEW c \in SoundConn(I, P), NEW data \in SoundFrame(I), NEW room
  PROVE  Stays(c, Deliver(c, data, room), {data})
<1> DEFINE p   == data.packet
           a   == add_packet_to_recent_packets(c, p)
           s   == send_ack(a, data, {})
           b   == IF room THEN s ELSE a
           got == Append(b.received, p.id)
           e   == [b EXCEPT !.received = got]
           d   == IF p.probe THEN b ELSE e
<1>1. Deliver(c, data, room) = d
  BY DEF Deliver
<1>2. p \in SoundPacket(I)
  BY FrameFields
<1>3. a \in SoundConn(I, P) /\ Stays(c, a, {data})
  <2>1. Answers(I, P, c, a)
    BY <1>2, RememberSound
  <2> QED  BY <2>1, RememberStays DEF Answers
<1> HIDE DEF a
<1>4. s \in SoundConn(I, P) /\ Stays(a, s, {data})
  <2>1. {} \in SUBSET AckFlags
    OBVIOUS
  <2>2. Answers(I, P, a, s)
    BY <1>3, <2>1, AckSound
  <2> QED  BY <1>3, <2>1, <2>2, AckStays DEF Answers
<1> HIDE DEF s
<1>5. Stays(c, s, {data})
  BY <1>3, <1>4, StaysTrans
<1>6. b \in SoundConn(I, P) /\ Stays(c, b, {data})
  BY <1>3, <1>4, <1>5
<1> HIDE DEF b, got
<1>7. Stays(c, e, {data})
  <2>1. /\ e.addr = b.addr /\ e.seqno = b.seqno /\ e.send_queue = b.send_queue
        /\ e.mac = b.mac /\ e.dropped = b.dropped
    BY <1>6, FieldTypes DEF SoundFields
  <2>2. e.mac = b.mac /\ \A f \in Range(e.mac) : Accounted(b, e, {data}, f)
    <3> HIDE DEF e
    <3> QED  BY <2>1, FieldsStay DEF Stays, Moves
  <2> HIDE DEF e
  <2>3. \A f \in Range(e.mac) : Accounted(c, e, {data}, f)
    BY <1>6, <2>1 DEF Stays, Moves, Accounted, OwnFrame, InOrder
  <2> QED  BY <1>6, <2>1, <2>3 DEF Stays, Moves, Onward
<1> HIDE DEF e
<1> QED  BY <1>1, <1>6, <1>7

LEMMA ForwardStays ==
  ASSUME NEW I, NEW P, NEW c \in SoundConn(I, P), NEW data \in SoundFrame(I),
         NEW flags \in SUBSET AckFlags, NEW room, data.packet.ttl > 1
  PROVE  Stays(c, Forward(c, data, flags, room), {data})
<1> DEFINE p == [data.packet EXCEPT !.hops = @ + 1, !.ttl = @ - 1]
           a == Enqueued(c, p)
           b == add_packet_to_recent_packets(a, p)
           s == send_ack(b, data, flags)
           e == send_queued_packet(s)
           full == flags \cup {"DROPPED", "CONGESTED"}
           mayAdd == /\ Len(c.send_queue) <= MAX_SENDING_QUEUE - MIN_AVAILABLE_QUEUE_ENTRIES
                     /\ HasRoom(c, room)
<1>1. Forward(c, data, flags, room) = IF mayAdd THEN e ELSE send_ack(c, data, full)
  BY DEF Forward
<1>2. CASE ~ mayAdd
  <2>1. full \in SUBSET AckFlags
    BY DEF AckFlags
  <2> HIDE DEF full, mayAdd
  <2> QED  BY <1>1, <1>2, <2>1, AckStays
<1>3. CASE mayAdd
  <2>1. p \in SoundPacket(I)
    <3>1. data.packet \in SoundPacket(I)
      BY FrameFields
    <3> QED  BY <3>1, ForwardedPacketSound
  <2> HIDE DEF p
  <2>2. a \in SoundConn(I, P) /\ Stays(c, a, {data})
    <3>1. Answers(I, P, c, a)
      BY <1>3, <2>1, EnqueuedSound
    <3> QED  BY <2>1, <3>1, EnqueuedStays DEF Answers
  <2> HIDE DEF a
  <2>3. b \in SoundConn(I, P) /\ Stays(a, b, {data})
    <3>1. Answers(I, P, a, b)
      BY <2>1, <2>2, RememberSound
    <3> QED  BY <2>2, <3>1, RememberStays DEF Answers
  <2> HIDE DEF b
  <2>4. s \in SoundConn(I, P) /\ Stays(b, s, {data})
    <3>1. Answers(I, P, b, s)
      BY <2>3, AckSound
    <3> QED  BY <2>3, <3>1, AckStays DEF Answers
  <2> HIDE DEF s
  <2>5. e \in SoundConn(I, P) /\ Stays(s, e, {data})
    BY <2>4, SendQueuedSound, SendQueuedStays
  <2> HIDE DEF e
  <2>6. Stays(c, b, {data})
    BY <2>2, <2>3, StaysTrans
  <2>7. Stays(c, s, {data})
    BY <2>3, <2>4, <2>6, StaysTrans
  <2>8. Stays(c, e, {data})
    BY <2>4, <2>5, <2>7, StaysTrans
  <2> HIDE DEF mayAdd
  <2> QED  BY <1>1, <1>3, <2>8
<1> QED  BY <1>2, <1>3

LEMMA ReceiveDataStays ==
  ASSUME NEW I, NEW P, NEW c \in SoundConn(I, P), NEW data \in SoundFrame(I),
         NEW rank, NEW room
  PROVE  Stays(c, ReceiveData(c, data, rank, room), {data})
<1> DEFINE congested == IF Len(c.send_queue) >= MAX_SENDING_QUEUE \div 2
                        THEN {"CONGESTED"} ELSE {}
           loop == IF rank <= c.rtmetric THEN {"RTMETRIC_NEEDS_UPDATE"} ELSE {}
           flags == congested \cup loop
           late  == congested \cup {"DROPPED", "LIFETIME_EXCEEDED"}
           g     == GivenUp(c, data.packet)
           e     == send_ack(g, data, late)
<1>1. \/ ReceiveData(c, data, rank, room) = send_ack(c, data, congested)
      \/ ReceiveData(c, data, rank, room) = Deliver(c, data, room)
      \/ /\ data.packet.ttl > 1
         /\ ReceiveData(c, data, rank, room) = Forward(c, data, flags, room)
      \/ ReceiveData(c, data, rank, room) = e
      \/ ReceiveData(c, data, rank, room) = c
  BY Zenon DEF ReceiveData
<1>2. /\ congested \in SUBSET AckFlags /\ flags \in SUBSET AckFlags
      /\ late \in SUBSET AckFlags
  BY DEF AckFlags
<1> HIDE DEF congested, flags, late
<1>3. Stays(c, send_ack(c, data, congested), {data})
  BY <1>2, AckStays
<1>4. Stays(c, Deliver(c, data, room), {data})
  BY DeliverStays
<1>5. ASSUME data.packet.ttl > 1
      PROVE  Stays(c, Forward(c, data, flags, room), {data})
  BY <1>2, <1>5, ForwardStays
<1>6. Stays(c, e, {data})
  <2>1. g \in SoundConn(I, P) /\ Stays(c, g, {data})
    BY FrameFields, GivenUpSound, GivenUpStays DEF Serves
  <2> HIDE DEF g
  <2>2. e \in SoundConn(I, P) /\ Stays(g, e, {data})
    <3>1. Answers(I, P, g, e)
      BY <1>2, <2>1, AckSound
    <3> QED  BY <1>2, <2>1, <3>1, AckStays DEF Answers
  <2> HIDE DEF e
  <2> QED  BY <2>1, <2>2, StaysTrans
<1>7. Stays(c, c, {data})
  BY StaysSame
<1> HIDE DEF e
<1> QED  BY <1>1, <1>3, <1>4, <1>5, <1>6, <1>7

LEMMA HearingStays ==
  ASSUME NEW I, NEW P, NEW c \in SoundConn(I, P), NEW f \in SoundFrame(I)
  PROVE  /\ Hearing(c, f) \in SoundConn(I, P)
         /\ Stays(c, Hearing(c, f), {})
         /\ Hearing(c, f).send_queue = c.send_queue
<1> DEFINE t == libp_neighbour_update_rtmetric(c.neighbour_list, Find(c, f.src), f.rtmetric)
           d == update_rtmetric([c EXCEPT !.neighbour_list = t])
<1>1. t \in SoundTable(P)
  <2>1. c.neighbour_list \in SoundTable(P) /\ f.rtmetric \in 0..RankLimit-1
    BY FieldTypes, FrameFields
  <2> QED  BY <2>1, UpdateRtmetricSound
<1>2. Hearing(c, f) = IF Find(c, f.src) = {} THEN c ELSE d
  BY DEF Hearing
<1> HIDE DEF t
<1>3. d \in SoundConn(I, P) /\ Stays(c, d, {}) /\ d.send_queue = c.send_queue
  BY <1>1, TableThenRank, TableRankStays DEF Steady
<1> HIDE DEF d
<1> QED  BY <1>2, <1>3, StaysSame

\* The data frames a node has handed down carry what it is sending or has sent.
OwnFrames(c) == \A f \in Range(c.mac) : f.type = "DATA" => OwnFrame(c, f)

LEMMA OwnAfter ==
  ASSUME NEW I, NEW P, NEW c \in SoundConn(I, P), NEW d \in SoundConn(I, P), NEW G,
         OwnFrames(c), Moves(c, d, G)
  PROVE  OwnFrames(d)
<1> SUFFICES ASSUME NEW f \in Range(d.mac), f.type = "DATA" PROVE OwnFrame(d, f)
  BY DEF OwnFrames
<1>1. f.seqno \in Nat /\ Accounted(c, d, G, f)
  BY MacFrame DEF Moves
<1>2. CASE \E g \in Range(c.mac) : Alike(f, g)
  <2>1. PICK g \in Range(c.mac) : Alike(f, g)
    BY <1>2
  <2>2. OwnFrame(c, g)
    BY <2>1 DEF OwnFrames, Alike
  <2>3. InOrder(c, f) /\ f.src = c.addr
    BY <2>1, <2>2 DEF OwnFrame, InOrder, Alike
  <2>4. InOrder(d, f)
    BY <1>1, <2>3, InOrderOnward DEF Moves
  <2> QED  BY <2>3, <2>4 DEF OwnFrame, Moves
<1> QED  BY <1>1, <1>2 DEF Accounted, Reply

\* What becomes of c when a frame arrives: frames are added that answer it, or
\* that answer the packet the node has just sent, and an ACK releases the head.
Takes(c, frame, d, G) ==
  /\ \A g \in G : g.type = "DATA" /\ (g = frame \/ OwnFrame(d, g))
  /\ Turn(c, d, G)
  /\ c.dropped \subseteq d.dropped
  /\ \A p \in Gone(c, d) :
       Releases(c, frame) /\ c.send_queue # <<>> /\ p = Head(c.send_queue)

LEMMA PacketReceivedTurns ==
  ASSUME NEW I, NEW P, NEW c \in SoundConn(I, P), NEW frame \in SoundFrame(I), NEW room,
         OwnFrames(c)
  PROVE  \E G \in SUBSET SoundFrame(I) :
           Takes(c, frame, node_packet_received(c, frame, room), G)
<1> DEFINE h == Hearing(c, frame)
           b == IF h.mac = c.mac THEN frame ELSE h.mac[Len(h.mac)]
           r == ReceiveData(h, b, frame.rtmetric, room)
           a == handle_ack(h, b)
           d == IF b.type = "DATA" THEN r ELSE a
<1>1. node_packet_received(c, frame, room) = d
  BY DEF node_packet_received, Hearing
<1>2. h \in SoundConn(I, P) /\ Stays(c, h, {}) /\ h.send_queue = c.send_queue
  BY HearingStays
<1>3. /\ b \in SoundFrame(I)
      /\ b = frame \/ (b \in Range(h.mac) /\ b.type = "DATA")
  <2>1. Serves(I, P, c, h)
    BY HearingSound
  <2> HIDE DEF h
  <2>2. CASE h.mac = c.mac
    BY <2>2
  <2>3. CASE h.mac # c.mac
    <3>1. c.mac \in Seq(SentFrame(I, P)) /\ h.mac \in Seq(SentFrame(I, P))
      BY <1>2, FieldTypes
    <3>2. /\ Len(c.mac) <= Len(h.mac)
          /\ \A i \in 1..Len(c.mac) : h.mac[i] = c.mac[i]
          /\ \A i \in Len(c.mac)+1..Len(h.mac) : h.mac[i].type = "DATA"
      BY <2>1 DEF Serves, Handled, SentFrom
    <3>3. Len(c.mac) \in Nat /\ Len(h.mac) \in Nat
      BY <3>1
    <3>4. Len(c.mac) # Len(h.mac)
      <4>1. SUFFICES ASSUME Len(c.mac) = Len(h.mac) PROVE FALSE
        OBVIOUS
      <4>2. /\ c.mac = [i \in 1..Len(c.mac) |-> c.mac[i]]
            /\ h.mac = [i \in 1..Len(h.mac) |-> h.mac[i]]
        BY <3>1, IsAFunction
      <4>3. h.mac = [i \in 1..Len(c.mac) |-> c.mac[i]]
        BY <3>2, <4>1, <4>2
      <4> QED  BY <2>3, <4>2, <4>3
    <3>5. Len(h.mac) \in Len(c.mac)+1..Len(h.mac) /\ Len(h.mac) \in DOMAIN h.mac
      BY <3>1, <3>2, <3>3, <3>4
    <3>6. b = h.mac[Len(h.mac)]
      BY <2>3
    <3> HIDE DEF b
    <3> QED  BY <3>1, <3>2, <3>5, <3>6 DEF Range, SentFrame
  <2> QED  BY <2>2, <2>3
<1> HIDE DEF h, b
<1>4. CASE b.type = "DATA"
  <2>1. r \in SoundConn(I, P) /\ Stays(h, r, {b})
    <3>1. Answers(I, P, h, r)
      BY <1>2, <1>3, ReceiveDataSound
    <3> QED  BY <1>2, <1>3, <3>1, ReceiveDataStays DEF Answers
  <2>2. d = r
    BY <1>4
  <2> HIDE DEF r, d
  <2>3. Stays(c, h, {b})
    BY <1>2, MoreReplies
  <2>4. Stays(c, r, {b})
    BY <1>2, <2>1, <2>3, StaysTrans
  <2>5. b = frame \/ OwnFrame(r, b)
    <3> SUFFICES ASSUME b \in Range(h.mac) PROVE OwnFrame(r, b)
      BY <1>3
    <3>1. OwnFrames(h)
      BY <1>2, OwnAfter DEF Stays
    <3>2. OwnFrame(h, b)
      BY <1>4, <3>1 DEF OwnFrames
    <3>3. b.seqno \in Nat
      BY <1>2, MacFrame
    <3>4. InOrder(r, b)
      BY <1>2, <2>1, <3>2, <3>3, InOrderOnward DEF Stays, Moves, OwnFrame
    <3> QED  BY <2>1, <3>2, <3>4 DEF OwnFrame, Stays, Moves
  <2>6. Turn(c, r, {b}) /\ Gone(c, r) = {} /\ c.dropped \subseteq r.dropped
    BY <2>4, StaysTurns DEF Stays
  <2>7. Takes(c, frame, r, {b})
    BY <1>4, <2>5, <2>6 DEF Takes
  <2>8. {b} \in SUBSET SoundFrame(I)
    BY <1>3
  <2> QED  BY <1>1, <2>2, <2>7, <2>8
<1>5. CASE b.type # "DATA"
  <2>1. b = frame /\ b.type = "ACK"
    BY <1>3, <1>5, FrameFields
  <2>2. /\ a \in SoundConn(I, P) /\ Turn(h, a, {}) /\ h.dropped \subseteq a.dropped
        /\ \A p \in Gone(h, a) :
             Releases(h, b) /\ h.send_queue # <<>> /\ p = Head(h.send_queue)
    BY <1>2, <1>3, <2>1, HandleAckSound, HandleAckTurns DEF Serves
  <2>3. d = a
    BY <1>5
  <2> HIDE DEF a, d
  <2>4. Turn(c, a, {}) /\ Gone(c, a) \subseteq Gone(h, a)
    BY <1>2, <2>2, TurnAfter
  <2>5. c.dropped \subseteq a.dropped
    BY <1>2, <2>2 DEF Stays
  <2>6. Releases(h, b) => Releases(c, frame)
    BY <1>2, <2>1 DEF Releases, Stays
  <2>7. Takes(c, frame, a, {})
    BY <1>2, <2>2, <2>4, <2>5, <2>6 DEF Takes
  <2> QED  BY <1>1, <2>3, <2>7
<1> QED  BY <1>4, <1>5

-----------------------------------------------------------------------------
(* What a connection answers for: packets it tells others they may release.*)

\* An ACK that makes its addressee release a packet of an application.
Binding(f) ==
  /\ f.type = "ACK" /\ ~ f.packet.probe
  /\ "DROPPED" \notin f.flags \/ "LIFETIME_EXCEEDED" \in f.flags

\* Such an ACK is on the air, or would be sent if the packet came again.
Promised(c, id) ==
  \/ id \in Range(c.recent_packets)
  \/ \E f \in Range(c.mac) : Binding(f) /\ f.packet.id = id

Holds(c, id) == \E p \in Range(c.send_queue) : ~ p.probe /\ p.id = id
Settled(c, id) == id \in Range(c.received) \/ id \in c.dropped

\* The packets that p may add.
Named(p) == IF p.probe THEN {} ELSE {p.id}

\* d answers for no other packets than c and those of ids.
Adds(c, d, ids) == \A id : Promised(d, id) => Promised(c, id) \/ id \in ids

\* d remembers what c does, and its application has what that of c has.
Recalls(c, d) ==
  d.recent_packets = c.recent_packets /\ Range(c.received) \subseteq Range(d.received)

\* What d answers for and c does not is in d's own hands.
Backed(c, d) ==
  /\ Range(c.received) \subseteq Range(d.received)
  /\ \A id : Promised(d, id) => Promised(c, id) \/ Holds(d, id) \/ Settled(d, id)

LEMMA AddsBacked ==
  ASSUME NEW c, NEW d, NEW ids, Adds(c, d, ids),
         Range(c.received) \subseteq Range(d.received),
         \A id \in ids : Promised(c, id) \/ Holds(d, id) \/ Settled(d, id)
  PROVE  Backed(c, d)
BY Zenon DEF Adds, Backed

LEMMA MovesAdds ==
  ASSUME NEW c, NEW d, Moves(c, d, {}), d.recent_packets = c.recent_packets
  PROVE  Adds(c, d, {})
<1> SUFFICES ASSUME NEW f \in Range(d.mac), Binding(f)
             PROVE  \E g \in Range(c.mac) : Binding(g) /\ g.packet.id = f.packet.id
  BY DEF Adds, Promised
<1>1. Accounted(c, d, {}, f)
  BY DEF Moves
<1>2. f.type = "ACK"
  BY DEF Binding
<1>3. PICK g \in Range(c.mac) : Alike(f, g)
  BY <1>1, <1>2 DEF Accounted, OwnFrame
<1>4. Binding(g) /\ g.packet.id = f.packet.id
  BY <1>3 DEF Alike, Binding
<1> QED  BY <1>4

LEMMA HandledAdds ==
  ASSUME NEW I, NEW P, NEW c \in SoundConn(I, P), NEW d, Handled(c, d),
         d.mac \in Seq(SentFrame(I, P))
  PROVE  Adds(c, d, {})
<1> SUFFICES ASSUME NEW f \in Range(d.mac), Binding(f) PROVE f \in Range(c.mac)
  BY DEF Adds, Promised, Handled
<1>1. c.mac \in Seq(SentFrame(I, P))
  BY FieldTypes
<1>2. PICK i \in DOMAIN d.mac : f = d.mac[i]
  BY DEF Range
<1>3. /\ i \in 1..Len(d.mac) /\ DOMAIN c.mac = 1..Len(c.mac)
      /\ Len(c.mac) \in Nat /\ Len(d.mac) \in Nat
  BY <1>1, <1>2
<1>4. i \notin Len(c.mac)+1..Len(d.mac)
  BY <1>2 DEF Handled, SentFrom, Binding
<1>5. i \in 1..Len(c.mac)
  BY <1>3, <1>4
<1>6. d.mac[i] = c.mac[i]
  BY <1>5 DEF Handled, SentFrom
<1> QED  BY <1>2, <1>3, <1>5, <1>6 DEF Range

LEMMA MovesBacked ==
  ASSUME NEW c, NEW d, Moves(c, d, {}), Recalls(c, d)
  PROVE  Backed(c, d)
BY MovesAdds, AddsBacked DEF Recalls

LEMMA HandledRecalls ==
  ASSUME NEW c, NEW d, Handled(c, d)
  PROVE  Recalls(c, d)
BY DEF Handled, Recalls

LEMMA AckAdds ==
  ASSUME NEW I, NEW P, NEW c \in SoundConn(I, P), NEW data \in SoundFrame(I),
         NEW flags \in SUBSET AckFlags
  PROVE  LET d == send_ack(c, data, flags)
         IN  /\ Adds(c, d, Named(data.packet))
             /\ "DROPPED" \in flags /\ "LIFETIME_EXCEEDED" \notin flags
                  => Adds(c, d, {})
<1> DEFINE f == AckFrame(c, data, flags)
           d == send_ack(c, data, flags)
<1>1. f.packet = data.packet /\ f.flags = flags
  BY DEF AckFrame
<1>2. /\ d \in SoundConn(I, P) /\ d.mac = Append(c.mac, f)
      /\ d.recent_packets = c.recent_packets
  BY AckSound DEF Answers
<1> HIDE DEF f, d
<1>3. c.mac \in Seq(SentFrame(I, P)) /\ d.mac \in Seq(SentFrame(I, P))
  BY <1>2, FieldTypes
<1>4. Range(d.mac) = Range(c.mac) \cup {f}
  BY <1>2, <1>3, AppendedRange
<1>5. Adds(c, d, IF Binding(f) THEN Named(data.packet) ELSE {})
  BY <1>1, <1>2, <1>4 DEF Adds, Promised, Binding, Named
<1>6. "DROPPED" \in flags /\ "LIFETIME_EXCEEDED" \notin flags => ~ Binding(f)
  BY <1>1 DEF Binding
<1>7. Adds(c, d, Named(data.packet))
  BY <1>5 DEF Adds
<1> QED  BY <1>5, <1>6, <1>7 DEF d

LEMMA RememberAdds ==
  ASSUME NEW I, NEW P, NEW c \in SoundConn(I, P), NEW p \in SoundPacket(I)
  PROVE  Adds(c, add_packet_to_recent_packets(c, p), Named(p))
<1> DEFINE d == add_packet_to_recent_packets(c, p)
<1>1. /\ d.mac = c.mac
      /\ Range(d.recent_packets) \subseteq Range(c.recent_packets) \cup Named(p)
  BY RememberSound DEF Named
<1> HIDE DEF d
<1>2. Adds(c, d, Named(p))
  BY <1>1 DEF Adds, Promised
<1> QED  BY <1>2 DEF d

\* Packets of c are still there in d.
LEMMA StaysHolds ==
  ASSUME NEW c, NEW d, NEW G, Stays(c, d, G)
  PROVE  /\ \A id : Holds(c, id) => Holds(d, id)
         /\ c.dropped \subseteq d.dropped
BY DEF Stays, Holds

LEMMA DeliverBacked ==
  ASSUME NEW I, NEW P, NEW c \in SoundConn(I, P), NEW data \in SoundFrame(I), NEW room
  PROVE  Backed(c, Deliver(c, data, room))
<1> DEFINE d == Deliver(c, data, room)
           f == AckFrame(c, data, {})
           ids == IF data.packet.probe THEN {} ELSE {data.packet.id}
<1>1. /\ Answers(I, P, c, d) /\ d.rtmetric = c.rtmetric
      /\ Range(d.recent_packets) \subseteq Range(c.recent_packets) \cup ids
      /\ Range(d.received) = Range(c.received) \cup ids
      /\ d.mac \in {c.mac, Append(c.mac, f)}
  BY DeliverSound
<1>2. f.packet = data.packet
  BY DEF AckFrame
<1> HIDE DEF d, f
<1>3. Range(d.mac) \subseteq Range(c.mac) \cup {f}
  <2>1. c.mac \in Seq(SentFrame(I, P)) /\ d.mac \in Seq(SentFrame(I, P))
    BY <1>1, FieldTypes DEF Answers
  <2>2. CASE d.mac = Append(c.mac, f)
    BY <2>1, <2>2, AppendedRange
  <2> QED  BY <1>1, <2>2
<1>4. Adds(c, d, ids)
  BY <1>1, <1>2, <1>3 DEF Adds, Promised, Binding
<1> HIDE DEF ids
<1>5. Backed(c, d)
  BY <1>1, <1>4, AddsBacked DEF Settled
<1> QED  BY <1>5 DEF d

LEMMA ForwardBacked ==
  ASSUME NEW I, NEW P, NEW c \in SoundConn(I, P), NEW data \in SoundFrame(I),
         NEW flags \in SUBSET AckFlags, NEW room, data.packet.ttl > 1,
         "LIFETIME_EXCEEDED" \notin flags
  PROVE  Backed(c, Forward(c, data, flags, room))
<1> DEFINE p == [data.packet EXCEPT !.hops = @ + 1, !.ttl = @ - 1]
           a == Enqueued(c, p)
           b == add_packet_to_recent_packets(a, p)
           s == send_ack(b, data, flags)
           e == send_queued_packet(s)
           full == flags \cup {"DROPPED", "CONGESTED"}
           g == send_ack(c, data, full)
           mayAdd == /\ Len(c.send_queue) <= MAX_SENDING_QUEUE - MIN_AVAILABLE_QUEUE_ENTRIES
                     /\ HasRoom(c, room)
<1>1. Forward(c, data, flags, room) = IF mayAdd THEN e ELSE g
  BY DEF Forward
<1>2. data.packet \in SoundPacket(I) /\ data.packet \in Packet
  BY FrameFields
<1>3. CASE ~ mayAdd
  <2>1. /\ full \in SUBSET AckFlags
        /\ "DROPPED" \in full /\ "LIFETIME_EXCEEDED" \notin full
    BY DEF AckFlags
  <2> HIDE DEF full, mayAdd
  <2>2. Adds(c, g, {}) /\ g.received = c.received
    BY <2>1, AckAdds, AckSound
  <2> HIDE DEF g
  <2>3. Backed(c, g)
    BY <2>2, AddsBacked
  <2> QED  BY <1>1, <1>3, <2>3
<1>4. CASE mayAdd
  <2>1. p \in SoundPacket(I) /\ Named(p) = Named(data.packet)
    <3>1. p.id = data.packet.id /\ p.probe = data.packet.probe
      BY <1>2 DEF Packet
    <3> QED  BY <1>2, <3>1, ForwardedPacketSound DEF Named
  <2> DEFINE ids == Named(data.packet)
  <2> HIDE DEF p
  <2>2. /\ a \in SoundConn(I, P) /\ a.received = c.received
        /\ a.mac = c.mac /\ a.recent_packets = c.recent_packets
        /\ p \in Range(a.send_queue)
    BY <1>4, <2>1, EnqueuedSound DEF Answers
  <2> HIDE DEF a
  <2>3. Adds(c, a, {}) /\ \A id \in ids : Holds(a, id)
    BY <2>1, <2>2 DEF Adds, Promised, Holds, Named
  <2>4. b \in SoundConn(I, P) /\ b.received = a.received /\ Stays(a, b, {data})
    BY <2>1, <2>2, RememberSound, RememberStays DEF Answers
  <2>5. Adds(a, b, ids)
    BY <2>1, <2>2, RememberAdds
  <2> HIDE DEF b
  <2>6. s \in SoundConn(I, P) /\ s.received = b.received /\ Stays(b, s, {data})
    BY <2>4, AckSound, AckStays DEF Answers
  <2>7. Adds(b, s, ids)
    BY <2>4, AckAdds
  <2> HIDE DEF s
  <2>8. Handled(s, e) /\ Stays(s, e, {})
    BY <2>6, SendQueuedSound, SendQueuedStays
  <2> HIDE DEF e, ids
  <2>9. Adds(s, e, {}) /\ e.received = s.received
    BY <2>8, MovesAdds DEF Handled, Stays
  <2>10. Adds(c, e, ids)
    BY <2>3, <2>5, <2>7, <2>9, Zenon DEF Adds
  <2>11. \A id \in ids : Holds(e, id)
    BY <2>3, <2>4, <2>6, <2>8, StaysHolds
  <2>12. Backed(c, e)
    BY <2>2, <2>4, <2>6, <2>9, <2>10, <2>11, AddsBacked
  <2> HIDE DEF mayAdd
  <2> QED  BY <1>1, <1>4, <2>12
<1> QED  BY <1>3, <1>4

\* A duplicate was taken on before; a packet out of hops is counted.
LEMMA ReceiveDataBacked ==
  ASSUME NEW I, NEW P, I \subseteq TrueIds, NEW c \in SoundConn(I, P),
         NEW data \in SoundFrame(I), NEW rank, NEW room
  PROVE  Backed(c, ReceiveData(c, data, rank, room))
<1> DEFINE congested == IF Len(c.send_queue) >= MAX_SENDING_QUEUE \div 2
                        THEN {"CONGESTED"} ELSE {}
           loop == IF rank <= c.rtmetric THEN {"RTMETRIC_NEEDS_UPDATE"} ELSE {}
           flags == congested \cup loop
           late  == congested \cup {"DROPPED", "LIFETIME_EXCEEDED"}
           g     == GivenUp(c, data.packet)
           e     == send_ack(g, data, late)
           r     == ReceiveData(c, data, rank, room)
<1>1. \/ Seen(c, data.packet) /\ r = send_ack(c, data, congested)
      \/ r = Deliver(c, data, room)
      \/ data.packet.ttl > 1 /\ r = Forward(c, data, flags, room)
      \/ r = e
      \/ r = c
  BY Zenon DEF ReceiveData
<1>2. /\ congested \in SUBSET AckFlags /\ flags \in SUBSET AckFlags
      /\ late \in SUBSET AckFlags /\ "LIFETIME_EXCEEDED" \notin flags
  BY DEF AckFlags
<1>3. data.packet \in SoundPacket(I) /\ data.packet \in Packet
  BY FrameFields
<1> HIDE DEF congested, flags, late
<1>4. ASSUME Seen(c, data.packet) PROVE Backed(c, send_ack(c, data, congested))
  <2> DEFINE d == send_ack(c, data, congested)
  <2>1. Adds(c, d, Named(data.packet)) /\ d.received = c.received
    BY <1>2, AckAdds, AckSound
  <2>2. \A id \in Named(data.packet) : Promised(c, id)
    BY <1>3, <1>4, SeenIsRemembered DEF Named, Promised
  <2> HIDE DEF d
  <2>3. Backed(c, d)
    BY <2>1, <2>2, AddsBacked
  <2> QED  BY <2>3 DEF d
<1>5. Backed(c, Deliver(c, data, room))
  BY DeliverBacked
<1>6. ASSUME data.packet.ttl > 1
      PROVE  Backed(c, Forward(c, data, flags, room))
  BY <1>2, <1>6, ForwardBacked
<1>7. Backed(c, e)
  <2>1. /\ g \in SoundConn(I, P) /\ Handled(c, g) /\ Stays(c, g, {})
        /\ \A id \in Named(data.packet) : id \in g.dropped
    BY <1>3, GivenUpSound, GivenUpStays DEF Serves, Named
  <2> HIDE DEF g
  <2>2. Adds(c, g, {}) /\ g.received = c.received
    BY <2>1, MovesAdds DEF Handled, Stays
  <2>3. e.received = g.received /\ Adds(g, e, Named(data.packet))
    BY <1>2, <2>1, AckSound, AckAdds
  <2>4. g.dropped \subseteq e.dropped
    BY <1>2, <2>1, AckStays DEF Stays
  <2> HIDE DEF e
  <2>5. Adds(c, e, Named(data.packet))
    BY <2>2, <2>3, Zenon DEF Adds
  <2>6. \A id \in Named(data.packet) : Settled(e, id)
    BY <2>1, <2>4 DEF Settled
  <2> QED  BY <2>2, <2>3, <2>5, <2>6, AddsBacked
<1>8. Backed(c, c)
  BY DEF Backed
<1> HIDE DEF e, r
<1>9. Backed(c, r)
  BY <1>1, <1>4, <1>5, <1>6, <1>7, <1>8
<1> QED  BY <1>9 DEF r

LEMMA PacketReceivedBacked ==
  ASSUME NEW I, NEW P, I \subseteq TrueIds, NEW c \in SoundConn(I, P),
         NEW frame \in SoundFrame(I), NEW room
  PROVE  Backed(c, node_packet_received(c, frame, room))
<1> DEFINE h == Hearing(c, frame)
           b == IF h.mac = c.mac THEN frame ELSE h.mac[Len(h.mac)]
           r == ReceiveData(h, b, frame.rtmetric, room)
           a == handle_ack(h, b)
           d == IF b.type = "DATA" THEN r ELSE a
<1>1. node_packet_received(c, frame, room) = d
  BY DEF node_packet_received, Hearing
<1>2. /\ Serves(I, P, c, h) /\ h \in SoundConn(I, P) /\ Stays(c, h, {})
  BY HearingSound, HearingStays
<1> HIDE DEF h
<1>3. Adds(c, h, {}) /\ h.received = c.received
  BY <1>2, MovesAdds DEF Serves, Handled, Stays
<1>4. b \in SoundFrame(I)
  BY <1>2, BufferSound
<1> HIDE DEF b
<1>5. Backed(h, r)
  BY <1>2, <1>4, ReceiveDataBacked
<1>6. Backed(h, a)
  <2>1. Handled(h, a) /\ a \in SoundConn(I, P)
    BY <1>2, <1>4, HandleAckSound DEF Serves
  <2> HIDE DEF a
  <2>2. Adds(h, a, {})
    BY <1>2, <2>1, HandledAdds, FieldTypes
  <2> QED  BY <2>1, <2>2, AddsBacked DEF Handled
<1>7. Backed(h, d)
  BY <1>5, <1>6
<1> HIDE DEF d
<1>8. Backed(c, d)
  BY <1>3, <1>7 DEF Backed, Adds
<1> QED  BY <1>1, <1>8

-----------------------------------------------------------------------------
(* What a connection has on its books: the packets in its queue, those it  *)
(* has counted as given up and those its application has got.              *)

SameBooks(c, d) ==
  /\ d.send_queue = c.send_queue /\ d.dropped = c.dropped
  /\ d.received = c.received /\ d.sent = c.sent /\ d.is_sink = c.is_sink

\* The head has left the queue, counted as given up or not.
HeadLeaves(c, d) ==
  /\ c.send_queue # <<>> /\ d.send_queue = Tail(c.send_queue)
  /\ d.dropped \in {c.dropped, c.dropped \cup Named(Head(c.send_queue))}
  /\ d.received = c.received /\ d.sent = c.sent /\ d.is_sink = c.is_sink

\* All that an operator on the node's own packets may do to its books.
Settles(c, d) == SameBooks(c, d) \/ HeadLeaves(c, d)

LEMMA SettlesTrans ==
  ASSUME NEW c, NEW d, NEW e
  PROVE  /\ SameBooks(c, d) /\ SameBooks(d, e) => SameBooks(c, e)
         /\ SameBooks(c, d) /\ Settles(d, e) => Settles(c, e)
         /\ Settles(c, d) /\ SameBooks(d, e) => Settles(c, e)
<1>1. SameBooks(c, d) /\ SameBooks(d, e) => SameBooks(c, e)
  BY DEF SameBooks
<1>2. SameBooks(c, d) /\ HeadLeaves(d, e) => HeadLeaves(c, e)
  BY DEF SameBooks, HeadLeaves
<1>3. HeadLeaves(c, d) /\ SameBooks(d, e) => HeadLeaves(c, e)
  BY DEF SameBooks, HeadLeaves
<1> QED  BY <1>1, <1>2, <1>3 DEF Settles

LEMMA SameAsIs == ASSUME NEW c PROVE SameBooks(c, c) /\ Settles(c, c)
BY DEF SameBooks, Settles

\* What the fields other than the packets say is not on the books.
LEMMA FieldsSame ==
  ASSUME NEW I, NEW P, NEW c \in SoundConn(I, P), NEW x
  PROVE  /\ SameBooks(c, [c EXCEPT !.parent = x])
         /\ SameBooks(c, [c EXCEPT !.neighbour_list = x])
         /\ SameBooks(c, [c EXCEPT !.sending = x])
         /\ SameBooks(c, [c EXCEPT !.transmissions = x])
         /\ SameBooks(c, [c EXCEPT !.retransmission_timer = x])
         /\ SameBooks(c, [c EXCEPT !.recent_packets = x])
         /\ SameBooks(c, [c EXCEPT !.mac = x])
<1>1. c \in SoundFields(I, P)
  BY FieldTypes
<1> QED  BY <1>1 DEF SoundFields, SameBooks

LEMMA ProgressSame ==
  ASSUME NEW I, NEW P, NEW c \in SoundConn(I, P), NEW k, NEW timer, NEW p
  PROVE  SameBooks(c, Progress(c, k, timer, p, c.dropped))
BY FieldTypes DEF SoundFields, Progress, SameBooks

LEMMA SendPacketSame ==
  ASSUME NEW I, NEW P, NEW c \in SoundConn(I, P), NEW to, NEW tries
  PROVE  SameBooks(c, send_packet(c, to, tries))
BY FieldTypes DEF SoundFields, send_packet, unicast_send, SameBooks

LEMMA SendQueuedSame ==
  ASSUME NEW I, NEW P, NEW c \in SoundConn(I, P)
  PROVE  SameBooks(c, send_queued_packet(c))
<1> DEFINE idle == c.sending \/ c.send_queue = <<>> \/ Find(c, c.parent) = {}
           max  == Head(c.send_queue).rexmits
           d    == [c EXCEPT !.sending = TRUE, !.current_parent = c.parent,
                             !.transmissions = 0, !.max_rexmits = max]
           e    == send_packet(d, c.parent, AtMost(max, MAX_MAC_REXMITS))
<1>1. CASE idle
  BY <1>1, SameAsIs DEF send_queued_packet
<1>2. CASE ~ idle
  <2>1. send_queued_packet(c) = e
    BY <1>2 DEF send_queued_packet
  <2>2. max \in 0..31
    BY <1>2, HeadSound DEF Packet
  <2> HIDE DEF max, idle
  <2>3. SameBooks(c, d) /\ d.rtmetric = c.rtmetric
    BY FieldTypes DEF SoundFields, SameBooks
  <2>4. d \in SoundFields(I, P)
    <3>1. c \in SoundFields(I, P) /\ c.parent \in Parents(P)
      BY FieldTypes
    <3>2. 0 \in 0..UINT8-1
      BY Numbers
    <3> QED  BY <2>2, <3>1, <3>2, Zenon DEF SoundFields
  <2>5. d \in SoundConn(I, P)
    BY <2>3, <2>4, FieldTypes DEF SoundConn, SameBooks
  <2> HIDE DEF d
  <2>6. SameBooks(d, e)
    BY <2>5, SendPacketSame
  <2> HIDE DEF e
  <2> QED  BY <2>1, <2>3, <2>6, SettlesTrans
<1> QED  BY <1>1, <1>2

LEMMA UpdateRankSame ==
  ASSUME NEW I, NEW P, NEW c \in SoundConn(I, P)
  PROVE  SameBooks(c, update_rtmetric(c))
<1>1. CASE c.rtmetric = RTMETRIC_SINK
  BY <1>1, SameAsIs DEF update_rtmetric
<1>2. CASE c.rtmetric # RTMETRIC_SINK
  <2>1. PICK p \in Parents(P) :
          /\ update_parent(c) = [c EXCEPT !.parent = p]
          /\ \A s \in Find(c, p) : Cost(c, Find(c, p)) < RankLimit
    BY ParentChosen
  <2> DEFINE d == [c EXCEPT !.parent = p]
             e == Ranked(d, NewRank(d))
             f == send_queued_packet(e)
  <2>2. /\ d \in SoundConn(I, P) /\ SameBooks(c, d)
        /\ d.parent = p /\ d.rtmetric = c.rtmetric
        /\ d.neighbour_list = c.neighbour_list
    <3>1. SameBooks(c, d)
      BY FieldsSame
    <3> QED  BY <3>1, SetParentSound
  <2>3. update_rtmetric(c) \in {e, f}
    BY <1>2, <2>1 DEF update_rtmetric
  <2> HIDE DEF d
  <2>4. \A s \in Find(d, d.parent) : Cost(d, Find(d, d.parent)) < RankLimit
    BY <2>1, <2>2 DEF Find, Cost
  <2>5. NewRank(d) \in 0..RankLimit-1 /\ NewRank(d) >= LIBP_LINK_METRIC_UNIT
    BY <2>2, <2>4, NewRankRange
  <2>6. e \in SoundConn(I, P)
    BY <1>2, <2>2, <2>5, RankedSound
  <2>7. SameBooks(d, e)
    BY <2>2, FieldTypes DEF SoundFields, Ranked, SameBooks
  <2> HIDE DEF e
  <2>8. SameBooks(e, f)
    BY <2>6, SendQueuedSame
  <2> HIDE DEF f
  <2> QED  BY <2>2, <2>3, <2>7, <2>8, SettlesTrans
<1> QED  BY <1>1, <1>2

LEMMA TableRankSame ==
  ASSUME NEW I, NEW P, NEW c \in SoundConn(I, P), NEW t \in SoundTable(P)
  PROVE  SameBooks(c, update_rtmetric([c EXCEPT !.neighbour_list = t]))
<1> DEFINE d == [c EXCEPT !.neighbour_list = t]
           e == update_rtmetric(d)
<1>1. d \in SoundConn(I, P) /\ SameBooks(c, d)
  BY SetTableSound, FieldsSame
<1> HIDE DEF d
<1>2. SameBooks(d, e)
  BY <1>1, UpdateRankSame
<1> HIDE DEF e
<1>3. SameBooks(c, e)
  BY <1>1, <1>2, SettlesTrans
<1> QED  BY <1>3 DEF d, e

LEMMA SendNextSettles ==
  ASSUME NEW I, NEW P, NEW c \in SoundConn(I, P)
  PROVE  /\ Settles(c, send_next_packet(c))
         /\ send_next_packet(c).dropped = c.dropped
         /\ send_next_packet(c).send_queue = Popped(c.send_queue)
<1> DEFINE q == Popped(c.send_queue)
           k == (c.seqno + 1) % UINT8
           d == [c EXCEPT !.send_queue = q, !.seqno = k,
                          !.retransmission_timer = "off",
                          !.sending = FALSE, !.transmissions = 0]
           e == send_queued_packet(d)
<1>1. send_next_packet(c) = e
  BY DEF send_next_packet, Popped
<1>2. k \in 0..UINT8-1 /\ 0 \in 0..UINT8-1
  <2>1. c.seqno \in 0..UINT8-1 /\ UINT8 = 256
    BY FieldTypes, Numbers
  <2> QED  BY <2>1
<1>3. q \in Seq(SoundPacket(I))
  BY DoneWithHead
<1> HIDE DEF k, q
<1>4. /\ d.send_queue = q /\ d.dropped = c.dropped /\ d.received = c.received
      /\ d.sent = c.sent /\ d.is_sink = c.is_sink /\ d.rtmetric = c.rtmetric
  BY FieldTypes DEF SoundFields
<1>5. d \in SoundFields(I, P)
  <2>1. c \in SoundFields(I, P)
    BY FieldTypes
  <2> QED  BY <1>2, <1>3, <2>1, Zenon DEF SoundFields
<1>6. d \in SoundConn(I, P)
  BY <1>4, <1>5, FieldTypes DEF SoundConn
<1> HIDE DEF d
<1>7. Settles(c, d)
  BY <1>4 DEF Settles, SameBooks, HeadLeaves, Popped, q
<1>8. SameBooks(d, e)
  BY <1>6, SendQueuedSame
<1> HIDE DEF e
<1>9. Settles(c, e) /\ e.dropped = c.dropped /\ e.send_queue = q
  BY <1>4, <1>7, <1>8, SettlesTrans DEF SameBooks
<1> QED  BY <1>1, <1>9 DEF q

LEMMA GivenUpCounts ==
  ASSUME NEW I, NEW P, NEW c \in SoundConn(I, P), NEW p
  PROVE  LET d == GivenUp(c, p)
         IN  /\ d.send_queue = c.send_queue /\ d.received = c.received
             /\ d.sent = c.sent /\ d.is_sink = c.is_sink
             /\ d.dropped = c.dropped \cup Named(p)
<1> DEFINE g == IF p.probe THEN c.dropped ELSE c.dropped \cup {p.id}
           d == [c EXCEPT !.dropped = g]
<1>1. GivenUp(c, p) = d
  BY DEF GivenUp
<1>2. g = c.dropped \cup Named(p)
  BY DEF Named
<1> HIDE DEF g
<1>3. /\ d.send_queue = c.send_queue /\ d.received = c.received
      /\ d.sent = c.sent /\ d.is_sink = c.is_sink /\ d.dropped = g
  BY FieldTypes DEF SoundFields
<1> HIDE DEF d
<1> QED  BY <1>1, <1>2, <1>3

LEMMA TimedoutSettles ==
  ASSUME NEW I, NEW P, NEW c \in SoundConn(I, P)
  PROVE  Settles(c, timedout(c))
<1> DEFINE a == IF c.send_queue = <<>> THEN c ELSE GivenUp(c, Head(c.send_queue))
           b == [a EXCEPT !.sending = FALSE]
           t == libp_neighbour_tx_fail(a.neighbour_list, Find(c, c.current_parent),
                                       c.max_rexmits)
           d == update_rtmetric([b EXCEPT !.neighbour_list = t])
           e == send_next_packet(d)
<1>1. /\ a \in SoundConn(I, P)
      /\ a.send_queue = c.send_queue /\ a.received = c.received
      /\ a.sent = c.sent /\ a.is_sink = c.is_sink
      /\ a.dropped = IF c.send_queue = <<>> THEN c.dropped
                     ELSE c.dropped \cup Named(Head(c.send_queue))
  <2>1. CASE c.send_queue = <<>>
    BY <2>1
  <2>2. CASE c.send_queue # <<>>
    BY <2>2, HeadSound, GivenUpSound, GivenUpCounts DEF Serves
  <2> QED  BY <2>1, <2>2
<1> HIDE DEF a
<1>2. t \in SoundTable(P)
  <2>1. a.neighbour_list \in SoundTable(P) /\ c.max_rexmits \in 0..31
    BY <1>1, FieldTypes
  <2>2. c.max_rexmits \in Nat
    BY <2>1
  <2> QED  BY <2>1, <2>2, TxFailSound
<1>3. timedout(c) = e
  <2>1. [a EXCEPT !.sending = FALSE, !.neighbour_list = t]
          = [b EXCEPT !.neighbour_list = t]
    <3> HIDE DEF t
    <3> QED  OBVIOUS
  <2> QED  BY <2>1 DEF timedout, a
<1> HIDE DEF t
<1>4. b \in SoundConn(I, P) /\ SameBooks(a, b)
  <2>1. SameBooks(a, b)
    BY <1>1, FieldsSame
  <2>2. b.sending \in BOOLEAN /\ b = [a EXCEPT !.sending = b.sending]
    BY <1>1, SendingIs
  <2> HIDE DEF b
  <2> QED  BY <1>1, <2>1, <2>2, SendingSet
<1> HIDE DEF b
<1>5. d \in SoundConn(I, P) /\ SameBooks(b, d)
  BY <1>2, <1>4, TableThenRank, TableRankSame
<1> HIDE DEF d
<1>6. /\ Settles(d, e) /\ e.dropped = d.dropped
      /\ e.send_queue = Popped(d.send_queue)
  BY <1>5, SendNextSettles
<1> HIDE DEF e
<1>7. SameBooks(a, d)
  BY <1>4, <1>5, SettlesTrans
<1>8. /\ e.received = a.received /\ e.sent = a.sent /\ e.is_sink = a.is_sink
      /\ e.dropped = a.dropped
      /\ e.send_queue = Popped(c.send_queue)
  BY <1>1, <1>6, <1>7 DEF Settles, SameBooks, HeadLeaves
<1>9. Settles(c, e)
  BY <1>1, <1>8 DEF Settles, SameBooks, HeadLeaves, Popped
<1> QED  BY <1>3, <1>9

LEMMA PenaliseSame ==
  ASSUME NEW I, NEW P, NEW c \in SoundConn(I, P), NEW n, NEW k \in Nat,
         NEW d, d = update_rtmetric([c EXCEPT !.neighbour_list = libp_neighbour_tx(@, n, k)])
  PROVE  d \in SoundConn(I, P) /\ SameBooks(c, d)
<1>1. libp_neighbour_tx(c.neighbour_list, n, k) \in SoundTable(P)
  BY FieldTypes, TxSound
<1> QED  BY <1>1, TableThenRank, TableRankSame

LEMMA HandleAckSettles ==
  ASSUME NEW I, NEW P, NEW c \in SoundConn(I, P), NEW ack \in SoundFrame(I)
  PROVE  Settles(c, handle_ack(c, ack)) /\ handle_ack(c, ack).dropped = c.dropped
<1> DEFINE n  == Find(c, ack.src)
           tx == IF c.transmissions = 0 THEN MAX_MAC_REXMITS ELSE c.transmissions
           t  == libp_neighbour_update_rtmetric(
                   libp_neighbour_tx(c.neighbour_list, n, tx), n, ack.rtmetric)
           Measured == [c EXCEPT !.transmissions = tx, !.neighbour_list = t]
           Penalise(d, k) ==
             update_rtmetric([d EXCEPT !.neighbour_list = libp_neighbour_tx(@, n, k)])
           Congestion(d) ==
             IF "CONGESTED" \in ack.flags THEN Penalise(d, d.max_rexmits * 2) ELSE d
           Ends == "DROPPED" \notin ack.flags \/ "LIFETIME_EXCEEDED" \in ack.flags
           Conclude(d) ==
             IF Ends THEN send_next_packet(d)
             ELSE [Penalise(d, d.max_rexmits) EXCEPT !.retransmission_timer = "retransmit"]
           a == IF n = {} THEN Measured ELSE update_rtmetric(Measured)
           b == Congestion(a)
           Still(d) == d \in SoundConn(I, P) /\ SameBooks(c, d)
<1>1. tx \in 0..UINT8-1 /\ tx \in Nat
  <2>1. c.transmissions \in 0..UINT8-1 /\ UINT8 = 256
    BY FieldTypes, Numbers
  <2> QED  BY <2>1 DEF MAX_MAC_REXMITS
<1>2. t \in SoundTable(P)
  <2>1. c.neighbour_list \in SoundTable(P)
    BY FieldTypes
  <2>2. ack.rtmetric \in 0..RankLimit-1
    BY FrameFields
  <2> QED  BY <1>1, <2>1, <2>2, TxSound, UpdateRtmetricSound
<1> HIDE DEF tx, t
<1>3. Still(Measured)
  <2> DEFINE e == [c EXCEPT !.transmissions = tx]
  <2>1. e = Progress(c, tx, c.retransmission_timer, c.current_parent, c.dropped)
    BY FieldTypes DEF SoundFields, Progress
  <2>2. /\ c.retransmission_timer \in {"off", "retransmit", "not_sent"}
        /\ c.current_parent \in Parents(P)
        /\ c.dropped \in SUBSET PacketId
    BY FieldTypes
  <2>3. Measured = [e EXCEPT !.neighbour_list = t]
    BY FieldTypes DEF SoundFields
  <2>4. SameBooks(c, e)
    BY FieldsSame
  <2> HIDE DEF e
  <2>5. e \in SoundConn(I, P)
    BY <1>1, <2>1, <2>2, SetProgressSound
  <2>6. Measured \in SoundConn(I, P) /\ SameBooks(e, Measured)
    <3> DEFINE g == [e EXCEPT !.neighbour_list = t]
    <3>1. g \in SoundConn(I, P)
      BY <1>2, <2>5, SetTableSound
    <3>2. SameBooks(e, g)
      BY <2>5, FieldsSame
    <3>3. Measured = g
      BY <2>3
    <3> HIDE DEF Measured, g
    <3> QED  BY <3>1, <3>2, <3>3
  <2> HIDE DEF Measured
  <2> QED  BY <2>4, <2>6, SettlesTrans
<1> HIDE DEF Measured
<1>4. Still(a)
  <2>1. CASE n = {}
    BY <1>3, <2>1
  <2>2. CASE n # {}
    <3> DEFINE e == update_rtmetric(Measured)
    <3>1. e \in SoundConn(I, P) /\ SameBooks(Measured, e)
      BY <1>3, UpdateRankSound, UpdateRankSame
    <3>2. a = e
      BY <2>2
    <3> HIDE DEF e
    <3> QED  BY <1>3, <3>1, <3>2, SettlesTrans
  <2> QED  BY <2>1, <2>2
<1> HIDE DEF a
<1>5. ASSUME NEW d, Still(d), NEW k \in Nat
      PROVE  Still(Penalise(d, k))
  <2> DEFINE e == Penalise(d, k)
  <2>1. e \in SoundConn(I, P) /\ SameBooks(d, e)
    BY <1>5, PenaliseSame
  <2> HIDE DEF e
  <2> QED  BY <1>5, <2>1, SettlesTrans DEF e
<1>6. ASSUME NEW d \in SoundConn(I, P)
      PROVE  d.max_rexmits * 2 \in Nat /\ d.max_rexmits \in Nat
  <2>1. d.max_rexmits \in 0..31
    BY FieldTypes
  <2> QED  BY <2>1
<1> HIDE DEF Penalise
<1>7. Still(b)
  <2> HIDE DEF Still
  <2>1. a.max_rexmits * 2 \in Nat
    BY <1>4, <1>6 DEF Still
  <2> QED  BY <1>4, <1>5, <2>1
<1> HIDE DEF b
<1> DEFINE f == Conclude(b)
<1>8. b.max_rexmits \in Nat
  BY <1>6, <1>7
<1>9. Settles(c, f) /\ f.dropped = c.dropped
  <2>1. CASE Ends
    <3> DEFINE e == send_next_packet(b)
    <3>1. Settles(b, e) /\ e.dropped = b.dropped
      BY <1>7, SendNextSettles
    <3>2. f = e
      BY <2>1
    <3> HIDE DEF e, f
    <3> QED  BY <1>7, <3>1, <3>2, SettlesTrans DEF SameBooks
  <2>2. CASE ~ Ends
    <3> DEFINE d == Penalise(b, b.max_rexmits)
               e == [d EXCEPT !.retransmission_timer = "retransmit"]
    <3>1. Still(d)
      BY <1>5, <1>7, <1>8
    <3>2. f = e
      BY <2>2
    <3> HIDE DEF d, f
    <3>3. SameBooks(d, e)
      BY <3>1, FieldsSame
    <3> HIDE DEF e
    <3> QED  BY <3>1, <3>2, <3>3, SettlesTrans DEF Settles, SameBooks
  <2> QED  BY <2>1, <2>2
<1>10. handle_ack(c, ack)
         = IF ack.src # c.current_parent \/ ack.seqno # c.seqno THEN c ELSE f
  BY Zenon DEF handle_ack, f, Conclude, Ends, b, a, Measured, t, tx, Penalise
<1> HIDE DEF f
<1> QED  BY <1>9, <1>10, SameAsIs

LEMMA PacketSentSettles ==
  ASSUME NEW I, NEW P, NEW c \in SoundConn(I, P), NEW frame, NEW t \in Nat
  PROVE  Settles(c, node_packet_sent(c, frame, t))
<1> DEFINE d == [c EXCEPT !.transmissions = (@ + t) % UINT8]
           e == timedout(d)
           s == [d EXCEPT !.retransmission_timer = "retransmit"]
<1>1. d \in SoundConn(I, P) /\ SameBooks(c, d)
  BY CountSound, FieldsSame DEF Serves
<1>2. node_packet_sent(c, frame, t) \in {c, e, s}
  BY Zenon DEF node_packet_sent
<1> HIDE DEF d
<1>3. Settles(d, e) /\ SameBooks(d, s)
  BY <1>1, TimedoutSettles, FieldsSame
<1> HIDE DEF e, s
<1>4. Settles(c, e) /\ Settles(c, s)
  BY <1>1, <1>3, SettlesTrans DEF Settles
<1> QED  BY <1>2, <1>4, SameAsIs

LEMMA RetransmitSame ==
  ASSUME NEW I, NEW P, NEW c \in SoundConn(I, P), ~ c.sending, TriesLeft(c)
  PROVE  SameBooks(c, retransmit_current_packet(c))
<1> DEFINE u == update_rtmetric(c)
           d == IF u.current_parent = u.parent THEN u
                ELSE [u EXCEPT !.current_parent = u.parent, !.transmissions = 0]
           s == [d EXCEPT !.sending = TRUE]
           tries == AtMost(d.max_rexmits - d.transmissions, MAX_MAC_REXMITS)
           f == send_packet(s, d.current_parent, tries)
           e == IF Find(d, d.current_parent) = {} THEN d ELSE f
<1>1. retransmit_current_packet(c) = IF c.send_queue = <<>> THEN c ELSE e
  BY DEF retransmit_current_packet
<1>2. u \in SoundConn(I, P) /\ SameBooks(c, u)
  BY UpdateRankSound, UpdateRankSame
<1> HIDE DEF u
<1>3. d \in SoundConn(I, P) /\ SameBooks(u, d)
  <2>1. CASE u.current_parent = u.parent
    BY <1>2, <2>1, SameAsIs
  <2>2. CASE u.current_parent # u.parent
    <3>1. d = Progress(u, 0, u.retransmission_timer, u.parent, u.dropped)
      BY <1>2, <2>2, FieldTypes DEF SoundFields, Progress
    <3>2. /\ u.retransmission_timer \in {"off", "retransmit", "not_sent"}
          /\ u.parent \in Parents(P) /\ u.dropped \in SUBSET PacketId
      BY <1>2, FieldTypes
    <3>3. 0 \in 0..UINT8-1
      BY Numbers
    <3> HIDE DEF d
    <3>4. d \in SoundConn(I, P)
      BY <1>2, <3>1, <3>2, <3>3, SetProgressSound
    <3>5. SameBooks(u, d)
      BY <1>2, <3>1, ProgressSame
    <3> QED  BY <3>4, <3>5
  <2> QED  BY <2>1, <2>2
<1> HIDE DEF d
<1>4. s \in SoundConn(I, P) /\ SameBooks(d, s)
  <2>1. SameBooks(d, s)
    BY <1>3, FieldsSame
  <2>2. s.sending \in BOOLEAN /\ s = [d EXCEPT !.sending = s.sending]
    BY <1>3, SendingIs
  <2> HIDE DEF s
  <2> QED  BY <1>3, <2>1, <2>2, SendingSet
<1> HIDE DEF s, tries
<1>5. SameBooks(s, f)
  BY <1>4, SendPacketSame
<1> HIDE DEF f
<1>6. SameBooks(c, d)
  BY <1>2, <1>3, SettlesTrans
<1>7. SameBooks(c, s)
  BY <1>4, <1>6, SettlesTrans
<1>8. SameBooks(c, f)
  BY <1>5, <1>7, SettlesTrans
<1> QED  BY <1>1, <1>6, <1>8, SameAsIs

LEMMA RetransmitCallbackSettles ==
  ASSUME NEW I, NEW P, NEW c \in SoundConn(I, P)
  PROVE  Settles(c, retransmit_callback(c))
<1> DEFINE d == [c EXCEPT !.retransmission_timer = "off"]
           s == [d EXCEPT !.sending = FALSE]
           t == timedout(d)
           e == retransmit_current_packet(s)
<1>1. retransmit_callback(c) = IF d.transmissions >= d.max_rexmits THEN t ELSE e
  BY DEF retransmit_callback
<1>2. d = Progress(c, c.transmissions, "off", c.current_parent, c.dropped)
  BY FieldTypes DEF SoundFields, Progress
<1>3. /\ "off" \in {"off", "retransmit", "not_sent"}
      /\ c.transmissions \in 0..UINT8-1
      /\ c.current_parent \in Parents(P) /\ c.dropped \in SUBSET PacketId
  BY FieldTypes
<1>4. SameBooks(c, d)
  BY FieldsSame
<1> HIDE DEF d
<1>5. d \in SoundConn(I, P)
  BY <1>2, <1>3, SetProgressSound
<1>6. Settles(d, t)
  BY <1>5, TimedoutSettles
<1> HIDE DEF t
<1>7. ASSUME ~ (d.transmissions >= d.max_rexmits) PROVE SameBooks(d, e)
  <2>1. /\ s.sending = FALSE /\ s.sending \in BOOLEAN
        /\ s = [d EXCEPT !.sending = s.sending]
    BY <1>5, SendingIs
  <2>2. SameBooks(d, s)
    BY <1>5, FieldsSame
  <2> HIDE DEF s
  <2>3. /\ s \in SoundConn(I, P) /\ s.sending = FALSE
        /\ s.transmissions = d.transmissions /\ s.max_rexmits = d.max_rexmits
    BY <1>5, <2>1, SendingSet
  <2>4. TriesLeft(s)
    <3>1. PICK x \in 0..UINT8-1 : x = d.transmissions
      BY <1>5, FieldTypes
    <3>2. PICK y \in 0..31 : y = d.max_rexmits
      BY <1>5, FieldTypes
    <3>3. UINT8 \in Int
      BY Numbers
    <3>4. ~ (x >= y)
      BY <1>7, <3>1, <3>2, Zenon
    <3>5. x <= y
      BY ONLY <3>1, <3>2, <3>3, <3>4, x \in 0..UINT8-1, y \in 0..31
    <3>6. s.transmissions = x /\ s.max_rexmits = y
      BY <2>3, <3>1, <3>2, Zenon
    <3> QED  BY ONLY <3>5, <3>6, Zenon DEF TriesLeft
  <2>5. SameBooks(s, e)
    BY <2>3, <2>4, RetransmitSame
  <2> HIDE DEF e
  <2> QED  BY <2>2, <2>5, SettlesTrans
<1> HIDE DEF e
<1>8. Settles(c, t) /\ (SameBooks(d, e) => Settles(c, e))
  BY <1>4, <1>6, SettlesTrans DEF Settles
<1> QED  BY <1>1, <1>7, <1>8

LEMMA NotSentCallbackSettles ==
  ASSUME NEW I, NEW P, NEW c \in SoundConn(I, P)
  PROVE  Settles(c, retransmit_not_sent_callback(c))
<1> DEFINE j == MAX_MAC_REXMITS + 1
           d == [c EXCEPT !.transmissions = (@ + j) % UINT8]
           e == retransmit_callback(d)
<1>1. retransmit_not_sent_callback(c) = e
  <2>1. \A k \in 0..UINT8-1 : k + MAX_MAC_REXMITS + 1 = k + j
    BY Numbers DEF MAX_MAC_REXMITS
  <2>2. c.transmissions \in 0..UINT8-1
    BY FieldTypes
  <2> HIDE DEF j
  <2>3. c.transmissions + MAX_MAC_REXMITS + 1 = c.transmissions + j
    BY <2>1, <2>2
  <2> QED  BY <2>3 DEF retransmit_not_sent_callback
<1>2. j \in Nat
  BY DEF MAX_MAC_REXMITS
<1> HIDE DEF j
<1>3. SameBooks(c, d)
  BY FieldsSame
<1>4. d \in SoundConn(I, P)
  BY <1>2, CountSound DEF Serves
<1> HIDE DEF d
<1>5. Settles(d, e)
  BY <1>4, RetransmitCallbackSettles
<1> HIDE DEF e
<1> QED  BY <1>1, <1>3, <1>5, SettlesTrans

LEMMA AnnouncementSame ==
  ASSUME NEW I, NEW P, NEW c \in SoundConn(I, P), NEW from \in Node,
         NEW value \in 0..RankLimit-1,
         from \in Parents(P) \/ c.rtmetric = RTMETRIC_SINK
  PROVE  SameBooks(c, received_announcement(c, from, value))
<1> DEFINE n == Find(c, from)
           t == IF n # {}
                THEN libp_neighbour_update_rtmetric(c.neighbour_list, n, value)
                ELSE IF value < c.rtmetric
                THEN libp_neighbour_list_add(c.neighbour_list, from, value)
                ELSE c.neighbour_list
<1>1. c.neighbour_list \in SoundTable(P)
  BY FieldTypes
<1>2. t \in SoundTable(P)
  <2>1. value \in Nat /\ RTMETRIC_SINK = 0
    BY Numbers
  <2> QED  BY <1>1, <2>1, UpdateRtmetricSound, AddSound
<1>3. received_announcement(c, from, value)
        = update_rtmetric([c EXCEPT !.neighbour_list = t])
  BY DEF received_announcement
<1> HIDE DEF t
<1> QED  BY <1>2, <1>3, TableRankSame

LEMMA PurgeSame ==
  ASSUME NEW I, NEW P, NEW c \in SoundConn(I, P)
  PROVE  SameBooks(c, libp_purge(c))
<1> DEFINE t == libp_neighbour_list_purge(c.neighbour_list)
           a == [c EXCEPT !.neighbour_list = t]
           b == [a EXCEPT !.parent = NullAddr]
           d == update_rtmetric(b)
           e == [d EXCEPT !.parent = NullAddr]
<1>0. NullAddr \in Parents(P)
  BY DEF Parents
<1>1. t \in SoundTable(P)
  <2>1. c.neighbour_list \in SoundTable(P)
    BY FieldTypes
  <2> QED  BY <2>1, PurgeSound
<1>2. libp_purge(c) = e
  BY DEF libp_purge
<1> HIDE DEF t
<1>3. SameBooks(c, a)
  BY FieldsSame
<1>4. a \in SoundConn(I, P)
  BY <1>1, SetTableSound
<1> HIDE DEF a
<1>5. SameBooks(a, b)
  BY <1>4, FieldsSame
<1>6. b \in SoundConn(I, P)
  BY <1>0, <1>4, SetParentSound
<1> HIDE DEF b
<1>7. d \in SoundConn(I, P) /\ SameBooks(b, d)
  BY <1>6, UpdateRankSound, UpdateRankSame
<1> HIDE DEF d
<1>8. SameBooks(d, e)
  BY <1>7, FieldsSame
<1> HIDE DEF e
<1>9. SameBooks(c, b) /\ SameBooks(b, e)
  BY <1>3, <1>5, <1>7, <1>8, SettlesTrans
<1> QED  BY <1>2, <1>9, SettlesTrans

LEMMA TickSame ==
  ASSUME NEW I, NEW P, NEW c \in SoundConn(I, P)
  PROVE  SameBooks(c, Tick(c))
<1> DEFINE t == periodic(c.neighbour_list)
           d == [c EXCEPT !.neighbour_list = t]
<1>1. Tick(c) = d
  BY DEF Tick
<1>2. SameBooks(c, d)
  BY FieldsSame
<1> HIDE DEF d
<1> QED  BY <1>1, <1>2

-----------------------------------------------------------------------------
(* Packets that come to a node, from an application or in a frame.         *)

\* The packet p is put at the end of the queue.
Enqueues(c, d, p) ==
  /\ d.send_queue = Append(c.send_queue, p)
  /\ d.dropped = c.dropped /\ d.received = c.received
  /\ d.sent = c.sent /\ d.is_sink = c.is_sink

\* The packet p is counted as given up.
Counts(c, d, p) ==
  /\ d.send_queue = c.send_queue /\ d.dropped = c.dropped \cup Named(p)
  /\ d.received = c.received /\ d.sent = c.sent /\ d.is_sink = c.is_sink

\* The application of a sink gets the packet p, which the filter does not know.
Hands(c, d, p) ==
  /\ c.rtmetric = RTMETRIC_SINK /\ ~ Seen(c, p) /\ ~ p.probe
  /\ d.received = Append(c.received, p.id)
  /\ d.send_queue = c.send_queue /\ d.dropped = c.dropped
  /\ d.sent = c.sent /\ d.is_sink = c.is_sink

\* All that may become of a packet p that a node receives.
Accepts(I, c, d, p) ==
  \/ SameBooks(c, d)
  \/ \E q \in SoundPacket(I) : q.id = p.id /\ q.probe = p.probe /\ Enqueues(c, d, q)
  \/ Counts(c, d, p)
  \/ Hands(c, d, p)

\* The data frames of d are those of c, or carry what d has in its queue.
Carries(c, d) ==
  /\ Range(c.send_queue) \subseteq Range(d.send_queue)
  /\ \A f \in Range(d.mac) :
       f.type = "DATA" => \/ f.packet \in Range(d.send_queue)
                          \/ \E g \in Range(c.mac) : g.type = "DATA" /\ g.packet = f.packet

LEMMA CarriesTrans ==
  ASSUME NEW c, NEW d, NEW e, Carries(c, d), Carries(d, e)
  PROVE  Carries(c, e)
BY DEF Carries

\* The frames an operator adds carry what c has in its queue.
SendsOwn(c, d) ==
  \A f \in Range(d.mac) :
    f.type = "DATA" => \/ f.packet \in Range(c.send_queue)
                       \/ \E g \in Range(c.mac) : g.type = "DATA" /\ g.packet = f.packet

LEMMA HandledSends ==
  ASSUME NEW I, NEW P, NEW c \in SoundConn(I, P), NEW d \in SoundConn(I, P), Handled(c, d)
  PROVE  /\ SendsOwn(c, d)
         /\ d.send_queue = c.send_queue => Carries(c, d)
<1>1. c.mac \in Seq(SentFrame(I, P)) /\ d.mac \in Seq(SentFrame(I, P))
  BY FieldTypes
<1>2. SentFrom(c.send_queue, c.mac, d.mac)
  BY DEF Handled
<1>3. Len(c.mac) \in Nat /\ Len(d.mac) \in Nat
  BY <1>1
<1>4. ASSUME NEW f \in Range(d.mac)
      PROVE  f.packet \in Range(c.send_queue) \/ f \in Range(c.mac)
  <2>1. PICK i \in 1..Len(d.mac) : f = d.mac[i]
    BY <1>1 DEF Range
  <2>2. CASE i \in 1..Len(c.mac)
    <3>1. f = c.mac[i]
      BY <1>2, <2>1, <2>2 DEF SentFrom
    <3> QED  BY <1>1, <2>2, <3>1 DEF Range
  <2>3. CASE i \in Len(c.mac)+1..Len(d.mac)
    BY <1>2, <2>1, <2>3 DEF SentFrom
  <2> QED  BY <1>3, <2>2, <2>3
<1>5. SendsOwn(c, d)
  BY <1>4 DEF SendsOwn
<1>6. d.send_queue = c.send_queue => Carries(c, d)
  BY <1>5 DEF SendsOwn, Carries
<1> QED  BY <1>5, <1>6

\* Nothing but what fields the books, the filter and the stack consist of.
LEMMA AckSame ==
  ASSUME NEW I, NEW P, NEW c \in SoundConn(I, P), NEW data, NEW flags
  PROVE  SameBooks(c, send_ack(c, data, flags))
BY FieldTypes DEF SoundFields, send_ack, SameBooks

LEMMA AckCarries ==
  ASSUME NEW I, NEW P, NEW c \in SoundConn(I, P), NEW data \in SoundFrame(I),
         NEW flags \in SUBSET AckFlags
  PROVE  Carries(c, send_ack(c, data, flags))
<1> DEFINE d == send_ack(c, data, flags)
           f == AckFrame(c, data, flags)
<1>1. d.mac = Append(c.mac, f) /\ d.send_queue = c.send_queue /\ d \in SoundConn(I, P)
  BY AckSound DEF Answers
<1>2. f.type = "ACK"
  BY DEF AckFrame
<1> HIDE DEF d, f
<1>3. c.mac \in Seq(SentFrame(I, P)) /\ Append(c.mac, f) \in Seq(SentFrame(I, P))
  BY <1>1, FieldTypes
<1>4. Range(d.mac) = Range(c.mac) \cup {f}
  BY <1>1, <1>3, AppendedRange
<1>5. Carries(c, d)
  BY <1>1, <1>2, <1>4 DEF Carries
<1> QED  BY <1>5 DEF d

LEMMA RememberSame ==
  ASSUME NEW I, NEW P, NEW c \in SoundConn(I, P), NEW p
  PROVE  SameBooks(c, add_packet_to_recent_packets(c, p))
<1> DEFINE r == Append(IF Len(c.recent_packets) < NUM_RECENT_PACKETS
                       THEN c.recent_packets ELSE Tail(c.recent_packets), p.id)
           d == [c EXCEPT !.recent_packets = r]
<1>1. add_packet_to_recent_packets(c, p) \in {c, d}
  BY DEF add_packet_to_recent_packets
<1>2. SameBooks(c, d)
  BY FieldsSame
<1> HIDE DEF d
<1> QED  BY <1>1, <1>2, SameAsIs

\* The same frames, and no packet less in the queue.
LEMMA SameMacCarries ==
  ASSUME NEW c, NEW d, d.mac = c.mac, Range(c.send_queue) \subseteq Range(d.send_queue)
  PROVE  Carries(c, d)
BY DEF Carries

LEMMA EnqueuedEnqueues ==
  ASSUME NEW I, NEW P, NEW c \in SoundConn(I, P), NEW p
  PROVE  Enqueues(c, Enqueued(c, p), p) /\ Enqueued(c, p).mac = c.mac
BY FieldTypes DEF SoundFields, Enqueued, Enqueues

LEMMA EnqueuesThen ==
  ASSUME NEW c, NEW d, NEW e, NEW p
  PROVE  /\ SameBooks(c, d) /\ Enqueues(d, e, p) => Enqueues(c, e, p)
         /\ Enqueues(c, d, p) /\ SameBooks(d, e) => Enqueues(c, e, p)
BY DEF SameBooks, Enqueues

\* The head is sent if nothing is, and the books stay.
LEMMA SendQueuedCarries ==
  ASSUME NEW I, NEW P, NEW c \in SoundConn(I, P)
  PROVE  LET e == send_queued_packet(c)
         IN  e \in SoundConn(I, P) /\ SameBooks(c, e) /\ Carries(c, e)
<1> DEFINE e == send_queued_packet(c)
<1>1. e \in SoundConn(I, P) /\ Handled(c, e) /\ SameBooks(c, e)
  BY SendQueuedSound, SendQueuedSame
<1> HIDE DEF e
<1>2. Carries(c, e)
  BY <1>1, HandledSends DEF SameBooks
<1> QED  BY <1>1, <1>2 DEF e

LEMMA DeliverAccepts ==
  ASSUME NEW I, NEW P, NEW c \in SoundConn(I, P), NEW data \in SoundFrame(I), NEW room,
         c.rtmetric = RTMETRIC_SINK, ~ Seen(c, data.packet)
  PROVE  LET d == Deliver(c, data, room)
         IN  Carries(c, d) /\ (SameBooks(c, d) \/ Hands(c, d, data.packet))
<1> DEFINE p   == data.packet
           a   == add_packet_to_recent_packets(c, p)
           s   == send_ack(a, data, {})
           b   == IF room THEN s ELSE a
           got == Append(b.received, p.id)
           e   == [b EXCEPT !.received = got]
           d   == IF p.probe THEN b ELSE e
<1>1. Deliver(c, data, room) = d
  BY DEF Deliver
<1>2. p \in SoundPacket(I)
  BY FrameFields
<1>3. a \in SoundConn(I, P) /\ SameBooks(c, a) /\ a.mac = c.mac
  BY <1>2, RememberSound, RememberSame DEF Answers
<1>4. Carries(c, a)
  BY <1>3, SameMacCarries DEF SameBooks
<1> HIDE DEF a
<1>5. s \in SoundConn(I, P) /\ SameBooks(a, s) /\ Carries(a, s)
  <2>1. {} \in SUBSET AckFlags
    OBVIOUS
  <2> QED  BY <1>3, <2>1, AckSound, AckSame, AckCarries DEF Answers
<1> HIDE DEF s
<1>6. b \in SoundConn(I, P) /\ SameBooks(c, b) /\ Carries(c, b)
  <2>1. SameBooks(c, s)
    BY <1>3, <1>5, SettlesTrans
  <2>2. Carries(c, s)
    BY <1>4, <1>5, CarriesTrans
  <2> QED  BY <1>3, <1>4, <1>5, <2>1, <2>2
<1> HIDE DEF b
<1>7. /\ e.received = got /\ e.send_queue = b.send_queue /\ e.dropped = b.dropped
      /\ e.sent = b.sent /\ e.is_sink = b.is_sink /\ e.mac = b.mac
  <2> HIDE DEF got
  <2> QED  BY <1>6, FieldTypes DEF SoundFields
<1> HIDE DEF e
<1>8. Carries(c, e)
  BY <1>6, <1>7 DEF Carries
<1>9. ~ p.probe => Hands(c, e, p)
  BY <1>6, <1>7 DEF Hands, SameBooks
<1> QED  BY <1>1, <1>6, <1>8, <1>9

LEMMA ForwardAccepts ==
  ASSUME NEW I, NEW P, NEW c \in SoundConn(I, P), NEW data \in SoundFrame(I),
         NEW flags \in SUBSET AckFlags, NEW room, data.packet.ttl > 1
  PROVE  LET d == Forward(c, data, flags, room)
         IN  /\ Carries(c, d)
             /\ \/ SameBooks(c, d)
                \/ \E q \in SoundPacket(I) : /\ q.id = data.packet.id
                                             /\ q.probe = data.packet.probe
                                             /\ Enqueues(c, d, q)
<1> DEFINE p == [data.packet EXCEPT !.hops = @ + 1, !.ttl = @ - 1]
           a == Enqueued(c, p)
           b == add_packet_to_recent_packets(a, p)
           s == send_ack(b, data, flags)
           e == send_queued_packet(s)
           full == flags \cup {"DROPPED", "CONGESTED"}
           g == send_ack(c, data, full)
           mayAdd == /\ Len(c.send_queue) <= MAX_SENDING_QUEUE - MIN_AVAILABLE_QUEUE_ENTRIES
                     /\ HasRoom(c, room)
<1>1. Forward(c, data, flags, room) = IF mayAdd THEN e ELSE g
  BY DEF Forward
<1>2. SameBooks(c, g) /\ Carries(c, g)
  <2>1. full \in SUBSET AckFlags
    BY DEF AckFlags
  <2> HIDE DEF full
  <2> QED  BY <2>1, AckSame, AckCarries
<1> HIDE DEF g
<1>3. ASSUME mayAdd PROVE Carries(c, e) /\ Enqueues(c, e, p)
  <2>1. p \in SoundPacket(I)
    <3>1. data.packet \in SoundPacket(I)
      BY FrameFields
    <3> QED  BY <3>1, ForwardedPacketSound
  <2> HIDE DEF p
  <2>2. /\ a \in SoundConn(I, P) /\ a.mac = c.mac
        /\ Range(a.send_queue) = Range(c.send_queue) \cup {p}
    <3>1. /\ Answers(I, P, c, a) /\ a.mac = c.mac
          /\ Range(a.send_queue) = Range(c.send_queue) \cup {p}
      BY <1>3, <2>1, EnqueuedSound
    <3> QED  BY <3>1 DEF Answers
  <2>3. Enqueues(c, a, p)
    BY EnqueuedEnqueues
  <2>4. Carries(c, a)
    BY <2>2, SameMacCarries
  <2> HIDE DEF a
  <2>5. b \in SoundConn(I, P) /\ b.mac = a.mac /\ SameBooks(a, b)
    BY <2>1, <2>2, RememberSound, RememberSame DEF Answers
  <2> HIDE DEF b
  <2>6. s \in SoundConn(I, P) /\ SameBooks(b, s) /\ Carries(b, s)
    BY <2>5, AckSound, AckSame, AckCarries DEF Answers
  <2> HIDE DEF s
  <2>7. SameBooks(s, e) /\ Carries(s, e)
    BY <2>6, SendQueuedCarries
  <2> HIDE DEF e
  <2>8. SameBooks(a, s)
    BY <2>5, <2>6, SettlesTrans
  <2>9. SameBooks(a, e)
    BY <2>7, <2>8, SettlesTrans
  <2>10. Carries(a, b)
    BY <2>5, SameMacCarries DEF SameBooks
  <2>11. Carries(c, s)
    BY <2>4, <2>6, <2>10, CarriesTrans
  <2> QED  BY <2>3, <2>7, <2>9, <2>11, CarriesTrans, EnqueuesThen
<1>4. /\ p \in SoundPacket(I)
      /\ p.id = data.packet.id /\ p.probe = data.packet.probe
  <2>1. data.packet \in SoundPacket(I) /\ data.packet \in Packet
    BY FrameFields
  <2>2. p.id = data.packet.id /\ p.probe = data.packet.probe
    BY <2>1 DEF Packet
  <2>3. p \in SoundPacket(I)
    BY <2>1, ForwardedPacketSound
  <2> QED  BY <2>2, <2>3
<1> HIDE DEF p, e, mayAdd
<1> QED  BY <1>1, <1>2, <1>3, <1>4

LEMMA ReceiveDataAccepts ==
  ASSUME NEW I, NEW P, NEW c \in SoundConn(I, P), NEW data \in SoundFrame(I),
         NEW rank, NEW room
  PROVE  LET d == ReceiveData(c, data, rank, room)
         IN  Carries(c, d) /\ Accepts(I, c, d, data.packet)
<1> DEFINE congested == IF Len(c.send_queue) >= MAX_SENDING_QUEUE \div 2
                        THEN {"CONGESTED"} ELSE {}
           loop == IF rank <= c.rtmetric THEN {"RTMETRIC_NEEDS_UPDATE"} ELSE {}
           flags == congested \cup loop
           late  == congested \cup {"DROPPED", "LIFETIME_EXCEEDED"}
           g     == GivenUp(c, data.packet)
           e     == send_ack(g, data, late)
           a     == send_ack(c, data, congested)
           r     == ReceiveData(c, data, rank, room)
           Is(d) == Carries(c, d) /\ Accepts(I, c, d, data.packet)
<1>1. \/ r = a
      \/ /\ ~ Seen(c, data.packet) /\ c.rtmetric = RTMETRIC_SINK
         /\ r = Deliver(c, data, room)
      \/ data.packet.ttl > 1 /\ r = Forward(c, data, flags, room)
      \/ r = e
      \/ r = c
  BY Zenon DEF ReceiveData
<1>2. /\ congested \in SUBSET AckFlags /\ flags \in SUBSET AckFlags
      /\ late \in SUBSET AckFlags
  BY DEF AckFlags
<1> HIDE DEF congested, flags, late, r
<1>3. Is(a)
  BY <1>2, AckSame, AckCarries DEF Accepts
<1> HIDE DEF a
<1>4. ~ Seen(c, data.packet) /\ c.rtmetric = RTMETRIC_SINK => Is(Deliver(c, data, room))
  BY DeliverAccepts DEF Accepts
<1>5. data.packet.ttl > 1 => Is(Forward(c, data, flags, room))
  BY <1>2, ForwardAccepts DEF Accepts
<1>6. Is(e)
  <2>1. g \in SoundConn(I, P) /\ g.mac = c.mac /\ Counts(c, g, data.packet)
    BY FrameFields, GivenUpSound, GivenUpCounts DEF Serves, Counts
  <2>2. Carries(c, g)
    BY <2>1, SameMacCarries DEF Counts
  <2> HIDE DEF g
  <2>3. SameBooks(g, e) /\ Carries(g, e)
    BY <1>2, <2>1, AckSame, AckCarries
  <2> HIDE DEF e
  <2>4. Counts(c, e, data.packet)
    BY <2>1, <2>3 DEF Counts, SameBooks
  <2>5. Carries(c, e)
    BY <2>2, <2>3, CarriesTrans
  <2> QED  BY <2>4, <2>5 DEF Accepts
<1> HIDE DEF e
<1>7. Is(c)
  BY SameAsIs, SameMacCarries DEF Accepts
<1>8. Is(r)
  <2> HIDE DEF Is
  <2> QED  BY <1>1, <1>3, <1>4, <1>5, <1>6, <1>7
<1> QED  BY <1>8 DEF r

LEMMA HearingSame ==
  ASSUME NEW I, NEW P, NEW c \in SoundConn(I, P), NEW f \in SoundFrame(I)
  PROVE  SameBooks(c, Hearing(c, f))
<1> DEFINE t == libp_neighbour_update_rtmetric(c.neighbour_list, Find(c, f.src), f.rtmetric)
           d == update_rtmetric([c EXCEPT !.neighbour_list = t])
<1>1. t \in SoundTable(P)
  <2>1. c.neighbour_list \in SoundTable(P) /\ f.rtmetric \in 0..RankLimit-1
    BY FieldTypes, FrameFields
  <2> QED  BY <2>1, UpdateRtmetricSound
<1>2. Hearing(c, f) = IF Find(c, f.src) = {} THEN c ELSE d
  BY DEF Hearing
<1> HIDE DEF t
<1>3. SameBooks(c, d)
  BY <1>1, TableRankSame
<1> HIDE DEF d
<1> QED  BY <1>2, <1>3, SameAsIs

\* A frame of a sequence that some operator has appended is a frame of it.
LEMMA LastFrame ==
  ASSUME NEW I, NEW P, NEW c \in SoundConn(I, P), NEW d \in SoundConn(I, P),
         Handled(c, d), d.mac # c.mac
  PROVE  /\ d.mac[Len(d.mac)].type = "DATA"
         /\ d.mac[Len(d.mac)].packet \in Range(c.send_queue)
<1>1. c.mac \in Seq(SentFrame(I, P)) /\ d.mac \in Seq(SentFrame(I, P))
  BY FieldTypes
<1>2. SentFrom(c.send_queue, c.mac, d.mac)
  BY DEF Handled
<1>3. Len(c.mac) \in Nat /\ Len(d.mac) \in Nat /\ Len(c.mac) <= Len(d.mac)
  BY <1>1, <1>2 DEF SentFrom
<1>4. Len(c.mac) # Len(d.mac)
  <2> SUFFICES ASSUME Len(c.mac) = Len(d.mac) PROVE FALSE
    OBVIOUS
  <2>1. /\ c.mac = [i \in 1..Len(c.mac) |-> c.mac[i]]
        /\ d.mac = [i \in 1..Len(d.mac) |-> d.mac[i]]
    BY <1>1, IsAFunction
  <2>2. d.mac = [i \in 1..Len(c.mac) |-> c.mac[i]]
    BY <1>2, <2>1 DEF SentFrom
  <2> QED  BY <2>1, <2>2
<1>5. Len(d.mac) \in Len(c.mac)+1..Len(d.mac)
  BY <1>3, <1>4
<1> QED  BY <1>2, <1>5 DEF SentFrom

\* A packet that a node other than a sink receives is that of the frame, or one
\* of its own that it has just sent.
Got(c, frame, p) ==
  \/ frame.type = "DATA" /\ p = frame.packet
  \/ c.rtmetric # RTMETRIC_SINK /\ p \in Range(c.send_queue)

LEMMA PacketReceivedAccepts ==
  ASSUME NEW I, NEW P, NEW c \in SoundConn(I, P), NEW frame \in SoundFrame(I), NEW room,
         c.rtmetric = RTMETRIC_SINK \/ ~ c.is_sink
  PROVE  LET d == node_packet_received(c, frame, room)
         IN  \/ Settles(c, d) /\ SendsOwn(c, d)
             \/ \E p \in SoundPacket(I) :
                  Got(c, frame, p) /\ Carries(c, d) /\ Accepts(I, c, d, p)
<1> DEFINE h == Hearing(c, frame)
           b == IF h.mac = c.mac THEN frame ELSE h.mac[Len(h.mac)]
           r == ReceiveData(h, b, frame.rtmetric, room)
           a == handle_ack(h, b)
           d == IF b.type = "DATA" THEN r ELSE a
<1>1. node_packet_received(c, frame, room) = d
  BY DEF node_packet_received, Hearing
<1>2. /\ h \in SoundConn(I, P) /\ Handled(c, h) /\ Serves(I, P, c, h)
      /\ c.rtmetric = RTMETRIC_SINK => h.mac = c.mac
  BY HearingSound DEF Serves
<1>3. SameBooks(c, h)
  BY HearingSame
<1> HIDE DEF h
<1>4. /\ b \in SoundFrame(I)
      /\ b = frame \/ (/\ c.rtmetric # RTMETRIC_SINK /\ b.type = "DATA"
                       /\ b.packet \in Range(c.send_queue))
  <2>1. CASE h.mac = c.mac
    BY <2>1
  <2>2. CASE h.mac # c.mac
    <3>1. b = h.mac[Len(h.mac)]
      BY <2>2
    <3> HIDE DEF b
    <3> QED  BY <1>2, <2>2, <3>1, BufferSound, LastFrame
  <2> QED  BY <2>1, <2>2
<1> HIDE DEF b
<1>5. CASE b.type = "DATA"
  <2> DEFINE p == b.packet
  <2>1. p \in SoundPacket(I) /\ Got(c, frame, p)
    BY <1>4, <1>5, FrameFields DEF Got
  <2>2. Carries(h, r) /\ Accepts(I, h, r, p)
    BY <1>2, <1>4, ReceiveDataAccepts
  <2>3. d = r
    BY <1>5
  <2> HIDE DEF d, r, p
  <2>4. Carries(c, h)
    BY <1>2, <1>3, HandledSends DEF SameBooks
  <2>5. Carries(c, r)
    BY <2>2, <2>4, CarriesTrans
  <2>6. SameBooks(h, r) => SameBooks(c, r)
    BY <1>3, SettlesTrans
  <2>7. \A q : Enqueues(h, r, q) => Enqueues(c, r, q)
    BY <1>3, EnqueuesThen
  <2>8. Counts(h, r, p) => Counts(c, r, p)
    BY <1>3 DEF SameBooks, Counts
  <2>9. Hands(h, r, p) => Hands(c, r, p)
    <3> SUFFICES ASSUME Hands(h, r, p) PROVE Hands(c, r, p)
      OBVIOUS
    <3>1. h.rtmetric = RTMETRIC_SINK /\ RTMETRIC_SINK < LIBP_LINK_METRIC_UNIT
      BY Numbers DEF Hands
    <3>2. h.is_sink
      BY <1>2, <3>1, FieldTypes
    <3>3. c.rtmetric = RTMETRIC_SINK
      BY <1>3, <3>2 DEF SameBooks
    <3>4. h.recent_packets = c.recent_packets
      BY <1>2 DEF Handled
    <3>5. ~ Seen(c, p)
      BY <3>4 DEF Hands, Seen
    <3> QED  BY <1>3, <3>3, <3>5 DEF Hands, SameBooks
  <2>10. Accepts(I, c, r, p)
    BY <2>2, <2>6, <2>7, <2>8, <2>9 DEF Accepts
  <2> QED  BY <1>1, <2>1, <2>3, <2>5, <2>10
<1>6. CASE b.type # "DATA"
  <2>1. Serves(I, P, h, a) /\ Settles(h, a)
    BY <1>2, <1>4, HandleAckSound, HandleAckSettles
  <2>2. d = a
    BY <1>6
  <2> HIDE DEF a, d
  <2>3. Settles(c, a)
    BY <1>3, <2>1, SettlesTrans
  <2>4. a \in SoundConn(I, P) /\ Handled(c, a)
    BY <1>2, <2>1, HandledTrans DEF Serves
  <2>5. SendsOwn(c, a)
    BY <2>4, HandledSends
  <2> QED  BY <1>1, <2>2, <2>3, <2>5
<1> QED  BY <1>5, <1>6

LEMMA ProbeEnqueues ==
  ASSUME NEW I, NEW P, NEW c \in SoundConn(I, P), NEW room
  PROVE  LET d == proactive_probing_callback(c, room)
         IN  /\ Carries(c, d)
             /\ SameBooks(c, d) \/ \E p \in SoundPacket(I) : p.probe /\ Enqueues(c, d, p)
<1> DEFINE n == FirstUnprobed(c)
           p == [id |-> <<c.addr, (c.eseqno - 1) % UINT8, 0>>, ttl |-> 1, hops |-> 1,
                 rexmits |-> PROACTIVE_PROBING_REXMITS, probe |-> TRUE]
           to == c.neighbour_list[Deref(n)].addr
           a == [c EXCEPT !.parent = to]
           b == Enqueued(a, p)
           e == send_queued_packet(b)
           d == [e EXCEPT !.parent = c.parent]
           idle == \/ c.rtmetric \in {RTMETRIC_SINK, RTMETRIC_MAX}
                   \/ c.send_queue # <<>> \/ n = {} \/ ~ HasRoom(c, room)
<1>1. \/ idle /\ proactive_probing_callback(c, room) = c
      \/ ~ idle /\ proactive_probing_callback(c, room) = d
  <2>1. c.addr \in Node /\ a.addr = c.addr /\ a.eseqno = c.eseqno
    BY FieldTypes DEF SoundFields
  <2>2. b = enqueue_dummy_packet(a, PROACTIVE_PROBING_REXMITS)
    BY <2>1 DEF enqueue_dummy_packet
  <2> HIDE DEF b
  <2> QED  BY <2>2 DEF proactive_probing_callback
<1>2. CASE proactive_probing_callback(c, room) = c
  BY <1>2, SameAsIs, SameMacCarries
<1>3. CASE ~ idle /\ proactive_probing_callback(c, room) = d
  <2>1. p \in SoundPacket(I) /\ ~ (p.hops > 1) /\ p.probe
    <3>1. c.addr \in Node /\ c.eseqno \in 0..UINT8-1
      BY FieldTypes
    <3>2. (c.eseqno - 1) % UINT8 \in 0..UINT8-1
      BY <3>1, Numbers
    <3>3. p.id \in PacketId
      BY <3>1, <3>2 DEF PacketId
    <3>4. 1 \in 0..MAX_HOPLIM /\ PROACTIVE_PROBING_REXMITS \in 0..31
      BY LibpAssumption
    <3>5. p \in Packet
      BY <3>3, <3>4 DEF Packet
    <3> QED  BY <3>5 DEF SoundPacket, Budgeted
  <2>2. to \in Parents(P)
    <3>1. Deref(n) \in FirstUnprobed(c)
      BY <1>3, DerefIn
    <3>2. Deref(n) \in Listed(c.neighbour_list)
      <4>1. FirstUnprobed(c) \subseteq Unprobed(c)
        BY DEF FirstUnprobed
      <4>2. Unprobed(c) \subseteq Listed(c.neighbour_list)
        BY DEF Unprobed
      <4> HIDE DEF n
      <4> QED  BY <3>1, <4>1, <4>2
    <3>3. c.neighbour_list \in SoundTable(P)
      BY FieldTypes
    <3> QED  BY <3>2, <3>3, TableFields
  <2> HIDE DEF p, to, idle
  <2>3. SameBooks(c, a)
    BY FieldsSame
  <2>4. a \in SoundConn(I, P) /\ Handled(c, a)
    BY <2>2, SetParentSound
  <2> HIDE DEF a
  <2>5. Carries(c, a)
    BY <2>3, <2>4, HandledSends DEF SameBooks
  <2>6. /\ b \in SoundConn(I, P)
        /\ Range(b.send_queue) = Range(a.send_queue) \cup {p}
    <3>1. /\ Answers(I, P, a, b)
          /\ Range(b.send_queue) = Range(a.send_queue) \cup {p}
      BY <2>1, <2>4, EnqueuedSound
    <3> QED  BY <3>1 DEF Answers
  <2>7. Enqueues(a, b, p) /\ b.mac = a.mac
    BY <2>4, EnqueuedEnqueues
  <2>8. Carries(a, b)
    BY <2>6, <2>7, SameMacCarries
  <2> HIDE DEF b
  <2>9. e \in SoundConn(I, P) /\ SameBooks(b, e) /\ Carries(b, e)
    BY <2>6, SendQueuedCarries
  <2> HIDE DEF e
  <2>10. SameBooks(e, d)
    BY <2>9, FieldsSame
  <2>11. d.mac = e.mac
    BY <2>9, FieldTypes DEF SoundFields
  <2> HIDE DEF d
  <2>12. Carries(e, d)
    BY <2>10, <2>11, SameMacCarries DEF SameBooks
  <2>13. Carries(c, b)
    BY <2>5, <2>8, CarriesTrans
  <2>14. Carries(b, d)
    BY <2>9, <2>12, CarriesTrans
  <2>15. SameBooks(b, d)
    BY <2>9, <2>10, SettlesTrans
  <2>16. Enqueues(c, d, p)
    BY <2>3, <2>7, <2>15, EnqueuesThen
  <2>17. Carries(c, d)
    BY <2>13, <2>14, CarriesTrans
  <2> QED  BY <1>3, <2>1, <2>16, <2>17
<1> QED  BY <1>1, <1>2, <1>3

\* The application's next packet.
Numbering(c, p) == p.id = <<c.addr, c.eseqno, c.sent + 1>> /\ ~ p.probe

\* A call of libp_send() counts the packet, and puts it into the queue if it can.
Sends(I, c, d) ==
  /\ \/ d.send_queue = c.send_queue
     \/ \E p \in SoundPacket(I) :
          Numbering(c, p) /\ d.send_queue = Append(c.send_queue, p)
  /\ d.dropped = c.dropped /\ d.received = c.received
  /\ d.sent = c.sent + 1 /\ d.is_sink = c.is_sink

LEMMA SendSends ==
  ASSUME NEW I, NEW P, NEW c \in SoundConn(I, P), <<c.addr, c.eseqno,
         c.sent + 1>> \in I, c.rtmetric # RTMETRIC_SINK,
         NEW rexmits \in 1..MAX_REXMITS, NEW room
  PROVE  LET d == libp_send(c, rexmits, room)
         IN  Carries(c, d) /\ Sends(I, c, d)
<1> DEFINE p == [id |-> <<c.addr, c.eseqno, c.sent + 1>>, ttl |-> MAX_HOPLIM, hops |-> 1,
                 rexmits |-> AtMost(rexmits, MAX_REXMITS), probe |-> FALSE]
           d == Counted(c)
           a == Enqueued(d, p)
           b == send_queued_packet(a)
           e == IF HasRoom(c, room) THEN b ELSE d
<1>1. libp_send(c, rexmits, room) = e
  BY Zenon DEF libp_send, Counted
<1>2. p \in SoundPacket(I) /\ ~ (p.hops > 1) /\ Numbering(c, p)
  <2>1. c.addr \in Node /\ c.eseqno \in 0..UINT8-1 /\ c.sent \in Nat
    BY FieldTypes
  <2>2. <<c.addr, c.eseqno, c.sent + 1>> \in PacketId
    BY <2>1 DEF PacketId
  <2>3. /\ MAX_HOPLIM \in 0..MAX_HOPLIM /\ MAX_HOPLIM >= 1
        /\ MAX_HOPLIM + 1 = MAX_HOPLIM + 1
        /\ AtMost(rexmits, MAX_REXMITS) \in 0..31
    BY LibpAssumption DEF AtMost
  <2>4. p \in Packet
    BY <2>2, <2>3 DEF Packet
  <2>5. Numbering(c, p) /\ ~ (p.hops > 1)
    BY DEF Numbering
  <2> QED  BY <2>3, <2>4, <2>5 DEF SoundPacket, Budgeted
<1> HIDE DEF p
<1>3. /\ d \in SoundConn(I, P) /\ d.sent = c.sent + 1 /\ d.is_sink = c.is_sink
      /\ d.send_queue = c.send_queue /\ d.received = c.received /\ d.mac = c.mac
  BY CountedSound
<1>4. d.dropped = c.dropped
  BY FieldTypes DEF SoundFields, Counted
<1>5. Carries(c, d)
  BY <1>3, SameMacCarries
<1> HIDE DEF d
<1>6. /\ a \in SoundConn(I, P)
      /\ Range(a.send_queue) = Range(d.send_queue) \cup {p}
  <2>1. /\ Answers(I, P, d, a)
        /\ Range(a.send_queue) = Range(d.send_queue) \cup {p}
    BY <1>2, <1>3, EnqueuedSound
  <2> QED  BY <2>1 DEF Answers
<1>7. Enqueues(d, a, p) /\ a.mac = d.mac
  BY <1>3, EnqueuedEnqueues
<1>8. Carries(d, a)
  BY <1>6, <1>7, SameMacCarries
<1> HIDE DEF a
<1>9. SameBooks(a, b) /\ Carries(a, b)
  BY <1>6, SendQueuedCarries
<1> HIDE DEF b
<1>10. Enqueues(d, b, p)
  BY <1>7, <1>9, EnqueuesThen
<1>11. Carries(c, a)
  BY <1>5, <1>8, CarriesTrans
<1>12. Carries(c, b)
  BY <1>9, <1>11, CarriesTrans
<1>13. Sends(I, c, d) /\ Sends(I, c, b)
  BY <1>2, <1>3, <1>4, <1>10 DEF Sends, Enqueues
<1> QED  BY <1>1, <1>5, <1>12, <1>13
=============================================================================
