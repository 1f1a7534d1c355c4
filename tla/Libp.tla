-------------------------------- MODULE Libp --------------------------------
(***************************************************************************)
(* libp.c: one node's connection, `struct libp_conn'.  Every function of   *)
(* the file that changes it is an operator, of the function's name, from   *)
(* the connection to the connection after the call; the calls it makes are *)
(* the operators it applies, in the order of the code.  What a handler     *)
(* hands to the radio stack is appended to mac, what it hands to the       *)
(* application's recv() is appended to received.  Two more fields are      *)
(* history: sent counts the calls of libp_send(), dropped has the packets  *)
(* the code itself counts as given up (stats.timedout, stats.ttldrop).     *)
(* Left out: statistics, tracing, the length of the timers and             *)
(* bump_advertisement(), which only makes an announcement come sooner.     *)
(***************************************************************************)
EXTENDS Neighbours, Sequences

CONSTANTS
  MAX_HOPLIM,                   \* TTL of a fresh packet; 15
  MAX_REXMITS,                  \* most transmissions an application can ask; 31
  PROACTIVE_PROBING_REXMITS,    \* transmissions of a probe; 15
  MAX_SENDING_QUEUE,            \* entries of the send queue
  MIN_AVAILABLE_QUEUE_ENTRIES,  \* entries not meant for forwarding; 4
  NUM_RECENT_PACKETS            \* entries of the duplicate filter; 16

ASSUME LibpAssumption ==
  /\ MAX_HOPLIM \in 1..15
  /\ MAX_REXMITS \in 1..31
  /\ PROACTIVE_PROBING_REXMITS \in 1..31
  /\ MAX_SENDING_QUEUE \in Nat \ {0}
  /\ MIN_AVAILABLE_QUEUE_ENTRIES \in 0..MAX_SENDING_QUEUE + 1
  /\ NUM_RECENT_PACKETS \in Nat \ {0}

RTMETRIC_SINK    == 0
MAX_MAC_REXMITS  == 2
MAX_ACK_MAC_REXMITS == 5
SIGNIFICANT_RTMETRIC_PARENT_CHANGE ==
  LIBP_LINK_METRIC_UNIT + LIBP_LINK_METRIC_UNIT \div 2
NoValue == -1            \* an announcement whose value was never set

AckFlags == {"CONGESTED", "DROPPED", "LIFETIME_EXCEEDED", "RTMETRIC_NEEDS_UPDATE"}

\* Originator and eseqno, which is all the code has to tell packets apart, and
\* as history the number of the packet among those its application has sent.
PacketId == Node \X (0..UINT8-1) \X Nat

\* A queued packet: end-to-end attributes; a probe has a header and no data.
Packet ==
  [id : PacketId, ttl : 0..MAX_HOPLIM, hops : 0..15, rexmits : 0..31,
   probe : BOOLEAN]

\* A frame in the radio stack.  Two fields are history: heard, how often the
\* addressee has received it, and for an ACK packet, the packet it answers.
Frame ==
  [type : {"DATA", "ACK"}, src : Node, dst : Node, seqno : 0..UINT8-1,
   rtmetric : 0..UINT16-1, flags : SUBSET AckFlags, packet : Packet,
   tries : 0..31, heard : Nat]

Conn ==
  [addr : Node, is_router : BOOLEAN, is_sink : BOOLEAN,
   rtmetric : 0..UINT16-1, parent : Node \cup {NullAddr},
   current_parent : Node \cup {NullAddr},
   announcement : {NoValue} \cup 0..UINT16-1,
   seqno : 0..UINT8-1, eseqno : 0..UINT8-1,
   sending : BOOLEAN, transmissions : 0..UINT8-1, max_rexmits : 0..31,
   retransmission_timer : {"off", "retransmit", "not_sent"},
   send_queue : Seq(Packet), recent_packets : Seq(PacketId),
   neighbour_list : Table, mac : Seq(Frame), received : Seq(PacketId),
   is_open : BOOLEAN, sent : Nat, dropped : SUBSET PacketId]

libp_open(addr, is_router) ==
  [addr |-> addr, is_router |-> is_router, is_sink |-> FALSE,
   rtmetric |-> RTMETRIC_MAX, parent |-> NullAddr, current_parent |-> NullAddr,
   announcement |-> IF is_router THEN RTMETRIC_MAX ELSE NoValue,
   seqno |-> 10, eseqno |-> 0,
   sending |-> FALSE, transmissions |-> 0, max_rexmits |-> 0,
   retransmission_timer |-> "off",
   send_queue |-> <<>>, recent_packets |-> <<>>,
   neighbour_list |-> NewTable, mac |-> <<>>, received |-> <<>>,
   is_open |-> TRUE, sent |-> 0, dropped |-> {}]

Find(c, addr) == libp_neighbour_list_find(c.neighbour_list, addr)
AtMost(i, j)  == IF i <= j THEN i ELSE j

-----------------------------------------------------------------------------
(* Sending the packet at the head of the queue.                            *)

\* packetqueue_enqueue_packetbuf() fails when the queue has no entry left, or
\* the system no queue buffer (room is FALSE).
HasRoom(c, room) == room /\ Len(c.send_queue) < MAX_SENDING_QUEUE
Enqueued(c, p)   == [c EXCEPT !.send_queue = Append(@, p)]

unicast_send(c, to, tries) ==
  [c EXCEPT !.mac = Append(@,
     [type |-> "DATA", src |-> c.addr, dst |-> to, seqno |-> c.seqno,
      rtmetric |-> c.rtmetric, flags |-> {}, packet |-> Head(c.send_queue),
      tries |-> tries, heard |-> 0])]

\* The timer is armed before the frame is handed down.  Mutant: it is not.
SendUnguarded(c, to, tries) == unicast_send(c, to, tries)
send_packet(c, to, tries) ==
  unicast_send([c EXCEPT !.retransmission_timer = "not_sent"], to, tries)

send_queued_packet(c) ==
  IF c.sending \/ c.send_queue = <<>> \/ Find(c, c.parent) = {} THEN c
  ELSE LET max == Head(c.send_queue).rexmits IN
       send_packet([c EXCEPT !.sending = TRUE, !.current_parent = c.parent,
                             !.transmissions = 0, !.max_rexmits = max],
                   c.parent, AtMost(max, MAX_MAC_REXMITS))

\* Mutant: the next packet is sent under the sequence number of the last.
NextSameSeqno(c) ==
  send_queued_packet(
    [c EXCEPT !.send_queue = IF @ = <<>> THEN @ ELSE Tail(@),
              !.retransmission_timer = "off",
              !.sending = FALSE, !.transmissions = 0])

\* The packet at the head is done with, whichever packet that is.
send_next_packet(c) ==
  send_queued_packet(
    [c EXCEPT !.send_queue = IF @ = <<>> THEN @ ELSE Tail(@),
              !.seqno = (@ + 1) % UINT8,
              !.retransmission_timer = "off",
              !.sending = FALSE, !.transmissions = 0])

-----------------------------------------------------------------------------
(* Choosing the parent and the rank that follows from it.                  *)

Cost(c, n) ==
  libp_neighbour_rtmetric_link_metric(c.neighbour_list[Deref(n)])

\* Mutant: the old parent is kept when no neighbour offers a route.
KeepParent(c) ==
  LET current == Find(c, c.parent)
      best    == libp_neighbour_list_best(c.neighbour_list)
  IN  IF best # {} /\ current = {}
      THEN [c EXCEPT !.parent = c.neighbour_list[Deref(best)].addr] ELSE c

update_parent(c) ==
  LET current == Find(c, c.parent)
      best    == libp_neighbour_list_best(c.neighbour_list)
  IN  IF best = {} THEN [c EXCEPT !.parent = NullAddr]
      ELSE IF \/ current = {}
              \/ Cost(c, best) + SIGNIFICANT_RTMETRIC_PARENT_CHANGE
                   < Cost(c, current)
      THEN [c EXCEPT !.parent = c.neighbour_list[Deref(best)].addr]
      ELSE c

rtmetric_compute(c) ==
  LET n == Find(c, c.parent)
  IN  IF n = {} THEN RTMETRIC_MAX ELSE Cost(c, n)

NewRank(c) ==
  IF rtmetric_compute(c) = RTMETRIC_SINK THEN RTMETRIC_MAX ELSE rtmetric_compute(c)

Ranked(c, rank) ==
  [c EXCEPT !.rtmetric = rank,
            !.announcement = IF c.is_router THEN rank ELSE @]

update_rtmetric(c) ==
  LET Rerank(d) == Ranked(d, NewRank(d))
      SendIfNew(d) == IF c.rtmetric = RTMETRIC_MAX /\ d.rtmetric # RTMETRIC_MAX
                      THEN send_queued_packet(d) ELSE d
  IN  IF c.rtmetric = RTMETRIC_SINK THEN c ELSE SendIfNew(Rerank(update_parent(c)))

received_announcement(c, from, value) ==
  LET n == Find(c, from) IN
  update_rtmetric(
    [c EXCEPT !.neighbour_list =
       IF n # {} THEN libp_neighbour_update_rtmetric(@, n, value)
       ELSE IF value < c.rtmetric THEN libp_neighbour_list_add(@, from, value)
       ELSE @])

-----------------------------------------------------------------------------
(* The outcome of a transmission: an answer, a report from the MAC layer,  *)
(* or a timer.                                                             *)

handle_ack(c, ack) ==
  LET n  == Find(c, ack.src)
      tx == IF c.transmissions = 0 THEN MAX_MAC_REXMITS ELSE c.transmissions
      Measured ==
        [c EXCEPT !.transmissions = tx,
                  !.neighbour_list = libp_neighbour_update_rtmetric(
                     libp_neighbour_tx(@, n, tx), n, ack.rtmetric)]
      Penalise(d, k) ==
        update_rtmetric([d EXCEPT !.neighbour_list = libp_neighbour_tx(@, n, k)])
      Congestion(d) ==
        IF "CONGESTED" \in ack.flags THEN Penalise(d, d.max_rexmits * 2) ELSE d
      Conclude(d) ==
        IF "DROPPED" \notin ack.flags \/ "LIFETIME_EXCEEDED" \in ack.flags
        THEN send_next_packet(d)
        ELSE [Penalise(d, d.max_rexmits) EXCEPT !.retransmission_timer = "retransmit"]
  IN  IF ack.src # c.current_parent \/ ack.seqno # c.seqno THEN c
      ELSE Conclude(Congestion(IF n = {} THEN Measured ELSE update_rtmetric(Measured)))

GivenUp(c, p) == [c EXCEPT !.dropped = IF p.probe THEN @ ELSE @ \cup {p.id}]

timedout(c) ==
  send_next_packet(update_rtmetric(
    [IF c.send_queue = <<>> THEN c ELSE GivenUp(c, Head(c.send_queue))
       EXCEPT !.sending = FALSE,
              !.neighbour_list =
                 libp_neighbour_tx_fail(@, Find(c, c.current_parent),
                                        c.max_rexmits)]))

node_packet_sent(c, frame, transmissions) ==
  LET d == [c EXCEPT !.transmissions = (@ + transmissions) % UINT8] IN
  IF frame.type # "DATA" THEN c
  ELSE IF d.transmissions >= d.max_rexmits THEN timedout(d)
  ELSE [d EXCEPT !.retransmission_timer = "retransmit"]

\* Mutant: the count of transmissions starts again with each retransmission.
RetransmitAfresh(c) ==
  LET Redirected(d) == [d EXCEPT !.current_parent = d.parent, !.transmissions = 0]
      Resend(d) ==
        IF Find(d, d.current_parent) = {} THEN d
        ELSE send_packet([d EXCEPT !.sending = TRUE], d.current_parent,
                         AtMost(d.max_rexmits, MAX_MAC_REXMITS))
  IN  IF c.send_queue = <<>> THEN c ELSE Resend(Redirected(update_rtmetric(c)))

retransmit_current_packet(c) ==
  LET Redirected(d) ==
        IF d.current_parent = d.parent THEN d
        ELSE [d EXCEPT !.current_parent = d.parent, !.transmissions = 0]
      Resend(d) ==
        IF Find(d, d.current_parent) = {} THEN d
        ELSE send_packet([d EXCEPT !.sending = TRUE], d.current_parent,
                         AtMost(d.max_rexmits - d.transmissions, MAX_MAC_REXMITS))
  IN  IF c.send_queue = <<>> THEN c ELSE Resend(Redirected(update_rtmetric(c)))

\* The timer fires once.
retransmit_callback(c) ==
  LET d == [c EXCEPT !.retransmission_timer = "off"] IN
  IF d.transmissions >= d.max_rexmits THEN timedout(d)
  ELSE retransmit_current_packet([d EXCEPT !.sending = FALSE])

retransmit_not_sent_callback(c) ==
  retransmit_callback(
    [c EXCEPT !.transmissions = (@ + MAX_MAC_REXMITS + 1) % UINT8])

-----------------------------------------------------------------------------
(* A unicast frame arrives.                                                *)

\* Mutant: an ACK may be repeated as often as the radio stack likes.
SendAckUnbounded(c, data, flags) ==
  [c EXCEPT !.mac =
     Append(@, [type |-> "ACK", src |-> c.addr, dst |-> data.src,
                seqno |-> data.seqno, rtmetric |-> c.rtmetric,
                flags |-> flags, packet |-> data.packet,
                tries |-> UINT8, heard |-> 0])]

send_ack(c, data, flags) ==
  [c EXCEPT !.mac =
     Append(@, [type |-> "ACK", src |-> c.addr, dst |-> data.src,
                seqno |-> data.seqno, rtmetric |-> c.rtmetric,
                flags |-> flags, packet |-> data.packet,
                tries |-> MAX_ACK_MAC_REXMITS, heard |-> 0])]

\* Mutant: a packet is not remembered.
ForgetPacket(c, p) == c

add_packet_to_recent_packets(c, p) ==
  IF p.probe THEN c
  ELSE [c EXCEPT !.recent_packets =
          Append(IF Len(@) < NUM_RECENT_PACKETS THEN @ ELSE Tail(@), p.id)]

\* Mutant: one packet of an originator is as good as another.
SeenOriginator(c, p) ==
  \E i \in DOMAIN c.recent_packets : c.recent_packets[i][1] = p.id[1]

Seen(c, p) ==
  \E i \in DOMAIN c.recent_packets :
    /\ c.recent_packets[i][1] = p.id[1]
    /\ c.recent_packets[i][2] = p.id[2]

\* A packet for the sink's application.  Without a buffer it is not answered.
Deliver(c, data, room) ==
  LET d == add_packet_to_recent_packets(c, data.packet)
      e == IF room THEN send_ack(d, data, {}) ELSE d
  IN  IF data.packet.probe THEN e
      ELSE [e EXCEPT !.received = Append(@, data.packet.id)]

\* Mutants: any entry of the queue may hold a forwarded packet; the packet is
\* passed on as it came.
ForwardGreedy(c, data, flags, room) ==
  LET p == [data.packet EXCEPT !.hops = @ + 1, !.ttl = @ - 1]
      d == add_packet_to_recent_packets(Enqueued(c, p), p)
  IN  IF HasRoom(c, room)
      THEN send_queued_packet(send_ack(d, data, flags))
      ELSE send_ack(c, data, flags \cup {"DROPPED", "CONGESTED"})

ForwardAsIs(c, data, flags, room) ==
  LET p == [data.packet EXCEPT !.hops = @ + 1]
      d == add_packet_to_recent_packets(Enqueued(c, p), p)
  IN  IF /\ Len(c.send_queue) <= MAX_SENDING_QUEUE - MIN_AVAILABLE_QUEUE_ENTRIES
         /\ HasRoom(c, room)
      THEN send_queued_packet(send_ack(d, data, flags))
      ELSE send_ack(c, data, flags \cup {"DROPPED", "CONGESTED"})

\* A packet to pass on.
Forward(c, data, flags, room) ==
  LET p == [data.packet EXCEPT !.hops = @ + 1, !.ttl = @ - 1]
      d == add_packet_to_recent_packets(Enqueued(c, p), p)
  IN  IF /\ Len(c.send_queue) <= MAX_SENDING_QUEUE - MIN_AVAILABLE_QUEUE_ENTRIES
         /\ HasRoom(c, room)
      THEN send_queued_packet(send_ack(d, data, flags))
      ELSE send_ack(c, data, flags \cup {"DROPPED", "CONGESTED"})

ReceiveData(c, data, rtmetric, room) ==
  LET congested == IF Len(c.send_queue) >= MAX_SENDING_QUEUE \div 2
                   THEN {"CONGESTED"} ELSE {}
      loop == IF rtmetric <= c.rtmetric THEN {"RTMETRIC_NEEDS_UPDATE"} ELSE {}
  IN  IF Seen(c, data.packet) THEN send_ack(c, data, congested)
      ELSE IF c.rtmetric = RTMETRIC_SINK THEN Deliver(c, data, room)
      ELSE IF data.packet.ttl > 1 /\ c.rtmetric # RTMETRIC_MAX
      THEN Forward(c, data, congested \cup loop, room)
      ELSE IF data.packet.ttl <= 1
      THEN send_ack(GivenUp(c, data.packet), data,
                    congested \cup {"DROPPED", "LIFETIME_EXCEEDED"})
      ELSE c

\* The frame is in the one global packet buffer.  If its rank gives this node
\* a route, update_rtmetric() sends a queued packet from that same buffer, and
\* it is this packet, from this node, that the rest of the handler processes.
node_packet_received(c, frame, room) ==
  LET n == Find(c, frame.src)
      Heard ==
        IF n = {} THEN c
        ELSE update_rtmetric(
               [c EXCEPT !.neighbour_list =
                  libp_neighbour_update_rtmetric(@, n, frame.rtmetric)])
      Process(d, packetbuf) ==
        IF packetbuf.type = "DATA"
        THEN ReceiveData(d, packetbuf, frame.rtmetric, room)
        ELSE handle_ack(d, packetbuf)
      ProcessBuffer(d) ==
        Process(d, IF d.mac = c.mac THEN frame ELSE d.mac[Len(d.mac)])
  IN  ProcessBuffer(Heard)

-----------------------------------------------------------------------------
(* Probing a neighbour whose link has no estimate.                         *)

Unprobed(c) ==
  {s \in Listed(c.neighbour_list) :
     /\ c.neighbour_list[s].rtmetric + LIBP_LINK_METRIC_UNIT < c.rtmetric
     /\ libp_link_metric_num_metrics(c.neighbour_list[s].lm) = 0}

FirstUnprobed(c) ==
  {s \in Unprobed(c) : \A u \in Unprobed(c) :
     c.neighbour_list[s].place <= c.neighbour_list[u].place}

enqueue_dummy_packet(c, rexmits) ==
  Enqueued(c, [id |-> <<c.addr, (c.eseqno - 1) % UINT8, 0>>, ttl |-> 1, hops |-> 1,
               rexmits |-> rexmits, probe |-> TRUE])

\* Mutant: the neighbour that is probed stays the parent.
ProbeKeepsParent(c, room) ==
  LET n == FirstUnprobed(c)
      d == [c EXCEPT !.parent = c.neighbour_list[Deref(n)].addr]
  IN  IF \/ c.rtmetric \in {RTMETRIC_SINK, RTMETRIC_MAX}
         \/ c.send_queue # <<>> \/ n = {} \/ ~ HasRoom(c, room)
      THEN c
      ELSE send_queued_packet(enqueue_dummy_packet(d, PROACTIVE_PROBING_REXMITS))

proactive_probing_callback(c, room) ==
  LET n == FirstUnprobed(c)
      d == [c EXCEPT !.parent = c.neighbour_list[Deref(n)].addr]
  IN  IF \/ c.rtmetric \in {RTMETRIC_SINK, RTMETRIC_MAX}
         \/ c.send_queue # <<>> \/ n = {} \/ ~ HasRoom(c, room)
      THEN c
      ELSE [send_queued_packet(enqueue_dummy_packet(d, PROACTIVE_PROBING_REXMITS))
              EXCEPT !.parent = c.parent]

-----------------------------------------------------------------------------
(* What the application calls, the tick of the neighbour table, and the    *)
(* lifetime of a queued packet running out.                                *)

libp_send(c, rexmits, room) ==
  LET p == [id |-> <<c.addr, c.eseqno, c.sent + 1>>, ttl |-> MAX_HOPLIM, hops |-> 1,
            rexmits |-> AtMost(rexmits, MAX_REXMITS), probe |-> FALSE]
      d == [c EXCEPT !.eseqno = IF @ = UINT8 - 1 THEN UINT8 \div 2 ELSE @ + 1,
                     !.sent = @ + 1]
  IN  IF c.rtmetric = RTMETRIC_SINK
      THEN [d EXCEPT !.received = Append(@, p.id)]
      ELSE IF HasRoom(c, room) THEN send_queued_packet(Enqueued(d, p)) ELSE d

libp_set_sink(c, should_be_sink) ==
  LET rank == IF should_be_sink THEN RTMETRIC_SINK ELSE RTMETRIC_MAX
      d == [c EXCEPT !.rtmetric = rank, !.announcement = rank]
  IN  update_rtmetric(
        IF should_be_sink
        THEN [d EXCEPT !.is_router = TRUE, !.is_sink = TRUE,
                       !.send_queue = <<>>, !.retransmission_timer = "off"]
        ELSE d)

libp_purge(c) ==
  [update_rtmetric([c EXCEPT !.neighbour_list = libp_neighbour_list_purge(@),
                             !.parent = NullAddr])
     EXCEPT !.parent = NullAddr]

\* The announcement and both Rime connections go, and the queue; the timers
\* stay as they are.  Mutant: the queue stays, too.
CloseKeepsQueue(c) == [c EXCEPT !.announcement = NoValue, !.is_open = FALSE]
libp_close(c) ==
  [c EXCEPT !.announcement = NoValue, !.is_open = FALSE, !.send_queue = <<>>]

Tick(c) == [c EXCEPT !.neighbour_list = periodic(@)]

\* packetqueue's timer removes the item it belongs to, wherever it stands.
Expire(c, i) ==
  [c EXCEPT !.send_queue =
     [j \in 1..Len(@) - 1 |-> IF j < i THEN @[j] ELSE @[j + 1]]]
=============================================================================
