------------------------------ MODULE LibpNet -------------------------------
(***************************************************************************)
(* A network of libp connections.  Nodes run to completion one handler at  *)
(* a time; between handlers anything the radio, the timers and the         *)
(* applications may do can happen, in any order.                           *)
(* The radio stack (Contiki, not part of this repository) is the mac field *)
(* of each connection: the frames handed down and not yet reported back.   *)
(* While a frame is there its addressee may receive it, more than once     *)
(* when link-layer ACKs are lost, or never.  Frames for one neighbour keep *)
(* their order, frames for different neighbours do not.                    *)
(***************************************************************************)
EXTENDS Libp, Functions

CONSTANTS
  Sink,       \* the node that is made the sink when it starts
  Setups,     \* the networks considered, see Setup
  Packets,    \* the identities of the packets that may be sent
  MaxCopies   \* bound: receptions of one frame

FaultKinds == {"silent", "expire", "tick", "purge", "sink", "reboot", "close"}

\* A network, and how much may happen in it.
Setup ==
  [routers : SUBSET Node,          \* the nodes opened with LIBP_ROUTER
   link : SUBSET (Node \X Node),   \* pairs <<n, m>> such that m hears n
   sources : SUBSET Node,          \* the nodes whose application sends
   rexmits : SUBSET (1..MAX_REXMITS), \* the transmissions they ask for
   room : SUBSET BOOLEAN,          \* has FALSE if the pool of queue buffers may be empty
   faults : SUBSET FaultKinds,     \* the kinds of rare event that may happen
   bound : [send : Nat, probe : Nat, fault : Nat]]
     \* bounds: packets sent, probing timers expired, rare events

ASSUME LibpNetAssumption ==
  /\ Sink \in Node
  /\ Setups \subseteq Setup
  /\ Packets \subseteq PacketId
  /\ MaxCopies \in Nat

VARIABLES
  setup,  \* the network, chosen once and for all
  conn,   \* the connection of each node
  left    \* how many sends, probes and faults there may still be

vars == <<setup, conn, left>>

Opened(n) ==
  IF n = Sink THEN libp_set_sink(libp_open(n, n \in setup.routers), TRUE)
              ELSE libp_open(n, n \in setup.routers)

Init ==
  /\ setup \in Setups
  /\ conn = [n \in Node |-> Opened(n)]
  /\ left = setup.bound

Update(n, c) == conn' = [conn EXCEPT ![n] = c]
Free         == UNCHANGED <<setup, left>>
Spend(what) ==
  /\ left[what] > 0
  /\ left' = [left EXCEPT ![what] = @ - 1]
  /\ UNCHANGED setup
Fault(kind) == kind \in setup.faults /\ Spend("fault")
Hears(n, m) == <<n, m>> \in setup.link /\ n # m /\ conn[m].is_open

-----------------------------------------------------------------------------
(* The radio.                                                              *)

\* The frames of n that the radio may be busy with: the first for each addressee.
OnAir(n) ==
  {i \in DOMAIN conn[n].mac :
     \A j \in 1..i-1 : conn[n].mac[j].dst # conn[n].mac[i].dst}

RemoveFrame(c, i) ==
  [c EXCEPT !.mac = [j \in 1..Len(@) - 1 |-> IF j < i THEN @[j] ELSE @[j + 1]]]

\* The addressee m receives frame i of n; the frame stays until it is reported.
Receive(n, i) ==
  LET frame == conn[n].mac[i]
      m     == frame.dst
  IN  /\ Hears(n, m)
      /\ frame.heard < AtMost(frame.tries, MaxCopies)
      /\ \E room \in setup.room :
           conn' = [conn EXCEPT
                      ![n].mac[i].heard = @ + 1,
                      ![m] = node_packet_received(@, frame, room)]
      /\ Free

\* The MAC layer is done with frame i after some number of transmissions.
Report(n, i) ==
  LET frame == conn[n].mac[i] IN
  /\ \E t \in 1..frame.tries :
       /\ frame.heard <= t
       /\ frame.type = "ACK" => t = frame.tries
       /\ Update(n, node_packet_sent(RemoveFrame(conn[n], i), frame, t))
  /\ Free

\* "a bug in the MAC/RDC layers will cause it to not call us back"
Silent(n, i) ==
  /\ conn[n].mac[i].type = "DATA"
  /\ Update(n, RemoveFrame(conn[n], i))
  /\ Fault("silent")

\* m hears the announcement of n.
Announced(n, m) == received_announcement(conn[m], n, conn[n].announcement)

Announce(n, m) ==
  /\ Hears(n, m)
  /\ conn[n].is_open /\ conn[n].announcement # NoValue
  /\ Update(m, Announced(n, m))
  /\ Free

-----------------------------------------------------------------------------
(* The timers of a node.  The one that guards against a silent MAC layer   *)
(* is so long that it does not fire while a data frame is in the stack.    *)

Retransmit(n) ==
  /\ conn[n].retransmission_timer = "retransmit"
  /\ Update(n, retransmit_callback(conn[n]))
  /\ Free

NotSent(n) ==
  /\ conn[n].retransmission_timer = "not_sent"
  /\ \A i \in DOMAIN conn[n].mac : conn[n].mac[i].type # "DATA"
  /\ Update(n, retransmit_not_sent_callback(conn[n]))
  /\ Free

Probe(n) ==
  /\ \E room \in setup.room : Update(n, proactive_probing_callback(conn[n], room))
  /\ Spend("probe")

TableTick(n) ==
  /\ Update(n, Tick(conn[n]))
  /\ Fault("tick")

ExpirePacket(n, i) ==
  /\ Update(n, Expire(conn[n], i))
  /\ Fault("expire")

-----------------------------------------------------------------------------
(* The application, and a node that restarts with nothing remembered.      *)

Send(n) ==
  /\ n \in setup.sources /\ conn[n].is_open
  /\ \E rexmits \in setup.rexmits, room \in setup.room :
       Update(n, libp_send(conn[n], rexmits, room))
  /\ Spend("send")

Purge(n) ==
  /\ Update(n, libp_purge(conn[n]))
  /\ Fault("purge")

SetSink(n, should_be_sink) ==
  /\ Update(n, libp_set_sink(conn[n], should_be_sink))
  /\ Fault("sink")

Close(n) ==
  /\ conn[n].is_open
  /\ Update(n, libp_close(conn[n]))
  /\ Fault("close")

Reboot(n) ==
  /\ Update(n, [Opened(n) EXCEPT !.sent = conn[n].sent, !.dropped = conn[n].dropped,
                                 !.received = conn[n].received])
  /\ Fault("reboot")

-----------------------------------------------------------------------------
Next ==
  \/ \E n \in Node : \E i \in OnAir(n) : Receive(n, i)
  \/ \E n \in Node : \E i \in OnAir(n) : Report(n, i)
  \/ \E n \in Node : \E i \in OnAir(n) : Silent(n, i)
  \/ \E n, m \in Node : Announce(n, m)
  \/ \E n \in Node : Retransmit(n)
  \/ \E n \in Node : NotSent(n)
  \/ \E n \in Node : Probe(n)
  \/ \E n \in Node : TableTick(n)
  \/ \E n \in Node : \E i \in DOMAIN conn[n].send_queue : ExpirePacket(n, i)
  \/ \E n \in Node : Send(n)
  \/ \E n \in Node : Purge(n)
  \/ \E n \in Node, should_be_sink \in BOOLEAN : SetSink(n, should_be_sink)
  \/ \E n \in Node : Close(n)
  \/ \E n \in Node : Reboot(n)

Spec == Init /\ [][Next]_vars

\* The MAC layer does not keep a frame for ever, a timer that is set fires
\* (Contiki's ctimers), and a node that can hear the sink hears what it
\* announces; whether a frame is ever received is not assumed.  These are
\* WF_vars(Reports(n)), WF_vars(Fires(n)) and WF_vars(Announce(Sink, n)) with
\* ENABLED written out, and with the steps told by what they change.
FrameGone(n) ==
  \/ Len(conn'[n].mac) < Len(conn[n].mac)
  \/ \E i \in DOMAIN conn[n].mac :
       conn'[n].mac[i] # [conn[n].mac[i] EXCEPT !.heard = conn'[n].mac[i].heard]
TimerDue(n) ==
  \/ conn[n].retransmission_timer = "retransmit"
  \/ /\ conn[n].retransmission_timer = "not_sent"
     /\ \A i \in DOMAIN conn[n].mac : conn[n].mac[i].type # "DATA"
Fires(n) == Retransmit(n) \/ NotSent(n)
Unheard(n) == Hears(Sink, n) /\ Find(conn[n], Sink) = {}

Fairness ==
  \A n \in Node \ {Sink} :
    /\ []<>(conn[n].mac = <<>>) \/ []<><<FrameGone(n)>>_vars
    /\ []<>(~ TimerDue(n)) \/ []<><<Fires(n)>>_vars
    /\ []<>(~ Unheard(n))

LiveSpec == Spec /\ Fairness

-----------------------------------------------------------------------------
TypeOK ==
  /\ conn \in [Node -> Conn]
  /\ setup \in Setups
  /\ left \in [send : Nat, probe : Nat, fault : Nat]

\* A node that is sending has a timer running, so it cannot wait for ever for
\* an ACK or a report that does not come: "sending" blocks send_queued_packet()
\* (libp.c:1097), and the timer exists "so that we can cancel the transmission
\* and send a new one" (libp.c:704-707).
SendingArmed ==
  \A n \in Node :
    conn[n].sending /\ conn[n].rtmetric # RTMETRIC_SINK
      => conn[n].retransmission_timer # "off"

\* No rank is worse than RTMETRIC_MAX by more than the hysteresis of
\* update_parent(), and none is better than one link unless the node is a
\* sink: ranks neither wrap nor attract traffic to a node that has no route
\* (libp.c:1057-1064).
RankBound ==
  \A n \in Node :
    /\ conn[n].rtmetric < RTMETRIC_MAX + SIGNIFICANT_RTMETRIC_PARENT_CHANGE
    /\ conn[n].rtmetric < LIBP_LINK_METRIC_UNIT => conn[n].is_sink

\* An ACK that would be accepted is for the packet at the head of the queue,
\* which it releases: "the packet that was just sent" (libp.c:197).
AckIsForHead ==
  \A n \in Node : \A i \in DOMAIN conn[n].mac :
    LET ack == conn[n].mac[i]
        c   == conn[ack.dst]
    IN  /\ ack.type = "ACK" /\ ack.heard < MaxCopies
        /\ n = c.current_parent /\ ack.seqno = c.seqno
        => c.send_queue # <<>> /\ Head(c.send_queue) = ack.packet

\* A packet leaves a queue when it has been counted as given up, or when an ACK
\* for this very packet arrives that calls it accepted or out of hops:
\* send_next_packet() releases the head of the queue, whichever it is
\* (libp.c:195-212, libp.c:280-300, libp.c:509-528).
ReleasesAnswered ==
  [][\A n \in Node :
       \A p \in Range(conn[n].send_queue) \ Range(conn'[n].send_queue) :
         \/ p.probe \/ p.id \in conn'[n].dropped
         \/ \E m \in Node : \E i \in OnAir(m) :
              LET f == conn[m].mac[i] IN
              /\ Receive(m, i) /\ f.dst = n /\ f.type = "ACK" /\ f.packet = p
              /\ "DROPPED" \notin f.flags \/ "LIFETIME_EXCEEDED" \in f.flags]_vars

\* The application of the sink gets a packet of another node again only after
\* more packets than the duplicate filter has entries (libp.c:314-327, libp.c:375-393).
RepeatsApart ==
  LET got == conn[Sink].received IN
  \A i, j \in DOMAIN got :
    i < j /\ got[i] = got[j] /\ got[i][1] # Sink => j - i > NUM_RECENT_PACKETS

\* An ACK of the sink that does not say otherwise means that the application
\* has the packet: what the duplicate filter answers for is a duplicate.
AcksAreHonest ==
  \A i \in DOMAIN conn[Sink].mac :
    LET ack == conn[Sink].mac[i]
    IN  ack.type = "ACK" /\ "DROPPED" \notin ack.flags /\ ~ ack.packet.probe
        => ack.packet.id \in Range(conn[Sink].received)

\* Every packet keeps the sum of its hops made and its hops left, and none is
\* passed on with no hop left: the two 4-bit fields never wrap.
HopBudget ==
  \A n \in Node : \A i \in DOMAIN conn[n].send_queue :
    LET p == conn[n].send_queue[i]
    IN  ~ p.probe => p.ttl >= 1 /\ p.ttl + p.hops = MAX_HOPLIM + 1

\* Forwarded packets leave entries of the queue to the node's own
\* (libp.c:463-465): all but the last of MIN_AVAILABLE_QUEUE_ENTRIES.
ForwardReserve ==
  \A n \in Node :
    Cardinality({i \in DOMAIN conn[n].send_queue : conn[n].send_queue[i].hops > 1})
      <= MAX_SENDING_QUEUE - MIN_AVAILABLE_QUEUE_ENTRIES + 1

\* A connection that was closed sends none of the packets it had, and answers
\* nothing: what the timers libp_close() leaves running (libp.c:1201-1212) still
\* hand down is probes, every other frame was there before.
ClosedOnlyProbes ==
  [][\A n \in Node : ~ conn[n].is_open =>
       \A f \in Range(conn'[n].mac) :
         \/ f.packet.probe
         \/ \E g \in Range(conn[n].mac) : f = [g EXCEPT !.heard = f.heard]]_vars

\* The rank a node has, announces and puts into its frames is that of its parent
\* as its table has it now.
Current(c) ==
  c.rtmetric # RTMETRIC_SINK =>
    /\ c.rtmetric = NewRank(c)
    /\ c.is_open /\ c.is_router => c.announcement = c.rtmetric

\* Whatever a handler learns of a neighbour or a link, and whoever stands in for
\* the parent meanwhile (libp.c:681-686), when it returns rank and parent belong
\* together again (libp.c:1046-1082).  Only the tick of the table, which libp.c is
\* not told of, leaves a rank that is out of date (libp-neighbour.c:51-71).
RanksStayCurrent ==
  [][\A n \in Node : Current(conn[n]) => Current(conn'[n]) \/ TableTick(n)]_vars

-----------------------------------------------------------------------------
(* The network implements the specification of delivery: a packet is held  *)
(* when some queue has it, delivered when the sink's application has it,   *)
(* and given up when some node has counted it as timed out or expired.     *)

Held == {q.id : q \in {p \in UNION {Range(conn[n].send_queue) : n \in Node} :
                         ~ p.probe}}

D == INSTANCE Delivery WITH
       held      <- Held,
       delivered <- conn[Sink].received,
       givenUp   <- UNION {conn[n].dropped : n \in Node}

\* No packet is lost without being counted, and none is delivered twice,
\* however frames and ACKs are lost, repeated or late (libp.c:352-355).
DeliverySpec == D!Spec

\* No packet stays in the network for ever: each transmission is ACKed or given
\* up after max_rexmits, and the retransmissions that a NACK or a change of
\* parent adds come to an end (libp.c:763-800).
DeliveryResolved == D!Resolved

\* Data frames only go down a fixed order of the nodes: no route, however it
\* came about, leads a packet back to a node that has passed it on.
Downhill(level) ==
  \A n \in Node : \A f \in Range(conn[n].mac) :
    f.type = "DATA" => level[f.dst] < level[n]

\* A packet leaves the last queue that holds it only when an application has
\* it or a node has counted it as given up, as long as no queue is emptied: a
\* node releases a packet after another has taken it on, or knows what became
\* of it (libp.c:195-212, libp.c:352-355, libp.c:466-528).  Where routes make a
\* loop this may fail: a packet that returns is acknowledged as a duplicate.
NothingLost ==
  [][setup.faults \cap {"expire", "sink", "close", "reboot"} = {} =>
       \A id \in Held \ Held' : \E n \in Node :
         id \in Range(conn'[n].received) \cup conn'[n].dropped]_vars

-----------------------------------------------------------------------------
(* What the comments say and the code does not do.                         *)

\* "The descision is made depending on how many times the packet has been
\* transmitted" (libp.c:818): the report on a frame never makes the node give
\* up a packet that the frame did not carry.
TimeoutsAreOwn ==
  [][\A n \in Node : \A i \in OnAir(n) :
       LET c == conn[n] IN
       /\ Report(n, i) /\ c.mac[i].type = "DATA"
       /\ c.send_queue # <<>> /\ Head(c.send_queue) # c.mac[i].packet
       => conn'[n].send_queue = c.send_queue]_vars

\* "We got a new, working, route we send any queued packets we may have"
\* (libp.c:1076): a node with a packet and a parent is sending.
QueueServed ==
  \A n \in Node :
    conn[n].send_queue # <<>> /\ Find(conn[n], conn[n].parent) # {}
      => conn[n].sending
=============================================================================
