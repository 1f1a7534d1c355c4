---------------------------- MODULE LibpNet_proofs --------------------------
(***************************************************************************)
(* What holds in every network, of any size and for any number of packets, *)
(* probes and rare events.                                                 *)
(***************************************************************************)
EXTENDS LibpNet, LibpAcks_proofs

\* No node forgets what it has sent and received or stops being the sink, and
\* no eseqno wraps.
Lasting(s) == s.faults \cap {"sink", "reboot"} = {} /\ s.bound.send <= UINT8

\* No node is made a sink and then a node again.
SinkForGood(s) == "sink" \notin s.faults \/ s.bound.fault <= 1

\* The identities of the packets that may be sent.
Ids(s) == IF Lasting(s) THEN TrueIds ELSE PacketId

\* The place of a node in the network s, while no node is made a sink: a sink
\* chooses no parent, another node only one that announces a rank.
Place(s, n) ==
  [near   |-> {k \in Node : \/ ~ Lasting(s)
                            \/ n # Sink /\ k \in s.routers \cup {Sink}
                                        /\ <<k, n>> \in s.link},
   router |-> ~ Lasting(s) \/ n \in s.routers \cup {Sink}]

OnlyProbes(c) == \A p \in Range(c.send_queue) : p.probe

\* A node's connection, when l is left of the events of the network s.
NodeInv(s, n, c, l) ==
  /\ c \in SoundConn(Ids(s), Place(s, n)) /\ c.addr = n
  /\ Reserved(c)
  /\ ~ c.is_open => OnlyProbes(c)
  /\ SinkForGood(s) => Armed(c) \/ (c.rtmetric = RTMETRIC_SINK /\ l.fault = 0)
  /\ Lasting(s) => /\ c.sent + l.send <= s.bound.send
                   /\ c.sent < UINT8 => c.eseqno = c.sent
                   /\ n = Sink => HonestSink(c)

Bounds == [send : Nat, probe : Nat, fault : Nat]

Inv ==
  /\ setup \in Setups /\ left \in Bounds /\ left.fault <= setup.bound.fault
  /\ conn = [n \in Node |-> conn[n]]
  /\ \A n \in Node : NodeInv(setup, n, conn[n], left)

\* All a closed connection hands down is probes.
Quiet(c, d) ==
  ~ c.is_open /\ OnlyProbes(c) =>
    \A f \in Range(d.mac) :
      f.packet.probe \/ \E g \in Range(c.mac) : f = [g EXCEPT !.heard = f.heard]

-----------------------------------------------------------------------------
(* One node's part of a step.                                              *)

LEMMA IdsArePackets ==
  ASSUME NEW s
  PROVE  Ids(s) \subseteq PacketId /\ (Lasting(s) => Ids(s) \subseteq TrueIds)
BY DEF Ids, TrueIds

LEMMA SetupFields ==
  ASSUME NEW s \in Setups
  PROVE  /\ s.routers \subseteq Node
         /\ s.rexmits \subseteq 1..MAX_REXMITS
         /\ s.bound \in Bounds
         /\ s.bound.send \in Nat /\ s.bound.fault \in Nat
BY LibpNetAssumption DEF Setup, Bounds

LEMMA LessLeft ==
  ASSUME NEW s \in Setups, NEW n, NEW c, NEW l \in Bounds, NEW r \in Bounds,
         NodeInv(s, n, c, l), r.fault <= l.fault, r.send <= l.send
  PROVE  NodeInv(s, n, c, r)
<1>1. /\ s.bound.send \in Nat /\ l.fault \in Nat /\ r.fault \in Nat
      /\ l.send \in Nat /\ r.send \in Nat
  BY SetupFields DEF Bounds
<1>2. c.sent \in Nat
  BY FieldTypes DEF NodeInv
<1>3. l.fault = 0 => r.fault = 0
  BY <1>1
<1>4. c.sent + l.send <= s.bound.send => c.sent + r.send <= s.bound.send
  BY <1>1, <1>2
<1> QED  BY <1>3, <1>4 DEF NodeInv

\* An operator that adds no packet to the queue.
Safe(I, P, c, d) ==
  /\ Answers(I, P, c, d)
  /\ Range(d.send_queue) \subseteq Range(c.send_queue)
  /\ HonestSink(c) => HonestSink(d)

LEMMA SafeTrans ==
  ASSUME NEW I, NEW P, NEW c \in SoundConn(I, P), NEW d, NEW e, Safe(I, P, c, d),
         Safe(I, P, d, e)
  PROVE  Safe(I, P, c, e)
<1>1. Answers(I, P, c, e)
  BY AnswersTrans DEF Safe
<1> QED  BY <1>1 DEF Safe

LEMMA ServesSafe ==
  ASSUME NEW I, NEW P, NEW c \in SoundConn(I, P), NEW d, Serves(I, P, c, d)
  PROVE  Safe(I, P, c, d)
<1>1. d \in SoundConn(I, P) /\ Handled(c, d)
  BY DEF Serves
<1>2. Answers(I, P, c, d)
  BY ServesAnswers
<1>3. Range(d.send_queue) \subseteq Range(c.send_queue)
  BY <1>1 DEF Handled
<1>4. HonestSink(c) => HonestSink(d)
  BY <1>1, HandledHonest
<1> QED  BY <1>2, <1>3, <1>4 DEF Safe

LEMMA AnswersStep ==
  ASSUME NEW s, NEW n, NEW c, NEW d, NEW l,
         NodeInv(s, n, c, l), Answers(Ids(s), Place(s, n), c, d),
         ~ c.is_open => OnlyProbes(d),
         Lasting(s) /\ HonestSink(c) => HonestSink(d)
  PROVE  NodeInv(s, n, d, l)
BY DEF NodeInv, Answers, Kept

LEMMA SafeStep ==
  ASSUME NEW s, NEW n, NEW c, NEW d, NEW l,
         NodeInv(s, n, c, l), Safe(Ids(s), Place(s, n), c, d)
  PROVE  NodeInv(s, n, d, l)
<1>1. ~ c.is_open => OnlyProbes(d)
  BY DEF NodeInv, OnlyProbes, Safe
<1> QED  BY <1>1, AnswersStep DEF Safe

\* A frame that was there before has not changed.
LEMMA QuietFrom ==
  ASSUME NEW I, NEW P, NEW c \in SoundConn(I, P), NEW d,
         ~ c.is_open /\ OnlyProbes(c) =>
           \A f \in Range(d.mac) : f.packet.probe \/ f \in Range(c.mac)
  PROVE  Quiet(c, d)
<1>1. ASSUME NEW g \in Range(c.mac) PROVE g = [g EXCEPT !.heard = g.heard]
  <2>1. c.mac \in Seq(SentFrame(I, P))
    BY FieldTypes
  <2>2. g \in SentFrame(I, P)
    BY <2>1 DEF Range
  <2>3. g \in Frame
    BY <2>2 DEF SentFrame, SoundFrame
  <2> QED  BY <2>3 DEF Frame
<1> QED  BY <1>1 DEF Quiet

\* What is sent from the queue of a closed connection.
LEMMA SentQuiet ==
  ASSUME NEW I, NEW P, NEW c \in SoundConn(I, P), NEW d \in SoundConn(I, P), NEW m,
         m \in Seq(SentFrame(I, P)), Range(m) \subseteq Range(c.mac),
         SentFrom(c.send_queue, m, d.mac)
  PROVE  Quiet(c, d)
<1>1. d.mac \in Seq(SentFrame(I, P))
  BY FieldTypes
<1>2. ASSUME NEW f \in Range(d.mac)
      PROVE  f \in Range(c.mac) \/ f.packet \in Range(c.send_queue)
  <2>1. PICK i \in 1..Len(d.mac) : f = d.mac[i]
    BY <1>1 DEF Range
  <2>2. CASE i \in 1..Len(m)
    <3>1. f \in Range(m)
      BY <2>1, <2>2 DEF SentFrom, Range
    <3> QED  BY <3>1
  <2>3. CASE i \in Len(m)+1..Len(d.mac)
    BY <2>1, <2>3 DEF SentFrom
  <2>4. Len(m) \in Nat /\ Len(d.mac) \in Nat
    BY <1>1
  <2> QED  BY <2>2, <2>3, <2>4
<1>3. ~ c.is_open /\ OnlyProbes(c) =>
        \A f \in Range(d.mac) : f.packet.probe \/ f \in Range(c.mac)
  BY <1>2 DEF OnlyProbes
<1> QED  BY <1>3, QuietFrom

LEMMA ServesQuiet ==
  ASSUME NEW I, NEW P, NEW c \in SoundConn(I, P), NEW d, Serves(I, P, c, d)
  PROVE  Quiet(c, d)
<1>1. c.mac \in Seq(SentFrame(I, P)) /\ d \in SoundConn(I, P)
  BY FieldTypes DEF Serves
<1>2. Range(c.mac) \subseteq Range(c.mac) /\ SentFrom(c.send_queue, c.mac, d.mac)
  BY DEF Serves, Handled
<1> QED  BY <1>1, <1>2, SentQuiet

\* A step of the network, from what it does at each node.
LEMMA SomeNodes ==
  ASSUME Inv, conn' = [k \in Node |-> conn'[k]], setup' = setup, left' \in Bounds,
         left'.fault <= left.fault, left'.send <= left.send,
         \A k \in Node : \/ conn'[k] = conn[k]
                         \/ /\ NodeInv(setup, k, conn'[k], left')
                            /\ Quiet(conn[k], conn'[k])
  PROVE  Inv' /\ \A k \in Node : Quiet(conn[k], conn'[k])
<1>1. ASSUME NEW k \in Node
      PROVE  NodeInv(setup, k, conn'[k], left') /\ Quiet(conn[k], conn'[k])
  <2>1. CASE conn'[k] = conn[k]
    <3>1. NodeInv(setup, k, conn[k], left')
      BY LessLeft DEF Inv
    <3>2. Quiet(conn[k], conn[k])
      <4>1. conn[k] \in SoundConn(Ids(setup), Place(setup, k))
        BY DEF Inv, NodeInv
      <4> QED  BY <4>1, QuietFrom
    <3> QED  BY <2>1, <3>1, <3>2
  <2> QED  BY <2>1
<1>2. left'.fault <= setup.bound.fault
  <2>1. left'.fault \in Nat /\ left.fault \in Nat /\ setup.bound.fault \in Nat
    BY SetupFields DEF Inv, Bounds
  <2> QED  BY <2>1 DEF Inv
<1>3. Inv'
  BY <1>1, <1>2 DEF Inv
<1> QED  BY <1>1, <1>3

LEMMA OneNode ==
  ASSUME Inv, NEW n \in Node, NEW d, conn' = [conn EXCEPT ![n] = d],
         setup' = setup, left' \in Bounds,
         left'.fault <= left.fault, left'.send <= left.send,
         NodeInv(setup, n, d, left'), Quiet(conn[n], d)
  PROVE  Inv' /\ \A k \in Node : Quiet(conn[k], conn'[k])
<1>1. conn' = [k \in Node |-> conn'[k]]
  BY DEF Inv
<1>2. conn'[n] = d /\ \A k \in Node \ {n} : conn'[k] = conn[k]
  BY DEF Inv
<1>3. \A k \in Node : \/ conn'[k] = conn[k]
                      \/ /\ NodeInv(setup, k, conn'[k], left')
                         /\ Quiet(conn[k], conn'[k])
  BY <1>2
<1> QED  BY <1>1, <1>3, SomeNodes

\* Frames in the radio stack: one is reported, one is heard once more.
SetMac(c, m) == [c EXCEPT !.mac = m]

LEMMA SetMacSafe ==
  ASSUME NEW I, NEW P, NEW c \in SoundConn(I, P), NEW m \in Seq(SentFrame(I, P)),
         \A f \in Range(m) : \E g \in Range(c.mac) :
           f.type = g.type /\ f.flags = g.flags /\ f.packet = g.packet
  PROVE  Safe(I, P, c, SetMac(c, m)) /\ SetMac(c, m).mac = m
<1> DEFINE d == SetMac(c, m)
<1>1. c.recent_packets \in Seq(I) /\ c.received \in Seq(I)
  BY FieldTypes
<1>2. d = Traffic(c, m, c.recent_packets, c.received)
  BY FieldTypes DEF SoundFields, SetMac, Traffic
<1> HIDE DEF d
<1>3. /\ Answers(I, P, c, d)
      /\ d.mac = m /\ d.recent_packets = c.recent_packets
      /\ d.received = c.received
      /\ d.send_queue = c.send_queue /\ d.rtmetric = c.rtmetric
  BY <1>1, <1>2, SetTrafficSound
<1>4. HonestSink(c) => HonestSink(d)
  BY <1>3 DEF HonestSink, HonestFrame
<1> QED  BY <1>3, <1>4 DEF Safe, d

LEMMA RemoveFrameSafe ==
  ASSUME NEW I, NEW P, NEW c \in SoundConn(I, P), NEW i \in DOMAIN c.mac
  PROVE  /\ Safe(I, P, c, RemoveFrame(c, i))
         /\ RemoveFrame(c, i).mac \in Seq(SentFrame(I, P))
         /\ Range(RemoveFrame(c, i).mac) \subseteq Range(c.mac)
         /\ RemoveFrame(c, i).send_queue = c.send_queue
<1> DEFINE m == Without(c.mac, i)
<1>1. c.mac \in Seq(SentFrame(I, P)) /\ i \in 1..Len(c.mac)
  BY FieldTypes
<1>2. /\ m \in Seq(SentFrame(I, P))
      /\ Len(m) = Len(c.mac) - 1
      /\ Range(m) \subseteq Range(c.mac)
  BY <1>1, WithoutOne
<1>3. RemoveFrame(c, i) = SetMac(c, m)
  BY DEF RemoveFrame, SetMac, Without
<1> HIDE DEF m
<1>4. Safe(I, P, c, SetMac(c, m)) /\ SetMac(c, m).mac = m
  BY <1>2, SetMacSafe
<1>5. SetMac(c, m).send_queue = c.send_queue
  BY FieldTypes DEF SoundFields, SetMac
<1> QED  BY <1>2, <1>3, <1>4, <1>5

HeardAgain(c, i) == [c EXCEPT !.mac[i].heard = @ + 1]

LEMMA HeardAgainSafe ==
  ASSUME NEW I, NEW P, NEW c \in SoundConn(I, P), NEW i \in DOMAIN c.mac
  PROVE  Safe(I, P, c, HeardAgain(c, i)) /\ Quiet(c, HeardAgain(c, i))
<1> DEFINE f == [c.mac[i] EXCEPT !.heard = @ + 1]
           m == [c.mac EXCEPT ![i] = f]
<1>1. /\ c.mac \in Seq(SentFrame(I, P))
      /\ i \in 1..Len(c.mac)
      /\ c.mac[i] \in SentFrame(I, P)
  BY FieldTypes
<1>2. /\ f.type = c.mac[i].type /\ f.flags = c.mac[i].flags
      /\ f.packet = c.mac[i].packet /\ f.dst = c.mac[i].dst
      /\ f.rtmetric = c.mac[i].rtmetric
  BY <1>1 DEF SentFrame, SoundFrame, Frame
<1>3. f \in SentFrame(I, P)
  <2>1. c.mac[i] \in SoundFrame(I)
    BY <1>1 DEF SentFrame
  <2>2. c.mac[i] \in Frame /\ c.mac[i].heard + 1 \in Nat
    BY <2>1, FrameFields
  <2>3. f \in Frame
    BY <2>2, Zenon DEF Frame
  <2> HIDE DEF f
  <2> QED  BY <1>1, <1>2, <2>3 DEF SentFrame, SoundFrame
<1>4. HeardAgain(c, i) = SetMac(c, m)
  BY <1>1, FieldTypes DEF SoundFields, HeardAgain, SetMac
<1> HIDE DEF f
<1>5. m \in Seq(SentFrame(I, P)) /\ Len(m) = Len(c.mac)
  BY <1>1, <1>3
<1>6. ASSUME NEW g \in Range(m)
      PROVE  \E h \in Range(c.mac) :
               g.type = h.type /\ g.flags = h.flags /\ g.packet = h.packet
  <2>1. PICK j \in DOMAIN m : g = m[j]
    BY DEF Range
  <2>2. j \in DOMAIN c.mac /\ c.mac[j] \in Range(c.mac)
    BY <1>1, <2>1 DEF Range
  <2>3. g.type = c.mac[j].type /\ g.flags = c.mac[j].flags /\ g.packet = c.mac[j].packet
    BY <1>2, <2>1, <2>2
  <2> QED  BY <2>2, <2>3
<1> HIDE DEF m
<1>7. Safe(I, P, c, SetMac(c, m)) /\ SetMac(c, m).mac = m
  BY <1>5, <1>6, SetMacSafe
<1>8. Quiet(c, SetMac(c, m))
  <2>1. ASSUME NEW g \in Range(m)
        PROVE  \E h \in Range(c.mac) : g = [h EXCEPT !.heard = g.heard]
    <3>1. PICK j \in DOMAIN m : g = m[j]
      BY DEF Range
    <3>2. j \in DOMAIN c.mac /\ c.mac[j] \in Range(c.mac) /\ c.mac[j] \in SentFrame(I, P)
      BY <1>1, <3>1 DEF Range, m
    <3>3. c.mac[j] \in Frame
      BY <3>2 DEF SentFrame, SoundFrame
    <3>4. g = c.mac[j] \/ g = f
      BY <1>1, <3>1, <3>2 DEF m
    <3>5. CASE g = c.mac[j]
      BY <3>2, <3>3, <3>5 DEF Frame
    <3>6. CASE g = f
      <4>1. c.mac[i] \in Range(c.mac) /\ c.mac[i] \in Frame
        BY <1>1 DEF Range, SentFrame, SoundFrame
      <4>2. f = [c.mac[i] EXCEPT !.heard = f.heard]
        BY <4>1 DEF Frame, f
      <4> QED  BY <3>6, <4>1, <4>2
    <3> QED  BY <3>4, <3>5, <3>6
  <2> QED  BY <1>7, <2>1 DEF Quiet
<1> QED  BY <1>4, <1>7, <1>8

\* Who may announce a rank, and who hears it.
LEMMA PlaceOf ==
  ASSUME NEW s, NEW n \in Node
  PROVE  /\ (n \in s.routers) \in Routing(Place(s, n))
         /\ n = Sink \/ ~ Lasting(s) => Place(s, n).router
<1>1. Place(s, n).router = (~ Lasting(s) \/ n \in s.routers \cup {Sink})
  BY DEF Place
<1>2. (n \in s.routers) \in BOOLEAN
  OBVIOUS
<1>3. n \in s.routers \/ n = Sink \/ ~ Lasting(s) => Place(s, n).router
  BY <1>1, Zenon
<1> QED  BY <1>2, <1>3, Zenon DEF Routing

LEMMA HeardBy ==
  ASSUME NEW s, NEW n \in Node, NEW m \in Node, <<n, m>> \in s.link,
         Place(s, n).router
  PROVE  n \in Parents(Place(s, m)) \/ (Lasting(s) /\ m = Sink)
<1>1. CASE ~ Lasting(s)
  BY <1>1 DEF Place, Parents
<1>2. CASE Lasting(s) /\ m # Sink
  <2>1. n \in s.routers \cup {Sink}
    BY <1>2 DEF Place
  <2> QED  BY <1>2, <2>1 DEF Place, Parents
<1> QED  BY <1>1, <1>2

LEMMA OpenedSound ==
  ASSUME setup \in Setups, NEW n \in Node, NEW I, NEW P,
         (n \in setup.routers) \in Routing(P), n = Sink => P.router
  PROVE  LET c == Opened(n)
         IN  /\ c \in SoundConn(I, P) /\ Reserved(c) /\ Armed(c)
             /\ c.addr = n /\ c.is_open /\ c.eseqno = 0 /\ c.sent = 0
             /\ c.mac = <<>> /\ c.recent_packets = <<>> /\ c.received = <<>>
             /\ n = Sink => HonestSink(c)
<1> DEFINE o == libp_open(n, n \in setup.routers)
           e == libp_set_sink(o, TRUE)
<1>1. (n \in setup.routers) \in Routing(P)
  OBVIOUS
<1>2. /\ o \in SoundConn(I, P) /\ Reserved(o) /\ ~ o.sending
      /\ o.addr = n /\ o.is_open /\ o.eseqno = 0 /\ o.sent = 0
      /\ o.send_queue = <<>> /\ o.mac = <<>>
      /\ o.recent_packets = <<>> /\ o.received = <<>>
  BY <1>1, OpenSound
<1> HIDE DEF o
<1> DEFINE SinkFrom(d) ==
      /\ d \in SoundConn(I, P) /\ Reserved(d)
      /\ d.addr = n /\ d.is_open /\ d.eseqno = 0 /\ d.sent = 0
      /\ d.mac = <<>> /\ d.recent_packets = <<>> /\ d.received = <<>>
      /\ d.rtmetric = RTMETRIC_SINK /\ ~ d.sending
<1>3. ASSUME n = Sink, NEW b \in BOOLEAN
      PROVE  b => SinkFrom(libp_set_sink(o, b))
  <2> DEFINE d == libp_set_sink(o, b)
  <2>1. /\ d \in SoundConn(I, P)
        /\ d.addr = o.addr /\ d.is_open = o.is_open
        /\ d.eseqno = o.eseqno /\ d.sent = o.sent
        /\ d.recent_packets = o.recent_packets /\ d.received = o.received
        /\ Reserved(o) => Reserved(d)
        /\ b => d.rtmetric = RTMETRIC_SINK /\ d.mac = o.mac /\ d.sending = o.sending
    <3>1. P.router /\ o \in SoundConn(I, P)
      BY <1>2, <1>3
    <3> QED  BY ONLY <3>1, b \in BOOLEAN, SetSinkSound
  <2> HIDE DEF d
  <2>2. b => SinkFrom(d)
    BY <1>2, <2>1
  <2> QED  BY <2>2 DEF d
<1>4. n = Sink => SinkFrom(e)
  <2> HIDE DEF SinkFrom
  <2> QED  BY <1>3, Zenon
<1> DEFINE c == Opened(n)
<1>5. c = IF n = Sink THEN e ELSE o
  BY DEF o, Opened
<1> HIDE DEF c, e
<1>6. n = Sink => HonestSink(e)
  BY <1>4 DEF HonestSink, Range
<1> QED  BY <1>2, <1>4, <1>5, <1>6 DEF Armed, c

LEMMA InitInv == Init => Inv
<1> SUFFICES ASSUME Init PROVE Inv
  OBVIOUS
<1>1. setup \in Setups /\ left = setup.bound /\ conn = [n \in Node |-> Opened(n)]
  BY DEF Init
<1>2. left \in Bounds /\ left.fault \in Nat
  BY <1>1, SetupFields DEF Bounds
<1>3. ASSUME NEW n \in Node
      PROVE  NodeInv(setup, n, Opened(n), left)
  <2> DEFINE c == Opened(n)
  <2>1. /\ c \in SoundConn(Ids(setup), Place(setup, n)) /\ Reserved(c) /\ Armed(c)
        /\ c.addr = n /\ c.is_open /\ c.eseqno = 0 /\ c.sent = 0
        /\ n = Sink => HonestSink(c)
    BY <1>1, PlaceOf, OpenedSound
  <2> HIDE DEF c
  <2>2. c.sent + left.send <= setup.bound.send
    BY <1>1, <2>1, SetupFields
  <2>3. NodeInv(setup, n, c, left)
    BY <2>1, <2>2 DEF NodeInv
  <2> QED  BY <2>3 DEF c
<1>4. left.fault <= setup.bound.fault
  BY <1>1, <1>2
<1> QED  BY <1>1, <1>2, <1>3, <1>4 DEF Inv

-----------------------------------------------------------------------------
(* The steps of the network.                                               *)

Continues == Inv' /\ \A k \in Node : Quiet(conn[k], conn'[k])

LEMMA Spent ==
  ASSUME Inv, NEW what \in {"send", "probe", "fault"}, Spend(what)
  PROVE  /\ setup' = setup /\ left' \in Bounds
         /\ left'.fault <= left.fault /\ left'.send <= left.send
         /\ left[what] > 0 /\ left'[what] = left[what] - 1
<1>1. /\ left \in Bounds /\ left[what] > 0
      /\ left' = [left EXCEPT ![what] = @ - 1] /\ setup' = setup
  BY DEF Inv, Spend
<1>2. left.send \in Nat /\ left.probe \in Nat /\ left.fault \in Nat
  BY <1>1 DEF Bounds
<1>3. CASE what = "send"
  BY <1>1, <1>2, <1>3 DEF Bounds
<1>4. CASE what = "probe"
  BY <1>1, <1>2, <1>4 DEF Bounds
<1>5. CASE what = "fault"
  BY <1>1, <1>2, <1>5 DEF Bounds
<1> QED  BY <1>3, <1>4, <1>5

LEMMA Unspent ==
  ASSUME Inv, Free
  PROVE  /\ setup' = setup /\ left' \in Bounds /\ left' = left
         /\ left'.fault <= left.fault /\ left'.send <= left.send
BY DEF Inv, Free, Bounds

\* A step in which one node works on the packets of its own queue.
LEMMA ServesStep ==
  ASSUME Inv, NEW n \in Node, NEW d,
         Serves(Ids(setup), Place(setup, n), conn[n], d), Update(n, d),
         setup' = setup, left' \in Bounds,
         left'.fault <= left.fault, left'.send <= left.send
  PROVE  Continues
<1>1. /\ conn[n] \in SoundConn(Ids(setup), Place(setup, n))
      /\ NodeInv(setup, n, conn[n], left)
  BY DEF Inv, NodeInv
<1>2. NodeInv(setup, n, conn[n], left')
  BY <1>1, LessLeft DEF Inv
<1>3. Safe(Ids(setup), Place(setup, n), conn[n], d) /\ Quiet(conn[n], d)
  BY <1>1, ServesSafe, ServesQuiet
<1>4. NodeInv(setup, n, d, left')
  BY <1>2, <1>3, SafeStep
<1>5. conn' = [conn EXCEPT ![n] = d]
  BY DEF Update
<1> QED  BY <1>3, <1>4, <1>5, OneNode DEF Continues

LEMMA NodeSound ==
  ASSUME Inv, NEW n \in Node
  PROVE  /\ conn[n] \in SoundConn(Ids(setup), Place(setup, n))
         /\ NodeInv(setup, n, conn[n], left)
         /\ conn[n].addr = n
         /\ conn[n].mac \in Seq(SentFrame(Ids(setup), Place(setup, n)))
         /\ \A i \in OnAir(n) : /\ i \in DOMAIN conn[n].mac
                                /\ conn[n].mac[i] \in SoundFrame(Ids(setup))
<1>1. /\ conn[n] \in SoundConn(Ids(setup), Place(setup, n))
      /\ NodeInv(setup, n, conn[n], left)
  BY DEF Inv, NodeInv
<1>2. conn[n].mac \in Seq(SentFrame(Ids(setup), Place(setup, n)))
  BY <1>1, FieldTypes
<1>3. OnAir(n) \subseteq DOMAIN conn[n].mac
  BY DEF OnAir
<1> QED  BY <1>1, <1>2, <1>3 DEF NodeInv, SentFrame

LEMMA AnnouncedSound ==
  ASSUME Inv, NEW n \in Node, NEW m \in Node, Announce(n, m)
  PROVE  /\ Serves(Ids(setup), Place(setup, m), conn[m], Announced(n, m))
         /\ Stays(conn[m], Announced(n, m), {})
<1>1. /\ conn[n] \in SoundConn(Ids(setup), Place(setup, n))
      /\ conn[m] \in SoundConn(Ids(setup), Place(setup, m))
      /\ NodeInv(setup, m, conn[m], left)
  BY NodeSound
<1>2. conn[n].announcement \in 0..RankLimit-1 /\ Place(setup, n).router
  BY <1>1, FieldTypes DEF Announce, Announceable
<1>3. n \in Parents(Place(setup, m)) \/ conn[m].rtmetric = RTMETRIC_SINK
  <2>1. n \in Parents(Place(setup, m)) \/ (Lasting(setup) /\ m = Sink)
    BY <1>2, HeardBy DEF Announce, Hears
  <2> QED  BY <1>1, <2>1 DEF NodeInv, HonestSink
<1> DEFINE d == Announced(n, m)
<1>4. d = received_announcement(conn[m], n, conn[n].announcement)
  BY DEF Announced
<1>5. Stays(conn[m], received_announcement(conn[m], n, conn[n].announcement), {})
  BY <1>1, <1>2, <1>3, AnnouncementStays
<1> HIDE DEF d
<1>6. Serves(Ids(setup), Place(setup, m), conn[m], d)
  BY <1>1, <1>2, <1>3, <1>4, AnnouncementSound DEF Serves
<1> QED  BY <1>4, <1>5, <1>6 DEF d

LEMMA AnnounceStep ==
  ASSUME Inv, NEW n \in Node, NEW m \in Node, Announce(n, m)
  PROVE  Continues
<1>1. Serves(Ids(setup), Place(setup, m), conn[m], Announced(n, m))
  BY AnnouncedSound
<1>2. Update(m, Announced(n, m)) /\ Free
  BY DEF Announce
<1> QED  BY <1>1, <1>2, Unspent, ServesStep

LEMMA RetransmitStep ==
  ASSUME Inv, NEW n \in Node, Retransmit(n)
  PROVE  Continues
<1>1. conn[n] \in SoundConn(Ids(setup), Place(setup, n))
  BY NodeSound
<1>2. Serves(Ids(setup), Place(setup, n), conn[n], retransmit_callback(conn[n]))
  BY <1>1, RetransmitCallbackSound DEF Serves
<1>3. Update(n, retransmit_callback(conn[n])) /\ Free
  BY DEF Retransmit
<1> QED  BY <1>2, <1>3, Unspent, ServesStep

LEMMA NotSentStep ==
  ASSUME Inv, NEW n \in Node, NotSent(n)
  PROVE  Continues
<1>1. conn[n] \in SoundConn(Ids(setup), Place(setup, n))
  BY NodeSound
<1>2. Serves(Ids(setup), Place(setup, n), conn[n], retransmit_not_sent_callback(conn[n]))
  BY <1>1, NotSentCallbackSound
<1>3. Update(n, retransmit_not_sent_callback(conn[n])) /\ Free
  BY DEF NotSent
<1> QED  BY <1>2, <1>3, Unspent, ServesStep

LEMMA TableTickStep ==
  ASSUME Inv, NEW n \in Node, TableTick(n)
  PROVE  Continues
<1>1. conn[n] \in SoundConn(Ids(setup), Place(setup, n))
  BY NodeSound
<1>2. Serves(Ids(setup), Place(setup, n), conn[n], Tick(conn[n]))
  BY <1>1, TickSound
<1>3. Update(n, Tick(conn[n])) /\ Spend("fault")
  BY DEF TableTick, Fault
<1> QED  BY <1>2, <1>3, Spent, ServesStep

LEMMA ExpireStep ==
  ASSUME Inv, NEW n \in Node, NEW i \in DOMAIN conn[n].send_queue, ExpirePacket(n, i)
  PROVE  Continues
<1>1. conn[n] \in SoundConn(Ids(setup), Place(setup, n))
  BY NodeSound
<1>2. Serves(Ids(setup), Place(setup, n), conn[n], Expire(conn[n], i))
  BY <1>1, ExpireSound
<1>3. Update(n, Expire(conn[n], i)) /\ Spend("fault")
  BY DEF ExpirePacket, Fault
<1> QED  BY <1>2, <1>3, Spent, ServesStep

LEMMA PurgeStep ==
  ASSUME Inv, NEW n \in Node, Purge(n)
  PROVE  Continues
<1>1. conn[n] \in SoundConn(Ids(setup), Place(setup, n))
  BY NodeSound
<1>2. Serves(Ids(setup), Place(setup, n), conn[n], libp_purge(conn[n]))
  BY <1>1, LibpPurgeSound
<1>3. Update(n, libp_purge(conn[n])) /\ Spend("fault")
  BY DEF Purge, Fault
<1> QED  BY <1>2, <1>3, Spent, ServesStep

\* The sender still has the frame, the addressee has handled it.
LEMMA ReceiveStep ==
  ASSUME Inv, NEW n \in Node, NEW i \in OnAir(n), Receive(n, i)
  PROVE  Continues
<1> DEFINE I     == Ids(setup)
           P     == Place(setup, n)
           frame == conn[n].mac[i]
           m     == frame.dst
           Q     == Place(setup, m)
           a     == HeardAgain(conn[n], i)
<1>1. conn[n] \in SoundConn(I, P) /\ NodeInv(setup, n, conn[n], left)
  BY NodeSound
<1>2. frame \in SoundFrame(I) /\ i \in DOMAIN conn[n].mac
  BY NodeSound
<1>3. m \in Node /\ n # m /\ conn[m].is_open
  BY <1>2, FrameFields DEF Receive, Hears
<1>4. conn[m] \in SoundConn(I, Q) /\ NodeInv(setup, m, conn[m], left)
  BY <1>3, NodeSound
<1>5. PICK room \in setup.room :
        conn' = [conn EXCEPT ![n].mac[i].heard = @ + 1,
                             ![m] = node_packet_received(@, frame, room)]
  BY DEF Receive
<1> DEFINE d == node_packet_received(conn[m], frame, room)
<1>6. /\ conn' = [k \in Node |-> conn'[k]]
      /\ conn'[n] = a /\ conn'[m] = d
      /\ \A k \in Node : k # n /\ k # m => conn'[k] = conn[k]
  <2>1. conn = [k \in Node |-> conn[k]]
    BY DEF Inv
  <2>2. conn' = [[conn EXCEPT ![n] = a] EXCEPT ![m] = d]
    BY <1>3, <1>5, <2>1 DEF HeardAgain
  <2> HIDE DEF a, d, m
  <2> QED  BY <1>3, <2>1, <2>2
<1>7. NodeInv(setup, n, a, left) /\ Quiet(conn[n], a)
  <2>1. Safe(I, P, conn[n], a) /\ Quiet(conn[n], a)
    BY <1>1, <1>2, HeardAgainSafe
  <2> HIDE DEF a
  <2> QED  BY <1>1, <2>1, SafeStep
<1>8. NodeInv(setup, m, d, left) /\ Quiet(conn[m], d)
  <2> HIDE DEF m, frame
  <2>1. Answers(I, Q, conn[m], d)
    BY <1>2, <1>4, PacketReceivedSound
  <2>2. Lasting(setup) /\ HonestSink(conn[m]) => HonestSink(d)
    <3>1. Lasting(setup) => I \subseteq TrueIds
      BY IdsArePackets
    <3> HIDE DEF I, Q
    <3> QED  BY <1>2, <1>4, <3>1, PacketReceivedHonest
  <2> HIDE DEF d
  <2>3. Quiet(conn[m], d)
    BY <1>3 DEF Quiet
  <2> QED  BY <1>3, <1>4, <2>1, <2>2, <2>3, AnswersStep
<1>9. Free
  BY DEF Receive
<1>10. /\ setup' = setup /\ left' \in Bounds /\ left' = left
       /\ left'.fault <= left.fault /\ left'.send <= left.send
  BY <1>9, Unspent
<1> HIDE DEF a, d, m
<1>11. \A k \in Node : \/ conn'[k] = conn[k]
                       \/ /\ NodeInv(setup, k, conn'[k], left')
                          /\ Quiet(conn[k], conn'[k])
  BY <1>6, <1>7, <1>8, <1>10
<1> QED  BY <1>6, <1>10, <1>11, SomeNodes DEF Continues

\* A frame leaves the stack, and the node may act on that.
LEMMA FrameLeaves ==
  ASSUME Inv, NEW n \in Node, NEW i \in OnAir(n), NEW d,
         Serves(Ids(setup), Place(setup, n), RemoveFrame(conn[n], i), d),
         NEW l \in Bounds, l.fault <= left.fault, l.send <= left.send
  PROVE  NodeInv(setup, n, d, l) /\ Quiet(conn[n], d)
<1> DEFINE I == Ids(setup)
           P == Place(setup, n)
           r == RemoveFrame(conn[n], i)
<1>1. /\ conn[n] \in SoundConn(I, P) /\ NodeInv(setup, n, conn[n], left)
      /\ i \in DOMAIN conn[n].mac
  BY NodeSound
<1>2. /\ Safe(I, P, conn[n], r) /\ r.mac \in Seq(SentFrame(I, P))
      /\ Range(r.mac) \subseteq Range(conn[n].mac) /\ r.send_queue = conn[n].send_queue
  BY <1>1, RemoveFrameSafe
<1> HIDE DEF r
<1>3. r \in SoundConn(I, P) /\ Serves(I, P, r, d)
  BY <1>2 DEF Safe, Answers, r
<1>4. /\ Safe(I, P, r, d)
      /\ d \in SoundConn(I, P)
      /\ SentFrom(conn[n].send_queue, r.mac, d.mac)
  BY <1>2, <1>3, ServesSafe DEF Serves, Handled
<1>5. Safe(I, P, conn[n], d)
  BY <1>1, <1>2, <1>4, SafeTrans
<1>6. Quiet(conn[n], d)
  BY <1>1, <1>2, <1>4, SentQuiet
<1>7. NodeInv(setup, n, conn[n], l)
  BY <1>1, LessLeft DEF Inv
<1> QED  BY <1>5, <1>6, <1>7, SafeStep

LEMMA ReportStep ==
  ASSUME Inv, NEW n \in Node, NEW i \in OnAir(n), Report(n, i)
  PROVE  Continues
<1> DEFINE frame == conn[n].mac[i]
           r == RemoveFrame(conn[n], i)
<1>1. PICK t \in 1..frame.tries : Update(n, node_packet_sent(r, frame, t))
  BY DEF Report
<1> DEFINE d == node_packet_sent(r, frame, t)
<1>2. Serves(Ids(setup), Place(setup, n), r, d)
  <2>1. r \in SoundConn(Ids(setup), Place(setup, n))
    BY NodeSound, RemoveFrameSafe DEF Safe, Answers
  <2>2. t \in Nat
    <3>1. frame \in SoundFrame(Ids(setup))
      BY NodeSound
    <3>2. frame.tries \in 0..31
      BY <3>1, FrameFields
    <3> QED  BY <3>2
  <2> HIDE DEF r, frame
  <2> QED  BY <2>1, <2>2, PacketSentSound
<1>3. Free /\ Update(n, d)
  BY <1>1 DEF Report
<1>4. /\ setup' = setup /\ left' \in Bounds
      /\ left'.fault <= left.fault /\ left'.send <= left.send
  BY <1>3, Unspent
<1> HIDE DEF d
<1>5. NodeInv(setup, n, d, left') /\ Quiet(conn[n], d)
  BY <1>2, <1>4, FrameLeaves
<1>6. conn' = [conn EXCEPT ![n] = d]
  BY <1>3 DEF Update
<1> QED  BY <1>4, <1>5, <1>6, OneNode DEF Continues

LEMMA SilentStep ==
  ASSUME Inv, NEW n \in Node, NEW i \in OnAir(n), Silent(n, i)
  PROVE  Continues
<1> DEFINE d == RemoveFrame(conn[n], i)
<1>1. d \in SoundConn(Ids(setup), Place(setup, n))
  BY NodeSound, RemoveFrameSafe DEF Safe, Answers
<1>2. Serves(Ids(setup), Place(setup, n), d, d)
  BY <1>1, ServesSame
<1>3. Spend("fault") /\ Update(n, d)
  BY DEF Silent, Fault
<1>4. /\ setup' = setup /\ left' \in Bounds
      /\ left'.fault <= left.fault /\ left'.send <= left.send
  BY <1>3, Spent
<1>5. NodeInv(setup, n, d, left') /\ Quiet(conn[n], d)
  BY <1>2, <1>4, FrameLeaves
<1>6. conn' = [conn EXCEPT ![n] = d]
  BY <1>3 DEF Update
<1> HIDE DEF d
<1> QED  BY <1>4, <1>5, <1>6, OneNode DEF Continues

LEMMA ProbeStep ==
  ASSUME Inv, NEW n \in Node, Probe(n)
  PROVE  Continues
<1> DEFINE c == conn[n]
<1>1. PICK room \in setup.room : Update(n, proactive_probing_callback(c, room))
  BY DEF Probe
<1> DEFINE d == proactive_probing_callback(c, room)
<1>2. c \in SoundConn(Ids(setup), Place(setup, n)) /\ NodeInv(setup, n, c, left)
  BY NodeSound
<1>3. /\ Answers(Ids(setup), Place(setup, n), c, d)
      /\ d.recent_packets = c.recent_packets /\ d.received = c.received
      /\ c.rtmetric = RTMETRIC_SINK => d = c
      /\ \A i \in 1..Len(c.mac) : d.mac[i] = c.mac[i]
      /\ (\A p \in Range(c.send_queue) : p.probe) =>
           /\ \A p \in Range(d.send_queue) : p.probe
           /\ \A i \in Len(c.mac)+1..Len(d.mac) : d.mac[i].packet.probe
  <2> HIDE DEF c
  <2> QED  BY <1>2, ProbeSound
<1>4. /\ setup' = setup /\ left' \in Bounds
      /\ left'.fault <= left.fault /\ left'.send <= left.send
  <2>1. Spend("probe")
    BY DEF Probe
  <2> QED  BY <2>1, Spent
<1>5. conn' = [conn EXCEPT ![n] = d]
  BY <1>1 DEF Update
<1> HIDE DEF d
<1>6. Quiet(c, d)
  <2>1. /\ c.mac \in Seq(SentFrame(Ids(setup), Place(setup, n)))
        /\ d.mac \in Seq(SentFrame(Ids(setup), Place(setup, n)))
    BY <1>2, <1>3, FieldTypes DEF Answers
  <2>2. OnlyProbes(c) => \A f \in Range(d.mac) : f.packet.probe \/ f \in Range(c.mac)
    <3> SUFFICES ASSUME OnlyProbes(c), NEW f \in Range(d.mac)
                 PROVE  f.packet.probe \/ f \in Range(c.mac)
      OBVIOUS
    <3>1. PICK i \in 1..Len(d.mac) : f = d.mac[i]
      BY <2>1 DEF Range
    <3>2. CASE i \in 1..Len(c.mac)
      BY <1>3, <2>1, <3>1, <3>2 DEF Range
    <3>3. CASE i \in Len(c.mac)+1..Len(d.mac)
      BY <1>3, <3>1, <3>3 DEF OnlyProbes
    <3>4. Len(c.mac) \in Nat /\ Len(d.mac) \in Nat
      BY <2>1
    <3> QED  BY <3>2, <3>3, <3>4
  <2> QED  BY <1>2, <2>2, QuietFrom
<1>7. NodeInv(setup, n, c, left')
  BY <1>2, <1>4, LessLeft DEF Inv
<1>8. HonestSink(c) => HonestSink(d)
  BY <1>3 DEF HonestSink
<1>9. ~ c.is_open => OnlyProbes(d)
  BY <1>2, <1>3 DEF NodeInv, OnlyProbes
<1>10. NodeInv(setup, n, d, left')
  BY <1>3, <1>7, <1>8, <1>9, AnswersStep
<1> QED  BY <1>4, <1>5, <1>6, <1>10, OneNode DEF Continues

\* The packet has the next of the true identities, until eseqno wraps.
LEMMA SendId ==
  ASSUME Inv, NEW n \in Node, left.send > 0
  PROVE  <<conn[n].addr, conn[n].eseqno, conn[n].sent + 1>> \in Ids(setup)
<1> DEFINE c == conn[n]
<1>1. /\ c \in SoundConn(Ids(setup), Place(setup, n)) /\ NodeInv(setup, n, c, left)
  BY NodeSound
<1>2. c.addr \in Node /\ c.eseqno \in 0..UINT8-1 /\ c.sent \in Nat
  BY <1>1, FieldTypes
<1>3. <<c.addr, c.eseqno, c.sent + 1>> \in PacketId
  BY <1>2 DEF PacketId
<1>4. CASE Lasting(setup)
  <2>1. setup.bound.send \in Nat /\ left.send \in Nat
    BY SetupFields DEF Inv, Bounds
  <2>2. c.sent + left.send <= setup.bound.send /\ (c.sent < UINT8 => c.eseqno = c.sent)
    BY <1>1, <1>4 DEF NodeInv
  <2>3. setup.bound.send <= UINT8
    BY <1>4 DEF Lasting
  <2>4. UINT8 \in Nat
    BY Numbers
  <2>5. c.eseqno = c.sent
    BY <1>2, <2>1, <2>2, <2>3, <2>4
  <2>6. c.eseqno = (c.sent + 1) - 1
    BY <1>2, <2>5
  <2> HIDE DEF c
  <2> DEFINE id == <<c.addr, c.eseqno, c.sent + 1>>
  <2>7. id[2] = id[3] - 1
    BY <2>6
  <2> HIDE DEF id
  <2>8. id \in TrueIds
    BY <1>3, <2>7 DEF TrueIds, id
  <2> QED  BY <1>4, <2>8 DEF Ids, id, c
<1>5. CASE ~ Lasting(setup)
  BY <1>3, <1>5 DEF Ids
<1> QED  BY <1>4, <1>5

LEMMA NextEseqno ==
  ASSUME NEW k \in Nat, k + 1 < UINT8
  PROVE  (IF k = UINT8 - 1 THEN UINT8 \div 2 ELSE k + 1) = k + 1
BY Numbers

LEMMA SendStep ==
  ASSUME Inv, NEW n \in Node, Send(n)
  PROVE  Continues
<1> DEFINE c == conn[n]
           I == Ids(setup)
           P == Place(setup, n)
           a == Counted(c)
<1>1. PICK rexmits \in setup.rexmits, room \in setup.room :
        Update(n, libp_send(c, rexmits, room))
  BY DEF Send
<1> DEFINE d == libp_send(c, rexmits, room)
<1>2. c \in SoundConn(I, P) /\ NodeInv(setup, n, c, left) /\ c.is_open
  BY NodeSound DEF Send
<1>3. /\ setup' = setup /\ left' \in Bounds
      /\ left'.fault <= left.fault /\ left'.send <= left.send
      /\ left.send > 0 /\ left'.send = left.send - 1
  <2>1. Spend("send")
    BY DEF Send
  <2>2. /\ setup' = setup /\ left' \in Bounds
        /\ left'.fault <= left.fault /\ left'.send <= left.send
        /\ left["send"] > 0 /\ left'["send"] = left["send"] - 1
    BY <2>1, Spent
  <2> QED  BY <2>2
<1>4. <<c.addr, c.eseqno, c.sent + 1>> \in I
  BY <1>3, SendId
<1>5. rexmits \in 1..MAX_REXMITS
  BY SetupFields DEF Inv
<1>6. Answers(I, P, a, d) /\ (HonestSink(c) => HonestSink(d))
  <2> HIDE DEF c, a, I, P
  <2> QED  BY <1>2, <1>4, <1>5, SendSound DEF a
<1>7. /\ a \in SoundConn(I, P)
      /\ a.addr = c.addr /\ a.is_sink = c.is_sink /\ a.is_open = c.is_open
      /\ a.eseqno = (IF c.eseqno = UINT8 - 1 THEN UINT8 \div 2 ELSE c.eseqno + 1)
      /\ a.sent = c.sent + 1
      /\ a.rtmetric = c.rtmetric /\ a.send_queue = c.send_queue
      /\ a.recent_packets = c.recent_packets /\ a.received = c.received
      /\ a.mac = c.mac
      /\ Armed(c) => Armed(a)
  <2> HIDE DEF c, a, I, P
  <2> QED  BY <1>2, CountedSound DEF a
<1>8. conn' = [conn EXCEPT ![n] = d]
  BY <1>1 DEF Update
<1> HIDE DEF a, d
<1>9. NodeInv(setup, n, a, left')
  <2>1. Lasting(setup) => /\ a.sent + left'.send <= setup.bound.send
                          /\ a.sent < UINT8 => a.eseqno = a.sent
    <3> SUFFICES ASSUME Lasting(setup)
                 PROVE  /\ a.sent + left'.send <= setup.bound.send
                        /\ a.sent < UINT8 => a.eseqno = a.sent
      OBVIOUS
    <3>1. /\ c.sent + left.send <= setup.bound.send
          /\ c.sent < UINT8 => c.eseqno = c.sent
      BY <1>2 DEF NodeInv
    <3>2. c.sent \in Nat /\ left.send \in Nat /\ UINT8 \in Nat
      BY <1>2, FieldTypes, Numbers DEF Inv, Bounds
    <3>3. a.sent + left'.send = c.sent + left.send
      BY <1>3, <1>7, <3>2
    <3>4. ASSUME a.sent < UINT8 PROVE a.eseqno = a.sent
      <4>1. c.sent < UINT8 /\ c.sent + 1 < UINT8
        BY <1>7, <3>2, <3>4
      <4>2. c.eseqno = c.sent
        BY <3>1, <4>1
      <4>3. (IF c.sent = UINT8 - 1 THEN UINT8 \div 2 ELSE c.sent + 1) = c.sent + 1
        BY <3>2, <4>1, NextEseqno
      <4> HIDE DEF c
      <4> QED  BY <1>7, <4>2, <4>3
    <3> QED  BY <3>1, <3>3, <3>4
  <2>2. NodeInv(setup, n, c, left')
    BY <1>2, <1>3, LessLeft DEF Inv
  <2>3. HonestSink(c) => HonestSink(a)
    BY <1>7 DEF HonestSink
  <2>4. Reserved(c) => Reserved(a)
    BY <1>7 DEF Reserved
  <2> HIDE DEF c
  <2> QED  BY <1>2, <1>7, <2>1, <2>2, <2>3, <2>4 DEF NodeInv
<1>10. NodeInv(setup, n, d, left')
  <2>1. Lasting(setup) /\ HonestSink(a) => HonestSink(d)
    BY <1>6, <1>7 DEF HonestSink
  <2>2. a.is_open
    BY <1>2, <1>7
  <2> QED  BY <1>6, <1>9, <2>1, <2>2, AnswersStep
<1>11. Quiet(conn[n], d)
  BY <1>2 DEF Quiet
<1> QED  BY <1>3, <1>8, <1>10, <1>11, OneNode DEF Continues

LEMMA FaultSpent ==
  ASSUME Inv, NEW kind, Fault(kind)
  PROVE  /\ kind \in setup.faults /\ setup' = setup /\ left' \in Bounds
         /\ left'.fault <= left.fault /\ left'.send <= left.send
         /\ left.fault > 0 /\ left'.fault = left.fault - 1
<1>1. kind \in setup.faults /\ Spend("fault")
  BY DEF Fault
<1>2. /\ setup' = setup /\ left' \in Bounds
      /\ left'.fault <= left.fault /\ left'.send <= left.send
      /\ left["fault"] > 0 /\ left'["fault"] = left["fault"] - 1
  BY <1>1, Spent
<1> QED  BY <1>1, <1>2

LEMMA SetSinkStep ==
  ASSUME Inv, NEW n \in Node, NEW b \in BOOLEAN, SetSink(n, b)
  PROVE  Continues
<1> DEFINE c == conn[n]
           d == libp_set_sink(c, b)
           I == Ids(setup)
           P == Place(setup, n)
<1>1. c \in SoundConn(I, P) /\ NodeInv(setup, n, c, left)
  BY NodeSound
<1>2. /\ "sink" \in setup.faults /\ setup' = setup /\ left' \in Bounds
      /\ left'.fault <= left.fault /\ left'.send <= left.send
      /\ left.fault > 0 /\ left'.fault = left.fault - 1
  BY FaultSpent DEF SetSink
<1>3. ~ Lasting(setup) /\ P.router
  BY <1>2, PlaceOf DEF Lasting
<1>4. conn' = [conn EXCEPT ![n] = d]
  BY DEF SetSink, Update
<1> HIDE DEF c
<1>5. /\ d \in SoundConn(I, P)
      /\ d.addr = c.addr /\ d.is_open = c.is_open
      /\ Range(d.send_queue) \subseteq Range(c.send_queue)
      /\ SentFrom(c.send_queue, c.mac, d.mac)
      /\ Reserved(c) => Reserved(d)
      /\ b => d.rtmetric = RTMETRIC_SINK
      /\ ~ b => (Armed(c) => Armed(d))
  BY <1>1, <1>3, SetSinkSound
<1> HIDE DEF d
<1>6. Quiet(c, d)
  <2>1. c.mac \in Seq(SentFrame(I, P)) /\ Range(c.mac) \subseteq Range(c.mac)
    BY <1>1, FieldTypes
  <2> QED  BY <1>1, <1>5, <2>1, SentQuiet
<1>7. SinkForGood(setup) => Armed(d) \/ (d.rtmetric = RTMETRIC_SINK /\ left'.fault = 0)
  <2> SUFFICES ASSUME SinkForGood(setup)
               PROVE  Armed(d) \/ (d.rtmetric = RTMETRIC_SINK /\ left'.fault = 0)
    OBVIOUS
  <2>1. /\ setup.bound.fault <= 1 /\ left.fault <= setup.bound.fault
        /\ left.fault \in Nat /\ setup.bound.fault \in Nat
    BY <1>2, SetupFields DEF SinkForGood, Inv, Bounds
  <2>2. left.fault = 1 /\ left'.fault = 0
    BY <1>2, <2>1
  <2>3. Armed(c)
    BY <1>1, <2>2 DEF NodeInv
  <2> QED  BY <1>5, <2>2, <2>3
<1>8. NodeInv(setup, n, d, left')
  BY <1>1, <1>3, <1>5, <1>7 DEF NodeInv, OnlyProbes
<1> QED  BY <1>2, <1>4, <1>6, <1>8, OneNode DEF Continues, c

LEMMA CloseStep ==
  ASSUME Inv, NEW n \in Node, Close(n)
  PROVE  Continues
<1> DEFINE c == conn[n]
           d == libp_close(c)
           I == Ids(setup)
           P == Place(setup, n)
<1>1. c \in SoundConn(I, P) /\ NodeInv(setup, n, c, left) /\ c.is_open
  BY NodeSound DEF Close
<1>2. /\ setup' = setup /\ left' \in Bounds
      /\ left'.fault <= left.fault /\ left'.send <= left.send
  BY FaultSpent DEF Close
<1>3. conn' = [conn EXCEPT ![n] = d]
  BY DEF Close, Update
<1>4. NodeInv(setup, n, c, left')
  BY <1>1, <1>2, LessLeft DEF Inv
<1> HIDE DEF c
<1>5. /\ d \in SoundConn(I, P) /\ Reserved(d) /\ (Armed(c) => Armed(d))
      /\ d.addr = c.addr /\ d.eseqno = c.eseqno /\ d.sent = c.sent
      /\ d.rtmetric = c.rtmetric /\ d.mac = c.mac
      /\ d.recent_packets = c.recent_packets /\ d.received = c.received
      /\ d.send_queue = <<>>
  BY <1>1, CloseSound
<1> HIDE DEF d
<1>6. Quiet(c, d)
  BY <1>1 DEF Quiet
<1>7. OnlyProbes(d)
  BY <1>5 DEF OnlyProbes, Range
<1>8. NodeInv(setup, n, d, left')
  BY <1>4, <1>5, <1>7 DEF NodeInv, HonestSink
<1> QED  BY <1>2, <1>3, <1>6, <1>8, OneNode DEF Continues, c

LEMMA RebootStep ==
  ASSUME Inv, NEW n \in Node, Reboot(n)
  PROVE  Continues
<1> DEFINE c == conn[n]
           o == Opened(n)
           d == [o EXCEPT !.sent = c.sent, !.dropped = c.dropped,
                          !.received = c.received]
           I == Ids(setup)
           P == Place(setup, n)
<1>1. c \in SoundConn(I, P)
  BY NodeSound
<1>2. /\ "reboot" \in setup.faults /\ setup' = setup /\ left' \in Bounds
      /\ left'.fault <= left.fault /\ left'.send <= left.send
  BY FaultSpent DEF Reboot
<1>3. ~ Lasting(setup)
  BY <1>2 DEF Lasting
<1>4. conn' = [conn EXCEPT ![n] = d]
  BY DEF Reboot, Update
<1>5. /\ o \in SoundConn(I, P) /\ Reserved(o) /\ Armed(o)
      /\ o.addr = n /\ o.is_open /\ o.mac = <<>>
  <2>1. setup \in Setups
    BY DEF Inv
  <2> QED  BY <2>1, PlaceOf, OpenedSound
<1>6. c.sent \in Nat /\ c.dropped \in SUBSET PacketId /\ c.received \in Seq(I)
  BY <1>1, FieldTypes
<1> HIDE DEF c, o, I, P
<1>7. o \in SoundFields(I, P)
  BY <1>5, FieldTypes
<1>8. d \in SoundFields(I, P)
  BY <1>6, <1>7, Zenon DEF SoundFields
<1>9. /\ d.addr = o.addr /\ d.is_open = o.is_open /\ d.mac = o.mac
      /\ d.is_sink = o.is_sink /\ d.rtmetric = o.rtmetric
      /\ d.send_queue = o.send_queue /\ d.sending = o.sending
      /\ d.retransmission_timer = o.retransmission_timer
  BY <1>7 DEF SoundFields
<1> HIDE DEF d
<1>10. d \in SoundConn(I, P)
  BY <1>5, <1>8, <1>9, FieldTypes DEF SoundConn
<1>11. Reserved(d) /\ Armed(d)
  BY <1>5, <1>9 DEF Reserved, Armed
<1>12. Quiet(c, d)
  BY <1>5, <1>9 DEF Quiet, Range
<1>13. NodeInv(setup, n, d, left')
  BY <1>3, <1>5, <1>9, <1>10, <1>11 DEF NodeInv, I, P
<1> QED  BY <1>2, <1>4, <1>12, <1>13, OneNode DEF Continues, c

LEMMA NextStep ==
  ASSUME Inv, [Next]_vars
  PROVE  Continues
<1>1. CASE UNCHANGED vars
  <2>1. Inv'
    BY <1>1 DEF Inv, vars
  <2>2. ASSUME NEW k \in Node PROVE Quiet(conn[k], conn'[k])
    <3>1. conn[k] \in SoundConn(Ids(setup), Place(setup, k))
      BY NodeSound
    <3> QED  BY <1>1, <3>1, QuietFrom DEF vars
  <2> QED  BY <2>1, <2>2 DEF Continues
<1>2. ASSUME NEW n \in Node, NEW i \in OnAir(n), Receive(n, i) PROVE Continues
  BY <1>2, ReceiveStep
<1>3. ASSUME NEW n \in Node, NEW i \in OnAir(n), Report(n, i) PROVE Continues
  BY <1>3, ReportStep
<1>4. ASSUME NEW n \in Node, NEW i \in OnAir(n), Silent(n, i) PROVE Continues
  BY <1>4, SilentStep
<1>5. ASSUME NEW n \in Node, NEW m \in Node, Announce(n, m) PROVE Continues
  BY <1>5, AnnounceStep
<1>6. ASSUME NEW n \in Node, Retransmit(n) PROVE Continues
  BY <1>6, RetransmitStep
<1>7. ASSUME NEW n \in Node, NotSent(n) PROVE Continues
  BY <1>7, NotSentStep
<1>8. ASSUME NEW n \in Node, Probe(n) PROVE Continues
  BY <1>8, ProbeStep
<1>9. ASSUME NEW n \in Node, TableTick(n) PROVE Continues
  BY <1>9, TableTickStep
<1>10. ASSUME NEW n \in Node, NEW i \in DOMAIN conn[n].send_queue, ExpirePacket(n, i)
       PROVE  Continues
  BY <1>10, ExpireStep
<1>11. ASSUME NEW n \in Node, Send(n) PROVE Continues
  BY <1>11, SendStep
<1>12. ASSUME NEW n \in Node, Purge(n) PROVE Continues
  BY <1>12, PurgeStep
<1>13. ASSUME NEW n \in Node, NEW b \in BOOLEAN, SetSink(n, b) PROVE Continues
  BY <1>13, SetSinkStep
<1>14. ASSUME NEW n \in Node, Close(n) PROVE Continues
  BY <1>14, CloseStep
<1>15. ASSUME NEW n \in Node, Reboot(n) PROVE Continues
  BY <1>15, RebootStep
<1> QED  BY <1>1, <1>2, <1>3, <1>4, <1>5, <1>6, <1>7, <1>8, <1>9, <1>10, <1>11,
            <1>12, <1>13, <1>14, <1>15 DEF Next

-----------------------------------------------------------------------------
(* The theorems.                                                           *)

\* Inv holds in every state: the rest of this module follows from it.
THEOREM Invariance == Spec => []Inv
<1>1. Init => Inv
  BY InitInv
<1>2. Inv /\ [Next]_vars => Inv'
  BY NextStep DEF Continues
<1> QED  BY <1>1, <1>2, PTL DEF Spec

\* Every field of every connection and frame stays in the type the code gives
\* it: no counter, sequence number, rank or 4-bit field leaves its range.
THEOREM TypeCorrect == Spec => []TypeOK
<1>1. Inv => TypeOK
  <2> SUFFICES ASSUME Inv PROVE TypeOK
    OBVIOUS
  <2>1. \A n \in Node : conn[n] \in Conn
    BY IdsArePackets, SoundIsConn DEF Inv, NodeInv
  <2>2. conn \in [Node -> Conn]
    BY <2>1 DEF Inv
  <2> QED  BY <2>2 DEF Inv, TypeOK, Bounds
<1> QED  BY <1>1, Invariance, PTL

\* The ranks of update_rtmetric() do not wrap, and none but a sink's is better
\* than one link (libp.c:1057-1064).
THEOREM RanksBounded == Spec => []RankBound
<1>1. Inv => RankBound
  <2> SUFFICES ASSUME Inv, NEW n \in Node
               PROVE  /\ conn[n].rtmetric < RTMETRIC_MAX + SIGNIFICANT_RTMETRIC_PARENT_CHANGE
                      /\ conn[n].rtmetric < LIBP_LINK_METRIC_UNIT => conn[n].is_sink
    BY DEF RankBound
  <2>1. conn[n] \in SoundConn(Ids(setup), Place(setup, n))
    BY NodeSound
  <2>2. /\ conn[n].rtmetric \in 0..RankLimit-1
        /\ conn[n].rtmetric < LIBP_LINK_METRIC_UNIT => conn[n].is_sink
    BY <2>1, FieldTypes
  <2>3. conn[n].rtmetric < RankLimit
    BY <2>2, RankType
  <2> QED  BY <2>2, <2>3 DEF RankLimit
<1> QED  BY <1>1, Invariance, PTL

\* Hops made and hops left add up in every queue, so forwarding comes to an end
\* (libp.c:443-470).
THEOREM HopsBudgeted == Spec => []HopBudget
<1>1. Inv => HopBudget
  <2> SUFFICES ASSUME Inv, NEW n \in Node, NEW i \in DOMAIN conn[n].send_queue
               PROVE  LET p == conn[n].send_queue[i]
                      IN  ~ p.probe => p.ttl >= 1 /\ p.ttl + p.hops = MAX_HOPLIM + 1
    BY DEF HopBudget
  <2>1. conn[n] \in SoundConn(Ids(setup), Place(setup, n))
    BY NodeSound
  <2>2. conn[n].send_queue \in Seq(SoundPacket(Ids(setup)))
    BY <2>1, FieldTypes
  <2>3. conn[n].send_queue[i] \in SoundPacket(Ids(setup))
    BY <2>2
  <2> QED  BY <2>3 DEF SoundPacket, Budgeted
<1> QED  BY <1>1, Invariance, PTL

\* Forwarding never takes the entries of the queue that are not for it
\* (libp.c:463-467).
THEOREM QueueReserved == Spec => []ForwardReserve
<1>1. Inv => ForwardReserve
  BY DEF Inv, NodeInv, Reserved, Forwarded, ForwardReserve
<1> QED  BY <1>1, Invariance, PTL

\* A node that is sending has a timer, unless it was made a sink and a node
\* again (libp.c:696-712, libp.c:1290-1320).
THEOREM SendersArmed == Spec => [](SinkForGood(setup) => SendingArmed)
<1>1. Inv => (SinkForGood(setup) => SendingArmed)
  BY DEF Inv, NodeInv, Armed, SendingArmed
<1> QED  BY <1>1, Invariance, PTL

\* As long as no eseqno wraps and no node starts again, an ACK of the sink that
\* does not say otherwise answers a packet its application has (libp.c:352-420).
THEOREM SinkHonest == Spec => [](Lasting(setup) => AcksAreHonest)
<1>1. Inv => (Lasting(setup) => AcksAreHonest)
  <2> SUFFICES ASSUME Inv, Lasting(setup), NEW i \in DOMAIN conn[Sink].mac
               PROVE  HonestFrame(conn[Sink].mac[i], Range(conn[Sink].received))
    BY DEF AcksAreHonest, HonestFrame
  <2>1. HonestSink(conn[Sink])
    BY LibpNetAssumption DEF Inv, NodeInv
  <2>2. conn[Sink].mac[i] \in Range(conn[Sink].mac)
    BY DEF Range
  <2> QED  BY <2>1, <2>2 DEF HonestSink
<1> QED  BY <1>1, Invariance, PTL

\* What a closed connection hands down is a probe: libp_close() leaves the
\* timers, but nothing of the application for them to send (libp.c:1201-1212).
THEOREM ClosedSilent == Spec => ClosedOnlyProbes
<1> DEFINE Act == \A n \in Node : ~ conn[n].is_open =>
                    \A f \in Range(conn'[n].mac) :
                      \/ f.packet.probe
                      \/ \E g \in Range(conn[n].mac) : f = [g EXCEPT !.heard = f.heard]
<1>1. Inv /\ [Next]_vars => Act
  <2> SUFFICES ASSUME Inv, [Next]_vars, NEW n \in Node, ~ conn[n].is_open
               PROVE  \A f \in Range(conn'[n].mac) :
                        \/ f.packet.probe
                        \/ \E g \in Range(conn[n].mac) : f = [g EXCEPT !.heard = f.heard]
    OBVIOUS
  <2>1. Quiet(conn[n], conn'[n])
    BY NextStep DEF Continues
  <2>2. OnlyProbes(conn[n])
    BY NodeSound DEF NodeInv
  <2> QED  BY <2>1, <2>2 DEF Quiet
<1>2. Inv /\ [Next]_vars => [Act]_vars
  BY <1>1
<1> HIDE DEF Act
<1>3. Spec => [][Act]_vars
  BY <1>2, Invariance, PTL DEF Spec
<1> QED  BY <1>3 DEF ClosedOnlyProbes, Act

-----------------------------------------------------------------------------
(* Rank and parent.                                                        *)

RankFields == {"rtmetric", "parent", "neighbour_list", "announcement", "is_router", "is_open"}

\* All that rank and parent depend on is the same.
SameRank(c, d) ==
  /\ DOMAIN d = DOMAIN c
  /\ d.rtmetric = c.rtmetric /\ d.parent = c.parent
  /\ d.neighbour_list = c.neighbour_list /\ d.announcement = c.announcement
  /\ d.is_router = c.is_router /\ d.is_open = c.is_open

Ranking(c) == RankFields \subseteq DOMAIN c

\* An operator that leaves no rank out of date.
KeepsCurrent(c, d) == DOMAIN d = DOMAIN c /\ (Current(c) => Current(d))

LEMMA RankFollows ==
  ASSUME NEW c, NEW d, d.parent = c.parent, d.neighbour_list = c.neighbour_list
  PROVE  NewRank(d) = NewRank(c)
<1>1. Find(d, d.parent) = Find(c, c.parent) /\ \A n : Cost(d, n) = Cost(c, n)
  BY DEF Find, Cost
<1>2. rtmetric_compute(d) = rtmetric_compute(c)
  BY <1>1 DEF rtmetric_compute
<1> QED  BY <1>2 DEF NewRank

LEMMA SameCurrent ==
  ASSUME NEW c, NEW d, SameRank(c, d)
  PROVE  KeepsCurrent(c, d)
<1>1. NewRank(d) = NewRank(c)
  BY RankFollows DEF SameRank
<1> QED  BY <1>1 DEF SameRank, KeepsCurrent, Current

LEMMA SendQueuedRank ==
  ASSUME NEW c, Ranking(c)
  PROVE  SameRank(c, send_queued_packet(c))
BY DEF Ranking, RankFields, SameRank, send_queued_packet, send_packet, unicast_send

LEMMA SendNextRank ==
  ASSUME NEW c, Ranking(c)
  PROVE  SameRank(c, send_next_packet(c))
<1> DEFINE d == [c EXCEPT !.send_queue = IF @ = <<>> THEN @ ELSE Tail(@),
                          !.seqno = (@ + 1) % UINT8,
                          !.retransmission_timer = "off",
                          !.sending = FALSE, !.transmissions = 0]
<1>1. SameRank(c, d) /\ Ranking(d)
  BY DEF Ranking, RankFields, SameRank
<1>2. send_next_packet(c) = send_queued_packet(d)
  BY DEF send_next_packet
<1> HIDE DEF d
<1>3. SameRank(d, send_queued_packet(d))
  BY <1>1, SendQueuedRank
<1> QED  BY <1>1, <1>2, <1>3 DEF SameRank

\* It is update_rtmetric() that brings rank and parent together.
LEMMA UpdateCurrent ==
  ASSUME NEW c, Ranking(c)
  PROVE  /\ DOMAIN update_rtmetric(c) = DOMAIN c
         /\ update_rtmetric(c).neighbour_list = c.neighbour_list
         /\ Current(update_rtmetric(c))
<1>1. CASE c.rtmetric = RTMETRIC_SINK
  BY <1>1 DEF update_rtmetric, Current
<1>2. CASE c.rtmetric # RTMETRIC_SINK
  <2> DEFINE u == update_parent(c)
             d == Ranked(u, NewRank(u))
  <2>1. DOMAIN u = DOMAIN c /\ u.neighbour_list = c.neighbour_list
    BY DEF update_parent, Ranking, RankFields
  <2> HIDE DEF u
  <2>2. /\ DOMAIN d = DOMAIN c /\ d.rtmetric = NewRank(u)
        /\ d.parent = u.parent /\ d.neighbour_list = u.neighbour_list
        /\ d.is_router = u.is_router
        /\ d.is_router => d.announcement = d.rtmetric
    BY <2>1 DEF Ranked, Ranking, RankFields
  <2>3. update_rtmetric(c) \in {d, send_queued_packet(d)}
    BY <1>2 DEF update_rtmetric, u
  <2> HIDE DEF d
  <2>4. NewRank(d) = NewRank(u)
    BY <2>2, RankFollows
  <2>5. Current(d) /\ Ranking(d)
    BY <2>2, <2>4 DEF Current, Ranking
  <2>6. SameRank(d, send_queued_packet(d)) /\ KeepsCurrent(d, send_queued_packet(d))
    BY <2>5, SendQueuedRank, SameCurrent
  <2> QED  BY <2>1, <2>2, <2>3, <2>5, <2>6 DEF KeepsCurrent, SameRank
<1> QED  BY <1>1, <1>2

LEMMA UpdateKeeps ==
  ASSUME NEW c, NEW d, Ranking(c), DOMAIN d = DOMAIN c
  PROVE  KeepsCurrent(c, update_rtmetric(d)) /\ Ranking(d)
BY UpdateCurrent DEF KeepsCurrent, Ranking

LEMMA CurrentTrans ==
  ASSUME NEW c, NEW d, NEW e, KeepsCurrent(c, d), KeepsCurrent(d, e)
  PROVE  KeepsCurrent(c, e)
BY DEF KeepsCurrent

LEMMA TimedoutCurrent ==
  ASSUME NEW c, Ranking(c)
  PROVE  KeepsCurrent(c, timedout(c))
<1> DEFINE g == IF c.send_queue = <<>> THEN c ELSE GivenUp(c, Head(c.send_queue))
           d == [g EXCEPT !.sending = FALSE,
                   !.neighbour_list =
                      libp_neighbour_tx_fail(@, Find(c, c.current_parent), c.max_rexmits)]
           e == update_rtmetric(d)
<1>1. DOMAIN d = DOMAIN c
  BY DEF GivenUp
<1>2. timedout(c) = send_next_packet(e)
  BY DEF timedout
<1> HIDE DEF d
<1>3. KeepsCurrent(c, e) /\ Ranking(e)
  BY <1>1, UpdateKeeps DEF KeepsCurrent, Ranking
<1> HIDE DEF e
<1>4. KeepsCurrent(e, send_next_packet(e))
  BY <1>3, SendNextRank, SameCurrent
<1> QED  BY <1>2, <1>3, <1>4, CurrentTrans

LEMMA PacketSentCurrent ==
  ASSUME NEW c, Ranking(c), NEW frame, NEW t
  PROVE  KeepsCurrent(c, node_packet_sent(c, frame, t))
<1> DEFINE d == [c EXCEPT !.transmissions = (@ + t) % UINT8]
           e == [d EXCEPT !.retransmission_timer = "retransmit"]
<1>1. SameRank(c, d) /\ Ranking(d)
  BY DEF Ranking, RankFields, SameRank
<1>2. node_packet_sent(c, frame, t) \in {c, timedout(d), e}
  BY DEF node_packet_sent
<1> HIDE DEF d
<1>3. SameRank(d, e)
  BY <1>1 DEF Ranking, RankFields, SameRank
<1> HIDE DEF e
<1>4. KeepsCurrent(c, d) /\ KeepsCurrent(d, e) /\ KeepsCurrent(d, timedout(d))
  BY <1>1, <1>3, SameCurrent, TimedoutCurrent
<1>5. KeepsCurrent(c, c)
  BY DEF KeepsCurrent
<1> QED  BY <1>2, <1>4, <1>5, CurrentTrans

LEMMA RetransmitCurrent ==
  ASSUME NEW c, Ranking(c)
  PROVE  KeepsCurrent(c, retransmit_current_packet(c))
<1> DEFINE u == update_rtmetric(c)
           d == IF u.current_parent = u.parent THEN u
                ELSE [u EXCEPT !.current_parent = u.parent, !.transmissions = 0]
           e == IF Find(d, d.current_parent) = {} THEN d
                ELSE send_packet([d EXCEPT !.sending = TRUE], d.current_parent,
                                 AtMost(d.max_rexmits - d.transmissions, MAX_MAC_REXMITS))
<1>1. retransmit_current_packet(c) \in {c, e}
  BY DEF retransmit_current_packet
<1>2. KeepsCurrent(c, u) /\ Ranking(u)
  BY UpdateKeeps DEF KeepsCurrent, Ranking
<1> HIDE DEF u
<1>3. SameRank(u, d) /\ Ranking(d)
  BY <1>2 DEF Ranking, RankFields, SameRank
<1> HIDE DEF d
<1>4. SameRank(d, e)
  BY <1>3 DEF Ranking, RankFields, SameRank, send_packet, unicast_send
<1> HIDE DEF e
<1>5. KeepsCurrent(u, d) /\ KeepsCurrent(d, e)
  BY <1>3, <1>4, SameCurrent
<1>6. KeepsCurrent(c, c)
  BY DEF KeepsCurrent
<1> QED  BY <1>1, <1>2, <1>5, <1>6, CurrentTrans

LEMMA TimersCurrent ==
  ASSUME NEW c, Ranking(c)
  PROVE  /\ KeepsCurrent(c, retransmit_callback(c))
         /\ KeepsCurrent(c, retransmit_not_sent_callback(c))
<1>1. ASSUME NEW b, Ranking(b)
      PROVE  KeepsCurrent(b, retransmit_callback(b))
  <2> DEFINE d == [b EXCEPT !.retransmission_timer = "off"]
             e == [d EXCEPT !.sending = FALSE]
  <2>1. SameRank(b, d) /\ Ranking(d)
    BY <1>1 DEF Ranking, RankFields, SameRank
  <2>2. retransmit_callback(b) \in {timedout(d), retransmit_current_packet(e)}
    BY DEF retransmit_callback
  <2> HIDE DEF d
  <2>3. SameRank(d, e) /\ Ranking(e)
    BY <2>1 DEF Ranking, RankFields, SameRank
  <2> HIDE DEF e
  <2>4. KeepsCurrent(b, d) /\ KeepsCurrent(d, e)
    BY <2>1, <2>3, SameCurrent
  <2>5. KeepsCurrent(d, timedout(d)) /\ KeepsCurrent(e, retransmit_current_packet(e))
    BY <2>1, <2>3, TimedoutCurrent, RetransmitCurrent
  <2> QED  BY <2>2, <2>4, <2>5, CurrentTrans
<1> DEFINE d == [c EXCEPT !.transmissions = (@ + MAX_MAC_REXMITS + 1) % UINT8]
<1>2. SameRank(c, d) /\ Ranking(d)
  BY DEF Ranking, RankFields, SameRank
<1>3. retransmit_not_sent_callback(c) = retransmit_callback(d)
  BY DEF retransmit_not_sent_callback
<1> HIDE DEF d
<1>4. KeepsCurrent(c, d) /\ KeepsCurrent(d, retransmit_callback(d))
  BY <1>1, <1>2, SameCurrent
<1> QED  BY <1>1, <1>3, <1>4, CurrentTrans

\* Without an entry of the table nothing is learnt.
LEMMA UnknownLearnsNothing ==
  ASSUME NEW t \in Table, NEW k, NEW m
  PROVE  libp_neighbour_update_rtmetric(libp_neighbour_tx(t, {}, k), {}, m) = t
BY DEF libp_neighbour_update_rtmetric, libp_neighbour_tx, Table

LEMMA HandleAckCurrent ==
  ASSUME NEW c, Ranking(c), c.neighbour_list \in Table, NEW ack
  PROVE  KeepsCurrent(c, handle_ack(c, ack))
<1> DEFINE n  == Find(c, ack.src)
           tx == IF c.transmissions = 0 THEN MAX_MAC_REXMITS ELSE c.transmissions
           m  == [c EXCEPT !.transmissions = tx,
                    !.neighbour_list = libp_neighbour_update_rtmetric(
                       libp_neighbour_tx(@, n, tx), n, ack.rtmetric)]
           h  == IF n = {} THEN m ELSE update_rtmetric(m)
           Penalty(d, k) == [d EXCEPT !.neighbour_list = libp_neighbour_tx(@, n, k)]
           g  == IF "CONGESTED" \in ack.flags
                 THEN update_rtmetric(Penalty(h, h.max_rexmits * 2)) ELSE h
           r  == update_rtmetric(Penalty(g, g.max_rexmits))
           q  == [r EXCEPT !.retransmission_timer = "retransmit"]
<1>1. handle_ack(c, ack) \in {c, send_next_packet(g), q}
  BY DEF handle_ack
<1>2. DOMAIN m = DOMAIN c
  OBVIOUS
<1>3. n = {} => SameRank(c, m)
  BY UnknownLearnsNothing DEF Ranking, RankFields, SameRank
<1> HIDE DEF m, n
<1>4. KeepsCurrent(c, h) /\ Ranking(h)
  <2>1. n = {} => KeepsCurrent(c, m)
    BY <1>3, SameCurrent
  <2>2. KeepsCurrent(c, update_rtmetric(m))
    BY <1>2, UpdateKeeps
  <2>3. KeepsCurrent(c, h)
    BY <2>1, <2>2
  <2> QED  BY <2>3 DEF KeepsCurrent, Ranking
<1> HIDE DEF h
<1>5. KeepsCurrent(h, g) /\ Ranking(g)
  <2>1. DOMAIN Penalty(h, h.max_rexmits * 2) = DOMAIN h
    OBVIOUS
  <2> HIDE DEF Penalty
  <2>2. KeepsCurrent(h, update_rtmetric(Penalty(h, h.max_rexmits * 2)))
    BY <1>4, <2>1, UpdateKeeps
  <2>3. KeepsCurrent(h, h)
    BY DEF KeepsCurrent
  <2>4. KeepsCurrent(h, g)
    BY <2>2, <2>3
  <2> QED  BY <1>4, <2>4 DEF KeepsCurrent, Ranking
<1> HIDE DEF g
<1>6. KeepsCurrent(g, r) /\ Ranking(r)
  <2>1. DOMAIN Penalty(g, g.max_rexmits) = DOMAIN g
    OBVIOUS
  <2> HIDE DEF Penalty
  <2>2. KeepsCurrent(g, r)
    BY <1>5, <2>1, UpdateKeeps
  <2> QED  BY <1>5, <2>2 DEF KeepsCurrent, Ranking
<1> HIDE DEF r
<1>7. SameRank(r, q)
  BY <1>6 DEF Ranking, RankFields, SameRank
<1> HIDE DEF q
<1>8. KeepsCurrent(r, q) /\ KeepsCurrent(g, send_next_packet(g))
  BY <1>5, <1>7, SendNextRank, SameCurrent
<1>9. KeepsCurrent(c, c)
  BY DEF KeepsCurrent
<1> QED  BY <1>1, <1>4, <1>5, <1>6, <1>8, <1>9, CurrentTrans

LEMMA ReceiveDataCurrent ==
  ASSUME NEW c, Ranking(c), NEW data, NEW rank, NEW room
  PROVE  KeepsCurrent(c, ReceiveData(c, data, rank, room))
<1>1. ASSUME NEW b, Ranking(b), NEW flags
      PROVE  SameRank(b, send_ack(b, data, flags))
  BY <1>1 DEF Ranking, RankFields, SameRank, send_ack
<1>2. ASSUME NEW b, Ranking(b), NEW p
      PROVE  /\ SameRank(b, add_packet_to_recent_packets(b, p))
             /\ SameRank(b, GivenUp(b, p)) /\ SameRank(b, Enqueued(b, p))
  BY <1>2 DEF Ranking, RankFields, SameRank, add_packet_to_recent_packets, GivenUp, Enqueued
<1>3. SameRank(c, Deliver(c, data, room))
  <2> DEFINE d == add_packet_to_recent_packets(c, data.packet)
             e == IF room THEN send_ack(d, data, {}) ELSE d
             f == [e EXCEPT !.received = Append(@, data.packet.id)]
  <2>1. SameRank(c, d) /\ Ranking(d)
    BY <1>2 DEF SameRank, Ranking
  <2>2. Deliver(c, data, room) \in {e, f}
    BY DEF Deliver
  <2> HIDE DEF d
  <2>3. SameRank(d, e) /\ Ranking(e)
    <3>1. SameRank(d, d) /\ SameRank(d, send_ack(d, data, {}))
      BY <1>1, <2>1 DEF SameRank
    <3>2. SameRank(d, e)
      BY <3>1
    <3> QED  BY <2>1, <3>2 DEF SameRank, Ranking
  <2> HIDE DEF e
  <2>4. SameRank(e, f)
    BY <2>3 DEF Ranking, RankFields, SameRank
  <2> HIDE DEF f
  <2> QED  BY <2>1, <2>2, <2>3, <2>4 DEF SameRank
<1>4. ASSUME NEW flags PROVE SameRank(c, Forward(c, data, flags, room))
  <2> DEFINE p == [data.packet EXCEPT !.hops = @ + 1, !.ttl = @ - 1]
             q == Enqueued(c, p)
             d == add_packet_to_recent_packets(q, p)
             e == send_ack(d, data, flags)
             f == send_ack(c, data, flags \cup {"DROPPED", "CONGESTED"})
  <2>1. Forward(c, data, flags, room) \in {send_queued_packet(e), f}
    BY DEF Forward
  <2> HIDE DEF p
  <2>2. SameRank(c, q) /\ Ranking(q) /\ SameRank(c, f)
    BY <1>1, <1>2 DEF SameRank, Ranking
  <2> HIDE DEF q, f
  <2>3. SameRank(q, d) /\ Ranking(d)
    BY <1>2, <2>2 DEF SameRank, Ranking
  <2> HIDE DEF d
  <2>4. SameRank(d, e) /\ Ranking(e)
    BY <1>1, <2>3 DEF SameRank, Ranking
  <2> HIDE DEF e
  <2>5. SameRank(e, send_queued_packet(e))
    BY <2>4, SendQueuedRank
  <2> QED  BY <2>1, <2>2, <2>3, <2>4, <2>5 DEF SameRank
<1>5. ASSUME NEW flags
      PROVE  /\ SameRank(c, send_ack(c, data, flags))
             /\ SameRank(c, send_ack(GivenUp(c, data.packet), data, flags))
  <2> DEFINE g == GivenUp(c, data.packet)
  <2>1. SameRank(c, g) /\ Ranking(g)
    BY <1>2 DEF SameRank, Ranking
  <2> HIDE DEF g
  <2>2. SameRank(g, send_ack(g, data, flags)) /\ SameRank(c, send_ack(c, data, flags))
    BY <1>1, <2>1
  <2> QED  BY <2>1, <2>2 DEF SameRank, g
<1>6. SameRank(c, c)
  BY DEF SameRank
<1> DEFINE d == ReceiveData(c, data, rank, room)
<1>7. \/ d \in {c, Deliver(c, data, room)}
      \/ \E flags : d \in {Forward(c, data, flags, room), send_ack(c, data, flags),
                           send_ack(GivenUp(c, data.packet), data, flags)}
  BY Zenon DEF ReceiveData
<1> HIDE DEF d
<1>8. SameRank(c, d)
  BY <1>3, <1>4, <1>5, <1>6, <1>7
<1> QED  BY <1>8, SameCurrent DEF d

LEMMA PacketReceivedCurrent ==
  ASSUME NEW I, NEW P, NEW c \in SoundConn(I, P), Ranking(c),
         NEW frame \in SoundFrame(I), NEW room
  PROVE  KeepsCurrent(c, node_packet_received(c, frame, room))
<1> DEFINE h == Hearing(c, frame)
           b == IF h.mac = c.mac THEN frame ELSE h.mac[Len(h.mac)]
           d == ReceiveFrame(h, b, frame.rtmetric, room)
<1>1. node_packet_received(c, frame, room) = d
  BY DEF node_packet_received, Hearing, ReceiveFrame
<1>2. KeepsCurrent(c, h) /\ Ranking(h)
  <2> DEFINE n == Find(c, frame.src)
             e == [c EXCEPT !.neighbour_list =
                     libp_neighbour_update_rtmetric(@, n, frame.rtmetric)]
  <2>1. h \in {c, update_rtmetric(e)}
    BY DEF Hearing
  <2>2. DOMAIN e = DOMAIN c
    OBVIOUS
  <2> HIDE DEF e, h
  <2>3. KeepsCurrent(c, c) /\ KeepsCurrent(c, update_rtmetric(e))
    BY <2>2, UpdateKeeps DEF KeepsCurrent
  <2>4. KeepsCurrent(c, h)
    BY <2>1, <2>3
  <2> QED  BY <2>4 DEF KeepsCurrent, Ranking
<1> HIDE DEF h, b
<1> h.neighbour_list \in Table
  <2>1. h \in SoundConn(I, P)
    BY HearingSound DEF Serves, h
  <2> QED  BY <2>1, FieldTypes DEF SoundTable
<1>3. d \in {ReceiveData(h, b, frame.rtmetric, room), handle_ack(h, b)}
  BY DEF ReceiveFrame
<1> HIDE DEF d
<1>4. KeepsCurrent(h, d)
  BY <1>2, <1>3, ReceiveDataCurrent, HandleAckCurrent
<1> QED  BY <1>1, <1>2, <1>4, CurrentTrans

LEMMA AnnouncementCurrent ==
  ASSUME NEW c, Ranking(c), NEW from, NEW value
  PROVE  KeepsCurrent(c, received_announcement(c, from, value))
<1> DEFINE n == Find(c, from)
           d == [c EXCEPT !.neighbour_list =
                   IF n # {} THEN libp_neighbour_update_rtmetric(@, n, value)
                   ELSE IF value < c.rtmetric THEN libp_neighbour_list_add(@, from, value)
                   ELSE @]
<1>1. received_announcement(c, from, value) = update_rtmetric(d) /\ DOMAIN d = DOMAIN c
  BY DEF received_announcement
<1> HIDE DEF d
<1> QED  BY <1>1, UpdateKeeps

\* Another parent is lent to a packet, and the old one given back.
LEMMA ProbeCurrent ==
  ASSUME NEW c, Ranking(c), NEW room
  PROVE  KeepsCurrent(c, proactive_probing_callback(c, room))
<1> DEFINE a == [c EXCEPT !.parent = c.neighbour_list[Deref(FirstUnprobed(c))].addr]
           b == enqueue_dummy_packet(a, PROACTIVE_PROBING_REXMITS)
           e == send_queued_packet(b)
           d == [e EXCEPT !.parent = c.parent]
<1>1. proactive_probing_callback(c, room) \in {c, d}
  BY DEF proactive_probing_callback
<1>2. /\ DOMAIN a = DOMAIN c /\ a.rtmetric = c.rtmetric
      /\ a.neighbour_list = c.neighbour_list /\ a.announcement = c.announcement
      /\ a.is_router = c.is_router /\ a.is_open = c.is_open
  BY DEF Ranking, RankFields
<1>3. Ranking(a)
  BY <1>2 DEF Ranking
<1> HIDE DEF a
<1>4. SameRank(a, b) /\ Ranking(b)
  BY <1>3 DEF Ranking, RankFields, SameRank, enqueue_dummy_packet, Enqueued
<1> HIDE DEF b
<1>5. SameRank(b, e)
  BY <1>4, SendQueuedRank
<1> HIDE DEF e
<1>6. SameRank(c, d)
  BY <1>2, <1>4, <1>5 DEF SameRank, Ranking, RankFields
<1> HIDE DEF d
<1>7. SameRank(c, c)
  BY DEF SameRank
<1> QED  BY <1>1, <1>6, <1>7, SameCurrent

LEMMA SendCurrent ==
  ASSUME NEW c, Ranking(c), NEW rexmits, NEW room
  PROVE  KeepsCurrent(c, libp_send(c, rexmits, room))
<1> DEFINE p == [id |-> <<c.addr, c.eseqno, c.sent + 1>>, ttl |-> MAX_HOPLIM, hops |-> 1,
                 rexmits |-> AtMost(rexmits, MAX_REXMITS), probe |-> FALSE]
           d == [c EXCEPT !.eseqno = IF @ = UINT8 - 1 THEN UINT8 \div 2 ELSE @ + 1,
                          !.sent = @ + 1]
           q == Enqueued(d, p)
           r == [d EXCEPT !.received = Append(@, p.id)]
<1>1. libp_send(c, rexmits, room) \in {r, send_queued_packet(q), d}
  BY DEF libp_send
<1>2. SameRank(c, d) /\ Ranking(d)
  BY DEF SameRank, Ranking, RankFields
<1> HIDE DEF d, p
<1>3. SameRank(d, q) /\ Ranking(q) /\ SameRank(d, r)
  BY <1>2 DEF SameRank, Ranking, RankFields, Enqueued
<1> HIDE DEF q, r
<1>4. SameRank(q, send_queued_packet(q))
  BY <1>3, SendQueuedRank
<1>5. SameRank(c, libp_send(c, rexmits, room))
  BY <1>1, <1>2, <1>3, <1>4 DEF SameRank
<1> QED  BY <1>5, SameCurrent

LEMMA SetSinkCurrent ==
  ASSUME NEW c, Ranking(c), NEW b
  PROVE  KeepsCurrent(c, libp_set_sink(c, b))
<1> DEFINE rank == IF b THEN RTMETRIC_SINK ELSE RTMETRIC_MAX
           d == [c EXCEPT !.rtmetric = rank, !.announcement = rank]
           e == [d EXCEPT !.is_router = TRUE, !.is_sink = TRUE,
                          !.send_queue = <<>>, !.retransmission_timer = "off"]
           f == IF b THEN e ELSE d
<1>1. libp_set_sink(c, b) = update_rtmetric(f) /\ DOMAIN f = DOMAIN c
  BY DEF libp_set_sink
<1> HIDE DEF f
<1> QED  BY <1>1, UpdateKeeps

LEMMA NoRoute ==
  ASSUME NEW c, Find(c, c.parent) = {}
  PROVE  NewRank(c) = RTMETRIC_MAX
BY DEF NewRank, rtmetric_compute

\* A purged table leaves no route, so no parent is left to forget.
LEMMA PurgeCurrent ==
  ASSUME NEW c, Ranking(c)
  PROVE  KeepsCurrent(c, libp_purge(c))
<1> DEFINE t == libp_neighbour_list_purge(c.neighbour_list)
           d == [c EXCEPT !.neighbour_list = t, !.parent = NullAddr]
           u == update_rtmetric(d)
           e == [u EXCEPT !.parent = NullAddr]
<1>1. libp_purge(c) = e
  BY DEF libp_purge
<1>2. \A addr : libp_neighbour_list_find(t, addr) = {}
  BY DEF libp_neighbour_list_find, libp_neighbour_list_purge, Listed, Freed
<1> HIDE DEF t
<1>3. DOMAIN d = DOMAIN c /\ d.neighbour_list = t
  BY DEF Ranking, RankFields
<1> HIDE DEF d
<1>4. Current(u) /\ DOMAIN u = DOMAIN c /\ u.neighbour_list = t
  BY <1>3, UpdateCurrent DEF Ranking
<1> HIDE DEF u
<1>5. /\ DOMAIN e = DOMAIN u /\ e.neighbour_list = t /\ e.rtmetric = u.rtmetric
      /\ e.announcement = u.announcement /\ e.is_router = u.is_router /\ e.is_open = u.is_open
  BY <1>4 DEF Ranking, RankFields
<1> HIDE DEF e
<1>6. NewRank(u) = RTMETRIC_MAX /\ NewRank(e) = RTMETRIC_MAX
  BY <1>2, <1>4, <1>5, NoRoute DEF Find
<1>7. Current(e)
  BY <1>4, <1>5, <1>6 DEF Current
<1> QED  BY <1>1, <1>4, <1>5, <1>7 DEF KeepsCurrent

\* The connection that is opened, or started again, has no parent.
LEMMA OpenedCurrent ==
  ASSUME NEW n \in Node, NEW c
  PROVE  Current([Opened(n) EXCEPT !.sent = c.sent, !.dropped = c.dropped,
                                   !.received = c.received])
<1> DEFINE o == libp_open(n, n \in setup.routers)
           p == Opened(n)
           d == [p EXCEPT !.sent = c.sent, !.dropped = c.dropped, !.received = c.received]
<1>1. /\ Ranking(o) /\ o.parent = NullAddr /\ o.neighbour_list = NewTable
      /\ o.rtmetric = RTMETRIC_MAX
      /\ o.is_router => o.announcement = RTMETRIC_MAX
  BY DEF libp_open, Ranking, RankFields
<1>2. NewRank(o) = RTMETRIC_MAX
  <2>1. Find(o, o.parent) = {}
    BY <1>1 DEF Find, libp_neighbour_list_find, Listed, NewTable, Freed
  <2> QED  BY <2>1, NoRoute
<1>3. p \in {o, libp_set_sink(o, TRUE)}
  BY DEF Opened
<1> HIDE DEF o
<1>4. Current(o)
  BY <1>1, <1>2 DEF Current
<1>5. KeepsCurrent(o, libp_set_sink(o, TRUE))
  BY <1>1, SetSinkCurrent
<1> HIDE DEF p
<1>6. Current(p) /\ Ranking(p)
  BY <1>1, <1>3, <1>4, <1>5 DEF KeepsCurrent, Ranking
<1>7. SameRank(p, d)
  BY <1>6 DEF SameRank, Ranking, RankFields
<1> HIDE DEF d
<1>8. Current(d)
  BY <1>6, <1>7, SameCurrent DEF KeepsCurrent
<1> QED  BY <1>8 DEF d, p

LEMMA ConnRanking ==
  ASSUME NEW I, NEW P, NEW c \in SoundConn(I, P)
  PROVE  Ranking(c)
<1>1. c \in SoundFields(I, P)
  BY FieldTypes
<1> QED  BY <1>1 DEF SoundFields, Ranking, RankFields

\* One node's connection changes and stays current.
LEMMA CurrentStep ==
  ASSUME Inv, NEW n \in Node, NEW d, Update(n, d), Current(conn[n]) => Current(d),
         NEW m \in Node, Current(conn[m])
  PROVE  Current(conn'[m])
BY DEF Inv, Update

LEMMA ReceiveCurrent ==
  ASSUME Inv, NEW n \in Node, NEW i \in OnAir(n), Receive(n, i),
         NEW k \in Node, Current(conn[k])
  PROVE  Current(conn'[k])
<1> DEFINE frame == conn[n].mac[i]
           m     == frame.dst
           a     == [conn[n] EXCEPT !.mac[i].heard = @ + 1]
<1>1. /\ frame \in SoundFrame(Ids(setup)) /\ i \in DOMAIN conn[n].mac
      /\ Ranking(conn[n])
  BY NodeSound, ConnRanking
<1>2. m \in Node /\ n # m
  BY <1>1, FrameFields DEF Receive, Hears
<1>3. PICK room \in setup.room :
        conn' = [conn EXCEPT ![n].mac[i].heard = @ + 1,
                             ![m] = node_packet_received(@, frame, room)]
  BY DEF Receive
<1> DEFINE d == node_packet_received(conn[m], frame, room)
<1>4. conn'[k] = IF k = m THEN d ELSE IF k = n THEN a ELSE conn[k]
  <2>1. conn = [j \in Node |-> conn[j]]
    BY DEF Inv
  <2>2. conn' = [[conn EXCEPT ![n] = a] EXCEPT ![m] = d]
    BY <1>2, <1>3, <2>1
  <2> HIDE DEF a, d, m
  <2> QED  BY <1>2, <2>1, <2>2
<1>5. KeepsCurrent(conn[m], d)
  <2> HIDE DEF frame
  <2>1. conn[m] \in SoundConn(Ids(setup), Place(setup, m))
    BY <1>2, NodeSound
  <2> QED  BY <1>1, <2>1, ConnRanking, PacketReceivedCurrent
<1>6. KeepsCurrent(conn[n], a)
  <2>1. SameRank(conn[n], a)
    BY <1>1 DEF SameRank, Ranking, RankFields
  <2> HIDE DEF a
  <2> QED  BY <2>1, SameCurrent
<1> HIDE DEF a, d, m
<1> QED  BY <1>4, <1>5, <1>6 DEF KeepsCurrent

LEMMA FrameLeft ==
  ASSUME NEW c, Ranking(c), NEW i
  PROVE  KeepsCurrent(c, RemoveFrame(c, i)) /\ Ranking(RemoveFrame(c, i))
<1> DEFINE r == RemoveFrame(c, i)
<1>1. SameRank(c, r)
  BY DEF SameRank, Ranking, RankFields, RemoveFrame
<1> HIDE DEF r
<1>2. KeepsCurrent(c, r) /\ Ranking(r)
  BY <1>1, SameCurrent DEF KeepsCurrent, Ranking
<1> QED  BY <1>2 DEF r

\* No handler leaves a rank that is not the one of the parent: what is learnt of
\* a neighbour is followed by update_rtmetric(), the parent that a probe is lent
\* is taken back (libp.c:681-686, libp.c:1046-1082).
THEOREM RanksCurrent == Spec => RanksStayCurrent
<1> DEFINE Act == \A n \in Node : Current(conn[n]) => Current(conn'[n]) \/ TableTick(n)
<1>1. Inv /\ [Next]_vars => Act
  <2> SUFFICES ASSUME Inv, [Next]_vars, NEW k \in Node, Current(conn[k])
               PROVE  Current(conn'[k]) \/ TableTick(k)
    OBVIOUS
  <2>1. \A n \in Node : Ranking(conn[n])
    BY NodeSound, ConnRanking
  <2>2. CASE UNCHANGED vars
    BY <2>2 DEF vars
  <2>3. ASSUME NEW n \in Node, NEW i \in OnAir(n), Receive(n, i)
        PROVE  Current(conn'[k])
    BY <2>3, ReceiveCurrent
  <2>4. ASSUME NEW n \in Node, NEW i \in OnAir(n), Report(n, i)
        PROVE  Current(conn'[k])
    <3> DEFINE r == RemoveFrame(conn[n], i)
    <3>1. PICK t \in 1..conn[n].mac[i].tries :
            Update(n, node_packet_sent(r, conn[n].mac[i], t))
      BY <2>4 DEF Report
    <3>2. KeepsCurrent(conn[n], r) /\ Ranking(r)
      BY <2>1, FrameLeft
    <3> HIDE DEF r
    <3> DEFINE d == node_packet_sent(r, conn[n].mac[i], t)
    <3>3. KeepsCurrent(conn[n], d)
      BY <3>2, PacketSentCurrent, CurrentTrans
    <3> HIDE DEF d
    <3> QED  BY <3>1, <3>3, CurrentStep DEF KeepsCurrent, d
  <2>5. ASSUME NEW n \in Node, NEW i \in OnAir(n), Silent(n, i)
        PROVE  Current(conn'[k])
    BY <2>1, <2>5, FrameLeft, CurrentStep DEF Silent, KeepsCurrent
  <2>6. ASSUME NEW n \in Node, NEW m \in Node, Announce(n, m)
        PROVE  Current(conn'[k])
    BY <2>1, <2>6, AnnouncementCurrent, CurrentStep DEF Announce, Announced, KeepsCurrent
  <2>7. ASSUME NEW n \in Node, Retransmit(n) PROVE Current(conn'[k])
    BY <2>1, <2>7, TimersCurrent, CurrentStep DEF Retransmit, KeepsCurrent
  <2>8. ASSUME NEW n \in Node, NotSent(n) PROVE Current(conn'[k])
    BY <2>1, <2>8, TimersCurrent, CurrentStep DEF NotSent, KeepsCurrent
  <2>9. ASSUME NEW n \in Node, Probe(n) PROVE Current(conn'[k])
    BY <2>1, <2>9, ProbeCurrent, CurrentStep DEF Probe, KeepsCurrent
  <2>10. ASSUME NEW n \in Node, TableTick(n)
         PROVE  Current(conn'[k]) \/ TableTick(k)
    <3>1. CASE n = k
      BY <2>10, <3>1
    <3>2. CASE n # k
      BY <2>10, <3>2 DEF TableTick, Update, Inv
    <3> QED  BY <3>1, <3>2
  <2>11. ASSUME NEW n \in Node, NEW i \in DOMAIN conn[n].send_queue, ExpirePacket(n, i)
         PROVE  Current(conn'[k])
    <3> DEFINE d == Expire(conn[n], i)
    <3>1. SameRank(conn[n], d)
      BY <2>1 DEF SameRank, Ranking, RankFields, Expire
    <3>2. Update(n, d)
      BY <2>11 DEF ExpirePacket
    <3> HIDE DEF d
    <3> QED  BY <3>1, <3>2, SameCurrent, CurrentStep DEF KeepsCurrent
  <2>12. ASSUME NEW n \in Node, Send(n) PROVE Current(conn'[k])
    BY <2>1, <2>12, SendCurrent, CurrentStep DEF Send, KeepsCurrent
  <2>13. ASSUME NEW n \in Node, Purge(n) PROVE Current(conn'[k])
    BY <2>1, <2>13, PurgeCurrent, CurrentStep DEF Purge, KeepsCurrent
  <2>14. ASSUME NEW n \in Node, NEW b \in BOOLEAN, SetSink(n, b)
         PROVE  Current(conn'[k])
    BY <2>1, <2>14, SetSinkCurrent, CurrentStep DEF SetSink, KeepsCurrent
  <2>15. ASSUME NEW n \in Node, Close(n) PROVE Current(conn'[k])
    <3> DEFINE d == libp_close(conn[n])
    <3>1. /\ d.rtmetric = conn[n].rtmetric /\ d.parent = conn[n].parent
          /\ d.neighbour_list = conn[n].neighbour_list /\ ~ d.is_open
      BY <2>1 DEF Ranking, RankFields, libp_close
    <3>2. Update(n, d)
      BY <2>15 DEF Close
    <3> HIDE DEF d
    <3>3. Current(conn[n]) => Current(d)
      BY <3>1, RankFollows DEF Current
    <3> QED  BY <3>2, <3>3, CurrentStep
  <2>16. ASSUME NEW n \in Node, Reboot(n) PROVE Current(conn'[k])
    BY <2>16, OpenedCurrent, CurrentStep DEF Reboot
  <2> QED  BY <2>2, <2>3, <2>4, <2>5, <2>6, <2>7, <2>8, <2>9, <2>10, <2>11, <2>12, <2>13,
              <2>14, <2>15, <2>16 DEF Next
<1>2. Inv /\ [Next]_vars => [Act]_vars
  BY <1>1
<1> QED  BY <1>2, Invariance, PTL DEF Spec, RanksStayCurrent

-----------------------------------------------------------------------------
(* Which packet an ACK is for, as long as no seqno wraps.                  *)

\* No rare event takes a packet out of a queue or a node out of the network.
Undisturbed(s) == s.faults \subseteq {"silent", "tick", "purge"}

SeqnosGrow == \A n \in Node : conn'[n].seqno >= conn[n].seqno

\* Data frames carry what their sender is sending or has sent, and ACKs answer
\* such frames.
Numbered(cs) ==
  \A n \in Node : \A f \in Range(cs[n].mac) :
    IF f.type = "DATA" THEN OwnFrame(cs[n], f) ELSE InOrder(cs[f.dst], f)

\* The packet p, which leaves the queue of n, is answered.
Answered(n, p) ==
  \E m \in Node : \E i \in OnAir(m) :
    LET f == conn[m].mac[i] IN
    /\ Receive(m, i) /\ f.dst = n /\ f.type = "ACK" /\ f.packet = p
    /\ "DROPPED" \notin f.flags \/ "LIFETIME_EXCEEDED" \in f.flags

Accounts(n) ==
  /\ conn[n].dropped \subseteq conn'[n].dropped
  /\ \A p \in Gone(conn[n], conn'[n]) :
       p.probe \/ p.id \in conn'[n].dropped \/ Answered(n, p)

\* n sends an ACK to itself (from a packet buffer that is overwritten), or to a
\* node that sends it a data frame.
NewAcks(n) ==
  \A f \in Range(conn'[n].mac) :
    f.type = "ACK" => \/ \E g \in Range(conn[n].mac) : Alike(f, g)
                      \/ f.dst = n
                      \/ /\ f.dst \in Node
                         /\ \E g \in Range(conn[f.dst].mac) : g.type = "DATA" /\ g.dst = n

LEMMA SetMacStays ==
  ASSUME NEW I, NEW P, NEW c \in SoundConn(I, P), NEW m,
         \A f \in Range(m) : \E g \in Range(c.mac) : Alike(f, g)
  PROVE  Stays(c, SetMac(c, m), {})
<1> DEFINE d == SetMac(c, m)
<1>1. /\ d.addr = c.addr /\ d.seqno = c.seqno /\ d.send_queue = c.send_queue
      /\ d.mac = m /\ d.dropped = c.dropped
  BY FieldTypes DEF SoundFields, SetMac
<1> HIDE DEF d
<1>2. \A f \in Range(d.mac) : Accounted(c, d, {}, f)
  BY <1>1 DEF Accounted
<1> QED  BY <1>1, <1>2 DEF Stays, Moves, Onward, d

LEMMA RemoveFrameStays ==
  ASSUME NEW I, NEW P, NEW c \in SoundConn(I, P), NEW i \in DOMAIN c.mac
  PROVE  RemoveFrame(c, i) \in SoundConn(I, P) /\ Stays(c, RemoveFrame(c, i), {})
<1> DEFINE m == Without(c.mac, i)
<1>1. c.mac \in Seq(SentFrame(I, P)) /\ i \in 1..Len(c.mac)
  BY FieldTypes
<1>2. Range(m) \subseteq Range(c.mac)
  BY <1>1, WithoutOne
<1>3. RemoveFrame(c, i) = SetMac(c, m)
  BY DEF RemoveFrame, SetMac, Without
<1> HIDE DEF m
<1>4. \A f \in Range(m) : f \in Range(c.mac) /\ Alike(f, f)
  BY <1>2 DEF Alike
<1> QED  BY <1>3, <1>4, SetMacStays, RemoveFrameSafe DEF Safe, Answers

LEMMA HeardAgainStays ==
  ASSUME NEW I, NEW P, NEW c \in SoundConn(I, P), NEW i \in DOMAIN c.mac
  PROVE  HeardAgain(c, i) \in SoundConn(I, P) /\ Stays(c, HeardAgain(c, i), {})
<1> DEFINE f == [c.mac[i] EXCEPT !.heard = @ + 1]
           m == [c.mac EXCEPT ![i] = f]
<1>1. /\ c.mac \in Seq(SentFrame(I, P))
      /\ i \in 1..Len(c.mac)
      /\ c.mac[i] \in SentFrame(I, P)
  BY FieldTypes
<1>2. Alike(f, c.mac[i])
  BY <1>1 DEF SentFrame, SoundFrame, Frame, Alike
<1>3. HeardAgain(c, i) = SetMac(c, m)
  BY <1>1, FieldTypes DEF SoundFields, HeardAgain, SetMac
<1> HIDE DEF f
<1>4. ASSUME NEW g \in Range(m)
      PROVE  \E h \in Range(c.mac) : Alike(g, h)
  <2>1. PICK j \in DOMAIN m : g = m[j]
    BY DEF Range
  <2>2. j \in DOMAIN c.mac /\ c.mac[j] \in Range(c.mac)
    BY <1>1, <2>1 DEF Range
  <2>3. Alike(g, c.mac[j])
    BY <1>2, <2>1, <2>2 DEF Alike
  <2> QED  BY <2>2, <2>3
<1> HIDE DEF m
<1> QED  BY <1>3, <1>4, SetMacStays, HeardAgainSafe DEF Safe, Answers

\* What keeps every node's frames in order.
LEMMA NumberedStep ==
  ASSUME NEW s, NEW cs, NEW ds, Numbered(cs),
         \A k \in Node : /\ cs[k] \in SoundConn(Ids(s), Place(s, k))
                         /\ ds[k] \in SoundConn(Ids(s), Place(s, k)),
         NEW G, \A g \in G : g.type = "DATA" /\ g.seqno \in Nat /\ g.src \in Node
                             /\ InOrder(ds[g.src], g),
         \A k \in Node : Moves(cs[k], ds[k], G)
  PROVE  Numbered(ds)
<1> SUFFICES ASSUME NEW n \in Node, NEW f \in Range(ds[n].mac)
             PROVE  IF f.type = "DATA" THEN OwnFrame(ds[n], f) ELSE InOrder(ds[f.dst], f)
  BY DEF Numbered
<1>1. /\ cs[n] \in SoundConn(Ids(s), Place(s, n))
      /\ ds[n] \in SoundConn(Ids(s), Place(s, n)) /\ Moves(cs[n], ds[n], G)
  OBVIOUS
<1>2. f.seqno \in Nat /\ f.dst \in Node /\ Accounted(cs[n], ds[n], G, f)
  BY <1>1, MacFrame DEF Moves
<1>3. CASE f.type = "DATA"
  <2>1. OwnFrames(cs[n])
    BY DEF Numbered, OwnFrames
  <2>2. OwnFrames(ds[n])
    BY <1>1, <2>1, OwnAfter
  <2> QED  BY <1>3, <2>2 DEF OwnFrames
<1>4. CASE f.type # "DATA"
  <2>1. CASE \E g \in Range(cs[n].mac) : Alike(f, g)
    <3>1. PICK g \in Range(cs[n].mac) : Alike(f, g)
      BY <2>1
    <3>2. InOrder(cs[f.dst], f)
      BY <1>4, <3>1 DEF Numbered, Alike, InOrder
    <3>3. /\ cs[f.dst] \in SoundConn(Ids(s), Place(s, f.dst))
          /\ ds[f.dst] \in SoundConn(Ids(s), Place(s, f.dst))
          /\ Onward(cs[f.dst], ds[f.dst])
      BY <1>2 DEF Moves
    <3>4. InOrder(ds[f.dst], f)
      BY <1>2, <3>2, <3>3, InOrderOnward
    <3> QED  BY <1>4, <3>4
  <2>2. CASE \E g \in G : Reply(f, g)
    BY <1>4, <2>2 DEF Reply, InOrder
  <2> QED  BY <1>2, <1>4, <2>1, <2>2 DEF Accounted, OwnFrame
<1> QED  BY <1>3, <1>4

\* A step in which one node, or none, does something of its own.
Follows ==
  /\ Numbered(conn')
  /\ \A n \in Node : Accounts(n) /\ NewAcks(n)
  /\ Lasting(setup) => \A n \in Node : Backed(conn[n], conn'[n])

LEMMA OwnStep ==
  ASSUME Inv, Inv', setup' = setup, Numbered(conn), SeqnosGrow,
         NEW n \in Node, NEW d, Update(n, d), Works(conn[n], d), Recalls(conn[n], d)
  PROVE  Follows
<1>1. conn'[n] = d /\ \A k \in Node \ {n} : conn'[k] = conn[k]
  BY DEF Inv, Update
<1>2. \A k \in Node : /\ conn[k] \in SoundConn(Ids(setup), Place(setup, k))
                      /\ conn'[k] \in SoundConn(Ids(setup), Place(setup, k))
  BY DEF Inv, NodeInv
<1>3. \A k \in Node : Works(conn[k], conn'[k])
  BY <1>1, StaysSame, StaysWorks
<1>4. \A k \in Node : Moves(conn[k], conn'[k], {})
  BY <1>3 DEF Works, Turn, SeqnosGrow
<1>5. Numbered(conn')
  BY <1>2, <1>4, NumberedStep
<1>6. \A k \in Node : Accounts(k)
  BY <1>3 DEF Accounts, Works
<1>7. \A k \in Node : NewAcks(k)
  BY <1>4 DEF Moves, Accounted, OwnFrame, NewAcks
<1>8. \A k \in Node : Recalls(conn[k], conn'[k])
  BY <1>1 DEF Recalls
<1>9. \A k \in Node : Backed(conn[k], conn'[k])
  BY <1>4, <1>8, MovesBacked
<1> QED  BY <1>5, <1>6, <1>7, <1>9 DEF Follows

\* The duplicate filter has nothing to do with the frames in the stack.
LEMMA FramesRecalled ==
  ASSUME NEW I, NEW P, NEW c \in SoundConn(I, P), NEW i
  PROVE  Recalls(c, RemoveFrame(c, i)) /\ Recalls(c, HeardAgain(c, i))
<1>1. LET d == RemoveFrame(c, i) IN
        d.received = c.received /\ d.recent_packets = c.recent_packets
  BY FieldTypes DEF SoundFields, RemoveFrame
<1>2. LET d == HeardAgain(c, i) IN
        d.received = c.received /\ d.recent_packets = c.recent_packets
  BY FieldTypes DEF SoundFields, HeardAgain
<1> QED  BY <1>1, <1>2 DEF Recalls

LEMMA ServesRecalls ==
  ASSUME NEW I, NEW P, NEW c, NEW d, Serves(I, P, c, d)
  PROVE  Recalls(c, d)
BY HandledRecalls DEF Serves

LEMMA ReceiveFollows ==
  ASSUME Inv, Inv', setup' = setup, Numbered(conn), SeqnosGrow,
         NEW n \in Node, NEW i \in OnAir(n), Receive(n, i)
  PROVE  Follows
<1> DEFINE I     == Ids(setup)
           P     == Place(setup, n)
           frame == conn[n].mac[i]
           m     == frame.dst
           a     == HeardAgain(conn[n], i)
<1>1. conn[n] \in SoundConn(I, P) /\ frame \in SoundFrame(I) /\ i \in DOMAIN conn[n].mac
  BY NodeSound
<1>2. m \in Node /\ n # m /\ frame.src \in Node /\ frame.seqno \in Nat
  BY <1>1, FrameFields DEF Receive, Hears
<1>3. conn[m] \in SoundConn(I, Place(setup, m))
  BY <1>2, NodeSound
<1>4. PICK room \in setup.room :
        conn' = [conn EXCEPT ![n].mac[i].heard = @ + 1,
                             ![m] = node_packet_received(@, frame, room)]
  BY DEF Receive
<1> DEFINE d == node_packet_received(conn[m], frame, room)
<1>5. /\ conn'[n] = a /\ conn'[m] = d
      /\ \A k \in Node : k # n /\ k # m => conn'[k] = conn[k]
  <2>1. conn = [k \in Node |-> conn[k]]
    BY DEF Inv
  <2>2. conn' = [[conn EXCEPT ![n] = a] EXCEPT ![m] = d]
    BY <1>2, <1>4, <2>1 DEF HeardAgain
  <2> HIDE DEF a, d, m
  <2> QED  BY <1>2, <2>1, <2>2
<1>6. \A k \in Node : /\ conn[k] \in SoundConn(Ids(setup), Place(setup, k))
                      /\ conn'[k] \in SoundConn(Ids(setup), Place(setup, k))
  BY DEF Inv, NodeInv
<1>7. frame \in Range(conn[n].mac)
  BY <1>1 DEF Range
<1>8. PICK G \in SUBSET SoundFrame(I) : Takes(conn[m], frame, d, G)
  <2>1. OwnFrames(conn[m])
    BY <1>2 DEF Numbered, OwnFrames
  <2> HIDE DEF m, frame
  <2> QED  BY <1>1, <1>3, <2>1, PacketReceivedTurns
<1>9. Stays(conn[n], a, {})
  BY <1>1, HeardAgainStays
<1> HIDE DEF a, d, I, P
<1>10. \A k \in Node \ {m} : Stays(conn[k], conn'[k], {})
  BY <1>5, <1>9, StaysSame
<1>11. \A k \in Node : Moves(conn[k], conn'[k], G)
  <2>1. Moves(conn[m], conn'[m], G)
    BY <1>2, <1>5, <1>8 DEF Takes, Turn, SeqnosGrow
  <2>2. ASSUME NEW k \in Node \ {m} PROVE Moves(conn[k], conn'[k], G)
    BY <1>10, MoreReplies DEF Stays
  <2> QED  BY <2>1, <2>2
<1>12. ASSUME NEW g \in G
       PROVE  /\ g.type = "DATA" /\ g.seqno \in Nat /\ g.src \in Node
              /\ InOrder(conn'[g.src], g)
  <2>1. g \in SoundFrame(I) /\ g.type = "DATA" /\ (g = frame \/ OwnFrame(d, g))
    BY <1>8 DEF Takes
  <2>2. g.seqno \in Nat /\ g.src \in Node
    <3>1. g.seqno \in 0..UINT8-1 /\ g.src \in Node
      BY <2>1, FrameFields
    <3> QED  BY <3>1
  <2>3. CASE g = frame
    <3>1. OwnFrame(conn[n], g)
      BY <1>7, <2>1, <2>3 DEF Numbered
    <3>2. g.src = n /\ InOrder(conn[n], g)
      BY <3>1, NodeSound DEF OwnFrame
    <3>3. InOrder(conn'[n], g)
      BY <1>6, <1>11, <2>2, <3>2, InOrderOnward DEF Moves
    <3> QED  BY <2>1, <2>2, <3>2, <3>3
  <2>4. CASE OwnFrame(d, g)
    <3>1. d.addr = m
      BY <1>2, <1>5, <1>11, NodeSound DEF Moves
    <3> QED  BY <1>5, <2>1, <2>2, <2>4, <3>1 DEF OwnFrame
  <2> QED  BY <2>1, <2>3, <2>4
<1>13. Numbered(conn')
  BY <1>6, <1>11, <1>12, NumberedStep
<1>14. Accounts(m)
  <2> SUFFICES ASSUME NEW p \in Gone(conn[m], conn'[m]) PROVE Answered(m, p)
    BY <1>2, <1>5, <1>8 DEF Accounts, Takes
  <2>1. /\ Releases(conn[m], frame) /\ conn[m].send_queue # <<>>
        /\ p = Head(conn[m].send_queue)
    BY <1>5, <1>8 DEF Takes
  <2>2. InOrder(conn[m], frame)
    <3>1. \A f \in Range(conn[n].mac) : f.type # "DATA" => InOrder(conn[f.dst], f)
      BY <1>1 DEF Numbered
    <3>2. frame.type # "DATA"
      BY <2>1 DEF Releases
    <3> HIDE DEF frame
    <3> QED  BY ONLY <1>7, <3>1, <3>2 DEF m
  <2>3. p = frame.packet
    <3> HIDE DEF m, frame
    <3>1. PICK k \in Nat : k = frame.seqno /\ ~ (k < k)
      BY <1>2
    <3>2. k = conn[m].seqno
      BY ONLY <2>1, <3>1 DEF Releases
    <3> QED  BY ONLY <2>1, <2>2, <3>1, <3>2 DEF InOrder
  <2>4. frame.dst = m
    OBVIOUS
  <2> HIDE DEF m
  <2> QED  BY <2>1, <2>3, <2>4 DEF Answered, Releases
<1>15. \A k \in Node : Accounts(k)
  <2>1. ASSUME NEW k \in Node \ {m} PROVE Accounts(k)
    BY <1>10, StaysTurns DEF Accounts, Stays
  <2> QED  BY <1>14, <2>1
<1>16. \A k \in Node : NewAcks(k)
  <2>1. ASSUME NEW k \in Node \ {m} PROVE NewAcks(k)
    BY <1>10 DEF Stays, Moves, Accounted, OwnFrame, NewAcks
  <2>2. NewAcks(m)
    <3> SUFFICES ASSUME NEW f \in Range(conn'[m].mac), f.type = "ACK",
                        NEW g \in G, Reply(f, g)
                 PROVE  \/ f.dst = m
                        \/ /\ f.dst \in Node
                           /\ \E h \in Range(conn[f.dst].mac) :
                                h.type = "DATA" /\ h.dst = m
      BY <1>2, <1>11 DEF Moves, Accounted, OwnFrame, NewAcks
    <3>1. g.type = "DATA" /\ (g = frame \/ OwnFrame(d, g)) /\ f.dst = g.src
      BY <1>8 DEF Takes, Reply
    <3>2. CASE g = frame
      <4>1. g.src = n
        BY <1>7, <3>1, <3>2, NodeSound DEF Numbered, OwnFrame
      <4> QED  BY <1>7, <3>1, <3>2, <4>1
    <3>3. CASE OwnFrame(d, g)
      <4>1. d.addr = m
        BY <1>2, <1>5, <1>11, NodeSound DEF Moves
      <4> QED  BY <3>1, <3>3, <4>1 DEF OwnFrame
    <3> QED  BY <3>1, <3>2, <3>3
  <2> QED  BY <2>1, <2>2
<1>17. ASSUME Lasting(setup), NEW k \in Node PROVE Backed(conn[k], conn'[k])
  <2>1. CASE k = m
    <3>1. I \subseteq TrueIds
      BY <1>17, IdsArePackets DEF I
    <3> HIDE DEF m, frame
    <3>2. Backed(conn[m], d)
      BY <1>1, <1>3, <3>1, PacketReceivedBacked DEF d
    <3> QED  BY <1>5, <2>1, <3>2
  <2>2. CASE k # m
    <3>1. Recalls(conn[k], conn'[k])
      <4>1. Recalls(conn[n], a)
        BY <1>1, FramesRecalled DEF a
      <4>2. conn'[k] = conn[k] \/ (k = n /\ conn'[k] = a)
        BY <1>5, <2>2
      <4> QED  BY <4>1, <4>2 DEF Recalls
    <3>2. Moves(conn[k], conn'[k], {})
      BY <1>10, <2>2 DEF Stays
    <3> QED  BY <3>1, <3>2, MovesBacked
  <2> QED  BY <2>1, <2>2
<1> QED  BY <1>13, <1>15, <1>16, <1>17 DEF Follows

LEMMA AnnounceFollows ==
  ASSUME Inv, NEW n \in Node, NEW m \in Node, Announce(n, m)
  PROVE  /\ Update(m, Announced(n, m)) /\ Works(conn[m], Announced(n, m))
         /\ Recalls(conn[m], Announced(n, m))
BY AnnouncedSound, StaysWorks, ServesRecalls DEF Announce

LEMMA ReportFollows ==
  ASSUME Inv, NEW n \in Node, NEW i \in OnAir(n), Report(n, i)
  PROVE  \E d : Update(n, d) /\ Works(conn[n], d) /\ Recalls(conn[n], d)
<1> DEFINE frame == conn[n].mac[i]
           r == RemoveFrame(conn[n], i)
<1>1. PICK t \in 1..frame.tries : Update(n, node_packet_sent(r, frame, t))
  BY DEF Report
<1> DEFINE d == node_packet_sent(r, frame, t)
<1>2. /\ conn[n] \in SoundConn(Ids(setup), Place(setup, n))
      /\ r \in SoundConn(Ids(setup), Place(setup, n))
      /\ Stays(conn[n], r, {})
  BY NodeSound, RemoveFrameStays
<1>3. t \in Nat
  <2>1. frame \in SoundFrame(Ids(setup))
    BY NodeSound
  <2>2. frame.tries \in 0..31
    BY <2>1, FrameFields
  <2> QED  BY <2>2
<1>4. Recalls(conn[n], r)
  BY <1>2, FramesRecalled
<1> HIDE DEF r, frame
<1>5. d \in SoundConn(Ids(setup), Place(setup, n)) /\ Works(r, d) /\ Recalls(r, d)
  BY <1>2, <1>3, PacketSentSound, PacketSentWorks, HandledRecalls DEF Serves
<1> HIDE DEF d
<1>6. Works(conn[n], d) /\ Recalls(conn[n], d)
  BY <1>2, <1>4, <1>5, WorksAfter DEF Recalls
<1> QED  BY <1>1, <1>6 DEF d

LEMMA SendFollows ==
  ASSUME Inv, NEW n \in Node, Send(n)
  PROVE  \E d : Update(n, d) /\ Works(conn[n], d) /\ Recalls(conn[n], d)
<1>0. PICK rexmits \in setup.rexmits, room \in setup.room :
        Update(n, libp_send(conn[n], rexmits, room))
  BY DEF Send
<1>1. PICK e : e = libp_send(conn[n], rexmits, room) /\ Update(n, e)
  BY <1>0
<1>2. conn[n] \in SoundConn(Ids(setup), Place(setup, n))
  BY NodeSound
<1>3. left.send > 0
  <2>1. Spend("send")
    BY DEF Send
  <2> QED  BY <2>1, Spent
<1>4. <<conn[n].addr, conn[n].eseqno, conn[n].sent + 1>> \in Ids(setup)
  BY <1>3, SendId
<1>5. rexmits \in 1..MAX_REXMITS
  BY SetupFields DEF Inv
<1>6. Works(conn[n], e)
  BY <1>1, <1>2, <1>4, <1>5, SendStays, StaysWorks
<1>7. e.recent_packets = conn[n].recent_packets
      /\ Range(conn[n].received) \subseteq Range(e.received)
  <2> DEFINE c == conn[n]
             I == Ids(setup)
             P == Place(setup, n)
             d == libp_send(c, rexmits, room)
  <2>1. /\ c \in SoundConn(I, P) /\ <<c.addr, c.eseqno, c.sent + 1>> \in I
    BY <1>2, <1>4
  <2>2. /\ d.recent_packets = c.recent_packets
        /\ Range(c.received) \subseteq Range(d.received)
    <3> HIDE DEF c, I, P
    <3> QED  BY <1>5, <2>1, SendSound
  <2> QED  BY <1>1, <2>2
<1>8. Recalls(conn[n], e)
  BY <1>7 DEF Recalls
<1> QED  BY <1>1, <1>6, <1>8

LEMMA NextFollows ==
  ASSUME Inv, Inv', Undisturbed(setup), Numbered(conn), SeqnosGrow, Next,
         setup' = setup
  PROVE  Follows
<1>1. ASSUME NEW n \in Node, NEW i \in OnAir(n), Receive(n, i) PROVE Follows
  BY <1>1, ReceiveFollows
<1>2. ASSUME NEW n \in Node, NEW i \in OnAir(n), Report(n, i) PROVE Follows
  BY <1>2, ReportFollows, OwnStep
<1>3. ASSUME NEW n \in Node, NEW i \in OnAir(n), Silent(n, i) PROVE Follows
  <2>1. conn[n] \in SoundConn(Ids(setup), Place(setup, n)) /\ i \in DOMAIN conn[n].mac
    BY NodeSound
  <2>2. /\ Works(conn[n], RemoveFrame(conn[n], i))
        /\ Recalls(conn[n], RemoveFrame(conn[n], i))
    BY <2>1, RemoveFrameStays, StaysWorks, FramesRecalled
  <2> QED  BY <1>3, <2>2, OwnStep DEF Silent
<1>4. ASSUME NEW n \in Node, NEW m \in Node, Announce(n, m) PROVE Follows
  BY <1>4, AnnounceFollows, OwnStep
<1>5. ASSUME NEW n \in Node, Retransmit(n) PROVE Follows
  <2>1. /\ Works(conn[n], retransmit_callback(conn[n]))
        /\ Serves(Ids(setup), Place(setup, n), conn[n], retransmit_callback(conn[n]))
    BY NodeSound, RetransmitCallbackWorks, RetransmitCallbackSound DEF Serves
  <2> QED  BY <1>5, <2>1, OwnStep, ServesRecalls DEF Retransmit
<1>6. ASSUME NEW n \in Node, NotSent(n) PROVE Follows
  <2>1. /\ Works(conn[n], retransmit_not_sent_callback(conn[n]))
        /\ Serves(Ids(setup), Place(setup, n), conn[n], retransmit_not_sent_callback(conn[n]))
    BY NodeSound, NotSentCallbackWorks, NotSentCallbackSound DEF Serves
  <2> QED  BY <1>6, <2>1, OwnStep, ServesRecalls DEF NotSent
<1>7. ASSUME NEW n \in Node, Probe(n) PROVE Follows
  <2>1. PICK room \in setup.room :
          Update(n, proactive_probing_callback(conn[n], room))
    BY <1>7 DEF Probe
  <2>2. /\ Works(conn[n], proactive_probing_callback(conn[n], room))
        /\ Recalls(conn[n], proactive_probing_callback(conn[n], room))
    BY NodeSound, ProbeStays, StaysWorks, ProbeSound DEF Recalls
  <2> QED  BY <2>1, <2>2, OwnStep
<1>8. ASSUME NEW n \in Node, TableTick(n) PROVE Follows
  <2>1. /\ Works(conn[n], Tick(conn[n]))
        /\ Serves(Ids(setup), Place(setup, n), conn[n], Tick(conn[n]))
    BY NodeSound, TickStays, StaysWorks, TickSound DEF Serves
  <2> QED  BY <1>8, <2>1, OwnStep, ServesRecalls DEF TableTick
<1>9. ASSUME NEW n \in Node, Send(n) PROVE Follows
  BY <1>9, SendFollows, OwnStep
<1>10. ASSUME NEW n \in Node, Purge(n) PROVE Follows
  <2>1. /\ Works(conn[n], libp_purge(conn[n]))
        /\ Serves(Ids(setup), Place(setup, n), conn[n], libp_purge(conn[n]))
    BY NodeSound, PurgeStays, StaysWorks, LibpPurgeSound DEF Serves
  <2> QED  BY <1>10, <2>1, OwnStep, ServesRecalls DEF Purge
<1>11. \A kind \in {"expire", "sink", "close", "reboot"} : ~ Fault(kind)
  BY DEF Undisturbed, Fault
<1>12. /\ \A n \in Node : \A i \in DOMAIN conn[n].send_queue : ~ ExpirePacket(n, i)
       /\ \A n \in Node : ~ Close(n) /\ ~ Reboot(n)
       /\ \A n \in Node, b \in BOOLEAN : ~ SetSink(n, b)
  BY <1>11 DEF ExpirePacket, Close, Reboot, SetSink
<1> QED  BY <1>1, <1>2, <1>3, <1>4, <1>5, <1>6, <1>7, <1>8, <1>9, <1>10, <1>12 DEF Next

LEMMA SetupStays ==
  ASSUME [Next]_vars
  PROVE  setup' = setup
<1>1. \A kind : Fault(kind) => setup' = setup
  BY DEF Fault, Spend
<1>2. \A what : Spend(what) => setup' = setup
  BY DEF Spend
<1>3. Free => setup' = setup
  BY DEF Free
<1>4. CASE Next
  BY <1>1, <1>2, <1>3, <1>4, Zenon
     DEF Next, Receive, Report, Silent, Announce, Retransmit, NotSent, Probe,
         TableTick, ExpirePacket, Send, Purge, SetSink, Close, Reboot
<1>5. CASE UNCHANGED vars
  BY <1>5 DEF vars
<1> QED  BY <1>4, <1>5

\* The frames in the stack stay numbered.
FramesInOrder == Inv /\ Undisturbed(setup) /\ Numbered(conn)

LEMMA InitOrdered == Init /\ Undisturbed(setup) => FramesInOrder
<1> SUFFICES ASSUME Init, Undisturbed(setup) PROVE FramesInOrder
  OBVIOUS
<1>1. Inv
  BY InitInv
<1>2. ASSUME NEW n \in Node PROVE conn[n].mac = <<>>
  <2>1. conn[n] = Opened(n) /\ setup \in Setups
    BY DEF Init
  <2>2. Opened(n).mac = <<>>
    BY <2>1, PlaceOf, OpenedSound
  <2> QED  BY <2>1, <2>2
<1>3. Numbered(conn)
  BY <1>2 DEF Numbered, Range
<1> QED  BY <1>1, <1>3 DEF FramesInOrder

LEMMA OrderedStep ==
  ASSUME FramesInOrder, [Next]_vars, [SeqnosGrow]_vars
  PROVE  FramesInOrder' /\ Follows
<1>1. Inv' /\ setup' = setup
  BY NextStep, SetupStays DEF FramesInOrder, Continues
<1>2. CASE UNCHANGED vars
  <2>1. Numbered(conn') /\ \A n \in Node : Accounts(n)
    BY <1>2 DEF vars, FramesInOrder, Accounts, Gone
  <2>2. \A n \in Node : NewAcks(n) /\ Backed(conn[n], conn'[n])
    BY <1>2 DEF vars, NewAcks, Alike, Backed
  <2> QED  BY <1>1, <2>1, <2>2 DEF FramesInOrder, Undisturbed, Numbered, Follows
<1>3. CASE ~ UNCHANGED vars
  <2>1. Next /\ SeqnosGrow
    BY <1>3
  <2>2. Follows
    BY <1>1, <2>1, NextFollows DEF FramesInOrder
  <2> QED  BY <1>1, <2>2 DEF FramesInOrder, Follows, Undisturbed, Numbered
<1> QED  BY <1>2, <1>3

\* What no seqno wraps and no rare event takes away stays in order.
Steadily == Undisturbed(setup) /\ [][SeqnosGrow]_vars

LEMMA OrderedAlways == Spec /\ Steadily => []FramesInOrder
<1>1. FramesInOrder /\ [Next]_vars /\ [SeqnosGrow]_vars => FramesInOrder'
  BY OrderedStep
<1> QED  BY <1>1, InitOrdered, PTL DEF Spec, Steadily

\* An ACK that would be accepted is for the packet that is being sent, when no
\* seqno wraps: the ACK of a packet that was given up cannot take its successor
\* from the queue (libp.c:170-212).
THEOREM AcksMatchHead == Spec /\ Steadily => []AckIsForHead
<1>1. FramesInOrder => AckIsForHead
  <2> SUFFICES ASSUME FramesInOrder, NEW n \in Node, NEW i \in DOMAIN conn[n].mac,
                      conn[n].mac[i].type = "ACK",
                      conn[n].mac[i].seqno = conn[conn[n].mac[i].dst].seqno
               PROVE  LET c == conn[conn[n].mac[i].dst]
                      IN  c.send_queue # <<>> /\ Head(c.send_queue) = conn[n].mac[i].packet
    BY DEF AckIsForHead
  <2>1. conn[n].mac[i] \in Range(conn[n].mac)
    BY DEF Range
  <2>2. InOrder(conn[conn[n].mac[i].dst], conn[n].mac[i])
    BY <2>1 DEF FramesInOrder, Numbered
  <2>3. PICK k \in Nat : k = conn[n].mac[i].seqno /\ ~ (k < k)
    BY <2>1, NodeSound, MacFrame DEF FramesInOrder
  <2> QED  BY <2>2, <2>3 DEF InOrder
<1> QED  BY <1>1, OrderedAlways, PTL

\* A packet leaves a queue when it is given up or when its own ACK arrives, on
\* the same conditions (libp.c:170-212, libp.c:280-300, libp.c:509-528).
THEOREM ReleasesMatch == Spec /\ Steadily => ReleasesAnswered
<1> DEFINE Act ==
      \A n \in Node :
        \A p \in Range(conn[n].send_queue) \ Range(conn'[n].send_queue) :
          \/ p.probe \/ p.id \in conn'[n].dropped
          \/ \E m \in Node : \E i \in OnAir(m) :
               LET f == conn[m].mac[i] IN
               /\ Receive(m, i) /\ f.dst = n /\ f.type = "ACK" /\ f.packet = p
               /\ "DROPPED" \notin f.flags \/ "LIFETIME_EXCEEDED" \in f.flags
<1>1. FramesInOrder /\ [Next]_vars /\ [SeqnosGrow]_vars => [Act]_vars
  <2> SUFFICES ASSUME FramesInOrder, [Next]_vars, [SeqnosGrow]_vars PROVE Act
    OBVIOUS
  <2>1. \A n \in Node : Accounts(n)
    BY OrderedStep DEF Follows
  <2> QED  BY <2>1, Zenon DEF Accounts, Gone, Answered
<1> HIDE DEF Act
<1>2. Spec /\ Steadily => [][Act]_vars
  BY <1>1, OrderedAlways, PTL DEF Spec, Steadily
<1> QED  BY <1>2 DEF ReleasesAnswered, Act

-----------------------------------------------------------------------------
(* No packet is lost, as long as data frames go down a fixed order of nodes:*)
(* what a node answers for is in a queue no higher than its own, so that a *)
(* node that releases a packet on an ACK leaves it with another.           *)

Upward(cs, level) ==
  \A n \in Node : \A f \in Range(cs[n].mac) :
    f.type = "ACK" => f.dst = n \/ level[n] < level[f.dst]

KeptBelow(cs, level, id, l) ==
  \E k \in Node : Settled(cs[k], id) \/ (level[k] <= l /\ Holds(cs[k], id))

PromisesKept(cs, level) ==
  \A n \in Node : \A id : Promised(cs[n], id) => KeptBelow(cs, level, id, level[n])

Keeping(level) == Upward(conn, level) /\ PromisesKept(conn, level)

\* A frame that is received changes no queue but that of its addressee.
LEMMA ReceiveQueues ==
  ASSUME Inv, NEW n \in Node, NEW i \in OnAir(n), Receive(n, i)
  PROVE  LET dst == conn[n].mac[i].dst
         IN  /\ n # dst
             /\ \A k \in Node \ {dst} : conn'[k].send_queue = conn[k].send_queue
<1> DEFINE frame == conn[n].mac[i]
           m     == frame.dst
           a     == HeardAgain(conn[n], i)
<1>1. /\ conn[n] \in SoundConn(Ids(setup), Place(setup, n))
      /\ frame \in SoundFrame(Ids(setup))
  BY NodeSound
<1>2. m \in Node /\ n # m
  BY <1>1, FrameFields DEF Receive, Hears
<1>3. PICK room \in setup.room :
        conn' = [conn EXCEPT ![n].mac[i].heard = @ + 1,
                             ![m] = node_packet_received(@, frame, room)]
  BY DEF Receive
<1> DEFINE d == node_packet_received(conn[m], frame, room)
<1>4. ASSUME NEW k \in Node, k # m
      PROVE  conn'[k] = conn[k] \/ (k = n /\ conn'[k] = a)
  <2>1. conn = [j \in Node |-> conn[j]]
    BY DEF Inv
  <2>2. conn' = [[conn EXCEPT ![n] = a] EXCEPT ![m] = d]
    BY <1>2, <1>3, <2>1 DEF HeardAgain
  <2> HIDE DEF a, d, m
  <2> QED  BY <1>2, <1>4, <2>1, <2>2
<1>5. a.send_queue = conn[n].send_queue
  BY <1>1, FieldTypes DEF SoundFields, HeardAgain
<1> HIDE DEF a
<1>6. \A k \in Node \ {m} : conn'[k].send_queue = conn[k].send_queue
  BY <1>4, <1>5
<1> QED  BY <1>2, <1>6

\* What is kept below l stays there, or goes further down.
LEMMA KeptStep ==
  ASSUME Inv, Follows, NEW level \in [Node -> Nat], Keeping(level),
         \A n \in Node : Backed(conn[n], conn'[n]),
         NEW id, NEW l \in Nat, KeptBelow(conn, level, id, l)
  PROVE  KeptBelow(conn', level, id, l)
<1>1. PICK k \in Node : Settled(conn[k], id) \/ (level[k] <= l /\ Holds(conn[k], id))
  BY DEF KeptBelow
<1>2. ASSUME NEW j \in Node, Settled(conn[j], id) PROVE Settled(conn'[j], id)
  BY <1>2 DEF Settled, Backed, Follows, Accounts
<1>3. CASE Settled(conn[k], id)
  BY <1>2, <1>3 DEF KeptBelow
<1>4. CASE level[k] <= l /\ Holds(conn[k], id)
  <2>1. PICK p \in Range(conn[k].send_queue) : ~ p.probe /\ p.id = id
    BY <1>4 DEF Holds
  <2>2. CASE p \in Range(conn'[k].send_queue)
    BY <1>4, <2>1, <2>2 DEF Holds, KeptBelow
  <2>3. CASE p.id \in conn'[k].dropped
    BY <2>1, <2>3 DEF Settled, KeptBelow
  <2>4. CASE Answered(k, p)
    <3>0. PICK m \in Node : \E i \in OnAir(m) :
            LET f == conn[m].mac[i] IN
            /\ Receive(m, i) /\ f.dst = k /\ f.type = "ACK" /\ f.packet = p
            /\ "DROPPED" \notin f.flags \/ "LIFETIME_EXCEEDED" \in f.flags
      BY <2>4 DEF Answered
    <3>1. PICK i \in OnAir(m) :
            LET f == conn[m].mac[i] IN
            /\ Receive(m, i) /\ f.dst = k /\ f.type = "ACK" /\ f.packet = p
            /\ "DROPPED" \notin f.flags \/ "LIFETIME_EXCEEDED" \in f.flags
      BY <3>0
    <3>2. conn[m].mac[i] \in Range(conn[m].mac)
      BY NodeSound DEF Range
    <3>3. Promised(conn[m], id)
      BY <2>1, <3>1, <3>2 DEF Promised, Binding
    <3>4. KeptBelow(conn, level, id, level[m])
      BY <3>3 DEF Keeping, PromisesKept
    <3>5. PICK j \in Node :
            Settled(conn[j], id) \/ (level[j] <= level[m] /\ Holds(conn[j], id))
      BY <3>4 DEF KeptBelow
    <3>6. m # k
      BY <3>1, ReceiveQueues
    <3>7. level[m] < level[k]
      BY <3>1, <3>2, <3>6 DEF Keeping, Upward
    <3>8. CASE Settled(conn[j], id)
      BY <1>2, <3>8 DEF KeptBelow
    <3>9. CASE level[j] <= level[m] /\ Holds(conn[j], id)
      <4>1. level[j] \in Nat /\ level[m] \in Nat /\ level[k] \in Nat
        OBVIOUS
      <4>2. j # k /\ level[j] <= l
        BY <1>4, <3>7, <3>9, <4>1
      <4>3. conn'[j].send_queue = conn[j].send_queue
        BY <3>1, <4>2, ReceiveQueues
      <4>4. Holds(conn'[j], id)
        BY <3>9, <4>3 DEF Holds
      <4> QED  BY <4>2, <4>4 DEF KeptBelow
    <3> QED  BY <3>5, <3>8, <3>9
  <2> QED  BY <2>1, <2>2, <2>3, <2>4 DEF Follows, Accounts, Gone
<1> QED  BY <1>1, <1>3, <1>4

LEMMA KeepingStep ==
  ASSUME Inv, Follows, Lasting(setup), NEW level \in [Node -> Nat],
         Keeping(level), Downhill(level)
  PROVE  /\ Upward(conn', level) /\ PromisesKept(conn', level)
         /\ \A id \in Held \ Held' : \E n \in Node : Settled(conn'[n], id)
<1>1. \A n \in Node : Backed(conn[n], conn'[n]) /\ level[n] \in Nat
  BY DEF Follows
<1>2. ASSUME NEW id, NEW l \in Nat, KeptBelow(conn, level, id, l)
      PROVE  KeptBelow(conn', level, id, l)
  BY <1>1, <1>2, KeptStep
<1>3. Upward(conn', level)
  <2> SUFFICES ASSUME NEW n \in Node, NEW f \in Range(conn'[n].mac),
                      f.type = "ACK", f.dst # n
               PROVE  level[n] < level[f.dst]
    BY DEF Upward
  <2>1. CASE \E g \in Range(conn[n].mac) : Alike(f, g)
    BY <2>1 DEF Alike, Keeping, Upward
  <2>2. CASE /\ f.dst \in Node
             /\ \E g \in Range(conn[f.dst].mac) : g.type = "DATA" /\ g.dst = n
    BY <2>2 DEF Downhill
  <2> QED  BY <2>1, <2>2 DEF Follows, NewAcks
<1>4. PromisesKept(conn', level)
  <2> SUFFICES ASSUME NEW n \in Node, NEW id, Promised(conn'[n], id)
               PROVE  KeptBelow(conn', level, id, level[n])
    BY DEF PromisesKept
  <2>1. CASE Promised(conn[n], id)
    BY <1>1, <1>2, <2>1 DEF Keeping, PromisesKept
  <2>2. CASE Holds(conn'[n], id) \/ Settled(conn'[n], id)
    BY <1>1, <2>2 DEF KeptBelow
  <2> QED  BY <1>1, <2>1, <2>2 DEF Backed
<1>5. ASSUME NEW id \in Held \ Held' PROVE \E n \in Node : Settled(conn'[n], id)
  <2>1. PICK k \in Node : Holds(conn[k], id)
    BY DEF Held, Holds
  <2>2. KeptBelow(conn', level, id, level[k])
    BY <1>1, <1>2, <2>1 DEF KeptBelow
  <2>3. \A n \in Node : ~ Holds(conn'[n], id)
    BY DEF Held, Holds
  <2> QED  BY <2>2, <2>3 DEF KeptBelow
<1> QED  BY <1>3, <1>4, <1>5

LEMMA InitKeeping ==
  ASSUME Init, NEW level PROVE Keeping(level)
<1> SUFFICES ASSUME NEW n \in Node
             PROVE  conn[n].mac = <<>> /\ conn[n].recent_packets = <<>>
  BY DEF Keeping, Upward, PromisesKept, Promised, Range
<1>1. conn[n] = Opened(n) /\ setup \in Setups
  BY DEF Init
<1>2. Opened(n).mac = <<>> /\ Opened(n).recent_packets = <<>>
  BY <1>1, PlaceOf, OpenedSound
<1> QED  BY <1>1, <1>2

\* Where data frames only go down some fixed order of the nodes, a packet leaves
\* the last queue that holds it only when an application has it or a node has
\* counted it: every ACK that releases a packet is sent by a node below that has
\* taken it on, or knows what became of it (libp.c:170-212, libp.c:352-528).
THEOREM NoneLost ==
  ASSUME NEW level \in [Node -> Nat]
  PROVE  Spec /\ Steadily /\ Lasting(setup) /\ []Downhill(level) => NothingLost
<1> DEFINE Act == \A id \in Held \ Held' : \E n \in Node :
                    id \in Range(conn'[n].received) \cup conn'[n].dropped
           Going == FramesInOrder /\ Lasting(setup) /\ Downhill(level)
           Steps == [Next]_vars /\ [SeqnosGrow]_vars
<1>1. Keeping(level) /\ Going /\ Steps => Keeping(level)' /\ [Act]_vars
  <2> SUFFICES ASSUME Keeping(level), Going, [Next]_vars, [SeqnosGrow]_vars
               PROVE  Keeping(level)' /\ Act
    OBVIOUS
  <2>1. Inv /\ Follows
    BY OrderedStep DEF FramesInOrder
  <2>2. /\ Upward(conn', level) /\ PromisesKept(conn', level)
        /\ \A id \in Held \ Held' : \E n \in Node : Settled(conn'[n], id)
    BY <2>1, KeepingStep
  <2>3. Keeping(level)'
    BY <2>2 DEF Keeping, Upward, PromisesKept, KeptBelow
  <2> QED  BY <2>2, <2>3 DEF Settled
<1>2. Init => Keeping(level)
  BY InitKeeping
<1>3. Lasting(setup) /\ [Next]_vars => Lasting(setup)'
  BY SetupStays DEF Lasting
<1>4. [Act]_vars => [setup.faults \cap {"expire", "sink", "close", "reboot"} = {}
                       => Act]_vars
  OBVIOUS
<1> HIDE DEF Act
<1>5. Spec /\ Steadily /\ Lasting(setup) /\ []Downhill(level)
        => [][setup.faults \cap {"expire", "sink", "close", "reboot"} = {} => Act]_vars
  BY <1>1, <1>2, <1>3, <1>4, OrderedAlways, PTL DEF Spec, Steadily
<1> QED  BY <1>5 DEF NothingLost, Act

\* The nodes that hear a node are above it, if it announces a rank: whom a node
\* may choose as its parent is then settled by the links and the routers.
Layered(s, level) ==
  \A k, n \in Node :
    <<k, n>> \in s.link /\ n # Sink /\ k \in s.routers \cup {Sink}
      => level[k] < level[n]

LEMMA LayersGoDown ==
  ASSUME NEW level, Inv, Lasting(setup), Layered(setup, level)
  PROVE  Downhill(level)
<1> SUFFICES ASSUME NEW n \in Node, NEW f \in Range(conn[n].mac), f.type = "DATA"
             PROVE  level[f.dst] < level[n]
  BY DEF Downhill
<1>1. conn[n].mac \in Seq(SentFrame(Ids(setup), Place(setup, n)))
  BY NodeSound
<1>2. PICK i \in DOMAIN conn[n].mac : f = conn[n].mac[i]
  BY DEF Range
<1>3. f \in SentFrame(Ids(setup), Place(setup, n))
  BY <1>1, <1>2
<1>4. f.dst \in Node /\ f.dst \in Parents(Place(setup, n))
  BY <1>3, FrameFields DEF SentFrame
<1>5. f.dst \in Place(setup, n).near
  BY <1>4, NullNotNode DEF Parents
<1> QED  BY <1>4, <1>5 DEF Place, Layered

\* The same from what is fixed when the network is built: where no node hears a
\* router above it, as around relays that do not hear each other, no packet is
\* lost without being counted (libp.c:352-528).
THEOREM NoneLostInLayers ==
  ASSUME NEW level \in [Node -> Nat]
  PROVE  Spec /\ Steadily /\ Lasting(setup) /\ Layered(setup, level) => NothingLost
<1> DEFINE Fixed == Lasting(setup) /\ Layered(setup, level)
<1>1. Inv /\ [Next]_vars => Inv'
  BY NextStep DEF Continues
<1>2. Fixed /\ [Next]_vars => Fixed'
  BY SetupStays DEF Lasting, Layered
<1>3. Inv /\ Fixed => Downhill(level)
  BY LayersGoDown
<1> HIDE DEF Fixed
<1>4. Spec /\ Fixed => []Downhill(level)
  BY <1>1, <1>2, <1>3, InitInv, PTL DEF Spec
<1> QED  BY <1>4, NoneLost, PTL DEF Fixed

-----------------------------------------------------------------------------
(* The duplicate filter of the sink.                                       *)

\* No node forgets what it has received, or stops being the sink.
Remembering(s) == s.faults \cap {"sink", "reboot"} = {}

\* The filter stands for the last packets its application got.
Filtered == Inv /\ Remembering(setup) /\ Window(Sink, conn[Sink])

\* A step that only changes the connection of node n.
LEMMA OwnWindow ==
  ASSUME Filtered, NEW n \in Node, NEW d, Update(n, d),
         n = Sink => Window(Sink, d)
  PROVE  Window(Sink, conn'[Sink])
<1>1. /\ n = Sink => conn'[Sink] = d
      /\ n # Sink => conn'[Sink] = conn[Sink]
  BY LibpNetAssumption DEF Filtered, Inv, Update
<1> QED  BY <1>1 DEF Filtered

LEMMA ServesWindow ==
  ASSUME Filtered, NEW n \in Node, NEW d, Update(n, d),
         Serves(Ids(setup), Place(setup, n), conn[n], d)
  PROVE  Window(Sink, conn'[Sink])
<1>1. n = Sink => Window(Sink, d)
  BY HandledWindow DEF Serves, Filtered
<1> QED  BY <1>1, OwnWindow

\* The frames in the stack are no matter of the filter.
LEMMA FramesKeepWindow ==
  ASSUME NEW I, NEW P, NEW c \in SoundConn(I, P), NEW i, Window(Sink, c)
  PROVE  Window(Sink, RemoveFrame(c, i)) /\ Window(Sink, HeardAgain(c, i))
<1>1. LET d == RemoveFrame(c, i) IN
        /\ d.received = c.received /\ d.recent_packets = c.recent_packets
        /\ d.rtmetric = c.rtmetric
  BY FieldTypes DEF SoundFields, RemoveFrame
<1>2. LET d == HeardAgain(c, i) IN
        /\ d.received = c.received /\ d.recent_packets = c.recent_packets
        /\ d.rtmetric = c.rtmetric
  BY FieldTypes DEF SoundFields, HeardAgain
<1> QED  BY <1>1, <1>2, Zenon DEF Window

LEMMA ReceiveWindow ==
  ASSUME Filtered, NEW n \in Node, NEW i \in OnAir(n), Receive(n, i)
  PROVE  Window(Sink, conn'[Sink])
<1> DEFINE frame == conn[n].mac[i]
           m     == frame.dst
           a     == HeardAgain(conn[n], i)
<1>1. Inv /\ Window(Sink, conn[Sink])
  BY DEF Filtered
<1>2. /\ frame \in SoundFrame(Ids(setup))
      /\ conn[n] \in SoundConn(Ids(setup), Place(setup, n))
  BY <1>1, NodeSound
<1>3. m \in Node /\ n # m
  BY <1>2, FrameFields DEF Receive, Hears
<1>4. conn[m] \in SoundConn(Ids(setup), Place(setup, m))
  BY <1>1, <1>3, NodeSound
<1>5. PICK room \in setup.room :
        conn' = [conn EXCEPT ![n].mac[i].heard = @ + 1,
                             ![m] = node_packet_received(@, frame, room)]
  BY DEF Receive
<1> DEFINE d == node_packet_received(conn[m], frame, room)
<1>6. /\ conn'[n] = a /\ conn'[m] = d
      /\ \A k \in Node : k # n /\ k # m => conn'[k] = conn[k]
  <2>1. conn = [k \in Node |-> conn[k]]
    BY <1>1 DEF Inv
  <2>2. conn' = [[conn EXCEPT ![n] = a] EXCEPT ![m] = d]
    BY <1>3, <1>5, <2>1 DEF HeardAgain
  <2> HIDE DEF a, d, m
  <2> QED  BY <1>3, <2>1, <2>2
<1>7. n = Sink => Window(Sink, a)
  BY <1>1, <1>2, FramesKeepWindow
<1>8. m = Sink => Window(Sink, d)
  <2> HIDE DEF m, frame
  <2> QED  BY <1>1, <1>2, <1>4, PacketReceivedWindow
<1> HIDE DEF a, d, m
<1> QED  BY <1>1, <1>6, <1>7, <1>8, LibpNetAssumption

LEMMA ReportWindow ==
  ASSUME Filtered, NEW n \in Node, NEW i \in OnAir(n), Report(n, i)
  PROVE  Window(Sink, conn'[Sink])
<1> DEFINE frame == conn[n].mac[i]
           r == RemoveFrame(conn[n], i)
<1>1. PICK t \in 1..frame.tries : Update(n, node_packet_sent(r, frame, t))
  BY DEF Report
<1>2. /\ conn[n] \in SoundConn(Ids(setup), Place(setup, n)) /\ i \in DOMAIN conn[n].mac
      /\ frame \in SoundFrame(Ids(setup))
  BY NodeSound DEF Filtered
<1>3. r \in SoundConn(Ids(setup), Place(setup, n))
  BY <1>2, RemoveFrameSafe DEF Safe, Answers
<1>4. n = Sink => Window(Sink, r)
  BY <1>2, FramesKeepWindow DEF Filtered
<1>5. t \in Nat
  <2>1. frame.tries \in 0..31
    BY <1>2, FrameFields
  <2> QED  BY <2>1
<1> HIDE DEF r, frame
<1>6. Handled(r, node_packet_sent(r, frame, t))
  BY <1>3, <1>5, PacketSentSound DEF Serves
<1>7. n = Sink => Window(Sink, node_packet_sent(r, frame, t))
  BY <1>4, <1>6, HandledWindow
<1> QED  BY <1>1, <1>7, OwnWindow

LEMMA SendStepWindow ==
  ASSUME Filtered, NEW n \in Node, Send(n)
  PROVE  Window(Sink, conn'[Sink])
<1>1. PICK rexmits \in setup.rexmits, room \in setup.room :
        Update(n, libp_send(conn[n], rexmits, room))
  BY DEF Send
<1>2. Inv /\ Window(Sink, conn[Sink])
  BY DEF Filtered
<1>3. conn[n] \in SoundConn(Ids(setup), Place(setup, n)) /\ conn[n].addr = n
  BY <1>2, NodeSound
<1>4. left.send > 0
  <2>1. Spend("send")
    BY DEF Send
  <2> QED  BY <1>2, <2>1, Spent
<1>5. <<conn[n].addr, conn[n].eseqno, conn[n].sent + 1>> \in Ids(setup)
  BY <1>2, <1>4, SendId
<1>6. n = Sink => Window(Sink, libp_send(conn[n], rexmits, room))
  BY <1>2, <1>3, <1>5, SendWindow
<1> QED  BY <1>1, <1>6, OwnWindow

LEMMA FilteredStep ==
  ASSUME Filtered, [Next]_vars
  PROVE  Filtered'
<1> DEFINE Stands == Window(Sink, conn'[Sink])
<1>1. /\ Inv /\ Inv' /\ setup' = setup /\ Remembering(setup)
  BY NextStep, SetupStays DEF Filtered, Continues
<1>2. \A k \in Node : conn[k] \in SoundConn(Ids(setup), Place(setup, k))
  BY <1>1, NodeSound
<1>3. CASE UNCHANGED vars
  BY <1>1, <1>3 DEF vars, Filtered, Remembering
<1>4. ASSUME NEW n \in Node, NEW i \in OnAir(n), Silent(n, i) PROVE Stands
  <2>1. n = Sink => Window(Sink, RemoveFrame(conn[n], i))
    BY <1>2, FramesKeepWindow DEF Filtered
  <2> QED  BY <1>4, <2>1, OwnWindow DEF Silent
<1>5. ASSUME NEW n \in Node, NEW m \in Node, Announce(n, m) PROVE Stands
  <2>1. Serves(Ids(setup), Place(setup, m), conn[m], Announced(n, m))
    BY <1>1, <1>5, AnnouncedSound
  <2> QED  BY <1>5, <2>1, ServesWindow DEF Announce
<1>6. ASSUME NEW n \in Node, Retransmit(n) PROVE Stands
  <2>1. Serves(Ids(setup), Place(setup, n), conn[n], retransmit_callback(conn[n]))
    BY <1>2, RetransmitCallbackSound DEF Serves
  <2> QED  BY <1>6, <2>1, ServesWindow DEF Retransmit
<1>7. ASSUME NEW n \in Node, NotSent(n) PROVE Stands
  <2>1. Serves(Ids(setup), Place(setup, n), conn[n], retransmit_not_sent_callback(conn[n]))
    BY <1>2, NotSentCallbackSound
  <2> QED  BY <1>7, <2>1, ServesWindow DEF NotSent
<1>8. ASSUME NEW n \in Node, Probe(n) PROVE Stands
  <2>1. PICK room \in setup.room :
          Update(n, proactive_probing_callback(conn[n], room))
    BY <1>8 DEF Probe
  <2>2. conn[n].rtmetric = RTMETRIC_SINK
          => proactive_probing_callback(conn[n], room) = conn[n]
    BY <1>2, ProbeSound
  <2>3. n = Sink => Window(Sink, proactive_probing_callback(conn[n], room))
    BY <2>2 DEF Filtered, Window
  <2> QED  BY <2>1, <2>3, OwnWindow
<1>9. ASSUME NEW n \in Node, TableTick(n) PROVE Stands
  <2>1. Serves(Ids(setup), Place(setup, n), conn[n], Tick(conn[n]))
    BY <1>2, TickSound
  <2> QED  BY <1>9, <2>1, ServesWindow DEF TableTick
<1>10. ASSUME NEW n \in Node, NEW i \in DOMAIN conn[n].send_queue, ExpirePacket(n, i)
       PROVE  Stands
  <2>1. Serves(Ids(setup), Place(setup, n), conn[n], Expire(conn[n], i))
    BY <1>2, ExpireSound
  <2> QED  BY <1>10, <2>1, ServesWindow DEF ExpirePacket
<1>11. ASSUME NEW n \in Node, Purge(n) PROVE Stands
  <2>1. Serves(Ids(setup), Place(setup, n), conn[n], libp_purge(conn[n]))
    BY <1>2, LibpPurgeSound
  <2> QED  BY <1>11, <2>1, ServesWindow DEF Purge
<1>12. ASSUME NEW n \in Node, Close(n) PROVE Stands
  <2>1. LET d == libp_close(conn[n]) IN
          /\ d.received = conn[n].received /\ d.rtmetric = conn[n].rtmetric
          /\ d.recent_packets = conn[n].recent_packets
    BY <1>2, CloseSound
  <2>2. n = Sink => Window(Sink, libp_close(conn[n]))
    BY <2>1 DEF Filtered, Window
  <2> QED  BY <1>12, <2>2, OwnWindow DEF Close
<1>13. /\ \A n \in Node, b \in BOOLEAN : ~ SetSink(n, b)
       /\ \A n \in Node : ~ Reboot(n)
  BY <1>1 DEF Remembering, SetSink, Reboot, Fault
<1>14. ASSUME NEW n \in Node, NEW i \in OnAir(n), Receive(n, i) PROVE Stands
  BY <1>14, ReceiveWindow
<1>15. ASSUME NEW n \in Node, NEW i \in OnAir(n), Report(n, i) PROVE Stands
  BY <1>15, ReportWindow
<1>16. ASSUME NEW n \in Node, Send(n) PROVE Stands
  BY <1>16, SendStepWindow
<1> HIDE DEF Stands
<1>17. CASE Next
  <2>1. Stands
    BY <1>4, <1>5, <1>6, <1>7, <1>8, <1>9, <1>10, <1>11, <1>12, <1>13, <1>14,
       <1>15, <1>16, <1>17 DEF Next
  <2> QED  BY <1>1, <2>1 DEF Stands, Filtered, Remembering
<1> QED  BY <1>3, <1>17

LEMMA InitFiltered == Init /\ Remembering(setup) => Filtered
<1> SUFFICES ASSUME Init, Remembering(setup) PROVE Filtered
  OBVIOUS
<1>1. Inv
  BY InitInv
<1>2. conn[Sink] = Opened(Sink) /\ setup \in Setups /\ Sink \in Node
  BY LibpNetAssumption DEF Init
<1> DEFINE c == Opened(Sink)
<1>3. /\ c.recent_packets = <<>> /\ c.received = <<>> /\ HonestSink(c)
  BY <1>2, PlaceOf, OpenedSound
<1> HIDE DEF c
<1>4. Windowed(Sink, <<>>, <<>>)
  BY LibpAssumption DEF Windowed
<1>5. Window(Sink, c)
  BY <1>3, <1>4 DEF Window, HonestSink
<1> QED  BY <1>1, <1>2, <1>5 DEF Filtered, c

\* As long as no node starts again, the application of the sink gets a packet of
\* another node a second time only when more packets than the filter has entries
\* came in between, however many are sent (libp.c:314-327, libp.c:375-393).
THEOREM RepeatsFiltered == Spec => [](Remembering(setup) => RepeatsApart)
<1>1. Filtered /\ [Next]_vars => Filtered'
  BY FilteredStep
<1>2. Filtered => RepeatsApart
  BY DEF Filtered, Window, Windowed, RepeatsApart
<1>3. [Next]_vars /\ ~ Remembering(setup) => ~ Remembering(setup')
  BY SetupStays
<1>4. (~ Remembering(setup))' <=> ~ Remembering(setup')
  BY DEF Remembering
<1> DEFINE Either == Filtered \/ ~ Remembering(setup)
<1>5. Init => Either
  BY InitFiltered
<1>6. Either /\ [Next]_vars => Either'
  BY <1>1, <1>3, <1>4
<1>7. Either => (Remembering(setup) => RepeatsApart)
  BY <1>2
<1> HIDE DEF Either
<1> QED  BY <1>5, <1>6, <1>7, PTL DEF Spec

-----------------------------------------------------------------------------
(* The network implements Delivery, step by step.                          *)

\* Some queue of the network has the packet, or it is settled.
Tracked(cs, id) == \E n \in Node : Holds(cs[n], id) \/ Settled(cs[n], id)

\* The packets the applications of the network s may send.
Sendable(s) == {id \in TrueIds : id[1] \in s.sources /\ id[3] <= s.bound.send}

\* Every packet on its way was sent, and is known; only the sink delivers.
Traceable(s, cs) ==
  /\ \A n \in Node \ {Sink} : cs[n].received = <<>> /\ ~ cs[n].is_sink
  /\ \A n \in Node : \A f \in Range(cs[n].mac) :
       f.type = "DATA" /\ ~ f.packet.probe => Tracked(cs, f.packet.id)
  /\ \A id : Tracked(cs, id) =>
       id \in TrueIds /\ id[1] \in s.sources /\ id[3] <= cs[id[1]].sent

\* A delivered packet that comes to the sink again is still in its filter.
Unforgotten(cs) ==
  \A n \in Node : \A f \in Range(cs[n].mac) :
    /\ f.type = "DATA" /\ f.dst = Sink /\ ~ f.packet.probe
    /\ f.packet.id \in Range(cs[Sink].received)
    => Seen(cs[Sink], f.packet)

\* The node does no more than with frames it has, or for its own packets.
Aside(c, d) == SameBooks(c, d) /\ SendsOwn(c, d)

\* The node takes on, gives up or delivers the packet p, which is on its way.
TakesOn(c, d, p) ==
  \/ Enqueues(c, d, p)
  \/ Counts(c, d, p)
  \/ Hands(c, d, p) /\ p.id \notin Range(c.received)

SendSpent == left'.send < left.send

\* All that may become of the books of one node.
Booked(s, cs, c, d) ==
  \/ Settles(c, d) /\ SendsOwn(c, d)
  \/ /\ Carries(c, d)
     /\ \E p \in SoundPacket(Ids(s)) : (p.probe \/ Tracked(cs, p.id)) /\ TakesOn(c, d, p)
  \/ Carries(c, d) /\ Sends(Ids(s), c, d) /\ c.addr \in s.sources /\ SendSpent

OneBooks(s, cs, ds) ==
  \E k \in Node : /\ Booked(s, cs, cs[k], ds[k])
                  /\ \A j \in Node \ {k} : Aside(cs[j], ds[j])

LEMMA AsideSame == ASSUME NEW c PROVE Aside(c, c)
BY SameAsIs DEF Aside, SendsOwn

LEMMA SettlesBooked ==
  ASSUME NEW s, NEW cs, NEW c, NEW d, Settles(c, d), SendsOwn(c, d)
  PROVE  Booked(s, cs, c, d)
BY DEF Booked

\* A step in which one node does something of its own.
LEMMA OwnBooks ==
  ASSUME Inv, NEW n \in Node, NEW d, Update(n, d), Booked(setup, conn, conn[n], d)
  PROVE  OneBooks(setup, conn, conn')
<1>1. conn = [k \in Node |-> conn[k]]
  BY DEF Inv
<1>2. conn'[n] = d /\ \A j \in Node \ {n} : conn'[j] = conn[j]
  BY <1>1 DEF Update
<1> QED  BY <1>2, AsideSame DEF OneBooks

LEMMA SetMacAside ==
  ASSUME NEW I, NEW P, NEW c \in SoundConn(I, P), NEW m,
         \A f \in Range(m) : \E g \in Range(c.mac) : Alike(f, g)
  PROVE  Aside(c, SetMac(c, m))
<1> DEFINE d == SetMac(c, m)
<1>1. /\ d.send_queue = c.send_queue /\ d.dropped = c.dropped /\ d.sent = c.sent
      /\ d.received = c.received /\ d.is_sink = c.is_sink /\ d.mac = m
  BY FieldTypes DEF SoundFields, SetMac
<1> HIDE DEF d
<1>2. SameBooks(c, d)
  BY <1>1 DEF SameBooks
<1>3. SendsOwn(c, d)
  BY <1>1 DEF SendsOwn, Alike
<1> QED  BY <1>2, <1>3 DEF Aside, d

LEMMA RemoveFrameAside ==
  ASSUME NEW I, NEW P, NEW c \in SoundConn(I, P), NEW i \in DOMAIN c.mac
  PROVE  Aside(c, RemoveFrame(c, i))
<1> DEFINE m == Without(c.mac, i)
<1>1. c.mac \in Seq(SentFrame(I, P)) /\ i \in 1..Len(c.mac)
  BY FieldTypes
<1>2. Range(m) \subseteq Range(c.mac)
  BY <1>1, WithoutOne
<1>3. RemoveFrame(c, i) = SetMac(c, m)
  BY DEF RemoveFrame, SetMac, Without
<1> HIDE DEF m
<1>4. \A f \in Range(m) : f \in Range(c.mac) /\ Alike(f, f)
  BY <1>2 DEF Alike
<1> QED  BY <1>3, <1>4, SetMacAside

LEMMA HeardAgainAside ==
  ASSUME NEW I, NEW P, NEW c \in SoundConn(I, P), NEW i \in DOMAIN c.mac
  PROVE  Aside(c, HeardAgain(c, i))
<1> DEFINE f == [c.mac[i] EXCEPT !.heard = @ + 1]
           m == [c.mac EXCEPT ![i] = f]
<1>1. /\ c.mac \in Seq(SentFrame(I, P))
      /\ i \in 1..Len(c.mac)
      /\ c.mac[i] \in SentFrame(I, P)
  BY FieldTypes
<1>2. Alike(f, c.mac[i])
  BY <1>1 DEF SentFrame, SoundFrame, Frame, Alike
<1>3. HeardAgain(c, i) = SetMac(c, m)
  BY <1>1, FieldTypes DEF SoundFields, HeardAgain, SetMac
<1> HIDE DEF f
<1>4. ASSUME NEW g \in Range(m)
      PROVE  \E h \in Range(c.mac) : Alike(g, h)
  <2>1. PICK j \in DOMAIN m : g = m[j]
    BY DEF Range
  <2>2. j \in DOMAIN c.mac /\ c.mac[j] \in Range(c.mac)
    BY <1>1, <2>1 DEF Range
  <2>3. Alike(g, c.mac[j])
    BY <1>2, <2>1, <2>2 DEF Alike
  <2> QED  BY <2>2, <2>3
<1> HIDE DEF m
<1> QED  BY <1>3, <1>4, SetMacAside

\* Only the sink has the rank of a sink.
LEMMA NoOtherSink ==
  ASSUME Inv, NEW s, NEW n \in Node, ~ conn[n].is_sink
  PROVE  conn[n].rtmetric # RTMETRIC_SINK
<1>1. conn[n] \in SoundConn(Ids(setup), Place(setup, n))
  BY NodeSound
<1> DEFINE c == conn[n]
<1>2. c.rtmetric < LIBP_LINK_METRIC_UNIT => c.is_sink
  BY <1>1, FieldTypes
<1> HIDE DEF c
<1> QED  BY <1>2, Numbers DEF c

\* The books are as before, and no frame has been handed down but from the queue.
LEMMA SettlesAfter ==
  ASSUME NEW c, NEW d, NEW e, Aside(c, d), Settles(d, e), SendsOwn(d, e)
  PROVE  Settles(c, e) /\ SendsOwn(c, e)
<1>1. Settles(c, e)
  BY SettlesTrans DEF Aside
<1>2. d.send_queue = c.send_queue
  BY DEF Aside, SameBooks
<1>3. SendsOwn(c, e)
  BY <1>2 DEF Aside, SendsOwn
<1> QED  BY <1>1, <1>3

LEMMA ServesSends ==
  ASSUME NEW I, NEW P, NEW c \in SoundConn(I, P), NEW d, Serves(I, P, c, d)
  PROVE  SendsOwn(c, d)
BY HandledSends DEF Serves

LEMMA CarriedSends ==
  ASSUME NEW c, NEW d, SameBooks(c, d), Carries(c, d)
  PROVE  Settles(c, d) /\ SendsOwn(c, d)
BY DEF SameBooks, Carries, Settles, SendsOwn

\* A node that receives a packet.
LEMMA TakenBooked ==
  ASSUME Inv, Traceable(setup, conn), Unforgotten(conn), NEW m \in Node,
         NEW n \in Node, NEW frame \in Range(conn[n].mac), frame.dst = m,
         NEW d, NEW p \in SoundPacket(Ids(setup)), Got(conn[m], frame, p),
         Carries(conn[m], d), Accepts(Ids(setup), conn[m], d, p)
  PROVE  Booked(setup, conn, conn[m], d)
<1> DEFINE c == conn[m]
<1>1. p.probe \/ Tracked(conn, p.id)
  <2>1. CASE frame.type = "DATA" /\ p = frame.packet
    BY <2>1 DEF Traceable
  <2>2. CASE p \in Range(c.send_queue)
    BY <2>2 DEF Tracked, Holds
  <2> QED  BY <2>1, <2>2 DEF Got
<1>2. CASE SameBooks(c, d)
  BY <1>2, CarriedSends, SettlesBooked
<1>3. CASE \E q \in SoundPacket(Ids(setup)) :
             q.id = p.id /\ q.probe = p.probe /\ Enqueues(c, d, q)
  BY <1>1, <1>3 DEF Booked, TakesOn
<1>4. CASE Counts(c, d, p)
  BY <1>1, <1>4 DEF Booked, TakesOn
<1>5. CASE Hands(c, d, p)
  <2>1. c.rtmetric = RTMETRIC_SINK /\ ~ Seen(c, p) /\ ~ p.probe
    BY <1>5 DEF Hands
  <2>2. m = Sink
    BY <2>1, NoOtherSink DEF Traceable
  <2>3. frame.type = "DATA" /\ p = frame.packet
    BY <2>1 DEF Got
  <2>4. p.id \notin Range(c.received)
    BY <2>1, <2>2, <2>3 DEF Unforgotten
  <2> QED  BY <1>1, <1>5, <2>4 DEF Booked, TakesOn
<1> QED  BY <1>2, <1>3, <1>4, <1>5 DEF Accepts

LEMMA ReceiveBooks ==
  ASSUME Inv, Lasting(setup), Traceable(setup, conn), Unforgotten(conn),
         NEW n \in Node, NEW i \in OnAir(n), Receive(n, i)
  PROVE  OneBooks(setup, conn, conn')
<1> DEFINE I     == Ids(setup)
           frame == conn[n].mac[i]
           m     == frame.dst
           a     == HeardAgain(conn[n], i)
<1>1. /\ conn[n] \in SoundConn(I, Place(setup, n))
      /\ frame \in SoundFrame(I) /\ i \in DOMAIN conn[n].mac
  BY NodeSound
<1>2. m \in Node /\ n # m
  BY <1>1, FrameFields DEF Receive, Hears
<1>3. conn[m] \in SoundConn(I, Place(setup, m))
  BY <1>2, NodeSound
<1>4. PICK room \in setup.room :
        conn' = [conn EXCEPT ![n].mac[i].heard = @ + 1,
                             ![m] = node_packet_received(@, frame, room)]
  BY DEF Receive
<1> DEFINE d == node_packet_received(conn[m], frame, room)
<1>5. /\ conn'[n] = a /\ conn'[m] = d
      /\ \A k \in Node : k # n /\ k # m => conn'[k] = conn[k]
  <2>1. conn = [k \in Node |-> conn[k]]
    BY DEF Inv
  <2>2. conn' = [[conn EXCEPT ![n] = a] EXCEPT ![m] = d]
    BY <1>2, <1>4, <2>1 DEF HeardAgain
  <2> HIDE DEF a, d, m
  <2> QED  BY <1>2, <2>1, <2>2
<1>6. frame \in Range(conn[n].mac)
  BY <1>1 DEF Range
<1>7. Aside(conn[n], a)
  BY <1>1, HeardAgainAside
<1>8. conn[m].rtmetric = RTMETRIC_SINK \/ ~ conn[m].is_sink
  <2>1. CASE m = Sink
    <3>1. HonestSink(conn[m])
      BY <1>2, <2>1 DEF Inv, NodeInv
    <3> QED  BY <3>1 DEF HonestSink
  <2>2. CASE m # Sink
    BY <1>2, <2>2 DEF Traceable
  <2> QED  BY <2>1, <2>2
<1>9. \/ Settles(conn[m], d) /\ SendsOwn(conn[m], d)
      \/ \E p \in SoundPacket(I) :
           Got(conn[m], frame, p) /\ Carries(conn[m], d) /\ Accepts(I, conn[m], d, p)
  <2> HIDE DEF m, frame
  <2> QED  BY <1>1, <1>3, <1>8, PacketReceivedAccepts
<1>10. frame.dst = m
  OBVIOUS
<1> HIDE DEF a, d, m, frame
<1>11. Booked(setup, conn, conn[m], d)
  <2>1. CASE Settles(conn[m], d) /\ SendsOwn(conn[m], d)
    BY <2>1, SettlesBooked
  <2>2. CASE \E p \in SoundPacket(I) :
           Got(conn[m], frame, p) /\ Carries(conn[m], d) /\ Accepts(I, conn[m], d, p)
    BY <1>2, <1>6, <1>10, <2>2, TakenBooked
  <2> QED  BY <1>9, <2>1, <2>2
<1> QED  BY <1>2, <1>5, <1>7, <1>11, AsideSame DEF OneBooks

LEMMA ReportBooks ==
  ASSUME Inv, NEW n \in Node, NEW i \in OnAir(n), Report(n, i)
  PROVE  OneBooks(setup, conn, conn')
<1> DEFINE frame == conn[n].mac[i]
           r == RemoveFrame(conn[n], i)
<1>1. PICK t \in 1..frame.tries : Update(n, node_packet_sent(r, frame, t))
  BY DEF Report
<1> DEFINE d == node_packet_sent(r, frame, t)
<1>2. /\ conn[n] \in SoundConn(Ids(setup), Place(setup, n))
      /\ r \in SoundConn(Ids(setup), Place(setup, n))
      /\ Aside(conn[n], r)
  BY NodeSound, RemoveFrameStays, RemoveFrameAside
<1>3. t \in Nat
  <2>1. frame \in SoundFrame(Ids(setup))
    BY NodeSound
  <2>2. frame.tries \in 0..31
    BY <2>1, FrameFields
  <2> QED  BY <2>2
<1> HIDE DEF r, frame
<1>4. Settles(r, d) /\ SendsOwn(r, d)
  BY <1>2, <1>3, PacketSentSound, PacketSentSettles, ServesSends
<1> HIDE DEF d
<1>5. Booked(setup, conn, conn[n], d)
  BY <1>2, <1>4, SettlesAfter, SettlesBooked
<1> QED  BY <1>1, <1>5, OwnBooks DEF d

LEMMA SendBooks ==
  ASSUME Inv, Traceable(setup, conn), Sink \notin setup.sources,
         NEW n \in Node, Send(n)
  PROVE  OneBooks(setup, conn, conn')
<1>0. PICK rexmits \in setup.rexmits, room \in setup.room :
        Update(n, libp_send(conn[n], rexmits, room))
  BY DEF Send
<1>1. PICK e : e = libp_send(conn[n], rexmits, room) /\ Update(n, e)
  BY <1>0
<1>2. conn[n] \in SoundConn(Ids(setup), Place(setup, n)) /\ conn[n].addr = n
  BY NodeSound
<1>3. left.send > 0 /\ SendSpent
  <2>1. Spend("send")
    BY DEF Send
  <2>2. /\ left["send"] > 0 /\ left'["send"] = left["send"] - 1
        /\ left \in Bounds
    BY <2>1, Spent DEF Inv
  <2>3. left.send \in Nat
    BY <2>2 DEF Bounds
  <2> QED  BY <2>2, <2>3 DEF SendSpent
<1>4. <<conn[n].addr, conn[n].eseqno, conn[n].sent + 1>> \in Ids(setup)
  BY <1>3, SendId
<1>5. rexmits \in 1..MAX_REXMITS
  BY SetupFields DEF Inv
<1>6. n \in setup.sources /\ n # Sink
  BY DEF Send
<1>7. conn[n].rtmetric # RTMETRIC_SINK
  BY <1>6, NoOtherSink DEF Traceable
<1>8. Carries(conn[n], e) /\ Sends(Ids(setup), conn[n], e)
  BY <1>1, <1>2, <1>4, <1>5, <1>7, SendSends
<1>9. Booked(setup, conn, conn[n], e)
  BY <1>2, <1>3, <1>6, <1>8 DEF Booked
<1> QED  BY <1>1, <1>9, OwnBooks

LEMMA ProbeBooks ==
  ASSUME Inv, NEW n \in Node, Probe(n)
  PROVE  OneBooks(setup, conn, conn')
<1>1. PICK room \in setup.room :
        Update(n, proactive_probing_callback(conn[n], room))
  BY DEF Probe
<1>2. PICK e : /\ e = proactive_probing_callback(conn[n], room)
               /\ Update(n, e)
  BY <1>1
<1>3. conn[n] \in SoundConn(Ids(setup), Place(setup, n))
  BY NodeSound
<1>4. /\ Carries(conn[n], e)
      /\ \/ SameBooks(conn[n], e)
         \/ \E p \in SoundPacket(Ids(setup)) : p.probe /\ Enqueues(conn[n], e, p)
  BY <1>2, <1>3, ProbeEnqueues
<1>5. CASE SameBooks(conn[n], e)
  BY <1>2, <1>4, <1>5, CarriedSends, SettlesBooked, OwnBooks
<1>6. CASE \E p \in SoundPacket(Ids(setup)) : p.probe /\ Enqueues(conn[n], e, p)
  <2>1. Booked(setup, conn, conn[n], e)
    BY <1>4, <1>6 DEF Booked, TakesOn
  <2> QED  BY <1>2, <2>1, OwnBooks
<1> QED  BY <1>4, <1>5, <1>6

\* A step in which a node serves its queue.
LEMMA ServesBooks ==
  ASSUME Inv, NEW n \in Node, NEW d, Update(n, d),
         Serves(Ids(setup), Place(setup, n), conn[n], d), Settles(conn[n], d)
  PROVE  OneBooks(setup, conn, conn')
BY NodeSound, ServesSends, SettlesBooked, OwnBooks

LEMMA AnnouncedBooks ==
  ASSUME Inv, NEW n \in Node, NEW m \in Node, Announce(n, m)
  PROVE  SameBooks(conn[m], Announced(n, m))
<1>1. /\ conn[n] \in SoundConn(Ids(setup), Place(setup, n))
      /\ conn[m] \in SoundConn(Ids(setup), Place(setup, m))
      /\ NodeInv(setup, m, conn[m], left)
  BY NodeSound
<1>2. conn[n].announcement \in 0..RankLimit-1 /\ Place(setup, n).router
  BY <1>1, FieldTypes DEF Announce, Announceable
<1>3. n \in Parents(Place(setup, m)) \/ conn[m].rtmetric = RTMETRIC_SINK
  <2>1. n \in Parents(Place(setup, m)) \/ (Lasting(setup) /\ m = Sink)
    BY <1>2, HeardBy DEF Announce, Hears
  <2> QED  BY <1>1, <2>1 DEF NodeInv, HonestSink
<1>4. SameBooks(conn[m], received_announcement(conn[m], n, conn[n].announcement))
  BY <1>1, <1>2, <1>3, AnnouncementSame
<1> QED  BY <1>4 DEF Announced

LEMMA NextBooks ==
  ASSUME Inv, Undisturbed(setup), Lasting(setup), Sink \notin setup.sources,
         Traceable(setup, conn), Unforgotten(conn), Next
  PROVE  OneBooks(setup, conn, conn')
<1> DEFINE One == OneBooks(setup, conn, conn')
<1>1. ASSUME NEW n \in Node, NEW i \in OnAir(n), Receive(n, i) PROVE One
  BY <1>1, ReceiveBooks
<1>2. ASSUME NEW n \in Node, NEW i \in OnAir(n), Report(n, i) PROVE One
  BY <1>2, ReportBooks
<1>3. ASSUME NEW n \in Node, NEW i \in OnAir(n), Silent(n, i) PROVE One
  <2>1. conn[n] \in SoundConn(Ids(setup), Place(setup, n)) /\ i \in DOMAIN conn[n].mac
    BY NodeSound
  <2>2. Aside(conn[n], RemoveFrame(conn[n], i))
    BY <2>1, RemoveFrameAside
  <2>3. Booked(setup, conn, conn[n], RemoveFrame(conn[n], i))
    BY <2>2, SettlesBooked DEF Aside, Settles
  <2> QED  BY <1>3, <2>3, OwnBooks DEF Silent
<1>4. ASSUME NEW n \in Node, NEW m \in Node, Announce(n, m) PROVE One
  <2>1. /\ Serves(Ids(setup), Place(setup, m), conn[m], Announced(n, m))
        /\ Settles(conn[m], Announced(n, m))
    BY <1>4, AnnouncedSound, AnnouncedBooks DEF Settles
  <2> QED  BY <1>4, <2>1, ServesBooks DEF Announce
<1>5. ASSUME NEW n \in Node, Retransmit(n) PROVE One
  <2>1. /\ Settles(conn[n], retransmit_callback(conn[n]))
        /\ Serves(Ids(setup), Place(setup, n), conn[n], retransmit_callback(conn[n]))
    BY NodeSound, RetransmitCallbackSettles, RetransmitCallbackSound DEF Serves
  <2> QED  BY <1>5, <2>1, ServesBooks DEF Retransmit
<1>6. ASSUME NEW n \in Node, NotSent(n) PROVE One
  <2>1. /\ Settles(conn[n], retransmit_not_sent_callback(conn[n]))
        /\ Serves(Ids(setup), Place(setup, n), conn[n], retransmit_not_sent_callback(conn[n]))
    BY NodeSound, NotSentCallbackSettles, NotSentCallbackSound DEF Serves
  <2> QED  BY <1>6, <2>1, ServesBooks DEF NotSent
<1>7. ASSUME NEW n \in Node, Probe(n) PROVE One
  BY <1>7, ProbeBooks
<1>8. ASSUME NEW n \in Node, TableTick(n) PROVE One
  <2>1. /\ Settles(conn[n], Tick(conn[n]))
        /\ Serves(Ids(setup), Place(setup, n), conn[n], Tick(conn[n]))
    BY NodeSound, TickSame, TickSound DEF Serves, Settles
  <2> QED  BY <1>8, <2>1, ServesBooks DEF TableTick
<1>9. ASSUME NEW n \in Node, Send(n) PROVE One
  BY <1>9, SendBooks
<1>10. ASSUME NEW n \in Node, Purge(n) PROVE One
  <2>1. /\ Settles(conn[n], libp_purge(conn[n]))
        /\ Serves(Ids(setup), Place(setup, n), conn[n], libp_purge(conn[n]))
    BY NodeSound, PurgeSame, LibpPurgeSound DEF Serves, Settles
  <2> QED  BY <1>10, <2>1, ServesBooks DEF Purge
<1>11. \A kind \in {"expire", "sink", "close", "reboot"} : ~ Fault(kind)
  BY DEF Undisturbed, Fault
<1>12. /\ \A n \in Node : \A i \in DOMAIN conn[n].send_queue : ~ ExpirePacket(n, i)
       /\ \A n \in Node : ~ Close(n) /\ ~ Reboot(n)
       /\ \A n \in Node, b \in BOOLEAN : ~ SetSink(n, b)
  BY <1>11 DEF ExpirePacket, Close, Reboot, SetSink
<1> HIDE DEF One
<1>13. One
  BY <1>1, <1>2, <1>3, <1>4, <1>5, <1>6, <1>7, <1>8, <1>9, <1>10, <1>12 DEF Next
<1> QED  BY <1>13 DEF One

-----------------------------------------------------------------------------
(* What the books of one node say of the network.                          *)

\* A queue with one more packet, or without its head.
LEMMA HoldsQueued ==
  ASSUME NEW I, NEW P, NEW c \in SoundConn(I, P), NEW d, NEW id
  PROVE  /\ d.send_queue = c.send_queue => (Holds(d, id) <=> Holds(c, id))
         /\ \A p \in SoundPacket(I) :
              d.send_queue = Append(c.send_queue, p)
                => (Holds(d, id) <=> Holds(c, id) \/ id \in Named(p))
         /\ c.send_queue # <<>> /\ d.send_queue = Tail(c.send_queue)
              => /\ Holds(d, id) => Holds(c, id)
                 /\ Holds(c, id) => Holds(d, id) \/ id \in Named(Head(c.send_queue))
<1>1. c.send_queue \in Seq(SoundPacket(I))
  BY FieldTypes
<1>2. ASSUME NEW p \in SoundPacket(I), d.send_queue = Append(c.send_queue, p)
      PROVE  Holds(d, id) <=> Holds(c, id) \/ id \in Named(p)
  <2>1. Range(d.send_queue) = Range(c.send_queue) \cup {p}
    BY <1>1, <1>2, AppendTo
  <2> QED  BY <2>1 DEF Holds, Named
<1>3. ASSUME c.send_queue # <<>>, d.send_queue = Tail(c.send_queue)
      PROVE  /\ Holds(d, id) => Holds(c, id)
             /\ Holds(c, id) => Holds(d, id) \/ id \in Named(Head(c.send_queue))
  <2>1. Range(c.send_queue) = Range(d.send_queue) \cup {Head(c.send_queue)}
    <3> DEFINE q == c.send_queue
    <3>1. /\ Len(Tail(q)) = Len(q) - 1 /\ Len(q) \in Nat \ {0}
          /\ DOMAIN q = 1..Len(q) /\ DOMAIN Tail(q) = 1..Len(q) - 1
          /\ \A i \in 1..Len(q) - 1 : Tail(q)[i] = q[i + 1]
          /\ Head(q) = q[1]
      BY <1>1, <1>3
    <3> HIDE DEF q
    <3>2. ASSUME NEW i \in DOMAIN q, i # 1 PROVE q[i] \in Range(Tail(q))
      <4>1. i - 1 \in DOMAIN Tail(q) /\ Tail(q)[i - 1] = q[i]
        BY <3>1, <3>2
      <4> QED  BY <4>1 DEF Range
    <3>3. ASSUME NEW i \in DOMAIN Tail(q) PROVE Tail(q)[i] \in Range(q)
      <4>1. i + 1 \in DOMAIN q /\ Tail(q)[i] = q[i + 1]
        BY <3>1, <3>3
      <4> QED  BY <4>1 DEF Range
    <3>4. Head(q) \in Range(q)
      BY <3>1 DEF Range
    <3>5. Range(q) = Range(Tail(q)) \cup {Head(q)}
      BY <3>1, <3>2, <3>3, <3>4 DEF Range
    <3> QED  BY <1>3, <3>5 DEF q
  <2> QED  BY <2>1 DEF Holds, Named
<1>4. d.send_queue = c.send_queue => (Holds(d, id) <=> Holds(c, id))
  BY DEF Holds
<1> QED  BY <1>2, <1>3, <1>4

LEMMA BookedFields ==
  ASSUME NEW s, NEW cs, NEW I, NEW P, NEW c \in SoundConn(I, P), NEW d,
         Booked(s, cs, c, d)
  PROVE  /\ d.is_sink = c.is_sink
         /\ d.sent \in {c.sent, c.sent + 1}
         /\ c.rtmetric # RTMETRIC_SINK => d.received = c.received
<1>1. CASE Settles(c, d)
  BY <1>1 DEF Settles, SameBooks, HeadLeaves
<1>2. ASSUME NEW p, TakesOn(c, d, p)
      PROVE  /\ d.is_sink = c.is_sink /\ d.sent = c.sent
             /\ c.rtmetric # RTMETRIC_SINK => d.received = c.received
  BY <1>2 DEF TakesOn, Enqueues, Counts, Hands
<1>3. CASE Sends(Ids(s), c, d)
  BY <1>3 DEF Sends
<1> QED  BY <1>1, <1>2, <1>3 DEF Booked

\* The next packet of the node of c.
IsNext(s, c, d, id) ==
  /\ id = <<c.addr, c.eseqno, c.sent + 1>> /\ id \in Ids(s)
  /\ c.addr \in s.sources /\ d.sent = c.sent + 1 /\ SendSpent

\* A packet that a node comes to hold or to settle is known, or the node's own.
LEMMA BookedKnown ==
  ASSUME NEW s, NEW cs, NEW k \in Node, NEW P, cs[k] \in SoundConn(Ids(s), P), NEW d,
         Booked(s, cs, cs[k], d), NEW id, Holds(d, id) \/ Settled(d, id)
  PROVE  Tracked(cs, id) \/ IsNext(s, cs[k], d, id)
<1> DEFINE c == cs[k]
           I == Ids(s)
<1>1. c \in SoundConn(I, P) /\ c.send_queue \in Seq(SoundPacket(I))
      /\ c.received \in Seq(I)
  BY FieldTypes
<1>2. ASSUME Holds(c, id) \/ Settled(c, id) PROVE Tracked(cs, id)
  BY <1>2 DEF Tracked
<1> HIDE DEF c, I
<1>3. CASE SameBooks(c, d)
  BY <1>2, <1>3 DEF SameBooks, Holds, Settled
<1>4. CASE HeadLeaves(c, d)
  <2>1. id \in Named(Head(c.send_queue)) => Holds(c, id)
    <3>1. Head(c.send_queue) = c.send_queue[1] /\ 1 \in DOMAIN c.send_queue
      BY <1>1, <1>4 DEF HeadLeaves
    <3> QED  BY <3>1 DEF Holds, Named, Range
  <2>2. Holds(d, id) => Holds(c, id)
    BY <1>1, <1>4, HoldsQueued DEF HeadLeaves
  <2>3. Settled(d, id) => Settled(c, id) \/ id \in Named(Head(c.send_queue))
    BY <1>4 DEF HeadLeaves, Settled
  <2> QED  BY <1>2, <2>1, <2>2, <2>3
<1>5. ASSUME NEW p \in SoundPacket(I), p.probe \/ Tracked(cs, p.id), TakesOn(c, d, p)
      PROVE  Tracked(cs, id)
  <2>1. id \in Named(p) => Tracked(cs, id)
    BY <1>5 DEF Named
  <2>2. CASE Enqueues(c, d, p)
    <3>1. d.send_queue = Append(c.send_queue, p) /\ (Settled(d, id) <=> Settled(c, id))
      BY <2>2 DEF Enqueues, Settled
    <3>2. Holds(d, id) => Holds(c, id) \/ id \in Named(p)
      BY <1>1, <3>1, HoldsQueued
    <3> QED  BY <1>2, <2>1, <3>1, <3>2
  <2>3. CASE Counts(c, d, p)
    <3>1. /\ Holds(d, id) => Holds(c, id)
          /\ Settled(d, id) => Settled(c, id) \/ id \in Named(p)
      BY <2>3 DEF Counts, Settled, Holds
    <3> QED  BY <1>2, <2>1, <3>1
  <2>4. CASE Hands(c, d, p)
    <3>1. ~ p.probe /\ p.id \in I
      BY <2>4 DEF Hands, SoundPacket
    <3>2. Range(d.received) = Range(c.received) \cup {p.id}
      BY <1>1, <2>4, <3>1, AppendTo DEF Hands
    <3>3. /\ Holds(d, id) => Holds(c, id)
          /\ Settled(d, id) => Settled(c, id) \/ id \in Named(p)
      BY <2>4, <3>1, <3>2 DEF Hands, Settled, Holds, Named
    <3> QED  BY <1>2, <2>1, <3>3
  <2> QED  BY <1>5, <2>2, <2>3, <2>4 DEF TakesOn
<1>6. CASE Sends(I, c, d) /\ c.addr \in s.sources /\ SendSpent
  <2>1. Settled(d, id) => Settled(c, id)
    BY <1>6 DEF Sends, Settled
  <2>2. CASE d.send_queue = c.send_queue
    BY <1>2, <2>1, <2>2 DEF Holds
  <2>3. ASSUME NEW p \in SoundPacket(I), Numbering(c, p),
               d.send_queue = Append(c.send_queue, p)
        PROVE  Tracked(cs, id) \/ IsNext(s, c, d, id)
    <3>1. Holds(d, id) => Holds(c, id) \/ id \in Named(p)
      BY <1>1, <2>3, HoldsQueued
    <3>2. p.id \in I /\ ~ p.probe /\ p.id = <<c.addr, c.eseqno, c.sent + 1>>
      BY <2>3 DEF Numbering, SoundPacket
    <3>3. id \in Named(p) => IsNext(s, c, d, id)
      BY <1>6, <3>2 DEF Named, IsNext, Sends, I
    <3> QED  BY <1>2, <2>1, <3>1, <3>3
  <2> QED  BY <1>6, <2>2, <2>3 DEF Sends, c
<1> QED  BY <1>3, <1>4, <1>5, <1>6 DEF Booked, Settles, c, I

\* No packet is forgotten by all.
LEMMA TrackedStays ==
  ASSUME Inv, Follows, Lasting(setup), NEW level \in [Node -> Nat],
         Keeping(level), Downhill(level), NEW id, Tracked(conn, id)
  PROVE  Tracked(conn', id)
<1>1. PICK k \in Node : Holds(conn[k], id) \/ Settled(conn[k], id)
  BY DEF Tracked
<1>2. CASE Settled(conn[k], id)
  <2>1. Settled(conn'[k], id)
    BY <1>2 DEF Settled, Follows, Accounts, Backed
  <2> QED  BY <2>1 DEF Tracked
<1>3. CASE Holds(conn[k], id)
  <2>1. id \in Held
    BY <1>3 DEF Held, Holds
  <2>2. CASE id \in Held'
    BY <2>2 DEF Held, Holds, Tracked
  <2>3. CASE id \notin Held'
    BY <2>1, <2>3, KeepingStep DEF Tracked
  <2> QED  BY <2>2, <2>3
<1> QED  BY <1>1, <1>2, <1>3

LEMMA OneTraceable ==
  ASSUME Inv, Lasting(setup), OneBooks(setup, conn, conn'), Traceable(setup, conn),
         \A id : Tracked(conn, id) => Tracked(conn', id)
  PROVE  Traceable(setup, conn')
<1>1. PICK k \in Node : /\ Booked(setup, conn, conn[k], conn'[k])
                        /\ \A j \in Node \ {k} : Aside(conn[j], conn'[j])
  BY DEF OneBooks
<1>2. \A n \in Node : /\ conn[n] \in SoundConn(Ids(setup), Place(setup, n))
                      /\ conn[n].addr = n /\ conn[n].sent \in Nat
  BY NodeSound, FieldTypes
<1>3. ASSUME NEW n \in Node
      PROVE  /\ conn'[n].is_sink = conn[n].is_sink
             /\ conn'[n].sent \in {conn[n].sent, conn[n].sent + 1}
             /\ conn[n].rtmetric # RTMETRIC_SINK => conn'[n].received = conn[n].received
  <2>1. CASE n = k
    BY <1>1, <1>2, <2>1, BookedFields
  <2>2. CASE n # k
    BY <1>1, <2>2 DEF Aside, SameBooks
  <2> QED  BY <2>1, <2>2
<1>4. \A n \in Node \ {Sink} : conn'[n].received = <<>> /\ ~ conn'[n].is_sink
  BY <1>3, NoOtherSink DEF Traceable
<1>5. ASSUME NEW n \in Node, NEW f \in Range(conn'[n].mac), f.type = "DATA",
             ~ f.packet.probe
      PROVE  Tracked(conn', f.packet.id)
  <2>1. SendsOwn(conn[n], conn'[n]) \/ Carries(conn[n], conn'[n])
    BY <1>1 DEF Aside, Booked
  <2>2. \/ f.packet \in Range(conn[n].send_queue)
        \/ f.packet \in Range(conn'[n].send_queue)
        \/ \E g \in Range(conn[n].mac) : g.type = "DATA" /\ g.packet = f.packet
    BY <1>5, <2>1 DEF SendsOwn, Carries
  <2>3. Tracked(conn, f.packet.id) \/ Tracked(conn', f.packet.id)
    BY <1>5, <2>2 DEF Tracked, Holds, Traceable
  <2> QED  BY <2>3
<1>6. ASSUME NEW id, Tracked(conn', id)
      PROVE  id \in TrueIds /\ id[1] \in setup.sources /\ id[3] <= conn'[id[1]].sent
  <2>1. Tracked(conn, id) \/ IsNext(setup, conn[k], conn'[k], id)
    <3>1. PICK n \in Node : Holds(conn'[n], id) \/ Settled(conn'[n], id)
      BY <1>6 DEF Tracked
    <3>2. CASE n = k
      BY <1>1, <1>2, <3>1, <3>2, BookedKnown
    <3>3. CASE n # k
      <4>1. Holds(conn[n], id) \/ Settled(conn[n], id)
        BY <1>1, <3>1, <3>3 DEF Aside, SameBooks, Holds, Settled
      <4> QED  BY <4>1 DEF Tracked
    <3> QED  BY <3>2, <3>3
  <2>2. CASE Tracked(conn, id)
    <3>1. id \in TrueIds /\ id[1] \in setup.sources /\ id[3] <= conn[id[1]].sent
      BY <2>2 DEF Traceable
    <3>2. id[1] \in Node /\ id[3] \in Nat
      BY <3>1 DEF TrueIds, PacketId
    <3> DEFINE j == id[1]
    <3>3. conn'[j].sent \in {conn[j].sent, conn[j].sent + 1} /\ conn[j].sent \in Nat
      BY <1>2, <1>3, <3>2
    <3>4. id[3] <= conn[j].sent
      BY <3>1
    <3> DEFINE x == conn[j].sent
               y == conn'[j].sent
               z == id[3]
    <3>5. z \in Nat /\ x \in Nat /\ z <= x /\ y \in {x, x + 1}
      BY <3>2, <3>3, <3>4
    <3> HIDE DEF x, y, z
    <3>6. z <= y
      BY <3>5
    <3> QED  BY <3>1, <3>6 DEF y, z
  <2>3. CASE IsNext(setup, conn[k], conn'[k], id)
    <3>1. /\ id = <<conn[k].addr, conn[k].eseqno, conn[k].sent + 1>>
          /\ id \in Ids(setup)
          /\ conn[k].addr \in setup.sources /\ conn'[k].sent = conn[k].sent + 1
      BY <2>3 DEF IsNext
    <3>2. id[1] = k /\ id[3] = conn[k].sent + 1 /\ conn[k].sent \in Nat
      BY <1>2, <3>1
    <3>3. id \in TrueIds /\ k \in setup.sources
      BY <1>2, <3>1, IdsArePackets
    <3> QED  BY <3>1, <3>2, <3>3
  <2> QED  BY <2>1, <2>2, <2>3
<1> QED  BY <1>4, <1>5, <1>6 DEF Traceable

-----------------------------------------------------------------------------
(* A step of the network is a step of Delivery.                            *)

Arrived == conn[Sink].received
AllDropped == UNION {conn[n].dropped : n \in Node}

\* Where a packet is, in the terms of Delivery.
LEMMA TrackedIs ==
  ASSUME Traceable(setup, conn), NEW id
  PROVE  /\ id \in Held <=> \E n \in Node : Holds(conn[n], id)
         /\ Tracked(conn, id) <=> id \in Held \cup AllDropped \/ D!HasBeenDelivered(id)
         /\ D!HasBeenDelivered(id) <=> id \in Range(Arrived)
<1>1. id \in Held <=> \E n \in Node : Holds(conn[n], id)
  BY DEF Held, Holds
<1>2. D!HasBeenDelivered(id) <=> id \in Range(Arrived)
  BY DEF D!HasBeenDelivered, Range, Arrived
<1>3. (\E n \in Node : id \in Range(conn[n].received)) <=> id \in Range(Arrived)
  <2>1. \A n \in Node \ {Sink} : Range(conn[n].received) = {}
    BY DEF Traceable, Range
  <2> QED  BY <2>1, LibpNetAssumption DEF Arrived
<1>4. (\E n \in Node : id \in conn[n].dropped) <=> id \in AllDropped
  BY DEF AllDropped
<1>5. Tracked(conn, id) <=> \/ \E n \in Node : Holds(conn[n], id)
                            \/ \E n \in Node : id \in Range(conn[n].received)
                            \/ \E n \in Node : id \in conn[n].dropped
  BY DEF Tracked, Settled
<1> QED  BY <1>1, <1>2, <1>3, <1>4, <1>5

LEMMA TrackedPackets ==
  ASSUME NEW s \in Setups, NEW cs, NEW l \in Bounds,
         \A n \in Node : NodeInv(s, n, cs[n], l), Lasting(s), Traceable(s, cs),
         Sendable(s) \subseteq Packets, NEW id, Tracked(cs, id)
  PROVE  id \in Packets
<1>1. id \in TrueIds /\ id[1] \in s.sources /\ id[3] <= cs[id[1]].sent
  BY DEF Traceable
<1>2. id[1] \in Node /\ id[3] \in Nat
  BY <1>1 DEF TrueIds, PacketId
<1> DEFINE n == id[1]
           c == cs[n]
<1>3. c.sent \in Nat /\ l.send \in Nat /\ s.bound.send \in Nat
  BY <1>2, FieldTypes, SetupFields DEF NodeInv, Bounds
<1>4. c.sent + l.send <= s.bound.send
  BY <1>2 DEF NodeInv
<1>5. id[3] <= c.sent
  BY <1>1
<1> DEFINE x == c.sent
           z == id[3]
<1>6. z \in Nat /\ x \in Nat /\ z <= x /\ x + l.send <= s.bound.send
  BY <1>2, <1>3, <1>4, <1>5
<1> HIDE DEF n, c, x, z
<1>7. z <= s.bound.send
  BY <1>3, <1>6
<1> QED  BY <1>1, <1>7 DEF Sendable, z

\* What the books of all nodes say, when only those of k may change.
LEMMA OneChanges ==
  ASSUME NEW k \in Node,
         \A j \in Node \ {k} : SameBooks(conn[j], conn'[j])
  PROVE  /\ \A id : (\E n \in Node \ {k} : Holds(conn'[n], id))
                      <=> (\E n \in Node \ {k} : Holds(conn[n], id))
         /\ conn'[k].dropped = conn[k].dropped => AllDropped' = AllDropped
         /\ \A X : conn'[k].dropped = conn[k].dropped \cup X => AllDropped' = AllDropped \cup X
         /\ k # Sink \/ conn'[k].received = conn[k].received => Arrived' = Arrived
<1>1. \A j \in Node \ {k} : /\ conn'[j].dropped = conn[j].dropped
                            /\ conn'[j].received = conn[j].received
                            /\ conn'[j].send_queue = conn[j].send_queue
  BY DEF SameBooks
<1>2. \A id : (\E n \in Node \ {k} : Holds(conn'[n], id))
                 <=> (\E n \in Node \ {k} : Holds(conn[n], id))
  BY <1>1 DEF Holds
<1>3. conn'[k].dropped = conn[k].dropped => AllDropped' = AllDropped
  <2> SUFFICES ASSUME conn'[k].dropped = conn[k].dropped
               PROVE  \A id : id \in AllDropped' <=> id \in AllDropped
    BY Zenon
  <2>1. \A j \in Node : conn'[j].dropped = conn[j].dropped
    BY <1>1
  <2> QED  BY <2>1 DEF AllDropped
<1>4. ASSUME NEW X, conn'[k].dropped = conn[k].dropped \cup X
      PROVE  AllDropped' = AllDropped \cup X
  <2>1. \A id : id \in AllDropped' <=> id \in AllDropped \/ id \in X
    BY <1>1, <1>4 DEF AllDropped
  <2> QED  BY <2>1
<1>5. k # Sink \/ conn'[k].received = conn[k].received => Arrived' = Arrived
  BY <1>1, LibpNetAssumption DEF Arrived
<1> QED  BY <1>2, <1>3, <1>4, <1>5

LEMMA OneHeld ==
  ASSUME NEW k \in Node,
         \A j \in Node \ {k} : SameBooks(conn[j], conn'[j])
  PROVE  /\ (\A id : Holds(conn'[k], id) <=> Holds(conn[k], id)) => Held' = Held
         /\ \A X : (\A id : Holds(conn'[k], id) <=> Holds(conn[k], id) \/ id \in X)
                     => Held' = Held \cup X
         /\ \A X : (\A id : /\ Holds(conn'[k], id) => Holds(conn[k], id)
                            /\ Holds(conn[k], id) => Holds(conn'[k], id) \/ id \in X)
                     => Held' \subseteq Held /\ Held \ Held' \subseteq X
<1>1. \A id : (\E n \in Node \ {k} : Holds(conn'[n], id))
                 <=> (\E n \in Node \ {k} : Holds(conn[n], id))
  BY OneChanges
<1>2. \A id : /\ id \in Held <=> \E n \in Node : Holds(conn[n], id)
              /\ id \in Held' <=> \E n \in Node : Holds(conn'[n], id)
  BY DEF Held, Holds
<1>3. \A id : /\ id \in Held <=> Holds(conn[k], id) \/ \E n \in Node \ {k} : Holds(conn[n], id)
              /\ id \in Held' <=> Holds(conn'[k], id) \/ \E n \in Node \ {k} : Holds(conn'[n], id)
  BY <1>2
<1> QED  BY <1>1, <1>3

LEMMA DStutters ==
  ASSUME Held' = Held, Arrived' = Arrived, AllDropped' = AllDropped
  PROVE  [D!Next]_D!vars
BY DEF D!vars, Arrived, AllDropped

LEMMA DMoves ==
  ASSUME NEW id \in Packets,
         D!Take(id) \/ D!Deliver(id) \/ D!GiveUp(id) \/ D!HoldAgain(id) \/ D!Release(id)
  PROVE  [D!Next]_D!vars
BY Zenon DEF D!Next

\* The head of a queue leaves it, given up or known to have been.
LEMMA HeadRefines ==
  ASSUME Inv, Traceable(setup, conn), Traceable(setup, conn'),
         \A id : Tracked(conn, id) => Tracked(conn', id) /\ id \in Packets,
         NEW k \in Node, \A j \in Node \ {k} : SameBooks(conn[j], conn'[j]),
         HeadLeaves(conn[k], conn'[k])
  PROVE  [D!Next]_D!vars
<1> DEFINE c == conn[k]
           d == conn'[k]
           p == Head(c.send_queue)
           I == Ids(setup)
<1>1. c \in SoundConn(I, Place(setup, k)) /\ c.send_queue \in Seq(SoundPacket(I))
  BY NodeSound, FieldTypes
<1>2. /\ c.send_queue # <<>> /\ d.send_queue = Tail(c.send_queue)
      /\ d.dropped \in {c.dropped, c.dropped \cup Named(p)}
      /\ d.received = c.received
  BY DEF HeadLeaves
<1>3. Named(p) \subseteq Held
  <2>1. p = c.send_queue[1] /\ 1 \in DOMAIN c.send_queue
    BY <1>1, <1>2
  <2>2. p \in Range(c.send_queue)
    BY <2>1 DEF Range
  <2> HIDE DEF p
  <2>3. \A id \in Named(p) : Holds(c, id)
    BY <2>2 DEF Named, Holds
  <2> QED  BY <2>3, TrackedIs
<1>4. Held' \subseteq Held /\ Held \ Held' \subseteq Named(p)
  <2>1. \A id : /\ Holds(d, id) => Holds(c, id)
                /\ Holds(c, id) => Holds(d, id) \/ id \in Named(p)
    <3> HIDE DEF c, d, p, I
    <3> QED  BY <1>1, <1>2, HoldsQueued DEF p
  <2> HIDE DEF p
  <2> QED  BY <2>1, OneHeld
<1>5. Arrived' = Arrived
  BY <1>2, OneChanges
<1>6. CASE p.probe
  <2>1. Named(p) = {}
    BY <1>6 DEF Named
  <2>2. Held' = Held /\ d.dropped = c.dropped
    BY <1>2, <1>4, <2>1
  <2> QED  BY <1>5, <2>2, OneChanges, DStutters
<1>7. CASE ~ p.probe
  <2>1. PICK id : Named(p) = {id}
    BY <1>7 DEF Named
  <2> HIDE DEF c, d, p, I
  <2>2. id \in Held /\ Held' \in {Held, Held \ {id}}
    BY <1>3, <1>4, <2>1
  <2>3. Tracked(conn', id)
    BY <2>2, TrackedIs
  <2>6. id \in Packets
    BY <2>2, TrackedIs
  <2>4. CASE d.dropped = c.dropped \cup Named(p)
    <3>1. AllDropped' = AllDropped \cup {id}
      BY <2>1, <2>4, OneChanges DEF c, d
    <3>2. D!GiveUp(id)
      BY <1>5, <2>2, <3>1 DEF D!GiveUp, Arrived, AllDropped
    <3> QED  BY <2>6, <3>2, DMoves
  <2>5. CASE d.dropped = c.dropped
    <3>1. AllDropped' = AllDropped
      BY <2>5, OneChanges DEF c, d
    <3>2. CASE Held' = Held
      BY <1>5, <3>1, <3>2, DStutters
    <3>3. CASE Held' # Held
      <4>1. Held' = Held \ {id} /\ id \notin Held'
        BY <2>2, <3>3
      <4>2. id \in AllDropped' \/ id \in Range(Arrived')
        <5>1. \A n \in Node : ~ Holds(conn'[n], id)
          BY <4>1 DEF Held, Holds
        <5>2. PICK n \in Node : Settled(conn'[n], id)
          BY <2>3, <5>1 DEF Tracked
        <5>3. n # Sink => Range(conn'[n].received) = {}
          BY DEF Traceable, Range
        <5> QED  BY <5>2, <5>3 DEF Settled, AllDropped, Arrived
      <4>3. id \in AllDropped \/ D!HasBeenDelivered(id)
        BY <1>5, <3>1, <4>2, TrackedIs
      <4>4. D!Release(id)
        BY <1>5, <2>2, <3>1, <4>1, <4>3 DEF D!Release, Arrived, AllDropped
      <4> QED  BY <2>6, <4>4, DMoves
    <3> QED  BY <3>2, <3>3
  <2> QED  BY <1>2, <2>4, <2>5
<1> QED  BY <1>6, <1>7

\* A packet comes to a node.
LEMMA TakenRefines ==
  ASSUME Inv, Traceable(setup, conn),
         \A id : Tracked(conn, id) => id \in Packets,
         NEW k \in Node, \A j \in Node \ {k} : SameBooks(conn[j], conn'[j]),
         NEW p \in SoundPacket(Ids(setup)), p.probe \/ Tracked(conn, p.id),
         TakesOn(conn[k], conn'[k], p)
  PROVE  [D!Next]_D!vars
<1> DEFINE c == conn[k]
           d == conn'[k]
           I == Ids(setup)
           id == p.id
<1>1. c \in SoundConn(I, Place(setup, k)) /\ c.received \in Seq(I)
  BY NodeSound, FieldTypes
<1>2. ~ p.probe => /\ id \in Packets /\ id \in I
                   /\ id \in Held \cup AllDropped \/ D!HasBeenDelivered(id)
  BY TrackedIs DEF SoundPacket
<1>3. CASE Enqueues(c, d, p)
  <2>1. AllDropped' = AllDropped /\ Arrived' = Arrived
    BY <1>3, OneChanges DEF Enqueues
  <2>2. \A x : Holds(d, x) <=> Holds(c, x) \/ x \in Named(p)
    <3> HIDE DEF c, d, I
    <3> QED  BY <1>1, <1>3, HoldsQueued DEF Enqueues, I
  <2>3. Held' = Held \cup Named(p)
    BY <2>2, OneHeld
  <2> HIDE DEF c, d, I, id
  <2>4. CASE p.probe \/ id \in Held
    <3>1. Held' = Held
      BY <2>3, <2>4 DEF Named, id
    <3> QED  BY <2>1, <3>1, DStutters
  <2>5. CASE ~ p.probe /\ id \notin Held
    <3>1. Held' = Held \cup {id}
      BY <2>3, <2>5 DEF Named, id
    <3>2. D!HoldAgain(id)
      BY <1>2, <2>1, <2>5, <3>1 DEF D!HoldAgain, Arrived, AllDropped
    <3> QED  BY <1>2, <2>5, <3>2, DMoves
  <2> QED  BY <2>4, <2>5
<1>4. CASE Counts(c, d, p)
  <2>1. Arrived' = Arrived /\ AllDropped' = AllDropped \cup Named(p)
    BY <1>4, OneChanges DEF Counts
  <2>2. Held' = Held
    BY <1>4, OneHeld DEF Counts, Holds
  <2> HIDE DEF c, d, I, id
  <2>3. CASE p.probe \/ id \in AllDropped
    <3>1. AllDropped' = AllDropped
      BY <2>1, <2>3 DEF Named, id
    <3> QED  BY <2>1, <2>2, <3>1, DStutters
  <2>4. CASE ~ p.probe /\ id \notin AllDropped
    <3>1. AllDropped' = AllDropped \cup {id}
      BY <2>1, <2>4 DEF Named, id
    <3>2. D!GiveUp(id)
      BY <1>2, <2>1, <2>2, <2>4, <3>1 DEF D!GiveUp, Arrived, AllDropped
    <3> QED  BY <1>2, <2>4, <3>2, DMoves
  <2> QED  BY <2>3, <2>4
<1>5. CASE Hands(c, d, p) /\ id \notin Range(c.received)
  <2>1. /\ c.rtmetric = RTMETRIC_SINK /\ ~ p.probe
        /\ d.received = Append(c.received, id) /\ d.send_queue = c.send_queue
        /\ d.dropped = c.dropped
    BY <1>5 DEF Hands
  <2>2. k = Sink
    BY <2>1, NoOtherSink DEF Traceable
  <2>3. Arrived' = Append(Arrived, id) /\ id \notin Range(Arrived)
    BY <1>5, <2>1, <2>2 DEF Arrived
  <2>4. AllDropped' = AllDropped
    BY <2>1, OneChanges
  <2>5. Held' = Held
    BY <2>1, OneHeld DEF Holds
  <2> HIDE DEF c, d, I, id
  <2>6. ~ D!HasBeenDelivered(id)
    BY <2>3, TrackedIs
  <2>7. D!Deliver(id)
    BY <1>2, <2>1, <2>3, <2>4, <2>5, <2>6 DEF D!Deliver, Arrived, AllDropped
  <2> QED  BY <1>2, <2>1, <2>7, DMoves
<1> QED  BY <1>3, <1>4, <1>5 DEF TakesOn

\* An application's packet has an identity that is not known yet.
LEMMA SentRefines ==
  ASSUME Inv, Traceable(setup, conn), Traceable(setup, conn'),
         \A id : Tracked(conn', id) => id \in Packets,
         NEW k \in Node, \A j \in Node \ {k} : SameBooks(conn[j], conn'[j]),
         Sends(Ids(setup), conn[k], conn'[k])
  PROVE  [D!Next]_D!vars
<1> DEFINE c == conn[k]
           d == conn'[k]
           I == Ids(setup)
<1>1. /\ c \in SoundConn(I, Place(setup, k)) /\ c.addr = k /\ c.sent \in Nat
  BY NodeSound, FieldTypes
<1>2. /\ AllDropped' = AllDropped /\ Arrived' = Arrived
  BY OneChanges DEF Sends
<1>3. CASE d.send_queue = c.send_queue
  <2>1. Held' = Held
    BY <1>3, OneHeld DEF Holds
  <2> QED  BY <1>2, <2>1, DStutters
<1>4. ASSUME NEW p \in SoundPacket(I), Numbering(c, p),
             d.send_queue = Append(c.send_queue, p)
      PROVE  [D!Next]_D!vars
  <2>1. PICK id : id = <<k, c.eseqno, c.sent + 1>> /\ Named(p) = {id}
    BY <1>1, <1>4 DEF Numbering, Named
  <2>2. id[1] = k /\ id[3] = c.sent + 1
    BY <2>1
  <2>3. \A x : Holds(d, x) <=> Holds(c, x) \/ x \in Named(p)
    <3> HIDE DEF c, d, I
    <3> QED  BY <1>1, <1>4, HoldsQueued
  <2>4. Held' = Held \cup Named(p)
    BY <2>3, OneHeld
  <2>5. ~ Tracked(conn, id)
    <3> SUFFICES ASSUME Tracked(conn, id) PROVE FALSE
      OBVIOUS
    <3>1. id[3] <= conn[id[1]].sent
      BY DEF Traceable
    <3>2. c.sent + 1 <= c.sent
      BY <2>2, <3>1
    <3> QED  BY <1>1, <3>2
  <2>6. id \in Packets
    <3>1. id \in Held'
      BY <2>1, <2>4
    <3>2. Tracked(conn', id)
      BY <3>1 DEF Held, Holds, Tracked
    <3> QED  BY <3>2
  <2> HIDE DEF c, d, I
  <2>7. D!Take(id)
    BY <1>2, <2>1, <2>4, <2>5, TrackedIs DEF D!Take, Arrived, AllDropped
  <2> QED  BY <2>6, <2>7, DMoves
<1> QED  BY <1>3, <1>4 DEF Sends

LEMMA OneRefines ==
  ASSUME Inv, Traceable(setup, conn), Traceable(setup, conn'),
         \A id : Tracked(conn, id) => Tracked(conn', id),
         \A id : Tracked(conn', id) => id \in Packets,
         OneBooks(setup, conn, conn')
  PROVE  [D!Next]_D!vars
<1>1. PICK k \in Node : /\ Booked(setup, conn, conn[k], conn'[k])
                        /\ \A j \in Node \ {k} : Aside(conn[j], conn'[j])
  BY DEF OneBooks
<1>2. \A j \in Node \ {k} : SameBooks(conn[j], conn'[j])
  BY <1>1 DEF Aside
<1>3. \A id : Tracked(conn, id) => id \in Packets
  OBVIOUS
<1>4. CASE SameBooks(conn[k], conn'[k])
  <2>1. AllDropped' = AllDropped /\ Arrived' = Arrived
    BY <1>2, <1>4, OneChanges DEF SameBooks
  <2>2. Held' = Held
    BY <1>2, <1>4, OneHeld DEF SameBooks, Holds
  <2> QED  BY <2>1, <2>2, DStutters
<1>5. CASE HeadLeaves(conn[k], conn'[k])
  BY <1>2, <1>3, <1>5, HeadRefines
<1>6. ASSUME NEW p \in SoundPacket(Ids(setup)), p.probe \/ Tracked(conn, p.id),
             TakesOn(conn[k], conn'[k], p)
      PROVE  [D!Next]_D!vars
  BY <1>2, <1>3, <1>6, TakenRefines
<1>7. CASE Sends(Ids(setup), conn[k], conn'[k])
  BY <1>2, <1>7, SentRefines
<1> QED  BY <1>1, <1>4, <1>5, <1>6, <1>7 DEF Booked, Settles

\* The network s has one sink that only delivers, and Packets are all that the
\* others may send.
Delivering(s) ==
  Lasting(s) /\ Sink \notin s.sources /\ Sendable(s) \subseteq Packets

\* What is known of the packets on their way, and of those answered for.
Booking(level) == Keeping(level) /\ Traceable(setup, conn)

\* A connection that is opened has nothing on its books.
LEMMA OpenedBooks ==
  ASSUME NEW n
  PROVE  /\ Opened(n).dropped = {} /\ Opened(n).send_queue = <<>>
         /\ n # Sink => ~ Opened(n).is_sink
<1> DEFINE o == libp_open(n, n \in setup.routers)
           x == [[o EXCEPT !.rtmetric = RTMETRIC_SINK, !.announcement = RTMETRIC_SINK]
                   EXCEPT !.is_router = TRUE, !.is_sink = TRUE,
                          !.send_queue = <<>>, !.retransmission_timer = "off"]
<1>1. o.dropped = {} /\ o.send_queue = <<>> /\ ~ o.is_sink
  BY Zenon DEF libp_open
<1>2. x.rtmetric = RTMETRIC_SINK /\ x.dropped = {} /\ x.send_queue = <<>>
  BY DEF libp_open
<1>3. libp_set_sink(o, TRUE) = update_rtmetric(x)
  <2> HIDE DEF o
  <2> QED  BY DEF libp_set_sink
<1>4. Opened(n) = IF n = Sink THEN libp_set_sink(o, TRUE) ELSE o
  BY DEF Opened
<1> HIDE DEF o, x
<1>5. update_rtmetric(x) = x
  BY <1>2 DEF update_rtmetric
<1> QED  BY <1>1, <1>2, <1>3, <1>4, <1>5

LEMMA InitUntracked ==
  ASSUME Init
  PROVE  /\ \A n \in Node : /\ conn[n].mac = <<>> /\ conn[n].received = <<>>
                            /\ conn[n].dropped = {}
                            /\ n # Sink => ~ conn[n].is_sink
         /\ \A n \in Node : \A id : ~ Holds(conn[n], id) /\ ~ Settled(conn[n], id)
         /\ \A id : ~ Tracked(conn, id)
<1>1. ASSUME NEW n \in Node
      PROVE  /\ conn[n].mac = <<>> /\ conn[n].received = <<>> /\ conn[n].dropped = {}
             /\ conn[n].send_queue = <<>> /\ (n # Sink => ~ conn[n].is_sink)
  <2>1. conn[n] = Opened(n) /\ setup \in Setups
    BY DEF Init
  <2>2. Opened(n).mac = <<>> /\ Opened(n).received = <<>>
    BY <2>1, PlaceOf, OpenedSound
  <2>3. /\ Opened(n).dropped = {} /\ Opened(n).send_queue = <<>>
        /\ n # Sink => ~ Opened(n).is_sink
    BY OpenedBooks
  <2> QED  BY <2>1, <2>2, <2>3
<1>2. \A n \in Node : \A id : ~ Holds(conn[n], id) /\ ~ Settled(conn[n], id)
  BY <1>1 DEF Holds, Settled, Range
<1> QED  BY <1>1, <1>2 DEF Tracked

LEMMA InitTraceable == Init => Traceable(setup, conn) /\ D!Init
<1> SUFFICES ASSUME Init PROVE Traceable(setup, conn) /\ D!Init
  OBVIOUS
<1>1. /\ \A n \in Node : /\ conn[n].mac = <<>> /\ conn[n].received = <<>>
                         /\ conn[n].dropped = {}
                         /\ n # Sink => ~ conn[n].is_sink
      /\ \A n \in Node : \A id : ~ Holds(conn[n], id)
      /\ \A id : ~ Tracked(conn, id)
  BY InitUntracked
<1>2. Traceable(setup, conn)
  <2>1. \A n \in Node : Range(conn[n].mac) = {}
    BY <1>1 DEF Range
  <2> QED  BY <1>1, <2>1 DEF Traceable
<1>3. Held = {} /\ Arrived = <<>> /\ AllDropped = {}
  <2>1. \A id : id \notin Held
    BY <1>1, TrackedIs, <1>2
  <2>2. Arrived = <<>>
    BY <1>1, LibpNetAssumption DEF Arrived
  <2>3. AllDropped = {}
    BY <1>1 DEF AllDropped
  <2> QED  BY <2>1, <2>2, <2>3
<1> QED  BY <1>2, <1>3 DEF D!Init, Arrived, AllDropped

LEMMA DeliveryStep ==
  ASSUME NEW level \in [Node -> Nat], FramesInOrder, Delivering(setup), Booking(level),
         Downhill(level), Unforgotten(conn), [Next]_vars, [SeqnosGrow]_vars
  PROVE  Booking(level)' /\ [D!Next]_D!vars
<1>1. Inv /\ Inv' /\ Follows /\ setup' = setup /\ Lasting(setup) /\ Undisturbed(setup)
  BY OrderedStep, SetupStays DEF FramesInOrder, Delivering
<1>2. Keeping(level)'
  <2>1. Upward(conn', level) /\ PromisesKept(conn', level)
    BY <1>1, KeepingStep DEF Booking
  <2> QED  BY <2>1 DEF Keeping, Upward, PromisesKept, KeptBelow
<1>3. CASE UNCHANGED vars
  <2>1. Traceable(setup, conn)'
    BY <1>3 DEF vars, Booking, Traceable, Tracked
  <2>2. UNCHANGED D!vars
    BY <1>3 DEF vars, D!vars, Held
  <2> QED  BY <1>2, <2>1, <2>2 DEF Booking
<1>4. CASE Next
  <2>1. OneBooks(setup, conn, conn')
    BY <1>1, <1>4, NextBooks DEF Booking, Delivering
  <2>2. \A id : Tracked(conn, id) => Tracked(conn', id)
    BY <1>1, TrackedStays DEF Booking
  <2>3. Traceable(setup, conn')
    BY <1>1, <2>1, <2>2, OneTraceable DEF Booking
  <2>4. \A id : Tracked(conn', id) => id \in Packets
    <3>1. /\ setup \in Setups /\ left' \in Bounds
          /\ \A n \in Node : NodeInv(setup, n, conn'[n], left')
      BY <1>1 DEF Inv
    <3> QED  BY <1>1, <2>3, <3>1, TrackedPackets DEF Delivering
  <2>5. [D!Next]_D!vars
    BY <1>1, <2>1, <2>2, <2>3, <2>4, OneRefines DEF Booking
  <2>6. Traceable(setup, conn)'
    BY <1>1, <2>3 DEF Traceable, Tracked
  <2> QED  BY <1>2, <2>5, <2>6 DEF Booking
<1> QED  BY <1>3, <1>4

\* Every step of the network is a step of Delivery or none: a packet that is
\* taken is held until the sink's application has it or a node has counted it
\* (libp.c:170-212, libp.c:314-327), and is delivered once (libp.c:352-528).
\* The sink must still remember those packets of its application that are on
\* their way to it again, and data frames must not go round in a loop.
THEOREM DeliveryImplemented ==
  ASSUME NEW level \in [Node -> Nat]
  PROVE  Spec /\ Steadily /\ Delivering(setup) /\ []Downhill(level) /\ []Unforgotten(conn)
           => DeliverySpec
<1>1. /\ FramesInOrder /\ Delivering(setup) /\ Booking(level) /\ Downhill(level)
      /\ Unforgotten(conn) /\ [Next]_vars /\ [SeqnosGrow]_vars
      => Booking(level)' /\ [D!Next]_D!vars
  BY DeliveryStep
<1>2. Init => Booking(level) /\ D!Init
  BY InitKeeping, InitTraceable DEF Booking
<1>3. Delivering(setup) /\ [Next]_vars => Delivering(setup)'
  BY SetupStays DEF Delivering, Lasting, Sendable
<1> QED
  BY <1>1, <1>2, <1>3, OrderedAlways, PTL DEF Spec, Steadily, DeliverySpec, D!Spec

-----------------------------------------------------------------------------
(* Where no more packets are sent than the filter has entries, none that   *)
(* the sink has got is forgotten.                                          *)

TrackedIds == {id \in TrueIds : Tracked(conn, id)}

\* Every packet that is known of has been sent.
FewSent ==
  /\ IsFiniteSet(TrackedIds)
  /\ Cardinality(TrackedIds) + left.send <= setup.bound.send

LEMMA SendsLeft ==
  ASSUME Inv, [Next]_vars
  PROVE  left'.send <= left.send
<1>1. \A what \in {"send", "probe", "fault"} : Spend(what) => left'.send <= left.send
  BY Spent
<1>2. \A kind : Fault(kind) => left'.send <= left.send
  BY <1>1 DEF Fault
<1>3. left.send \in Nat
  BY DEF Inv, Bounds
<1>4. Free => left'.send <= left.send
  BY Unspent
<1>5. CASE Next
  BY <1>1, <1>2, <1>4, <1>5, Zenon
     DEF Next, Receive, Report, Silent, Announce, Retransmit, NotSent, Probe,
         TableTick, ExpirePacket, Send, Purge, SetSink, Close, Reboot
<1>6. CASE UNCHANGED vars
  BY <1>3, <1>6 DEF vars
<1> QED  BY <1>5, <1>6

LEMMA FewStep ==
  ASSUME Inv, Inv', setup' = setup, Traceable(setup, conn), FewSent,
         OneBooks(setup, conn, conn'), left'.send <= left.send
  PROVE  FewSent'
<1>1. PICK k \in Node : /\ Booked(setup, conn, conn[k], conn'[k])
                        /\ \A j \in Node \ {k} : Aside(conn[j], conn'[j])
  BY DEF OneBooks
<1> DEFINE next == <<conn[k].addr, conn[k].eseqno, conn[k].sent + 1>>
<1>2. ASSUME NEW id, Tracked(conn', id)
      PROVE  Tracked(conn, id) \/ (id = next /\ SendSpent)
  <2>1. PICK n \in Node : Holds(conn'[n], id) \/ Settled(conn'[n], id)
    BY <1>2 DEF Tracked
  <2>2. CASE n = k
    <3>1. conn[k] \in SoundConn(Ids(setup), Place(setup, k))
      BY NodeSound
    <3>2. Tracked(conn, id) \/ IsNext(setup, conn[k], conn'[k], id)
      BY <1>1, <2>1, <2>2, <3>1, BookedKnown
    <3> QED  BY <3>2 DEF IsNext
  <2>3. CASE n # k
    <3>1. Holds(conn[n], id) \/ Settled(conn[n], id)
      BY <1>1, <2>1, <2>3 DEF Aside, SameBooks, Holds, Settled
    <3> QED  BY <3>1 DEF Tracked
  <2> QED  BY <2>2, <2>3
<1> HIDE DEF next
<1>3. /\ left.send \in Nat /\ left'.send \in Nat /\ setup.bound.send \in Nat
  BY SetupFields DEF Inv, Bounds
<1> DEFINE S == TrackedIds
           T == TrackedIds'
           C == Cardinality(S)
           E == Cardinality(T)
<1>4. IsFiniteSet(S) /\ C \in Nat /\ C + left.send <= setup.bound.send
  BY FS_CardinalityType DEF FewSent
<1>5. CASE T \subseteq S
  <2>1. IsFiniteSet(T) /\ E <= C /\ E \in Nat
    <3> HIDE DEF S, T
    <3> QED  BY <1>4, <1>5, FS_Subset, FS_CardinalityType
  <2> HIDE DEF S, T, C, E
  <2>2. E + left'.send <= setup.bound.send
    BY <1>3, <1>4, <2>1
  <2> QED  BY <2>1, <2>2 DEF FewSent, T, E
<1>6. CASE ~ T \subseteq S
  <2>1. SendSpent /\ T \subseteq S \cup {next}
    BY <1>2, <1>6 DEF TrackedIds
  <2>2. IsFiniteSet(T) /\ E <= C + 1 /\ E \in Nat
    <3> HIDE DEF S, T
    <3>1. IsFiniteSet(S \cup {next}) /\ Cardinality(S \cup {next}) \in {C, C + 1}
      BY <1>4, FS_AddElement
    <3>2. IsFiniteSet(T) /\ E <= Cardinality(S \cup {next}) /\ E \in Nat
      BY <2>1, <3>1, FS_Subset, FS_CardinalityType
    <3> QED  BY <1>4, <3>1, <3>2
  <2>3. left'.send < left.send
    BY <2>1 DEF SendSpent
  <2> HIDE DEF S, T, C, E
  <2>4. E + left'.send <= setup.bound.send
    BY <1>3, <1>4, <2>2, <2>3
  <2> QED  BY <2>2, <2>4 DEF FewSent, T, E
<1> QED  BY <1>5, <1>6

LEMMA FewRemembered ==
  ASSUME Inv, Lasting(setup), Sink \notin setup.sources,
         setup.bound.send <= NUM_RECENT_PACKETS,
         Window(Sink, conn[Sink]), Traceable(setup, conn), FewSent
  PROVE  Unforgotten(conn)
<1> DEFINE got == conn[Sink].received
           q   == conn[Sink].recent_packets
           B   == NUM_RECENT_PACKETS
           C   == Cardinality(TrackedIds)
<1>1. got \in Seq(Ids(setup)) /\ q \in Seq(Ids(setup))
  BY LibpNetAssumption, NodeSound, FieldTypes
<1>2. /\ DOMAIN got = 1..Len(got) /\ Len(got) \in Nat
      /\ B \in Nat /\ IsFiniteSet(TrackedIds) /\ C \in Nat
      /\ left.send \in Nat /\ setup.bound.send \in Nat
      /\ C + left.send <= setup.bound.send
  BY <1>1, LibpAssumption, FS_CardinalityType, SetupFields DEF FewSent, Inv, Bounds
<1>3. C <= B
  <2> HIDE DEF C, B
  <2> QED  BY <1>2 DEF B
<1>4. \A i \in DOMAIN got : got[i] \in TrackedIds /\ got[i][1] # Sink
  <2> SUFFICES ASSUME NEW i \in DOMAIN got
               PROVE  got[i] \in TrackedIds /\ got[i][1] # Sink
    OBVIOUS
  <2>1. Tracked(conn, got[i])
    BY LibpNetAssumption DEF Tracked, Settled, Range
  <2>2. got[i] \in TrueIds /\ got[i][1] \in setup.sources
    BY <2>1 DEF Traceable
  <2> QED  BY <2>1, <2>2 DEF TrackedIds
<1>5. /\ \A i \in DOMAIN got : Len(got) - i < B
           => \E j \in DOMAIN q : q[j] = got[i]
      /\ \A i, k \in DOMAIN got : i < k /\ got[i] = got[k] => k - i > B
  BY <1>4 DEF Window, Windowed
<1> HIDE DEF got, q, B, C
<1>6. Len(got) <= B
  <2> SUFFICES ASSUME Len(got) > B PROVE FALSE
    BY <1>2
  <2> DEFINE f == [i \in 1..B+1 |-> got[i]]
  <2>1. 1..B+1 \subseteq DOMAIN got
    BY <1>2
  <2>2. f \in [1..B+1 -> TrackedIds]
    BY <1>4, <2>1
  <2>3. ASSUME NEW i \in 1..B+1, NEW k \in 1..B+1, f[i] = f[k]
        PROVE  i = k
    <3>1. got[i] = got[k] /\ i \in DOMAIN got /\ k \in DOMAIN got
      BY <2>1, <2>3
    <3>2. ~ (k - i > B) /\ ~ (i - k > B)
      BY <1>2
    <3>3. ~ (i < k) /\ ~ (k < i)
      BY <1>5, <3>1, <3>2
    <3> QED  BY <3>3
  <2> HIDE DEF f
  <2>4. f \in Injection(1..B+1, TrackedIds)
    BY <2>2, <2>3 DEF Injection, IsInjective
  <2>5. Cardinality(1..B+1) <= C
    BY <1>2, <2>4, FS_Injection DEF C
  <2>6. Cardinality(1..B+1) = B + 1
    BY <1>2, FS_Interval
  <2> QED  BY <1>2, <1>3, <2>5, <2>6
<1>7. \A i \in DOMAIN got : \E j \in DOMAIN q : q[j] = got[i]
  <2>1. \A i \in DOMAIN got : Len(got) - i < B
    BY <1>2, <1>6
  <2> QED  BY <1>5, <2>1
<1> QED
  <2> SUFFICES ASSUME NEW n \in Node, NEW f \in Range(conn[n].mac),
                      f.packet.id \in Range(got)
               PROVE  Seen(conn[Sink], f.packet)
    BY DEF Unforgotten, got
  <2>1. PICK j \in DOMAIN q : q[j] = f.packet.id
    BY <1>7 DEF Range
  <2> QED  BY <2>1 DEF Seen, q

\* Packets sent in a network s that its duplicate filters can all remember.
FewEnough(s) == s.bound.send <= NUM_RECENT_PACKETS

\* The same from what is fixed when the network is built: its links and routers,
\* and no more packets than the duplicate filter of a node has entries
\* (libp.c:375-410).
THEOREM DeliveryInLayers ==
  ASSUME NEW level \in [Node -> Nat]
  PROVE  Spec /\ Steadily /\ Delivering(setup) /\ Layered(setup, level) /\ FewEnough(setup)
           => DeliverySpec
<1> DEFINE Fixed == Delivering(setup) /\ Layered(setup, level) /\ FewEnough(setup)
<1>1. ASSUME FramesInOrder, Filtered, Fixed, Booking(level), FewSent,
             [Next]_vars, [SeqnosGrow]_vars
      PROVE  Filtered' /\ Booking(level)' /\ FewSent' /\ [D!Next]_D!vars
  <2>1. Inv /\ Inv' /\ setup' = setup /\ Lasting(setup) /\ Undisturbed(setup)
    BY <1>1, NextStep, SetupStays DEF FramesInOrder, Delivering, Continues
  <2>2. Downhill(level)
    BY <1>1, <2>1, LayersGoDown
  <2>3. Unforgotten(conn)
    BY <1>1, <2>1, FewRemembered DEF Filtered, Delivering, FewEnough, Booking
  <2>4. Booking(level)' /\ [D!Next]_D!vars
    BY <1>1, <2>2, <2>3, DeliveryStep
  <2>5. FewSent'
    <3>1. CASE UNCHANGED vars
      BY <1>1, <3>1 DEF vars, FewSent, TrackedIds, Tracked
    <3>2. CASE Next
      <4>1. OneBooks(setup, conn, conn')
        BY <1>1, <2>1, <2>3, <3>2, NextBooks DEF Booking, Delivering
      <4> QED  BY <1>1, <2>1, <4>1, SendsLeft, FewStep DEF Booking
    <3> QED  BY <1>1, <3>1, <3>2
  <2> QED  BY <1>1, <2>4, <2>5, FilteredStep
<1>2. ASSUME Init, Fixed PROVE Filtered /\ Booking(level) /\ FewSent /\ D!Init
  <2>1. Booking(level) /\ D!Init
    BY <1>2, InitKeeping, InitTraceable DEF Booking
  <2>2. Filtered
    BY <1>2, InitFiltered DEF Delivering, Lasting, Remembering
  <2>3. FewSent
    <3>1. \A id : ~ Tracked(conn, id)
      BY <1>2, InitUntracked
    <3>2. TrackedIds = {}
      BY <3>1 DEF TrackedIds
    <3>3. left.send = setup.bound.send /\ left.send \in Nat
      BY <1>2, InitInv DEF Init, Inv, Bounds
    <3> QED  BY <3>2, <3>3, FS_EmptySet DEF FewSent
  <2> QED  BY <2>1, <2>2, <2>3
<1>3. Fixed /\ [Next]_vars => Fixed'
  BY SetupStays DEF Delivering, Lasting, Sendable, Layered, FewEnough
<1>4. /\ FramesInOrder /\ Filtered /\ Fixed /\ Booking(level) /\ FewSent
      /\ [Next]_vars /\ [SeqnosGrow]_vars
      => Filtered' /\ Booking(level)' /\ FewSent' /\ [D!Next]_D!vars
  BY <1>1
<1>5. Init /\ Fixed => Filtered /\ Booking(level) /\ FewSent /\ D!Init
  BY <1>2
<1> HIDE DEF Fixed
<1>6. Spec /\ Steadily /\ Fixed => DeliverySpec
  BY <1>3, <1>4, <1>5, OrderedAlways, PTL DEF Spec, Steadily, DeliverySpec, D!Spec
<1> QED  BY <1>6 DEF Fixed
=============================================================================
