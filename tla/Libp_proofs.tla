---------------------------- MODULE Libp_proofs -----------------------------
(***************************************************************************)
(* What every operator of Libp preserves of a connection: the types of its *)
(* fields, the bounds on ranks and on the hops of packets, the timer that  *)
(* guards a transmission, and the entries of the queue that are not for    *)
(* forwarding.  The results about networks rest on these (LibpNet_proofs). *)
(***************************************************************************)
EXTENDS Libp, Functions, Neighbours_proofs

\* No rank is as high as this: a parent is kept until another one is better by
\* more than the hysteresis.
RankLimit == RTMETRIC_MAX + SIGNIFICANT_RTMETRIC_PARENT_CHANGE

\* The hops of a probe and of any other packet.
Budgeted(p) ==
  IF p.probe THEN p.ttl = 1 /\ p.hops = 1
             ELSE p.ttl >= 1 /\ p.ttl + p.hops = MAX_HOPLIM + 1

\* What is in queues and frames when the application sends ids of the set I.
SoundPacket(I) == {p \in Packet : Budgeted(p) /\ (p.probe \/ p.id \in I)}
SoundFrame(I)  ==
  {f \in Frame : f.rtmetric < RankLimit /\ f.packet \in SoundPacket(I)}

\* The place P of a node in its network says whose ranks it may come to know and
\* whether it may route for others: hence whom it may choose as its parent, and
\* what it may announce.
Parents(P)      == (P.near \cap Node) \cup {NullAddr}
Routing(P)      == {b \in BOOLEAN : b => P.router}
Announceable(P) == {NoValue} \cup {r \in 0..RankLimit-1 : P.router}

SentFrame(I, P) == {f \in SoundFrame(I) : f.type = "DATA" => f.dst \in Parents(P)}
SoundTable(P) ==
  {t \in Table : /\ GoodTable(t)
                 /\ \A s \in Slot : t[s].rtmetric < RankLimit /\ t[s].addr \in Parents(P)}

SoundFields(I, P) ==
  [addr : Node, is_router : Routing(P), is_sink : BOOLEAN,
   rtmetric : 0..RankLimit-1, parent : Parents(P),
   current_parent : Parents(P),
   announcement : Announceable(P),
   seqno : 0..UINT8-1, eseqno : 0..UINT8-1,
   sending : BOOLEAN, transmissions : 0..UINT8-1, max_rexmits : 0..31,
   retransmission_timer : {"off", "retransmit", "not_sent"},
   send_queue : Seq(SoundPacket(I)), recent_packets : Seq(I),
   neighbour_list : SoundTable(P), mac : Seq(SentFrame(I, P)), received : Seq(I),
   is_open : BOOLEAN, sent : Nat, dropped : SUBSET PacketId]

\* A connection: only a sink has a rank better than one link.
SoundConn(I, P) ==
  {c \in SoundFields(I, P) : c.rtmetric < LIBP_LINK_METRIC_UNIT => c.is_sink}

Armed(c) == c.sending => c.retransmission_timer # "off"

\* The places of the queue that hold forwarded packets.
Forwarded(q) == {i \in DOMAIN q : q[i].hops > 1}
Reserved(c) ==
  Cardinality(Forwarded(c.send_queue))
    <= MAX_SENDING_QUEUE - MIN_AVAILABLE_QUEUE_ENTRIES + 1

\* What no operator but those of the application and libp_set_sink() changes.
Kept(c, d) ==
  /\ d.addr = c.addr /\ d.is_sink = c.is_sink /\ d.is_open = c.is_open
  /\ d.eseqno = c.eseqno /\ d.sent = c.sent
  /\ c.rtmetric = RTMETRIC_SINK => d.rtmetric = RTMETRIC_SINK
  /\ Reserved(c) => Reserved(d)

\* What is sent of the queue q on top of the frames m.
SentFrom(q, m, r) ==
  /\ Len(m) <= Len(r)
  /\ \A i \in 1..Len(m) : r[i] = m[i]
  /\ \A i \in Len(m)+1..Len(r) : r[i].type = "DATA" /\ r[i].packet \in Range(q)

\* The effect of an operator that only works on the packets of its own queue.
Handled(c, d) ==
  /\ Kept(c, d)
  /\ d.recent_packets = c.recent_packets /\ d.received = c.received
  /\ Range(d.send_queue) \subseteq Range(c.send_queue)
  /\ SentFrom(c.send_queue, c.mac, d.mac)

-----------------------------------------------------------------------------
(* Numbers, sequences, connections.                                        *)

LEMMA Numbers ==
  /\ UINT8 = 256 /\ UINT16 = 65536
  /\ RTMETRIC_SINK = 0 /\ RTMETRIC_MAX = 511 /\ RankLimit = 523
  /\ LIBP_LINK_METRIC_UNIT = 8 /\ SIGNIFICANT_RTMETRIC_PARENT_CHANGE = 12
  /\ MAX_ETX = 2040
<1>1. /\ UINT8 = 256 /\ UINT16 = 65536 /\ RTMETRIC_SINK = 0
      /\ RTMETRIC_MAX = 511 /\ LIBP_LINK_METRIC_UNIT = 8
  BY DEF UINT8, UINT16, RTMETRIC_SINK, RTMETRIC_MAX, LIBP_LINK_METRIC_UNIT
<1>2. SIGNIFICANT_RTMETRIC_PARENT_CHANGE = 12
  BY <1>1 DEF SIGNIFICANT_RTMETRIC_PARENT_CHANGE
<1>3. RankLimit = 523
  BY <1>1, <1>2 DEF RankLimit
<1>4. MAX_ETX = 2040
  BY <1>1 DEF MAX_ETX
<1> QED  BY <1>1, <1>2, <1>3, <1>4

LEMMA RankFits == UINT16 \in Int /\ RankLimit \in Int /\ RankLimit <= UINT16
BY Numbers

LEMMA RankType ==
  ASSUME NEW m \in 0..RankLimit-1
  PROVE  m \in Nat /\ m \in 0..UINT16-1 /\ m < RankLimit
<1>1. m \in Int /\ 0 <= m /\ m < RankLimit
  BY RankFits
<1> QED  BY ONLY <1>1, RankFits

LEMMA RankBack ==
  ASSUME NEW m \in 0..UINT16-1, m < RankLimit
  PROVE  m \in 0..RankLimit-1
<1>1. m \in Int /\ 0 <= m
  BY RankFits
<1> QED  BY <1>1, RankFits

LEMMA FieldTypes ==
  ASSUME NEW I, NEW P, NEW c \in SoundConn(I, P)
  PROVE  /\ c \in SoundFields(I, P)
         /\ c.addr \in Node /\ c.is_router \in Routing(P) /\ c.is_sink \in BOOLEAN
         /\ c.rtmetric \in 0..RankLimit-1
         /\ c.rtmetric < LIBP_LINK_METRIC_UNIT => c.is_sink
         /\ c.parent \in Parents(P)
         /\ c.current_parent \in Parents(P)
         /\ c.announcement \in Announceable(P)
         /\ c.seqno \in 0..UINT8-1 /\ c.eseqno \in 0..UINT8-1
         /\ c.sending \in BOOLEAN
         /\ c.transmissions \in 0..UINT8-1 /\ c.max_rexmits \in 0..31
         /\ c.retransmission_timer \in {"off", "retransmit", "not_sent"}
         /\ c.send_queue \in Seq(SoundPacket(I))
         /\ c.recent_packets \in Seq(I)
         /\ c.neighbour_list \in SoundTable(P)
         /\ c.mac \in Seq(SentFrame(I, P))
         /\ c.received \in Seq(I)
         /\ c.is_open \in BOOLEAN /\ c.sent \in Nat
         /\ c.dropped \in SUBSET PacketId
BY Zenon DEF SoundConn, SoundFields

LEMMA IsAFunction ==
  ASSUME NEW S, NEW q \in Seq(S)
  PROVE  q = [j \in 1..Len(q) |-> q[j]]
OBVIOUS

\* Taking the element at i out of a sequence.
Without(q, i) == [j \in 1..Len(q)-1 |-> IF j < i THEN q[j] ELSE q[j+1]]

LEMMA RemovedAt ==
  ASSUME NEW S, NEW q \in Seq(S), NEW i \in 1..Len(q),
         NEW r, r = [j \in 1..Len(q)-1 |-> IF j < i THEN q[j] ELSE q[j+1]]
  PROVE  /\ r \in Seq(S) /\ Len(r) = Len(q) - 1
         /\ Range(r) \subseteq Range(q)
<1>1. Len(q) - 1 \in Nat /\ \A j \in 1..Len(q)-1 : r[j] \in S
  OBVIOUS
<1>2. r \in Seq(S) /\ Len(r) = Len(q) - 1
  BY <1>1
<1>3. ASSUME NEW j \in DOMAIN r PROVE \E k \in DOMAIN q : r[j] = q[k]
  <2>1. j \in 1..Len(q)-1 /\ DOMAIN q = 1..Len(q)
    OBVIOUS
  <2>2. CASE j < i
    BY <2>1, <2>2
  <2>3. CASE ~ (j < i)
    BY <2>1, <2>3
  <2> QED  BY <2>2, <2>3
<1> QED  BY <1>2, <1>3 DEF Range

LEMMA WithoutOne ==
  ASSUME NEW S, NEW q \in Seq(S), NEW i \in 1..Len(q)
  PROVE  /\ Without(q, i) \in Seq(S) /\ Len(Without(q, i)) = Len(q) - 1
         /\ Range(Without(q, i)) \subseteq Range(q)
<1>1. PICK r : r = [j \in 1..Len(q)-1 |-> IF j < i THEN q[j] ELSE q[j+1]]
  OBVIOUS
<1>2. /\ r \in Seq(S) /\ Len(r) = Len(q) - 1
      /\ Range(r) \subseteq Range(q)
  BY <1>1, RemovedAt
<1>3. Without(q, i) = r
  BY ONLY <1>1, Zenon DEF Without
<1> QED  BY ONLY <1>2, <1>3, Zenon

LEMMA TailOf ==
  ASSUME NEW S, NEW q \in Seq(S), q # <<>>
  PROVE  /\ Tail(q) \in Seq(S) /\ Len(Tail(q)) = Len(q) - 1
         /\ Tail(q) = [j \in 1..Len(q)-1 |-> IF j < 1 THEN q[j] ELSE q[j+1]]
         /\ Head(q) \in S /\ Head(q) \in Range(q)
         /\ 1 \in 1..Len(q)
<1>1. Tail(q) \in Seq(S) /\ Len(Tail(q)) = Len(q) - 1 /\ Len(q) \in Nat \ {0}
  OBVIOUS
<1>2. \A j \in 1..Len(q)-1 : Tail(q)[j] = q[j+1]
  OBVIOUS
<1>3. Tail(q) = [j \in 1..Len(Tail(q)) |-> Tail(q)[j]]
  <2> DEFINE r == Tail(q)
  <2> HIDE DEF r
  <2>1. r \in Seq(S)
    BY <1>1 DEF r
  <2>2. r = [j \in 1..Len(r) |-> r[j]]
    BY <2>1, IsAFunction
  <2> QED  BY <2>2 DEF r
<1>4. Head(q) = q[1] /\ 1 \in DOMAIN q
  OBVIOUS
<1> QED  BY <1>1, <1>2, <1>3, <1>4 DEF Range

LEMMA AppendTo ==
  ASSUME NEW S, NEW q \in Seq(S), NEW x \in S
  PROVE  /\ Append(q, x) \in Seq(S) /\ Len(Append(q, x)) = Len(q) + 1
         /\ \A i \in 1..Len(q) : Append(q, x)[i] = q[i]
         /\ Append(q, x)[Len(q) + 1] = x
         /\ Range(Append(q, x)) = Range(q) \cup {x}
<1>1. /\ Append(q, x) \in Seq(S) /\ Len(Append(q, x)) = Len(q) + 1
      /\ \A i \in 1..Len(q) : Append(q, x)[i] = q[i]
      /\ Append(q, x)[Len(q) + 1] = x
  OBVIOUS
<1>2. /\ DOMAIN q = 1..Len(q) /\ DOMAIN Append(q, x) = 1..Len(q) + 1
      /\ Len(q) \in Nat
  BY <1>1
<1>3. 1..Len(q) + 1 = (1..Len(q)) \cup {Len(q) + 1}
  BY <1>2
<1> HIDE DEF Range
<1>4. ASSUME NEW y PROVE y \in Range(Append(q, x)) <=> y \in Range(q) \/ y = x
  <2>1. y \in Range(Append(q, x)) <=> \E i \in 1..Len(q)+1 : Append(q, x)[i] = y
    BY <1>2 DEF Range
  <2>2. y \in Range(q) <=> \E i \in 1..Len(q) : q[i] = y
    BY <1>2 DEF Range
  <2> QED  BY <1>1, <1>2, <1>3, <2>1, <2>2
<1> QED  BY <1>1, <1>4

LEMMA AppendedRange ==
  ASSUME NEW S, NEW q \in Seq(S), NEW x, Append(q, x) \in Seq(S)
  PROVE  Range(Append(q, x)) = Range(q) \cup {x}
<1>1. x \in S
  <2>1. Append(q, x)[Len(q) + 1] = x /\ Len(q) + 1 \in 1..Len(Append(q, x))
    OBVIOUS
  <2> DEFINE r == Append(q, x)
  <2> HIDE DEF r
  <2>2. \A i \in 1..Len(r) : r[i] \in S
    BY DEF r
  <2> QED  BY <2>1, <2>2 DEF r
<1> QED  BY <1>1, AppendTo

-----------------------------------------------------------------------------
(* The table of neighbours, whose ranks stay below the limit.              *)

LEMMA SoundTableIs ==
  ASSUME NEW P, NEW t, GoodTable(t),
         \A s \in Slot : t[s].rtmetric < RankLimit /\ t[s].addr \in Parents(P)
  PROVE  t \in SoundTable(P)
BY DEF SoundTable, GoodTable, Sane

LEMMA TableFields ==
  ASSUME NEW P, NEW t \in SoundTable(P)
  PROVE  /\ GoodTable(t)
         /\ \A s \in Slot : /\ t[s] \in Entry /\ SaneEntry(t[s])
                            /\ t[s].rtmetric \in Nat /\ t[s].rtmetric < RankLimit
                            /\ t[s].addr \in Parents(P)
         /\ \A s \in Listed(t) : s \in Slot /\ t[s].addr \in Node
         /\ \A s, u \in Listed(t) : t[s].addr = t[u].addr => s = u
<1>1. /\ GoodTable(t)
      /\ \A s \in Slot : t[s].rtmetric < RankLimit /\ t[s].addr \in Parents(P)
  BY DEF SoundTable
<1>2. \A s \in Slot : SaneEntry(t[s]) /\ t[s] \in Entry
  BY <1>1 DEF GoodTable, Sane, SaneEntry
<1>3. \A s \in Slot : t[s].rtmetric \in Nat
  BY <1>2 DEF Entry
<1> QED  BY <1>1, <1>2, <1>3 DEF GoodTable, Sane, Unique, Listed

LEMMA NewTableSound == ASSUME NEW P PROVE NewTable \in SoundTable(P)
<1>1. \A s \in Slot : NewTable[s].rtmetric = 0 /\ NewTable[s].addr \in Parents(P)
  BY DEF NewTable, Freed, Parents
<1> QED  BY <1>1, NewTableGood, Numbers, SoundTableIs

LEMMA UpdateRtmetricSound ==
  ASSUME NEW P, NEW t \in SoundTable(P), NEW n, NEW m \in 0..RankLimit-1
  PROVE  libp_neighbour_update_rtmetric(t, n, m) \in SoundTable(P)
<1> DEFINE r == libp_neighbour_update_rtmetric(t, n, m)
<1>1. m \in 0..UINT16-1 /\ m < RankLimit
  BY RankType
<1>2. GoodTable(r)
  BY <1>1, TableFields, UpdateRtmetricGood
<1>3. \A s \in Slot : /\ r[s].rtmetric = m \/ r[s].rtmetric = t[s].rtmetric
                      /\ r[s].addr = t[s].addr
  BY TableFields DEF libp_neighbour_update_rtmetric, Entry
<1> HIDE DEF r
<1>4. \A s \in Slot : r[s].rtmetric < RankLimit /\ r[s].addr \in Parents(P)
  BY <1>1, <1>3, TableFields
<1> QED  BY <1>2, <1>4, SoundTableIs DEF r

LEMMA AddSound ==
  ASSUME NEW P, NEW t \in SoundTable(P), NEW addr \in Node \cap Parents(P),
         NEW m \in 0..RankLimit-1
  PROVE  libp_neighbour_list_add(t, addr, m) \in SoundTable(P)
<1> DEFINE r == libp_neighbour_list_add(t, addr, m)
<1>1. m \in 0..UINT16-1 /\ m < RankLimit
  BY RankType
<1>2. GoodTable(r)
  BY <1>1, TableFields, AddGood
<1>3. \A s \in Slot : /\ r[s].rtmetric = m \/ r[s].rtmetric = t[s].rtmetric
                      /\ r[s].addr = addr \/ r[s].addr = t[s].addr
  BY DEF libp_neighbour_list_add
<1> HIDE DEF r
<1>4. \A s \in Slot : r[s].rtmetric < RankLimit /\ r[s].addr \in Parents(P)
  BY <1>1, <1>3, TableFields
<1> QED  BY <1>2, <1>4, SoundTableIs DEF r

LEMMA TxSound ==
  ASSUME NEW P, NEW t \in SoundTable(P), NEW n, NEW k \in Nat
  PROVE  libp_neighbour_tx(t, n, k) \in SoundTable(P)
<1> DEFINE r == libp_neighbour_tx(t, n, k)
<1>1. GoodTable(r)
  BY TableFields, TxGood
<1>2. \A s \in Slot : r[s].rtmetric = t[s].rtmetric /\ r[s].addr = t[s].addr
  BY TableFields DEF libp_neighbour_tx, Entry
<1> QED  BY <1>1, <1>2, TableFields, SoundTableIs

LEMMA TxFailSound ==
  ASSUME NEW P, NEW t \in SoundTable(P), NEW n, NEW k \in Nat
  PROVE  libp_neighbour_tx_fail(t, n, k) \in SoundTable(P)
<1> DEFINE r == libp_neighbour_tx_fail(t, n, k)
<1>1. GoodTable(r)
  BY TableFields, TxFailGood
<1>2. \A s \in Slot : r[s].rtmetric = t[s].rtmetric /\ r[s].addr = t[s].addr
  BY TableFields DEF libp_neighbour_tx_fail, Entry
<1> QED  BY <1>1, <1>2, TableFields, SoundTableIs

LEMMA PurgeSound ==
  ASSUME NEW P, NEW t \in SoundTable(P)
  PROVE  libp_neighbour_list_purge(t) \in SoundTable(P)
<1> DEFINE r == libp_neighbour_list_purge(t)
<1>1. GoodTable(r)
  BY TableFields, PurgeGood
<1>2. \A s \in Slot : r[s].rtmetric = 0 /\ r[s].addr \in Parents(P)
  BY DEF libp_neighbour_list_purge, Freed, Parents
<1> QED  BY <1>1, <1>2, Numbers, SoundTableIs

LEMMA PeriodicSound ==
  ASSUME NEW P, NEW t \in SoundTable(P)
  PROVE  periodic(t) \in SoundTable(P)
<1> DEFINE o    == Older(t)
           seen == Listed(o) \ Skipped(o)
           m    == RenewMetrics(o, seen)
           gone == Expired(o) \cap seen
<1>1. GoodTable(periodic(t))
  BY TableFields, PeriodicGood
<1>2. \A s \in Slot : o[s] \in Entry /\ o[s].rtmetric = t[s].rtmetric /\ o[s].addr = t[s].addr
  <2>1. GoodTable(o)
    BY TableFields, OlderGood
  <2>2. \A s \in Slot : o[s] \in Entry
    BY <2>1 DEF GoodTable, Sane, Table
  <2>3. \A s \in Slot : o[s].rtmetric = t[s].rtmetric /\ o[s].addr = t[s].addr
    BY TableFields DEF Older, Entry
  <2> QED  BY <2>2, <2>3
<1> HIDE DEF o, seen
<1>3. \A s \in Slot : m[s].rtmetric = o[s].rtmetric /\ m[s].addr = o[s].addr /\ m[s] \in Entry
  <2>1. GoodTable(o)
    BY TableFields, OlderGood DEF o
  <2>2. \A s \in Slot : m[s] \in Entry
    BY <2>1, RenewMetricsGood DEF GoodTable, Sane, Table
  <2>3. \A s \in Slot : m[s].rtmetric = o[s].rtmetric /\ m[s].addr = o[s].addr
    BY <1>2 DEF RenewMetrics, Entry
  <2> QED  BY <2>2, <2>3
<1> HIDE DEF m, gone
<1>4. \A s \in Slot : /\ Remove(m, gone)[s].rtmetric \in {0, m[s].rtmetric}
                      /\ Remove(m, gone)[s].addr \in {NullAddr, m[s].addr}
  BY <1>3 DEF Remove, Freed, Entry
<1>5. periodic(t) = Remove(m, gone)
  BY DEF periodic, o, m, seen, gone
<1>6. \A s \in Slot : /\ Remove(m, gone)[s].rtmetric < RankLimit
                      /\ Remove(m, gone)[s].addr \in Parents(P)
  BY <1>2, <1>3, <1>4, TableFields, Numbers DEF Parents
<1> QED  BY <1>1, <1>5, <1>6, SoundTableIs

-----------------------------------------------------------------------------
(* The queue: how many packets it holds for others.                        *)

LEMMA ForwardedFinite ==
  ASSUME NEW S, NEW q \in Seq(S)
  PROVE  /\ Forwarded(q) \subseteq 1..Len(q)
         /\ IsFiniteSet(Forwarded(q))
         /\ Cardinality(Forwarded(q)) \in Nat
         /\ Cardinality(Forwarded(q)) <= Len(q)
<1>1. DOMAIN q = 1..Len(q) /\ Len(q) \in Nat
  OBVIOUS
<1>2. Forwarded(q) \subseteq 1..Len(q)
  BY <1>1 DEF Forwarded
<1>3. IsFiniteSet(1..Len(q)) /\ Cardinality(1..Len(q)) = Len(q)
  <2>1. 1 \in Int /\ Len(q) \in Int
    BY <1>1
  <2>2. /\ IsFiniteSet(1..Len(q))
        /\ Cardinality(1..Len(q)) = IF 1 > Len(q) THEN 0 ELSE Len(q) - 1 + 1
    BY <2>1, FS_Interval
  <2> QED  BY <1>1, <2>2
<1>4. IsFiniteSet(Forwarded(q)) /\ Cardinality(Forwarded(q)) <= Len(q)
  BY <1>2, <1>3, FS_Subset
<1>5. Cardinality(Forwarded(q)) \in Nat
  BY <1>4, FS_CardinalityType
<1> QED  BY <1>2, <1>4, <1>5

LEMMA ForwardedRemoved ==
  ASSUME NEW S, NEW q \in Seq(S), NEW i \in 1..Len(q),
         NEW r, r = [j \in 1..Len(q)-1 |-> IF j < i THEN q[j] ELSE q[j+1]]
  PROVE  Cardinality(Forwarded(r)) <= Cardinality(Forwarded(q))
<1> DEFINE A == Forwarded(r)
           B == Forwarded(q)
           f == [j \in A |-> IF j < i THEN j ELSE j + 1]
<1>1. r \in Seq(S) /\ Len(r) = Len(q) - 1 /\ Len(q) \in Nat
  BY RemovedAt
<1>2. A \subseteq 1..Len(q)-1 /\ IsFiniteSet(B)
  BY <1>1, ForwardedFinite
<1>3. \A j \in A : j \in Int /\ r[j].hops > 1 /\ r[j] = q[IF j < i THEN j ELSE j + 1]
  BY <1>2 DEF Forwarded
<1>4. ASSUME NEW j \in A PROVE f[j] \in B
  <2>1. (IF j < i THEN j ELSE j + 1) \in 1..Len(q) /\ DOMAIN q = 1..Len(q)
    BY <1>1, <1>2
  <2> QED  BY <1>3, <2>1 DEF Forwarded
<1>5. ASSUME NEW j \in A, NEW k \in A, f[j] = f[k] PROVE j = k
  BY <1>3, <1>5
<1> HIDE DEF A, B
<1>6. f \in [A -> B]
  BY <1>4
<1> HIDE DEF f
<1>7. f \in Injection(A, B)
  BY <1>5, <1>6 DEF Injection, IsInjective
<1>8. Cardinality(A) <= Cardinality(B)
  BY <1>2, <1>7, FS_Injection
<1> QED  BY <1>8 DEF A, B

LEMMA ForwardedAppended ==
  ASSUME NEW S, NEW q \in Seq(S), NEW x \in S
  PROVE  /\ Cardinality(Forwarded(Append(q, x))) <= Len(q) + 1
         /\ ~ (x.hops > 1) => Forwarded(Append(q, x)) = Forwarded(q)
<1> DEFINE r == Append(q, x)
<1>1. /\ r \in Seq(S) /\ Len(r) = Len(q) + 1 /\ Len(q) \in Nat
      /\ \A i \in 1..Len(q) : r[i] = q[i]
      /\ r[Len(q) + 1] = x
  BY AppendTo
<1>2. DOMAIN q = 1..Len(q) /\ DOMAIN r = 1..Len(q)+1
  BY <1>1
<1> HIDE DEF r
<1>3. Cardinality(Forwarded(r)) <= Len(q) + 1
  BY <1>1, ForwardedFinite
<1>4. ASSUME ~ (x.hops > 1), NEW i PROVE i \in Forwarded(r) <=> i \in Forwarded(q)
  BY <1>1, <1>2, <1>4 DEF Forwarded
<1> QED  BY <1>3, <1>4 DEF r, Forwarded

\* The bound on forwarded packets survives whatever shrinks the queue.
LEMMA ReservedShrinks ==
  ASSUME NEW S, NEW c, NEW d, c.send_queue \in Seq(S), d.send_queue \in Seq(S),
         Cardinality(Forwarded(d.send_queue)) <= Cardinality(Forwarded(c.send_queue)),
         Reserved(c)
  PROVE  Reserved(d)
<1>1. /\ Cardinality(Forwarded(d.send_queue)) \in Nat
      /\ Cardinality(Forwarded(c.send_queue)) \in Nat
  BY ForwardedFinite
<1> QED  BY <1>1, LibpAssumption DEF Reserved

-----------------------------------------------------------------------------
(* Kept and Handled compose.                                               *)

LEMMA HandledFields ==
  ASSUME NEW I, NEW P, NEW c \in SoundConn(I, P), NEW d,
         d.addr = c.addr, d.is_sink = c.is_sink, d.is_open = c.is_open,
         d.eseqno = c.eseqno, d.sent = c.sent,
         d.recent_packets = c.recent_packets, d.received = c.received,
         d.send_queue = c.send_queue, d.mac = c.mac,
         c.rtmetric = RTMETRIC_SINK => d.rtmetric = RTMETRIC_SINK
  PROVE  Handled(c, d)
<1>1. c.mac \in Seq(SentFrame(I, P))
  BY FieldTypes
<1>2. SentFrom(c.send_queue, c.mac, c.mac)
  BY <1>1 DEF SentFrom
<1> QED  BY <1>2 DEF Handled, Kept, Reserved

LEMMA HandledSame ==
  ASSUME NEW I, NEW P, NEW c \in SoundConn(I, P)
  PROVE  Handled(c, c)
BY HandledFields

LEMMA SentFromTrans ==
  ASSUME NEW S, NEW l \in Seq(S), NEW m \in Seq(S), NEW n \in Seq(S), NEW q, NEW r,
         SentFrom(q, l, m), SentFrom(r, m, n), Range(r) \subseteq Range(q)
  PROVE  SentFrom(q, l, n)
<1>1. Len(l) \in Nat /\ Len(m) \in Nat /\ Len(n) \in Nat
  OBVIOUS
<1>2. Len(l) <= Len(n) /\ \A i \in 1..Len(l) : n[i] = l[i]
  BY <1>1 DEF SentFrom
<1>3. ASSUME NEW i \in Len(l)+1..Len(n)
      PROVE  n[i].type = "DATA" /\ n[i].packet \in Range(q)
  <2>1. CASE i <= Len(m)
    <3>1. i \in Len(l)+1..Len(m) /\ i \in 1..Len(m)
      BY <1>1, <2>1
    <3> QED  BY <3>1 DEF SentFrom
  <2>2. CASE ~ (i <= Len(m))
    <3>1. i \in Len(m)+1..Len(n)
      BY <1>1, <2>2
    <3> QED  BY <3>1 DEF SentFrom
  <2> QED  BY <2>1, <2>2
<1> QED  BY <1>2, <1>3 DEF SentFrom

LEMMA HandledTrans ==
  ASSUME NEW I, NEW P, NEW c \in SoundConn(I, P), NEW d \in SoundConn(I, P),
         NEW e \in SoundConn(I, P), Handled(c, d), Handled(d, e)
  PROVE  Handled(c, e)
<1>1. /\ c.mac \in Seq(SentFrame(I, P)) /\ d.mac \in Seq(SentFrame(I, P))
      /\ e.mac \in Seq(SentFrame(I, P))
  BY FieldTypes
<1>2. SentFrom(c.send_queue, c.mac, e.mac)
  BY <1>1, SentFromTrans DEF Handled
<1>3. Kept(c, e)
  BY DEF Handled, Kept
<1> QED  BY <1>2, <1>3 DEF Handled

\* One frame more.
LEMMA SentOne ==
  ASSUME NEW S, NEW m \in Seq(S), NEW f \in S, NEW q,
         f.type = "DATA", f.packet \in Range(q)
  PROVE  SentFrom(q, m, Append(m, f))
<1>1. /\ Append(m, f) \in Seq(S) /\ Len(Append(m, f)) = Len(m) + 1
      /\ \A i \in 1..Len(m) : Append(m, f)[i] = m[i]
      /\ Append(m, f)[Len(m) + 1] = f
      /\ Len(m) \in Nat
  BY AppendTo
<1>2. \A i \in Len(m)+1..Len(Append(m, f)) : i = Len(m) + 1
  BY <1>1
<1> QED  BY <1>1, <1>2 DEF SentFrom

-----------------------------------------------------------------------------
(* Sending the packet at the head of the queue.                            *)

\* No more transmissions are counted than may be made.
TriesLeft(c) == c.transmissions <= c.max_rexmits

\* The queue is the same, and the count of transmissions is sound if it was.
Steady(c, d) ==
  d.send_queue = c.send_queue /\ (TriesLeft(c) => TriesLeft(d))

LEMMA DataFrame ==
  ASSUME NEW I, NEW P, NEW c \in SoundConn(I, P), NEW to \in Node \cap Parents(P),
         NEW tries \in 0..31,
         c.send_queue # <<>>
  PROVE  [type |-> "DATA", src |-> c.addr, dst |-> to, seqno |-> c.seqno,
          rtmetric |-> c.rtmetric, flags |-> {}, packet |-> Head(c.send_queue),
          tries |-> tries, heard |-> 0] \in SentFrame(I, P)
<1> DEFINE p == Head(c.send_queue)
<1>1. p \in SoundPacket(I)
  BY FieldTypes, TailOf
<1>2. p \in Packet
  BY <1>1 DEF SoundPacket
<1>3. /\ c.addr \in Node /\ c.seqno \in 0..UINT8-1
      /\ c.rtmetric \in 0..UINT16-1 /\ c.rtmetric < RankLimit
  BY FieldTypes, RankType
<1> HIDE DEF p
<1> DEFINE f == [type |-> "DATA", src |-> c.addr, dst |-> to, seqno |-> c.seqno,
                 rtmetric |-> c.rtmetric, flags |-> {}, packet |-> p,
                 tries |-> tries, heard |-> 0]
<1>4. f \in Frame
  BY <1>2, <1>3 DEF Frame
<1>5. f.rtmetric = c.rtmetric /\ f.packet = p /\ f.dst = to
  OBVIOUS
<1> HIDE DEF f
<1>6. f \in SentFrame(I, P)
  BY <1>1, <1>3, <1>4, <1>5 DEF SoundFrame, SentFrame
<1> QED  BY <1>6 DEF f, p

LEMMA SendPacketSound ==
  ASSUME NEW I, NEW P, NEW c \in SoundConn(I, P), NEW to \in Node \cap Parents(P),
         NEW tries \in 0..31,
         c.send_queue # <<>>
  PROVE  /\ send_packet(c, to, tries) \in SoundConn(I, P)
         /\ Handled(c, send_packet(c, to, tries))
         /\ Armed(send_packet(c, to, tries))
         /\ Steady(c, send_packet(c, to, tries))
<1> DEFINE f == [type |-> "DATA", src |-> c.addr, dst |-> to, seqno |-> c.seqno,
                 rtmetric |-> c.rtmetric, flags |-> {}, packet |-> Head(c.send_queue),
                 tries |-> tries, heard |-> 0]
           m == Append(c.mac, f)
           d == [c EXCEPT !.retransmission_timer = "not_sent", !.mac = m]
<1>1. /\ f \in SentFrame(I, P) /\ f.type = "DATA"
      /\ f.packet \in Range(c.send_queue)
  BY DataFrame, FieldTypes, TailOf
<1>2. send_packet(c, to, tries) = d
  BY FieldTypes DEF send_packet, unicast_send, SoundFields
<1> HIDE DEF f
<1>3. m \in Seq(SentFrame(I, P)) /\ SentFrom(c.send_queue, c.mac, m)
  BY <1>1, FieldTypes, AppendTo, SentOne
<1> HIDE DEF m
<1>4. /\ d.addr = c.addr /\ d.is_sink = c.is_sink /\ d.is_open = c.is_open
      /\ d.eseqno = c.eseqno /\ d.sent = c.sent
      /\ d.recent_packets = c.recent_packets /\ d.received = c.received
      /\ d.send_queue = c.send_queue /\ d.mac = m
      /\ d.rtmetric = c.rtmetric /\ d.retransmission_timer = "not_sent"
      /\ d.transmissions = c.transmissions /\ d.max_rexmits = c.max_rexmits
  BY FieldTypes DEF SoundFields
<1>5. d \in SoundFields(I, P)
  <2>1. c \in SoundFields(I, P)
    BY FieldTypes
  <2> QED  BY <1>3, <2>1, Zenon DEF SoundFields
<1>6. d \in SoundConn(I, P)
  BY <1>4, <1>5, FieldTypes DEF SoundConn
<1> HIDE DEF d
<1>7. Armed(d) /\ Handled(c, d) /\ Steady(c, d)
  BY <1>3, <1>4 DEF Armed, Handled, Kept, Reserved, TriesLeft, Steady
<1> QED  BY <1>2, <1>6, <1>7

LEMMA HeadSound ==
  ASSUME NEW I, NEW P, NEW c \in SoundConn(I, P), c.send_queue # <<>>
  PROVE  /\ Head(c.send_queue) \in SoundPacket(I)
         /\ Head(c.send_queue) \in Packet
         /\ Head(c.send_queue) \in Range(c.send_queue)
<1>1. c.send_queue \in Seq(SoundPacket(I))
  BY FieldTypes
<1>2. /\ Head(c.send_queue) \in SoundPacket(I)
      /\ Head(c.send_queue) \in Range(c.send_queue)
  BY <1>1, TailOf
<1> QED  BY <1>2 DEF SoundPacket

LEMMA SendQueuedSound ==
  ASSUME NEW I, NEW P, NEW c \in SoundConn(I, P)
  PROVE  /\ send_queued_packet(c) \in SoundConn(I, P)
         /\ Handled(c, send_queued_packet(c))
         /\ Armed(c) => Armed(send_queued_packet(c))
         /\ Steady(c, send_queued_packet(c))
<1> DEFINE idle == c.sending \/ c.send_queue = <<>> \/ Find(c, c.parent) = {}
           max  == Head(c.send_queue).rexmits
           d    == [c EXCEPT !.sending = TRUE, !.current_parent = c.parent,
                             !.transmissions = 0, !.max_rexmits = max]
<1>1. CASE idle
  <2>1. send_queued_packet(c) = c
    BY <1>1 DEF send_queued_packet
  <2> QED  BY <2>1, HandledSame DEF Steady
<1>2. CASE ~ idle
  <2>1. Head(c.send_queue) \in Packet
    BY <1>2, HeadSound
  <2>2. max \in 0..31
    BY <2>1 DEF Packet
  <2>3. c.parent \in Node \cap Parents(P)
    BY <1>2, FieldTypes, TableFields DEF Find, libp_neighbour_list_find
  <2>4. AtMost(max, MAX_MAC_REXMITS) \in 0..31
    BY <2>2 DEF AtMost, MAX_MAC_REXMITS
  <2> DEFINE e == send_packet(d, c.parent, AtMost(max, MAX_MAC_REXMITS))
  <2>5. send_queued_packet(c) = e
    BY <1>2 DEF send_queued_packet
  <2> HIDE DEF max, idle
  <2>6. /\ d.addr = c.addr /\ d.is_sink = c.is_sink /\ d.is_open = c.is_open
        /\ d.eseqno = c.eseqno /\ d.sent = c.sent
        /\ d.recent_packets = c.recent_packets /\ d.received = c.received
        /\ d.send_queue = c.send_queue /\ d.mac = c.mac
        /\ d.rtmetric = c.rtmetric
        /\ d.transmissions = 0 /\ d.max_rexmits = max
    BY FieldTypes DEF SoundFields
  <2>7. d \in SoundFields(I, P)
    <3>1. c \in SoundFields(I, P) /\ c.parent \in Parents(P)
      BY FieldTypes
    <3>2. 0 \in 0..UINT8-1
      BY Numbers
    <3> QED  BY <2>2, <3>1, <3>2, Zenon DEF SoundFields
  <2>8. d \in SoundConn(I, P)
    BY <2>6, <2>7, FieldTypes DEF SoundConn
  <2> HIDE DEF d
  <2>9. /\ Handled(c, d) /\ TriesLeft(d)
        /\ d.send_queue = c.send_queue /\ d.send_queue # <<>>
    BY <1>2, <2>2, <2>6, HandledFields DEF TriesLeft, Steady, idle
  <2>10. /\ e \in SoundConn(I, P) /\ Handled(d, e) /\ Armed(e)
         /\ Steady(d, e)
    BY <2>3, <2>4, <2>8, <2>9, SendPacketSound
  <2> HIDE DEF e
  <2>11. Handled(c, e)
    BY <2>8, <2>9, <2>10, HandledTrans
  <2> QED  BY <2>5, <2>9, <2>10, <2>11 DEF Steady
<1> QED  BY <1>1, <1>2

\* The queue without its head, when there is one.
Popped(q) == IF q = <<>> THEN q ELSE Tail(q)

LEMMA DoneWithHead ==
  ASSUME NEW I, NEW P, NEW c \in SoundConn(I, P)
  PROVE  /\ Popped(c.send_queue) \in Seq(SoundPacket(I))
         /\ Range(Popped(c.send_queue)) \subseteq Range(c.send_queue)
         /\ Cardinality(Forwarded(Popped(c.send_queue)))
              <= Cardinality(Forwarded(c.send_queue))
<1> DEFINE q == Popped(c.send_queue)
<1>1. c.send_queue \in Seq(SoundPacket(I))
  BY FieldTypes
<1>2. Cardinality(Forwarded(c.send_queue)) \in Nat
  BY <1>1, ForwardedFinite
<1>3. CASE c.send_queue = <<>>
  BY <1>1, <1>2, <1>3 DEF Popped
<1>4. CASE c.send_queue # <<>>
  <2> DEFINE t == c.send_queue
  <2>1. t \in Seq(SoundPacket(I)) /\ t # <<>> /\ q = Tail(t)
    BY <1>1, <1>4 DEF Popped
  <2> HIDE DEF t, q
  <2>2. q = [j \in 1..Len(t)-1 |-> IF j < 1 THEN t[j] ELSE t[j+1]] /\ 1 \in 1..Len(t)
    BY <2>1, TailOf
  <2>3. q \in Seq(SoundPacket(I)) /\ Range(q) \subseteq Range(t)
    BY <2>1, <2>2, RemovedAt
  <2>4. Cardinality(Forwarded(q)) <= Cardinality(Forwarded(t))
    BY <2>1, <2>2, ForwardedRemoved
  <2> QED  BY <2>3, <2>4 DEF t, q
<1> QED  BY <1>3, <1>4

LEMMA SendNextSound ==
  ASSUME NEW I, NEW P, NEW c \in SoundConn(I, P)
  PROVE  /\ send_next_packet(c) \in SoundConn(I, P)
         /\ Handled(c, send_next_packet(c))
         /\ Armed(send_next_packet(c))
<1> DEFINE q == Popped(c.send_queue)
           k == (c.seqno + 1) % UINT8
           d == [c EXCEPT !.send_queue = q, !.seqno = k,
                          !.retransmission_timer = "off",
                          !.sending = FALSE, !.transmissions = 0]
<1>1. send_next_packet(c) = send_queued_packet(d)
  BY DEF send_next_packet, Popped
<1>2. k \in 0..UINT8-1 /\ 0 \in 0..UINT8-1
  <2>1. c.seqno \in 0..UINT8-1 /\ UINT8 = 256
    BY FieldTypes, Numbers
  <2> QED  BY <2>1
<1>3. /\ q \in Seq(SoundPacket(I))
      /\ Range(q) \subseteq Range(c.send_queue)
      /\ Cardinality(Forwarded(q)) <= Cardinality(Forwarded(c.send_queue))
  BY DoneWithHead
<1> HIDE DEF k, q
<1>4. /\ d.addr = c.addr /\ d.is_sink = c.is_sink /\ d.is_open = c.is_open
      /\ d.eseqno = c.eseqno /\ d.sent = c.sent
      /\ d.recent_packets = c.recent_packets /\ d.received = c.received
      /\ d.send_queue = q /\ d.mac = c.mac
      /\ d.rtmetric = c.rtmetric /\ d.sending = FALSE
  BY FieldTypes DEF SoundFields
<1>5. d \in SoundFields(I, P)
  <2>1. c \in SoundFields(I, P)
    BY FieldTypes
  <2> QED  BY <1>2, <1>3, <2>1, Zenon DEF SoundFields
<1>6. d \in SoundConn(I, P)
  BY <1>4, <1>5, FieldTypes DEF SoundConn
<1> HIDE DEF d
<1>7. Handled(c, d)
  <2>1. SentFrom(c.send_queue, c.mac, d.mac)
    BY <1>4, HandledSame DEF Handled
  <2>2. Reserved(c) => Reserved(d)
    BY <1>3, <1>4, FieldTypes, ReservedShrinks
  <2> QED  BY <1>3, <1>4, <2>1, <2>2 DEF Handled, Kept
<1>8. Armed(d)
  BY <1>4 DEF Armed
<1> QED  BY <1>1, <1>6, <1>7, <1>8, SendQueuedSound, HandledTrans

-----------------------------------------------------------------------------
(* Choosing the parent and the rank that follows from it.                  *)

LEMMA DerefIn ==
  ASSUME NEW n, n # {}
  PROVE  Deref(n) \in n
BY DEF Deref

LEMMA Found ==
  ASSUME NEW I, NEW P, NEW c \in SoundConn(I, P), NEW a, NEW s \in Find(c, a)
  PROVE  /\ s \in Listed(c.neighbour_list) /\ s \in Slot
         /\ c.neighbour_list[s].addr = a /\ a \in Node
         /\ Deref(Find(c, a)) = s
<1> DEFINE t == c.neighbour_list
<1>1. /\ \A u \in Listed(t) : u \in Slot /\ t[u].addr \in Node
      /\ \A u, v \in Listed(t) : t[u].addr = t[v].addr => u = v
  <2>1. t \in SoundTable(P)
    BY FieldTypes
  <2> HIDE DEF t
  <2> QED  BY <2>1, TableFields
<1>2. Find(c, a) = {u \in Listed(t) : t[u].addr = a}
  BY DEF Find, libp_neighbour_list_find
<1>3. Deref(Find(c, a)) \in Find(c, a)
  BY DerefIn
<1> HIDE DEF t
<1>4. /\ s \in Listed(t) /\ t[s].addr = a
      /\ Deref(Find(c, a)) \in Listed(t) /\ t[Deref(Find(c, a))].addr = a
  BY <1>2, <1>3
<1> QED  BY <1>1, <1>4 DEF t

LEMMA CostRange ==
  ASSUME NEW I, NEW P, NEW c \in SoundConn(I, P), NEW n, Deref(n) \in Slot
  PROVE  /\ Cost(c, n) \in Nat /\ Cost(c, n) >= LIBP_LINK_METRIC_UNIT
         /\ Cost(c, n) = libp_neighbour_rtmetric_link_metric(c.neighbour_list[Deref(n)])
<1> DEFINE e == c.neighbour_list[Deref(n)]
<1>1. SaneEntry(e) /\ e.rtmetric \in Nat /\ e.rtmetric < RankLimit
  <2>1. c.neighbour_list \in SoundTable(P)
    BY FieldTypes
  <2> QED  BY <2>1, TableFields
<1>2. e.rtmetric < UINT16 - MAX_ETX
  BY <1>1, Numbers
<1>3. Cost(c, n) = libp_neighbour_rtmetric_link_metric(e)
  BY DEF Cost
<1> HIDE DEF e
<1> QED  BY <1>1, <1>2, <1>3, CostBounds DEF e

LEMMA BestCost ==
  ASSUME NEW I, NEW P, NEW c \in SoundConn(I, P),
         NEW n, n = libp_neighbour_list_best(c.neighbour_list), n # {}
  PROVE  /\ Deref(n) \in Listed(c.neighbour_list) /\ Deref(n) \in Slot
         /\ c.neighbour_list[Deref(n)].addr \in Node \cap Parents(P)
         /\ Cost(c, n) < RTMETRIC_MAX
<1> DEFINE t == c.neighbour_list
           s == Deref(n)
<1>1. s \in n
  BY DerefIn
<1>2. s \in Listed(t) /\ libp_neighbour_rtmetric_link_metric(t[s]) < RTMETRIC_MAX
  BY <1>1 DEF libp_neighbour_list_best
<1>3. s \in Slot /\ t[s].addr \in Node \cap Parents(P)
  <2>1. t \in SoundTable(P)
    BY FieldTypes
  <2> HIDE DEF t, s
  <2> QED  BY <1>2, <2>1, TableFields
<1> QED  BY <1>2, <1>3 DEF Cost

LEMMA NullNotNode == NullAddr \notin Node
BY NeighboursAssumption

LEMMA NullNotFound ==
  ASSUME NEW I, NEW P, NEW c \in SoundConn(I, P)
  PROVE  Find(c, NullAddr) = {}
<1>1. ASSUME NEW s \in Find(c, NullAddr) PROVE NullAddr \in Node
  BY Found
<1> QED  BY <1>1, NullNotNode

\* The parent that update_parent() leaves, and what its route costs.
LEMMA ParentChosen ==
  ASSUME NEW I, NEW P, NEW c \in SoundConn(I, P)
  PROVE  \E p \in Parents(P) :
           /\ update_parent(c) = [c EXCEPT !.parent = p]
           /\ \A s \in Find(c, p) : Cost(c, Find(c, p)) < RankLimit
<1> DEFINE current == Find(c, c.parent)
           best    == libp_neighbour_list_best(c.neighbour_list)
           better  == Cost(c, best) + SIGNIFICANT_RTMETRIC_PARENT_CHANGE
                        < Cost(c, current)
           next    == c.neighbour_list[Deref(best)].addr
<1>1. c.parent \in Parents(P) /\ c = [c EXCEPT !.parent = c.parent]
  BY FieldTypes DEF SoundFields
<1>2. CASE best = {}
  <2>1. update_parent(c) = [c EXCEPT !.parent = NullAddr]
    BY <1>2 DEF update_parent
  <2>2. Find(c, NullAddr) = {} /\ NullAddr \in Parents(P)
    BY NullNotFound DEF Parents
  <2> QED  BY <2>1, <2>2
<1>3. CASE best # {} /\ (current = {} \/ better)
  <2>1. update_parent(c) = [c EXCEPT !.parent = next]
    BY <1>3 DEF update_parent
  <2>2. /\ Deref(best) \in Listed(c.neighbour_list) /\ next \in Node \cap Parents(P)
        /\ Cost(c, best) < RTMETRIC_MAX
    BY <1>3, BestCost
  <2>3. Deref(best) \in Find(c, next)
    BY <2>2 DEF Find, libp_neighbour_list_find
  <2>4. Deref(Find(c, next)) = Deref(best)
    BY <2>3, Found
  <2>5. Cost(c, Find(c, next)) = Cost(c, best)
    BY <2>4 DEF Cost
  <2>6. Cost(c, best) \in Nat
    BY <1>3, BestCost, CostRange
  <2> HIDE DEF next
  <2> QED  BY <2>1, <2>2, <2>5, <2>6, Numbers
<1>4. CASE best # {} /\ current # {} /\ ~ better
  <2>1. update_parent(c) = c
    BY <1>4 DEF update_parent
  <2>2. Cost(c, best) < RTMETRIC_MAX /\ Cost(c, best) \in Nat
    BY <1>4, BestCost, CostRange
  <2>3. Cost(c, current) \in Nat
    <3>1. Deref(current) \in Slot
      BY <1>4, DerefIn, Found
    <3> QED  BY <3>1, CostRange
  <2>4. Cost(c, current) <= Cost(c, best) + SIGNIFICANT_RTMETRIC_PARENT_CHANGE
    BY <1>4, <2>2, <2>3, Numbers
  <2>5. Cost(c, current) < RankLimit
    BY <2>2, <2>3, <2>4, Numbers
  <2> QED  BY <1>1, <2>1, <2>5
<1> QED  BY <1>2, <1>3, <1>4

LEMMA SetParentSound ==
  ASSUME NEW I, NEW P, NEW c \in SoundConn(I, P), NEW p \in Parents(P)
  PROVE  /\ [c EXCEPT !.parent = p] \in SoundConn(I, P)
         /\ Handled(c, [c EXCEPT !.parent = p])
         /\ Armed(c) => Armed([c EXCEPT !.parent = p])
         /\ Steady(c, [c EXCEPT !.parent = p])
         /\ [c EXCEPT !.parent = p].parent = p
         /\ [c EXCEPT !.parent = p].rtmetric = c.rtmetric
         /\ [c EXCEPT !.parent = p].neighbour_list = c.neighbour_list
<1> DEFINE d == [c EXCEPT !.parent = p]
<1>1. /\ d.addr = c.addr /\ d.is_sink = c.is_sink /\ d.is_open = c.is_open
      /\ d.eseqno = c.eseqno /\ d.sent = c.sent
      /\ d.recent_packets = c.recent_packets /\ d.received = c.received
      /\ d.send_queue = c.send_queue /\ d.mac = c.mac
      /\ d.rtmetric = c.rtmetric /\ d.parent = p
      /\ d.neighbour_list = c.neighbour_list
      /\ d.sending = c.sending /\ d.retransmission_timer = c.retransmission_timer
      /\ d.transmissions = c.transmissions /\ d.max_rexmits = c.max_rexmits
  BY FieldTypes DEF SoundFields
<1>2. d \in SoundFields(I, P)
  <2>1. c \in SoundFields(I, P)
    BY FieldTypes
  <2> QED  BY <2>1, Zenon DEF SoundFields
<1>3. d \in SoundConn(I, P)
  BY <1>1, <1>2, FieldTypes DEF SoundConn
<1> HIDE DEF d
<1>4. Handled(c, d)
  BY <1>1, HandledFields
<1> QED  BY <1>1, <1>3, <1>4 DEF d, Armed, TriesLeft, Steady

\* A node that is no sink gets a rank between one link and the limit.
LEMMA NewRankRange ==
  ASSUME NEW I, NEW P, NEW c \in SoundConn(I, P),
         \A s \in Find(c, c.parent) : Cost(c, Find(c, c.parent)) < RankLimit
  PROVE  /\ NewRank(c) \in 0..RankLimit-1
         /\ NewRank(c) >= LIBP_LINK_METRIC_UNIT
<1> DEFINE n == Find(c, c.parent)
<1>1. CASE n = {}
  <2>1. rtmetric_compute(c) = RTMETRIC_MAX
    BY <1>1 DEF rtmetric_compute
  <2> QED  BY <2>1, Numbers DEF NewRank
<1>2. CASE n # {}
  <2>1. Deref(n) \in n
    BY <1>2, DerefIn
  <2>2. Deref(n) \in Slot
    BY <2>1, Found
  <2>3. Cost(c, n) \in Nat /\ Cost(c, n) >= LIBP_LINK_METRIC_UNIT
    BY <2>2, CostRange
  <2>4. Cost(c, n) < RankLimit
    BY <2>1
  <2>5. rtmetric_compute(c) = Cost(c, n)
    BY <1>2 DEF rtmetric_compute
  <2> HIDE DEF n
  <2> QED  BY <2>3, <2>4, <2>5, Numbers DEF NewRank
<1> QED  BY <1>1, <1>2

LEMMA RankedSound ==
  ASSUME NEW I, NEW P, NEW c \in SoundConn(I, P), NEW rank \in 0..RankLimit-1,
         rank >= LIBP_LINK_METRIC_UNIT, c.rtmetric # RTMETRIC_SINK
  PROVE  /\ Ranked(c, rank) \in SoundConn(I, P)
         /\ Handled(c, Ranked(c, rank))
         /\ Armed(c) => Armed(Ranked(c, rank))
         /\ Steady(c, Ranked(c, rank))
<1> DEFINE a == IF c.is_router THEN rank ELSE c.announcement
           d == [c EXCEPT !.rtmetric = rank, !.announcement = a]
<1>1. Ranked(c, rank) = d
  BY DEF Ranked
<1>2. a \in Announceable(P)
  BY FieldTypes DEF Announceable, Routing
<1> HIDE DEF a
<1>3. /\ d.addr = c.addr /\ d.is_sink = c.is_sink /\ d.is_open = c.is_open
      /\ d.eseqno = c.eseqno /\ d.sent = c.sent
      /\ d.recent_packets = c.recent_packets /\ d.received = c.received
      /\ d.send_queue = c.send_queue /\ d.mac = c.mac
      /\ d.rtmetric = rank
      /\ d.sending = c.sending /\ d.retransmission_timer = c.retransmission_timer
      /\ d.transmissions = c.transmissions /\ d.max_rexmits = c.max_rexmits
  BY FieldTypes DEF SoundFields
<1>4. d \in SoundFields(I, P)
  <2>1. c \in SoundFields(I, P)
    BY FieldTypes
  <2> QED  BY <1>2, <2>1, Zenon DEF SoundFields
<1> HIDE DEF d
<1>5. d \in SoundConn(I, P)
  <2>1. ~ (d.rtmetric < LIBP_LINK_METRIC_UNIT)
    BY <1>3, Numbers
  <2> QED  BY <1>4, <2>1 DEF SoundConn
<1>6. Handled(c, d)
  BY <1>3, HandledFields
<1> QED  BY <1>1, <1>3, <1>5, <1>6 DEF Armed, TriesLeft, Steady

LEMMA UpdateRankSound ==
  ASSUME NEW I, NEW P, NEW c \in SoundConn(I, P)
  PROVE  /\ update_rtmetric(c) \in SoundConn(I, P)
         /\ Handled(c, update_rtmetric(c))
         /\ Armed(c) => Armed(update_rtmetric(c))
         /\ Steady(c, update_rtmetric(c))
         /\ c.rtmetric = RTMETRIC_SINK => update_rtmetric(c) = c
<1>1. CASE c.rtmetric = RTMETRIC_SINK
  <2>1. update_rtmetric(c) = c
    BY <1>1 DEF update_rtmetric
  <2> QED  BY <2>1, HandledSame DEF Steady
<1>2. CASE c.rtmetric # RTMETRIC_SINK
  <2>1. PICK p \in Parents(P) :
          /\ update_parent(c) = [c EXCEPT !.parent = p]
          /\ \A s \in Find(c, p) : Cost(c, Find(c, p)) < RankLimit
    BY ParentChosen
  <2> DEFINE d == [c EXCEPT !.parent = p]
             e == Ranked(d, NewRank(d))
             f == send_queued_packet(e)
  <2>2. /\ d \in SoundConn(I, P) /\ Handled(c, d)
        /\ Armed(c) => Armed(d)
        /\ Steady(c, d)
        /\ d.parent = p /\ d.rtmetric = c.rtmetric
        /\ d.neighbour_list = c.neighbour_list
    BY SetParentSound
  <2>3. update_rtmetric(c) \in {e, f}
    BY <1>2, <2>1 DEF update_rtmetric
  <2> HIDE DEF d
  <2>4. \A s \in Find(d, d.parent) : Cost(d, Find(d, d.parent)) < RankLimit
    BY <2>1, <2>2 DEF Find, Cost
  <2>5. /\ NewRank(d) \in 0..RankLimit-1
        /\ NewRank(d) >= LIBP_LINK_METRIC_UNIT
    BY <2>2, <2>4, NewRankRange
  <2>6. /\ e \in SoundConn(I, P) /\ Handled(d, e)
        /\ Armed(d) => Armed(e)
        /\ Steady(d, e)
    BY <1>2, <2>2, <2>5, RankedSound
  <2> HIDE DEF e
  <2>7. /\ f \in SoundConn(I, P) /\ Handled(e, f)
        /\ Armed(e) => Armed(f)
        /\ Steady(e, f)
    BY <2>6, SendQueuedSound
  <2> HIDE DEF f
  <2>8. Handled(c, e)
    BY <2>2, <2>6, HandledTrans
  <2>9. Handled(c, f)
    BY <2>6, <2>7, <2>8, HandledTrans
  <2> QED  BY <1>2, <2>2, <2>3, <2>6, <2>7, <2>8, <2>9 DEF Steady
<1> QED  BY <1>1, <1>2

\* A new table, the rest of the connection as it was.
LEMMA SetTableSound ==
  ASSUME NEW I, NEW P, NEW c \in SoundConn(I, P), NEW t \in SoundTable(P)
  PROVE  /\ [c EXCEPT !.neighbour_list = t] \in SoundConn(I, P)
         /\ Handled(c, [c EXCEPT !.neighbour_list = t])
         /\ Armed(c) => Armed([c EXCEPT !.neighbour_list = t])
         /\ Steady(c, [c EXCEPT !.neighbour_list = t])
         /\ [c EXCEPT !.neighbour_list = t].rtmetric = c.rtmetric
         /\ [c EXCEPT !.neighbour_list = t].mac = c.mac
<1> DEFINE d == [c EXCEPT !.neighbour_list = t]
<1>1. /\ d.addr = c.addr /\ d.is_sink = c.is_sink /\ d.is_open = c.is_open
      /\ d.eseqno = c.eseqno /\ d.sent = c.sent
      /\ d.recent_packets = c.recent_packets /\ d.received = c.received
      /\ d.send_queue = c.send_queue /\ d.mac = c.mac
      /\ d.rtmetric = c.rtmetric
      /\ d.sending = c.sending /\ d.retransmission_timer = c.retransmission_timer
      /\ d.transmissions = c.transmissions /\ d.max_rexmits = c.max_rexmits
  BY FieldTypes DEF SoundFields
<1>2. d \in SoundFields(I, P)
  <2>1. c \in SoundFields(I, P)
    BY FieldTypes
  <2> QED  BY <2>1, Zenon DEF SoundFields
<1>3. d \in SoundConn(I, P)
  BY <1>1, <1>2, FieldTypes DEF SoundConn
<1> HIDE DEF d
<1>4. Handled(c, d)
  BY <1>1, HandledFields
<1> QED  BY <1>1, <1>3, <1>4 DEF d, Armed, TriesLeft, Steady

\* A neighbour reports a rank, or the link to one has been measured.
LEMMA TableThenRank ==
  ASSUME NEW I, NEW P, NEW c \in SoundConn(I, P), NEW t \in SoundTable(P),
         NEW d, d = update_rtmetric([c EXCEPT !.neighbour_list = t])
  PROVE  /\ d \in SoundConn(I, P) /\ Handled(c, d)
         /\ Armed(c) => Armed(d)
         /\ Steady(c, d)
         /\ c.rtmetric = RTMETRIC_SINK => d = [c EXCEPT !.neighbour_list = t]
<1> DEFINE e == [c EXCEPT !.neighbour_list = t]
<1>1. /\ e \in SoundConn(I, P) /\ Handled(c, e)
      /\ Armed(c) => Armed(e)
      /\ Steady(c, e)
      /\ e.rtmetric = c.rtmetric
  BY SetTableSound
<1>2. d = update_rtmetric(e)
  OBVIOUS
<1> HIDE DEF e
<1>3. /\ d \in SoundConn(I, P) /\ Handled(e, d)
      /\ Armed(e) => Armed(d)
      /\ Steady(e, d)
      /\ e.rtmetric = RTMETRIC_SINK => d = e
  BY <1>1, <1>2, UpdateRankSound
<1>4. Handled(c, d)
  BY <1>1, <1>3, HandledTrans
<1> QED  BY <1>1, <1>3, <1>4 DEF e, Steady

LEMMA AnnouncementSound ==
  ASSUME NEW I, NEW P, NEW c \in SoundConn(I, P), NEW from \in Node,
         NEW value \in 0..RankLimit-1,
         from \in Parents(P) \/ c.rtmetric = RTMETRIC_SINK,
         NEW d, d = received_announcement(c, from, value)
  PROVE  /\ d \in SoundConn(I, P) /\ Handled(c, d) /\ (Armed(c) => Armed(d))
<1> DEFINE n == Find(c, from)
           t == IF n # {}
                THEN libp_neighbour_update_rtmetric(c.neighbour_list, n, value)
                ELSE IF value < c.rtmetric
                THEN libp_neighbour_list_add(c.neighbour_list, from, value)
                ELSE c.neighbour_list
<1>1. c.neighbour_list \in SoundTable(P)
  BY FieldTypes
<1>2. t \in SoundTable(P)
  <2>1. value \in Nat /\ RTMETRIC_SINK = 0
    BY Numbers
  <2> QED  BY <1>1, <2>1, UpdateRtmetricSound, AddSound
<1>3. d = update_rtmetric([c EXCEPT !.neighbour_list = t])
  BY DEF received_announcement
<1> HIDE DEF t
<1> QED  BY <1>2, <1>3, TableThenRank

-----------------------------------------------------------------------------
(* The outcome of a transmission.                                          *)

\* An operator on the node's own packets that keeps a transmission guarded.
Serves(I, P, c, d) ==
  d \in SoundConn(I, P) /\ Handled(c, d) /\ (Armed(c) => Armed(d))

LEMMA ServesSame ==
  ASSUME NEW I, NEW P, NEW c \in SoundConn(I, P)
  PROVE  Serves(I, P, c, c)
BY HandledSame DEF Serves

LEMMA ServesTrans ==
  ASSUME NEW I, NEW P, NEW c \in SoundConn(I, P), NEW d, NEW e,
         Serves(I, P, c, d), Serves(I, P, d, e)
  PROVE  Serves(I, P, c, e)
<1>1. d \in SoundConn(I, P) /\ e \in SoundConn(I, P)
  BY DEF Serves
<1>2. Handled(c, e)
  BY <1>1, HandledTrans DEF Serves
<1> QED  BY <1>2 DEF Serves

\* The fields that say how far the transmission of the head has come.
Progress(c, k, timer, p, dropped) ==
  [c EXCEPT !.transmissions = k, !.retransmission_timer = timer,
            !.current_parent = p, !.dropped = dropped]

LEMMA SetProgressSound ==
  ASSUME NEW I, NEW P, NEW c \in SoundConn(I, P), NEW k \in 0..UINT8-1,
         NEW timer \in {"off", "retransmit", "not_sent"},
         NEW p \in Parents(P), NEW dropped \in SUBSET PacketId
  PROVE  LET d == Progress(c, k, timer, p, dropped)
         IN  /\ d \in SoundConn(I, P) /\ Handled(c, d)
             /\ d.sending = c.sending
             /\ d.transmissions = k /\ d.retransmission_timer = timer
             /\ d.max_rexmits = c.max_rexmits /\ d.send_queue = c.send_queue
             /\ d.parent = c.parent /\ d.current_parent = p
             /\ d.neighbour_list = c.neighbour_list /\ d.rtmetric = c.rtmetric
<1> DEFINE e == [c EXCEPT !.transmissions = k, !.retransmission_timer = timer,
                          !.current_parent = p, !.dropped = dropped]
<1>1. /\ e.addr = c.addr /\ e.is_sink = c.is_sink /\ e.is_open = c.is_open
      /\ e.eseqno = c.eseqno /\ e.sent = c.sent
      /\ e.recent_packets = c.recent_packets /\ e.received = c.received
      /\ e.send_queue = c.send_queue /\ e.mac = c.mac
      /\ e.rtmetric = c.rtmetric /\ e.sending = c.sending
      /\ e.transmissions = k /\ e.retransmission_timer = timer
      /\ e.max_rexmits = c.max_rexmits
      /\ e.parent = c.parent /\ e.current_parent = p
      /\ e.neighbour_list = c.neighbour_list
  BY FieldTypes DEF SoundFields
<1>2. e \in SoundFields(I, P)
  <2>1. c \in SoundFields(I, P)
    BY FieldTypes
  <2> QED  BY <2>1, Zenon DEF SoundFields
<1>3. e \in SoundConn(I, P)
  BY <1>1, <1>2, FieldTypes DEF SoundConn
<1>4. Progress(c, k, timer, p, dropped) = e
  BY DEF Progress
<1> HIDE DEF e
<1>5. Handled(c, e)
  BY <1>1, HandledFields
<1> QED  BY <1>1, <1>3, <1>4, <1>5

LEMMA SetSendingSound ==
  ASSUME NEW I, NEW P, NEW c \in SoundConn(I, P), NEW d,
         d.sending \in BOOLEAN, d = [c EXCEPT !.sending = d.sending]
  PROVE  /\ d \in SoundConn(I, P) /\ Handled(c, d)
         /\ ~ d.sending => Armed(d)
         /\ d.transmissions = c.transmissions /\ d.max_rexmits = c.max_rexmits
         /\ d.send_queue = c.send_queue
<1>1. /\ d.addr = c.addr /\ d.is_sink = c.is_sink /\ d.is_open = c.is_open
      /\ d.eseqno = c.eseqno /\ d.sent = c.sent
      /\ d.recent_packets = c.recent_packets /\ d.received = c.received
      /\ d.send_queue = c.send_queue /\ d.mac = c.mac
      /\ d.rtmetric = c.rtmetric
      /\ d.transmissions = c.transmissions
      /\ d.max_rexmits = c.max_rexmits
  <2>1. c \in SoundFields(I, P)
    BY FieldTypes
  <2>2. PICK b : b = d.sending
    OBVIOUS
  <2>3. d = [c EXCEPT !.sending = b]
    BY ONLY <2>2, d = [c EXCEPT !.sending = d.sending], Zenon
  <2> QED  BY <2>1, <2>3 DEF SoundFields
<1>2. d \in SoundFields(I, P)
  <2>1. c \in SoundFields(I, P)
    BY FieldTypes
  <2>2. PICK b \in BOOLEAN : b = d.sending
    OBVIOUS
  <2>3. [c EXCEPT !.sending = b] \in SoundFields(I, P)
    BY <2>1, Zenon DEF SoundFields
  <2> QED  BY <2>2, <2>3, Zenon
<1>3. d \in SoundConn(I, P)
  BY <1>1, <1>2, FieldTypes DEF SoundConn
<1>4. Handled(c, d)
  BY <1>1, HandledFields
<1> QED  BY <1>1, <1>3, <1>4 DEF Armed

\* What is left of a connection when `sending' is set.
LEMMA SendingIs ==
  ASSUME NEW I, NEW P, NEW c \in SoundConn(I, P)
  PROVE  /\ LET d == [c EXCEPT !.sending = FALSE]
            IN  /\ d.sending = FALSE /\ d.sending \in BOOLEAN
                /\ d = [c EXCEPT !.sending = d.sending]
         /\ LET d == [c EXCEPT !.sending = TRUE]
            IN  /\ d.sending = TRUE /\ d.sending \in BOOLEAN
                /\ d = [c EXCEPT !.sending = d.sending]
BY FieldTypes DEF SoundFields

LEMMA FrameFields ==
  ASSUME NEW I, NEW f \in SoundFrame(I)
  PROVE  /\ f \in Frame
         /\ f.type \in {"DATA", "ACK"} /\ f.src \in Node /\ f.dst \in Node
         /\ f.seqno \in 0..UINT8-1 /\ f.rtmetric \in 0..RankLimit-1
         /\ f.flags \in SUBSET AckFlags
         /\ f.packet \in SoundPacket(I) /\ f.packet \in Packet
         /\ f.tries \in 0..31 /\ f.heard \in Nat
<1>1. f \in Frame /\ f.rtmetric < RankLimit /\ f.packet \in SoundPacket(I)
  BY DEF SoundFrame
<1>2. /\ f.type \in {"DATA", "ACK"} /\ f.src \in Node /\ f.dst \in Node
      /\ f.seqno \in 0..UINT8-1 /\ f.rtmetric \in 0..UINT16-1
      /\ f.flags \in SUBSET AckFlags
      /\ f.packet \in Packet /\ f.tries \in 0..31 /\ f.heard \in Nat
  BY <1>1, Zenon DEF Frame
<1>3. f.rtmetric \in 0..RankLimit-1
  BY <1>1, <1>2, RankBack
<1> QED  BY <1>1, <1>2, <1>3

LEMMA SetTimerSound ==
  ASSUME NEW I, NEW P, NEW c \in SoundConn(I, P)
  PROVE  Serves(I, P, c, [c EXCEPT !.retransmission_timer = "retransmit"])
<1> DEFINE d == [c EXCEPT !.retransmission_timer = "retransmit"]
<1>1. d = Progress(c, c.transmissions, "retransmit", c.current_parent, c.dropped)
  BY FieldTypes DEF SoundFields, Progress
<1>2. /\ "retransmit" \in {"off", "retransmit", "not_sent"}
      /\ c.transmissions \in 0..UINT8-1
      /\ c.current_parent \in Parents(P)
      /\ c.dropped \in SUBSET PacketId
  BY FieldTypes
<1> HIDE DEF d
<1>3. d \in SoundConn(I, P) /\ Handled(c, d) /\ d.retransmission_timer = "retransmit"
  BY <1>1, <1>2, SetProgressSound
<1> QED  BY <1>3 DEF d, Serves, Armed

LEMMA PenaliseSound ==
  ASSUME NEW I, NEW P, NEW c \in SoundConn(I, P), NEW n, NEW k \in Nat,
         NEW d, d = update_rtmetric([c EXCEPT !.neighbour_list = libp_neighbour_tx(@, n, k)])
  PROVE  Serves(I, P, c, d)
<1>1. libp_neighbour_tx(c.neighbour_list, n, k) \in SoundTable(P)
  BY FieldTypes, TxSound
<1> QED  BY <1>1, TableThenRank DEF Serves

LEMMA HandleAckSound ==
  ASSUME NEW I, NEW P, NEW c \in SoundConn(I, P), NEW ack \in SoundFrame(I)
  PROVE  Serves(I, P, c, handle_ack(c, ack))
<1> DEFINE n  == Find(c, ack.src)
           tx == IF c.transmissions = 0 THEN MAX_MAC_REXMITS ELSE c.transmissions
           t  == libp_neighbour_update_rtmetric(
                   libp_neighbour_tx(c.neighbour_list, n, tx), n, ack.rtmetric)
           Measured == [c EXCEPT !.transmissions = tx, !.neighbour_list = t]
           Penalise(d, k) ==
             update_rtmetric([d EXCEPT !.neighbour_list = libp_neighbour_tx(@, n, k)])
           Congestion(d) ==
             IF "CONGESTED" \in ack.flags THEN Penalise(d, d.max_rexmits * 2) ELSE d
           Conclude(d) ==
             IF "DROPPED" \notin ack.flags \/ "LIFETIME_EXCEEDED" \in ack.flags
             THEN send_next_packet(d)
             ELSE [Penalise(d, d.max_rexmits) EXCEPT !.retransmission_timer = "retransmit"]
           a == IF n = {} THEN Measured ELSE update_rtmetric(Measured)
           b == Congestion(a)
<1>1. tx \in 0..UINT8-1 /\ tx \in Nat
  <2>1. c.transmissions \in 0..UINT8-1 /\ UINT8 = 256
    BY FieldTypes, Numbers
  <2> QED  BY <2>1 DEF MAX_MAC_REXMITS
<1>2. t \in SoundTable(P)
  <2>1. c.neighbour_list \in SoundTable(P)
    BY FieldTypes
  <2>2. ack.rtmetric \in 0..RankLimit-1
    BY FrameFields
  <2> QED  BY <1>1, <2>1, <2>2, TxSound, UpdateRtmetricSound
<1> HIDE DEF tx, t
<1>3. Serves(I, P, c, Measured)
  <2> DEFINE e == [c EXCEPT !.transmissions = tx]
  <2>1. e = Progress(c, tx, c.retransmission_timer, c.current_parent, c.dropped)
    BY FieldTypes DEF SoundFields, Progress
  <2>2. /\ c.retransmission_timer \in {"off", "retransmit", "not_sent"}
        /\ c.current_parent \in Parents(P)
        /\ c.dropped \in SUBSET PacketId
    BY FieldTypes
  <2>3. Measured = [e EXCEPT !.neighbour_list = t]
    BY FieldTypes DEF SoundFields
  <2> HIDE DEF e
  <2>4. Serves(I, P, c, e)
    <3>1. /\ e \in SoundConn(I, P) /\ Handled(c, e) /\ e.sending = c.sending
          /\ e.retransmission_timer = c.retransmission_timer
      BY <1>1, <2>1, <2>2, SetProgressSound
    <3> QED  BY <3>1 DEF Serves, Armed
  <2>5. Serves(I, P, e, [e EXCEPT !.neighbour_list = t])
    BY <1>2, <2>4, SetTableSound DEF Serves
  <2> QED  BY <2>3, <2>4, <2>5, ServesTrans
<1> HIDE DEF Measured
<1>4. Serves(I, P, c, a)
  <2>1. CASE n = {}
    BY <1>3, <2>1
  <2>2. CASE n # {}
    <3>1. Serves(I, P, Measured, update_rtmetric(Measured))
      BY <1>3, UpdateRankSound DEF Serves
    <3> QED  BY <1>3, <2>2, <3>1, ServesTrans
  <2> QED  BY <2>1, <2>2
<1> HIDE DEF a
<1>5. ASSUME NEW d \in SoundConn(I, P), NEW k \in Nat
      PROVE  Serves(I, P, d, Penalise(d, k))
  BY PenaliseSound
<1>6. ASSUME NEW d \in SoundConn(I, P)
      PROVE  d.max_rexmits * 2 \in Nat /\ d.max_rexmits \in Nat
  <2>1. d.max_rexmits \in 0..31
    BY FieldTypes
  <2> QED  BY <2>1
<1> HIDE DEF Penalise
<1>7. Serves(I, P, c, b)
  <2>1. a \in SoundConn(I, P)
    BY <1>4 DEF Serves
  <2>2. Serves(I, P, a, b)
    BY <1>5, <1>6, <2>1, ServesSame
  <2> QED  BY <1>4, <2>2, ServesTrans
<1> HIDE DEF b
<1>8. b \in SoundConn(I, P)
  BY <1>7 DEF Serves
<1>9. Serves(I, P, b, Conclude(b))
  <2>1. Serves(I, P, b, send_next_packet(b))
    BY <1>8, SendNextSound DEF Serves
  <2>2. Serves(I, P, b, [Penalise(b, b.max_rexmits) EXCEPT !.retransmission_timer = "retransmit"])
    <3> DEFINE e == Penalise(b, b.max_rexmits)
    <3>1. Serves(I, P, b, e)
      BY <1>5, <1>6, <1>8
    <3> HIDE DEF e
    <3>2. Serves(I, P, e, [e EXCEPT !.retransmission_timer = "retransmit"])
      BY <3>1, SetTimerSound DEF Serves
    <3>3. Serves(I, P, b, [e EXCEPT !.retransmission_timer = "retransmit"])
      BY <1>8, <3>1, <3>2, ServesTrans
    <3> QED  BY <3>3 DEF e
  <2> QED  BY <2>1, <2>2
<1>10. Serves(I, P, c, Conclude(b))
  BY <1>7, <1>9, ServesTrans
<1>11. handle_ack(c, ack)
         = IF ack.src # c.current_parent \/ ack.seqno # c.seqno THEN c ELSE Conclude(b)
  BY Zenon DEF handle_ack, b, a, Measured, t, tx, Penalise
<1> QED  BY <1>10, <1>11, ServesSame

LEMMA GivenUpSound ==
  ASSUME NEW I, NEW P, NEW c \in SoundConn(I, P), NEW p \in Packet
  PROVE  /\ Serves(I, P, c, GivenUp(c, p))
         /\ GivenUp(c, p).max_rexmits = c.max_rexmits
         /\ GivenUp(c, p).neighbour_list = c.neighbour_list
         /\ GivenUp(c, p).rtmetric = c.rtmetric
         /\ GivenUp(c, p).mac = c.mac
<1> DEFINE g == IF p.probe THEN c.dropped ELSE c.dropped \cup {p.id}
           d == [c EXCEPT !.dropped = g]
<1>1. g \in SUBSET PacketId
  <2>1. p.id \in PacketId /\ c.dropped \in SUBSET PacketId
    BY FieldTypes DEF Packet
  <2> QED  BY <2>1
<1>2. GivenUp(c, p) = d
  BY DEF GivenUp
<1> HIDE DEF g
<1>3. d = Progress(c, c.transmissions, c.retransmission_timer, c.current_parent, g)
  BY FieldTypes DEF SoundFields, Progress
<1>4. /\ c.transmissions \in 0..UINT8-1
      /\ c.retransmission_timer \in {"off", "retransmit", "not_sent"}
      /\ c.current_parent \in Parents(P)
  BY FieldTypes
<1>5. d.mac = c.mac
  BY FieldTypes DEF SoundFields
<1> HIDE DEF d
<1>6. /\ d \in SoundConn(I, P) /\ Handled(c, d)
      /\ d.sending = c.sending /\ d.retransmission_timer = c.retransmission_timer
      /\ d.max_rexmits = c.max_rexmits /\ d.neighbour_list = c.neighbour_list
      /\ d.rtmetric = c.rtmetric
  <2> DEFINE k     == c.transmissions
             timer == c.retransmission_timer
             q     == c.current_parent
  <2>1. /\ k \in 0..UINT8-1 /\ timer \in {"off", "retransmit", "not_sent"}
        /\ q \in Parents(P) /\ d = Progress(c, k, timer, q, g)
    BY <1>3, <1>4
  <2>2. timer = c.retransmission_timer
    OBVIOUS
  <2> HIDE DEF k, timer, q
  <2> QED  BY <1>1, <2>1, <2>2, SetProgressSound
<1> QED  BY <1>2, <1>5, <1>6 DEF Serves, Armed

LEMMA TimedoutSound ==
  ASSUME NEW I, NEW P, NEW c \in SoundConn(I, P)
  PROVE  /\ timedout(c) \in SoundConn(I, P) /\ Handled(c, timedout(c))
         /\ Armed(timedout(c))
<1> DEFINE a == IF c.send_queue = <<>> THEN c ELSE GivenUp(c, Head(c.send_queue))
           b == [a EXCEPT !.sending = FALSE]
           t == libp_neighbour_tx_fail(a.neighbour_list, Find(c, c.current_parent),
                                       c.max_rexmits)
           d == update_rtmetric([b EXCEPT !.neighbour_list = t])
<1>1. a \in SoundConn(I, P) /\ Handled(c, a)
  <2>1. CASE c.send_queue = <<>>
    BY <2>1, HandledSame
  <2>2. CASE c.send_queue # <<>>
    BY <2>2, HeadSound, GivenUpSound DEF Serves
  <2> QED  BY <2>1, <2>2
<1> HIDE DEF a
<1>2. t \in SoundTable(P)
  <2>1. a.neighbour_list \in SoundTable(P) /\ c.max_rexmits \in 0..31
    BY <1>1, FieldTypes
  <2>2. c.max_rexmits \in Nat
    BY <2>1
  <2> QED  BY <2>1, <2>2, TxFailSound
<1>3. timedout(c) = send_next_packet(d)
  <2>1. [a EXCEPT !.sending = FALSE, !.neighbour_list = t]
          = [b EXCEPT !.neighbour_list = t]
    OBVIOUS
  <2> QED  BY <2>1 DEF timedout, a
<1> HIDE DEF t
<1>4. b \in SoundConn(I, P) /\ Handled(a, b)
  <2>1. b.sending \in BOOLEAN /\ b = [a EXCEPT !.sending = b.sending]
    BY <1>1, SendingIs
  <2> HIDE DEF b
  <2> QED  BY <1>1, <2>1, SetSendingSound
<1> HIDE DEF b
<1>5. d \in SoundConn(I, P) /\ Handled(b, d)
  BY <1>2, <1>4, TableThenRank
<1> HIDE DEF d
<1> DEFINE e == send_next_packet(d)
<1>6. e \in SoundConn(I, P) /\ Handled(d, e) /\ Armed(e)
  BY <1>5, SendNextSound
<1> HIDE DEF e
<1>7. Handled(c, b)
  BY <1>1, <1>4, HandledTrans
<1>8. Handled(c, d)
  BY <1>4, <1>5, <1>7, HandledTrans
<1>9. Handled(c, e)
  BY <1>5, <1>6, <1>8, HandledTrans
<1> QED  BY <1>3, <1>6, <1>9 DEF e

\* The counter is a uint8_t.
LEMMA CounterWraps ==
  ASSUME NEW k \in 0..UINT8-1, NEW j \in Nat
  PROVE  (k + j) % UINT8 \in 0..UINT8-1
<1>1. UINT8 = 256
  BY Numbers
<1> QED  BY <1>1

\* Only the counter of transmissions changes.
LEMMA CountSound ==
  ASSUME NEW I, NEW P, NEW c \in SoundConn(I, P), NEW j \in Nat
  PROVE  LET d == [c EXCEPT !.transmissions = (@ + j) % UINT8]
         IN  /\ Serves(I, P, c, d) /\ d.mac = c.mac
             /\ d.retransmission_timer = c.retransmission_timer
<1> DEFINE k == (c.transmissions + j) % UINT8
           e == [c EXCEPT !.transmissions = k]
<1>1. k \in 0..UINT8-1
  <2>1. c.transmissions \in 0..UINT8-1
    BY FieldTypes
  <2> QED  BY <2>1, CounterWraps
<1>2. e = [c EXCEPT !.transmissions = (@ + j) % UINT8]
  OBVIOUS
<1> HIDE DEF k
<1>3. e = Progress(c, k, c.retransmission_timer, c.current_parent, c.dropped)
  BY FieldTypes DEF SoundFields, Progress
<1>4. /\ c.retransmission_timer \in {"off", "retransmit", "not_sent"}
      /\ c.current_parent \in Parents(P) /\ c.dropped \in SUBSET PacketId
  BY FieldTypes
<1>5. e.mac = c.mac
  BY FieldTypes DEF SoundFields
<1> HIDE DEF e
<1>6. /\ e \in SoundConn(I, P) /\ Handled(c, e)
      /\ e.sending = c.sending /\ e.retransmission_timer = c.retransmission_timer
  BY <1>1, <1>3, <1>4, SetProgressSound
<1> QED  BY <1>2, <1>5, <1>6 DEF Serves, Armed

LEMMA PacketSentSound ==
  ASSUME NEW I, NEW P, NEW c \in SoundConn(I, P), NEW frame, NEW t \in Nat
  PROVE  Serves(I, P, c, node_packet_sent(c, frame, t))
<1> DEFINE d == [c EXCEPT !.transmissions = (@ + t) % UINT8]
<1>1. Serves(I, P, c, d)
  BY CountSound
<1>2. \/ node_packet_sent(c, frame, t) = c
      \/ node_packet_sent(c, frame, t) = timedout(d)
      \/ node_packet_sent(c, frame, t) = [d EXCEPT !.retransmission_timer = "retransmit"]
  BY Zenon DEF node_packet_sent
<1> HIDE DEF d
<1>3. d \in SoundConn(I, P)
  BY <1>1 DEF Serves
<1>4. Serves(I, P, d, timedout(d))
  BY <1>3, TimedoutSound DEF Serves
<1>5. Serves(I, P, c, timedout(d))
  BY <1>1, <1>4, ServesTrans
<1>6. Serves(I, P, d, [d EXCEPT !.retransmission_timer = "retransmit"])
  BY <1>3, SetTimerSound
<1>7. Serves(I, P, c, [d EXCEPT !.retransmission_timer = "retransmit"])
  BY <1>1, <1>6, ServesTrans
<1> QED  BY <1>2, <1>5, <1>7, ServesSame

LEMMA TriesRange ==
  ASSUME NEW m \in 0..31, NEW k \in 0..UINT8-1, k <= m
  PROVE  AtMost(m - k, MAX_MAC_REXMITS) \in 0..31
<1>1. UINT8 = 256
  BY Numbers
<1> QED  BY <1>1 DEF AtMost, MAX_MAC_REXMITS

\* The head of the queue is sent again, to the parent there is now.
LEMMA RetransmitSound ==
  ASSUME NEW I, NEW P, NEW c \in SoundConn(I, P), ~ c.sending, TriesLeft(c)
  PROVE  /\ retransmit_current_packet(c) \in SoundConn(I, P)
         /\ Handled(c, retransmit_current_packet(c))
         /\ Armed(retransmit_current_packet(c))
<1> DEFINE u == update_rtmetric(c)
           d == IF u.current_parent = u.parent THEN u
                ELSE [u EXCEPT !.current_parent = u.parent, !.transmissions = 0]
           s == [d EXCEPT !.sending = TRUE]
           tries == AtMost(d.max_rexmits - d.transmissions, MAX_MAC_REXMITS)
           e == IF Find(d, d.current_parent) = {} THEN d
                ELSE send_packet(s, d.current_parent, tries)
<1>1. Armed(c)
  BY DEF Armed
<1>2. CASE c.send_queue = <<>>
  <2>1. retransmit_current_packet(c) = c
    BY <1>2 DEF retransmit_current_packet
  <2> QED  BY <1>1, <2>1, HandledSame
<1>3. CASE c.send_queue # <<>>
  <2>1. retransmit_current_packet(c) = e
    BY <1>3 DEF retransmit_current_packet
  <2>2. u \in SoundConn(I, P) /\ Handled(c, u) /\ Armed(u) /\ Steady(c, u)
    BY <1>1, UpdateRankSound
  <2> HIDE DEF u
  <2>3. /\ d \in SoundConn(I, P) /\ Handled(u, d) /\ Armed(d) /\ TriesLeft(d)
        /\ d.send_queue # <<>>
    <3>1. CASE u.current_parent = u.parent
      BY <1>3, <2>2, <3>1, HandledSame DEF Steady
    <3>2. CASE u.current_parent # u.parent
      <4>1. d = Progress(u, 0, u.retransmission_timer, u.parent, u.dropped)
        BY <2>2, <3>2, FieldTypes DEF SoundFields, Progress
      <4>2. /\ u.retransmission_timer \in {"off", "retransmit", "not_sent"}
            /\ u.parent \in Parents(P) /\ u.dropped \in SUBSET PacketId
            /\ u.max_rexmits \in 0..31
        BY <2>2, FieldTypes
      <4>3. 0 \in 0..UINT8-1
        BY Numbers
      <4> HIDE DEF d
      <4>4. /\ d \in SoundConn(I, P) /\ Handled(u, d)
            /\ d.sending = u.sending /\ d.transmissions = 0
            /\ d.retransmission_timer = u.retransmission_timer
            /\ d.max_rexmits = u.max_rexmits /\ d.send_queue = u.send_queue
        BY <2>2, <4>1, <4>2, <4>3, SetProgressSound
      <4>5. TriesLeft(d)
        <5>1. 0 <= u.max_rexmits
          BY <4>2
        <5> QED  BY <4>4, <5>1 DEF TriesLeft
      <4> QED  BY <1>3, <2>2, <4>4, <4>5 DEF Armed, Steady
    <3> QED  BY <3>1, <3>2
  <2> HIDE DEF d
  <2>4. Handled(c, d)
    BY <2>2, <2>3, HandledTrans
  <2>5. CASE Find(d, d.current_parent) = {}
    BY <2>1, <2>3, <2>4, <2>5
  <2>6. CASE Find(d, d.current_parent) # {}
    <3>1. d.current_parent \in Node \cap Parents(P)
      BY <2>3, <2>6, Found, FieldTypes
    <3>2. tries \in 0..31
      <4>1. d.transmissions \in 0..UINT8-1 /\ d.max_rexmits \in 0..31
        BY <2>3, FieldTypes
      <4>2. d.transmissions <= d.max_rexmits
        BY <2>3 DEF TriesLeft
      <4> QED  BY <4>1, <4>2, TriesRange
    <3> HIDE DEF tries
    <3>3. s \in SoundConn(I, P) /\ Handled(d, s) /\ s.send_queue # <<>>
      <4>1. s.sending \in BOOLEAN /\ s = [d EXCEPT !.sending = s.sending]
        BY <2>3, SendingIs
      <4> HIDE DEF s
      <4> QED  BY <2>3, <4>1, SetSendingSound
    <3> HIDE DEF s
    <3> DEFINE f == send_packet(s, d.current_parent, tries)
    <3>4. f \in SoundConn(I, P) /\ Handled(s, f) /\ Armed(f)
      BY <3>1, <3>2, <3>3, SendPacketSound
    <3>5. e = f
      BY <2>6
    <3> HIDE DEF f, e
    <3>6. Handled(c, s)
      BY <2>3, <2>4, <3>3, HandledTrans
    <3>7. Handled(c, f)
      BY <3>3, <3>4, <3>6, HandledTrans
    <3> QED  BY <2>1, <3>4, <3>5, <3>7
  <2> QED  BY <2>5, <2>6
<1> QED  BY <1>2, <1>3

LEMMA RetransmitCallbackSound ==
  ASSUME NEW I, NEW P, NEW c \in SoundConn(I, P)
  PROVE  /\ retransmit_callback(c) \in SoundConn(I, P)
         /\ Handled(c, retransmit_callback(c))
         /\ Armed(retransmit_callback(c))
<1> DEFINE d == [c EXCEPT !.retransmission_timer = "off"]
           s == [d EXCEPT !.sending = FALSE]
<1>1. retransmit_callback(c)
        = IF d.transmissions >= d.max_rexmits THEN timedout(d)
          ELSE retransmit_current_packet(s)
  BY DEF retransmit_callback
<1>2. d = Progress(c, c.transmissions, "off", c.current_parent, c.dropped)
  BY FieldTypes DEF SoundFields, Progress
<1>3. /\ "off" \in {"off", "retransmit", "not_sent"}
      /\ c.transmissions \in 0..UINT8-1
      /\ c.current_parent \in Parents(P) /\ c.dropped \in SUBSET PacketId
  BY FieldTypes
<1> HIDE DEF d
<1>4. d \in SoundConn(I, P) /\ Handled(c, d)
  BY <1>2, <1>3, SetProgressSound
<1>5. CASE d.transmissions >= d.max_rexmits
  <2> DEFINE e == timedout(d)
  <2>1. e \in SoundConn(I, P) /\ Handled(d, e) /\ Armed(e)
    BY <1>4, TimedoutSound
  <2> HIDE DEF e
  <2>2. Handled(c, e)
    BY <1>4, <2>1, HandledTrans
  <2> QED  BY <1>1, <1>5, <2>1, <2>2 DEF e
<1>6. CASE ~ (d.transmissions >= d.max_rexmits)
  <2> DEFINE e == retransmit_current_packet(s)
  <2>1. /\ s.sending = FALSE /\ s.sending \in BOOLEAN
        /\ s = [d EXCEPT !.sending = s.sending]
    BY <1>4, SendingIs
  <2> HIDE DEF s
  <2>2. /\ s \in SoundConn(I, P) /\ Handled(d, s) /\ s.sending = FALSE
        /\ s.transmissions = d.transmissions /\ s.max_rexmits = d.max_rexmits
    BY <1>4, <2>1, SetSendingSound
  <2>3. TriesLeft(s)
    <3>1. PICK x \in 0..UINT8-1 : x = d.transmissions
      BY <1>4, FieldTypes
    <3>2. PICK y \in 0..31 : y = d.max_rexmits
      BY <1>4, FieldTypes
    <3>3. UINT8 \in Int
      BY Numbers
    <3>4. ~ (x >= y)
      BY <1>6, <3>1, <3>2, Zenon
    <3>5. x <= y
      BY ONLY <3>1, <3>2, <3>3, <3>4
    <3>6. s.transmissions = x /\ s.max_rexmits = y
      BY <2>2, <3>1, <3>2, Zenon
    <3> QED  BY ONLY <3>5, <3>6, Zenon DEF TriesLeft
  <2>4. e \in SoundConn(I, P) /\ Handled(s, e) /\ Armed(e)
    BY <2>2, <2>3, RetransmitSound
  <2> HIDE DEF e
  <2>5. Handled(c, s)
    BY <1>4, <2>2, HandledTrans
  <2>6. Handled(c, e)
    BY <2>2, <2>4, <2>5, HandledTrans
  <2> QED  BY <1>1, <1>6, <2>4, <2>6 DEF e
<1> QED  BY <1>5, <1>6

LEMMA NotSentCallbackSound ==
  ASSUME NEW I, NEW P, NEW c \in SoundConn(I, P)
  PROVE  Serves(I, P, c, retransmit_not_sent_callback(c))
<1> DEFINE j == MAX_MAC_REXMITS + 1
           d == [c EXCEPT !.transmissions = (@ + j) % UINT8]
           e == retransmit_callback(d)
<1>1. retransmit_not_sent_callback(c) = e
  <2>1. \A k \in 0..UINT8-1 : k + MAX_MAC_REXMITS + 1 = k + j
    BY Numbers DEF MAX_MAC_REXMITS
  <2>2. c.transmissions \in 0..UINT8-1
    BY FieldTypes
  <2> HIDE DEF j
  <2>3. c.transmissions + MAX_MAC_REXMITS + 1 = c.transmissions + j
    BY <2>1, <2>2
  <2> QED  BY <2>3 DEF retransmit_not_sent_callback
<1>2. j \in Nat
  BY DEF MAX_MAC_REXMITS
<1> HIDE DEF j
<1>3. Serves(I, P, c, d)
  BY <1>2, CountSound
<1> HIDE DEF d
<1>4. Serves(I, P, d, e)
  BY <1>3, RetransmitCallbackSound DEF Serves
<1> HIDE DEF e
<1> QED  BY <1>1, <1>3, <1>4, ServesTrans

-----------------------------------------------------------------------------
(* A frame arrives.                                                        *)

\* An operator that answers a frame, and may take the packet it carries.
Answers(I, P, c, d) ==
  d \in SoundConn(I, P) /\ Kept(c, d) /\ (Armed(c) => Armed(d))

LEMMA AnswersTrans ==
  ASSUME NEW I, NEW P, NEW c \in SoundConn(I, P), NEW d, NEW e,
         Answers(I, P, c, d), Answers(I, P, d, e)
  PROVE  Answers(I, P, c, e)
BY DEF Answers, Kept

LEMMA ServesAnswers ==
  ASSUME NEW I, NEW P, NEW c, NEW d, Serves(I, P, c, d)
  PROVE  Answers(I, P, c, d)
BY DEF Serves, Answers, Handled

\* Frames, remembered packets and packets for the application are appended.
Traffic(c, m, recent, got) ==
  [c EXCEPT !.mac = m, !.recent_packets = recent, !.received = got]

LEMMA SetTrafficSound ==
  ASSUME NEW I, NEW P, NEW c \in SoundConn(I, P), NEW m \in Seq(SentFrame(I, P)),
         NEW recent \in Seq(I), NEW got \in Seq(I)
  PROVE  LET d == Traffic(c, m, recent, got)
         IN  /\ Answers(I, P, c, d)
             /\ d.mac = m /\ d.recent_packets = recent /\ d.received = got
             /\ d.send_queue = c.send_queue /\ d.rtmetric = c.rtmetric
<1> DEFINE e == [c EXCEPT !.mac = m, !.recent_packets = recent, !.received = got]
<1>1. /\ e.addr = c.addr /\ e.is_sink = c.is_sink /\ e.is_open = c.is_open
      /\ e.eseqno = c.eseqno /\ e.sent = c.sent
      /\ e.send_queue = c.send_queue /\ e.rtmetric = c.rtmetric
      /\ e.sending = c.sending /\ e.retransmission_timer = c.retransmission_timer
      /\ e.mac = m /\ e.recent_packets = recent /\ e.received = got
  BY FieldTypes DEF SoundFields
<1>2. e \in SoundFields(I, P)
  <2>1. c \in SoundFields(I, P)
    BY FieldTypes
  <2> QED  BY <2>1, Zenon DEF SoundFields
<1>3. e \in SoundConn(I, P)
  BY <1>1, <1>2, FieldTypes DEF SoundConn
<1> HIDE DEF e
<1>4. Answers(I, P, c, e)
  BY <1>1, <1>3 DEF Answers, Kept, Reserved, Armed
<1> QED  BY <1>1, <1>4 DEF e, Traffic

AckFrame(c, data, flags) ==
  [type |-> "ACK", src |-> c.addr, dst |-> data.src, seqno |-> data.seqno,
   rtmetric |-> c.rtmetric, flags |-> flags, packet |-> data.packet,
   tries |-> MAX_ACK_MAC_REXMITS, heard |-> 0]

LEMMA AckSound ==
  ASSUME NEW I, NEW P, NEW c \in SoundConn(I, P), NEW data \in SoundFrame(I),
         NEW flags \in SUBSET AckFlags
  PROVE  LET d == send_ack(c, data, flags)
         IN  /\ Answers(I, P, c, d)
             /\ d.mac = Append(c.mac, AckFrame(c, data, flags))
             /\ d.recent_packets = c.recent_packets /\ d.received = c.received
             /\ d.send_queue = c.send_queue /\ d.rtmetric = c.rtmetric
<1> DEFINE f == AckFrame(c, data, flags)
           d == send_ack(c, data, flags)
           m == Append(c.mac, f)
<1>1. f \in SentFrame(I, P)
  <2>1. /\ data.src \in Node /\ data.seqno \in 0..UINT8-1
        /\ data.packet \in SoundPacket(I) /\ data.packet \in Packet
    BY FrameFields
  <2>2. /\ c.addr \in Node
        /\ c.rtmetric \in 0..UINT16-1 /\ c.rtmetric < RankLimit
    BY FieldTypes, RankType
  <2>3. MAX_ACK_MAC_REXMITS \in 0..31
    BY DEF MAX_ACK_MAC_REXMITS
  <2>4. f \in Frame
    BY <2>1, <2>2, <2>3 DEF AckFrame, Frame
  <2>5. f.rtmetric = c.rtmetric /\ f.packet = data.packet /\ f.type = "ACK"
    BY DEF AckFrame
  <2> HIDE DEF f
  <2> QED  BY <2>1, <2>2, <2>4, <2>5 DEF SoundFrame, SentFrame
<1>2. d = Traffic(c, m, c.recent_packets, c.received)
  BY FieldTypes DEF SoundFields, send_ack, AckFrame, Traffic
<1>3. /\ c.mac \in Seq(SentFrame(I, P)) /\ c.recent_packets \in Seq(I)
      /\ c.received \in Seq(I)
  BY FieldTypes
<1> HIDE DEF f, d
<1>4. m \in Seq(SentFrame(I, P))
  BY <1>1, <1>3, AppendTo
<1> HIDE DEF m
<1>5. /\ Answers(I, P, c, d)
      /\ d.mac = m /\ d.recent_packets = c.recent_packets
      /\ d.received = c.received
      /\ d.send_queue = c.send_queue /\ d.rtmetric = c.rtmetric
  BY <1>2, <1>3, <1>4, SetTrafficSound
<1> QED  BY <1>5 DEF d, m, f

LEMMA RememberSound ==
  ASSUME NEW I, NEW P, NEW c \in SoundConn(I, P), NEW p \in SoundPacket(I)
  PROVE  LET d == add_packet_to_recent_packets(c, p)
         IN  /\ Answers(I, P, c, d)
             /\ d.mac = c.mac /\ d.received = c.received
             /\ Range(d.recent_packets)
                  \subseteq Range(c.recent_packets) \cup (IF p.probe THEN {} ELSE {p.id})
             /\ d.send_queue = c.send_queue /\ d.rtmetric = c.rtmetric
<1> DEFINE d == add_packet_to_recent_packets(c, p)
           o == c.recent_packets
           k == IF Len(o) < NUM_RECENT_PACKETS THEN o ELSE Tail(o)
           r == Append(k, p.id)
<1>1. /\ o \in Seq(I) /\ c.mac \in Seq(SentFrame(I, P)) /\ c.received \in Seq(I)
  BY FieldTypes
<1>2. CASE p.probe
  <2>1. d = c
    BY <1>2 DEF add_packet_to_recent_packets
  <2>2. Answers(I, P, c, c)
    BY DEF Answers, Kept
  <2> QED  BY <2>1, <2>2
<1>3. CASE ~ p.probe
  <2>1. p.id \in I
    BY <1>3 DEF SoundPacket
  <2>2. d = Traffic(c, c.mac, r, c.received)
    BY <1>3, FieldTypes DEF SoundFields, add_packet_to_recent_packets, Traffic
  <2> HIDE DEF d
  <2>3. k \in Seq(I) /\ Range(k) \subseteq Range(o)
    <3> HIDE DEF o
    <3>1. CASE Len(o) < NUM_RECENT_PACKETS
      BY <1>1, <3>1
    <3>2. CASE ~ (Len(o) < NUM_RECENT_PACKETS)
      <4>1. o # <<>>
        BY <1>1, <3>2, LibpAssumption
      <4>2. /\ Tail(o) \in Seq(I)
            /\ Tail(o) = [j \in 1..Len(o)-1 |-> IF j < 1 THEN o[j] ELSE o[j+1]]
            /\ 1 \in 1..Len(o)
        BY <1>1, <4>1, TailOf
      <4>3. Range(Tail(o)) \subseteq Range(o)
        BY <1>1, <4>2, RemovedAt
      <4> QED  BY <3>2, <4>2, <4>3
    <3> QED  BY <3>1, <3>2
  <2> HIDE DEF k
  <2>4. r \in Seq(I) /\ Range(r) = Range(k) \cup {p.id}
    BY <2>1, <2>3, AppendTo
  <2> HIDE DEF r
  <2>5. /\ Answers(I, P, c, d)
        /\ d.mac = c.mac /\ d.recent_packets = r /\ d.received = c.received
        /\ d.send_queue = c.send_queue /\ d.rtmetric = c.rtmetric
    BY <1>1, <2>2, <2>4, SetTrafficSound
  <2> QED  BY <1>3, <2>3, <2>4, <2>5 DEF d
<1> QED  BY <1>2, <1>3

\* A packet at the end of the queue: the node's own, or one to pass on.
LEMMA EnqueuedSound ==
  ASSUME NEW I, NEW P, NEW c \in SoundConn(I, P), NEW p \in SoundPacket(I),
         \/ ~ (p.hops > 1)
         \/ Len(c.send_queue) <= MAX_SENDING_QUEUE - MIN_AVAILABLE_QUEUE_ENTRIES
  PROVE  LET d == Enqueued(c, p)
         IN  /\ Answers(I, P, c, d)
             /\ d.mac = c.mac /\ d.recent_packets = c.recent_packets
             /\ d.received = c.received /\ d.rtmetric = c.rtmetric
             /\ Range(d.send_queue) = Range(c.send_queue) \cup {p}
<1> DEFINE q == Append(c.send_queue, p)
           e == [c EXCEPT !.send_queue = q]
<1>1. c.send_queue \in Seq(SoundPacket(I)) /\ Len(c.send_queue) \in Nat
  BY FieldTypes
<1>2. q \in Seq(SoundPacket(I)) /\ Range(q) = Range(c.send_queue) \cup {p}
  BY <1>1, AppendTo
<1>3. /\ Cardinality(Forwarded(q)) <= Len(c.send_queue) + 1
      /\ ~ (p.hops > 1) => Forwarded(q) = Forwarded(c.send_queue)
  BY <1>1, ForwardedAppended
<1>4. Cardinality(Forwarded(q)) \in Nat
  BY <1>2, ForwardedFinite
<1>5. Enqueued(c, p) = e
  BY DEF Enqueued
<1> HIDE DEF q
<1>6. /\ e.addr = c.addr /\ e.is_sink = c.is_sink /\ e.is_open = c.is_open
      /\ e.eseqno = c.eseqno /\ e.sent = c.sent
      /\ e.send_queue = q /\ e.rtmetric = c.rtmetric
      /\ e.sending = c.sending /\ e.retransmission_timer = c.retransmission_timer
      /\ e.mac = c.mac /\ e.recent_packets = c.recent_packets
      /\ e.received = c.received
  BY FieldTypes DEF SoundFields
<1>7. e \in SoundFields(I, P)
  <2>1. c \in SoundFields(I, P)
    BY FieldTypes
  <2> QED  BY <1>2, <2>1, Zenon DEF SoundFields
<1>8. e \in SoundConn(I, P)
  BY <1>6, <1>7, FieldTypes DEF SoundConn
<1> HIDE DEF e
<1>9. Reserved(c) => Reserved(e)
  <2>1. CASE ~ (p.hops > 1)
    BY <1>3, <1>6, <2>1 DEF Reserved
  <2>2. CASE Len(c.send_queue) <= MAX_SENDING_QUEUE - MIN_AVAILABLE_QUEUE_ENTRIES
    BY <1>1, <1>3, <1>4, <1>6, <2>2, LibpAssumption DEF Reserved
  <2> QED  BY <2>1, <2>2
<1>10. Answers(I, P, c, e)
  BY <1>6, <1>8, <1>9 DEF Answers, Kept, Armed
<1> QED  BY <1>2, <1>5, <1>6, <1>10

\* The fields of a packet that is passed on stay in their four bits.
LEMMA ForwardedPacketSound ==
  ASSUME NEW I, NEW p \in SoundPacket(I), p.ttl > 1
  PROVE  [p EXCEPT !.hops = @ + 1, !.ttl = @ - 1] \in SoundPacket(I)
<1> DEFINE r == [p EXCEPT !.hops = @ + 1, !.ttl = @ - 1]
<1>1. /\ p \in Packet /\ Budgeted(p) /\ (p.probe \/ p.id \in I)
  BY DEF SoundPacket
<1>2. p.ttl \in 0..MAX_HOPLIM /\ p.hops \in 0..15 /\ p.probe \in BOOLEAN
  BY <1>1 DEF Packet
<1>3. ~ p.probe
  BY <1>1, <1>2 DEF Budgeted
<1>4. p.ttl + p.hops = MAX_HOPLIM + 1
  BY <1>1, <1>3 DEF Budgeted
<1>5. MAX_HOPLIM \in Nat /\ MAX_HOPLIM <= 15
  BY LibpAssumption
<1>6. /\ p.hops + 1 \in 0..15 /\ p.ttl - 1 \in 0..MAX_HOPLIM /\ p.ttl - 1 >= 1
      /\ (p.ttl - 1) + (p.hops + 1) = MAX_HOPLIM + 1
  BY <1>2, <1>4, <1>5
<1>7. r \in Packet
  BY <1>1, <1>6, Zenon DEF Packet
<1>8. r.hops = p.hops + 1 /\ r.ttl = p.ttl - 1 /\ r.probe = p.probe /\ r.id = p.id
  BY <1>1 DEF Packet
<1> HIDE DEF r
<1>9. Budgeted(r)
  BY <1>3, <1>6, <1>8 DEF Budgeted
<1> QED  BY <1>1, <1>7, <1>8, <1>9 DEF SoundPacket, r

LEMMA DeliverSound ==
  ASSUME NEW I, NEW P, NEW c \in SoundConn(I, P), NEW data \in SoundFrame(I), NEW room
  PROVE  LET d   == Deliver(c, data, room)
             ids == IF data.packet.probe THEN {} ELSE {data.packet.id}
         IN  /\ Answers(I, P, c, d) /\ d.rtmetric = c.rtmetric
             /\ Range(d.recent_packets) \subseteq Range(c.recent_packets) \cup ids
             /\ Range(d.received) = Range(c.received) \cup ids
             /\ d.mac \in {c.mac, Append(c.mac, AckFrame(c, data, {}))}
<1> DEFINE p   == data.packet
           ids == IF p.probe THEN {} ELSE {p.id}
           a   == add_packet_to_recent_packets(c, p)
           b   == IF room THEN send_ack(a, data, {}) ELSE a
           got == Append(b.received, p.id)
           d   == IF p.probe THEN b ELSE [b EXCEPT !.received = got]
<1>1. Deliver(c, data, room) = d
  BY DEF Deliver
<1>2. p \in SoundPacket(I)
  BY FrameFields
<1>3. /\ Answers(I, P, c, a) /\ a \in SoundConn(I, P)
      /\ a.mac = c.mac /\ a.received = c.received
      /\ Range(a.recent_packets) \subseteq Range(c.recent_packets) \cup ids
      /\ a.rtmetric = c.rtmetric /\ a.addr = c.addr
  <2> HIDE DEF p
  <2>1. /\ Answers(I, P, c, a)
        /\ a.mac = c.mac /\ a.received = c.received
        /\ Range(a.recent_packets) \subseteq Range(c.recent_packets) \cup ids
        /\ a.rtmetric = c.rtmetric
    BY <1>2, RememberSound
  <2> HIDE DEF a
  <2> QED  BY <2>1 DEF Answers, Kept
<1> HIDE DEF a, p
<1>4. /\ Answers(I, P, a, b)
      /\ b.mac \in {c.mac, Append(c.mac, AckFrame(c, data, {}))}
      /\ b.received = c.received /\ b.recent_packets = a.recent_packets
      /\ b.rtmetric = c.rtmetric
  <2> DEFINE s == send_ack(a, data, {})
  <2>1. {} \in SUBSET AckFlags
    OBVIOUS
  <2>2. /\ Answers(I, P, a, s)
        /\ s.mac = Append(a.mac, AckFrame(a, data, {}))
        /\ s.recent_packets = a.recent_packets /\ s.received = a.received
        /\ s.rtmetric = a.rtmetric
    BY <1>3, <2>1, AckSound
  <2>3. AckFrame(a, data, {}) = AckFrame(c, data, {})
    BY <1>3 DEF AckFrame
  <2>4. Answers(I, P, a, a)
    BY <1>3 DEF Answers, Kept
  <2> HIDE DEF s
  <2>5. b \in {s, a}
    BY DEF s
  <2> HIDE DEF b
  <2> QED  BY <1>3, <2>2, <2>3, <2>4, <2>5
<1> HIDE DEF b
<1>5. b \in SoundConn(I, P) /\ Answers(I, P, c, b)
  BY <1>3, <1>4, AnswersTrans DEF Answers
<1>6. CASE p.probe
  <2>1. d = b /\ ids = {}
    BY <1>6
  <2> QED  BY <1>1, <1>3, <1>4, <1>5, <2>1 DEF p
<1>7. CASE ~ p.probe
  <2>1. p.id \in I
    BY <1>2, <1>7 DEF SoundPacket
  <2>2. /\ b.mac \in Seq(SentFrame(I, P)) /\ b.recent_packets \in Seq(I)
        /\ b.received \in Seq(I)
    BY <1>5, FieldTypes
  <2>3. got \in Seq(I) /\ Range(got) = Range(b.received) \cup {p.id}
    BY <2>1, <2>2, AppendTo
  <2>4. d = Traffic(b, b.mac, b.recent_packets, got)
    BY <1>5, <1>7, FieldTypes DEF SoundFields, Traffic
  <2> HIDE DEF got, d
  <2>5. /\ Answers(I, P, b, d)
        /\ d.mac = b.mac /\ d.recent_packets = b.recent_packets
        /\ d.received = got /\ d.rtmetric = b.rtmetric
    BY <1>5, <2>2, <2>3, <2>4, SetTrafficSound
  <2>6. Answers(I, P, c, d)
    BY <1>5, <2>5, AnswersTrans
  <2>7. ids = {p.id}
    BY <1>7
  <2> QED  BY <1>1, <1>3, <1>4, <2>3, <2>5, <2>6, <2>7 DEF p
<1> QED  BY <1>6, <1>7

LEMMA ForwardSound ==
  ASSUME NEW I, NEW P, NEW c \in SoundConn(I, P), NEW data \in SoundFrame(I),
         NEW flags \in SUBSET AckFlags, NEW room, data.packet.ttl > 1
  PROVE  Answers(I, P, c, Forward(c, data, flags, room))
<1> DEFINE p == [data.packet EXCEPT !.hops = @ + 1, !.ttl = @ - 1]
           a == Enqueued(c, p)
           b == add_packet_to_recent_packets(a, p)
           s == send_ack(b, data, flags)
           e == send_queued_packet(s)
           full == flags \cup {"DROPPED", "CONGESTED"}
           mayAdd == /\ Len(c.send_queue) <= MAX_SENDING_QUEUE - MIN_AVAILABLE_QUEUE_ENTRIES
                     /\ HasRoom(c, room)
<1>1. Forward(c, data, flags, room) = IF mayAdd THEN e ELSE send_ack(c, data, full)
  BY DEF Forward
<1>2. CASE ~ mayAdd
  <2>1. full \in SUBSET AckFlags
    BY DEF AckFlags
  <2> HIDE DEF full, mayAdd
  <2>2. Answers(I, P, c, send_ack(c, data, full))
    BY <2>1, AckSound
  <2> QED  BY <1>1, <1>2, <2>2
<1>3. CASE mayAdd
  <2>1. p \in SoundPacket(I)
    <3>1. data.packet \in SoundPacket(I)
      BY FrameFields
    <3> QED  BY <3>1, ForwardedPacketSound
  <2> HIDE DEF p
  <2>2. Answers(I, P, c, a) /\ a \in SoundConn(I, P)
    <3>1. Answers(I, P, c, a)
      BY <1>3, <2>1, EnqueuedSound
    <3> QED  BY <3>1 DEF Answers
  <2> HIDE DEF a
  <2>3. Answers(I, P, a, b) /\ b \in SoundConn(I, P)
    <3>1. Answers(I, P, a, b)
      BY <2>1, <2>2, RememberSound
    <3> QED  BY <3>1 DEF Answers
  <2> HIDE DEF b
  <2>4. Answers(I, P, b, s) /\ s \in SoundConn(I, P)
    <3>1. Answers(I, P, b, s)
      BY <2>3, AckSound
    <3> QED  BY <3>1 DEF Answers
  <2> HIDE DEF s
  <2>5. Answers(I, P, s, e)
    <3>1. Serves(I, P, s, e)
      BY <2>4, SendQueuedSound DEF Serves
    <3> QED  BY <3>1, ServesAnswers
  <2> HIDE DEF e
  <2>6. Answers(I, P, c, b)
    BY <2>2, <2>3, AnswersTrans
  <2>7. Answers(I, P, c, s)
    BY <2>4, <2>6, AnswersTrans
  <2>8. Answers(I, P, c, e)
    BY <2>5, <2>7, AnswersTrans
  <2> HIDE DEF mayAdd
  <2> QED  BY <1>1, <1>3, <2>8
<1> QED  BY <1>2, <1>3

LEMMA ReceiveDataSound ==
  ASSUME NEW I, NEW P, NEW c \in SoundConn(I, P), NEW data \in SoundFrame(I),
         NEW rank, NEW room
  PROVE  Answers(I, P, c, ReceiveData(c, data, rank, room))
<1> DEFINE congested == IF Len(c.send_queue) >= MAX_SENDING_QUEUE \div 2
                        THEN {"CONGESTED"} ELSE {}
           loop == IF rank <= c.rtmetric THEN {"RTMETRIC_NEEDS_UPDATE"} ELSE {}
           flags == congested \cup loop
           late  == congested \cup {"DROPPED", "LIFETIME_EXCEEDED"}
           g     == GivenUp(c, data.packet)
<1>1. \/ ReceiveData(c, data, rank, room) = send_ack(c, data, congested)
      \/ ReceiveData(c, data, rank, room) = Deliver(c, data, room)
      \/ /\ data.packet.ttl > 1
         /\ ReceiveData(c, data, rank, room) = Forward(c, data, flags, room)
      \/ ReceiveData(c, data, rank, room) = send_ack(g, data, late)
      \/ ReceiveData(c, data, rank, room) = c
  BY Zenon DEF ReceiveData
<1>2. /\ congested \in SUBSET AckFlags /\ flags \in SUBSET AckFlags
      /\ late \in SUBSET AckFlags
  BY DEF AckFlags
<1> HIDE DEF congested, flags, late, g
<1>3. Answers(I, P, c, send_ack(c, data, congested))
  BY <1>2, AckSound
<1>4. Answers(I, P, c, Deliver(c, data, room))
  BY DeliverSound
<1>5. ASSUME data.packet.ttl > 1
      PROVE  Answers(I, P, c, Forward(c, data, flags, room))
  BY <1>2, <1>5, ForwardSound
<1>6. Answers(I, P, c, send_ack(g, data, late))
  <2>1. Serves(I, P, c, g)
    BY FrameFields, GivenUpSound DEF g
  <2>2. g \in SoundConn(I, P) /\ Answers(I, P, c, g)
    BY <2>1, ServesAnswers DEF Serves
  <2>3. Answers(I, P, g, send_ack(g, data, late))
    BY <1>2, <2>2, AckSound
  <2> QED  BY <2>2, <2>3, AnswersTrans
<1>7. Answers(I, P, c, c)
  BY DEF Answers, Kept
<1> QED  BY <1>1, <1>3, <1>4, <1>5, <1>6, <1>7

-----------------------------------------------------------------------------
(* What the ACKs of a sink say.                                            *)

\* The identities of packets sent before any node's eseqno wraps.
TrueIds == {id \in PacketId : id[2] = id[3] - 1}

HonestFrame(f, got) ==
  f.type = "ACK" /\ "DROPPED" \notin f.flags /\ ~ f.packet.probe
    => f.packet.id \in got

\* The application of a sink has what the filter and the ACKs stand for.
HonestSink(c) ==
  /\ c.rtmetric = RTMETRIC_SINK
  /\ Range(c.recent_packets) \subseteq Range(c.received)
  /\ \A f \in Range(c.mac) : HonestFrame(f, Range(c.received))

LEMMA HandledHonest ==
  ASSUME NEW I, NEW P, NEW c \in SoundConn(I, P), NEW d \in SoundConn(I, P),
         Handled(c, d), HonestSink(c)
  PROVE  HonestSink(d)
<1>1. c.mac \in Seq(SentFrame(I, P)) /\ d.mac \in Seq(SentFrame(I, P))
  BY FieldTypes
<1>2. /\ DOMAIN c.mac = 1..Len(c.mac) /\ DOMAIN d.mac = 1..Len(d.mac)
      /\ Len(c.mac) \in Nat /\ Len(d.mac) \in Nat
  BY <1>1
<1>3. ASSUME NEW i \in DOMAIN d.mac
      PROVE  HonestFrame(d.mac[i], Range(c.received))
  <2>1. CASE i \in 1..Len(c.mac)
    <3>1. d.mac[i] = c.mac[i] /\ c.mac[i] \in Range(c.mac)
      BY <1>2, <2>1 DEF Handled, SentFrom, Range
    <3> QED  BY <3>1 DEF HonestSink
  <2>2. CASE i \notin 1..Len(c.mac)
    <3>1. i \in Len(c.mac)+1..Len(d.mac)
      BY <1>2, <2>2
    <3>2. d.mac[i].type = "DATA"
      BY <3>1 DEF Handled, SentFrom
    <3> QED  BY <3>2 DEF HonestFrame
  <2> QED  BY <2>1, <2>2
<1>4. \A f \in Range(d.mac) : HonestFrame(f, Range(c.received))
  BY <1>3 DEF Range
<1> QED  BY <1>4 DEF Handled, Kept, HonestSink

\* Until eseqno wraps the filter tells every two packets apart.
LEMMA SeenIsRemembered ==
  ASSUME NEW I, NEW P, I \subseteq TrueIds, NEW c \in SoundConn(I, P),
         NEW p \in SoundPacket(I), Seen(c, p), ~ p.probe
  PROVE  p.id \in Range(c.recent_packets)
<1>1. p.id \in I
  BY DEF SoundPacket
<1>2. PICK i \in DOMAIN c.recent_packets :
        /\ c.recent_packets[i][1] = p.id[1]
        /\ c.recent_packets[i][2] = p.id[2]
  BY DEF Seen
<1>3. c.recent_packets[i] \in I
  <2>1. c.recent_packets \in Seq(I)
    BY FieldTypes
  <2> QED  BY <1>2, <2>1
<1>4. ASSUME NEW x \in TrueIds, NEW y \in TrueIds, x[1] = y[1], x[2] = y[2]
      PROVE  x = y
  <2>1. x \in PacketId /\ y \in PacketId /\ x[2] = x[3] - 1 /\ y[2] = y[3] - 1
    BY DEF TrueIds
  <2>2. /\ x = <<x[1], x[2], x[3]>> /\ y = <<y[1], y[2], y[3]>>
        /\ x[3] \in Nat /\ y[3] \in Nat
    BY <2>1 DEF PacketId
  <2>3. x[3] = y[3]
    BY <1>4, <2>1, <2>2
  <2> QED  BY <1>4, <2>2, <2>3
<1>5. c.recent_packets[i] = p.id
  BY <1>1, <1>2, <1>3, <1>4
<1> QED  BY <1>5 DEF Range

LEMMA ReceiveDataHonest ==
  ASSUME NEW I, NEW P, I \subseteq TrueIds, NEW c \in SoundConn(I, P),
         NEW data \in SoundFrame(I), NEW rank, NEW room, HonestSink(c)
  PROVE  HonestSink(ReceiveData(c, data, rank, room))
<1> DEFINE congested == IF Len(c.send_queue) >= MAX_SENDING_QUEUE \div 2
                        THEN {"CONGESTED"} ELSE {}
           p == data.packet
           d == ReceiveData(c, data, rank, room)
<1>1. p \in SoundPacket(I)
  BY FrameFields
<1>2. congested \in SUBSET AckFlags
  BY DEF AckFlags
<1>3. c.mac \in Seq(SentFrame(I, P))
  BY FieldTypes
<1>4. CASE Seen(c, data.packet)
  <2>1. d = send_ack(c, data, congested)
    BY <1>4 DEF ReceiveData
  <2> DEFINE f == AckFrame(c, data, congested)
  <2>2. ~ p.probe => p.id \in Range(c.received)
    BY <1>1, <1>4, SeenIsRemembered DEF HonestSink
  <2>3. f.packet = p
    BY DEF AckFrame
  <2> HIDE DEF congested, d, p
  <2>4. /\ Answers(I, P, c, d)
        /\ d.mac = Append(c.mac, f)
        /\ d.recent_packets = c.recent_packets /\ d.received = c.received
        /\ d.rtmetric = c.rtmetric
    BY <1>2, <2>1, AckSound
  <2>5. d.mac \in Seq(SentFrame(I, P))
    BY <2>4, FieldTypes DEF Answers
  <2> HIDE DEF f
  <2>6. Range(d.mac) = Range(c.mac) \cup {f}
    BY <1>3, <2>4, <2>5, AppendedRange
  <2>7. HonestFrame(f, Range(c.received))
    BY <2>2, <2>3 DEF HonestFrame
  <2>8. HonestSink(d)
    BY <2>4, <2>6, <2>7 DEF HonestSink
  <2> QED  BY <2>8 DEF d
<1>5. CASE ~ Seen(c, data.packet)
  <2>1. d = Deliver(c, data, room)
    BY <1>5 DEF ReceiveData, HonestSink
  <2> DEFINE ids == IF p.probe THEN {} ELSE {p.id}
             f   == AckFrame(c, data, {})
  <2>2. /\ Answers(I, P, c, d) /\ d.rtmetric = c.rtmetric
        /\ Range(d.recent_packets) \subseteq Range(c.recent_packets) \cup ids
        /\ Range(d.received) = Range(c.received) \cup ids
        /\ d.mac \in {c.mac, Append(c.mac, f)}
    BY <2>1, DeliverSound
  <2>3. f.packet = p
    BY DEF AckFrame
  <2>4. ~ p.probe => p.id \in ids
    OBVIOUS
  <2> HIDE DEF f, d, ids, p
  <2>5. d.mac \in Seq(SentFrame(I, P))
    BY <2>2, FieldTypes DEF Answers
  <2>6. Range(d.mac) \subseteq Range(c.mac) \cup {f}
    <3>1. CASE d.mac = c.mac
      BY <3>1
    <3>2. CASE d.mac = Append(c.mac, f)
      <4>1. Append(c.mac, f) \in Seq(SentFrame(I, P))
        BY <2>5, <3>2
      <4>2. Range(Append(c.mac, f)) = Range(c.mac) \cup {f}
        BY <1>3, <4>1, AppendedRange
      <4> QED  BY <3>2, <4>2
    <3> QED  BY <2>2, <3>1, <3>2
  <2>7. HonestFrame(f, Range(d.received))
    BY <2>2, <2>3, <2>4 DEF HonestFrame
  <2>8. \A g \in Range(c.mac) : HonestFrame(g, Range(d.received))
    BY <2>2 DEF HonestFrame, HonestSink
  <2>9. HonestSink(d)
    BY <2>2, <2>6, <2>7, <2>8 DEF HonestSink
  <2> QED  BY <2>9 DEF d
<1> QED  BY <1>4, <1>5

-----------------------------------------------------------------------------
(* A frame arrives, with whatever happens to it in the packet buffer.      *)

ReceiveFrame(c, packetbuf, rank, room) ==
  IF packetbuf.type = "DATA" THEN ReceiveData(c, packetbuf, rank, room)
                             ELSE handle_ack(c, packetbuf)

LEMMA ReceiveFrameSound ==
  ASSUME NEW I, NEW P, NEW c \in SoundConn(I, P), NEW f \in SoundFrame(I), NEW rank,
         NEW room
  PROVE  Answers(I, P, c, ReceiveFrame(c, f, rank, room))
<1>1. Answers(I, P, c, ReceiveData(c, f, rank, room))
  BY ReceiveDataSound
<1>2. Answers(I, P, c, handle_ack(c, f))
  <2>1. Serves(I, P, c, handle_ack(c, f))
    BY HandleAckSound
  <2> QED  BY <2>1, ServesAnswers
<1> QED  BY <1>1, <1>2 DEF ReceiveFrame

LEMMA ReceiveFrameHonest ==
  ASSUME NEW I, NEW P, I \subseteq TrueIds, NEW c \in SoundConn(I, P),
         NEW f \in SoundFrame(I), NEW rank, NEW room, HonestSink(c)
  PROVE  HonestSink(ReceiveFrame(c, f, rank, room))
<1>1. HonestSink(ReceiveData(c, f, rank, room))
  BY ReceiveDataHonest
<1>2. HonestSink(handle_ack(c, f))
  <2>1. Serves(I, P, c, handle_ack(c, f))
    BY HandleAckSound
  <2> HIDE DEF HonestSink
  <2> QED  BY <2>1, HandledHonest DEF Serves
<1> QED  BY <1>1, <1>2 DEF ReceiveFrame

\* What the rank in the frame's header does, before the frame is looked at.
Hearing(c, frame) ==
  IF Find(c, frame.src) = {} THEN c
  ELSE update_rtmetric(
         [c EXCEPT !.neighbour_list =
            libp_neighbour_update_rtmetric(@, Find(c, frame.src), frame.rtmetric)])

LEMMA HearingSound ==
  ASSUME NEW I, NEW P, NEW c \in SoundConn(I, P), NEW f \in SoundFrame(I)
  PROVE  /\ Serves(I, P, c, Hearing(c, f))
         /\ c.rtmetric = RTMETRIC_SINK => Hearing(c, f).mac = c.mac
<1> DEFINE t == libp_neighbour_update_rtmetric(c.neighbour_list, Find(c, f.src), f.rtmetric)
           d == update_rtmetric([c EXCEPT !.neighbour_list = t])
<1>1. t \in SoundTable(P)
  <2>1. c.neighbour_list \in SoundTable(P) /\ f.rtmetric \in 0..RankLimit-1
    BY FieldTypes, FrameFields
  <2> QED  BY <2>1, UpdateRtmetricSound
<1>2. Hearing(c, f) = IF Find(c, f.src) = {} THEN c ELSE d
  BY DEF Hearing
<1> HIDE DEF t
<1>3. /\ d \in SoundConn(I, P) /\ Handled(c, d) /\ (Armed(c) => Armed(d))
      /\ c.rtmetric = RTMETRIC_SINK => d = [c EXCEPT !.neighbour_list = t]
  BY <1>1, TableThenRank
<1>4. [c EXCEPT !.neighbour_list = t].mac = c.mac
  BY <1>1, SetTableSound
<1> HIDE DEF d
<1>5. Serves(I, P, c, d) /\ (c.rtmetric = RTMETRIC_SINK => d.mac = c.mac)
  BY <1>3, <1>4 DEF Serves
<1>6. Serves(I, P, c, c)
  BY ServesSame
<1> QED  BY <1>2, <1>5, <1>6

\* If that made the node send a packet, it is this packet it looks at.
LEMMA BufferSound ==
  ASSUME NEW I, NEW P, NEW c \in SoundConn(I, P), NEW d, Serves(I, P, c, d),
         d.mac # c.mac
  PROVE  d.mac[Len(d.mac)] \in SoundFrame(I)
<1>1. c.mac \in Seq(SentFrame(I, P)) /\ d.mac \in Seq(SentFrame(I, P))
  BY FieldTypes DEF Serves
<1>2. /\ Len(c.mac) <= Len(d.mac)
      /\ \A i \in 1..Len(c.mac) : d.mac[i] = c.mac[i]
  BY DEF Serves, Handled, SentFrom
<1>3. Len(d.mac) # 0
  BY <1>1, <1>2
<1> QED  BY <1>1, <1>3 DEF SentFrame

LEMMA PacketReceivedSound ==
  ASSUME NEW I, NEW P, NEW c \in SoundConn(I, P), NEW frame \in SoundFrame(I), NEW room
  PROVE  Answers(I, P, c, node_packet_received(c, frame, room))
<1> DEFINE h == Hearing(c, frame)
           b == IF h.mac = c.mac THEN frame ELSE h.mac[Len(h.mac)]
           d == ReceiveFrame(h, b, frame.rtmetric, room)
<1>1. node_packet_received(c, frame, room) = d
  BY DEF node_packet_received, Hearing, ReceiveFrame
<1>2. Serves(I, P, c, h)
  BY HearingSound
<1> HIDE DEF h
<1>3. h \in SoundConn(I, P) /\ Answers(I, P, c, h)
  BY <1>2, ServesAnswers DEF Serves
<1>4. b \in SoundFrame(I)
  BY <1>2, BufferSound
<1> HIDE DEF b
<1>5. Answers(I, P, h, d)
  BY <1>3, <1>4, ReceiveFrameSound
<1> HIDE DEF d
<1> QED  BY <1>1, <1>3, <1>5, AnswersTrans

\* A sink looks at the frame that came.
LEMMA PacketReceivedHonest ==
  ASSUME NEW I, NEW P, I \subseteq TrueIds, NEW c \in SoundConn(I, P),
         NEW frame \in SoundFrame(I), NEW room, HonestSink(c)
  PROVE  HonestSink(node_packet_received(c, frame, room))
<1> DEFINE h == Hearing(c, frame)
           b == IF h.mac = c.mac THEN frame ELSE h.mac[Len(h.mac)]
           d == ReceiveFrame(h, b, frame.rtmetric, room)
<1>1. node_packet_received(c, frame, room) = d
  BY DEF node_packet_received, Hearing, ReceiveFrame
<1>2. Serves(I, P, c, h) /\ (c.rtmetric = RTMETRIC_SINK => h.mac = c.mac)
  BY HearingSound
<1> HIDE DEF h
<1>3. b = frame
  BY <1>2 DEF HonestSink
<1>4. h \in SoundConn(I, P) /\ Handled(c, h)
  BY <1>2 DEF Serves
<1> HIDE DEF b
<1>5. HonestSink(h)
  BY <1>4, HandledHonest
<1>6. HonestSink(d)
  BY <1>3, <1>4, <1>5, ReceiveFrameHonest
<1> QED  BY <1>1, <1>6

-----------------------------------------------------------------------------
(* What the application and the timers call.                               *)

\* A probe is the only packet the callback adds.
LEMMA ProbeSound ==
  ASSUME NEW I, NEW P, NEW c \in SoundConn(I, P), NEW room
  PROVE  LET d == proactive_probing_callback(c, room)
         IN  /\ Answers(I, P, c, d)
             /\ d.recent_packets = c.recent_packets /\ d.received = c.received
             /\ c.rtmetric = RTMETRIC_SINK => d = c
             /\ \A i \in 1..Len(c.mac) : d.mac[i] = c.mac[i]
             /\ (\A p \in Range(c.send_queue) : p.probe) =>
                  /\ \A p \in Range(d.send_queue) : p.probe
                  /\ \A i \in Len(c.mac)+1..Len(d.mac) : d.mac[i].packet.probe
<1> DEFINE n == FirstUnprobed(c)
           p == [id |-> <<c.addr, (c.eseqno - 1) % UINT8, 0>>, ttl |-> 1, hops |-> 1,
                 rexmits |-> PROACTIVE_PROBING_REXMITS, probe |-> TRUE]
           to == c.neighbour_list[Deref(n)].addr
           a == [c EXCEPT !.parent = to]
           b == Enqueued(a, p)
           e == send_queued_packet(b)
           d == [e EXCEPT !.parent = c.parent]
           idle == \/ c.rtmetric \in {RTMETRIC_SINK, RTMETRIC_MAX}
                   \/ c.send_queue # <<>> \/ n = {} \/ ~ HasRoom(c, room)
<1>1. \/ idle /\ proactive_probing_callback(c, room) = c
      \/ ~ idle /\ proactive_probing_callback(c, room) = d
  <2>1. c.addr \in Node /\ a.addr = c.addr /\ a.eseqno = c.eseqno
    BY FieldTypes DEF SoundFields
  <2>2. b = enqueue_dummy_packet(a, PROACTIVE_PROBING_REXMITS)
    BY <2>1 DEF enqueue_dummy_packet
  <2> HIDE DEF b
  <2> QED  BY <2>2 DEF proactive_probing_callback
<1>2. CASE idle /\ proactive_probing_callback(c, room) = c
  <2>1. Answers(I, P, c, c)
    BY DEF Answers, Kept
  <2>2. Len(c.mac)+1..Len(c.mac) = {}
    <3>1. c.mac \in Seq(SentFrame(I, P))
      BY FieldTypes
    <3> QED  BY <3>1
  <2> QED  BY <1>2, <2>1, <2>2
<1>3. CASE ~ idle /\ proactive_probing_callback(c, room) = d
  <2>1. p \in SoundPacket(I) /\ p.probe /\ ~ (p.hops > 1)
    <3>1. c.addr \in Node /\ c.eseqno \in 0..UINT8-1
      BY FieldTypes
    <3>2. (c.eseqno - 1) % UINT8 \in 0..UINT8-1
      BY <3>1, Numbers
    <3>3. p.id \in PacketId
      BY <3>1, <3>2 DEF PacketId
    <3>4. 1 \in 0..MAX_HOPLIM /\ PROACTIVE_PROBING_REXMITS \in 0..31
      BY LibpAssumption
    <3>5. p \in Packet
      BY <3>3, <3>4 DEF Packet
    <3> QED  BY <3>5 DEF SoundPacket, Budgeted
  <2>2. to \in Parents(P)
    <3>1. Deref(n) \in FirstUnprobed(c)
      BY <1>3, DerefIn
    <3>2. Deref(n) \in Listed(c.neighbour_list)
      <4>1. FirstUnprobed(c) \subseteq Unprobed(c)
        BY DEF FirstUnprobed
      <4>2. Unprobed(c) \subseteq Listed(c.neighbour_list)
        BY DEF Unprobed
      <4> HIDE DEF n
      <4> QED  BY <3>1, <4>1, <4>2
    <3>3. c.neighbour_list \in SoundTable(P)
      BY FieldTypes
    <3> QED  BY <3>2, <3>3, TableFields
  <2>3. ~ idle
    BY <1>3
  <2>4. c.rtmetric # RTMETRIC_SINK
    BY <2>3
  <2> HIDE DEF p, to, idle
  <2>5. /\ Serves(I, P, c, a)
        /\ a \in SoundConn(I, P)
        /\ Answers(I, P, c, a)
        /\ Handled(c, a)
    <3>1. a \in SoundConn(I, P) /\ Handled(c, a) /\ (Armed(c) => Armed(a))
      BY <2>2, SetParentSound
    <3> HIDE DEF a
    <3> QED  BY <3>1, ServesAnswers DEF Serves
  <2>6. a.mac = c.mac
    BY FieldTypes DEF SoundFields
  <2> HIDE DEF a
  <2>7. /\ Answers(I, P, a, b) /\ b \in SoundConn(I, P)
        /\ b.mac = a.mac /\ b.recent_packets = a.recent_packets
        /\ b.received = a.received
        /\ Range(b.send_queue) = Range(a.send_queue) \cup {p}
    <3>1. /\ Answers(I, P, a, b)
          /\ b.mac = a.mac /\ b.recent_packets = a.recent_packets
          /\ b.received = a.received
          /\ Range(b.send_queue) = Range(a.send_queue) \cup {p}
      BY <2>1, <2>5, EnqueuedSound
    <3> QED  BY <3>1 DEF Answers
  <2> HIDE DEF b
  <2>8. /\ Serves(I, P, b, e)
        /\ e \in SoundConn(I, P)
        /\ Answers(I, P, b, e)
        /\ Handled(b, e)
    <3>1. e \in SoundConn(I, P) /\ Handled(b, e) /\ (Armed(b) => Armed(e))
      BY <2>7, SendQueuedSound
    <3> HIDE DEF e
    <3> QED  BY <3>1, ServesAnswers DEF Serves
  <2> HIDE DEF e
  <2>9. /\ Serves(I, P, e, d)
        /\ d \in SoundConn(I, P)
        /\ Answers(I, P, e, d)
        /\ Handled(e, d)
    <3>1. c.parent \in Parents(P)
      BY FieldTypes
    <3>2. d \in SoundConn(I, P) /\ Handled(e, d) /\ (Armed(e) => Armed(d))
      BY <2>8, <3>1, SetParentSound
    <3> HIDE DEF d
    <3> QED  BY <3>2, ServesAnswers DEF Serves
  <2> HIDE DEF d
  <2>10. Answers(I, P, c, d)
    <3>1. Answers(I, P, c, b)
      BY <2>5, <2>7, AnswersTrans
    <3>2. Answers(I, P, c, e)
      BY <2>8, <3>1, AnswersTrans
    <3> QED  BY <2>9, <3>2, AnswersTrans
  <2>11. Handled(b, d)
    BY <2>7, <2>8, <2>9, HandledTrans
  <2>12. /\ d.recent_packets = c.recent_packets /\ d.received = c.received
         /\ \A i \in 1..Len(c.mac) : d.mac[i] = c.mac[i]
    BY <2>5, <2>6, <2>7, <2>11 DEF Handled, SentFrom
  <2>13. ASSUME \A q \in Range(c.send_queue) : q.probe
         PROVE  /\ \A q \in Range(d.send_queue) : q.probe
                /\ \A i \in Len(c.mac)+1..Len(d.mac) : d.mac[i].packet.probe
    <3>1. \A q \in Range(b.send_queue) : q.probe
      BY <2>1, <2>5, <2>7, <2>13 DEF Handled
    <3>2. /\ Range(d.send_queue) \subseteq Range(b.send_queue)
          /\ \A i \in Len(b.mac)+1..Len(d.mac) : d.mac[i].packet \in Range(b.send_queue)
      BY <2>11 DEF Handled, SentFrom
    <3> QED  BY <2>6, <2>7, <3>1, <3>2
  <2> QED  BY <1>3, <2>4, <2>10, <2>12, <2>13
<1> QED  BY <1>1, <1>2, <1>3

\* What libp_send() writes down of the packet it is given.
Counted(c) ==
  [c EXCEPT !.eseqno = IF @ = UINT8 - 1 THEN UINT8 \div 2 ELSE @ + 1,
            !.sent = @ + 1]

LEMMA CountedSound ==
  ASSUME NEW I, NEW P, NEW c \in SoundConn(I, P)
  PROVE  LET d == Counted(c)
         IN  /\ d \in SoundConn(I, P)
             /\ d.addr = c.addr /\ d.is_sink = c.is_sink /\ d.is_open = c.is_open
             /\ d.eseqno = (IF c.eseqno = UINT8 - 1 THEN UINT8 \div 2
                            ELSE c.eseqno + 1)
             /\ d.sent = c.sent + 1
             /\ d.rtmetric = c.rtmetric /\ d.send_queue = c.send_queue
             /\ d.recent_packets = c.recent_packets /\ d.received = c.received
             /\ d.mac = c.mac
             /\ Armed(c) => Armed(d)
<1> DEFINE k == IF c.eseqno = UINT8 - 1 THEN UINT8 \div 2 ELSE c.eseqno + 1
           d == [c EXCEPT !.eseqno = k, !.sent = c.sent + 1]
<1>1. c \in SoundFields(I, P) /\ c.eseqno \in 0..UINT8-1 /\ c.sent \in Nat
  BY FieldTypes
<1>2. k \in 0..UINT8-1 /\ c.sent + 1 \in Nat
  BY <1>1, Numbers
<1>3. Counted(c) = d
  BY DEF Counted
<1> HIDE DEF k
<1>4. /\ d.addr = c.addr /\ d.is_sink = c.is_sink /\ d.is_open = c.is_open
      /\ d.eseqno = k /\ d.sent = c.sent + 1
      /\ d.rtmetric = c.rtmetric /\ d.send_queue = c.send_queue
      /\ d.recent_packets = c.recent_packets /\ d.received = c.received
      /\ d.mac = c.mac /\ d.sending = c.sending
      /\ d.retransmission_timer = c.retransmission_timer
  BY <1>1 DEF SoundFields
<1>5. d \in SoundFields(I, P)
  BY <1>1, <1>2, Zenon DEF SoundFields
<1>6. d \in SoundConn(I, P)
  BY <1>4, <1>5, FieldTypes DEF SoundConn
<1> HIDE DEF d
<1> QED  BY <1>3, <1>4, <1>6 DEF Armed, k

\* The packet a call of libp_send() makes is p; a sink has it at once.
LEMMA SendSound ==
  ASSUME NEW I, NEW P, NEW c \in SoundConn(I, P), <<c.addr, c.eseqno,
         c.sent + 1>> \in I,
         NEW rexmits \in 1..MAX_REXMITS, NEW room,
         NEW e, e = libp_send(c, rexmits, room)
  PROVE  /\ Answers(I, P, Counted(c), e)
         /\ HonestSink(c) => HonestSink(e)
         /\ e.recent_packets = c.recent_packets
         /\ Range(c.received) \subseteq Range(e.received)
<1> DEFINE p == [id |-> <<c.addr, c.eseqno, c.sent + 1>>, ttl |-> MAX_HOPLIM, hops |-> 1,
                 rexmits |-> AtMost(rexmits, MAX_REXMITS), probe |-> FALSE]
           d == Counted(c)
           got == Append(d.received, p.id)
           a == Enqueued(d, p)
           b == send_queued_packet(a)
<1>1. e = IF c.rtmetric = RTMETRIC_SINK THEN [d EXCEPT !.received = got]
          ELSE IF HasRoom(c, room) THEN b ELSE d
  BY Zenon DEF libp_send, Counted
<1>2. p.id \in I /\ p \in SoundPacket(I) /\ ~ (p.hops > 1)
  <2>1. c.addr \in Node /\ c.eseqno \in 0..UINT8-1 /\ c.sent \in Nat
    BY FieldTypes
  <2>2. <<c.addr, c.eseqno, c.sent + 1>> \in PacketId
    BY <2>1 DEF PacketId
  <2>3. /\ MAX_HOPLIM \in 0..MAX_HOPLIM /\ MAX_HOPLIM >= 1
        /\ MAX_HOPLIM + 1 = MAX_HOPLIM + 1
        /\ AtMost(rexmits, MAX_REXMITS) \in 0..31
    BY LibpAssumption DEF AtMost
  <2>4. p \in Packet
    BY <2>2, <2>3 DEF Packet
  <2> QED  BY <2>3, <2>4 DEF SoundPacket, Budgeted
<1> HIDE DEF p
<1>3. /\ d \in SoundConn(I, P)
      /\ d.rtmetric = c.rtmetric /\ d.recent_packets = c.recent_packets
      /\ d.received = c.received /\ d.mac = c.mac
  BY CountedSound
<1> HIDE DEF d
<1>4. Answers(I, P, d, d)
  BY <1>3 DEF Answers, Kept
<1>5. CASE c.rtmetric = RTMETRIC_SINK
  <2>1. /\ d.mac \in Seq(SentFrame(I, P))
        /\ d.recent_packets \in Seq(I)
        /\ d.received \in Seq(I)
    BY <1>3, FieldTypes
  <2>2. got \in Seq(I) /\ Range(got) = Range(d.received) \cup {p.id}
    BY <1>2, <2>1, AppendTo
  <2>3. e = Traffic(d, d.mac, d.recent_packets, got)
    BY <1>1, <1>3, <1>5, FieldTypes DEF SoundFields, Traffic
  <2> HIDE DEF got
  <2>4. /\ Answers(I, P, d, e)
        /\ e.mac = d.mac /\ e.recent_packets = d.recent_packets
        /\ e.received = got /\ e.rtmetric = d.rtmetric
    BY <1>3, <2>1, <2>2, <2>3, SetTrafficSound
  <2>5. HonestSink(c) => HonestSink(e)
    BY <1>3, <2>2, <2>4 DEF HonestSink, HonestFrame
  <2> QED  BY <1>3, <2>2, <2>4, <2>5 DEF d
<1>6. CASE c.rtmetric # RTMETRIC_SINK
  <2>1. /\ Answers(I, P, d, a) /\ a \in SoundConn(I, P)
        /\ a.recent_packets = d.recent_packets /\ a.received = d.received
    <3>1. /\ Answers(I, P, d, a)
          /\ a.recent_packets = d.recent_packets /\ a.received = d.received
      BY <1>2, <1>3, EnqueuedSound
    <3> QED  BY <3>1 DEF Answers
  <2> HIDE DEF a
  <2>2. /\ Answers(I, P, a, b)
        /\ b.recent_packets = a.recent_packets /\ b.received = a.received
    <3>1. Serves(I, P, a, b)
      BY <2>1, SendQueuedSound DEF Serves
    <3> QED  BY <3>1, ServesAnswers DEF Serves, Handled
  <2> HIDE DEF b
  <2>3. Answers(I, P, d, b)
    BY <1>3, <2>1, <2>2, AnswersTrans
  <2>4. e = b \/ e = d
    BY <1>1, <1>6
  <2>5. e.recent_packets = c.recent_packets /\ e.received = c.received
    BY <1>3, <2>1, <2>2, <2>4
  <2> QED  BY <1>4, <1>6, <2>3, <2>4, <2>5 DEF d, HonestSink
<1> QED  BY <1>5, <1>6

\* A sink keeps nothing queued; a node that is none has to find a parent.
LEMMA SetSinkSound ==
  ASSUME NEW I, NEW P, NEW c \in SoundConn(I, P), NEW b \in BOOLEAN,
         P.router
  PROVE  LET e == libp_set_sink(c, b)
         IN  /\ e \in SoundConn(I, P)
             /\ e.addr = c.addr /\ e.is_open = c.is_open
             /\ e.eseqno = c.eseqno /\ e.sent = c.sent
             /\ e.recent_packets = c.recent_packets /\ e.received = c.received
             /\ Range(e.send_queue) \subseteq Range(c.send_queue)
             /\ SentFrom(c.send_queue, c.mac, e.mac)
             /\ Reserved(c) => Reserved(e)
             /\ b => e.rtmetric = RTMETRIC_SINK /\ e.mac = c.mac /\ e.sending = c.sending
             /\ ~ b => (Armed(c) => Armed(e))
<1> DEFINE e == libp_set_sink(c, b)
<1> DEFINE rank == IF b THEN RTMETRIC_SINK ELSE RTMETRIC_MAX
           q == IF b THEN <<>> ELSE c.send_queue
           router == b \/ c.is_router
           sink == b \/ c.is_sink
           timer == IF b THEN "off" ELSE c.retransmission_timer
           d == [c EXCEPT !.rtmetric = rank, !.announcement = rank,
                          !.is_router = router, !.is_sink = sink,
                          !.send_queue = q, !.retransmission_timer = timer]
<1>1. /\ c \in SoundFields(I, P)
      /\ c.send_queue \in Seq(SoundPacket(I))
      /\ c.mac \in Seq(SentFrame(I, P))
  BY FieldTypes
<1>2. e = update_rtmetric(d)
  <2>1. CASE b
    <3>1. d = [c EXCEPT !.rtmetric = RTMETRIC_SINK, !.announcement = RTMETRIC_SINK,
                        !.is_router = TRUE, !.is_sink = TRUE,
                        !.send_queue = <<>>, !.retransmission_timer = "off"]
      BY <2>1
    <3> HIDE DEF d
    <3> QED  BY <2>1, <3>1 DEF libp_set_sink
  <2>2. CASE ~ b
    <3>1. c.is_router \in BOOLEAN
      BY FieldTypes DEF Routing
    <3>2. /\ d.rtmetric = RTMETRIC_MAX /\ d.announcement = RTMETRIC_MAX
          /\ d = [c EXCEPT !.rtmetric = RTMETRIC_MAX, !.announcement = RTMETRIC_MAX]
      BY <1>1, <2>2, <3>1 DEF SoundFields
    <3> HIDE DEF d
    <3> QED  BY <2>2, <3>2 DEF libp_set_sink
  <2> QED  BY <2>1, <2>2
<1> HIDE DEF e
<1>3. /\ d.addr = c.addr /\ d.is_sink = (b \/ c.is_sink) /\ d.is_open = c.is_open
      /\ d.eseqno = c.eseqno /\ d.sent = c.sent
      /\ d.recent_packets = c.recent_packets /\ d.received = c.received
      /\ d.mac = c.mac /\ d.send_queue = q /\ d.rtmetric = rank
      /\ d.sending = c.sending
  BY <1>1 DEF SoundFields
<1>4. d \in SoundFields(I, P)
  <2>1. rank \in 0..RankLimit-1 /\ rank \in Announceable(P)
    <3>1. rank \in 0..RankLimit-1
      BY Numbers
    <3> HIDE DEF rank
    <3> QED  BY <3>1 DEF Announceable
  <2>2. q \in Seq(SoundPacket(I))
    BY <1>1
  <2>3. router \in Routing(P) /\ sink \in BOOLEAN
    BY FieldTypes DEF Routing
  <2>4. timer \in {"off", "retransmit", "not_sent"}
    BY FieldTypes
  <2> HIDE DEF rank, q, router, sink, timer
  <2> QED  BY <1>1, <2>1, <2>2, <2>3, <2>4, Zenon DEF SoundFields
<1>5. d \in SoundConn(I, P)
  <2>1. rank < LIBP_LINK_METRIC_UNIT => b
    BY Numbers
  <2> HIDE DEF rank, d
  <2> QED  BY <1>3, <1>4, <2>1, Zenon DEF SoundConn
<1> HIDE DEF d
<1>6. /\ e \in SoundConn(I, P) /\ Handled(d, e)
      /\ d.rtmetric = RTMETRIC_SINK => e = d
  BY <1>2, <1>5, UpdateRankSound
<1>7. Range(q) \subseteq Range(c.send_queue)
  BY DEF Range
<1>8. Reserved(c) => Reserved(d)
  <2>1. CASE b
    <3>1. Forwarded(q) = {}
      BY <2>1 DEF Forwarded
    <3>2. Cardinality(Forwarded(q)) = 0
      BY <3>1, FS_EmptySet
    <3> HIDE DEF q
    <3> QED  BY <1>3, <3>2, LibpAssumption DEF Reserved
  <2>2. CASE ~ b
    BY <1>3, <2>2 DEF Reserved
  <2> QED  BY <2>1, <2>2
<1>9. e.addr = d.addr /\ e.is_open = d.is_open /\ e.eseqno = d.eseqno /\ e.sent = d.sent
  BY <1>6 DEF Handled, Kept
<1>10. /\ e.recent_packets = d.recent_packets /\ e.received = d.received
       /\ Range(e.send_queue) \subseteq Range(q)
       /\ SentFrom(q, c.mac, e.mac)
       /\ Reserved(d) => Reserved(e)
  <2> HIDE DEF q
  <2> QED  BY <1>3, <1>6 DEF Handled, Kept
<1>11. SentFrom(c.send_queue, c.mac, e.mac)
  <2> HIDE DEF q
  <2> QED  BY <1>7, <1>10 DEF SentFrom
<1>12. b => e.rtmetric = RTMETRIC_SINK /\ e.mac = c.mac /\ e.sending = c.sending
  BY <1>3, <1>6
<1>13. ~ b => (Armed(c) => Armed(e))
  <2>1. ~ b => d.retransmission_timer = c.retransmission_timer
    BY <1>1 DEF SoundFields, d
  <2>2. Armed(d) => Armed(e)
    BY <1>2, <1>5, UpdateRankSound
  <2> QED  BY <1>3, <2>1, <2>2 DEF Armed
<1> HIDE DEF q, rank
<1> QED  BY <1>3, <1>6, <1>7, <1>8, <1>9, <1>10, <1>11, <1>12, <1>13 DEF e

\* A connection that was just opened.
LEMMA OpenSound ==
  ASSUME NEW I, NEW P, NEW addr \in Node, NEW is_router \in Routing(P)
  PROVE  LET c == libp_open(addr, is_router)
         IN  /\ c \in SoundConn(I, P) /\ Reserved(c) /\ ~ c.sending
             /\ c.addr = addr /\ c.is_open /\ c.eseqno = 0 /\ c.sent = 0
             /\ c.send_queue = <<>> /\ c.mac = <<>>
             /\ c.recent_packets = <<>> /\ c.received = <<>>
<1> DEFINE c == libp_open(addr, is_router)
<1>1. /\ c.addr = addr /\ c.is_open /\ c.eseqno = 0 /\ c.sent = 0
      /\ c.send_queue = <<>> /\ c.mac = <<>> /\ ~ c.sending
      /\ c.recent_packets = <<>> /\ c.received = <<>>
      /\ c.rtmetric = RTMETRIC_MAX
  BY Zenon DEF libp_open
<1>2. c \in SoundFields(I, P)
  <2>1. NewTable \in SoundTable(P)
    BY NewTableSound
  <2>2. /\ RTMETRIC_MAX \in 0..RankLimit-1
        /\ (IF is_router THEN RTMETRIC_MAX ELSE NoValue) \in Announceable(P)
        /\ 10 \in 0..UINT8-1 /\ 0 \in 0..UINT8-1
    <3>1. RTMETRIC_MAX \in 0..RankLimit-1 /\ 10 \in 0..UINT8-1 /\ 0 \in 0..UINT8-1
      BY Numbers
    <3>2. (IF is_router THEN RTMETRIC_MAX ELSE NoValue) \in Announceable(P)
      BY <3>1 DEF Announceable, Routing
    <3> QED  BY <3>1, <3>2
  <2>3. /\ FALSE \in BOOLEAN /\ TRUE \in BOOLEAN /\ 0 \in 0..31 /\ 0 \in Nat
        /\ "off" \in {"off", "retransmit", "not_sent"}
        /\ NullAddr \in Parents(P) /\ {} \in SUBSET PacketId
        /\ <<>> \in Seq(SoundPacket(I)) /\ <<>> \in Seq(I) /\ <<>> \in Seq(SentFrame(I, P))
    BY DEF Parents
  <2> QED  BY <2>1, <2>2, <2>3, Zenon DEF libp_open, SoundFields
<1>3. c.rtmetric >= LIBP_LINK_METRIC_UNIT
  BY <1>1, Numbers
<1> HIDE DEF c
<1>4. c \in SoundConn(I, P)
  BY <1>1, <1>2, Numbers DEF SoundConn
<1>5. Reserved(c)
  <2>1. Forwarded(c.send_queue) = {}
    BY <1>1 DEF Forwarded
  <2>2. Cardinality(Forwarded(c.send_queue)) = 0
    BY <2>1, FS_EmptySet
  <2> QED  BY <2>2, LibpAssumption DEF Reserved
<1> QED  BY <1>1, <1>4, <1>5 DEF c

LEMMA LibpPurgeSound ==
  ASSUME NEW I, NEW P, NEW c \in SoundConn(I, P)
  PROVE  Serves(I, P, c, libp_purge(c))
<1> DEFINE t == libp_neighbour_list_purge(c.neighbour_list)
           a == [c EXCEPT !.neighbour_list = t]
           b == [a EXCEPT !.parent = NullAddr]
           d == update_rtmetric(b)
           e == [d EXCEPT !.parent = NullAddr]
<1>1. t \in SoundTable(P)
  <2>1. c.neighbour_list \in SoundTable(P)
    BY FieldTypes
  <2> QED  BY <2>1, PurgeSound
<1>2. libp_purge(c) = e
  BY DEF libp_purge
<1> HIDE DEF t
<1>3. Serves(I, P, c, a) /\ a \in SoundConn(I, P)
  BY <1>1, SetTableSound DEF Serves
<1> HIDE DEF a
<1> NullAddr \in Parents(P)
  BY DEF Parents
<1>4. Serves(I, P, a, b) /\ b \in SoundConn(I, P)
  BY <1>3, SetParentSound DEF Serves
<1> HIDE DEF b
<1>5. Serves(I, P, b, d) /\ d \in SoundConn(I, P)
  BY <1>4, UpdateRankSound DEF Serves
<1> HIDE DEF d
<1>6. Serves(I, P, d, e)
  BY <1>5, SetParentSound DEF Serves
<1> HIDE DEF e
<1>7. Serves(I, P, c, b)
  BY <1>3, <1>4, ServesTrans
<1>8. Serves(I, P, c, d)
  BY <1>5, <1>7, ServesTrans
<1>9. Serves(I, P, c, e)
  BY <1>6, <1>8, ServesTrans
<1> QED  BY <1>2, <1>9

LEMMA TickSound ==
  ASSUME NEW I, NEW P, NEW c \in SoundConn(I, P)
  PROVE  Serves(I, P, c, Tick(c))
<1>1. periodic(c.neighbour_list) \in SoundTable(P)
  <2>1. c.neighbour_list \in SoundTable(P)
    BY FieldTypes
  <2> QED  BY <2>1, PeriodicSound
<1> QED  BY <1>1, SetTableSound DEF Serves, Tick

LEMMA CloseSound ==
  ASSUME NEW I, NEW P, NEW c \in SoundConn(I, P)
  PROVE  LET d == libp_close(c)
         IN  /\ d \in SoundConn(I, P) /\ Reserved(d) /\ (Armed(c) => Armed(d))
             /\ d.addr = c.addr /\ d.eseqno = c.eseqno /\ d.sent = c.sent
             /\ d.rtmetric = c.rtmetric /\ d.mac = c.mac
             /\ d.recent_packets = c.recent_packets /\ d.received = c.received
             /\ d.send_queue = <<>>
<1> DEFINE d == libp_close(c)
<1>1. c \in SoundFields(I, P)
  BY FieldTypes
<1>2. /\ d.addr = c.addr /\ d.eseqno = c.eseqno /\ d.sent = c.sent
      /\ d.rtmetric = c.rtmetric /\ d.mac = c.mac /\ d.is_sink = c.is_sink
      /\ d.recent_packets = c.recent_packets /\ d.received = c.received
      /\ d.send_queue = <<>> /\ d.sending = c.sending
      /\ d.retransmission_timer = c.retransmission_timer
  BY <1>1 DEF SoundFields, libp_close
<1>3. d \in SoundFields(I, P)
  <2>1. /\ NoValue \in Announceable(P) /\ FALSE \in BOOLEAN
        /\ <<>> \in Seq(SoundPacket(I))
    BY DEF Announceable
  <2> QED  BY <1>1, <2>1, Zenon DEF SoundFields, libp_close
<1> HIDE DEF d
<1>4. d \in SoundConn(I, P)
  BY <1>2, <1>3, FieldTypes DEF SoundConn
<1>5. Reserved(d)
  <2>1. Forwarded(d.send_queue) = {}
    BY <1>2 DEF Forwarded
  <2>2. Cardinality(Forwarded(d.send_queue)) = 0
    BY <2>1, FS_EmptySet
  <2> QED  BY <2>2, LibpAssumption DEF Reserved
<1> QED  BY <1>2, <1>4, <1>5 DEF d, Armed

LEMMA ExpireSound ==
  ASSUME NEW I, NEW P, NEW c \in SoundConn(I, P), NEW i \in DOMAIN c.send_queue
  PROVE  Serves(I, P, c, Expire(c, i))
<1> DEFINE q == [j \in 1..Len(c.send_queue)-1 |->
                   IF j < i THEN c.send_queue[j] ELSE c.send_queue[j + 1]]
           d == [c EXCEPT !.send_queue = q]
<1>1. c \in SoundFields(I, P) /\ c.send_queue \in Seq(SoundPacket(I))
  BY FieldTypes
<1>2. i \in 1..Len(c.send_queue)
  BY <1>1
<1>3. q \in Seq(SoundPacket(I)) /\ Range(q) \subseteq Range(c.send_queue)
  BY <1>1, <1>2, RemovedAt
<1>4. Cardinality(Forwarded(q)) <= Cardinality(Forwarded(c.send_queue))
  BY <1>1, <1>2, ForwardedRemoved
<1>5. Expire(c, i) = d
  BY DEF Expire
<1> HIDE DEF q
<1>6. /\ d.addr = c.addr /\ d.is_sink = c.is_sink /\ d.is_open = c.is_open
      /\ d.eseqno = c.eseqno /\ d.sent = c.sent /\ d.rtmetric = c.rtmetric
      /\ d.recent_packets = c.recent_packets /\ d.received = c.received
      /\ d.mac = c.mac /\ d.send_queue = q /\ d.sending = c.sending
      /\ d.retransmission_timer = c.retransmission_timer
  BY <1>1 DEF SoundFields
<1>7. d \in SoundFields(I, P)
  BY <1>1, <1>3, Zenon DEF SoundFields
<1>8. d \in SoundConn(I, P)
  BY <1>6, <1>7, FieldTypes DEF SoundConn
<1> HIDE DEF d
<1>9. Reserved(c) => Reserved(d)
  BY <1>1, <1>3, <1>4, <1>6, ReservedShrinks
<1>10. SentFrom(c.send_queue, c.mac, d.mac)
  <2>1. c.mac \in Seq(SentFrame(I, P))
    BY FieldTypes
  <2> QED  BY <1>6, <2>1 DEF SentFrom
<1>11. Handled(c, d)
  BY <1>3, <1>6, <1>9, <1>10 DEF Handled, Kept
<1> QED  BY <1>5, <1>6, <1>8, <1>11 DEF Serves, Armed

LEMMA SeqsOfSubset ==
  ASSUME NEW S, NEW T, S \subseteq T
  PROVE  Seq(S) \subseteq Seq(T)
OBVIOUS

LEMMA SoundIsConn ==
  ASSUME NEW I, NEW P, I \subseteq PacketId, NEW c \in SoundConn(I, P)
  PROVE  c \in Conn
<1>1. c \in SoundFields(I, P)
  BY FieldTypes
<1>2. /\ 0..RankLimit-1 \subseteq 0..UINT16-1
      /\ Announceable(P) \subseteq {NoValue} \cup 0..UINT16-1
      /\ Parents(P) \subseteq Node \cup {NullAddr} /\ Routing(P) \subseteq BOOLEAN
  BY RankType, Zenon DEF Announceable, Parents, Routing
<1>3. Seq(SoundPacket(I)) \subseteq Seq(Packet)
  BY SeqsOfSubset DEF SoundPacket
<1>4. Seq(SentFrame(I, P)) \subseteq Seq(Frame)
  BY SeqsOfSubset DEF SoundFrame, SentFrame
<1>5. Seq(I) \subseteq Seq(PacketId)
  BY SeqsOfSubset
<1>6. SoundTable(P) \subseteq Table
  BY DEF SoundTable
<1> QED  BY <1>1, <1>2, <1>3, <1>4, <1>5, <1>6, Zenon DEF SoundFields, Conn

-----------------------------------------------------------------------------
(* How far apart the application of a sink gets the same packet twice.     *)

\* The duplicate filter q of node me has the last of the packets got that
\* other nodes have sent, and a packet came again only after all of them.
Windowed(me, got, q) ==
  /\ Len(q) <= NUM_RECENT_PACKETS
  /\ \A i \in DOMAIN got :
       got[i][1] # me /\ Len(got) - i < NUM_RECENT_PACKETS
         => \E j \in DOMAIN q : q[j] = got[i] /\ Len(q) - j <= Len(got) - i
  /\ \A i, k \in DOMAIN got :
       i < k /\ got[i] = got[k] /\ got[i][1] # me => k - i > NUM_RECENT_PACKETS

\* Only the sink's application is given packets, and the filter is its window.
Window(me, c) ==
  c.rtmetric = RTMETRIC_SINK /\ Windowed(me, c.received, c.recent_packets)

\* The filter with one more packet.
Remembered(q, id) == Append(IF Len(q) < NUM_RECENT_PACKETS THEN q ELSE Tail(q), id)

\* What the sink's application sends itself does not pass the filter.
LEMMA OwnAppended ==
  ASSUME NEW I, NEW got \in Seq(I), NEW q \in Seq(I), NEW id \in I,
         NEW me, id[1] = me, Windowed(me, got, q)
  PROVE  Windowed(me, Append(got, id), q)
<1> DEFINE r == Append(got, id)
<1>1. /\ Len(r) = Len(got) + 1 /\ r \in Seq(I)
      /\ \A i \in 1..Len(got) : r[i] = got[i]
      /\ r[Len(got) + 1] = id
      /\ Len(got) \in Nat /\ Len(q) \in Nat /\ NUM_RECENT_PACKETS \in Nat
  BY AppendTo, LibpAssumption
<1>2. /\ DOMAIN got = 1..Len(got) /\ DOMAIN q = 1..Len(q)
      /\ DOMAIN r = 1..Len(r)
  BY <1>1
<1> HIDE DEF r
<1>3. ASSUME NEW i \in DOMAIN r, r[i][1] # me
      PROVE  i \in 1..Len(got) /\ i \in DOMAIN got /\ r[i] = got[i]
  <2>1. i # Len(got) + 1
    BY <1>1, <1>3
  <2>2. i \in 1..Len(got)
    BY <1>1, <1>2, <2>1
  <2> QED  BY <1>1, <1>2, <2>2
<1>4. ASSUME NEW i \in DOMAIN r, r[i][1] # me, Len(r) - i < NUM_RECENT_PACKETS
      PROVE  \E j \in DOMAIN q : q[j] = r[i] /\ Len(q) - j <= Len(r) - i
  <2>1. i \in 1..Len(got) /\ i \in DOMAIN got /\ r[i] = got[i]
    BY <1>3, <1>4
  <2>2. Len(got) - i < NUM_RECENT_PACKETS
    BY <1>1, <1>4, <2>1
  <2>3. PICK j \in DOMAIN q : q[j] = got[i] /\ Len(q) - j <= Len(got) - i
    BY <1>4, <2>1, <2>2 DEF Windowed
  <2>4. Len(q) - j <= Len(r) - i
    BY <1>1, <1>2, <2>1, <2>3
  <2> QED  BY <2>1, <2>3, <2>4
<1>5. ASSUME NEW i \in DOMAIN r, NEW k \in DOMAIN r,
             i < k, r[i] = r[k], r[i][1] # me
      PROVE  k - i > NUM_RECENT_PACKETS
  <2>1. i \in DOMAIN got /\ r[i] = got[i] /\ k \in DOMAIN got /\ r[k] = got[k]
    BY <1>3, <1>5
  <2>2. got[i] = got[k] /\ got[i][1] # me
    BY <1>5, <2>1
  <2>3. \A u, v \in DOMAIN got :
          u < v /\ got[u] = got[v] /\ got[u][1] # me => v - u > NUM_RECENT_PACKETS
    BY DEF Windowed
  <2> QED  BY <1>5, <2>1, <2>2, <2>3
<1> QED  BY <1>4, <1>5 DEF Windowed, r

\* What the filter does not know has not been among the last packets.
LEMMA Delivered ==
  ASSUME NEW I, NEW got \in Seq(I), NEW q \in Seq(I), NEW id \in I,
         NEW me, Windowed(me, got, q), \A j \in DOMAIN q : q[j] # id
  PROVE  Windowed(me, Append(got, id), Remembered(q, id))
<1> DEFINE r == Append(got, id)
           o == IF Len(q) < NUM_RECENT_PACKETS THEN q ELSE Tail(q)
           s == Append(o, id)
           gap == Len(q) - Len(o)
<1>1. /\ Len(r) = Len(got) + 1 /\ r \in Seq(I)
      /\ \A i \in 1..Len(got) : r[i] = got[i]
      /\ r[Len(got) + 1] = id
      /\ Len(got) \in Nat /\ Len(q) \in Nat
      /\ NUM_RECENT_PACKETS \in Nat \ {0} /\ Len(q) <= NUM_RECENT_PACKETS
  BY AppendTo, LibpAssumption DEF Windowed
<1>2. /\ o \in Seq(I) /\ Len(o) \in Nat /\ Len(o) < NUM_RECENT_PACKETS
      /\ gap \in 0..1 /\ (gap = 1 => Len(q) = NUM_RECENT_PACKETS)
      /\ \A j \in 1..Len(o) : o[j] = q[j + gap]
  <2>1. CASE Len(q) < NUM_RECENT_PACKETS
    <3>1. o = q
      BY <2>1
    <3> HIDE DEF o
    <3> QED  BY <1>1, <2>1, <3>1
  <2>2. CASE ~ (Len(q) < NUM_RECENT_PACKETS)
    <3>1. o = Tail(q) /\ q # <<>> /\ Len(q) = NUM_RECENT_PACKETS
      BY <1>1, <2>2
    <3>2. /\ Tail(q) \in Seq(I) /\ Len(Tail(q)) = Len(q) - 1
          /\ Tail(q) = [j \in 1..Len(q)-1 |-> IF j < 1 THEN q[j] ELSE q[j+1]]
      BY <3>1, TailOf
    <3> HIDE DEF o
    <3>3. \A j \in 1..Len(q)-1 : Tail(q)[j] = q[j + 1]
      BY <3>2, <1>1
    <3>4. gap = 1 /\ Len(o) = Len(q) - 1 /\ o \in Seq(I)
      BY <1>1, <3>1, <3>2
    <3> QED  BY <1>1, <3>1, <3>3, <3>4
  <2> QED  BY <2>1, <2>2
<1> HIDE DEF o
<1>3. /\ Len(s) = Len(o) + 1 /\ s \in Seq(I)
      /\ \A j \in 1..Len(o) : s[j] = o[j]
      /\ s[Len(o) + 1] = id
  BY <1>2, AppendTo
<1>4. /\ DOMAIN got = 1..Len(got) /\ DOMAIN q = 1..Len(q)
      /\ DOMAIN r = 1..Len(r) /\ DOMAIN s = 1..Len(s)
  BY <1>1, <1>3
<1> HIDE DEF r, s
<1>5. ASSUME NEW i \in DOMAIN r, r[i][1] # me, Len(r) - i < NUM_RECENT_PACKETS
      PROVE  \E j \in DOMAIN s : s[j] = r[i] /\ Len(s) - j <= Len(r) - i
  <2>1. CASE i = Len(got) + 1
    <3>1. r[i] = id /\ Len(r) - i = 0
      BY <1>1, <2>1
    <3>2. Len(s) \in 1..Len(s) /\ Len(s) - Len(s) = 0 /\ s[Len(s)] = id
      BY <1>2, <1>3
    <3> QED  BY <1>4, <3>1, <3>2
  <2>2. CASE i # Len(got) + 1
    <3>1. i \in 1..Len(got) /\ i \in DOMAIN got /\ r[i] = got[i]
      BY <1>1, <1>4, <2>2
    <3>2. Len(got) - i < NUM_RECENT_PACKETS - 1
      BY <1>1, <1>5, <3>1
    <3>3. PICK j \in DOMAIN q : q[j] = got[i] /\ Len(q) - j <= Len(got) - i
      BY <1>1, <1>5, <3>1, <3>2 DEF Windowed
    <3>4. /\ j - gap \in 1..Len(o) /\ j - gap \in DOMAIN s
          /\ (j - gap) + gap = j
          /\ Len(s) - (j - gap) <= Len(r) - i
      <4>1. j \in 1..Len(q) /\ Len(q) - j < NUM_RECENT_PACKETS - 1
        BY <1>1, <1>4, <3>1, <3>2, <3>3
      <4>2. /\ Len(q) = Len(o) + gap /\ Len(s) = Len(o) + 1 /\ Len(r) = Len(got) + 1
            /\ Len(o) \in Nat /\ NUM_RECENT_PACKETS \in Nat /\ Len(got) \in Nat
            /\ gap = 0 \/ (gap = 1 /\ Len(q) = NUM_RECENT_PACKETS)
        BY <1>1, <1>2, <1>3
      <4> HIDE DEF gap
      <4>3. j - gap \in 1..Len(o)
        BY ONLY <4>1, <4>2
      <4>4. j - gap \in DOMAIN s
        BY <1>4, <4>2, <4>3
      <4>5. (j - gap) + gap = j /\ Len(s) - (j - gap) <= Len(r) - i
        <5>1. i \in Int /\ Len(q) - j <= Len(got) - i
          BY <3>1, <3>3
        <5> QED  BY ONLY <4>1, <4>2, <5>1
      <4> QED  BY <4>3, <4>4, <4>5
    <3>5. s[j - gap] = r[i]
      <4>1. s[j - gap] = o[j - gap] /\ o[j - gap] = q[(j - gap) + gap]
        BY <1>2, <1>3, <3>4
      <4> QED  BY <3>1, <3>3, <3>4, <4>1
    <3> QED  BY <3>4, <3>5
  <2> QED  BY <2>1, <2>2
<1>6. ASSUME NEW i \in DOMAIN r, NEW k \in DOMAIN r,
             i < k, r[i] = r[k], r[i][1] # me
      PROVE  k - i > NUM_RECENT_PACKETS
  <2>1. i \in 1..Len(got) /\ i \in DOMAIN got /\ r[i] = got[i]
    BY <1>1, <1>4, <1>6
  <2>2. CASE k = Len(got) + 1
    <3>1. got[i] = id
      BY <1>1, <1>6, <2>1, <2>2
    <3>2. ~ (Len(got) - i < NUM_RECENT_PACKETS)
      <4> SUFFICES ASSUME Len(got) - i < NUM_RECENT_PACKETS PROVE FALSE
        OBVIOUS
      <4>1. \E j \in DOMAIN q : q[j] = got[i]
        BY <1>6, <2>1 DEF Windowed
      <4> QED  BY <3>1, <4>1
    <3> QED  BY <1>1, <2>1, <2>2, <3>2
  <2>3. CASE k # Len(got) + 1
    <3>1. k \in DOMAIN got /\ r[k] = got[k]
      BY <1>1, <1>4, <2>3
    <3> QED  BY <1>6, <2>1, <3>1 DEF Windowed
  <2> QED  BY <2>2, <2>3
<1>7. Len(s) <= NUM_RECENT_PACKETS
  BY <1>1, <1>2, <1>3
<1> QED  BY <1>5, <1>6, <1>7 DEF Windowed, Remembered, r, s, o

LEMMA HandledWindow ==
  ASSUME NEW me, NEW c, NEW d, Handled(c, d), Window(me, c)
  PROVE  Window(me, d)
BY DEF Handled, Kept, Window

\* The application gets the packet, and the filter remembers it.
LEMMA DeliverWindow ==
  ASSUME NEW I, NEW P, NEW c \in SoundConn(I, P), NEW data \in SoundFrame(I), NEW room,
         NEW me, Window(me, c), ~ Seen(c, data.packet)
  PROVE  Window(me, Deliver(c, data, room))
<1> DEFINE p   == data.packet
           q   == Remembered(c.recent_packets, p.id)
           a   == add_packet_to_recent_packets(c, p)
           s   == send_ack(a, data, {})
           b   == IF room THEN s ELSE a
           got == Append(b.received, p.id)
           d   == IF p.probe THEN b ELSE [b EXCEPT !.received = got]
<1>1. Deliver(c, data, room) = d
  BY DEF Deliver
<1>2. p \in SoundPacket(I)
  BY FrameFields
<1>3. /\ a \in SoundConn(I, P)
      /\ a.received = c.received /\ a.rtmetric = c.rtmetric
      /\ a.recent_packets = IF p.probe THEN c.recent_packets ELSE q
  <2> HIDE DEF p
  <2>1. Answers(I, P, c, a) /\ a.received = c.received /\ a.rtmetric = c.rtmetric
    BY <1>2, RememberSound
  <2>2. a.recent_packets = IF p.probe THEN c.recent_packets ELSE q
    BY FieldTypes DEF SoundFields, add_packet_to_recent_packets, Remembered
  <2> QED  BY <2>1, <2>2 DEF Answers
<1> HIDE DEF a, p, q
<1>4. /\ s \in SoundConn(I, P)
      /\ s.received = c.received /\ s.rtmetric = c.rtmetric
      /\ s.recent_packets = a.recent_packets
  <2>1. {} \in SUBSET AckFlags
    OBVIOUS
  <2> QED  BY <1>3, <2>1, AckSound DEF Answers
<1> HIDE DEF s
<1>5. /\ b \in SoundConn(I, P)
      /\ b.received = c.received /\ b.rtmetric = c.rtmetric
      /\ b.recent_packets = a.recent_packets
  BY <1>3, <1>4
<1> HIDE DEF b
<1>6. CASE p.probe
  <2>1. d = b
    BY <1>6
  <2> QED  BY <1>1, <1>3, <1>5, <1>6, <2>1 DEF Window
<1>7. CASE ~ p.probe
  <2>1. /\ d.received = got /\ d.rtmetric = b.rtmetric
        /\ d.recent_packets = b.recent_packets
    <3> HIDE DEF got
    <3>1. d = [b EXCEPT !.received = got]
      BY <1>7
    <3>2. b \in SoundFields(I, P)
      BY <1>5, FieldTypes, Zenon
    <3> QED  BY <3>1, <3>2 DEF SoundFields
  <2> HIDE DEF d
  <2>2. /\ p.id \in I /\ c.received \in Seq(I) /\ c.recent_packets \in Seq(I)
    BY <1>2, <1>7, FieldTypes DEF SoundPacket
  <2>3. \A j \in DOMAIN c.recent_packets : c.recent_packets[j] # p.id
    BY DEF Seen, p
  <2>4. Windowed(me, c.received, c.recent_packets)
    BY DEF Window
  <2>5. Windowed(me, Append(c.received, p.id), q)
    BY <2>2, <2>3, <2>4, Delivered DEF q
  <2> QED  BY <1>1, <1>3, <1>5, <1>7, <2>1, <2>5 DEF Window
<1> QED  BY <1>6, <1>7

\* A sink looks at the frame that came, and delivers what the filter lets by.
LEMMA PacketReceivedWindow ==
  ASSUME NEW I, NEW P, NEW c \in SoundConn(I, P), NEW frame \in SoundFrame(I), NEW room,
         NEW me, Window(me, c)
  PROVE  Window(me, node_packet_received(c, frame, room))
<1> DEFINE h == Hearing(c, frame)
           b == IF h.mac = c.mac THEN frame ELSE h.mac[Len(h.mac)]
           d == ReceiveFrame(h, b, frame.rtmetric, room)
<1>1. node_packet_received(c, frame, room) = d
  BY DEF node_packet_received, Hearing, ReceiveFrame
<1>2. Serves(I, P, c, h) /\ (c.rtmetric = RTMETRIC_SINK => h.mac = c.mac)
  BY HearingSound
<1> HIDE DEF h
<1>3. b = frame
  BY <1>2 DEF Window
<1>4. h \in SoundConn(I, P) /\ Handled(c, h)
  BY <1>2 DEF Serves
<1> HIDE DEF b
<1>5. Window(me, h)
  BY <1>4, HandledWindow
<1>6. CASE frame.type = "DATA" /\ Seen(h, frame.packet)
  <2> DEFINE flags == IF Len(h.send_queue) >= MAX_SENDING_QUEUE \div 2
                      THEN {"CONGESTED"} ELSE {}
  <2>1. d = send_ack(h, frame, flags)
    BY <1>3, <1>6 DEF ReceiveFrame, ReceiveData
  <2>2. flags \in SUBSET AckFlags
    BY DEF AckFlags
  <2> HIDE DEF flags, d
  <2>3. /\ d.recent_packets = h.recent_packets /\ d.received = h.received
        /\ d.rtmetric = h.rtmetric
    BY <1>4, <2>1, <2>2, AckSound
  <2> QED  BY <1>1, <1>5, <2>3 DEF Window
<1>7. CASE frame.type = "DATA" /\ ~ Seen(h, frame.packet)
  <2>1. d = Deliver(h, frame, room)
    BY <1>3, <1>5, <1>7 DEF ReceiveFrame, ReceiveData, Window
  <2>2. Window(me, Deliver(h, frame, room))
    BY <1>4, <1>5, <1>7, DeliverWindow
  <2> QED  BY <1>1, <2>1, <2>2
<1>8. CASE frame.type # "DATA"
  <2>1. d = handle_ack(h, frame)
    BY <1>3, <1>8 DEF ReceiveFrame
  <2>2. Handled(h, handle_ack(h, frame))
    BY <1>4, HandleAckSound DEF Serves
  <2>3. Window(me, handle_ack(h, frame))
    BY <1>5, <2>2, HandledWindow
  <2> QED  BY <1>1, <2>1, <2>3
<1> QED  BY <1>6, <1>7, <1>8

LEMMA SendWindow ==
  ASSUME NEW I, NEW P, NEW c \in SoundConn(I, P), <<c.addr, c.eseqno,
         c.sent + 1>> \in I,
         NEW rexmits, NEW room, Window(c.addr, c)
  PROVE  Window(c.addr, libp_send(c, rexmits, room))
<1> DEFINE id  == <<c.addr, c.eseqno, c.sent + 1>>
           d   == Counted(c)
           got == Append(d.received, id)
           e   == [d EXCEPT !.received = got]
<1>1. libp_send(c, rexmits, room) = e
  BY DEF libp_send, Counted, Window
<1>2. /\ d \in SoundConn(I, P) /\ d.rtmetric = c.rtmetric
      /\ d.recent_packets = c.recent_packets /\ d.received = c.received
  BY CountedSound
<1> HIDE DEF d
<1>3. /\ e.rtmetric = d.rtmetric /\ e.recent_packets = d.recent_packets
      /\ e.received = got
  <2> HIDE DEF got
  <2>1. d \in SoundFields(I, P)
    BY <1>2, FieldTypes, Zenon
  <2> QED  BY <2>1 DEF SoundFields
<1>4. c.received \in Seq(I) /\ c.recent_packets \in Seq(I)
  BY FieldTypes
<1>5. id[1] = c.addr
  OBVIOUS
<1>6. Windowed(c.addr, c.received, c.recent_packets)
  BY DEF Window
<1> HIDE DEF id, e
<1>7. Windowed(c.addr, Append(c.received, id), c.recent_packets)
  BY <1>4, <1>5, <1>6, OwnAppended DEF id
<1> QED  BY <1>1, <1>2, <1>3, <1>7 DEF Window
=============================================================================
