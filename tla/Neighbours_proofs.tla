-------------------------- MODULE Neighbours_proofs -------------------------
(***************************************************************************)
(* The arithmetic of the link metric, for every sample: the estimate is    *)
(* never better than one transmission nor worse than 255 of them, and no   *)
(* intermediate result needs more than the uint32_t the code computes in.  *)
(* And what every operation of libp-neighbour.c preserves of a table: its  *)
(* type, estimates of at least one transmission, and one entry at most for *)
(* an address.                                                             *)
(***************************************************************************)
EXTENDS Neighbours, TLAPS, FiniteSetTheorems

-----------------------------------------------------------------------------
(* A link metric.                                                          *)

\* A metric whose estimate, if there is one, is at least one transmission.
SaneMetric(lm) ==
  /\ lm \in LinkMetricRec
  /\ lm.num_estimates > 0 => lm.etx_accumulator >= LIBP_LINK_METRIC_UNIT

\* The weights of the average are 3 and 5 eighths, and it lies between the
\* least and the greatest of a sample and an estimate.
LEMMA AverageBounds ==
  ASSUME NEW tx \in 1..UINT8-1, NEW etx \in LIBP_LINK_METRIC_UNIT..MAX_ETX
  PROVE  Average(tx, etx) \in LIBP_LINK_METRIC_UNIT..MAX_ETX
  BY DEF Average, LIBP_LINK_METRIC_UNIT, LIBP_LINK_METRIC_ALPHA, MAX_ETX, UINT8

\* Before it is divided the sum fits 16 bits, so the multiplication by the
\* 16-bit accumulator cannot overflow whatever the width of int.
THEOREM AverageFits ==
  ASSUME NEW tx \in 1..UINT8-1, NEW etx \in 0..MAX_ETX
  PROVE  tx * LIBP_LINK_METRIC_UNIT * LIBP_LINK_METRIC_ALPHA
           + etx * (LIBP_LINK_METRIC_UNIT - LIBP_LINK_METRIC_ALPHA) < 65536
  BY DEF LIBP_LINK_METRIC_UNIT, LIBP_LINK_METRIC_ALPHA, MAX_ETX, UINT8

LEMMA ZeroMetricSane == SaneMetric(ZeroLinkMetric)
BY EstimatesAssumption
   DEF SaneMetric, ZeroLinkMetric, LinkMetricRec, MAX_ETX, LIBP_LINK_METRIC_UNIT

\* What the aged or recycled estimate was does not matter: it is kept.
LEMMA NewMetricSane ==
  ASSUME NEW lm, SaneMetric(lm)
  PROVE  SaneMetric(libp_link_metric_new(lm))
BY DEF SaneMetric, libp_link_metric_new, LinkMetricRec

\* A report of any number of transmissions leaves a sane metric.
LEMMA UpdateTxSane ==
  ASSUME NEW lm, SaneMetric(lm), NEW num_tx \in Nat
  PROVE  SaneMetric(libp_link_metric_update_tx(lm, num_tx))
<1> DEFINE tx   == num_tx % UINT8
           seed == FirstOr(lm, tx)
<1>1. tx \in 0..UINT8-1
  BY DEF UINT8
<1>2. CASE tx = 0
  BY <1>2 DEF libp_link_metric_update_tx, Sample
<1>3. CASE tx # 0
  <2>1. tx \in 1..UINT8-1
    BY <1>1, <1>3 DEF UINT8
  <2>2. seed \in LIBP_LINK_METRIC_UNIT..MAX_ETX
    BY <2>1 DEF FirstOr, SaneMetric, LinkMetricRec, LIBP_LINK_METRIC_UNIT,
                MAX_ETX, UINT8
  <2>3. Average(tx, seed) \in LIBP_LINK_METRIC_UNIT..MAX_ETX
    BY <2>1, <2>2, AverageBounds
  <2> DEFINE num == IF lm.num_estimates < MAX_ESTIMATES
                    THEN lm.num_estimates + 1 ELSE lm.num_estimates
             etx == Average(tx, seed)
  <2>4. Sample(lm, tx, seed) =
          [lm EXCEPT !.num_estimates = num, !.etx_accumulator = etx]
    BY <1>3 DEF Sample
  <2>5. num \in 0..MAX_ESTIMATES
    <3>1. lm.num_estimates \in 0..MAX_ESTIMATES
      BY DEF SaneMetric, LinkMetricRec
    <3>2. PICK k \in 0..MAX_ESTIMATES : k = lm.num_estimates
      BY ONLY <3>1
    <3>3. (IF k < MAX_ESTIMATES THEN k + 1 ELSE k) \in 0..MAX_ESTIMATES
      BY ONLY EstimatesAssumption, <3>2
    <3> QED  BY ONLY <3>2, <3>3, Zenon DEF num
  <2>6. etx \in 0..MAX_ETX /\ etx >= LIBP_LINK_METRIC_UNIT
    <3>1. PICK x \in LIBP_LINK_METRIC_UNIT..MAX_ETX : x = Average(tx, seed)
      BY ONLY <2>3
    <3>2. x \in 0..MAX_ETX /\ x >= LIBP_LINK_METRIC_UNIT
      BY DEF LIBP_LINK_METRIC_UNIT, MAX_ETX
    <3> QED  BY ONLY <3>1, <3>2, Zenon DEF etx
  <2> HIDE DEF tx, seed, num, etx
  <2>7. SaneMetric([lm EXCEPT !.num_estimates = num, !.etx_accumulator = etx])
    BY <2>5, <2>6 DEF SaneMetric, LinkMetricRec
  <2> QED  BY <2>4, <2>7 DEF libp_link_metric_update_tx, tx, seed
<1> QED  BY <1>2, <1>3

LEMMA UpdateTxFailSane ==
  ASSUME NEW lm, SaneMetric(lm), NEW num_tx \in Nat
  PROVE  SaneMetric(libp_link_metric_update_tx_fail(lm, num_tx))
<1>1. (num_tx % UINT8) * 2 \in Nat
  BY DEF UINT8
<1> QED  BY <1>1, UpdateTxSane DEF libp_link_metric_update_tx_fail

\* What callers get from a sane metric.
LEMMA MetricBounds ==
  ASSUME NEW lm, SaneMetric(lm)
  PROVE  libp_link_metric(lm) \in LIBP_LINK_METRIC_UNIT..MAX_ETX
BY DEF libp_link_metric, SaneMetric, LinkMetricRec, INITIAL_LINK_METRIC,
       LIBP_LINK_METRIC_UNIT, MAX_ETX

-----------------------------------------------------------------------------
(* A table of neighbours.                                                  *)

SaneEntry(e) == e \in Entry /\ SaneMetric(e.lm)

Unique(t) == \A s, u \in Listed(t) : t[s].addr = t[u].addr => s = u

Sane(t) ==
  /\ t \in Table
  /\ \A s \in Slot : SaneEntry(t[s])
  /\ \A s \in Listed(t) : t[s].addr \in Node

\* The places of the listed entries are positions of a list.
Ordered(t) ==
  \A s \in Listed(t) :
    /\ t[s].place <= Cardinality(Listed(t))
    /\ \A u \in Listed(t) : t[s].place = t[u].place => s = u

GoodTable(t) == Sane(t) /\ Unique(t) /\ Ordered(t)

\* A table is sane when all of its entries are.
LEMMA SaneTable ==
  ASSUME NEW t, t = [s \in Slot |-> t[s]], \A s \in Slot : SaneEntry(t[s]),
         \A s \in Listed(t) : t[s].addr \in Node
  PROVE  Sane(t)
BY DEF Sane, SaneEntry, Table

LEMMA SlotFinite ==
  IsFiniteSet(Slot) /\ Cardinality(Slot) = MAX_LIBP_NEIGHBOURS
<1>1. 1 \in Int /\ MAX_LIBP_NEIGHBOURS \in Int /\ ~ (1 > MAX_LIBP_NEIGHBOURS)
  BY NeighboursAssumption
<1>2. /\ IsFiniteSet(1..MAX_LIBP_NEIGHBOURS)
      /\ Cardinality(1..MAX_LIBP_NEIGHBOURS) = MAX_LIBP_NEIGHBOURS - 1 + 1
  BY ONLY <1>1, FS_Interval
<1>3. MAX_LIBP_NEIGHBOURS - 1 + 1 = MAX_LIBP_NEIGHBOURS
  BY <1>1
<1> QED  BY <1>2, <1>3 DEF Slot

\* The place of an entry is counted in entries of the table.
LEMMA PlaceType ==
  ASSUME NEW S, S \subseteq Slot
  PROVE  Cardinality(S) \in 0..MAX_LIBP_NEIGHBOURS
<1>1. IsFiniteSet(Slot) /\ Cardinality(Slot) = MAX_LIBP_NEIGHBOURS
  BY SlotFinite
<1>2. IsFiniteSet(S) /\ Cardinality(S) <= MAX_LIBP_NEIGHBOURS
  BY <1>1, FS_Subset
<1>3. Cardinality(S) \in Nat
  BY <1>2, FS_CardinalityType
<1> QED  BY <1>1, <1>2, <1>3

\* The entry that takes a free block is put behind all that are listed.
LEMMA NewPlaceType ==
  ASSUME NEW t, NEW s \in Slot, s \notin Listed(t)
  PROVE  Cardinality(Listed(t)) + 1 \in 1..MAX_LIBP_NEIGHBOURS
<1>1. Listed(t) \subseteq Slot
  BY DEF Listed
<1>2. IsFiniteSet(Slot) /\ Cardinality(Slot) = MAX_LIBP_NEIGHBOURS
  BY SlotFinite
<1>3. Cardinality(Slot) # Cardinality(Listed(t))
  BY <1>1, <1>2, FS_Subset
<1> QED  BY <1>1, <1>2, <1>3, PlaceType

LEMMA FreedSane ==
  ASSUME NEW e, SaneMetric(e.lm)
  PROVE  SaneEntry(Freed(e)) /\ Freed(e).place = 0
<1>1. e.lm \in LinkMetricRec /\ 0 \in 0..MAX_LIBP_NEIGHBOURS /\ 0 \in 0..UINT16-1
  BY NeighboursAssumption DEF SaneMetric, UINT16
<1>2. Freed(e) \in Entry
  BY <1>1 DEF Freed, Entry
<1> QED  BY <1>2 DEF SaneEntry, Freed

LEMMA NewTableGood == GoodTable(NewTable)
<1> DEFINE zero == [lm |-> ZeroLinkMetric]
<1>1. SaneMetric(zero.lm)
  BY ZeroMetricSane
<1>2. SaneEntry(Freed(zero)) /\ Freed(zero).place = 0
  BY <1>1, FreedSane
<1>3. \A s \in Slot : NewTable[s] = Freed(zero)
  BY DEF NewTable
<1>4. Listed(NewTable) = {}
  BY <1>2, <1>3 DEF Listed
<1>5. Sane(NewTable)
  <2>1. NewTable = [s \in Slot |-> NewTable[s]]
    BY DEF NewTable
  <2> QED  BY <1>2, <1>3, <1>4, <2>1, SaneTable
<1> QED  BY <1>4, <1>5 DEF GoodTable, Unique, Ordered

-----------------------------------------------------------------------------
(* Entries that leave.                                                     *)

LEMMA RemoveEntries ==
  ASSUME NEW t, Sane(t), NEW gone
  PROVE  /\ Sane(Remove(t, gone))
         /\ Listed(Remove(t, gone)) = Listed(t) \ gone
         /\ \A s \in Listed(t) \ gone :
              /\ Remove(t, gone)[s].addr = t[s].addr
              /\ Remove(t, gone)[s].age = t[s].age
              /\ Remove(t, gone)[s].place =
                   Cardinality({u \in Listed(t) \ gone : t[u].place <= t[s].place})
<1> DEFINE r     == Remove(t, gone)
           up(s) == {u \in Listed(t) \ gone : t[u].place <= t[s].place}
<1>1. \A s \in Slot : /\ t[s] \in Entry
                      /\ SaneMetric(t[s].lm)
  BY DEF Sane, SaneEntry, Table
<1>2. ASSUME NEW s \in Slot, s \in gone
      PROVE  SaneEntry(r[s]) /\ r[s].place = 0
  BY <1>1, <1>2, FreedSane DEF Remove
<1>3. ASSUME NEW s \in Slot, s \notin gone
      PROVE  /\ SaneEntry(r[s])
             /\ r[s].place = 0 <=> t[s].place = 0
             /\ r[s].addr = t[s].addr /\ r[s].age = t[s].age
             /\ r[s].place = Cardinality(up(s))
  <2>1. r[s] = [t[s] EXCEPT !.place = Cardinality(up(s))]
    BY <1>3 DEF Remove
  <2>2. up(s) \subseteq Slot
    BY DEF Listed
  <2>3. Cardinality(up(s)) \in 0..MAX_LIBP_NEIGHBOURS
    BY <2>2, PlaceType
  <2>4. Cardinality(up(s)) = 0 <=> up(s) = {}
    <3>1. IsFiniteSet(up(s))
      BY <2>2, SlotFinite, FS_Subset
    <3> QED  BY <3>1, FS_EmptySet
  <2>5. up(s) = {} <=> t[s].place = 0
    <3>1. \A u \in Slot : t[u].place \in Nat
      BY <1>1 DEF Entry
    <3>2. t[s].place = 0 => up(s) = {}
      BY <3>1 DEF Listed
    <3>3. t[s].place # 0 => s \in up(s)
      BY <1>3, <3>1 DEF Listed
    <3> QED  BY <3>2, <3>3
  <2> HIDE DEF r, up
  <2>6. /\ r[s].place = Cardinality(up(s)) /\ r[s].addr = t[s].addr
         /\ r[s].lm = t[s].lm /\ r[s].age = t[s].age
    BY <1>1, <2>1 DEF Entry
  <2>7. r[s] \in Entry
    BY <1>1, <2>1, <2>3 DEF Entry
  <2> QED  BY <1>1, <2>4, <2>5, <2>6, <2>7 DEF SaneEntry
<1>4. Listed(r) = Listed(t) \ gone
  BY <1>2, <1>3 DEF Listed
<1>5. \A s \in Listed(t) \ gone : /\ r[s].addr = t[s].addr /\ r[s].age = t[s].age
                                  /\ r[s].place = Cardinality(up(s))
  BY <1>3 DEF Listed
<1>6. r = [s \in Slot |-> r[s]]
  BY DEF Remove
<1>7. Sane(r)
  <2> HIDE DEF r
  <2>1. \A s \in Listed(r) : r[s].addr \in Node
    BY <1>4, <1>5 DEF Sane
  <2> QED  BY <1>2, <1>3, <1>6, <2>1, SaneTable
<1> QED  BY <1>4, <1>5, <1>7

LEMMA RemoveKept ==
  ASSUME NEW t, Sane(t), NEW gone, NEW s \in Listed(t) \ gone
  PROVE  /\ Remove(t, gone)[s].addr = t[s].addr
         /\ Remove(t, gone)[s].age = t[s].age
<1>1. s \in Slot /\ t[s] \in Entry
  BY DEF Sane, Table, Listed
<1> QED  BY <1>1 DEF Remove, Entry

LEMMA RemoveGood ==
  ASSUME NEW t, GoodTable(t), NEW gone
  PROVE  GoodTable(Remove(t, gone))
<1> DEFINE r     == Remove(t, gone)
           kept  == Listed(t) \ gone
           up(s) == {u \in kept : t[u].place <= t[s].place}
<1>1. /\ Sane(r) /\ Listed(r) = kept
      /\ \A s \in kept : r[s].addr = t[s].addr /\ r[s].place = Cardinality(up(s))
  <2>1. Sane(t)
    BY DEF GoodTable
  <2>2. Sane(r) /\ Listed(r) = kept
    BY <2>1, RemoveEntries
  <2>3. ASSUME NEW s \in kept
        PROVE  r[s].addr = t[s].addr /\ r[s].place = Cardinality(up(s))
    BY <2>1, RemoveEntries
  <2> QED  BY <2>2, <2>3
<1>2. \A s \in kept : s \in Listed(t) /\ t[s].place \in Nat
  BY DEF GoodTable, Sane, Table, Entry, Listed
<1>3. IsFiniteSet(kept)
  BY SlotFinite, FS_Subset DEF Listed
<1> HIDE DEF r, kept
<1>4. ASSUME NEW s \in kept
      PROVE  IsFiniteSet(up(s)) /\ Cardinality(up(s)) <= Cardinality(kept)
  BY <1>3, FS_Subset
<1>5. ASSUME NEW s \in kept, NEW u \in kept, t[s].place < t[u].place
      PROVE  Cardinality(up(s)) # Cardinality(up(u))
  <2>1. up(s) \subseteq up(u) /\ u \in up(u) /\ u \notin up(s)
    BY <1>2, <1>5
  <2> HIDE DEF up
  <2> QED  BY <1>4, <2>1, FS_Subset
<1>6. ASSUME NEW s \in kept, NEW u \in kept,
             Cardinality(up(s)) = Cardinality(up(u))
      PROVE  s = u
  <2>1. ~ (t[s].place < t[u].place) /\ ~ (t[u].place < t[s].place)
    BY <1>5, <1>6
  <2>2. t[s].place = t[u].place
    BY <1>2, <2>1
  <2> QED  BY <1>2, <2>2 DEF GoodTable, Ordered
<1> HIDE DEF up
<1>7. Ordered(r)
  BY <1>1, <1>4, <1>6 DEF Ordered
<1>8. Unique(r)
  BY <1>1, <1>2 DEF GoodTable, Unique
<1> QED  BY <1>1, <1>7, <1>8 DEF GoodTable, r

LEMMA PurgeGood ==
  ASSUME NEW t, GoodTable(t)
  PROVE  /\ GoodTable(libp_neighbour_list_purge(t))
         /\ Listed(libp_neighbour_list_purge(t)) = {}
<1> DEFINE r == libp_neighbour_list_purge(t)
<1>1. \A s \in Slot : SaneEntry(r[s]) /\ r[s].place = 0
  BY FreedSane DEF libp_neighbour_list_purge, GoodTable, Sane, SaneEntry
<1>2. Listed(r) = {}
  BY <1>1 DEF Listed
<1>3. r = [s \in Slot |-> r[s]]
  BY DEF libp_neighbour_list_purge
<1> HIDE DEF r
<1>4. Sane(r)
  BY <1>1, <1>2, <1>3, SaneTable
<1> QED  BY <1>2, <1>4 DEF GoodTable, Unique, Ordered, r

-----------------------------------------------------------------------------
(* Entries that stay, and what is recorded about them.                     *)

\* An operation that moves no entry and renames none.
LEMMA InPlaceGood ==
  ASSUME NEW t, GoodTable(t), NEW r, r = [s \in Slot |-> r[s]],
         \A s \in Slot : /\ SaneEntry(r[s])
                         /\ r[s].place = t[s].place
                         /\ r[s].addr = t[s].addr
  PROVE  GoodTable(r) /\ Listed(r) = Listed(t)
<1>1. Listed(r) = Listed(t)
  BY DEF Listed
<1>2. \A s \in Listed(r) : r[s].addr \in Node
  BY <1>1 DEF GoodTable, Sane, Listed
<1>3. Sane(r)
  BY <1>2, SaneTable
<1>4. Unique(r)
  BY <1>1 DEF GoodTable, Unique, Listed
<1>5. Ordered(r)
  <2>1. \A s \in Listed(t) : r[s].place = t[s].place
    BY DEF Listed
  <2> QED  BY <1>1, <2>1 DEF GoodTable, Ordered
<1> QED  BY <1>1, <1>3, <1>4, <1>5 DEF GoodTable

LEMMA ZeroAge == 0 \in 0..UINT16-1
BY DEF UINT16

LEMMA EntryUsed ==
  ASSUME NEW e, SaneEntry(e)
  PROVE  SaneEntry([e EXCEPT !.age = 0])
BY ZeroAge DEF SaneEntry, Entry

LEMMA EntryRtmetric ==
  ASSUME NEW e, SaneEntry(e), NEW m \in 0..UINT16-1
  PROVE  SaneEntry([e EXCEPT !.rtmetric = m, !.age = 0])
BY ZeroAge DEF SaneEntry, Entry

LEMMA Wrapped ==
  ASSUME NEW n \in Nat
  PROVE  n % UINT16 \in 0..UINT16-1
<1>1. PICK k \in Nat \ {0} : k = UINT16
  BY DEF UINT16
<1>2. n % k \in 0..k-1
  OBVIOUS
<1> QED  BY ONLY <1>1, <1>2, Zenon

LEMMA EntryOlder ==
  ASSUME NEW e, SaneEntry(e)
  PROVE  SaneEntry([e EXCEPT !.age    = (@ + 1) % UINT16,
                             !.lm_age = (@ + 1) % UINT16])
<1>1. e.age \in Nat /\ e.lm_age \in Nat
  BY DEF SaneEntry, Entry
<1> DEFINE x == (e.age + 1) % UINT16
           y == (e.lm_age + 1) % UINT16
<1>2. x \in 0..UINT16-1 /\ y \in 0..UINT16-1
  <2>1. e.age + 1 \in Nat /\ e.lm_age + 1 \in Nat
    BY <1>1
  <2> QED  BY <2>1, Wrapped
<1> HIDE DEF x, y
<1>3. SaneEntry([e EXCEPT !.age = x, !.lm_age = y])
  BY <1>2 DEF SaneEntry, Entry
<1> QED  BY <1>3 DEF x, y

LEMMA EntryRenewed ==
  ASSUME NEW e, SaneEntry(e), NEW lm, SaneMetric(lm)
  PROVE  SaneEntry([e EXCEPT !.lm = lm, !.lm_age = 0])
<1>1. lm \in LinkMetricRec
  BY DEF SaneMetric
<1>2. [e EXCEPT !.lm = lm, !.lm_age = 0] \in Entry
  BY <1>1, ZeroAge DEF SaneEntry, Entry
<1>3. [e EXCEPT !.lm = lm, !.lm_age = 0].lm = lm
  BY DEF SaneEntry, Entry
<1> QED  BY <1>2, <1>3 DEF SaneEntry

LEMMA EntryMeasured ==
  ASSUME NEW e, SaneEntry(e), NEW lm, SaneMetric(lm)
  PROVE  SaneEntry([e EXCEPT !.lm = lm, !.lm_age = 0, !.age = 0])
<1>1. lm \in LinkMetricRec
  BY DEF SaneMetric
<1>2. [e EXCEPT !.lm = lm, !.lm_age = 0, !.age = 0] \in Entry
  BY <1>1, ZeroAge DEF SaneEntry, Entry
<1>3. [e EXCEPT !.lm = lm, !.lm_age = 0, !.age = 0].lm = lm
  BY DEF SaneEntry, Entry
<1> QED  BY <1>2, <1>3 DEF SaneEntry

LEMMA UpdateRtmetricGood ==
  ASSUME NEW t, GoodTable(t), NEW n, NEW rtmetric \in 0..UINT16-1
  PROVE  GoodTable(libp_neighbour_update_rtmetric(t, n, rtmetric))
<1> DEFINE r == libp_neighbour_update_rtmetric(t, n, rtmetric)
<1>1. \A s \in Slot : SaneEntry(t[s]) /\ t[s] \in Entry
  BY DEF GoodTable, Sane, SaneEntry
<1>2. ASSUME NEW s \in Slot
      PROVE  SaneEntry(r[s]) /\ r[s].place = t[s].place /\ r[s].addr = t[s].addr
  <2>1. CASE s \in n
    <3>1. r[s] = [t[s] EXCEPT !.rtmetric = rtmetric, !.age = 0]
      BY <2>1 DEF libp_neighbour_update_rtmetric
    <3>2. SaneEntry([t[s] EXCEPT !.rtmetric = rtmetric, !.age = 0])
      BY <1>1, EntryRtmetric
    <3> QED  BY <1>1, <3>1, <3>2 DEF Entry
  <2>2. CASE s \notin n
    BY <1>1, <2>2 DEF libp_neighbour_update_rtmetric
  <2> QED  BY <2>1, <2>2
<1>3. r = [s \in Slot |-> r[s]]
  BY DEF libp_neighbour_update_rtmetric
<1> QED  BY <1>2, <1>3, InPlaceGood

LEMMA RxGood ==
  ASSUME NEW t, GoodTable(t), NEW n
  PROVE  GoodTable(libp_neighbour_rx(t, n))
<1> DEFINE r == libp_neighbour_rx(t, n)
<1>1. \A s \in Slot : SaneEntry(t[s]) /\ t[s] \in Entry
  BY DEF GoodTable, Sane, SaneEntry
<1>2. ASSUME NEW s \in Slot
      PROVE  SaneEntry(r[s]) /\ r[s].place = t[s].place /\ r[s].addr = t[s].addr
  <2>1. CASE s \in n
    <3>1. r[s] = [t[s] EXCEPT !.age = 0]
      BY <2>1 DEF libp_neighbour_rx
    <3>2. SaneEntry([t[s] EXCEPT !.age = 0])
      BY <1>1, EntryUsed
    <3> QED  BY <1>1, <3>1, <3>2 DEF Entry
  <2>2. CASE s \notin n
    BY <1>1, <2>2 DEF libp_neighbour_rx
  <2> QED  BY <2>1, <2>2
<1>3. r = [s \in Slot |-> r[s]]
  BY DEF libp_neighbour_rx
<1> QED  BY <1>2, <1>3, InPlaceGood

LEMMA TxGood ==
  ASSUME NEW t, GoodTable(t), NEW n, NEW num_tx \in Nat
  PROVE  GoodTable(libp_neighbour_tx(t, n, num_tx))
<1> DEFINE r     == libp_neighbour_tx(t, n, num_tx)
           lm(s) == libp_link_metric_update_tx(t[s].lm, num_tx)
<1>1. \A s \in Slot : SaneEntry(t[s]) /\ t[s] \in Entry /\ SaneMetric(t[s].lm)
  BY DEF GoodTable, Sane, SaneEntry
<1>2. ASSUME NEW s \in Slot
      PROVE  SaneEntry(r[s]) /\ r[s].place = t[s].place /\ r[s].addr = t[s].addr
  <2>1. CASE s \in n
    <3>1. r[s] = [t[s] EXCEPT !.lm = lm(s), !.lm_age = 0, !.age = 0]
      BY <2>1 DEF libp_neighbour_tx
    <3>2. SaneMetric(lm(s))
      BY <1>1, UpdateTxSane
    <3> HIDE DEF lm, r
    <3>3. SaneEntry([t[s] EXCEPT !.lm = lm(s), !.lm_age = 0, !.age = 0])
      BY <1>1, <3>2, EntryMeasured
    <3> QED  BY <1>1, <3>1, <3>3 DEF Entry
  <2>2. CASE s \notin n
    BY <1>1, <2>2 DEF libp_neighbour_tx
  <2> QED  BY <2>1, <2>2
<1>3. r = [s \in Slot |-> r[s]]
  BY DEF libp_neighbour_tx
<1> QED  BY <1>2, <1>3, InPlaceGood

LEMMA TxFailGood ==
  ASSUME NEW t, GoodTable(t), NEW n, NEW num_tx \in Nat
  PROVE  GoodTable(libp_neighbour_tx_fail(t, n, num_tx))
<1> DEFINE r     == libp_neighbour_tx_fail(t, n, num_tx)
           lm(s) == libp_link_metric_update_tx_fail(t[s].lm, num_tx)
<1>1. \A s \in Slot : SaneEntry(t[s]) /\ t[s] \in Entry /\ SaneMetric(t[s].lm)
  BY DEF GoodTable, Sane, SaneEntry
<1>2. ASSUME NEW s \in Slot
      PROVE  SaneEntry(r[s]) /\ r[s].place = t[s].place /\ r[s].addr = t[s].addr
  <2>1. CASE s \in n
    <3>1. r[s] = [t[s] EXCEPT !.lm = lm(s), !.lm_age = 0, !.age = 0]
      BY <2>1 DEF libp_neighbour_tx_fail
    <3>2. SaneMetric(lm(s))
      BY <1>1, UpdateTxFailSane
    <3> HIDE DEF lm, r
    <3>3. SaneEntry([t[s] EXCEPT !.lm = lm(s), !.lm_age = 0, !.age = 0])
      BY <1>1, <3>2, EntryMeasured
    <3> QED  BY <1>1, <3>1, <3>3 DEF Entry
  <2>2. CASE s \notin n
    BY <1>1, <2>2 DEF libp_neighbour_tx_fail
  <2> QED  BY <2>1, <2>2
<1>3. r = [s \in Slot |-> r[s]]
  BY DEF libp_neighbour_tx_fail
<1> QED  BY <1>2, <1>3, InPlaceGood

-----------------------------------------------------------------------------
(* The minute tick.                                                        *)

LEMMA OlderGood ==
  ASSUME NEW t, GoodTable(t)
  PROVE  GoodTable(Older(t)) /\ Listed(Older(t)) = Listed(t)
<1> DEFINE r == Older(t)
<1>1. \A s \in Slot : SaneEntry(t[s]) /\ t[s] \in Entry
  BY DEF GoodTable, Sane, SaneEntry
<1>2. ASSUME NEW s \in Slot
      PROVE  SaneEntry(r[s]) /\ r[s].place = t[s].place /\ r[s].addr = t[s].addr
  <2>1. CASE s \in Listed(t)
    <3>1. r[s] = [t[s] EXCEPT !.age    = (@ + 1) % UINT16,
                              !.lm_age = (@ + 1) % UINT16]
      BY <2>1 DEF Older
    <3>2. SaneEntry([t[s] EXCEPT !.age    = (@ + 1) % UINT16,
                                 !.lm_age = (@ + 1) % UINT16])
      BY <1>1, EntryOlder
    <3> QED  BY <1>1, <3>1, <3>2 DEF Entry
  <2>2. CASE s \notin Listed(t)
    BY <1>1, <2>2 DEF Older
  <2> QED  BY <2>1, <2>2
<1>3. r = [s \in Slot |-> r[s]]
  BY DEF Older
<1> QED  BY <1>2, <1>3, InPlaceGood

LEMMA RenewMetricsGood ==
  ASSUME NEW t, GoodTable(t), NEW seen
  PROVE  /\ GoodTable(RenewMetrics(t, seen))
         /\ Listed(RenewMetrics(t, seen)) = Listed(t)
<1> DEFINE r     == RenewMetrics(t, seen)
           lm(s) == libp_link_metric_new(t[s].lm)
<1>1. \A s \in Slot : SaneEntry(t[s]) /\ t[s] \in Entry /\ SaneMetric(t[s].lm)
  BY DEF GoodTable, Sane, SaneEntry
<1>2. ASSUME NEW s \in Slot
      PROVE  SaneEntry(r[s]) /\ r[s].place = t[s].place /\ r[s].addr = t[s].addr
  <2>1. CASE s \in seen /\ t[s].lm_age = MAX_LM_AGE
    <3>1. r[s] = [t[s] EXCEPT !.lm = lm(s), !.lm_age = 0]
      BY <2>1 DEF RenewMetrics
    <3>2. SaneMetric(lm(s))
      BY <1>1, NewMetricSane
    <3> HIDE DEF lm, r
    <3>3. SaneEntry([t[s] EXCEPT !.lm = lm(s), !.lm_age = 0])
      BY <1>1, <3>2, EntryRenewed
    <3> QED  BY <1>1, <3>1, <3>3 DEF Entry
  <2>2. CASE ~ (s \in seen /\ t[s].lm_age = MAX_LM_AGE)
    BY <1>1, <2>2 DEF RenewMetrics
  <2> QED  BY <2>1, <2>2
<1>3. r = [s \in Slot |-> r[s]]
  BY DEF RenewMetrics
<1> QED  BY <1>2, <1>3, InPlaceGood

LEMMA PeriodicGood ==
  ASSUME NEW t, GoodTable(t)
  PROVE  GoodTable(periodic(t))
<1> DEFINE o    == Older(t)
           seen == Listed(o) \ Skipped(o)
           m    == RenewMetrics(o, seen)
           gone == Expired(o) \cap seen
<1>1. GoodTable(m)
  BY OlderGood, RenewMetricsGood
<1>2. periodic(t) = Remove(m, gone)
  BY DEF periodic
<1> HIDE DEF m, gone
<1> QED  BY <1>1, <1>2, RemoveGood

-----------------------------------------------------------------------------
(* Adding a neighbour.                                                     *)

\* At most one entry is written, and no other one has the address.
LEMMA SlotForSingle ==
  ASSUME NEW t, GoodTable(t), NEW addr, NEW nrtmetric,
         NEW s \in SlotFor(t, addr, nrtmetric)
  PROVE  /\ s \in Slot
         /\ \A u \in SlotFor(t, addr, nrtmetric) : u = s
         /\ \A u \in Listed(t) : t[u].addr = addr => u = s
<1> DEFINE n == libp_neighbour_list_find(t, addr)
<1>1. CASE n # {}
  <2>1. SlotFor(t, addr, nrtmetric) = n
    BY <1>1 DEF SlotFor
  <2> QED  BY <2>1 DEF libp_neighbour_list_find, GoodTable, Unique, Listed
<1>2. CASE n = {}
  <2>1. \A u \in Listed(t) : t[u].addr # addr
    BY <1>2 DEF libp_neighbour_list_find
  <2>2. CASE FirstFree(t) # {}
    <3>1. SlotFor(t, addr, nrtmetric) = FirstFree(t)
      BY <1>2, <2>2 DEF SlotFor
    <3>2. \A u, v \in FirstFree(t) : u = v
      <4>1. \A u \in Slot : u \in Int
        BY DEF Slot
      <4>2. \A u, v \in FirstFree(t) : u \in Slot /\ v \in Slot /\ u <= v /\ v <= u
        BY DEF FirstFree
      <4> QED  BY <4>1, <4>2
    <3>3. FirstFree(t) \subseteq Slot
      BY DEF FirstFree
    <3> QED  BY <2>1, <3>1, <3>2, <3>3
  <2>3. CASE FirstFree(t) = {}
    <3>1. SlotFor(t, addr, nrtmetric) \subseteq Worst(t)
      BY <1>2, <2>3 DEF SlotFor
    <3>2. Worst(t) \subseteq Slot
      BY DEF Worst, Listed
    <3>3. \A u, v \in Worst(t) : u = v
      <4>1. \A u \in Listed(t) : t[u].place \in Nat /\ t[u].rtmetric \in Nat
        BY DEF GoodTable, Sane, Table, Entry, Listed
      <4> QED  BY <4>1 DEF Worst, GoodTable, Ordered
    <3> QED  BY <2>1, <3>1, <3>2, <3>3
  <2> QED  BY <2>2, <2>3
<1> QED  BY <1>1, <1>2

LEMMA AddGood ==
  ASSUME NEW t, GoodTable(t), NEW addr \in Node, NEW nrtmetric \in 0..UINT16-1
  PROVE  GoodTable(libp_neighbour_list_add(t, addr, nrtmetric))
<1> DEFINE r == libp_neighbour_list_add(t, addr, nrtmetric)
           S == SlotFor(t, addr, nrtmetric)
<1>1. r = [u \in Slot |-> r[u]]
  BY DEF libp_neighbour_list_add
<1>2. /\ t \in [Slot -> Entry]
      /\ \A u \in Slot : SaneEntry(t[u]) /\ t[u] \in Entry /\ SaneMetric(t[u].lm)
      /\ \A u \in Listed(t) : t[u].addr \in Node
  BY DEF GoodTable, Sane, SaneEntry, Table
<1>3. ASSUME NEW u \in Slot, u \notin S PROVE r[u] = t[u]
  BY <1>3 DEF libp_neighbour_list_add
<1>4. CASE S = {}
  <2>1. r = t
    BY <1>1, <1>2, <1>3, <1>4
  <2> QED  BY <2>1
<1>5. ASSUME NEW s \in S PROVE GoodTable(r)
  <2> DEFINE place == IF t[s].place # 0 THEN t[s].place ELSE Cardinality(Listed(t)) + 1
             lm    == libp_link_metric_new(t[s].lm)
             new   == [place |-> place, addr |-> addr, rtmetric |-> nrtmetric,
                       age |-> 0, lm_age |-> 0, lm |-> lm]
  <2>1. /\ s \in Slot
        /\ \A u \in S : u = s
        /\ \A u \in Listed(t) : t[u].addr = addr => u = s
    BY SlotForSingle
  <2>2. r[s] = new
    BY <2>1 DEF libp_neighbour_list_add
  <2>3. /\ place \in 1..MAX_LIBP_NEIGHBOURS
        /\ s \in Listed(t) => place = t[s].place
        /\ s \notin Listed(t) => place = Cardinality(Listed(t)) + 1
    <3>1. t[s].place \in 0..MAX_LIBP_NEIGHBOURS
      BY <1>2, <2>1 DEF Entry
    <3>2. s \in Listed(t) <=> t[s].place # 0
      BY <2>1 DEF Listed
    <3>3. CASE s \in Listed(t)
      BY <3>1, <3>2, <3>3, NeighboursAssumption
    <3>4. CASE s \notin Listed(t)
      BY <2>1, <3>2, <3>4, NewPlaceType
    <3> QED  BY <3>3, <3>4
  <2>4. SaneMetric(lm)
    BY <1>2, <2>1, NewMetricSane
  <2> HIDE DEF place, lm, r
  <2>5. new \in Entry
    <3>1. lm \in LinkMetricRec
      BY <2>4 DEF SaneMetric
    <3>2. place \in 0..MAX_LIBP_NEIGHBOURS
      BY <2>3, NeighboursAssumption
    <3> QED  BY <3>1, <3>2, ZeroAge DEF Entry
  <2>6. SaneEntry(r[s]) /\ r[s].place = place /\ r[s].addr = addr
    BY <2>2, <2>4, <2>5 DEF SaneEntry
  <2>7. \A u \in Slot : u # s => r[u] = t[u]
    BY <1>3, <2>1
  <2>8. Listed(r) = Listed(t) \cup {s} /\ s \in Slot
    <3>1. r[s].place # 0
      BY <2>3, <2>6
    <3> QED  BY <2>1, <2>7, <3>1 DEF Listed
  <2>9. Sane(r)
    <3>1. \A u \in Slot : SaneEntry(r[u])
      BY <1>2, <2>6, <2>7
    <3>2. \A u \in Listed(r) : r[u].addr \in Node
      BY <1>2, <2>6, <2>7, <2>8 DEF Listed
    <3> QED  BY <1>1, <3>1, <3>2, SaneTable DEF r
  <2>10. Unique(r)
    <3>1. \A u \in Listed(r) : u # s => r[u].addr # addr /\ r[u].addr = t[u].addr
      BY <2>1, <2>7, <2>8 DEF Listed
    <3>2. \A u, v \in Listed(t) : t[u].addr = t[v].addr => u = v
      BY DEF GoodTable, Unique
    <3> QED  BY <2>6, <2>8, <3>1, <3>2 DEF Unique
  <2>11. Ordered(r)
    <3>1. \A u \in Listed(t) : u # s => r[u].place = t[u].place
      BY <2>7 DEF Listed
    <3>2. \A u \in Listed(t) : /\ t[u].place <= Cardinality(Listed(t))
                               /\ \A v \in Listed(t) : t[u].place = t[v].place => u = v
      BY DEF GoodTable, Ordered
    <3>3. CASE s \in Listed(t)
      <4>1. Listed(r) = Listed(t) /\ \A u \in Listed(t) : r[u].place = t[u].place
        BY <2>3, <2>6, <2>8, <3>1, <3>3
      <4> QED  BY <3>2, <4>1 DEF Ordered
    <3>4. CASE s \notin Listed(t)
      <4>1. Cardinality(Listed(r)) = Cardinality(Listed(t)) + 1
        <5>1. IsFiniteSet(Listed(t))
          BY SlotFinite, FS_Subset DEF Listed
        <5> QED  BY <2>8, <3>4, <5>1, FS_AddElement
      <4>2. r[s].place = Cardinality(Listed(t)) + 1
        BY <2>3, <2>6, <3>4
      <4>3. Cardinality(Listed(t)) \in Nat
        BY PlaceType DEF Listed
      <4>4. \A u \in Listed(t) : r[u].place = t[u].place /\ t[u].place \in Nat
        <5>1. \A u \in Listed(t) : t[u].place \in Nat
          BY <1>2 DEF Entry, Listed
        <5> QED  BY <3>1, <3>4, <5>1
      <4> QED  BY <2>8, <3>2, <3>4, <4>1, <4>2, <4>3, <4>4 DEF Ordered
    <3> QED  BY <3>3, <3>4
  <2> QED  BY <2>9, <2>10, <2>11 DEF GoodTable
<1> QED  BY <1>4, <1>5

-----------------------------------------------------------------------------
(* The cost of a route.                                                    *)

LEMMA NoWrap ==
  ASSUME NEW n \in Nat, n < UINT16
  PROVE  n % UINT16 = n
BY DEF UINT16

LEMMA SumBounds ==
  ASSUME NEW m \in Nat, m < UINT16 - MAX_ETX,
         NEW x \in LIBP_LINK_METRIC_UNIT..MAX_ETX
  PROVE  m + x \in Nat /\ m + x >= LIBP_LINK_METRIC_UNIT /\ m + x < UINT16
BY DEF LIBP_LINK_METRIC_UNIT, MAX_ETX, UINT16

\* Nothing wraps: the sum of a rank a neighbour can report and a link's cost.
LEMMA CostBounds ==
  ASSUME NEW e, SaneEntry(e), e.rtmetric < UINT16 - MAX_ETX
  PROVE  /\ libp_neighbour_rtmetric_link_metric(e)
              = e.rtmetric + libp_link_metric(e.lm)
         /\ libp_neighbour_rtmetric_link_metric(e) \in Nat
         /\ libp_neighbour_rtmetric_link_metric(e) >= LIBP_LINK_METRIC_UNIT
         /\ libp_neighbour_rtmetric_link_metric(e) < UINT16
<1> DEFINE cost == e.rtmetric + libp_link_metric(e.lm)
<1>1. e.rtmetric \in Nat
  BY DEF SaneEntry, Entry
<1>2. libp_link_metric(e.lm) \in LIBP_LINK_METRIC_UNIT..MAX_ETX
  BY MetricBounds DEF SaneEntry
<1>3. cost \in Nat /\ cost >= LIBP_LINK_METRIC_UNIT /\ cost < UINT16
  BY <1>1, <1>2, SumBounds
<1> HIDE DEF cost
<1>4. libp_neighbour_rtmetric_link_metric(e) = cost
  BY <1>3, NoWrap DEF libp_neighbour_rtmetric_link_metric, cost
<1> QED  BY <1>3, <1>4 DEF cost
=============================================================================
