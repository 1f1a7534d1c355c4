----------------------- MODULE NeighbourTable_proofs ------------------------
(***************************************************************************)
(* The neighbour table keeps its promises for any number of addresses,     *)
(* blocks and ticks.  The invariant that carries the proofs adds two facts *)
(* to the properties: the places of the entries are positions of a list    *)
(* (two "worst" entries would both be recycled for one newcomer), and an   *)
(* entry's age is the number of ticks since its address was last used.     *)
(***************************************************************************)
EXTENDS NeighbourTable, Neighbours_proofs, WellFoundedInduction

\* The ranks in the table are ranks that neighbours report.
LowRanks(t) == \A s \in Slot : t[s].rtmetric < UINT16 - MAX_ETX

QuietIsAge(t, q) ==
  /\ \A s \in Listed(t) : q[t[s].addr] = t[s].age
  /\ \A a \in Node \ Known(t) : q[a] = 0

IInv ==
  /\ TypeOK
  /\ GoodTable(table)
  /\ LowRanks(table)
  /\ QuietIsAge(table, quiet)

\* The table r that an operation on addr makes of t: the entry of addr is as
\* new, the others are as they were.
Follows(t, r, addr) ==
  /\ GoodTable(r)
  /\ LowRanks(r)
  /\ \A s \in Listed(r) :
       IF r[s].addr = addr THEN r[s].age = 0
       ELSE s \in Listed(t) /\ r[s].addr = t[s].addr /\ r[s].age = t[s].age

LEMMA UINT16Nat == UINT16 \in Nat /\ 0 \in 0..UINT16-1
BY DEF UINT16

LEMMA RankIsLow ==
  ASSUME NEW m \in Rtmetrics
  PROVE  m \in 0..UINT16-1 /\ m < UINT16 - MAX_ETX
<1>1. m \in Nat /\ m <= RTMETRIC_MAX + 11
  BY NeighbourTableAssumption DEF RTMETRIC_MAX
<1>2. RTMETRIC_MAX + 11 < UINT16 - MAX_ETX
  BY DEF RTMETRIC_MAX, UINT16, MAX_ETX, LIBP_LINK_METRIC_UNIT
<1>3. RTMETRIC_MAX + 11 \in Nat /\ UINT16 - MAX_ETX \in Nat /\ UINT16 - MAX_ETX < UINT16
  BY DEF RTMETRIC_MAX, UINT16, MAX_ETX, LIBP_LINK_METRIC_UNIT
<1>4. m < UINT16 - MAX_ETX /\ m < UINT16
  BY <1>1, <1>2, <1>3, UINT16Nat
<1> QED  BY <1>1, <1>4, UINT16Nat

LEMMA ZeroRankIsLow == 0 < UINT16 - MAX_ETX
BY DEF UINT16, MAX_ETX, LIBP_LINK_METRIC_UNIT

LEMMA RemoveLow ==
  ASSUME NEW t, GoodTable(t), LowRanks(t), NEW gone
  PROVE  LowRanks(Remove(t, gone))
<1>1. ASSUME NEW s \in Slot
      PROVE  Remove(t, gone)[s].rtmetric < UINT16 - MAX_ETX
  <2>1. CASE s \in gone
    BY <2>1, ZeroRankIsLow DEF Remove, Freed
  <2>2. CASE s \notin gone
    <3>1. t[s] \in Entry
      BY DEF GoodTable, Sane, Table
    <3>2. Remove(t, gone)[s].rtmetric = t[s].rtmetric
      BY <2>2, <3>1 DEF Remove, Entry
    <3> QED  BY <3>2 DEF LowRanks
  <2> QED  BY <2>1, <2>2
<1> QED  BY <1>1 DEF LowRanks

\* The history keeps step with an operation on one address.
LEMMA UsedStep ==
  ASSUME IInv, NEW addr, Follows(table, table', addr), Used(addr), txs' \in 0..MaxTx
  PROVE  IInv'
<1>1. table' \in Table
  BY DEF Follows, GoodTable, Sane
<1>2. quiet' \in [Node -> 0..UINT16-1]
  BY ZeroAge DEF IInv, TypeOK, Used
<1>3. TypeOK'
  BY <1>1, <1>2 DEF TypeOK
<1>4. \A s \in Listed(table') : table'[s].addr \in Known(table')
  BY DEF Known
<1>5. \A s \in Listed(table') : table'[s].addr \in Node
  BY DEF Follows, GoodTable, Sane
<1>6. \A s \in Listed(table') : quiet'[table'[s].addr] = table'[s].age
  BY <1>4, <1>5 DEF IInv, QuietIsAge, Follows, Used
<1>7. \A a \in Node \ Known(table') : quiet'[a] = 0
  BY DEF Used
<1> QED  BY <1>3, <1>6, <1>7 DEF IInv, Follows, QuietIsAge

-----------------------------------------------------------------------------
(* Each operation follows the table, and so does its action the history.   *)

LEMMA AddFollows ==
  ASSUME NEW t, GoodTable(t), LowRanks(t), NEW addr \in Node, NEW m \in Rtmetrics
  PROVE  Follows(t, libp_neighbour_list_add(t, addr, m), addr)
<1> DEFINE r == libp_neighbour_list_add(t, addr, m)
           S == SlotFor(t, addr, m)
<1>1. m \in 0..UINT16-1 /\ m < UINT16 - MAX_ETX
  BY RankIsLow
<1>2. GoodTable(r)
  BY <1>1, AddGood
<1>3. ASSUME NEW s \in Slot, s \notin S PROVE r[s] = t[s]
  BY <1>3 DEF libp_neighbour_list_add
<1>4. ASSUME NEW s \in S, s \in Slot
      PROVE  r[s].addr = addr /\ r[s].age = 0 /\ r[s].rtmetric = m
  BY <1>4 DEF libp_neighbour_list_add
<1>5. LowRanks(r)
  BY <1>1, <1>3, <1>4 DEF LowRanks
<1>6. ASSUME NEW s \in Listed(r)
      PROVE  IF r[s].addr = addr THEN r[s].age = 0
             ELSE s \in Listed(t) /\ r[s].addr = t[s].addr /\ r[s].age = t[s].age
  <2>1. s \in Slot
    BY DEF Listed
  <2>2. CASE s \in S
    BY <1>4, <2>1, <2>2
  <2>3. CASE s \notin S
    <3>1. r[s] = t[s] /\ s \in Listed(t)
      BY <1>3, <2>1, <2>3 DEF Listed
    <3>2. t[s].addr # addr
      <4>1. CASE libp_neighbour_list_find(t, addr) = {}
        BY <3>1, <4>1 DEF libp_neighbour_list_find
      <4>2. CASE libp_neighbour_list_find(t, addr) # {}
        BY <2>3, <3>1, <4>2 DEF SlotFor, libp_neighbour_list_find
      <4> QED  BY <4>1, <4>2
    <3> QED  BY <3>1, <3>2
  <2> QED  BY <2>2, <2>3
<1> QED  BY <1>2, <1>5, <1>6 DEF Follows

LEMMA RemoveFollows ==
  ASSUME NEW t, GoodTable(t), LowRanks(t), NEW addr
  PROVE  Follows(t, libp_neighbour_list_remove(t, addr), addr)
<1> DEFINE gone == libp_neighbour_list_find(t, addr)
           r    == Remove(t, gone)
<1>1. GoodTable(r)
  BY RemoveGood
<1>2. Listed(r) = Listed(t) \ gone
  BY RemoveEntries DEF GoodTable
<1>3. ASSUME NEW s \in Listed(t) \ gone
      PROVE  r[s].addr = t[s].addr /\ r[s].age = t[s].age
  <2>1. Sane(t)
    BY DEF GoodTable
  <2> QED  BY <2>1, RemoveKept
<1>4. LowRanks(r)
  BY RemoveLow
<1>5. \A s \in Listed(r) : s \in Listed(t) /\ t[s].addr # addr
  BY <1>2 DEF libp_neighbour_list_find
<1> QED  BY <1>1, <1>2, <1>3, <1>4, <1>5 DEF Follows, libp_neighbour_list_remove

LEMMA InPlaceFollows ==
  ASSUME NEW t, GoodTable(t), NEW addr, NEW r, GoodTable(r), LowRanks(r),
         \A s \in Slot :
           /\ r[s].place = t[s].place /\ r[s].addr = t[s].addr
           /\ r[s].age = IF s \in libp_neighbour_list_find(t, addr) THEN 0
                         ELSE t[s].age
  PROVE  Follows(t, r, addr)
<1>1. Listed(r) = Listed(t)
  BY DEF Listed
<1>2. \A s \in Listed(t) : s \in Slot
  BY DEF Listed
<1> QED  BY <1>1, <1>2 DEF Follows, libp_neighbour_list_find

LEMMA UpdateRtmetricFollows ==
  ASSUME NEW t, GoodTable(t), LowRanks(t), NEW addr, NEW m \in Rtmetrics
  PROVE  Follows(t, libp_neighbour_update_rtmetric(
                      t, libp_neighbour_list_find(t, addr), m), addr)
<1> DEFINE n == libp_neighbour_list_find(t, addr)
           r == libp_neighbour_update_rtmetric(t, n, m)
<1>1. m \in 0..UINT16-1 /\ m < UINT16 - MAX_ETX
  BY RankIsLow
<1>2. GoodTable(r)
  BY <1>1, UpdateRtmetricGood
<1>3. ASSUME NEW s \in Slot
      PROVE  /\ r[s].place = t[s].place /\ r[s].addr = t[s].addr
             /\ r[s].age = IF s \in n THEN 0 ELSE t[s].age
             /\ r[s].rtmetric \in {m, t[s].rtmetric}
  <2>1. t[s] \in Entry
    BY DEF GoodTable, Sane, Table
  <2> QED  BY <2>1 DEF libp_neighbour_update_rtmetric, Entry
<1>4. LowRanks(r)
  BY <1>1, <1>3 DEF LowRanks
<1> QED  BY <1>2, <1>3, <1>4, InPlaceFollows

LEMMA RxFollows ==
  ASSUME NEW t, GoodTable(t), LowRanks(t), NEW addr
  PROVE  Follows(t, libp_neighbour_rx(t, libp_neighbour_list_find(t, addr)), addr)
<1> DEFINE n == libp_neighbour_list_find(t, addr)
           r == libp_neighbour_rx(t, n)
<1>1. GoodTable(r)
  BY RxGood
<1>2. ASSUME NEW s \in Slot
      PROVE  /\ r[s].place = t[s].place /\ r[s].addr = t[s].addr
             /\ r[s].age = IF s \in n THEN 0 ELSE t[s].age
             /\ r[s].rtmetric = t[s].rtmetric
  <2>1. t[s] \in Entry
    BY DEF GoodTable, Sane, Table
  <2> QED  BY <2>1 DEF libp_neighbour_rx, Entry
<1>3. LowRanks(r)
  BY <1>2 DEF LowRanks
<1> QED  BY <1>1, <1>2, <1>3, InPlaceFollows

LEMMA TxFollows ==
  ASSUME NEW t, GoodTable(t), LowRanks(t), NEW addr, NEW k \in Nat
  PROVE  Follows(t, libp_neighbour_tx(t, libp_neighbour_list_find(t, addr), k), addr)
<1> DEFINE n == libp_neighbour_list_find(t, addr)
           r == libp_neighbour_tx(t, n, k)
<1>1. GoodTable(r)
  BY TxGood
<1>2. ASSUME NEW s \in Slot
      PROVE  /\ r[s].place = t[s].place /\ r[s].addr = t[s].addr
             /\ r[s].age = IF s \in n THEN 0 ELSE t[s].age
             /\ r[s].rtmetric = t[s].rtmetric
  <2>1. t[s] \in Entry
    BY DEF GoodTable, Sane, Table
  <2> QED  BY <2>1 DEF libp_neighbour_tx, Entry
<1>3. LowRanks(r)
  BY <1>2 DEF LowRanks
<1> QED  BY <1>1, <1>2, <1>3, InPlaceFollows

LEMMA TxFailFollows ==
  ASSUME NEW t, GoodTable(t), LowRanks(t), NEW addr, NEW k \in Nat
  PROVE  Follows(t, libp_neighbour_tx_fail(t, libp_neighbour_list_find(t, addr), k),
                 addr)
<1> DEFINE n == libp_neighbour_list_find(t, addr)
           r == libp_neighbour_tx_fail(t, n, k)
<1>1. GoodTable(r)
  BY TxFailGood
<1>2. ASSUME NEW s \in Slot
      PROVE  /\ r[s].place = t[s].place /\ r[s].addr = t[s].addr
             /\ r[s].age = IF s \in n THEN 0 ELSE t[s].age
             /\ r[s].rtmetric = t[s].rtmetric
  <2>1. t[s] \in Entry
    BY DEF GoodTable, Sane, Table
  <2> QED  BY <2>1 DEF libp_neighbour_tx_fail, Entry
<1>3. LowRanks(r)
  BY <1>2 DEF LowRanks
<1> QED  BY <1>1, <1>2, <1>3, InPlaceFollows

-----------------------------------------------------------------------------
(* The tick.                                                               *)

LEMMA PeriodicEntries ==
  ASSUME NEW t, GoodTable(t), LowRanks(t)
  PROVE  /\ GoodTable(periodic(t)) /\ LowRanks(periodic(t))
         /\ \A s \in Listed(periodic(t)) :
              /\ s \in Listed(t)
              /\ periodic(t)[s].addr = t[s].addr
              /\ periodic(t)[s].age = (t[s].age + 1) % UINT16
         /\ \A s \in Listed(t) \ Listed(periodic(t)) :
              (t[s].age + 1) % UINT16 = MAX_AGE
<1> DEFINE o    == Older(t)
           seen == Listed(o) \ Skipped(o)
           m    == RenewMetrics(o, seen)
           gone == Expired(o) \cap seen
           r    == Remove(m, gone)
<1>1. GoodTable(o) /\ Listed(o) = Listed(t) /\ GoodTable(m) /\ Listed(m) = Listed(o)
  BY OlderGood, RenewMetricsGood
<1>2. ASSUME NEW s \in Slot
      PROVE  /\ o[s].addr = t[s].addr /\ o[s].rtmetric = t[s].rtmetric
             /\ s \in Listed(t) => o[s].age = (t[s].age + 1) % UINT16
  <2>1. t[s] \in Entry
    BY DEF GoodTable, Sane, Table
  <2> QED  BY <2>1 DEF Older, Entry
<1>3. ASSUME NEW s \in Slot
      PROVE  m[s].addr = o[s].addr /\ m[s].rtmetric = o[s].rtmetric /\ m[s].age = o[s].age
  <2>1. o[s] \in Entry
    BY <1>1 DEF GoodTable, Sane, Table
  <2> QED  BY <2>1 DEF RenewMetrics, Entry
<1>4. periodic(t) = r
  BY DEF periodic
<1> HIDE DEF o, m
<1>5. LowRanks(m)
  BY <1>2, <1>3 DEF LowRanks
<1>6. gone \subseteq Expired(o)
  OBVIOUS
<1> HIDE DEF gone
<1>7. GoodTable(r) /\ LowRanks(r)
  BY <1>1, <1>5, RemoveGood, RemoveLow
<1>8. Listed(r) = Listed(t) \ gone
  BY <1>1, RemoveEntries DEF GoodTable
<1>9. ASSUME NEW s \in Listed(r)
      PROVE  r[s].addr = m[s].addr /\ r[s].age = m[s].age
  <2>1. Sane(m) /\ s \in Listed(m) \ gone
    BY <1>1, <1>8 DEF GoodTable
  <2> QED  BY <2>1, RemoveKept
<1> HIDE DEF r
<1>10. \A s \in Listed(t) : s \in Slot
  BY DEF Listed
<1>11. \A s \in Listed(r) : /\ s \in Listed(t) /\ r[s].addr = t[s].addr
                            /\ r[s].age = (t[s].age + 1) % UINT16
  BY <1>2, <1>3, <1>8, <1>9, <1>10
<1>12. \A s \in Listed(t) \ Listed(r) : (t[s].age + 1) % UINT16 = MAX_AGE
  BY <1>2, <1>6, <1>8, <1>10 DEF Expired
<1> QED  BY <1>4, <1>7, <1>11, <1>12

LEMMA PeriodicStep ==
  ASSUME IInv, Periodic
  PROVE  IInv'
<1> DEFINE Aged(s) == (table[s].age + 1) % UINT16
<1>1. GoodTable(table) /\ LowRanks(table) /\ table' = periodic(table)
  BY DEF IInv, Periodic
<1>2. /\ GoodTable(table') /\ LowRanks(table')
      /\ \A s \in Listed(table') :
           /\ s \in Listed(table) /\ table'[s].addr = table[s].addr
           /\ table'[s].age = Aged(s)
  BY <1>1, PeriodicEntries
<1>3. ASSUME NEW s \in Listed(table)
      PROVE  Aged(s) = table[s].age + 1 /\ table[s].age + 1 \in 0..UINT16-1
  <2>1. table[s].age \in Nat
    BY <1>1 DEF GoodTable, Sane, Table, Entry, Listed
  <2>2. table[s].age < 65535
    <3>1. table[s].age < AgeBound
      BY DEF Periodic
    <3>2. AgeBound \in Nat /\ AgeBound <= 65535
      BY NeighbourTableAssumption
    <3> QED  BY <2>1, <3>1, <3>2
  <2>3. table[s].age + 1 \in Nat /\ table[s].age + 1 < UINT16
    BY <2>1, <2>2 DEF UINT16
  <2> QED  BY <2>3, NoWrap, UINT16Nat
<1> HIDE DEF Aged
<1>4. \A a \in Known(table') : \E s \in Listed(table') : table'[s].addr = a
  BY DEF Known
<1>5. \A a \in Known(table') :
        /\ a \in Known(table)
        /\ quiet[a] + 1 \in 0..UINT16-1
  <2> SUFFICES ASSUME NEW a \in Known(table')
               PROVE  a \in Known(table) /\ quiet[a] + 1 \in 0..UINT16-1
    OBVIOUS
  <2>1. PICK s \in Listed(table') : table'[s].addr = a
    BY <1>4
  <2>2. s \in Listed(table) /\ table[s].addr = a
    BY <1>2, <2>1
  <2>3. quiet[a] = table[s].age
    BY <2>2 DEF IInv, QuietIsAge
  <2> QED  BY <1>3, <2>2, <2>3 DEF Known
<1>6. quiet' \in [Node -> 0..UINT16-1]
  BY <1>5, UINT16Nat DEF Periodic
<1>7. TypeOK'
  <2>1. table' \in Table
    BY <1>2 DEF GoodTable, Sane
  <2> QED  BY <1>6, <2>1 DEF IInv, TypeOK, Periodic
<1>8. ASSUME NEW s \in Listed(table')
      PROVE  quiet'[table'[s].addr] = table'[s].age
  <2>1. table'[s].addr \in Node /\ table'[s].addr \in Known(table')
    BY <1>2 DEF GoodTable, Sane, Known
  <2>2. quiet'[table'[s].addr] = quiet[table'[s].addr] + 1
    BY <2>1 DEF Periodic
  <2>3. quiet[table'[s].addr] = table[s].age
    BY <1>2 DEF IInv, QuietIsAge
  <2> QED  BY <1>2, <1>3, <2>2, <2>3
<1>9. \A a \in Node \ Known(table') : quiet'[a] = 0
  BY DEF Periodic
<1> QED  BY <1>2, <1>7, <1>8, <1>9 DEF IInv, QuietIsAge

LEMMA PurgeStep ==
  ASSUME IInv, Purge
  PROVE  IInv'
<1>1. GoodTable(table') /\ Listed(table') = {}
  BY PurgeGood DEF IInv, Purge
<1>2. LowRanks(table')
  BY ZeroRankIsLow DEF Purge, libp_neighbour_list_purge, Freed, LowRanks
<1>3. TypeOK'
  <2>1. table' \in Table
    BY <1>1 DEF GoodTable, Sane
  <2>2. quiet' \in [Node -> 0..UINT16-1]
    BY UINT16Nat DEF Purge
  <2> QED  BY <2>1, <2>2 DEF IInv, TypeOK, Purge
<1>4. \A a \in Node : quiet'[a] = 0
  BY DEF Purge
<1> QED  BY <1>1, <1>2, <1>3, <1>4 DEF IInv, QuietIsAge

-----------------------------------------------------------------------------
(* The theorems.                                                           *)

LEMMA Initially == Init => IInv
<1> SUFFICES ASSUME Init PROVE IInv
  OBVIOUS
<1>1. table = NewTable /\ GoodTable(table)
  BY NewTableGood DEF Init
<1>2. LowRanks(table)
  BY <1>1, ZeroRankIsLow DEF NewTable, Freed, LowRanks
<1>3. TypeOK
  <2>1. table \in Table
    BY <1>1 DEF GoodTable, Sane
  <2>2. quiet \in [Node -> 0..UINT16-1]
    BY UINT16Nat DEF Init
  <2>3. txs \in 0..MaxTx
    BY NeighbourTableAssumption DEF Init
  <2> QED  BY <2>1, <2>2, <2>3 DEF TypeOK
<1>4. Listed(table) = {}
  BY <1>1 DEF NewTable, Freed, Listed
<1> QED  BY <1>1, <1>2, <1>3, <1>4 DEF Init, IInv, QuietIsAge

LEMMA Preserved == IInv /\ [Next]_vars => IInv'
<1> SUFFICES ASSUME IInv, [Next]_vars PROVE IInv'
  OBVIOUS
<1>1. GoodTable(table) /\ LowRanks(table) /\ txs \in 0..MaxTx /\ MaxTx \in Nat
  BY NeighbourTableAssumption DEF IInv, TypeOK
<1>2. txs < MaxTx => txs + 1 \in 0..MaxTx
  BY <1>1
<1>3. ASSUME NEW a \in Node, NEW m \in Rtmetrics, Add(a, m) PROVE IInv'
  <2>1. Follows(table, table', a)
    BY <1>1, <1>3, AddFollows DEF Add
  <2> QED  BY <1>1, <1>3, <2>1, UsedStep DEF Add
<1>4. ASSUME NEW a \in Node, RemoveAddr(a) PROVE IInv'
  <2>1. Follows(table, table', a)
    BY <1>1, <1>4, RemoveFollows DEF RemoveAddr
  <2> QED  BY <1>1, <1>4, <2>1, UsedStep DEF RemoveAddr
<1>5. CASE Purge
  BY <1>5, PurgeStep
<1>6. ASSUME NEW a \in Node, NEW m \in Rtmetrics, UpdateRtmetric(a, m) PROVE IInv'
  <2>1. Follows(table, table', a)
    BY <1>1, <1>6, UpdateRtmetricFollows DEF UpdateRtmetric, Find
  <2> QED  BY <1>1, <1>6, <2>1, UsedStep DEF UpdateRtmetric
<1>7. ASSUME NEW a \in Node, Rx(a) PROVE IInv'
  <2>1. Follows(table, table', a)
    BY <1>1, <1>7, RxFollows DEF Rx, Find
  <2> QED  BY <1>1, <1>7, <2>1, UsedStep DEF Rx
<1>8. ASSUME NEW a \in Node, NEW k \in TxCounts, Tx(a, k) PROVE IInv'
  <2>1. k \in Nat
    BY NeighbourTableAssumption
  <2>2. Follows(table, table', a)
    BY <1>1, <1>8, <2>1, TxFollows DEF Tx, Find
  <2>3. txs' \in 0..MaxTx /\ Used(a)
    BY <1>2, <1>8 DEF Tx
  <2> QED  BY <2>2, <2>3, UsedStep
<1>9. ASSUME NEW a \in Node, NEW k \in TxCounts, TxFail(a, k) PROVE IInv'
  <2>1. k \in Nat
    BY NeighbourTableAssumption
  <2>2. Follows(table, table', a)
    BY <1>1, <1>9, <2>1, TxFailFollows DEF TxFail, Find
  <2>3. txs' \in 0..MaxTx /\ Used(a)
    BY <1>2, <1>9 DEF TxFail
  <2> QED  BY <2>2, <2>3, UsedStep
<1>10. CASE Periodic
  BY <1>10, PeriodicStep
<1>11. CASE UNCHANGED vars
  BY <1>11 DEF vars, IInv, TypeOK, QuietIsAge
<1> QED
  BY <1>3, <1>4, <1>5, <1>6, <1>7, <1>8, <1>9, <1>10, <1>11 DEF Next

LEMMA Invariance == Spec => []IInv
BY Initially, Preserved, PTL DEF Spec

\* Every table the operations can build has its type, and the 16-bit age of an
\* entry never wraps below the bound on ticks.
THEOREM TypeCorrect == Spec => []TypeOK
<1>1. IInv => TypeOK
  BY DEF IInv
<1> QED  BY <1>1, Invariance, PTL

\* libp_neighbour_list_find() finds the only entry of an address.
THEOREM AddressesUnique == Spec => []UniqueAddr
<1>1. IInv => UniqueAddr
  BY DEF IInv, GoodTable, Unique, UniqueAddr
<1> QED  BY <1>1, Invariance, PTL

\* No link is cheaper than one transmission and no cost wraps around its
\* uint16_t, for every history of transmission counts.
THEOREM CostsSane == Spec => []CostsAreSane
<1>1. IInv => CostsAreSane
  <2> SUFFICES ASSUME IInv, NEW s \in Slot
               PROVE  /\ libp_link_metric(table[s].lm) >= LIBP_LINK_METRIC_UNIT
                      /\ table[s].rtmetric + libp_link_metric(table[s].lm) < UINT16
    BY DEF CostsAreSane
  <2>1. SaneEntry(table[s]) /\ table[s].rtmetric < UINT16 - MAX_ETX
    BY DEF IInv, GoodTable, Sane, LowRanks
  <2>2. table[s].rtmetric \in Nat
    BY <2>1 DEF SaneEntry, Entry
  <2>3. libp_link_metric(table[s].lm) \in LIBP_LINK_METRIC_UNIT..MAX_ETX
    BY <2>1, MetricBounds DEF SaneEntry
  <2>4. libp_link_metric(table[s].lm) >= LIBP_LINK_METRIC_UNIT
    BY <2>3 DEF LIBP_LINK_METRIC_UNIT, MAX_ETX
  <2> QED  BY <2>1, <2>2, <2>3, <2>4, SumBounds
<1> QED  BY <1>1, Invariance, PTL

\* A full table gives up one of its worst entries, for a better one only.
THEOREM EvictionIsRight == Spec => EvictsOnlyWorse
<1>1. ASSUME IInv, NEW a \in Node, NEW m \in Rtmetrics, Add(a, m),
             NEW s \in Listed(table), table[s].addr \notin Known(table')
      PROVE  /\ m < table[s].rtmetric
             /\ \A u \in Listed(table) : table[u].rtmetric <= table[s].rtmetric
  <2>1. s \in Slot /\ table' = libp_neighbour_list_add(table, a, m)
    BY <1>1 DEF Add, Listed
  <2>2. s \in SlotFor(table, a, m)
    <3> SUFFICES ASSUME s \notin SlotFor(table, a, m) PROVE FALSE
      OBVIOUS
    <3>1. table'[s] = table[s]
      BY <2>1 DEF libp_neighbour_list_add
    <3> QED  BY <1>1, <3>1 DEF Known, Listed
  <2>3. libp_neighbour_list_find(table, a) = {}
    <3> SUFFICES ASSUME libp_neighbour_list_find(table, a) # {} PROVE FALSE
      OBVIOUS
    <3>1. table[s].addr = a
      BY <2>2 DEF SlotFor, libp_neighbour_list_find
    <3>2. table'[s].addr = a /\ table'[s].place = table[s].place
      BY <1>1, <2>1, <2>2 DEF libp_neighbour_list_add, Listed
    <3> QED  BY <1>1, <3>1, <3>2 DEF Known, Listed
  <2>4. s \in Worst(table) /\ m < table[s].rtmetric
    BY <1>1, <2>2, <2>3 DEF SlotFor, FirstFree
  <2>5. \A u \in Listed(table) : table[u].rtmetric \in Nat
    BY <1>1 DEF IInv, GoodTable, Sane, Table, Entry, Listed
  <2> QED  BY <1>1, <2>4, <2>5 DEF Worst
<1>2. IInv /\ [Next]_vars =>
        [\A a \in Node, m \in Rtmetrics : Add(a, m) =>
           \A s \in Listed(table) :
             table[s].addr \notin Known(table') =>
               /\ m < table[s].rtmetric
               /\ \A u \in Listed(table) : table[u].rtmetric <= table[s].rtmetric]_vars
  BY <1>1
<1> QED  BY <1>2, Invariance, PTL DEF Spec, EvictsOnlyWorse

\* A neighbour the tick drops was silent for exactly MAX_AGE ticks.
THEOREM OnlySilentDropped == Spec => DropsOnlySilent
<1>1. ASSUME IInv, Periodic, NEW a \in Known(table) \ Known(table')
      PROVE  quiet[a] + 1 = MAX_AGE
  <2>1. PICK s \in Listed(table) : table[s].addr = a
    BY DEF Known
  <2>2. GoodTable(table) /\ LowRanks(table) /\ table' = periodic(table)
    BY <1>1 DEF IInv, Periodic
  <2>3. s \notin Listed(table')
    <3>1. \A u \in Listed(table') : table'[u].addr = table[u].addr
      BY <2>2, PeriodicEntries
    <3> QED  BY <2>1, <3>1 DEF Known
  <2>4. (table[s].age + 1) % UINT16 = MAX_AGE
    BY <2>1, <2>2, <2>3, PeriodicEntries
  <2>5. table[s].age \in Nat
    BY <2>2 DEF GoodTable, Sane, Table, Entry, Listed
  <2>6. table[s].age < 65535
    <3>1. table[s].age < AgeBound
      BY <1>1 DEF Periodic
    <3>2. AgeBound \in Nat /\ AgeBound <= 65535
      BY NeighbourTableAssumption
    <3> QED  BY <2>5, <3>1, <3>2
  <2>7. table[s].age + 1 \in Nat /\ table[s].age + 1 < UINT16
    BY <2>5, <2>6 DEF UINT16
  <2>8. quiet[a] = table[s].age
    BY <1>1, <2>1 DEF IInv, QuietIsAge
  <2> QED  BY <2>4, <2>7, <2>8, NoWrap
<1>2. IInv /\ [Next]_vars =>
        [Periodic => \A a \in Known(table) \ Known(table') : quiet[a] + 1 = MAX_AGE]_vars
  BY <1>1
<1> QED  BY <1>2, Invariance, PTL DEF Spec, DropsOnlySilent

-----------------------------------------------------------------------------
(* What the tick misses is at the head of the list.                        *)

\* An entry of r is new, or is as old as it was and has not left the head.
HeadKept(t, r) ==
  \A s \in Listed(r) :
    \/ r[s].age = 0
    \/ /\ s \in Listed(t) /\ r[s].age = t[s].age
       /\ t[s].place = 1 => r[s].place = 1

LEMMA HeadStep ==
  ASSUME OverdueAtHead, HeadKept(table, table')
  PROVE  OverdueAtHead'
<1>1. ASSUME NEW s \in Listed(table'), table'[s].age >= MAX_AGE
      PROVE  table'[s].place = 1
  <2>1. table'[s].age # 0
    BY <1>1, NeighboursAssumption
  <2> QED  BY <1>1, <2>1 DEF OverdueAtHead, HeadKept
<1> QED  BY <1>1 DEF OverdueAtHead

\* With all before it gone, an entry is the head.
LEMMA BecomesHead ==
  ASSUME NEW t, Sane(t), NEW gone, NEW s \in Listed(t) \ gone,
         \A u \in Listed(t) \ gone : t[u].place <= t[s].place => u = s
  PROVE  Remove(t, gone)[s].place = 1
<1> DEFINE up == {u \in Listed(t) \ gone : t[u].place <= t[s].place}
<1>1. Remove(t, gone)[s].place = Cardinality(up)
  BY RemoveEntries
<1>2. t[s].place \in Nat
  BY DEF Sane, Table, Entry, Listed
<1>3. up = {s}
  BY <1>2
<1> HIDE DEF up
<1> QED  BY <1>1, <1>3, FS_Singleton

LEMMA PlacesCount ==
  ASSUME NEW t, GoodTable(t)
  PROVE  /\ \A s \in Listed(t) : t[s].place \in Nat \ {0}
         /\ \A s, u \in Listed(t) : t[s].place = t[u].place => s = u
<1>1. \A s \in Listed(t) : t[s].place \in Nat /\ t[s].place # 0
  BY DEF GoodTable, Sane, Table, Entry, Listed
<1>2. \A s, u \in Listed(t) : t[s].place = t[u].place => s = u
  BY DEF GoodTable, Ordered
<1> QED  BY <1>1, <1>2

LEMMA RemoveHead ==
  ASSUME NEW t, GoodTable(t), NEW gone
  PROVE  HeadKept(t, Remove(t, gone))
<1>1. Sane(t) /\ Listed(Remove(t, gone)) = Listed(t) \ gone
  BY RemoveEntries DEF GoodTable
<1>2. ASSUME NEW s \in Listed(t) \ gone
      PROVE  /\ Remove(t, gone)[s].age = t[s].age
             /\ t[s].place = 1 => Remove(t, gone)[s].place = 1
  <2>1. Remove(t, gone)[s].age = t[s].age
    BY <1>1, RemoveKept
  <2>2. ASSUME t[s].place = 1 PROVE Remove(t, gone)[s].place = 1
    <3>1. \A u \in Listed(t) \ gone : t[u].place <= t[s].place => u = s
      BY <2>2, PlacesCount
    <3> QED  BY <1>1, <3>1, BecomesHead
  <2> QED  BY <2>1, <2>2
<1> QED  BY <1>1, <1>2 DEF HeadKept

LEMMA InPlaceHead ==
  ASSUME NEW t, NEW r,
         \A s \in Slot : r[s].place = t[s].place /\ r[s].age \in {0, t[s].age}
  PROVE  HeadKept(t, r)
BY DEF HeadKept, Listed

LEMMA AddHead ==
  ASSUME NEW t, NEW addr, NEW m
  PROVE  HeadKept(t, libp_neighbour_list_add(t, addr, m))
BY DEF HeadKept, libp_neighbour_list_add, Listed

\* One entry at most reaches MAX_AGE and stays: the one behind a head that goes.
LEMMA PeriodicHead ==
  ASSUME IInv, OverdueAtHead, Periodic
  PROVE  OverdueAtHead'
<1> DEFINE o    == Older(table)
           seen == Listed(o) \ Skipped(o)
           m    == RenewMetrics(o, seen)
           gone == Expired(o) \cap seen
<1>1. /\ GoodTable(table) /\ GoodTable(o) /\ Listed(o) = Listed(table)
      /\ GoodTable(m) /\ Listed(m) = Listed(table) /\ Sane(m)
  BY OlderGood, RenewMetricsGood DEF IInv, GoodTable
<1>2. ASSUME NEW s \in Listed(table)
      PROVE  o[s].place = table[s].place /\ o[s].age = table[s].age + 1
             /\ table[s].age \in Nat
  <2>1. s \in Slot /\ table[s] \in Entry
    BY <1>1 DEF GoodTable, Sane, Table, Listed
  <2>2. o[s].place = table[s].place /\ o[s].age = (table[s].age + 1) % UINT16
    BY <2>1 DEF Older, Entry
  <2>3. table[s].age \in Nat
    BY <2>1 DEF Entry
  <2>4. table[s].age < 65535
    <3>1. table[s].age < AgeBound
      BY DEF Periodic
    <3>2. AgeBound \in Nat /\ AgeBound <= 65535
      BY NeighbourTableAssumption
    <3> QED  BY <2>3, <3>1, <3>2
  <2>5. table[s].age + 1 \in Nat /\ table[s].age + 1 < UINT16
    BY <2>3, <2>4 DEF UINT16
  <2> HIDE DEF o
  <2> QED  BY <2>2, <2>3, <2>5, NoWrap
<1>3. ASSUME NEW s \in Slot
      PROVE  m[s].place = o[s].place /\ m[s].age = o[s].age
  <2>1. o[s] \in Entry
    BY <1>1 DEF GoodTable, Sane, Table
  <2> QED  BY <2>1 DEF RenewMetrics, Entry
<1>4. table' = Remove(m, gone)
  BY DEF Periodic, periodic
<1>5. \A h \in Expired(o) : h \in Listed(table) /\ (o[h].place = 1 => h \in gone)
  BY <1>1 DEF Expired, Skipped
<1>6. \A s \in Listed(table) \ gone : s \in Expired(o) =>
        o[s].place = 2 /\ \E h \in Expired(o) : o[h].place = 1
  BY <1>1 DEF Skipped
<1>7. \A s \in Listed(table) : o[s].age = MAX_AGE => s \in Expired(o)
  BY <1>1 DEF Expired
<1>8. \A s \in Listed(table) : s \in Slot
  BY DEF Listed
<1> HIDE DEF o, m, gone
<1>9. Listed(table') = Listed(table) \ gone
  BY <1>1, <1>4, RemoveEntries
<1>10. ASSUME NEW s \in Listed(table'), table'[s].age >= MAX_AGE
       PROVE  table'[s].place = 1
  <2>1. s \in Listed(m) \ gone /\ s \in Listed(table) \ gone
    BY <1>1, <1>9
  <2>2. o[s].age >= MAX_AGE
    BY <1>1, <1>3, <1>4, <1>8, <1>10, <2>1, RemoveKept
  <2>3. \A u \in Listed(table) \ gone : o[u].place <= o[s].place => u = s
    <3>1. CASE o[s].age = MAX_AGE
      <4>1. o[s].place = 2
        BY <1>6, <1>7, <2>1, <3>1
      <4>2. PICK h \in Expired(o) : o[h].place = 1
        BY <1>6, <1>7, <2>1, <3>1
      <4>3. h \in Listed(table) /\ h \in gone
        BY <1>5, <4>2
      <4> QED  BY <1>1, <2>1, <4>1, <4>2, <4>3, PlacesCount
    <3>2. CASE o[s].age # MAX_AGE
      <4>1. table[s].age >= MAX_AGE
        BY <1>2, <2>1, <2>2, <3>2, NeighboursAssumption
      <4>2. o[s].place = 1
        BY <1>2, <2>1, <4>1 DEF OverdueAtHead
      <4> QED  BY <1>1, <2>1, <4>2, PlacesCount
    <3> QED  BY <3>1, <3>2
  <2>4. \A u \in Listed(m) \ gone : m[u].place <= m[s].place => u = s
    BY <1>1, <1>3, <1>8, <2>1, <2>3
  <2> QED  BY <1>1, <1>4, <2>1, <2>4, BecomesHead
<1> QED  BY <1>10 DEF OverdueAtHead

\* The tick misses at most one entry that is too old, the head of the list
\* (libp-neighbour.c:59-69).
THEOREM OverdueFirst == Spec => []OverdueAtHead
<1>1. Init => OverdueAtHead
  BY DEF Init, NewTable, Freed, Listed, OverdueAtHead
<1>2. IInv /\ OverdueAtHead /\ [Next]_vars => OverdueAtHead'
  <2> SUFFICES ASSUME IInv, OverdueAtHead, [Next]_vars PROVE OverdueAtHead'
    OBVIOUS
  <2>1. GoodTable(table) /\ \A s \in Slot : table[s] \in Entry
    BY DEF IInv, GoodTable, Sane, Table
  <2>2. ASSUME NEW a \in Node, NEW k \in Rtmetrics, Add(a, k) PROVE OverdueAtHead'
    BY <2>2, AddHead, HeadStep DEF Add
  <2>3. ASSUME NEW a \in Node, RemoveAddr(a) PROVE OverdueAtHead'
    BY <2>1, <2>3, RemoveHead, HeadStep DEF RemoveAddr, libp_neighbour_list_remove
  <2>4. CASE Purge
    <3>1. Listed(table') = {}
      BY <2>1, <2>4, PurgeGood DEF Purge
    <3> QED  BY <3>1 DEF OverdueAtHead
  <2>5. ASSUME NEW a \in Node, NEW k \in Rtmetrics, UpdateRtmetric(a, k)
        PROVE  OverdueAtHead'
    <3>1. \A s \in Slot : table'[s].place = table[s].place /\ table'[s].age \in {0, table[s].age}
      BY <2>1, <2>5 DEF UpdateRtmetric, libp_neighbour_update_rtmetric, Entry
    <3> QED  BY <3>1, InPlaceHead, HeadStep
  <2>6. ASSUME NEW a \in Node, Rx(a) PROVE OverdueAtHead'
    <3>1. \A s \in Slot : table'[s].place = table[s].place /\ table'[s].age \in {0, table[s].age}
      BY <2>1, <2>6 DEF Rx, libp_neighbour_rx, Entry
    <3> QED  BY <3>1, InPlaceHead, HeadStep
  <2>7. ASSUME NEW a \in Node, NEW k \in TxCounts, Tx(a, k) PROVE OverdueAtHead'
    <3>1. \A s \in Slot : table'[s].place = table[s].place /\ table'[s].age \in {0, table[s].age}
      BY <2>1, <2>7 DEF Tx, libp_neighbour_tx, Entry
    <3> QED  BY <3>1, InPlaceHead, HeadStep
  <2>8. ASSUME NEW a \in Node, NEW k \in TxCounts, TxFail(a, k) PROVE OverdueAtHead'
    <3>1. \A s \in Slot : table'[s].place = table[s].place /\ table'[s].age \in {0, table[s].age}
      BY <2>1, <2>8 DEF TxFail, libp_neighbour_tx_fail, Entry
    <3> QED  BY <3>1, InPlaceHead, HeadStep
  <2>9. CASE Periodic
    BY <2>9, PeriodicHead
  <2>10. CASE UNCHANGED vars
    BY <2>10 DEF vars, OverdueAtHead
  <2> QED  BY <2>2, <2>3, <2>4, <2>5, <2>6, <2>7, <2>8, <2>9, <2>10 DEF Next
<1> QED  BY <1>1, <1>2, Invariance, PTL DEF Spec

-----------------------------------------------------------------------------
(* The best neighbour.                                                     *)

LEMMA LeastNat ==
  ASSUME NEW S, S \subseteq Nat, S # {}
  PROVE  \E x \in S : \A y \in S : x <= y
<1>1. PICK x \in S : \A y \in S : ~ (<<y, x>> \in OpToRel(<, Nat))
  BY NatLessThanWellFounded, WFMin
<1>2. ASSUME NEW y \in S PROVE x <= y
  <2>1. ~ (y < x)
    BY <1>1 DEF OpToRel
  <2> QED  BY <2>1
<1> QED  BY <1>2

\* Among the members of S, the first place among those of the least cost.
LEMMA LeastCost ==
  ASSUME NEW S, S # {}, NEW cost \in [S -> Nat], NEW place \in [S -> Nat]
  PROVE  \E s \in S : \A u \in S : \/ cost[s] < cost[u]
                                   \/ cost[s] = cost[u] /\ place[s] <= place[u]
<1>1. PICK m \in {cost[s] : s \in S} : \A k \in {cost[s] : s \in S} : m <= k
  <2>1. {cost[s] : s \in S} \subseteq Nat /\ {cost[s] : s \in S} # {}
    OBVIOUS
  <2> QED  BY ONLY <2>1, LeastNat
<1> DEFINE C == {s \in S : cost[s] = m}
<1>2. PICK p \in {place[s] : s \in C} : \A k \in {place[s] : s \in C} : p <= k
  <2>1. {place[s] : s \in C} \subseteq Nat /\ {place[s] : s \in C} # {}
    BY <1>1
  <2> QED  BY ONLY <2>1, LeastNat
<1>3. PICK s \in C : place[s] = p
  BY <1>2
<1>4. ASSUME NEW u \in S
      PROVE  \/ cost[s] < cost[u]
             \/ cost[s] = cost[u] /\ place[s] <= place[u]
  <2>1. cost[s] = m /\ m <= cost[u] /\ m \in Nat /\ cost[u] \in Nat
    BY <1>1, <1>3
  <2>2. CASE cost[u] = m
    <3>1. place[s] <= place[u]
      BY <1>2, <1>3, <2>2
    <3> QED  BY <2>1, <2>2, <3>1
  <2>3. CASE cost[u] # m
    BY <2>1, <2>3
  <2> QED  BY <2>2, <2>3
<1> QED  BY <1>3, <1>4

LEMMA BestOne ==
  ASSUME NEW t, GoodTable(t), LowRanks(t)
  PROVE  /\ Cardinality(libp_neighbour_list_best(t)) <= 1
         /\ libp_neighbour_list_best(t) = {} <=>
              \A s \in Listed(t) :
                libp_neighbour_rtmetric_link_metric(t[s]) >= RTMETRIC_MAX
<1> DEFINE S     == Listed(t)
           cost  == [s \in S |-> libp_neighbour_rtmetric_link_metric(t[s])]
           place == [s \in S |-> t[s].place]
           First(s) == \A u \in S : \/ cost[s] < cost[u]
                                    \/ cost[s] = cost[u] /\ place[s] <= place[u]
           best  == libp_neighbour_list_best(t)
<1>1. cost \in [S -> Nat] /\ place \in [S -> Nat]
  <2>1. ASSUME NEW s \in S
        PROVE  libp_neighbour_rtmetric_link_metric(t[s]) \in Nat /\ t[s].place \in Nat
    <3>1. s \in Slot /\ SaneEntry(t[s]) /\ t[s].rtmetric < UINT16 - MAX_ETX
      BY DEF Listed, GoodTable, Sane, LowRanks
    <3>2. libp_neighbour_rtmetric_link_metric(t[s]) \in Nat
      BY <3>1, CostBounds
    <3>3. t[s].place \in Nat
      BY <3>1 DEF SaneEntry, Entry
    <3> QED  BY <3>2, <3>3
  <2> QED  BY <2>1
<1>2. best = {s \in S : cost[s] < RTMETRIC_MAX /\ First(s)}
  BY DEF libp_neighbour_list_best
<1>3. \A s, u \in S : place[s] = place[u] => s = u
  BY DEF GoodTable, Ordered
<1>4. (\A s \in S : libp_neighbour_rtmetric_link_metric(t[s]) >= RTMETRIC_MAX)
        <=> \A s \in S : cost[s] >= RTMETRIC_MAX
  OBVIOUS
<1> HIDE DEF S, cost, place, best
<1>5. \A s, u \in best : s = u
  <2> SUFFICES ASSUME NEW s \in best, NEW u \in best PROVE s = u
    OBVIOUS
  <2>1. s \in S /\ u \in S /\ First(s) /\ First(u)
    BY <1>2
  <2>2. cost[s] \in Nat /\ cost[u] \in Nat /\ place[s] \in Nat /\ place[u] \in Nat
    BY <1>1, <2>1
  <2>3. place[s] = place[u]
    BY <2>1, <2>2
  <2> QED  BY <1>3, <2>1, <2>3
<1>6. Cardinality(best) <= 1
  <2>1. CASE best = {}
    BY <2>1, FS_EmptySet
  <2>2. CASE best # {}
    <3>1. PICK s \in best : TRUE
      BY <2>2
    <3>2. best = {s}
      BY <1>5, <3>1
    <3> QED  BY <3>2, FS_Singleton
  <2> QED  BY <2>1, <2>2
<1>7. best = {} <=> \A s \in S : cost[s] >= RTMETRIC_MAX
  <2>1. ASSUME best = {}, NEW s \in S PROVE cost[s] >= RTMETRIC_MAX
    <3>1. PICK v \in S : First(v)
      BY <1>1, <2>1, LeastCost
    <3>2. ~ (cost[v] < RTMETRIC_MAX)
      <4> SUFFICES ASSUME cost[v] < RTMETRIC_MAX PROVE v \in best
        BY <2>1
      <4> QED  BY <1>2, <3>1
    <3>3. cost[v] <= cost[s] /\ cost[v] \in Nat /\ cost[s] \in Nat
      BY <1>1, <2>1, <3>1
    <3> QED  BY <3>2, <3>3 DEF RTMETRIC_MAX
  <2>2. ASSUME best # {} PROVE \E s \in S : ~ (cost[s] >= RTMETRIC_MAX)
    <3>1. PICK s \in best : TRUE
      BY <2>2
    <3>2. s \in S /\ cost[s] < RTMETRIC_MAX
      BY <1>2, <3>1
    <3> QED  BY <1>1, <3>2 DEF RTMETRIC_MAX
  <2> QED  BY <2>1, <2>2
<1> QED  BY <1>4, <1>6, <1>7 DEF best, S

\* update_parent() may read "no best" as "no route": the best neighbour is one
\* entry, and is missing only when no route is below RTMETRIC_MAX.
THEOREM BestIsRight == Spec => []BestIsTotal
<1>1. IInv => BestIsTotal
  BY BestOne DEF IInv, BestIsTotal
<1> QED  BY <1>1, Invariance, PTL
=============================================================================
