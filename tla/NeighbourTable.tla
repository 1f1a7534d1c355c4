--------------------------- MODULE NeighbourTable ---------------------------
(***************************************************************************)
(* The neighbour table as a component of its own: every operation          *)
(* libp-neighbour.h offers, called in any order, and the minute tick.      *)
(***************************************************************************)
EXTENDS Neighbours

CONSTANTS
  Rtmetrics,   \* the ranks neighbours report
  TxCounts,    \* the transmission counts reported for a packet
  MaxTx,       \* bound: how many transmission reports
  AgeBound     \* bound: no tick once an age or lm_age has reached it

ASSUME NeighbourTableAssumption ==
  /\ Rtmetrics \subseteq 0..(RTMETRIC_MAX + 11)
  /\ TxCounts \subseteq Nat
  /\ MaxTx \in Nat
  /\ AgeBound \in Nat \ {0} /\ AgeBound <= 65535

VARIABLES
  table,    \* the list and its blocks
  quiet,    \* history: ticks since the address was last used while listed
  txs       \* how many transmission reports there were

vars == <<table, quiet, txs>>

Find(addr) == libp_neighbour_list_find(table, addr)

TypeOK ==
  /\ table \in Table
  /\ quiet \in [Node -> 0..UINT16-1]
  /\ txs \in 0..MaxTx

Init ==
  /\ table = NewTable
  /\ quiet = [a \in Node |-> 0]
  /\ txs = 0

\* The history follows the addresses that stay listed; addr is the one used.
Used(addr) ==
  quiet' = [a \in Node |-> IF a \in Known(table') \ {addr} THEN quiet[a] ELSE 0]

Add(addr, rtmetric) ==
  /\ table' = libp_neighbour_list_add(table, addr, rtmetric)
  /\ Used(addr)
  /\ UNCHANGED txs

RemoveAddr(addr) ==
  /\ table' = libp_neighbour_list_remove(table, addr)
  /\ Used(addr)
  /\ UNCHANGED txs

Purge ==
  /\ table' = libp_neighbour_list_purge(table)
  /\ quiet' = [a \in Node |-> 0]
  /\ UNCHANGED txs

UpdateRtmetric(addr, rtmetric) ==
  /\ table' = libp_neighbour_update_rtmetric(table, Find(addr), rtmetric)
  /\ Used(addr)
  /\ UNCHANGED txs

Rx(addr) ==
  /\ table' = libp_neighbour_rx(table, Find(addr))
  /\ Used(addr)
  /\ UNCHANGED txs

Tx(addr, num_tx) ==
  /\ txs < MaxTx
  /\ table' = libp_neighbour_tx(table, Find(addr), num_tx)
  /\ Used(addr)
  /\ txs' = txs + 1

TxFail(addr, num_tx) ==
  /\ txs < MaxTx
  /\ table' = libp_neighbour_tx_fail(table, Find(addr), num_tx)
  /\ Used(addr)
  /\ txs' = txs + 1

Periodic ==
  /\ \A s \in Listed(table) : /\ table[s].age < AgeBound
                              /\ table[s].lm_age < AgeBound
  /\ table' = periodic(table)
  /\ quiet' = [a \in Node |-> IF a \in Known(table') THEN quiet[a] + 1 ELSE 0]
  /\ UNCHANGED txs

Next ==
  \/ \E a \in Node, m \in Rtmetrics : Add(a, m)
  \/ \E a \in Node : RemoveAddr(a)
  \/ Purge
  \/ \E a \in Node, m \in Rtmetrics : UpdateRtmetric(a, m)
  \/ \E a \in Node : Rx(a)
  \/ \E a \in Node, k \in TxCounts : Tx(a, k)
  \/ \E a \in Node, k \in TxCounts : TxFail(a, k)
  \/ Periodic

Spec == Init /\ [][Next]_vars

-----------------------------------------------------------------------------
(* What the table promises its callers.                                    *)

\* An address is in at most one entry, whatever sequence of additions,
\* recycled blocks and removals led here: libp_neighbour_list_find() stops at
\* the first match, so a second entry would never be updated and would age
\* into a wrong route.
UniqueAddr ==
  \A s, u \in Listed(table) : table[s].addr = table[u].addr => s = u

\* A full table never gives up a neighbour for one that is no better, and
\* gives up one of the worst it has (libp-neighbour.c:142-146).
EvictsOnlyWorse ==
  [][\A a \in Node, m \in Rtmetrics : Add(a, m) =>
       \A s \in Listed(table) :
         table[s].addr \notin Known(table') =>
           /\ m < table[s].rtmetric
           /\ \A u \in Listed(table) : table[u].rtmetric <= table[s].rtmetric]_vars

\* The tick drops a neighbour only when nothing was heard from it or sent to
\* it for exactly MAX_AGE ticks: a route in use does not age out, however
\* ticks, adverts, transmissions and recycling interleave.
DropsOnlySilent ==
  [][Periodic => \A a \in Known(table) \ Known(table') :
                   quiet[a] + 1 = MAX_AGE]_vars

\* The best neighbour of a table is a single entry, and it is missing only if
\* every listed route costs RTMETRIC_MAX or more: update_parent() takes "no
\* best" for "no route" and drops the parent.
BestIsTotal ==
  /\ Cardinality(libp_neighbour_list_best(table)) <= 1
  /\ libp_neighbour_list_best(table) = {} <=>
       \A s \in Listed(table) :
         libp_neighbour_rtmetric_link_metric(table[s]) >= RTMETRIC_MAX

\* A link costs at least one transmission and the sum of rank and link fits
\* its uint16_t: no neighbour can look like a sink (libp.c:1058 calls that "a
\* bug somewhere"), and no bad route wraps around to a good one.
CostsAreSane ==
  \A s \in Slot :
    /\ libp_link_metric(table[s].lm) >= LIBP_LINK_METRIC_UNIT
    /\ table[s].rtmetric + libp_link_metric(table[s].lm) < UINT16

\* The tick misses no more than one aged entry, and that one is then the head of
\* the list: as long as it stays there, too old for the test at
\* libp-neighbour.c:63, the tick drops no head and so misses no other.
OverdueAtHead ==
  \A s \in Listed(table) : table[s].age >= MAX_AGE => table[s].place = 1

-----------------------------------------------------------------------------
(* What the comments say and the code does not do.                         *)

\* libp-link-metric.h:21, "Initialize a new link": an address that enters the
\* table has no estimate yet.
NewNeighbourHasNoEstimate ==
  [][\A a \in Node, m \in Rtmetrics : Add(a, m) /\ a \notin Known(table) =>
       \A s \in Listed(table') :
         table'[s].addr = a => libp_link_metric_num_metrics(table'[s].lm) = 0]_vars
=============================================================================
