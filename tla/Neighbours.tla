----------------------------- MODULE Neighbours -----------------------------
(***************************************************************************)
(* libp-neighbour.c: the table of the neighbours a node knows.  The block  *)
(* pool libp_neighbours_mem and the list threaded through it are one       *)
(* function from blocks ("slots") to entries: an entry's place is its      *)
(* position on the list, counted from 1, and 0 while its block is free.    *)
(* A `struct libp_neighbour *' is a set of at most one slot, {} is NULL.   *)
(* Left out: penalty and congested_timer, which no computation reads.      *)
(***************************************************************************)
EXTENDS LinkMetric, FiniteSets

CONSTANTS
  Node,                  \* the link-layer addresses
  NullAddr,              \* rimeaddr_null
  MAX_LIBP_NEIGHBOURS,   \* blocks in the pool; 8 in the code
  MAX_AGE,               \* ticks of silence after which an entry is dropped; 180
  MAX_LM_AGE             \* ticks after which an estimate is renewed; 10

ASSUME NeighboursAssumption ==
  /\ NullAddr \notin Node
  /\ MAX_LIBP_NEIGHBOURS \in Nat \ {0}
  /\ MAX_AGE \in Nat \ {0} /\ MAX_AGE <= 65535
  /\ MAX_LM_AGE \in Nat \ {0} /\ MAX_LM_AGE <= 65535

RTMETRIC_MAX == 511      \* LIBP_MAX_DEPTH = 8 * 64 - 1
UINT16       == 65536
Slot         == 1..MAX_LIBP_NEIGHBOURS

Entry ==
  [place : 0..MAX_LIBP_NEIGHBOURS, addr : Node \cup {NullAddr},
   rtmetric : 0..UINT16-1, age : 0..UINT16-1, lm_age : 0..UINT16-1,
   lm : LinkMetricRec]

Table == [Slot -> Entry]

\* A free block keeps its link metric, which libp_neighbour_list_add() does
\* not overwrite; what it overwrites is set to a fixed value.
Freed(e) == [place |-> 0, addr |-> NullAddr, rtmetric |-> 0, age |-> 0,
             lm_age |-> 0, lm |-> e.lm]

NewTable == [s \in Slot |-> Freed([lm |-> ZeroLinkMetric])]

Listed(t)   == {s \in Slot : t[s].place # 0}
Deref(n)    == CHOOSE s \in n : TRUE
Known(t)    == {t[s].addr : s \in Listed(t)}

\* The entries in the set gone leave the list, the others close ranks.
Remove(t, gone) ==
  [s \in Slot |->
     IF s \in gone THEN Freed(t[s])
     ELSE [t[s] EXCEPT !.place =
             Cardinality({u \in Listed(t) \ gone : t[u].place <= t[s].place})]]

libp_neighbour_list_find(t, addr) == {s \in Listed(t) : t[s].addr = addr}

-----------------------------------------------------------------------------
(* Adding a neighbour: its own entry, else a free block, else the block of *)
(* the first entry of the worst rtmetric, if the newcomer's is lower.      *)

FirstFree(t) == {s \in Slot \ Listed(t) : \A u \in Slot \ Listed(t) : s <= u}

Worst(t) ==
  {s \in Listed(t) : \A u \in Listed(t) :
     \/ t[u].rtmetric < t[s].rtmetric
     \/ t[u].rtmetric = t[s].rtmetric /\ t[s].place <= t[u].place}

\* Mutant: the worst entry makes room for a newcomer that is no better.
SlotForAlways(t, addr, nrtmetric) ==
  LET n == libp_neighbour_list_find(t, addr) IN
  IF n # {} THEN n
  ELSE IF FirstFree(t) # {} THEN FirstFree(t) ELSE Worst(t)

\* Mutant: a free block is taken without looking for the address first.
SlotForNoFind(t, addr, nrtmetric) ==
  IF FirstFree(t) # {} THEN FirstFree(t)
  ELSE {s \in Worst(t) : nrtmetric < t[s].rtmetric}

SlotFor(t, addr, nrtmetric) ==
  LET n == libp_neighbour_list_find(t, addr) IN
  IF n # {} THEN n
  ELSE IF FirstFree(t) # {} THEN FirstFree(t)
  ELSE {s \in Worst(t) : nrtmetric < t[s].rtmetric}

libp_neighbour_list_add(t, addr, nrtmetric) ==
  [s \in Slot |->
     IF s \notin SlotFor(t, addr, nrtmetric) THEN t[s]
     ELSE [place    |-> IF t[s].place # 0 THEN t[s].place
                        ELSE Cardinality(Listed(t)) + 1,
           addr     |-> addr,
           rtmetric |-> nrtmetric,
           age      |-> 0,
           lm_age   |-> 0,
           lm       |-> libp_link_metric_new(t[s].lm)]]

libp_neighbour_list_remove(t, addr) ==
  Remove(t, libp_neighbour_list_find(t, addr))

libp_neighbour_list_purge(t) == [s \in Slot |-> Freed(t[s])]

-----------------------------------------------------------------------------
(* What the routing layer reports about an entry; n may be NULL.           *)

libp_neighbour_update_rtmetric(t, n, rtmetric) ==
  [s \in Slot |-> IF s \in n
                  THEN [t[s] EXCEPT !.rtmetric = rtmetric, !.age = 0]
                  ELSE t[s]]

\* Mutant: a transmission does not show that the neighbour is still in use.
TxKeepsAge(t, n, num_tx) ==
  [s \in Slot |->
     IF s \in n
     THEN [t[s] EXCEPT !.lm = libp_link_metric_update_tx(@, num_tx),
                       !.lm_age = 0]
     ELSE t[s]]

libp_neighbour_tx(t, n, num_tx) ==
  [s \in Slot |->
     IF s \in n
     THEN [t[s] EXCEPT !.lm = libp_link_metric_update_tx(@, num_tx),
                       !.lm_age = 0, !.age = 0]
     ELSE t[s]]

libp_neighbour_rx(t, n) ==
  [s \in Slot |-> IF s \in n THEN [t[s] EXCEPT !.age = 0] ELSE t[s]]

libp_neighbour_tx_fail(t, n, num_tx) ==
  [s \in Slot |->
     IF s \in n
     THEN [t[s] EXCEPT !.lm = libp_link_metric_update_tx_fail(@, num_tx),
                       !.lm_age = 0, !.age = 0]
     ELSE t[s]]

-----------------------------------------------------------------------------
(* The cost of a route through an entry, and the first entry of the least  *)
(* cost below RTMETRIC_MAX.                                                *)

libp_neighbour_rtmetric_link_metric(e) ==
  (e.rtmetric + libp_link_metric(e.lm)) % UINT16

\* Mutant: RTMETRIC_MAX itself counts as a route.
BestUpToMax(t) ==
  LET Cost(s) == libp_neighbour_rtmetric_link_metric(t[s]) IN
  {s \in Listed(t) :
     /\ Cost(s) <= RTMETRIC_MAX
     /\ \A u \in Listed(t) : \/ Cost(s) < Cost(u)
                             \/ Cost(s) = Cost(u) /\ t[s].place <= t[u].place}

libp_neighbour_list_best(t) ==
  LET Cost(s) == libp_neighbour_rtmetric_link_metric(t[s]) IN
  {s \in Listed(t) :
     /\ Cost(s) < RTMETRIC_MAX
     /\ \A u \in Listed(t) : \/ Cost(s) < Cost(u)
                             \/ Cost(s) = Cost(u) /\ t[s].place <= t[u].place}

-----------------------------------------------------------------------------
(* The minute tick.  The loop that drops aged entries starts again at the  *)
(* head after each removal and then steps past it, so when the head itself *)
(* was dropped the entry behind it is not looked at.  Both tests are for   *)
(* equality: an entry missed at MAX_AGE is not dropped at the next tick.   *)

Older(t) ==
  [s \in Slot |-> IF s \in Listed(t)
                  THEN [t[s] EXCEPT !.age    = (@ + 1) % UINT16,
                                    !.lm_age = (@ + 1) % UINT16]
                  ELSE t[s]]

Expired(t) == {s \in Listed(t) : t[s].age = MAX_AGE}
Skipped(t) == {s \in Listed(t) : /\ t[s].place = 2
                                 /\ \E h \in Expired(t) : t[h].place = 1}

RenewMetrics(t, seen) ==
  [s \in Slot |-> IF s \in seen /\ t[s].lm_age = MAX_LM_AGE
                  THEN [t[s] EXCEPT !.lm     = libp_link_metric_new(@),
                                    !.lm_age = 0]
                  ELSE t[s]]

\* Mutant: a loop that looks at every entry once.
PeriodicNoSkip(t) ==
  LET o == Older(t)
  IN  Remove(RenewMetrics(o, Listed(o)), Expired(o))

\* Mutant: the loop steps over whatever comes behind an entry it has dropped.
PeriodicSkipsNext(t) ==
  LET o    == Older(t)
      next == {s \in Listed(o) : \E h \in Expired(o) : o[s].place = o[h].place + 1}
      seen == Listed(o) \ next
  IN  Remove(RenewMetrics(o, seen), Expired(o) \cap seen)

periodic(t) ==
  LET o    == Older(t)
      seen == Listed(o) \ Skipped(o)
  IN  Remove(RenewMetrics(o, seen), Expired(o) \cap seen)
=============================================================================
