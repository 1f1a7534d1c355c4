-------------------------- MODULE MCNeighbourTable --------------------------
(***************************************************************************)
(* Instances of NeighbourTable for TLC, and the loops of libp-neighbour.c  *)
(* written out statement by statement as the reference for the closed      *)
(* forms of module Neighbours.                                             *)
(***************************************************************************)
EXTENDS NeighbourTable, Sequences, TLC

MCRtmetrics == {0, RTMETRIC_MAX - LIBP_LINK_METRIC_UNIT}
MCSymmetry  == Permutations(Node)

\* The list as the sequence the code walks.
ListOf(t) ==
  [i \in 1..Cardinality(Listed(t)) |-> CHOOSE s \in Slot : t[s].place = i]

RECURSIVE SweepFrom(_, _)
\* The second loop of periodic(), n at position i of the list; with n at the
\* head after a removal, the loop's own increment moves on to position 2.
SweepFrom(t, i) ==
  IF i > Cardinality(Listed(t)) THEN t
  ELSE LET n == ListOf(t)[i]
           r == IF t[n].lm_age = MAX_LM_AGE
                THEN [t EXCEPT ![n].lm = libp_link_metric_new(@), ![n].lm_age = 0]
                ELSE t
       IN  IF r[n].age = MAX_AGE THEN SweepFrom(Remove(r, {n}), 2)
                                 ELSE SweepFrom(r, i + 1)

RECURSIVE BestFrom(_, _, _, _)
BestFrom(t, i, best, rtmetric) ==
  IF i > Cardinality(Listed(t)) THEN best
  ELSE LET n == ListOf(t)[i]
           cost == libp_neighbour_rtmetric_link_metric(t[n])
       IN  IF cost < rtmetric THEN BestFrom(t, i + 1, {n}, cost)
                              ELSE BestFrom(t, i + 1, best, rtmetric)

RECURSIVE WorstFrom(_, _, _, _)
WorstFrom(t, i, worst, rtmetric) ==
  IF i > Cardinality(Listed(t)) THEN worst
  ELSE LET n == ListOf(t)[i]
       IN  IF t[n].rtmetric > rtmetric THEN WorstFrom(t, i + 1, {n}, t[n].rtmetric)
                                       ELSE WorstFrom(t, i + 1, worst, rtmetric)

\* The closed forms compute what the loops compute, on every table the
\* operations can build: the tick with its skipped entry, the best entry with
\* its ties, the entry to recycle.
ClosedForms ==
  /\ periodic(table) = SweepFrom(Older(table), 1)
  /\ libp_neighbour_list_best(table) = BestFrom(table, 1, {}, RTMETRIC_MAX)
  /\ {s \in Worst(table) : 0 < table[s].rtmetric} = WorstFrom(table, 1, {}, 0)
=============================================================================
