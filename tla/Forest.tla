------------------------------- MODULE Forest -------------------------------
(***************************************************************************)
(* What tree.c keeps for a gateway, without pointers: for each node that   *)
(* is known, its metric and the nodes added under it, in the order of the  *)
(* calls.  A node that is added again starts with no children, stays where *)
(* it was added before, and is counted there too.                          *)
(***************************************************************************)
EXTENDS Integers, Sequences

CONSTANTS Id, Metrics

VARIABLES
  known,     \* the nodes that were added, or named as a parent
  children,  \* the nodes added under each node
  metric,    \* the metric of each node, -1 for an unknown one
  counts     \* the number of children found by the last search that found any

vars == <<known, children, metric, counts>>

Init ==
  /\ known = {0}
  /\ children = [i \in Id |-> <<>>]
  /\ metric = [i \in Id |-> -1]
  /\ counts = [i \in Id |-> -1]

Add(parent, m, id) ==
  /\ parent # id
  /\ known' = known \cup {parent, id}
  /\ children' = [children EXCEPT ![id] = <<>>, ![parent] = Append(@, id)]
  /\ metric' = [metric EXCEPT ![id] = m]
  /\ UNCHANGED counts

SetMetric(id, m) ==
  /\ id \in known
  /\ metric' = [metric EXCEPT ![id] = m]
  /\ UNCHANGED <<known, children, counts>>

Count(id) ==
  /\ id \in known
  /\ counts' = [counts EXCEPT ![id] = Len(children[id])]
  /\ UNCHANGED <<known, children, metric>>

Forget(id) ==
  /\ id \in known
  /\ known' = known \ {id}
  /\ children' = [children EXCEPT ![id] = <<>>]
  /\ metric' = [metric EXCEPT ![id] = -1]
  /\ UNCHANGED counts

Restart ==
  /\ known' = {0}
  /\ children' = [i \in Id |-> <<>>]
  /\ metric' = [i \in Id |-> -1]
  /\ counts' = [i \in Id |-> -1]

Next ==
  \/ \E id \in Id, parent \in Id, m \in Metrics : Add(parent, m, id)
  \/ \E id \in Id, m \in Metrics : SetMetric(id, m)
  \/ \E id \in Id : Count(id)
  \/ \E id \in Id : Forget(id)
  \/ Restart

Spec == Init /\ [][Next]_vars
=============================================================================
