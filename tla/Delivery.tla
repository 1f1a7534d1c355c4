------------------------------ MODULE Delivery -------------------------------
(***************************************************************************)
(* What libp promises an application, without nodes, frames or timers: a   *)
(* packet that libp_send() takes is held by the network until it has been  *)
(* delivered or given up, and it is delivered at most once.  A frame that  *)
(* was on its way may still deliver a packet that was given up, and may    *)
(* make a relay hold one that was given up or delivered.                   *)
(***************************************************************************)
EXTENDS Sequences

CONSTANT Packets

VARIABLES
  held,       \* the packets some queue of the network has
  delivered,  \* the packets given to the sink's application, in order
  givenUp     \* the packets some node has counted as dropped

vars == <<held, delivered, givenUp>>

HasBeenDelivered(p) == \E i \in DOMAIN delivered : delivered[i] = p

Init == held = {} /\ delivered = <<>> /\ givenUp = {}

Take(p) ==
  /\ p \notin held \cup givenUp /\ ~ HasBeenDelivered(p)
  /\ held' = held \cup {p}
  /\ UNCHANGED <<delivered, givenUp>>

Deliver(p) ==
  /\ p \in held \cup givenUp /\ ~ HasBeenDelivered(p)
  /\ delivered' = Append(delivered, p)
  /\ UNCHANGED <<held, givenUp>>

\* The node that gives p up may not be the only one to hold it, and may not know
\* that p was delivered: an old frame may run out of hops after its sender has
\* had p delivered over another way.
GiveUp(p) ==
  /\ p \in held \/ HasBeenDelivered(p)
  /\ givenUp' = givenUp \cup {p}
  /\ held' \in {held, held \ {p}}
  /\ UNCHANGED delivered

HoldAgain(p) ==
  /\ p \in givenUp \/ HasBeenDelivered(p)
  /\ held' = held \cup {p}
  /\ UNCHANGED <<delivered, givenUp>>

Release(p) ==
  /\ p \in held
  /\ p \in givenUp \/ HasBeenDelivered(p)
  /\ held' = held \ {p}
  /\ UNCHANGED <<delivered, givenUp>>

Next ==
  \E p \in Packets :
    Take(p) \/ Deliver(p) \/ GiveUp(p) \/ HoldAgain(p) \/ Release(p)

Spec == Init /\ [][Next]_vars

\* No packet is held for ever.
Resolved == \A p \in Packets : p \in held ~> p \notin held
=============================================================================
