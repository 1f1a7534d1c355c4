----------------------------- MODULE Beaconing ------------------------------
(***************************************************************************)
(* The beacons of libp.c.  The sink broadcasts one again and again; a node *)
(* that hears one sends its own some time later, once.  Time is counted in *)
(* units of CLOCK_SECOND: a timer that is due is served, and a beacon that *)
(* was sent is heard or lost, before the next unit begins.                 *)
(* A beacon is only a signal: broadcast_recv() does not read the rank that *)
(* it carries, and beacons change nothing of the connection but the timer. *)
(***************************************************************************)
EXTENDS Integers, FiniteSets

CONSTANTS
  Node, Sink,
  Setups,            \* pairs of a topology, the <<n, m>> such that m hears n,
                     \* and the nodes whose process is followed
  REBROADCAST_TIME,  \* period of a node that heard a beacon; 10
  BEACONING_PERIOD,  \* period of the sink; 30
  Requests           \* bound: calls by applications while the network runs

ASSUME BeaconingAssumption ==
  /\ Sink \in Node
  /\ Setups \subseteq [link : SUBSET (Node \X Node), apps : SUBSET Node]
  /\ REBROADCAST_TIME \in Nat \ {0, 1}
  /\ BEACONING_PERIOD \in Nat \ {0, 1}
  /\ Requests \in Nat

VARIABLES
  setup,          \* the topology, chosen once and for all
  started,        \* the nodes that have opened their connection
  open,           \* those that have not closed it
  beacon_period,
  beacon_timer,   \* the time until it is due, or Off
  air,            \* the beacons being received, as pairs <<sender, receiver>>
  rest,           \* history: how long the node's next beacon must wait
  requests        \* how many calls there may still be

beaconVars ==
  <<setup, started, open, beacon_period, beacon_timer, air, rest, requests>>

Off == -1

BeaconInit ==
  /\ setup \in Setups
  /\ started = {} /\ open = {}
  /\ beacon_period = [n \in Node |-> 0]
  /\ beacon_timer = [n \in Node |-> Off]
  /\ air = {}
  /\ rest = [n \in Node |-> 0]
  /\ requests = Requests

\* Mutants: any time within the period; half of it and up to a whole one more.
AnyDelay(period) == 0..period - 1
LongDelays(period) == {period \div 2 + r : r \in 0..period - 1}
Delays(period) == {period \div 2 + r : r \in 0..(period \div 2) - 1}

libp_set_beacon_period(n, period) ==
  /\ beacon_period' = [beacon_period EXCEPT ![n] = period]
  /\ \E t \in IF period # 0 THEN Delays(period) ELSE {Off} :
       beacon_timer' = [beacon_timer EXCEPT ![n] = t]

\* The least time from one beacon of a node to its next.
Spacing(n) == (IF n = Sink THEN BEACONING_PERIOD ELSE REBROADCAST_TIME) \div 2

\* The timer of the sink starts again.  Mutant: with a relay's period.
RearmQuick(n) ==
  IF n = Sink THEN libp_set_beacon_period(n, REBROADCAST_TIME)
  ELSE UNCHANGED beacon_period /\ beacon_timer' = [beacon_timer EXCEPT ![n] = Off]

Rearm(n) ==
  IF n = Sink THEN libp_set_beacon_period(n, BEACONING_PERIOD)
  ELSE UNCHANGED beacon_period /\ beacon_timer' = [beacon_timer EXCEPT ![n] = Off]

\* A closed connection hears nothing.  Mutant: its broadcast connection stays.
HearsStill(n) == n \in started
Hears(n) == n \in open

\* Nothing stops the timer when the connection is closed.
send_beacon(n) ==
  /\ beacon_timer[n] = 0
  /\ Rearm(n)
  /\ air' = air \cup {l \in setup.link : l[1] = n /\ Hears(l[2])}
  /\ rest' = [rest EXCEPT ![n] = Spacing(n)]
  /\ UNCHANGED <<setup, started, open, requests>>

broadcast_recv(from, n) ==
  /\ <<from, n>> \in air
  /\ air' = air \ {<<from, n>>}
  /\ IF n = Sink THEN UNCHANGED <<beacon_period, beacon_timer>>
     ELSE libp_set_beacon_period(n, REBROADCAST_TIME)
  /\ UNCHANGED <<setup, started, open, rest, requests>>

Lost(from, n) ==
  /\ <<from, n>> \in air
  /\ air' = air \ {<<from, n>>}
  /\ UNCHANGED <<setup, started, open, beacon_period, beacon_timer, rest, requests>>

\* What an application may ask: another period, or none, for the sink's beacons,
\* and to close a connection.
Request ==
  /\ requests > 0
  /\ requests' = requests - 1

SetPeriod(period) ==
  /\ Request
  /\ Sink \in open
  /\ libp_set_beacon_period(Sink, period)
  /\ UNCHANGED <<setup, started, open, air, rest>>

libp_close(n) ==
  /\ Request
  /\ n \in open
  /\ open' = open \ {n}
  /\ air' = {l \in air : l[2] # n}
  /\ UNCHANGED <<setup, started, beacon_period, beacon_timer, rest>>

\* Time passes when nothing is due.
BeaconTick ==
  /\ air = {}
  /\ \A n \in Node : beacon_timer[n] # 0
  /\ beacon_timer' = [n \in Node |-> IF beacon_timer[n] = Off THEN Off
                                     ELSE beacon_timer[n] - 1]
  /\ rest' = [n \in Node |-> IF rest[n] = 0 THEN 0 ELSE rest[n] - 1]
  /\ UNCHANGED <<setup, started, open, beacon_period, air, requests>>
=============================================================================
