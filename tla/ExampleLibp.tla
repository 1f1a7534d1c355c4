---------------------------- MODULE ExampleLibp -----------------------------
(***************************************************************************)
(* example-libp.c: the process every node runs, here for its timing.  It   *)
(* opens the connection, starts the beacons if the node is the sink, waits *)
(* and then sends again and again.  The nodes start in any order.  What    *)
(* follows the start is modelled for the nodes in setup.apps, one at most, *)
(* whose two event timers are the only source of its events.  A timer that *)
(* is not set is expired, as Contiki's etimer_expired() has it.            *)
(***************************************************************************)
EXTENDS Beaconing

CONSTANTS
  SETTLE,  \* how long the process waits before it sends; 120
  PERIOD   \* the period of its loop; 30

ASSUME ExampleLibpAssumption ==
  /\ SETTLE \in Nat \ {0}
  /\ PERIOD \in Nat \ {0, 1}
  /\ \A u \in Setups : \A n, m \in u.apps : n = m

VARIABLES
  at,        \* where the process waits: "start", "settle", or in the "loop"
  et,        \* the time until each event timer is due, or Expired
  periodic,
  sent,      \* history: the packets sent since periodic was set
  inPeriod   \* history: the packets sent in the last complete period, or None

appVars == <<at, et, periodic, sent, inPeriod>>
vars    == <<beaconVars, appVars>>

Expired == -1
None    == -1

Init ==
  /\ BeaconInit
  /\ at = "start" /\ et = Expired /\ periodic = Expired /\ sent = 0
  /\ inPeriod = None

\* The process of n up to its first wait.
Start(n) ==
  /\ n \notin started
  /\ open' = open \cup {n}
  /\ started' = started \cup {n}
  /\ IF n = Sink THEN libp_set_beacon_period(n, BEACONING_PERIOD)
     ELSE UNCHANGED <<beacon_period, beacon_timer>>
  /\ IF n \in setup.apps THEN at' = "settle" /\ et' = SETTLE ELSE UNCHANGED <<at, et>>
  /\ UNCHANGED <<setup, air, rest, requests, periodic, sent, inPeriod>>

\* The head of the loop: both timers are set when periodic has expired.
SetTimers ==
  /\ periodic' = PERIOD
  /\ et' \in 0..PERIOD - 1
  /\ sent' = 0

Settled ==
  /\ at = "settle" /\ et = 0
  /\ at' = "loop"
  /\ SetTimers
  /\ UNCHANGED <<beaconVars, inPeriod>>

\* Any event wakes the process, and it sends if et has expired.
Sends == IF et \in {0, Expired} THEN sent + 1 ELSE sent

EtEvent ==
  /\ at = "loop" /\ et = 0
  /\ et' = Expired
  /\ sent' = Sends
  /\ UNCHANGED <<beaconVars, at, periodic, inPeriod>>

PeriodicEvent ==
  /\ at = "loop" /\ periodic = 0
  /\ inPeriod' = Sends
  /\ SetTimers
  /\ UNCHANGED <<beaconVars, at>>

Elapsed(t) == IF t = Expired THEN Expired ELSE t - 1

Tick ==
  /\ et # 0 /\ periodic # 0
  /\ et' = Elapsed(et) /\ periodic' = Elapsed(periodic)
  /\ BeaconTick
  /\ UNCHANGED <<at, sent, inPeriod>>

\* A beacon that is due, or is on the air.
Due ==
  /\ \/ \E n \in Node : send_beacon(n)
     \/ \E from, n \in Node : broadcast_recv(from, n)
     \/ \E from, n \in Node : Lost(from, n)
  /\ UNCHANGED appVars

Requested ==
  /\ \/ \E period \in {0, BEACONING_PERIOD} : SetPeriod(period)
     \/ \E n \in Node : libp_close(n)
  /\ UNCHANGED appVars

Next ==
  \/ \E n \in Node : Start(n)
  \/ Settled \/ EtEvent \/ PeriodicEvent \/ Tick \/ Due
  \/ Requested

Spec == Init /\ [][Next]_vars

\* Timers are served and time passes; and of the beacons that reach a relay again
\* and again it hears some.
LiveSpec ==
  /\ Spec
  /\ WF_vars(Settled \/ EtEvent \/ PeriodicEvent \/ Tick \/ Due)
  /\ \A n \in Node \ {Sink} :
       SF_vars(\E from \in Node : broadcast_recv(from, n) /\ UNCHANGED appVars)

-----------------------------------------------------------------------------
\* Types; and a timer that runs is due within its node's period.
TypeOK ==
  /\ setup \in Setups /\ air \subseteq setup.link
  /\ open \subseteq started /\ started \subseteq Node
  /\ beacon_period \in [Node -> {0, REBROADCAST_TIME, BEACONING_PERIOD}]
  /\ \A n \in Node : beacon_timer[n] \in {Off} \cup 0..beacon_period[n] - 1
  /\ at \in {"start", "settle", "loop"}
  /\ et \in {Expired} \cup 0..SETTLE \cup 0..PERIOD - 1
  /\ periodic \in {Expired} \cup 0..PERIOD

\* A node never sends a beacon sooner than half its period after the last,
\* whatever beacons it hears and whatever the application asks in between
\* (libp.c:611-614, 864-866).
BeaconSpacing ==
  [][\A n \in Node : send_beacon(n) => rest[n] = 0]_vars

\* As long as the sink beacons and all connections are open, every node in
\* reach beacons again and again: the beacons that restart the timer of a relay
\* (libp.c:612) do not postpone it for ever.  So it is in a line of nodes; where
\* relays hear each other and the sink, luck with the delays is needed as well.
BeaconsSpread ==
  <>[](open = Node /\ beacon_period[Sink] # 0)
    => \A n \in Node :
         []<>(rest[n] = Spacing(n) \/ \A m \in Node : <<m, n>> \notin setup.link)

\* A relay sends at most one more beacon once its connection is closed, although
\* its timer is left running (libp.c:1201-1212): nothing starts the timer again.
ClosedFallsSilent ==
  [][\A n \in started \ (open \cup {Sink}) :
       beacon_timer'[n] \in {beacon_timer[n], beacon_timer[n] - 1, Off}]_vars

\* "Send a packet every 30 seconds" (example-libp.c:77): a period of the loop has
\* one packet.
OnePerPeriod == inPeriod \in {None, 1}
=============================================================================
