------------------------- MODULE ExampleLibp_proofs -------------------------
(***************************************************************************)
(* Proofs about the timers of the beacons and of the example's loop, for   *)
(* every topology, every number of nodes and every length of the periods.  *)
(***************************************************************************)
EXTENDS ExampleLibp, TLAPS

USE DEF Off, Expired, None

-----------------------------------------------------------------------------
(* The inductive invariant.                                                *)

\* Types, and only open connections are reached by a beacon.
BeaconTypes ==
  /\ setup \in Setups /\ air \subseteq setup.link
  /\ open \subseteq started /\ started \subseteq Node
  /\ \A l \in air : l[2] \in open
  /\ beacon_period \in [Node -> {0, REBROADCAST_TIME, BEACONING_PERIOD}]
  /\ beacon_timer \in [Node -> Int]
  /\ rest \in [Node -> Nat]

\* A timer that runs is due within the period, and not before the node may
\* send again.  The wait is never longer than the least delay of a new timer,
\* so that a timer that is set anew keeps the distance, too.
Spaced(n) ==
  /\ beacon_timer[n] \in {Off} \cup 0..beacon_period[n] - 1
  /\ rest[n] <= Spacing(n)
  /\ beacon_timer[n] # Off => rest[n] <= beacon_timer[n]

\* In the loop periodic runs, et is due before it, and a packet was sent since
\* periodic was set if et has expired.
Looping ==
  /\ periodic \in 0..PERIOD
  /\ \/ et = Expired /\ sent = 1
     \/ et \in 0..PERIOD - 1 /\ et < periodic /\ sent = 0

LoopInv ==
  /\ at \in {"start", "settle", "loop"}
  /\ at # "start" => setup.apps \subseteq started
  /\ at = "start"  => et = Expired /\ periodic = Expired
  /\ at = "settle" => et \in 0..SETTLE /\ periodic = Expired
  /\ at = "loop"   => Looping
  /\ inPeriod \in {None, 2}

IInv == BeaconTypes /\ (\A n \in Node : Spaced(n)) /\ LoopInv

-----------------------------------------------------------------------------
(* Setting a timer.                                                        *)

\* Every delay of a period is at least half of it and less than the whole.
LEMMA DelayBounds ==
  ASSUME NEW period \in Nat \ {0, 1}, NEW t \in Delays(period)
  PROVE  t \in period \div 2 .. period - 1
BY DEF Delays

\* A timer of node n set for its own period keeps n spaced, whatever n still
\* had to wait, as long as that is no more than half the period.
LEMMA SetSpaced ==
  ASSUME BeaconTypes, NEW n \in Node, NEW period,
         period = 0 \/ period = IF n = Sink THEN BEACONING_PERIOD ELSE REBROADCAST_TIME,
         libp_set_beacon_period(n, period),
         rest' \in [Node -> Nat], rest'[n] <= Spacing(n)
  PROVE  /\ beacon_period' \in [Node -> {0, REBROADCAST_TIME, BEACONING_PERIOD}]
         /\ beacon_timer' \in [Node -> Int]
         /\ Spaced(n)'
         /\ \A m \in Node \ {n} : /\ beacon_timer'[m] = beacon_timer[m]
                                  /\ beacon_period'[m] = beacon_period[m]
<1>1. /\ period \in {0, REBROADCAST_TIME, BEACONING_PERIOD}
      /\ period \in Nat /\ period # 1
  BY BeaconingAssumption
<1>2. beacon_period' = [beacon_period EXCEPT ![n] = period]
  BY DEF libp_set_beacon_period
<1>3. PICK t : /\ t \in IF period # 0 THEN Delays(period) ELSE {Off}
               /\ beacon_timer' = [beacon_timer EXCEPT ![n] = t]
  BY DEF libp_set_beacon_period
<1>4. CASE period = 0
  <2>1. t = Off
    BY <1>3, <1>4
  <2> QED
    BY <1>1, <1>2, <1>3, <1>4, <2>1 DEF BeaconTypes, Spaced, Spacing
<1>5. CASE period # 0
  <2>1. t \in period \div 2 .. period - 1
    BY <1>1, <1>3, <1>5, DelayBounds
  <2>2. Spacing(n) = period \div 2 /\ Spacing(n)' = Spacing(n)
    BY <1>5 DEF Spacing
  <2>3. t \in Nat /\ rest'[n] <= t
    BY <1>1, <2>1, <2>2
  <2> QED
    BY <1>1, <1>2, <1>3, <2>1, <2>2, <2>3 DEF BeaconTypes, Spaced
<1> QED
  BY <1>4, <1>5

\* A node whose timer, period and wait stay as they are stays spaced.
LEMMA KeepSpaced ==
  ASSUME NEW n \in Node, Spaced(n), beacon_timer'[n] = beacon_timer[n],
         beacon_period'[n] = beacon_period[n], rest'[n] = rest[n]
  PROVE  Spaced(n)'
BY DEF Spaced, Spacing

-----------------------------------------------------------------------------
(* The steps of the beacons keep BeaconTypes and every node spaced.        *)

BeaconInv == BeaconTypes /\ \A n \in Node : Spaced(n)

\* Half of each period is a natural number.
LEMMA SpacingNat == \A n : Spacing(n) \in Nat
BY BeaconingAssumption DEF Spacing

LEMMA StartSpaced ==
  ASSUME BeaconInv, NEW n \in Node, Start(n)
  PROVE  BeaconInv'
<1>1. /\ setup' = setup /\ air' = air /\ rest' = rest
      /\ open' = open \cup {n} /\ started' = started \cup {n}
  BY DEF Start
<1>2. CASE n = Sink
  <2>1. libp_set_beacon_period(n, BEACONING_PERIOD)
    BY <1>2 DEF Start
  <2> QED
    BY <1>1, <1>2, <2>1, SetSpaced, KeepSpaced DEF BeaconInv, BeaconTypes, Spaced
<1>3. CASE n # Sink
  <2>1. UNCHANGED <<beacon_period, beacon_timer>>
    BY <1>3 DEF Start
  <2> QED
    BY <1>1, <2>1, KeepSpaced DEF BeaconInv, BeaconTypes
<1> QED
  BY <1>2, <1>3

LEMMA SendSpaced ==
  ASSUME BeaconInv, NEW n \in Node, send_beacon(n)
  PROVE  BeaconInv'
<1>1. /\ setup' = setup /\ open' = open /\ started' = started
      /\ air' \subseteq setup.link /\ \A l \in air' : l[2] \in open
      /\ rest' = [rest EXCEPT ![n] = Spacing(n)]
  BY DEF send_beacon, Hears, BeaconInv, BeaconTypes
<1>2. rest' \in [Node -> Nat] /\ rest'[n] = Spacing(n) /\ Spacing(n) <= Spacing(n)
  BY <1>1, SpacingNat DEF BeaconInv, BeaconTypes
<1>3. \A m \in Node \ {n} : rest'[m] = rest[m]
  BY <1>1 DEF BeaconInv, BeaconTypes
<1>4. CASE n = Sink
  <2>1. libp_set_beacon_period(n, BEACONING_PERIOD)
    BY <1>4 DEF send_beacon, Rearm
  <2> QED
    BY <1>1, <1>2, <1>3, <1>4, <2>1, SetSpaced, KeepSpaced DEF BeaconInv, BeaconTypes
<1>5. CASE n # Sink
  <2>1. /\ beacon_period' = beacon_period
        /\ beacon_timer' = [beacon_timer EXCEPT ![n] = Off]
    BY <1>5 DEF send_beacon, Rearm
  <2>2. Spaced(n)'
    BY <1>2, <2>1, SpacingNat DEF BeaconInv, BeaconTypes, Spaced, Spacing
  <2>3. \A m \in Node \ {n} : beacon_timer'[m] = beacon_timer[m]
    BY <2>1 DEF BeaconInv, BeaconTypes
  <2> QED
    BY <1>1, <1>2, <1>3, <2>1, <2>2, <2>3, KeepSpaced DEF BeaconInv, BeaconTypes
<1> QED
  BY <1>4, <1>5

LEMMA HearSpaced ==
  ASSUME BeaconInv, NEW from \in Node, NEW n \in Node, broadcast_recv(from, n)
  PROVE  BeaconInv'
<1>1. /\ setup' = setup /\ open' = open /\ started' = started /\ rest' = rest
      /\ air' \subseteq setup.link /\ \A l \in air' : l[2] \in open
  BY DEF broadcast_recv, BeaconInv, BeaconTypes
<1>2. CASE n = Sink
  <2>1. UNCHANGED <<beacon_period, beacon_timer>>
    BY <1>2 DEF broadcast_recv
  <2> QED
    BY <1>1, <2>1, KeepSpaced DEF BeaconInv, BeaconTypes
<1>3. CASE n # Sink
  <2>1. libp_set_beacon_period(n, REBROADCAST_TIME)
    BY <1>3 DEF broadcast_recv
  <2> QED
    BY <1>1, <1>3, <2>1, SetSpaced, KeepSpaced DEF BeaconInv, BeaconTypes, Spaced
<1> QED
  BY <1>2, <1>3

LEMMA LostSpaced ==
  ASSUME BeaconInv, NEW from \in Node, NEW n \in Node, Lost(from, n)
  PROVE  BeaconInv'
<1>1. /\ setup' = setup /\ open' = open /\ started' = started /\ rest' = rest
      /\ UNCHANGED <<beacon_period, beacon_timer>> /\ air' \subseteq air
  BY DEF Lost
<1> QED
  BY <1>1, KeepSpaced DEF BeaconInv, BeaconTypes

LEMMA RequestSpaced ==
  ASSUME BeaconInv, Requested
  PROVE  BeaconInv'
<1>1. ASSUME NEW period \in {0, BEACONING_PERIOD}, SetPeriod(period)
      PROVE  BeaconInv'
  <2>1. /\ setup' = setup /\ open' = open /\ started' = started /\ rest' = rest
        /\ air' = air
        /\ libp_set_beacon_period(Sink, period)
    BY <1>1 DEF SetPeriod
  <2>2. Sink \in Node
    BY BeaconingAssumption
  <2> QED
    BY <1>1, <2>1, <2>2, SetSpaced, KeepSpaced DEF BeaconInv, BeaconTypes, Spaced
<1>2. ASSUME NEW n \in Node, libp_close(n)
      PROVE  BeaconInv'
  <2>1. /\ setup' = setup /\ started' = started /\ rest' = rest
        /\ UNCHANGED <<beacon_period, beacon_timer>>
        /\ open' \subseteq open /\ air' \subseteq air
        /\ \A l \in air' : l[2] \in open'
    BY <1>2 DEF libp_close, BeaconInv, BeaconTypes
  <2> QED
    BY <2>1, KeepSpaced DEF BeaconInv, BeaconTypes
<1> QED
  BY <1>1, <1>2 DEF Requested

LEMMA TickSpaced ==
  ASSUME BeaconInv, BeaconTick
  PROVE  BeaconInv'
<1>1. /\ setup' = setup /\ open' = open /\ started' = started /\ air' = air
      /\ beacon_period' = beacon_period
  BY DEF BeaconTick
<1>2. beacon_timer' \in [Node -> Int] /\ rest' \in [Node -> Nat]
  BY DEF BeaconTick, BeaconInv, BeaconTypes
<1>3. ASSUME NEW n \in Node
      PROVE  Spaced(n)'
  <2>1. /\ beacon_timer[n] # 0
        /\ beacon_timer'[n] = IF beacon_timer[n] = Off THEN Off ELSE beacon_timer[n] - 1
        /\ rest'[n] = IF rest[n] = 0 THEN 0 ELSE rest[n] - 1
    BY DEF BeaconTick
  <2>2. beacon_period[n] \in Nat /\ rest[n] \in Nat /\ beacon_timer[n] \in Int
    BY BeaconingAssumption DEF BeaconInv, BeaconTypes
  <2>3. Spaced(n)
    BY DEF BeaconInv
  <2>4. Spacing(n) \in Nat /\ Spacing(n)' = Spacing(n)
    BY SpacingNat DEF Spacing
  <2> QED
    BY <1>1, <2>1, <2>2, <2>3, <2>4 DEF Spaced
<1> QED
  BY <1>1, <1>2, <1>3 DEF BeaconInv, BeaconTypes

-----------------------------------------------------------------------------
(* The steps of the process.                                               *)

\* The start of a node starts the process at most once: setup.apps has one
\* node at most.
LEMMA StartLoop ==
  ASSUME BeaconTypes, LoopInv, NEW n \in Node, Start(n)
  PROVE  LoopInv'
<1>1. /\ setup' = setup /\ n \notin started /\ started' = started \cup {n}
      /\ UNCHANGED <<periodic, sent, inPeriod>>
  BY DEF Start
<1>2. CASE n \in setup.apps
  <2>1. at' = "settle" /\ et' = SETTLE
    BY <1>2 DEF Start
  <2>2. setup.apps \subseteq started'
    BY <1>1, <1>2, ExampleLibpAssumption DEF BeaconTypes
  <2>3. at = "start"
    BY <1>1, <1>2 DEF LoopInv
  <2> QED
    BY <1>1, <2>1, <2>2, <2>3, ExampleLibpAssumption DEF LoopInv
<1>3. CASE n \notin setup.apps
  <2>1. UNCHANGED <<at, et>>
    BY <1>3 DEF Start
  <2> QED
    BY <1>1, <2>1 DEF LoopInv, Looping
<1> QED
  BY <1>2, <1>3

LEMMA SetTimersLoop ==
  ASSUME SetTimers
  PROVE  Looping'
BY ExampleLibpAssumption DEF SetTimers, Looping

LEMMA EtEventLoop ==
  ASSUME LoopInv, EtEvent
  PROVE  LoopInv'
BY DEF LoopInv, Looping, EtEvent, Sends, beaconVars

\* When periodic is due, et has been served: the second packet of the period.
LEMMA PeriodicEventLoop ==
  ASSUME LoopInv, PeriodicEvent
  PROVE  LoopInv'
<1>1. et = Expired /\ sent = 1
  BY DEF LoopInv, Looping, PeriodicEvent
<1>2. inPeriod' = 2
  BY <1>1 DEF PeriodicEvent, Sends
<1>3. Looping'
  BY SetTimersLoop DEF PeriodicEvent
<1> QED
  BY <1>2, <1>3 DEF LoopInv, PeriodicEvent, beaconVars

LEMMA TickLoop ==
  ASSUME LoopInv, Tick
  PROVE  LoopInv'
<1>1. /\ setup' = setup /\ started' = started /\ at' = at /\ sent' = sent
      /\ inPeriod' = inPeriod /\ et # 0 /\ periodic # 0
  BY DEF Tick, BeaconTick
<1>2. /\ et' = IF et = Expired THEN Expired ELSE et - 1
      /\ periodic' = IF periodic = Expired THEN Expired ELSE periodic - 1
  BY DEF Tick, Elapsed
<1>3. CASE at = "loop"
  <2>1. Looping'
    BY <1>1, <1>2, <1>3, ExampleLibpAssumption DEF LoopInv, Looping
  <2> QED
    BY <1>1, <1>3, <2>1 DEF LoopInv
<1>4. CASE at # "loop"
  BY <1>1, <1>2, <1>4, ExampleLibpAssumption DEF LoopInv
<1> QED
  BY <1>3, <1>4

-----------------------------------------------------------------------------
(* The invariant holds, and the properties follow.                         *)

LEMMA InitInv == Init => IInv
<1> SUFFICES ASSUME Init PROVE IInv
  OBVIOUS
<1>1. BeaconTypes
  BY BeaconingAssumption DEF Init, BeaconInit, BeaconTypes
<1>2. \A n \in Node : Spaced(n)
  BY SpacingNat DEF Init, BeaconInit, Spaced
<1>3. LoopInv
  BY DEF Init, LoopInv
<1> QED
  BY <1>1, <1>2, <1>3 DEF IInv

LEMMA NextInv == IInv /\ [Next]_vars => IInv'
<1> SUFFICES ASSUME IInv, [Next]_vars PROVE IInv'
  OBVIOUS
<1>1. BeaconTypes /\ BeaconInv /\ LoopInv
  BY DEF IInv, BeaconInv
<1>2. ASSUME NEW n \in Node, Start(n) PROVE IInv'
  BY <1>1, <1>2, StartSpaced, StartLoop DEF IInv, BeaconInv
<1>3. ASSUME UNCHANGED beaconVars
      PROVE  BeaconTypes' /\ \A n \in Node : Spaced(n)'
  <2>1. BeaconTypes'
    BY <1>1, <1>3 DEF BeaconTypes, beaconVars
  <2>2. \A n \in Node : Spaced(n)'
    BY <1>1, <1>3, KeepSpaced DEF BeaconInv, beaconVars
  <2> QED
    BY <2>1, <2>2
<1>4. ASSUME UNCHANGED <<appVars, setup, started>>
      PROVE  LoopInv'
  BY <1>1, <1>4 DEF LoopInv, Looping, appVars
<1>5. CASE Settled
  <2>1. UNCHANGED beaconVars /\ at' = "loop" /\ inPeriod' = inPeriod /\ Looping'
    BY <1>5, SetTimersLoop DEF Settled
  <2>2. LoopInv'
    BY <1>1, <1>5, <2>1 DEF LoopInv, Settled, beaconVars
  <2> QED
    BY <1>3, <2>1, <2>2 DEF IInv
<1>6. CASE EtEvent
  <2>1. UNCHANGED beaconVars
    BY <1>6 DEF EtEvent
  <2> QED
    BY <1>1, <1>3, <1>6, <2>1, EtEventLoop DEF IInv
<1>7. CASE PeriodicEvent
  <2>1. UNCHANGED beaconVars
    BY <1>7 DEF PeriodicEvent
  <2> QED
    BY <1>1, <1>3, <1>7, <2>1, PeriodicEventLoop DEF IInv
<1>8. CASE Tick
  <2>1. BeaconTick
    BY <1>8 DEF Tick
  <2> QED
    BY <1>1, <1>8, <2>1, TickSpaced, TickLoop DEF IInv, BeaconInv
<1>9. CASE Due
  <2>1. UNCHANGED <<appVars, setup, started>>
    BY <1>9 DEF Due, send_beacon, broadcast_recv, Lost
  <2>2. CASE \E n \in Node : send_beacon(n)
    BY <1>1, <1>4, <2>1, <2>2, SendSpaced DEF IInv, BeaconInv
  <2>3. CASE \E from, n \in Node : broadcast_recv(from, n)
    BY <1>1, <1>4, <2>1, <2>3, HearSpaced DEF IInv, BeaconInv
  <2>4. CASE \E from, n \in Node : Lost(from, n)
    BY <1>1, <1>4, <2>1, <2>4, LostSpaced DEF IInv, BeaconInv
  <2> QED
    BY <1>9, <2>2, <2>3, <2>4 DEF Due
<1>10. CASE Requested
  <2>1. UNCHANGED <<appVars, setup, started>>
    BY <1>10 DEF Requested, SetPeriod, libp_close
  <2> QED
    BY <1>1, <1>4, <1>10, <2>1, RequestSpaced DEF IInv, BeaconInv
<1>11. CASE UNCHANGED vars
  <2>1. UNCHANGED beaconVars /\ UNCHANGED <<appVars, setup, started>>
    BY <1>11 DEF vars, beaconVars
  <2> QED
    BY <1>3, <1>4, <2>1 DEF IInv
<1> QED
  BY <1>2, <1>5, <1>6, <1>7, <1>8, <1>9, <1>10, <1>11 DEF Next

\* Types hold whatever the network, the periods and the requests are; a timer
\* that runs is due within the period it was set for (libp.c:864-866).
THEOREM TimersTyped == Spec => []TypeOK
<1>1. IInv => TypeOK
  <2> SUFFICES ASSUME IInv PROVE TypeOK
    OBVIOUS
  <2>1. BeaconTypes /\ LoopInv /\ \A n \in Node : Spaced(n)
    BY DEF IInv
  <2>2. et \in {Expired} \cup 0..SETTLE \cup 0..PERIOD - 1
    BY <2>1 DEF LoopInv, Looping
  <2>3. periodic \in {Expired} \cup 0..PERIOD
    BY <2>1 DEF LoopInv, Looping
  <2> QED
    BY <2>1, <2>2, <2>3 DEF TypeOK, BeaconTypes, Spaced, LoopInv
<1> QED
  BY <1>1, InitInv, NextInv, PTL DEF Spec

\* A node that beacons has waited for half its period since its last beacon,
\* however many beacons it heard and whatever was asked of it: each sets the
\* timer again, but never to less than that (libp.c:611-614, 864-866).
THEOREM BeaconsSpaced == Spec => BeaconSpacing
<1>1. IInv /\ [Next]_vars => [\A n \in Node : send_beacon(n) => rest[n] = 0]_vars
  BY DEF IInv, BeaconTypes, Spaced, send_beacon
<1> QED
  BY <1>1, InitInv, NextInv, PTL DEF Spec, BeaconSpacing

\* Every period that ends has had two packets, where the comment at
\* example-libp.c:77 speaks of one: whenever et expires it sends, and the event of
\* periodic sends again, since et stays expired (example-libp.c:78-98).
THEOREM TwoPackets == Spec => [](inPeriod \in {None, 2})
<1>1. IInv => inPeriod \in {None, 2}
  BY DEF IInv, LoopInv
<1> QED
  BY <1>1, InitInv, NextInv, PTL DEF Spec

\* Nothing starts the timer of a relay again once its connection is closed, so
\* that it sends one more beacon at most (libp.c:1201-1212).
THEOREM ClosedRelaysEnd == Spec => ClosedFallsSilent
<1>1. ASSUME IInv, [Next]_vars, NEW n \in started \ (open \cup {Sink})
      PROVE  beacon_timer'[n] \in {beacon_timer[n], beacon_timer[n] - 1, Off}
  <2>1. BeaconTypes /\ n \in Node
    BY <1>1 DEF IInv, BeaconTypes
  <2>2. ASSUME NEW m \in Node, NEW period, m # n, libp_set_beacon_period(m, period)
        PROVE  beacon_timer'[n] = beacon_timer[n]
    BY <2>1, <2>2 DEF libp_set_beacon_period, BeaconTypes
  <2>3. ASSUME NEW m \in Node, Start(m)
        PROVE  beacon_timer'[n] = beacon_timer[n]
    BY <2>2, <2>3 DEF Start
  <2>4. ASSUME NEW m \in Node, send_beacon(m)
        PROVE  beacon_timer'[n] \in {beacon_timer[n], Off}
    <3>1. CASE m = Sink
      BY <1>1, <2>2, <2>4, <3>1 DEF send_beacon, Rearm
    <3>2. CASE m # Sink
      BY <2>1, <2>4, <3>2 DEF send_beacon, Rearm, BeaconTypes
    <3> QED
      BY <3>1, <3>2
  <2>5. ASSUME NEW from \in Node, NEW m \in Node, broadcast_recv(from, m)
        PROVE  beacon_timer'[n] = beacon_timer[n]
    <3>1. m # n
      BY <1>1, <2>1, <2>5 DEF broadcast_recv, BeaconTypes
    <3> QED
      BY <2>2, <2>5, <3>1 DEF broadcast_recv
  <2>6. ASSUME Requested
        PROVE  beacon_timer'[n] = beacon_timer[n]
    BY <1>1, <2>2, <2>6, BeaconingAssumption DEF Requested, SetPeriod, libp_close
  <2>7. CASE Due
    BY <2>4, <2>5, <2>7 DEF Due, Lost
  <2>8. CASE Tick
    BY <2>1, <2>8 DEF Tick, BeaconTick
  <2>9. CASE Settled \/ EtEvent \/ PeriodicEvent \/ UNCHANGED vars
    BY <2>9 DEF Settled, EtEvent, PeriodicEvent, vars, beaconVars
  <2> QED
    BY <1>1, <2>3, <2>6, <2>7, <2>8, <2>9 DEF Next
<1>2. IInv /\ [Next]_vars =>
        [\A n \in started \ (open \cup {Sink}) :
           beacon_timer'[n] \in {beacon_timer[n], beacon_timer[n] - 1, Off}]_vars
  BY <1>1
<1> QED
  BY <1>2, InitInv, NextInv, PTL DEF Spec, ClosedFallsSilent
=============================================================================
