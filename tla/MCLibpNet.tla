----------------------------- MODULE MCLibpNet ------------------------------
(***************************************************************************)
(* Instances of LibpNet for TLC, on a sink, a relay and a source.  A run   *)
(* checks every network of its set of setups.                              *)
(***************************************************************************)
EXTENDS LibpNet, TLC

CONSTANTS s, r, a   \* the sink, the relay, the source

Both(n, m) == {<<n, m>>, <<m, n>>}

Direct   == Both(s, a)
Line     == Both(s, r) \cup Both(r, a)
Triangle == Line \cup Direct

\* One hop, no rare event, packets that are tried once and three times.
OneHop ==
  [routers |-> {s, a}, link |-> Direct, sources |-> {a}, rexmits |-> {1, 3},
   room |-> {TRUE}, faults |-> {}, bound |-> [send |-> 2, probe |-> 0, fault |-> 0]]

With(kind, n) == [OneHop EXCEPT !.faults = {kind}, !.bound.fault = n]

\* Lost, repeated and late frames and ACKs, a silent MAC layer, no buffers.
Hop == [With("silent", 1) EXCEPT !.room = BOOLEAN]

\* Two ways to the sink, so that the parent may change during a transmission.
TwoWays ==
  [OneHop EXCEPT !.routers = {s, r, a}, !.link = Triangle, !.rexmits = {2},
                 !.bound.send = 1]

\* A relay whose queue fills.
Relay ==
  [OneHop EXCEPT !.routers = {s, r, a}, !.link = Line, !.sources = {r, a},
                 !.rexmits = {1}, !.bound.send = 3]

\* Any one rare event on the way of a probe and a packet.
AnyFault ==
  [OneHop EXCEPT !.routers = {s}, !.rexmits = {2}, !.faults = FaultKinds,
                 !.bound = [send |-> 1, probe |-> 1, fault |-> 1]]

\* A node with two ways to the sink, one of which is measured by another's packet.
Measured ==
  [OneHop EXCEPT !.routers = {s, r}, !.link = Line \cup {<<s, a>>, <<r, a>>}, !.sources = {r},
                 !.rexmits = {1}, !.bound = [send |-> 1, probe |-> 1, fault |-> 0]]

\* A relay whose route is lost and found again: an old ACK of it may be what gives
\* the node behind it a route, and sends its next packet in mid-handler.
Reroute ==
  [With("purge", 1) EXCEPT !.routers = {s, r}, !.link = Line, !.rexmits = {1}]

\* The packets of the first two calls of libp_send() on each node.
FirstPackets == {<<a, i - 1, i>> : i \in 1..2}

DeliverySetups    == {Hop, TwoWays}
FaultSetups       == {Relay, AnyFault, Measured, Reroute}
ExpiredHeadSetups == {With("expire", 1)}
LateReportSetups  == {OneHop}
StuckQueueSetups  == {With("tick", 2)}
RebootSetups      == {With("reboot", 1)}
=============================================================================
