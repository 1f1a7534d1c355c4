# A TLA+ verification of libp

libp is a collection protocol for Contiki, derived from CTP: every node picks
a parent among its neighbours by the cost of the route through it and passes
packets to the parent, hop by hop, until they reach a sink. This directory
models the C code in `src/`, checks the models with TLC and proves some of the
results with TLAPS.

## Inventory

| Component | State | Operations | Modelled in |
|---|---|---|---|
| Link metric, `libp-link-metric.c` | per neighbour: number of estimates, weighted ETX average | `new`, `update_tx`, `update_tx_fail`, `libp_link_metric`, `num_metrics` | `LinkMetric` |
| Neighbour table, `libp-neighbour.c` | pool of 8 blocks, list threaded through them, ages | `add`, `remove`, `purge`, `find`, `best`, `update_rtmetric`, `tx`, `rx`, `tx_fail`, minute tick `periodic` | `Neighbours`, `NeighbourTable` |
| Connection, `libp.c` | rank, parent, parent in use, send queue, sequence numbers, `sending`, transmissions, retransmission timer, duplicate filter | reception, ACKs, MAC reports, announcements, three timers, `open`, `send`, `set_sink`, `purge`, `close` | `Libp` |
| Network | the frames in the radio stacks | reception, loss, repetition, reports, silence, buffer shortage, lifetimes, reboot, a connection closed | `LibpNet`, abstractly `Delivery` |
| Beaconing, `libp.c:604-615, 844-877` | beacon period and timer | `broadcast_recv`, `send_beacon`, `set_beacon_timer`, `libp_set_beacon_period` | `Beaconing` |
| Gateway tree, `tree.c`, `node.h` | `nodes[]`, first-child/next-sibling structs on the heap, search marks | `tree_init`, `add_node`, `change_node_metric`, `tree_bfs`, `clear_tree` | `Tree`, abstractly `Forest` |
| Search queue, `queue.c` | linked list on the heap, head, tail, count | `queue_init`, `queue_push`, `queue_dequeue` | `SearchQueue` |
| Example, `example-libp.c` | two event timers, the start | open, choose the sink, start the beacons, send every 30 s | `ExampleLibp`; `Opened`, `Send` of `LibpNet` |
| Makefile, `Simulations/`, `contiki/` (empty) | none | none | no |

How they interact. The application calls `libp_open`, `libp_set_sink` and
`libp_send`. A connection hands frames to Rime's unicast, which hands them to
CSMA; CSMA reports back through `node_packet_sent`, and frames of other nodes
arrive through `node_packet_received`. Ranks spread in announcements
(`received_announcement`), in the header of every data packet and in every ACK.
`libp.c` reads and writes the neighbour table on every one of these events and
the table's own timer ages it behind `libp.c`'s back. All of it runs in one
Contiki process per node, each handler to completion, so what interleaves is
handlers, timers and nodes, never statements. The beacons are a plane of their
own: a node that hears one sends its own later, but `broadcast_recv` does not
read the rank it carries, so beacons change nothing of the routing. The gateway
tree is not connected to `libp.c` either: the example calls `tree_init` on the
sink and nothing else.

What is hard. An ACK, the MAC layer's report and two kinds of timer race to end
a transmission. ACKs are lost, late and repeated; the packet in flight may run
out of lifetime; the parent may change, age out or be recycled between two
transmissions of a packet. One global packet buffer is reused inside handlers
(`update_rtmetric` can send in the middle of `node_packet_received`). Tables,
queues and the duplicate filter are small and recycle. Nodes reboot. What makes
each component correct:

- link metric: no link costs less than one transmission, no width is exceeded;
- table: one entry per address, entries in use stay, silent ones go, a full
  table gives up the worst;
- connection: the packet an ACK or timeout releases is the one that was sent,
  a transmission always ends, a queue with a route is served, ranks are sane;
- network: nothing is delivered twice or lost without being counted, and no
  packet stays in it for ever; hop fields do not wrap;
- beacons: every node in reach of another beacons again and again, none too
  often, and a closed relay falls silent;
- tree and queue: the pointers are the tree the calls describe, searches visit
  every node, nothing is freed twice.

`PROJECT.json` lists the hazards at their lines with the properties that cover
them.

## Modules

- `LinkMetric`: a metric is a record, each C function an operator on it.
- `Neighbours`: the table as a function from blocks to entries. An entry's
  `place` is its position on the list, 0 while the block is free; a free block
  keeps its link metric because nothing in the code clears it. Loops over the
  list are closed forms: the first worst entry, the first best one, and the
  tick that skips the entry behind a removed head.
- `NeighbourTable`: the table as a component, one action per operation, plus a
  history `quiet` that counts the ticks since an address was used.
- `MCNeighbourTable`: TLC instance, and the loops of `libp-neighbour.c`
  written statement by statement as a reference for the closed forms.
- `Libp`: `struct libp_conn` as a record, each function of `libp.c` an operator
  of the same name from connection to connection, calls nested in the order of
  the code. `mac` collects the frames given to the radio, `received` the
  packets given to `recv()`.
- `LibpNet`: composes one `Libp` connection per node with the radio. An action
  is one handler run. `mac` holds what CSMA has not yet reported: the first
  frame for each addressee may be received, up to as often as it may be
  transmitted, before it is reported. A frame may be reported without having been received
  (lost), received several times (link-layer ACK lost), or never reported
  (`Silent`). The long timer `retransmit_not_sent_callback` is modelled as not
  firing while a data frame is in the stack: it is set to 16 times the ordinary
  retransmission time.
- `Delivery`: what the network promises an application: a packet is held, then
  delivered once or counted as given up. It knows no nodes, frames or timers.
- `MCLibpNet`: the networks TLC checks. A `setup` is a topology with its sources,
  the transmissions they ask for, the faults that may happen and how many; it is
  chosen in `Init` and never changes, so one run covers several networks.
- `SearchQueue`: `queue.c` as a record with the items of the heap. `free` only
  returns an item to the list `malloc` takes from; its contents stay, so the
  push that writes through a dangling `tail` is modelled as the program does it.
  Where a freed item goes in the list is chosen once: first, last, or by address.
- `Tree`: `tree.c`. Calls come one at a time; `add_node`, `change_node_metric`
  and `tree_init` are one step each, the searches one step per turn of a loop,
  with the recursion of `dfs_clear` as a `stack`. A second `free` of a struct
  leads to `running = "undefined"`, where nothing happens any more.
- `Forest`: the same calls on sequences of children, without pointers.
- `Beaconing`: the beacon timers in discrete time. A timer that is due is served
  and a beacon on the air is heard or lost before time passes.
- `ExampleLibp`: composes `Beaconing` with the process of `example-libp.c`: the
  start of every node, and the two timers of the sending loop.
- `MCExampleLibp`: a line of three nodes, and one node's process alone.
- `Neighbours_proofs` (with the lemmas about `LinkMetric`),
  `NeighbourTable_proofs`, `Libp_proofs`, `LibpAcks_proofs` (what the functions of
  `Libp` do to sequence numbers, ACKs and the packets on a node's books),
  `LibpNet_proofs`, `SearchQueue_proofs`,
  `Tree_proofs`, `ExampleLibp_proofs`: the proofs.

### The two refinements

`LibpNet` implements `Delivery` (`DeliverySpec`): `held` is the set of packets in
some send queue, `delivered` what the sink's application received, in order, and
`givenUp` what some node has counted in `stats.timedout` or `stats.ttldrop` (the
history `dropped`). Each step of a handler is one step of `Delivery` or none: the
sink's reception is `Deliver`, the ACK that releases a packet is `Release`, a
timeout is `GiveUp`. Two steps of `Delivery` exist only because frames outlive
queue entries: a frame on its way may deliver a packet that was given up, and may
make a relay hold one that was already given up or delivered (`HoldAgain`). For
the same reason `GiveUp` does not say that the packet is held: an old frame
can reach a relay with no hop left after its sender, by another way, has had the packet
delivered and released it; the relay then counts in `stats.ttldrop` a packet that
nobody holds any more and the sink has (`libp.c:481-488`). The proof asked
for this case, and TLC shows it in `TwoWays` with two packets of three transmissions
and one hop.
`DeliveryResolved` adds that no packet is held for ever.

`Tree` implements `Forest` (`ForestSpec`): `children` is the list of siblings
that starts at a node's `firstchild`, read as identities, `known` the entries of
`nodes[]`, `counts` is `calculated[]`. The steps of the searches between two
writes of `calculated[]` stutter.

External parts are modelled from how `libp.c` uses them: `memb` and `list`
(first free block, order of the list), `malloc` and `free`, `packetqueue` (a bounded FIFO whose
items expire by themselves), Rime unicast and CSMA (as above), announcements
(any neighbour on a link may hear the current value, at any time).

Abstractions: contents of packets, statistics, tracing, lengths of timers,
`bump_advertisement` (it only hastens an announcement), `penalty` and the
congestion timer of a neighbour (no computation reads them).
`announcement = NoValue` is a node whose announcement was never given a value.

## Runs

| Run | Question | Bounds |
|---|---|---|
| `neighbours` | table invariants, recycling, ageing and what the tick misses, closed forms = loops | 4 addresses, 3 blocks (so that the table fills and recycles), `MAX_AGE` 2, `MAX_LM_AGE` 1, ages to 3, one transmission report (1 or 200, the latter wraps when doubled), ranks 0 and 503 |
| `delivery` | does the network deliver as `Delivery` says, under lost, repeated, late frames and ACKs | `Hop`: 2 packets of 1 or 3 transmissions, 2 receptions per frame, a silent MAC layer once, buffers or none; `TwoWays`: 3 nodes in reach of each other, 1 packet of 2 transmissions, the parent may change meanwhile |
| `faults` | queue limits, hops and losses behind a relay; types, ranks and closed connections under any one rare event; a packet buffer overwritten in mid-handler | `Relay`: line of 3, 2 sources, 3 packets, queue of 2; `AnyFault`: 1 packet, 1 probe, one of silent/expire/tick/purge/sink/close/reboot; `Measured`: two ways to the sink, 1 packet, 1 probe; `Reroute`: line of 3, 2 packets, 1 purge |
| `tree` | is the heap the tree the calls describe, do searches and `clear_tree` end and miss nothing | 4 identities, 4 calls, 6 items, 8 structs, 3 allocators |
| `example` | do beacons spread, not too often, and stop, beside a loop that sends | line of 3 that start in any order, delays of 2-3 and 6-11 units, 2 calls of an application; the loop alone with a period of 6 |
| `stale_estimate`, `two_packets`, `expired_head`, `late_report`, `stuck_queue`, `reboot`, `clear_tree` | a comment of the code against the code | as small as the counterexample needs |

The bounds on sends, probes and faults are guards (`left`, from the setup's
`bound`), as are those on receptions, ticks and calls (`MaxCopies`, `AgeBound`,
`MaxTx`, `Requests`, `Calls`, `MaxItems`). Two packets let one be acknowledged
while the other waits, which is what a misattributed ACK or report needs. Two
receptions of a frame give duplicates. Three transmissions need a second round
of the MAC layer, which makes at most two. In `delivery` the filter
remembers one packet, so the second packet makes it wrap. `faults` is bounded to one event because every
pair multiplies the states and each event's own effect is what its properties
are about. `Measured` has a second way whose cost changes when another neighbour
is probed, so that a parent kept from a probe would be a wrong one; `Reroute` has the
purge that leaves a node without a route while its next packet waits, so that the ACK
which brings the route back also sends that packet, over the buffer it came in. Four calls build three levels of a tree, replace a node that has
children and still search or clear it; a search never holds more than five
items, so neither heap is ever exhausted. The beacon periods keep their ratio of one to three.

Deadlock checking is off where a system may really stop: in `faults` (when the
sink's connection is closed nobody announces), in `tree` and `clear_tree` (the
calls run out), in `example` (no node has to open its connection, and beacons
may have been stopped).

What the passing runs show. In `delivery` no packet is lost without being
counted and none is delivered twice; an ACK of the sink means the application
has the packet; every ACK that would be accepted answers the packet at the head
of the queue, and a packet that leaves a queue was answered or counted
(`ReleasesAnswered`); the application gets no packet twice within the reach of the
filter (`RepeatsApart`); every packet leaves the network. `AckIsForHead` and
`ReleasesAnswered` hold there because no lifetime runs out: `expired_head` shows
the failure when one does.
`DeliverySpec` is about networks whose nodes stay up and whose packets do not
outlive their lifetime: an expired lifetime, `libp_close`, a reboot and a node made
a sink empty queues without counting. `AcksAreHonest` holds because nobody reboots: `reboot` shows the failure.
`faults` shows the queue entries that stay free of forwarded packets:
`MIN_AVAILABLE_QUEUE_ENTRIES - 1` of them, one fewer than the name suggests,
because the test at `libp.c:466` is `<=`; that a packet leaves the last queue that
holds it only when an application has it or a node has counted it (`NothingLost`,
unless one of the events that empty queues happens); that a node's rank
is its parent's as the table has it after every handler but the tick of the table
(`RanksStayCurrent`), also when another parent was lent to a probe; and that the
timers `libp_close` leaves running send nothing but probes. `neighbours` shows that
what the tick misses by moving past a new head is one entry at most, and that this
one is the head of the list (`OverdueAtHead`): there it is not removed, but it
keeps the tick from missing another. `tree` shows that two faults of the code
do no harm: the stray `;` at `tree.c:57` (a child is searched again, but counted
for each parent once per search, so the counts are right), and the tail that
`queue_dequeue` leaves dangling (the item it writes to is free, or is the very
item `malloc` just returned), under the assumption that `free` leaves the contents
of an item alone. `clear_tree` visits every node, but frees some
twice. `example` shows that beacons of both neighbours do not silence a relay,
that every beacon waits for half a period, and that a closed relay falls silent.

`libp.c:349` is the place where `update_rtmetric` may send in the middle of
`node_packet_received` and overwrite the packet buffer. `Reroute` gets there, and
`NothingLost` holds in it. No network of `delivery` does: that needs a third node behind a
relay, and `LiveSpec` repeats only the sink's announcements, so such a network
is not one for `DeliveryResolved`. For `AckIsForHead`, `ReleasesAnswered` and `DeliverySpec`
the case rests on the theorems `AcksMatchHead`, `ReleasesMatch` and
`DeliveryImplemented`, which are about all networks.

What the violations show is in the `findings` of `PROJECT.json`:

- `libp_link_metric_new` leaves the estimate of the block's previous owner;
- the example's loop sends two packets in a period, because an event timer that was
  served stays expired and the event of `periodic` sends, too;
- an expired packet's ACK or timeout releases the next packet unsent;
- a late report is charged to the next packet and can drop it;
- a queue waits although there is a new route;
- the packets of a rebooted node are acknowledged as duplicates and lost;
- `clear_tree` frees a struct twice.

Seen in the code and not counted as findings: when the head of the list and the
entry behind it reach `MAX_AGE` in the same tick, `periodic` removes the one and
moves past the other, whose age then never equals `MAX_AGE` again
(`libp-neighbour.c:63-66`; until it wraps at 2^16), so that it stays in the table as long as
nothing recycles, purges or refreshes it (`ClosedForms` compares this with the loop of the code,
`OverdueAtHead` bounds it); `libp_set_sink(c, 1)` stops the
timer and leaves `sending` set, so that a node made a sink while it sends would
never send again once made a node, but nothing in the repository demotes a sink;
where relays hear each other and the sink, unlucky delays can postpone a relay
again and again (5 to 10 s after every beacon heard, and there is always one
sooner), so `BeaconsSpread` is checked in a line; a sink whose connection was
closed beacons for ever; when the filter wraps because of another originator, a
packet whose ACK was lost is delivered a second time (two sources next to the
sink and a filter of one show it, with the 16 entries of the code it takes that
many packets between two transmissions).

Fairness. `LiveSpec` of `LibpNet`: a node's MAC layer reports on a frame some
time (unless it is `Silent`), a timer that is due fires, and a node in reach of
the sink hears its announcement some time. The first is what CSMA does, the
second what Contiki's `ctimer` does, the third that the sink announces again and
again. Nothing is assumed about data: every frame and every ACK may be lost. The
formulas are weak fairness with ENABLED written out: a report is possible
whenever `mac` is not empty, because the number of transmissions has a value at
least `heard`, a timer action is enabled whenever `TimerDue(n)`.
`LiveSpec` of `Tree`: a function that was called goes on, which is what a
sequential program does. `LiveSpec` of `ExampleLibp`: timers are served and time
passes (weak), and a relay to which beacons are sent again and again hears some
(strong: loss is random, not an adversary). No node has to start and no
application has to call anything.

## Proofs

Assumptions are the named `ASSUME`s of the modules, which TLC evaluates on
each run: `NullAddr` is no address, sizes are positive, ages and counts fit the
widths the code gives them, `MIN_AVAILABLE_QUEUE_ENTRIES` is at most one more
than the queue has entries.

### The neighbour table

`NeighbourTable_proofs` proves for all sets of addresses, any number of
blocks and any `MAX_AGE`, `MAX_LM_AGE`, ranks and counts:

- `TypeCorrect`, `AddressesUnique`, `CostsSane`, `BestIsRight`: `TypeOK`,
  `UniqueAddr`, `CostsAreSane` and `BestIsTotal` are invariants;
- `EvictionIsRight`, `OnlySilentDropped`: the action properties
  `EvictsOnlyWorse` and `DropsOnlySilent`;
- `OverdueFirst`: `OverdueAtHead` is an invariant.

All but the last follow from the inductive invariant `IInv`, the conjunction of

- `TypeOK`;
- `GoodTable`: `Sane` (an estimated link costs between one and 255
  transmissions), `Unique` (no two entries for one address) and `Ordered` (no
  two entries at one place of the list). `Unique` needs `Ordered`: if two
  entries shared a place both could be the `Worst`, and recycling would give
  the newcomer's address to both;
- `LowRanks`: what neighbours report stays far enough below 2^16 for the sum
  with a link's cost not to wrap. Its bound, `RTMETRIC_MAX + 11`, is the one
  `RankBound` checks for the ranks nodes announce;
- `QuietIsAge`: the history of a listed address is its entry's age.
  `DropsOnlySilent` is about the history and the code looks at the age.

`Neighbours_proofs` has a lemma per operation (each keeps `GoodTable`, and what
it does to the entries); it starts with the bounds of the average.
`BestIsRight` needs a least element: the costs of the listed entries are a
non-empty set of naturals, and so are the places of the cheapest of them
(`LeastCost`); `Ordered` makes that entry the only one. `OverdueAtHead` is inductive
together with `IInv`: adverts and transmissions make an entry young and leave the others
where they are or move them up (`HeadKept`); of the tick, everything at `MAX_AGE` goes but
the entry behind a removed head, and that one is the head afterwards (`BecomesHead`).

### The connection and the network

`LibpNet_proofs` proves for every set of nodes, every topology and all bounds on
sends, probes and faults:

| Theorem | Property | For which networks |
|---|---|---|
| `TypeCorrect` | `TypeOK` | all |
| `RanksBounded` | `RankBound` | all |
| `HopsBudgeted` | `HopBudget` | all |
| `QueueReserved` | `ForwardReserve` | all |
| `ClosedSilent` | `ClosedOnlyProbes` | all |
| `RanksCurrent` | `RanksStayCurrent` | all |
| `SendersArmed` | `SendingArmed` | no sink is demoted (`SinkForGood`) |
| `SinkHonest` | `AcksAreHonest` | no reboot, no change of sink, no more than 256 sends (`Lasting`) |
| `AcksMatchHead` | `AckIsForHead` | no lifetime runs out, no close, reboot or change of sink, no `seqno` wraps (`Steadily`) |
| `ReleasesMatch` | `ReleasesAnswered` | the same |
| `RepeatsFiltered` | `RepeatsApart` | no reboot, no change of sink (`Remembering`) |
| `NoneLost` | `NothingLost` | `Steadily`, `Lasting`, and data frames go down one fixed order of the nodes (`Downhill`) |
| `NoneLostInLayers` | `NothingLost` | `Steadily`, `Lasting`, and no node hears a router above it (`Layered`) |
| `DeliveryImplemented` | `DeliverySpec` | `Steadily`, `Lasting`, the sink sends nothing (`Delivering`), `Downhill`, and the sink remembers what comes to it again (`Unforgotten`) |
| `DeliveryInLayers` | `DeliverySpec` | `Steadily`, `Delivering`, `Layered`, and no more packets sent in all than the filter has entries (`FewEnough`) |

The hypotheses are needed. A node made a sink and a node again while it is
sending stays `sending` with no timer, so `SinkForGood` says that there are no
changes of sink or at most one rare event. A sink that reboots forgets what it
has delivered, a node that reboots starts its `eseqno` again (`reboot` shows what
follows), and after 256 sends `eseqno` comes back to 128: the duplicate
filter then takes a new packet for an old one. `RepeatsFiltered` allows that: it
is about what is delivered, and a packet wrongly taken for a duplicate is not.
An expired lifetime (`expired_head`), `libp_close`, `libp_set_sink` and a reboot
take the head from the queue and keep its `seqno`, and `seqno` has one byte: after
256 packets an old ACK would be taken for a new one. That it does not wrap is an
assumption about the behaviour (`SeqnosGrow`, no step makes a `seqno` smaller)
and not about the number of sends, because forwarded packets and probes are
counted, too.

The inductive invariant `Inv` is the conjunction over the nodes of `NodeInv`:

- `SoundConn`: the types, which know the node's `Place` in the network: a parent,
  an entry of the table and the addressee of a data frame are nodes whose rank it
  may come to know (`near`), and only a router announces one. Every queued or
  flying packet is `Budgeted` (its hops made and left sum to `MAX_HOPLIM + 1`, or
  it is a probe), every rank a node has, announces, remembers or puts in a frame
  is below `RankLimit`, and the table is a `GoodTable`. Ranks travel from table to
  rank to frame and announcement to the next table, so none of the four can be
  bounded without the others;
- `Reserved`, the queue limit, which is `ForwardReserve` per node;
- a closed connection queues only probes;
- `Armed`, which is `SendingArmed` per node, or the node is a sink and no rare
  event is left that could demote it;
- under `Lasting`, `eseqno` is the number of packets sent, so that an identity
  determines its packet, and `HonestSink`: what the sink's filter remembers has
  been delivered, and so has what its ACKs on the air answer without `DROPPED`.

`Libp_proofs` has one lemma per function of `libp.c`, in the order of its calls:
what it keeps (`Kept`), what it adds to queue and radio (`Handled`, `Serves`) and
that the result is sound. TLC checked `Inv` on the networks of `faults` and
`delivery` before it was proved.

`ClosedSilent` is about every frame a closed connection has in the stack, new or old: a
handler adds only frames whose packet is in its queue (`SentFrom`), and changes of the
others no more than what was heard of them (`Quiet`).

`RanksCurrent` needs a fact about each function that touches the rank, the parent,
the table or the announcement: it ends in `update_rtmetric`, which leaves them together
(`UpdateCurrent`), or leaves them as they were (`SameRank`). Of the second kind is
`proactive_probing_callback`, where the lent parent is given back; and
`libp_purge`, which forgets the parent after `update_rtmetric`, when the table is empty
and there is none.

`AcksMatchHead` rests on a second invariant, `FramesInOrder`. Every data frame on the air
that carries its sender's current `seqno` has the packet at the head of the
sender's queue, and a frame with a smaller one is from the past (`Numbered`). An
ACK repeats the `seqno` of the frame it answers, so the same holds of an ACK and
the node it goes to. The head leaves the queue only in `send_next_packet`, which
counts `seqno` up, and packets join it only at its tail. The lemmas
of `LibpAcks_proofs` follow a connection through one handler with exactly these
three facts; the case that takes most care is `node_packet_received`, where
`update_rtmetric` may send in the middle and the rest of the handler reads its own
node's frame from the buffer. The lemmas also say what accounts for each packet
that left (`Accounts`): it was a probe, it was counted as given up, or the
handler was given an ACK whose packet is at the head, which is `ReleasesMatch`.

`RepeatsFiltered` follows from `Window`: the duplicate filter is the sequence of
the last `NUM_RECENT_PACKETS` packets of others that were delivered. `Deliver` adds to
both, and only what the filter does not have; a packet of the sink's own adds to
what was delivered and not to the filter, which only moves repetitions apart.

`NoneLost` needs more than that the ACK which releases a packet was answered: it
needs that the packet is still somewhere when the ACK arrives. The invariant
`Keeping(level)` says so for a fixed order of the nodes, `level`: an ACK goes up
(`Upward`), and what an ACK on the air or a duplicate filter stands for is
settled, or in a queue no higher than its node (`PromisesKept`). A node that
releases a packet is above the one that answered, so its own queue is not the one
that backs the answer. It is here that a loop of routes breaks the argument: a
packet that comes back is answered from the filter of a node that has passed it
on, and the only queue that holds it may be the one the ACK empties.

`NoneLostInLayers` replaces the condition on the behaviour by one on the network.
A node learns ranks from announcements alone, those come from routers and
the sink, and a sink takes no parent; hence, by `SoundConn`, every data frame goes to
a router or sink its sender hears, and `Layered` makes those lie below it. That
covers one hop around a sink, as in `AnyFault`, and two where relays do not hear
each other and sources are no routers. Where two routers hear each other either
may become the other's parent, and only the ranks decide: there `Downhill` is a
condition on what happens, and `NoneLost` says that its failure is the only way
to lose a packet uncounted.

`DeliveryImplemented` is the refinement: in such networks every step of `LibpNet`
is a step of `Delivery` or leaves alone what `Delivery` sees. The proof goes from
a handler to the network in three stages.

- What a handler does to the books of its node, which are its queue, what it
  counted, what its application got and how much it sent (`LibpAcks_proofs`). A handler
  calls many functions that change other fields (`SameBooks`), and between them
  at most one of five things happens: the head leaves the queue (`Settles`, with
  or without being counted), or a packet joins the queue (`Enqueues`), is counted
  (`Counts`), is given to the application (`Hands`) or is the next one of
  the node's own (`Sends`).
- What one step does to the books of all nodes (`OneBooks`): one node
  does one of these things, and the packet it takes on came in a frame. The
  invariant `Traceable` says that such a packet is known, in a queue or settled, that
  every known packet was sent by its originator, and that no node but the
  sink delivers. Hence a packet that `libp_send` numbers is new, which is the guard of
  `Take`; that needs `eseqno` not to wrap, which is in `Lasting`.
- Which step of `Delivery` this is: a packet that joins a queue is `HoldAgain`, `Take`
  or none, one that leaves is `Release`, `GiveUp` or none. A head that
  leaves the last queue uncounted must have been settled before, which is `Keeping`;
  a packet given to the application must not have been delivered before, which is
  `Unforgotten`.

`Unforgotten` is a condition on what happens: a delivered packet that some data
frame carries to the sink again is still in the sink's filter. It is not enough to
bound the packets on their way at one time: while one frame waits in a radio stack
any number of others may pass and wrap the filter. What is enough is to
bound all that are sent, and that is `DeliveryInLayers`: what is known and what may
still be sent are together no more than `bound.send` (`FewSent`), so that by
`Window` nothing the sink has got has left its filter (`FewRemembered`). That theorem
has no condition on the behaviour but `Steadily`. The network `Hop` of
`delivery` is of its kind but for the size of the filter, which the run makes
smaller than the number of packets; `TwoWays` is of the other kind, because its two
routers hear each other.

### The search queue and the tree

`Tree_proofs` proves for any number of identities, structs, items and
calls, and each of the three allocators:

- `TypeCorrect`, `QueueLinked`, `NothingMissed`: `TypeOK`, `QueueIsList` and
  `CallsComplete`;
- `Refinement`: `Tree` implements `Forest` (`ForestSpec`). Every step is a step
  of `Forest` or changes nothing of it, one lemma per kind (`AddForest`,
  `MetricForest`, `CountForest`, `ForgetForest`, `Alone`).

In `SearchQueue_proofs` a queue `Holds` a sequence of values when some sequence
of items, linked from head to tail, carries them, and the free list is the
rest. That is enough for `queue_dequeue`; for `queue_push` one has to know what
lies behind the tail, because it writes there when the queue has just become
empty: `Returns` says where each allocator puts an item back, and hence that the
dangling tail is free or the item just allocated.

The inductive invariant `IInv` of the tree has five parts:

- types;
- the heap: sibling chains do not run in circles, which is stated with a rank
  for each struct that falls along the pointers, so that chains through freed
  structs have an end, too; each entry of `nodes[]` is found; and, while
  nothing is being cleared, each child belongs to one parent and is known;
- progress of a search: what was visited is counted, being counted, or in the
  queue. `CallsComplete` is this with an empty queue;
- the counting of children in turn;
- the stack of `dfs_clear`.

### Beacons and the example

`ExampleLibp_proofs` proves for all topologies, any number of nodes and all
periods of two units or more: `TimersTyped`, `BeaconsSpaced`, `TwoPackets` and
`ClosedRelaysEnd` (`TypeOK`, `BeaconSpacing`, two packets in every period where
`OnePerPeriod` has one, and `ClosedFallsSilent`). The inductive invariant is the conjunction of

- `BeaconTypes`, which has that only open connections are about to hear a
  beacon: `ClosedFallsSilent` needs it, since hearing is what starts a timer;
- `Spaced(n)`: a timer that runs is due within the period, and not before `rest`
  is over; `rest` is never longer than the least delay of a new timer, so that
  setting the timer again, at any time, keeps the distance. `BeaconSpacing` is
  this at the moment the timer is due;
- `LoopInv`: in the loop, `et` is due before `periodic`, and a packet was sent
  since `periodic` was set exactly if `et` has expired. The event of `periodic`
  then finds `et` expired and sends the second.

### Only model-checked

- `BeaconsSpread`, `DeliveryResolved`, `CallsEnd`: liveness under fairness is out
  of the prover's reach, and so is ENABLED.
- `ClosedForms`: its reference loops are recursive operators, which the prover
  cannot use.
- `DeliverySpec` in networks outside the hypotheses of `DeliveryImplemented`, where
  it does not hold in general: a frame that outlasts the sink's filter delivers
  its packet twice, and a packet that returns to a node in a loop is
  acknowledged there as a duplicate, and released without being held, delivered
  or counted anywhere. The bounds of the runs leave neither room.

## Plan

Done: all components of the inventory that have state, their runs, and the
proofs above. Left, most important first:

1. A condition on the radio instead of `Unforgotten` for networks that send more
   packets than the filter has entries. That few packets are on their way at a
   time does not suffice (see above); a bound on how many receptions
   of the sink one frame can outlast would.
2. `DeliverySpec` for networks whose data frames may go in loops is no theorem; a
   run large enough to show the loss would be the better answer than a proof.

## Not modelled

- `bump_advertisement` and the timing of announcements, which only affect how
  soon things happen; the lengths of the retransmission timers, except that the
  long one outlasts a frame.
- The wrap of `eseqno` (128 packets of one node); a loop of three nodes with stale
  ranks (`libp.c:442`), which is more than TLC can search with the sends it needs.
- `root`, `get_root`, `advertised[]` and `change_node_parent` of `tree.c`: unused
  or empty. A node added under itself is not an input `Tree` considers; the
  search would not end.
- The monitoring process of the example, which does nothing, and all output.
- The README of the repository says that nodes choose the parent with the
  fewest supporting children. No code computes with children:
  `children_accumulator` is never read and `update_parent` compares ranks and link
  costs, so there is nothing of it to model.
