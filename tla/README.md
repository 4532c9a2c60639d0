# Process bus IEC 61850: TLA+ models, checks and proofs

This directory models the IEC 61850 extension of INET 2.6 in this repository:
the GOOSE and sampled-value applications of the intelligent electronic devices
(IEDs), the VLAN-aware switching core, the port of a switch with its priority
queues, the spanning tree protocol of switches in a ring, and the protection
chain a bay is built of. TLC checks the modules on small instances; TLAPS proves
every safety invariant that holds for every value of the constants, which is every
one but `LoopFree` of the spanning tree (section 4).

Paths below are relative to `src/iec61850InetV2.6/inet/src/` unless they start
with `TestInet/` (which is in `src/iec61850InetV2.6/`).

## 1. The system

The repository is an OMNeT++ simulation: every module handles one event at a
time, at an instant of simulated time; a module reacts to a self-message (a
timer), to a message on a gate, to a direct method call of another module of the
same node, or to a lifecycle operation (start, shutdown, crash).  Nothing runs
in parallel, but the order of events of one instant, the instants at which
peers, triggers and operations come, losses on the way, and the calls nested
inside a handler make the behaviours that are hard to test.

    merging unit        P&C IED                interlocking IED    command IED
    EtherAppSv   ---->  EtherAppSv             EtherAppGoose       EtherAppGoose
                 SV     | setAlarmState()      ^       |           ^
                        v                      |       v           |
                        EtherAppGoose --GOOSE--+       +---GOOSE---+
                        (each over EtherEncapExt and EtherMACFullDuplex, through switches)

    switch:  MAC port --> MACRelayUnit <-> MACAddressTable
                              |
                              v
             EtherQueue1q = Ether1qClassifier -> 8 DropTailQueues -> PriorityScheduler -> MAC port

### Inventory

| Component | State it keeps | Operations | Interacts with | Hard behaviours | What makes it correct |
|---|---|---|---|---|---|
| `applications/ethernet/EtherAppGoose` | one timer and its kind, `sendInterval`, `seqNum`, `stChng`, `alarmState`, `destMACAddress`, node status | START and NEXT timers, `setAlarmState`, `receivePacket`, start, shutdown, crash | called by `EtherAppSv`; GOOSE frames from and to peers | events between retransmissions cancel and restart a burst; stop time inside a burst; restart inside a burst; counters that wrap | time to live exact; timer never lost; state number tells the state; interval on its ladder; every change published at once; heartbeat for ever |
| `applications/ethernet/EtherAppSv`, publisher | two timers, `seqNum`, the current sample, node status | sample timer, packet timer, start, shutdown, crash | SV frames to subscribers | two timers due at one instant, their order decided by who was armed first; restart between a sample and its packet | every packet carries the sample of its own count, counts follow each other, nothing outside the window |
| `EtherAppSv`, subscriber | alarm it last raised, count of packets, test packets, sum of delays | `receivePacket` | calls `EtherAppGoose::setAlarmState`, which toggles | verdict and toggle may part for good; forced test packets meet real dangers; lost packets | the bay hears the verdict on the last packet |
| `linklayer/ethernet/switch/MACRelayUnit` | operational flag | dispatch a frame, start, stop | calls the address table; writes to ports | order of learning and lookup; unknown destinations; one or no known members | a frame goes where its destination is, floods reach members |
| `linklayer/ethernet/switch/MACAddressTable` | a table per VLAN, ageing time, last purge | insert, lookup, list ports, purge, flush, copy, clear | called by the relay and by spanning tree protocols | entries stale after moves, ageing, purges, flushes; uninitialised port lists | entries name the port their address was last heard on |
| `linklayer/ethernet/EtherQueue1q`, `Ether1qClassifier`, `linklayer/queue/PriorityScheduler`, `SchedulerBase`, `DropTailQueue`, `PassiveQueueBase` | the queues, requests waiting in the scheduler and at each queue | classify, enqueue, request, serve, clear | MAC asks by method call; frames return as messages | the handshake of requests and frames; queues at their limit; shutdown with a frame under way | exactly one frame or request between MAC and queues; no frame stuck; priorities kept |
| `linklayer/ethernet/EtherMACFullDuplex`, `EtherMACBase` | transmit state, current frame, requested pause, three timers, link and node status | frame from the queue, end of transmission, gap, pause, PAUSE frame, cut and return of the link, lifecycle | asks the queue; channel | PAUSE in every state; the link lost while a frame is requested | timer and state fit; no ASSERT fails while the node is up |
| `linklayer/ethernet/EtherEncapExt` | counters only | encapsulate, decapsulate, register SAPs, send PAUSE | between applications and MAC | fields cut to 3 and 12 bits; control info used after it is deleted | the 802.1q tag tells VLAN and priority of the application |
| protection chain of a bay (`TestInet/src/*.ned`, `*.ini`) | the states above, frames in queues | detection, delivery, loss, repetition | three IEDs over the switch | stale frames, lost frames, answers answering each other | nobody operates without a command; the breaker follows |
| messages (`EtherGoose.msg`, `EtherSv.msg`, `EtherFrame.msg`, `Asn1.h`, `*Struct.h`) | data | - | - | widths | - |
| nodes and networks (`nodes/ethernet/Iec*.ned`, `TestInet/src`) | none | wiring | - | - | - |
| `linklayer/ieee8021d/stp/STP` with the BPDU path of `relay/Ieee8021dRelay` | per bridge: believed root and cost, root port, topology change notice; per port: role, state, age, forward delay counter, best information heard | `handleBPDU`, `handleTCN`, `handleTick` (`checkTimers`, `generateHelloBDPUs`), start, stop | BPDUs to and from neighbour bridges; opens and closes the ports of the relay; ageing time of the address table | BPDUs of several bridges cross; links and bridges fail and return; ageing of information races with the hellos that renew it | frames never go round in a circle; one tree, rooted at the lowest bridge; it is built anew after a failure |
| `linklayer/ieee8021d/rstp/RSTP`, `tester/STPTester` | roles, states and timers of its own; none | handshakes, flushing; logging | as above | - | - |
| the rest of INET 2.6 | - | - | none of it runs on the process bus | - | - |

The hazards, each at its line, are in `PROJECT.json`.

## 2. The modules

| Module | Stands for |
|---|---|
| `GooseRole` | the decision table of `EtherAppGoose::receivePacket`: which frame of which peer makes an IED of which role change or repeat its state |
| `GooseControlBlock` | abstract: a publisher keeps a state, a state number and a sequence number, and publishes every change at once under a new state number; where its counters roll over is a parameter |
| `GooseApp` | one `EtherAppGoose` |
| `GooseAppProofs` | theorems about it |
| `MacRelay` | `MACRelayUnit` together with `MACAddressTable` |
| `MacRelayProofs` | theorems about it |
| `SvStream` | abstract: a stream of packets, each with the sample of its own count, counts in order |
| `SvPublisher` | the sending half of `EtherAppSv` |
| `SvPublisherProofs` | theorems about it |
| `SvSubscriber` | the receiving half of `EtherAppSv`, joined to the abstract GOOSE publisher it calls (it extends `GooseControlBlock`, with the roll-over of the code) |
| `SvSubscriberProofs` | theorems about it |
| `CommandChain` | abstract: the P&C IED, the interlocking IED and the command IED each change state only towards the one before them |
| `BayProtection` | three `EtherAppGoose` modules over lossy first-in-first-out links |
| `BayProtectionProofs` | theorems about it |
| `TxPort` | a port of a switch: classifier, queues, scheduler and the transmitter of the MAC |
| `PriorityServer` | abstract: a server with strict priorities that never rests while a frame waits and drops arrivals only for lack of room |
| `TxPortProofs` | theorems about `TxPort`, the refinement of `PriorityServer` among them |
| `TxPassingProofs` | theorems about the order in which frames leave the port and about what `MCTxPort` counts, on top of `TxPortProofs` |
| `Stp` | the `STP` modules of a network of bridges and the links between them |
| `StpProofs` | theorems about it |
| `StpAge` | `Stp` with a watch for the time since the last failure |
| `MC...` | values of constants for TLC; `MCTxPort` adds history variables that count how often a waiting frame is passed and a stored PAUSE is defied |

Above some definitions stand variants with a comment that calls them slips or
faulty forms: the same operator as a plausible bug would write it.  Nothing in a
specification uses them; they are there so that each property can be shown to fail when the
code is wrong (`PROJECT.json`, "mutants").

### GooseApp

| Code (`EtherAppGoose.cc`) | Module |
|---|---|
| `simTime()` | `clock`, which stops at the later of `StartTime` and `stopTime`: the code compares it with nothing later |
| parameter `stopTime` | `stopTime`, any of the constant `StopTimes` at the start and unchanged ever after (-1: never) |
| `timerMsg` and its kind | `timer` (time left, `NoTimer` when not scheduled) and `kind` |
| `sendInterval`, `seqNum`, `stChng`, `alarmState`, `destMACAddress` | variables of the same names |
| `handleMessage`, kind START; kind NEXT | `StartTimer`; `NextTimer` |
| `setAlarmState` called by the SV application | `SvTrigger` |
| `receivePacket` | `ReceivePacket(id, d)`, whose reaction is `GooseRole!Reaction` |
| `sendPacket`, `scheduleNextPacket` | `SendAndSchedule`, `Schedule` |
| `handleNodeOperation` | `NodeDown` (shutdown and crash), `NodeStart` |
| the "Application is not running" error | `MessageWhileDown` |

`packet` and `ttlLeft` are what a subscriber sees: the last packet and how long
its time to live still runs.  Time passes in `Tick`, never over a timer that is
due, so an event from outside may come before or after a timer of the same
instant.

### MacRelay

| Code | Module |
|---|---|
| `vlanAddressTable`, `addressTable` | `tables`, a partial function of addresses per VLAN id, or `NoTable`; id 0 is the table of untagged frames |
| insertion times, `lastPurge` | ages, saturated at the ageing time and at the purge period |
| `handleAndDispatchFrame` | `Dispatch(port, src, dest, v)`: `Learn`, then `Route` |
| `updateTableWithAddress`, `getPortForAddress`, `getPortForVid`, `broadcastFrame` | `Updated`, `PortForAddress` with `AfterLookup`, `NumPorts` and `EntriesOn`, `Flood` |
| `removeAgedEntriesIfNeeded` | `Purged` |
| `start`, `stop`, `clearTable` | `Start`, `Stop`, `ClearTable` |
| `flush`, `copyTable`, `setAgingTime` (called by spanning tree protocols) | `FlushPort`, `CopyTable`, `SetAgingTime`, present when `StpCalls` |

`lastHeard` and `out` are observations: where each address was last heard, and
what the last frame caused (copies per port, whether the list of ports was read
uninitialised).

### SvPublisher and SvSubscriber

`smpTimer` and `msgTimer` are the two timers of a merging unit.  When both are
due at one instant the simulation kernel runs the one scheduled first, and
`first` keeps that order: with one common period the sample stays in front,
with a measuring interval of several samples the order turns round after the
first common instant.  The sample is reduced to the count it was computed for,
or `Unset` before the first one (memory the constructor does not initialise).
`SampleTimer`, `PacketTimer`, `NodeDown`, `NodeStart` and `MessageWhileDown`
correspond to the handlers.  The parameters `sendInterval`, `samplingInterval`
and `stopTime` are `setting`, one of the records in `Settings`, chosen at the
start and constant from then on.

`SvSubscriber` has one action per SV packet, delivered or lost.  Delivered, a
packet is counted, measured (`Measure`, the sum of delays of a period) and
answered (`Answer`: the verdict on the values, or the forced one of a test
packet, against the alarm last raised; a difference calls `setAlarmState`).

### BayProtection

`alarm`, `changes` (a count that stands for `stChng` without its wrap, which
`GooseApp` covers) per IED, `queue` per link, `events` detected so far.
`DetectEvent` is the P&C IED's trigger, `Heartbeat` a NEXT timer at any instant,
`Deliver` the handler of a frame with its answer, `Lose` a bit error.  A full
queue drops the newest frame (`Enqueue`), as `DropTailQueue` does.  Time is
dropped: a NEXT timer may fire at any moment, which allows every timing the
code has and more.

### TxPort

A frame is its priority code point and a content, which only tells it from the
other frames of its priority.  `wire` holds the messages of zero delay
between queue, scheduler and MAC in the order they were sent; `timer` says of
each of `endTxMsg`, `endIFGMsg`, `endPauseMsg` whether it is off, set or due.
A timer that is due at an instant is handled before messages sent at that
instant, since it was scheduled earlier; a PAUSE frame or an operation comes at
an instant of its own.  `RequestPacket` is a method call and happens inside the
handler that makes it; the frame it asks for returns as a message later, and
that gap is what the module is about.  `PassScheduler`,
`ProcessFrameFromUpperLayer`, `HandleEndTxPeriod`, `HandleEndIFGPeriod`,
`HandleEndPausePeriod`, `ProcessPauseCommand`, `Disconnect`, `Reconnect`,
`GoDown` and `Start` are handlers.  `Asserts` says whether ASSERT is compiled in.

`ServesByPriority` maps a port to `PriorityServer`.  The frame in service
(`InService`) is the one that has been taken out of the queues and not been sent: it
is on `wire`, whether before the scheduler or before the MAC, or in `curTxFrame`,
through the gap or the pause before its transmission.  A stopped node serves nothing,
although the frame `GoDown` asked for may still be under way.  `Accepted(p)` is that
frame, if it has priority `p`, before the queue of `p`.

### Stp

| Code (`stp/STP.cc`, unless noted) | Module |
|---|---|
| the bridge identifier (priority, then address) | a number, `b` |
| fields of `STP` and `Ieee8021dInterfaceData` | `bridge[b]`, with `port[p]` for the port to neighbour `p`; the best BPDU a port has heard is `info` (root, cost, sender) |
| BPDUs on a link | `chan[<<a, b>>]`, first in, first out |
| `handleBPDU` with `isSuperiorBPDU`, `setSuperiorBPDU`, `comparePorts` | `HandleBPDU`, `Renewed`, `Better` |
| `handleTCN`, `generateBPDU`, `generateTCN`, `generateHelloBDPUs` | `HandleTCN`, `Config`, `TCN`, `HandleTick` |
| `handleTick`, `checkTimers` | `HandleTick`: `Counted` (`Aged` for each port), then `ExpirePorts`, the loop that calls `Expire` (with `lostRoot`, `lostAlternate`) for each port in order, then `Advance` |
| `tryRoot`, `checkRootEligibility`, `selectRootPort`, `selectDesignatedPorts`, `setAllDesignated`, `initInterfacedata` (`STPBase.cc`) | operators of the same names |
| `start`, `stop` | `Start`, `Stop`; a bridge is `fresh` until its first tick, a second after it started |
| `Ieee8021dRelay`: a BPDU goes to `STP`, whatever the state of the port | `Deliver`; `Forwarding` are the links whose two ports let frames through |

`STP` runs in the general switch (`nodes/ethernet/EtherSwitch.ned`, parameter
`spanningTreeProtocol`); the IEC switches have no such parameter, and a ring of
them would need it.

What is abstracted: with one link between two bridges the port identifiers of a
BPDU never decide, so they are left out; all links cost one; `maxAge` and
`forwardDelay` are the same at every bridge.  The tick is one second and a BPDU
takes microseconds, so all BPDUs a tick causes are handled before the next one;
between two ticks they come in any order, except on one link.  Commands of the
scenario (`Cut`, `Mend`, `Stop`, `Start`) come at whole seconds, between
the ticks' BPDUs.  `STP::helloTime` is a counter that hides the parameter
`STPBase::helloTime`, and `currentHelloTime` is copied from it while it is 0, so the
root says hello at every tick, and so does the model.  `reset()` is never called,
for nothing changes the priority of a bridge at run time.  A port keeps its
state when its link is cut, since STP subscribes to
`NF_INTERFACE_STATE_CHANGED` and ignores what it hears.

A topology change notification that a bridge receives on its own root port goes
back where it came from, and the neighbour may return it again: an exchange of
microsecond messages that goes on until a timer, seconds away, ends it.
`returns` counts such messages; after `MaxReturns` of them the next one is `late`,
that is, still under way when the next tick comes.

Three predicates say how far the protocol has come.  `SpanningTree` is what a user
wants: the forwarding links join exactly the bridges that can reach each other
(`Component`), without a ring, and their root is the lowest of them.  `Settled` looks
at each link alone: a port has heard what the designated bridge at the other end
says (`Own`), or is itself designated, and forwards if its role lets it.  `Steady` is
`Settled` with nothing under way that could change it: no bridge is waiting for its
first tick, BPDUs on their way tell what is known, and the hello of this second has
come, is on its way, or has yet to reach the bridge that will relay it.

## 3. What each run checks

| Run | Instance | What it shows |
|---|---|---|
| `Goose` | an interlocking IED that never stops, or stops at 20, inside a burst a late event starts; frames of its P&C IED, its command IED, itself and a stranger; triggers and lifecycle operations at any instant | `TtlIsTimeToNext`: the time to live announced by the last packet ends exactly when the next one is due. `NeverSilenced`: cancels, answers and restarts never lose the timer. `StNumTellsState`: number and state change together, across the wrap. `BackoffLadder`: no rung of the retransmission ladder is skipped. `NothingDueAfterStop`: no timer is armed for the stop time or later. `PublishesChanges`: refinement of `GooseControlBlock` with the roll-over to 1 that `EtherGooseStruct.h` documents; a step in which a counter passes its largest value is exempt from that alone (it comes to 0, see Observations). `HeartbeatForever`, `BackoffSettles`: liveness |
| `GooseDest` (violation) | a P&C IED with an event before its start time | `SentToDestAddress` fails: the event cancels the START timer, the only place that resolves the destination |
| `Relay` | three ports, untagged frames and one VLAN with a static table, two roaming stations, a group and the broadcast address, ageing times 1 and 2, purges, restarts, spanning tree calls | `EntriesTruthful`: the database says where each address was last heard. `ForwardedToFreshPort`: a forwarded frame goes there, and the entry is not aged. `PortListInitialized`: the flood never reads a count nobody wrote. `FloodReachesMembers`: every other port with a member gets the flood and the port of arrival does not |
| `RelayUnknown` (violation) | three stations, no static table | `UnknownGoesEverywhere` fails: with two known members an unknown destination is only sought among them |
| `Sv` | the protection setting with a stop time, the two timers with one period or with different ones, and the measuring setting, eight samples to a packet, for ever; shutdowns and restarts at any instant | `SampleReady`, `PublishesStream` (refinement of `SvStream`, also where the order of the two timers turns round), `SendsWithinWindow`, `StreamGoesOn` |
| `SvTrip` | losses, dangers at any packet, test packets 3, 6, 12, 18, ... | `VerdictPublished`: whatever the tests forced, the state the bay hears is the verdict on the last packet. `DangerHiddenOnce`: a test hides a danger from one packet only |
| `BayChain` | the group addresses of `TestInet/src/omnetpp.ini`: everybody hears everybody it is configured for; queues of 2 frames, 3 events | `FramesLeadFollower`: the frames under way to a follower, read in order, never carry it backwards. `NoSpuriousOperation` (refinement of `CommandChain`): nobody operates without a command, for all of duplication, delay and loss. `BreakerFollows`: once events stop, the three IEDs and all frames under way come to tell one state for good. `StormsEnd`: the answers die out |
| `TxPort` | frames of the priorities 0, 3 and 7, two contents of each, queues of 2, PAUSE frames of 0 and 1 units, link loss, shutdown, crash and restart at any instant | `OneRequestOut`: one frame or request between MAC and queues, always. `ServesByPriority`: refinement of `PriorityServer`. `SafeWhileUp`: no ASSERT or error while the node is up. `TimerFitsState`. `PassedAtMostOnce`: a frame is passed by at most one of lower priority. `PauseAfterOneFrame`: a PAUSE that is stored lets at most one more frame begin. `HighestServed`: the highest priority is always served |
| `TxShutdown` (violation) | a shutdown while frames are queued | `StopsSafely` fails: the frame requested in order to be deleted meets a scheduler whose count has been reset |
| `TxPauseZero` (violation) | PAUSE frames of 0 units | `PauseEnds` fails: the running pause is cancelled and none is scheduled |
| `Stp` | three switches in a ring; any two failures or repairs, of links or switches, at any second | `LoopFree`: the forwarding links never close a ring, but for links that were cut and came back. `OnlyImproves`: a bridge turns to a worse root or a longer way only at a tick that finds its root's information too old, and while nothing has failed never, so hellos always come before information expires. `Heals`: after the last failure the network becomes `Steady` with a `SpanningTree`, and stays so, unless notifications go to and fro. `Reported`: every change is made known to a root |
| `StpAge` (violation) | four switches in a ring, one of which stops | `OldNewsDiscarded` fails: each BPDU says its message age is 0, so bridges renew each other's information about a root that is gone and count to infinity |

Deadlock is checked in every run but `TxPort`, where an aborted simulation
really stops.  (`GooseApp` and `SvPublisher` have an explicit `Halted` step for
an aborted simulation.)

### Bounds, and why they are enough

* `Burst = 1`, so the nominal interval is 32 ticks: the whole ladder 1, 2, 4,
  8, 16, 32 is there and every instant between two rungs.  `CounterRange = 4`
  instead of 2^32: both counters wrap several times.  `TtlRange = 64`:
  the nominal interval fits, as 16 bits do for the intervals of the
  configurations.
* Stop time 20 lies inside a ladder started at 2; events and restarts move
  the ladder over it in every position.  Without a stop time the clock stands
  still after the start, and the ladder goes on for ever.
* Two stations suffice for an entry, a move and a conflict of source and
  destination; three ports for "forwarded", "flooded" and "arrived on" to be
  different; ages up to 2 for fresh, just aged and long aged; `PurgePeriod = 1`
  for purges that are due and not.
* `Rate = 3` instead of 80 or 4000: the count wraps often.  The measuring
  setting keeps the ratio 8 of the configuration; the protection settings have
  equal periods, as in the configuration, and 3 against 2, where the packet is
  never in step with its samples.  `TestPacket = 3`,
  `TestEvery = 6` for 5 and 50000; the count of received packets goes back from
  `2 * TestEvery` to `TestEvery + 1`, which no comparison can tell from going on.
  `MaxSum` cuts the sum of delays.
* `Capacity = 2` makes a queue drop frames at once; `MaxEvents = 3` changes give
  every frame a stale one before it and a newer one behind it.  The safety
  theorems have no such bound.
* Three priorities: the highest, the lowest (the data queue) and one between;
  two contents, so that two frames of one queue differ and a swap would show;
  `MaxPauses = 2` PAUSE frames: one that starts a pause and one that meets it.
* A ring of three switches is the smallest network with a spare link.
  `MaxAge = 3` and `ForwardDelay = 2` for 20 and 15 seconds keep their order and
  leave a second between the age of information that is renewed in time and
  the age at which it is forgotten, two hops from the root.  `MaxFaults = 2`: a
  failure and its repair, or two failures, the second at any moment of the
  recovery from the first.  `Skew = 1`: a link may be one BPDU behind another.
  `MaxReturns = 1` notification goes back before the next one is late.  With
  more returns, or three failures, the path costs of the count to infinity that
  `StpAge` shows grow without bound and so does the state space: the first
  failures of a ring are where the protocol, as it is written, still heals.
  `StpAge` takes a ring of four, the smallest in which one failure starts the
  count, and `MaxCalm = 7`, one more than twice `MaxAge`.

### Fairness, and why the code justifies it

The only fairness assumed of a module is that the simulation kernel handles
every message and timer that is scheduled and then lets time pass: `Tick` and
the timers in `GooseApp` and `SvPublisher`, `Kernel` in `TxPort` (messages of
zero delay and timers, not arrivals, PAUSE frames or operations).  That is what
the event loop of OMNeT++ does.  No arrival, trigger or lifecycle operation is
ever required to happen.  `HeartbeatForever`, `BackoffSettles` and
`StreamGoesOn` ask about nodes that stay up.  In `BayProtection` heartbeats are
weakly fair, which `HeartbeatForever` provides for a publisher without stop
time, and the delivery on a link that carries frames again and again is
strongly fair: a link may lose any number of frames but not all of them for ever.

In `Stp` each delivery and the tick are weakly fair: a message sent over a link
that is up arrives, and every bridge that is up has its tick.  The fairness is
written with the guards `Quiet` and `Ready` in the place of ENABLED: `Tick` and
`Deliver` have no other guard, a delivery takes a message off its link, and a tick
moves the counters of a bridge that is up, of which two failures leave one at
least.  No failure and no repair is ever required to happen, and none happens for
ever, since `MaxFaults` bounds them; `Heals` and `Reported` are about what follows
the last one.

## 4. What is proved

All proofs are checked by TLAPS; they hold for every value of the constants that
meets the named assumption of the module (`ParameterAssumption`,
`RelayAssumption`, `StreamAssumption`, `SubscriberAssumption`, `BayAssumption`,
`TxPortAssumption`, `StpAssumption`), which TLC evaluates in every run.

**GooseApp.** `PublisherInvariant`: types, ladder, timers, time to live, stop
time and state number are inductive only together.  The time to live needs the
ladder (a follow-up is armed with the interval that was announced, before it
doubles), `NeverSilenced` needs the stop time, and both need that no timer
outlives the node.  From it follow `TypeCorrect`, `TimeToLiveExact`,
`TimerNeverLost`, `TimerDiesWithNode`, `LadderKept`, `StateNumberSound`,
`StopRespected`.  The stop time is any number, or -1.  `ImplementsControlBlock`
is the refinement: initial states map to initial states, each action to a
publication or a stutter.  The abstract publisher is instantiated twice,
`Documented` with counters that roll over to 1 and `Wrapping` with counters that
roll over to 0; the lemma `CounterWraps` says when `stChng++` and `seqNum++` are
steps of which, and only steps in which a counter comes to 0 need the second.  `TimeToLiveExact` carries the condition `UnitsFit`
on the parameters, without which the code cuts the value (see Observations).

**MacRelay.** `RelayInvariant` joins the database (`DatabaseInv`: types, entries
filed under their VLAN, entries truthful) with what the last frame did
(`OutputInv`).  A predicate `Sound(tables, heard)` is carried through the helper
operators one lemma at a time (purge, insert, refresh, lookup), since a dispatch
applies them in sequence; that the source is filed before the ports are listed
is the lemma behind `PortListAlwaysInitialized`.  Corollaries `TypeCorrect`,
`TablesTruthful`, `ForwardingTruthful`, `FloodingReaches`.

**SvPublisher.** `StreamInvariant` adds to `SampleReady` two strengthenings:
`SampleNear`, that the sample timer is at most one sampling interval away or,
before the first sample, level with the packet timer and in front of it, and
`SamplingStopped`, that it is only off when the stop time is so near that no
further packet will be armed; and `DueWithinWindow` for the window.  From it
`TypeCorrect`, `SamplesReady`, `TimersDieWithNode`, `WindowRespected`, and
`ImplementsStream` for every rate and every setting that samples at least as
often as it sends.

**SvSubscriber.** `SubscriberInvariant`: the GOOSE module's state is the verdict on
the last packet unless that packet was a test (`StateIsVerdict`), its last
publication carries its state (`StatePublished`), and a packet is a test by its
number (`TestByNumber`).  The arithmetic is in two lemmas: a number up to `2 *
TestEvery` that `TestEvery` divides is 0, `TestEvery` or `2 * TestEvery`, and so two
tests are never neighbours when the first is not just before a multiple
(5 and 50000 are far from it), which is what `DangerNotHidden` rests on.  From it also
`TypeCorrect` and `VerdictHeard`.

**BayProtection.** `HistoriesLead`: for any links whose answers are those of the
roles, any capacity and any number of events.  The inductive part is `Leads`: in
a queue from leader to follower the state numbers do not decrease and begin no
lower than what the follower has reached.  A follower toggles only when a frame
differs, so its count follows the leader's and can never pass it.
`NeverSpurious` is the refinement of `CommandChain`; `TypeCorrect` and
`NumberTellsState` come with the invariant, and so does `OperationsBounded`: the
breaker operates no more often than events were detected.

Four theorems say how far safety carries the two liveness properties.  `Agreed` is
that the three IEDs and every frame under way tell one state.  `AgreementStays`: only
`DetectEvent` ends it.  A lost frame, a heartbeat, a full queue or a late frame does
not, since each leaves the states alone and puts nothing but the common state on the
links.  `AgreementIsQuiet`: no frame is answered meanwhile.  Hence
`FollowingEndsStorms`, by which `StormsEnd` is a consequence of `BreakerFollows`,
and `OnceAgreedSettled`: after the last event one instant of agreement is enough
for both.  That the instant comes is what needs fairness, and TLC checks it.

**TxPort.** `PortInvariant`: while the node is up the handshake is in exactly one
of three states: a request waits and every queue is empty; the frame is under
way to or past the scheduler; the frame is the MAC's `curTxFrame`.  Together with
what a cut link and a node that is down leave behind, and with `TimerFitsState`,
this is inductive for any priorities, capacities, faults and both kinds of build.
From it `TypeCorrect`, `OneFrameBetween`, `NoFrameStuck`, `PortSafeWhileUp`,
`TimersFit`.  `ImplementsPriorityServer` is the refinement, one lemma per handler
(`EnqueueServes` and so on).  The MAC asks for the next frame at the end of a
transmission, at a cut and when a frame reaches it over a cut link; each time the
frame in service is finished and the scheduler's choice is the server's
(`AskingFinishes`).  An arrival at a port that waits goes through its empty queue and
out of it within the handler, so the server takes it at once; the invariant says that
the port then has room for it and nothing else waits.  All other handlers move the
frame in service without changing it and are not seen.

`TxPassingProofs` first shows `FirstComeFirstServed`: each action of the server leaves
the frames of a priority as they are, adds one at the end, takes the first away, or,
when the node stops, takes all (`FirstInFirstOut`).  That the head of a queue has the
priority of the queue (`Filed`) is needed here too.  TLC checked this action
property, `KeepsOrder`, on the instance of run `TxPort` before it was proved.  The
first-in-first-out links of `BayProtection` rest on it: a publisher sends with one
priority, so a port on the way neither reorders nor repeats its frames and drops the
newest when its queue is full.

`TxPassingProofs` then adds the history variables of `MCTxPort`: every
frame is in the queue of its priority (`Filed`), the head of the first queue is
therefore not lower than a frame left waiting in another, and once a frame has
been passed nothing lower is between the queues and the link (`Overtaken`).  Each
handler owes a frame that goes on waiting two things (`Leads`); one lemma per
handler shows that it pays, and `PassedOnce` follows.  A PAUSE can only be defied
by a frame that is being sent while the request is stored (`DefiedInv`), and the
end of that frame begins the pause: `PauseObeyed`.

**Stp.** The theorems are about every finite network of bridges with one link
between two of them, every `maxAge` and `forwardDelay`, and any number of failures and
repairs; `Skew` and `MaxReturns` are arbitrary too.

`Inductive` states `Invariant`.  Types alone are not inductive: `selectDesignatedPorts`
leaves the role of a port as it is when its information and the bridge's own compare
equal, and that role may be NOTASSIGNED.  They never compare equal, because what a
port knows is either its bridge's own claim or came from the neighbour and so carries
the neighbour's number (`Heard`), which in turn needs that a BPDU under way carries
the number of the bridge at the sending end (`LinksRight`).  And the roles must be
those the information calls for (`RolesOf`), since `checkTimers` chooses them anew
after an old port by `tryRoot` or by `selectDesignatedPorts` alone, depending on the
role the port had.  In the middle of its loop this is `Aging`: only a port that has
heard of a root lower than its bridge can be too old.  The loop is a recursive
function; that it has a result, and that the result inherits what each turn keeps, is
shown by least counterexample (`LoopEnds`, `ExpirePortsSound`), which takes the
well-foundedness of the naturals from the library.  From the invariant follow
`TypeCorrect` and `RolesFollowInformation`, and step by step `WorseByAge`, the action
property `OnlyAgeWorsens` within `OnlyImproves`.

`SettledTree` needs no timing.  On a settled link exactly one end is designated, so a
forwarding link is the root port of its other end, and the way to the root over a root
port is shorter by one.  A ring of such links would have a bridge of greatest cost,
whose two links in the ring would both have to be its root port.  Going down along the
root ports stays within the forwarding links until a bridge that is its own root; it
is the same one for both ends of every link that carries BPDUs, hence for the whole
component, and no bridge believes in a root above itself, so it is the lowest.

`SteadyStays` is about the timing that holds after that: for every interleaving of the
hellos, their relays and the notifications of a second, each delivery and each tick
leaves a steady network steady.  When a tick comes, no BPDU is under way, so every port
that must hear a hello has heard it: were there one that had not, the bridge before it
on the way to the root had not either, and so down to the root, which always has
(`AllToldWhenQuiet`, by least cost).  Ages are therefore 0 before the tick and 1 after
it, less than `maxAge` if that is more than one tick, which is the only hypothesis: with
one tick every root is forgotten at every tick.  `TreeStays` joins the two: from a
steady state on there is a spanning tree until something fails.  What is left of
`Heals` is that a steady state is reached.

Before they were proved, the invariant, `Settled => SpanningTree` and the step of
`SteadyStays` were checked by TLC on the instance of run `Stp`, and on `Square` with
`MaxAge = 2`, `ForwardDelay = 1` and two failures (1644404 states).

**Only model-checked.** Liveness (`HeartbeatForever`, `BackoffSettles`,
`StreamGoesOn`, `BreakerFollows`, `StormsEnd`, `HighestServed`, `Heals`,
`Reported`): fairness and ENABLED are out of the prover's reach.  Of four of them a
part is proved: `StormsEnd` follows from `BreakerFollows`, `BreakerFollows` from one
agreement after the last event, and `Heals` keeps what it has reached (`TreeStays`);
for `HighestServed`, that a waiting frame of the highest priority is the next to be
taken (`ImplementsPriorityServer`) and that none of its own priority passes it.  `LoopFree` is no
theorem about every network: it depends on `forwardDelay` being long enough for the
size of the network and for what fails.  TLC finds it violated on four bridges, each
linked to each, with `MaxAge = 4`, `ForwardDelay = 1` and the root stopped, and on
four bridges with five links after two cuts and a repair: two bridges that still
believe in the root that is gone are each designated on the link between them, neither
has a hello to relay that would tell the other, and after two ticks that link
forwards.  It is checked on the ring of three with `ForwardDelay = 2`; what is proved
of it is `SettledTree`.  The
second half of `OnlyImproves`, that while nothing fails no bridge turns to a worse
root, depends on `maxAge` in the same way: a bridge whose root port changes relays
nothing in that second, and those behind it age by one.  No module uses operators
declared RECURSIVE.

## 5. Observations

Five disagreements of the code with its own comments and documentation are runs
(`GooseDest`, `RelayUnknown`, `TxShutdown`, `TxPauseZero`, `StpAge`) and listed under
"findings".  Others were met while modelling and are modelled as the code has
them, without a run:

* An event sends at once, before `startTime` and after `stopTime` too
  (`EtherAppGoose.cc:481`; `EtherAppGoose.ned:28-29`).
* `sqNum` and `stNum` have no roll-over of their own (`EtherAppGoose.cc:427`, cut to
  32 bits at `:292`, and `:474`), so after their largest value they go on with 0,
  which `EtherGooseStruct.h:54-60` reserves; `SqNum` should "rollover to a value of
  1".  No check shows the code to meet that line: `PublishesChanges` holds it to
  the documented roll-over in every step but those, which it names (`ComesToZero`),
  and `ImplementsControlBlock` proves no more.
* The time to live is cut to whole milliseconds (`EtherAppGoose.cc:244`): with the
  default `sendInterval` the first interval of 512.5 ms is announced as 512, so
  the announcement ends before the next packet (`EtherGooseStruct.h:36`).
* The P&C IED answers frames of the interlocking IED too (`EtherAppGoose.cc:549`
  against the comment at `:493`).
* With exactly one known member of a VLAN, a flood goes to all ports, members of
  the VLAN or not (`MACRelayUnit.cc:125` against `:119`).
* A flood sends one copy per known address and not per port
  (`MACAddressTable.cc:234` against `:218`).
* `lastPurge` is set when nothing has been purged (`MACAddressTable.cc:301`
  against `MACAddressTable.h:50`), so newcomers can postpone the purge.
* In the measuring setting `smpCnt` counts packets and not samples
  (`EtherAppSv.cc:414` against `EtherSvStruct.h:36`).
* Test packets, the fifth and every 50000th, raise the alarm when the values are
  normal and hide a danger when they are not (`EtherAppSv.cc:458-464`).
* When the packet that ends a period is lost, the average delay sums two periods
  and divides by one (`EtherAppSv.cc:430`, `EtherAppSv.ned:53`).
* A PAUSE frame that comes in the interframe gap is stored: the next frame is
  sent first, and the pause may take effect much later
  (`EtherMACFullDuplex.cc:423-426`).
* A stored PAUSE is kept when the link is lost and when the node stops, so it may
  be obeyed long after (`EtherMACFullDuplex.cc:426`; the comment at `:422` says the
  transmitter is busy with a frame, which in the gap it is not).
* A mended link may close a ring until its bridges have heard each other: ports
  keep their state when their link is cut (`STP.cc:82`).
* A notification received on the root port goes back to where it came from
  (`STP.cc:185`), and comes again if the other bridge has the same opinion.
* Nothing clears the root's topology change notice, so its neighbours keep the
  short ageing time for ever (`STP.cc:219`); other bridges relay the flag of
  the root only while they have a notice of their own (`STP.cc:217`).
* The parameter `helloTime` is never used: the counter `STP::helloTime` hides it
  (`STP.h`, `STPBase.h`).
* `EtherEncapExt.cc:191` reads the control info it deleted at `:182`, priority and
  VLAN are stored in fields of 3 and 12 bits, and a frame of neither type is
  neither passed up nor deleted.

## 6. What is not modelled, and why

* `EtherEncapExt`: it keeps counters only, and what it does to a frame (three bits
  of priority, twelve of VLAN, the application type) is the identity on the values
  the configurations use; the modules around it take frames with those values.
* The receiving half of the MAC beyond PAUSE frames (it passes a frame up or
  drops it and keeps no state), the inner queue of a host's MAC, the channel.
* The layout and length of packets, statistics, logging, parsing of the address
  table file, waveforms of samples (only whether values are dangerous).
* RSTP, a protocol of its own, and `STPTester`, which logs.  Learning and forwarding of
  `Ieee8021dRelay` are those of an ordinary switch; its calls into the address
  table are actions of `MacRelay`.
* Networks with several bays, or two P&C IEDs for one interlocking IED.
* The rest of INET.  The repository holds the whole INET 2.6 library (about 257000
  lines: TCP, SCTP, OSPF, mobile IPv6, ad hoc routing, radio models), of which the
  process bus, a layer 2 network, runs a few thousand.  These modules cover the
  part the IEC 61850 extension wrote or changed and, of what switches may run, the
  spanning tree protocol; measured against the library that is about one per
  cent, and a larger share would be made of protocols no network of `TestInet` uses.

Assumed: an application has a destination (otherwise it does nothing); a source
address is never a group or broadcast address; links keep frames in order; a link
that is cut stays cut for the rest of the frame it was carrying (the channel
would still be busy); the address table file does not change during a run.

## 7. Plan

Done, in this order: (1) `GooseApp` against `GooseControlBlock`; (2) `MacRelay`;
(3) `BayProtection` against `CommandChain`, with `GooseRole` shared with (1);
(4) `SvPublisher` against `SvStream`, and `SvSubscriber`, which uses
`GooseControlBlock` for the module it calls; (5) `TxPort` against `PriorityServer`, and
what a waiting frame may have before it; (6) `Stp`, first checked and then proved about.

Left:

1. A switch: `MacRelay` with a `TxPort` per port, and a network of two switches;
   frames of a VLAN reach its members within a bounded number of copies.
2. The bay through the switch instead of through direct links: which of the
   chain's properties survive the relay's floods; `TestInet/src/ecoT1_1.ini`
   (unicast) as a second instance.
3. `RSTP` against the same properties as `Stp`, and its flushing of the tables of
   `MacRelay`.
4. Several bays, and several P&C IEDs for one interlocking IED.
