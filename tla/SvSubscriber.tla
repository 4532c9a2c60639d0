---------------------------- MODULE SvSubscriber ----------------------------
(***************************************************************************)
(* The process-bus side of a P&C IED: an EtherAppSv module that only        *)
(* receives (sendInterval 0), the merging unit it listens to, and the       *)
(* GOOSE publisher of the same IED, which it calls directly                 *)
(* (inet/src/applications/ethernet/EtherAppSv.cc, receivePacket).           *)
(*                                                                          *)
(* The merging unit is the stream SvPublisher implements, over a network    *)
(* that may lose packets; the GOOSE publisher is the control block GooseApp *)
(* implements, whose Change is setAlarmState() and whose Repeat is what its *)
(* timer and the frames of other IEDs make it send.                         *)
(***************************************************************************)
EXTENDS GooseControlBlock

CONSTANTS
  Rate,          \* parameter samplingRate
  Dangers,       \* may a packet have a dangerous value: {FALSE} for the values
                 \* getSinValue computes, BOOLEAN for any merging unit
  Delays,        \* end-to-end delays of a packet, in whole microseconds
  MaxSum,        \* bound on the sum of delays
  TestPacket,    \* 5: the number of the packet that is a test
  TestEvery      \* 50000: every so many packets there is another test

ASSUME SubscriberAssumption ==
  /\ Rate \in Nat \ {0} /\ Dangers \subseteq BOOLEAN
  /\ Delays \subseteq Nat /\ Delays # {} /\ MaxSum \in Nat
  /\ TestPacket \in Nat \ {0} /\ TestEvery \in Nat /\ TestPacket + 1 < TestEvery
  /\ Last \in Nat \ {0} /\ First \in 0 .. Last
  /\ None \notin [data : BOOLEAN, stNum : 0 .. Last, sqNum : 0 .. Last]

VARIABLES
  count,         \* smpCnt of the next packet of the merging unit
  received,      \* packetsReceived
  eteAvg, report,       \* sum of delays so far, last average emitted
  danger, test, earlier \* of the last packet: has it a dangerous value, was it
                        \* a test; had the one before a dangerous value

svVars == <<count, received, eteAvg, report, danger, test, earlier>>
vars == <<cbVars, svVars>>

\* A slip of the count, going one too far, and the count of the merging unit.
FollowingLate(n) == IF n > Rate THEN 0 ELSE n + 1
Following(n) == IF n = Rate THEN 0 ELSE n + 1

\* packetsReceived, kept below 2 * TestEvery once it is past the first
\* TestEvery: receivePacket only tells whether it is TestPacket and whether
\* TestEvery divides it.
Counted(n) == IF n = 2 * TestEvery THEN TestEvery + 1 ELSE n + 1

\* A slip of the test, and the test of receivePacket.
IsTestFrom(n) == n >= TestPacket \/ n % TestEvery = 0
IsTest(n) == n = TestPacket \/ n % TestEvery = 0

SubscriberInit ==
  /\ Init
  /\ count = 0 /\ received = 0
  /\ eteAvg = 0 /\ report = 0
  /\ danger = FALSE /\ test = FALSE /\ earlier = FALSE

-----------------------------------------------------------------------------

\* A slip of receivePacket: the end of a danger is not told.
AnswerOneWay(seen, d) ==
  IF d /\ ~seen THEN Change ELSE UNCHANGED cbVars

\* The verdict on a packet: the GOOSE module is changed if it is not in the
\* state the packet calls for.
Answer(seen, d) ==
  IF d # seen THEN Change ELSE UNCHANGED cbVars

\* The sum of delays and, at the last count, its average.
Measure(delay) ==
  /\ eteAvg + delay <= MaxSum
  /\ IF count = Rate
     THEN report' = (eteAvg + delay) \div Rate /\ eteAvg' = 0
     ELSE eteAvg' = eteAvg + delay /\ UNCHANGED report

\* receivePacket of a packet with (or without) a dangerous value.
ReceivePacket(d, delay) ==
  /\ Measure(delay)
  /\ count' = Following(count)
  /\ received' = Counted(received)
  /\ danger' = d /\ earlier' = danger /\ test' = IsTest(received')
  /\ Answer(IsTest(received') \/ state, d)

\* A packet is lost in the network.
Lose ==
  /\ count' = Following(count)
  /\ UNCHANGED <<cbVars, received, eteAvg, report, danger, test, earlier>>

\* The GOOSE publisher repeats its state.
Heartbeat == Repeat /\ UNCHANGED svVars

SubscriberNext ==
  \/ \E d \in Dangers, delay \in Delays : ReceivePacket(d, delay)
  \/ Lose
  \/ Heartbeat

SubscriberSpec == SubscriberInit /\ [][SubscriberNext]_vars

-----------------------------------------------------------------------------
(***************************************************************************)
(* Properties.                                                              *)
(***************************************************************************)

TypeOK ==
  /\ count \in 0 .. Rate
  /\ received \in 0 .. 2 * TestEvery
  /\ eteAvg \in 0 .. MaxSum /\ report \in 0 .. MaxSum
  /\ danger \in BOOLEAN /\ test \in BOOLEAN /\ earlier \in BOOLEAN
  /\ state \in BOOLEAN
  /\ stNum \in 0 .. Last /\ sqNum \in 0 .. Last

(***************************************************************************)
(* What the bay hears is the verdict on the last packet, but for the test   *)
(* packets: the last GOOSE packet tells whether the last sampled-value      *)
(* packet was dangerous, however the toggling of setAlarmState, the forced  *)
(* test state and the repetitions of the publisher fall.                    *)
(***************************************************************************)
VerdictPublished ==
  ~test => IF published = None THEN ~danger ELSE published.data = danger

(***************************************************************************)
(* The forced state of a test packet hides a danger from at most that       *)
(* packet: two dangerous packets in a row have always tripped.              *)
(***************************************************************************)
DangerHiddenOnce == danger /\ earlier => state

=============================================================================
