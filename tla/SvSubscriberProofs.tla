------------------------- MODULE SvSubscriberProofs -------------------------
(***************************************************************************)
(* Theorems about the subscriber of a merging unit, for every sampling      *)
(* rate, any delays and losses, any dangers, and any numbers of the test    *)
(* packets that are not next to each other.                                 *)
(***************************************************************************)
EXTENDS SvSubscriber, TLAPS

-----------------------------------------------------------------------------
(***************************************************************************)
(* The inductive invariant.  What holds the verdict together is that the    *)
(* GOOSE module's state is the verdict unless the last packet was a test,   *)
(* and that a test packet is recognised by its number, so that the packet   *)
(* after it is none.                                                        *)
(***************************************************************************)
Packets == [data : BOOLEAN, stNum : 0 .. Last, sqNum : 0 .. Last]

\* The bay has heard the present state, or there was none to be heard.
StatePublished ==
  \/ published = None /\ ~state
  \/ published \in Packets /\ published.data = state

TestByNumber == test => received # 0 /\ IsTest(received)

StateIsVerdict == ~test => state = danger

IInv == TypeOK /\ StatePublished /\ TestByNumber /\ StateIsVerdict /\ DangerHiddenOnce

-----------------------------------------------------------------------------
(***************************************************************************)
(* Arithmetic.                                                              *)
(***************************************************************************)

\* The multiples of a number up to twice that number.
LEMMA Multiples ==
  ASSUME NEW t \in Nat \ {0}, NEW n \in 0 .. 2 * t, n % t = 0
  PROVE  n \in {0, t, 2 * t}
<1> DEFINE q == n \div t
<1>1. q \in Int /\ n = q * t
  OBVIOUS
<1>2. q >= 0
  BY <1>1
<1>3. q <= 2
  BY <1>1
<1>4. q \in {0, 1, 2}
  BY <1>1, <1>2, <1>3
<1>5. QED BY <1>1, <1>4

\* packetsReceived keeps its range, and is never 0 again.
LEMMA CountedType ==
  ASSUME NEW n \in 0 .. 2 * TestEvery
  PROVE  Counted(n) \in 1 .. 2 * TestEvery
BY SubscriberAssumption DEF Counted, SubscriberAssumption

\* The packet after a test packet is none.
LEMMA TestsApart ==
  ASSUME NEW n \in 1 .. 2 * TestEvery, IsTest(n)
  PROVE  ~IsTest(Counted(n))
<1>1. TestEvery \in Nat \ {0} /\ TestPacket \in Nat \ {0} /\ TestPacket + 1 < TestEvery
  BY SubscriberAssumption DEF SubscriberAssumption
<1>2. n \in {TestPacket, TestEvery, 2 * TestEvery}
  BY <1>1, Multiples DEF IsTest
<1>3. Counted(n) \in {TestPacket + 1, TestEvery + 1}
  BY <1>1, <1>2 DEF Counted
<1>4. Counted(n) \in 0 .. 2 * TestEvery
  BY CountedType
<1>5. SUFFICES ASSUME IsTest(Counted(n)) PROVE FALSE
  OBVIOUS
<1>6. Counted(n) \in {TestPacket, 0, TestEvery, 2 * TestEvery}
  BY <1>1, <1>4, <1>5, Multiples DEF IsTest
<1>7. QED BY <1>1, <1>3, <1>6

\* An average is no larger than its sum.
LEMMA AverageBounded ==
  ASSUME NEW s \in Nat, NEW r \in Nat \ {0}
  PROVE  s \div r \in 0 .. s
<1> DEFINE q == s \div r
           m == s % r
<1>1. q \in Int /\ m \in 0 .. r - 1 /\ s = q * r + m
  OBVIOUS
<1>2. q >= 0
  BY <1>1
<1>3. q <= q * r
  BY <1>1, <1>2
<1>4. QED BY <1>1, <1>2, <1>3

-----------------------------------------------------------------------------
(***************************************************************************)
(* Every step keeps the invariant.                                          *)
(***************************************************************************)

LEMMA InitEstablishes == SubscriberInit => IInv
<1>1. ASSUME SubscriberInit
      PROVE  TypeOK
  <2>1. /\ 0 \in 0 .. Rate /\ 0 \in 0 .. 2 * TestEvery /\ 0 \in 0 .. MaxSum
        /\ 0 \in 0 .. Last /\ 1 \in 0 .. Last
    BY SubscriberAssumption DEF SubscriberAssumption
  <2>2. QED BY <1>1, <2>1 DEF SubscriberInit, Init, TypeOK
<1>2. ASSUME SubscriberInit
      PROVE  StatePublished /\ TestByNumber /\ StateIsVerdict /\ DangerHiddenOnce
  BY <1>2 DEF SubscriberInit, Init, StatePublished, TestByNumber, StateIsVerdict,
              DangerHiddenOnce
<1>3. QED BY <1>1, <1>2 DEF IInv

\* What the GOOSE module publishes carries its state.
LEMMA PublishCarriesState ==
  ASSUME state \in BOOLEAN, stNum \in 0 .. Last, sqNum \in 0 .. Last,
         Change \/ Repeat
  PROVE  /\ state' \in BOOLEAN
         /\ stNum' \in 0 .. Last /\ sqNum' \in 0 .. Last
         /\ StatePublished'
<1>1. Last \in Nat \ {0} /\ First \in 0 .. Last
  BY SubscriberAssumption DEF SubscriberAssumption
<1>2. After(stNum) \in 0 .. Last /\ After(sqNum) \in 0 .. Last
  BY <1>1 DEF After
<1>3. state' \in BOOLEAN /\ stNum' \in 0 .. Last /\ sqNum' \in 0 .. Last
  BY <1>2 DEF Change, Repeat, Publish
<1>4. published' = [data |-> state', stNum |-> stNum', sqNum |-> sqNum']
  BY DEF Change, Repeat, Publish
<1>5. published' \in Packets /\ published'.data = state'
  BY <1>3, <1>4 DEF Packets
<1>6. QED BY <1>3, <1>5 DEF StatePublished

\* The counts and the delays keep their ranges.
LEMMA MeasureType ==
  ASSUME TypeOK, NEW delay \in Delays, Measure(delay)
  PROVE  eteAvg' \in 0 .. MaxSum /\ report' \in 0 .. MaxSum
<1>1. /\ Rate \in Nat \ {0} /\ delay \in Nat /\ MaxSum \in Nat
      /\ eteAvg \in 0 .. MaxSum /\ report \in 0 .. MaxSum /\ eteAvg + delay <= MaxSum
  BY SubscriberAssumption DEF SubscriberAssumption, TypeOK, Measure
<1>2. eteAvg + delay \in Nat
  BY <1>1
<1>3. (eteAvg + delay) \div Rate \in 0 .. (eteAvg + delay)
  BY <1>1, <1>2, AverageBounded
<1>4. (eteAvg + delay) \div Rate \in 0 .. MaxSum
  BY <1>1, <1>3
<1>5. QED BY <1>1, <1>2, <1>4 DEF Measure

LEMMA FollowingType ==
  ASSUME NEW n \in 0 .. Rate
  PROVE  Following(n) \in 0 .. Rate
BY SubscriberAssumption DEF SubscriberAssumption, Following

\* A packet that is received is judged by its values, or by its number.
LEMMA ReceivePreserves ==
  ASSUME IInv, NEW d \in Dangers, NEW delay \in Delays, ReceivePacket(d, delay)
  PROVE  IInv'
<1>1. d \in BOOLEAN /\ danger' = d /\ earlier' = danger /\ test' = IsTest(received')
  BY SubscriberAssumption DEF SubscriberAssumption, ReceivePacket
<1>2. received' = Counted(received) /\ received' \in 1 .. 2 * TestEvery
  BY CountedType DEF IInv, TypeOK, ReceivePacket
<1>3. TypeOK' /\ StatePublished'
  <2>1. /\ count' \in 0 .. Rate
        /\ eteAvg' \in 0 .. MaxSum /\ report' \in 0 .. MaxSum
    BY FollowingType, MeasureType DEF IInv, TypeOK, ReceivePacket
  <2>2. received' \in 0 .. 2 * TestEvery
    BY <1>2, SubscriberAssumption DEF SubscriberAssumption
  <2>3. danger' \in BOOLEAN /\ earlier' \in BOOLEAN /\ test' \in BOOLEAN
    BY <1>1 DEF IInv, TypeOK, IsTest
  <2>4. CASE Change
    BY <2>1, <2>2, <2>3, <2>4, PublishCarriesState DEF IInv, TypeOK
  <2>5. CASE UNCHANGED cbVars
    BY <2>1, <2>2, <2>3, <2>5 DEF IInv, TypeOK, StatePublished, cbVars
  <2>6. QED BY <2>4, <2>5 DEF ReceivePacket, Answer
<1>4. TestByNumber'
  BY <1>1, <1>2 DEF TestByNumber
<1>5. test => ~test'
  <2>1. SUFFICES ASSUME test PROVE ~test'
    OBVIOUS
  <2>2. received \in 1 .. 2 * TestEvery /\ IsTest(received)
    BY <2>1 DEF IInv, TypeOK, TestByNumber
  <2>3. QED BY <1>1, <1>2, <2>2, TestsApart
<1>6. state' = IF d # (test' \/ state) THEN ~state ELSE state
  BY <1>1 DEF ReceivePacket, Answer, Change, cbVars
<1>7. StateIsVerdict' /\ DangerHiddenOnce'
  <2>1. state \in BOOLEAN /\ test \in BOOLEAN /\ test' \in BOOLEAN /\ danger \in BOOLEAN
    BY <1>3 DEF IInv, TypeOK
  <2>2. ~test' => state' = d
    BY <1>1, <1>6, <2>1
  <2>3. test' /\ d => state' = state
    BY <1>6
  <2>4. test' => state = danger
    BY <1>5, <2>1 DEF IInv, StateIsVerdict
  <2>5. QED BY <1>1, <2>2, <2>3, <2>4 DEF StateIsVerdict, DangerHiddenOnce
<1>8. QED BY <1>3, <1>4, <1>7 DEF IInv

\* A packet that is lost, and a repetition, leave the verdict as it is.
LEMMA OthersPreserve ==
  ASSUME IInv, Lose \/ Heartbeat
  PROVE  IInv'
<1>1. CASE Lose
  BY <1>1, FollowingType
     DEF Lose, IInv, TypeOK, StatePublished, TestByNumber, StateIsVerdict, DangerHiddenOnce,
         cbVars
<1>2. CASE Heartbeat
  <2>1. Repeat /\ UNCHANGED svVars /\ state' = state
    BY <1>2 DEF Heartbeat, Repeat
  <2>2. TypeOK' /\ StatePublished'
    BY <2>1, PublishCarriesState DEF IInv, TypeOK, svVars
  <2>3. TestByNumber' /\ StateIsVerdict' /\ DangerHiddenOnce'
    BY <2>1 DEF IInv, TestByNumber, StateIsVerdict, DangerHiddenOnce, svVars
  <2>4. QED BY <2>2, <2>3 DEF IInv
<1>3. QED BY <1>1, <1>2

-----------------------------------------------------------------------------
(***************************************************************************)
(* The theorems.                                                            *)
(***************************************************************************)

\* The state of the GOOSE module, its last publication, the verdict and the
\* number of the last packet fit each other (receivePacket, setAlarmState).
THEOREM SubscriberInvariant == SubscriberSpec => []IInv
<1>1. ASSUME IInv, [SubscriberNext]_vars
      PROVE  IInv'
  <2>1. CASE \E d \in Dangers, delay \in Delays : ReceivePacket(d, delay)
    BY <1>1, <2>1, ReceivePreserves
  <2>2. CASE Lose \/ Heartbeat
    BY <1>1, <2>2, OthersPreserve
  <2>3. CASE UNCHANGED vars
    BY <1>1, <2>3
       DEF vars, svVars, cbVars, IInv, TypeOK, StatePublished, TestByNumber, StateIsVerdict,
           DangerHiddenOnce
  <2>4. QED BY <1>1, <2>1, <2>2, <2>3 DEF SubscriberNext
<1>2. QED BY <1>1, InitEstablishes, PTL DEF SubscriberSpec

\* The counts, the sum of delays and the last publication keep their types.
THEOREM TypeCorrect == SubscriberSpec => []TypeOK
<1>1. IInv => TypeOK
  BY DEF IInv
<1>2. QED BY <1>1, SubscriberInvariant, PTL

\* The bay hears the verdict on the last packet that is no test, after any
\* losses, forced states and repetitions.
THEOREM VerdictHeard == SubscriberSpec => []VerdictPublished
<1>1. None \notin Packets
  BY SubscriberAssumption DEF SubscriberAssumption, Packets
<1>2. IInv => VerdictPublished
  BY <1>1 DEF IInv, StatePublished, StateIsVerdict, VerdictPublished
<1>3. QED BY <1>2, SubscriberInvariant, PTL

\* Two dangerous packets in a row have tripped: tests are never neighbours.
THEOREM DangerNotHidden == SubscriberSpec => []DangerHiddenOnce
<1>1. IInv => DangerHiddenOnce
  BY DEF IInv
<1>2. QED BY <1>1, SubscriberInvariant, PTL

=============================================================================
