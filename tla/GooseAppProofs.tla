--------------------------- MODULE GooseAppProofs ---------------------------
(***************************************************************************)
(* Theorems about the GOOSE publisher for every value of its parameters:    *)
(* type correctness, the exactness of timeAllowedtoLive, the burst ladder,  *)
(* the life of the timer around restarts and stopTime, and the             *)
(* implementation of the abstract publisher GooseControlBlock.              *)
(***************************************************************************)
EXTENDS GooseApp, TLAPS

USE DEF NoTimer

-----------------------------------------------------------------------------
(***************************************************************************)
(* Arithmetic of the ladder of intervals and of the time to live.           *)
(***************************************************************************)

\* Every rung is a positive number of ticks, at most the nominal interval.
LEMMA LadderBounds ==
  ASSUME NEW n, OnLadder(n)
  PROVE  n \in Nat \ {0} /\ n <= SInterval
BY ParameterAssumption DEF OnLadder, SInterval, ParameterAssumption

\* The bottom and the top are rungs, and doubling below the top climbs one.
LEMMA LadderClimb ==
  /\ OnLadder(Burst) /\ OnLadder(SInterval)
  /\ \A n : OnLadder(n) /\ n < SInterval => OnLadder(2 * n)
<1>1. OnLadder(Burst) /\ OnLadder(SInterval)
  BY ParameterAssumption DEF OnLadder, SInterval, ParameterAssumption
<1>2. ASSUME NEW n, OnLadder(n), n < SInterval
      PROVE  OnLadder(2 * n)
  BY <1>2, ParameterAssumption DEF OnLadder, SInterval, ParameterAssumption
<1>3. QED BY <1>1, <1>2

\* Dividing a multiple gives back the factor.
LEMMA DivideMultiple ==
  ASSUME NEW k \in Nat, NEW t \in Nat \ {0}
  PROVE  (k * t) \div t = k
<1> DEFINE d == (k * t) \div t
           r == (k * t) % t
<1>1. d \in Int /\ r \in 0 .. t - 1 /\ k * t = d * t + r
  OBVIOUS
<1>2. (k - d) * t = r
  BY <1>1
<1>3. QED BY <1>1, <1>2

\* goTtlValue fits its field.
LEMMA TtlType ==
  ASSUME NEW n \in Nat
  PROVE  Ttl(n) \in 0 .. TtlRange - 1 /\ Ttl(n) * TicksPerMs \in Nat
<1>1. n \div TicksPerMs \in Nat
  BY ParameterAssumption DEF ParameterAssumption
<1>2. Ttl(n) \in 0 .. TtlRange - 1
  BY <1>1, ParameterAssumption DEF ParameterAssumption, Ttl
<1>3. QED BY <1>2, ParameterAssumption DEF ParameterAssumption

\* When the units fit, the time to live of a rung is the rung itself.
LEMMA TtlExact ==
  ASSUME UnitsFit, NEW n, OnLadder(n)
  PROVE  Ttl(n) * TicksPerMs = n
<1> DEFINE q == Burst \div TicksPerMs
<1>1. q \in Nat /\ Burst = q * TicksPerMs
  BY ParameterAssumption DEF ParameterAssumption, UnitsFit
<1> HIDE DEF q
<1>2. PICK m \in {1, 2, 4, 8, 16, 32} : n = m * Burst
  BY DEF OnLadder
<1>3. n = (m * q) * TicksPerMs /\ SInterval = (32 * q) * TicksPerMs
  BY <1>1, <1>2, ParameterAssumption DEF ParameterAssumption, SInterval
<1>4. n \div TicksPerMs = m * q
  BY <1>1, <1>3, DivideMultiple, ParameterAssumption DEF ParameterAssumption
<1>5. SInterval \div TicksPerMs = 32 * q
  BY <1>1, <1>3, DivideMultiple, ParameterAssumption DEF ParameterAssumption
<1>6. m * q \in Nat /\ m * q < TtlRange
  <2>1. 32 * q < TtlRange
    BY <1>5 DEF UnitsFit
  <2>2. m * q \in Nat /\ m * q <= 32 * q
    BY <1>1
  <2>3. QED BY <1>1, <2>1, <2>2, ParameterAssumption DEF ParameterAssumption
<1>7. (m * q) % TtlRange = m * q
  BY <1>6, ParameterAssumption DEF ParameterAssumption
<1>8. QED BY <1>3, <1>4, <1>7 DEF Ttl


-----------------------------------------------------------------------------
(***************************************************************************)
(* The inductive invariant: the properties of GooseApp that describe the    *)
(* timer, the interval and the state number lean on one another.            *)
(***************************************************************************)
IInv ==
  /\ TypeOK
  /\ BackoffLadder
  /\ NoTimerWhileDown
  /\ TtlIsTimeToNext
  /\ NeverSilenced
  /\ NothingDueAfterStop
  /\ StNumTellsState

(***************************************************************************)
(* What every step that sends has in common: a packet that carries the new  *)
(* state goes out, and a follow-up is scheduled with a rung of the ladder.  *)
(***************************************************************************)
Sends(i) ==
  /\ OnLadder(i)
  /\ up /\ ~aborted /\ UNCHANGED <<stopTime, up, aborted, clock>>
  /\ kind' = "NEXT" /\ Schedule(i, i)
  /\ packet' \in Packets /\ ttlLeft' = Ttl(i) * TicksPerMs
  /\ packet'.stNum = stChng' /\ packet'.data = alarmState'
  /\ packet'.sqNum = seqNum'
  /\ seqNum' = (seqNum + 1) % CounterRange
  /\ destMACAddress' \in {DestAddress, Unspecified}
  /\ \/ UNCHANGED <<stChng, alarmState>>
     \/ stChng' = (stChng + 1) % CounterRange /\ alarmState' = ~alarmState

\* Every step sends, or is one of the few that send nothing.
LEMMA SendingStep ==
  ASSUME TypeOK, OnLadder(sendInterval), Next
  PROVE  \/ \E i : Sends(i)
         \/ StartTimer /\ DestAddress = Unspecified
         \/ MessageWhileDown \/ NodeDown \/ NodeStart
         \/ Tick \/ Halted
<1>0. /\ OnLadder(Burst) /\ Burst \in Nat /\ sendInterval \in Nat
      /\ CounterRange \in Nat \ {0}
      /\ \A c \in Nat : (c + 1) % CounterRange \in 0 .. CounterRange - 1
  BY LadderClimb, LadderBounds, ParameterAssumption DEF ParameterAssumption
<1> USE DEF SendAndSchedule, Packets, TypeOK
<1>1. CASE StartTimer /\ DestAddress # Unspecified
  <2>1. Sends(sendInterval)
    BY <1>0, <1>1, TtlType DEF StartTimer, Sends
  <2>2. QED BY <2>1
<1>2. CASE NextTimer
  <2>1. Sends(sendInterval)
    BY <1>0, <1>2, TtlType DEF NextTimer, Sends
  <2>2. QED BY <2>1
<1>3. ASSUME ~aborted, up, SetAlarmState, UNCHANGED <<stopTime, up, aborted, clock>>
      PROVE  Sends(Burst)
  BY <1>0, <1>3, TtlType DEF SetAlarmState, Sends
<1>4. ASSUME ~aborted, up, RepeatState, UNCHANGED <<stopTime, up, aborted, clock>>
      PROVE  Sends(Burst)
  BY <1>0, <1>4, TtlType DEF RepeatState, Sends
<1>5. CASE Disturbance
  BY <1>3, <1>4, <1>5 DEF Disturbance, SvTrigger, ReceivePacket
<1>6. QED BY <1>1, <1>2, <1>5 DEF Next, StartTimer

-----------------------------------------------------------------------------
(***************************************************************************)
(* The invariant is inductive.  First the steps that send, conjunct by      *)
(* conjunct; then the steps that do not.                                    *)
(***************************************************************************)
\* A step that sends keeps every part of the invariant: the timer and the
\* time to live are both set from the interval before it doubles.
LEMMA SendsPreserves ==
  ASSUME IInv, NEW i, Sends(i)
  PROVE  IInv'
<1>1. /\ i \in Nat \ {0} /\ i <= SInterval
      /\ OnLadder(SInterval) /\ (i < SInterval => OnLadder(2 * i))
      /\ Ttl(i) * TicksPerMs \in Nat
      /\ UnitsFit => Ttl(i) * TicksPerMs = i
  BY LadderBounds, LadderClimb, TtlType, TtlExact DEF Sends
<1>2. /\ CounterRange \in Nat \ {0, 1} /\ stopTime \in Int /\ Burst \in Nat \ {0}
      /\ stopTime' = stopTime
      /\ NoPacket \notin Packets /\ SInterval = 32 * Burst
  BY ParameterAssumption DEF ParameterAssumption, SInterval, IInv, TypeOK, Sends
<1>3. clock \in Nat /\ clock' = clock
  BY ParameterAssumption DEF IInv, TypeOK, Sends, Horizon, Later, ParameterAssumption
<1>4. \/ timer' = i /\ (Forever \/ clock + i < stopTime)
         /\ sendInterval' = (IF i < SInterval THEN 2 * i ELSE i)
      \/ timer' = NoTimer /\ ~Forever /\ ~(clock + i < stopTime)
         /\ sendInterval' = i
  BY DEF Sends, Schedule
<1>5. packet' # NoPacket
  BY <1>2 DEF Sends
<1>6. TypeOK'
  <2>1. /\ stopTime' \in StopTimes
        /\ up' \in BOOLEAN /\ aborted' \in BOOLEAN /\ clock' \in 0 .. Horizon'
        /\ kind' \in {"START", "NEXT"} /\ packet' \in Packets \cup {NoPacket}
        /\ destMACAddress' \in {DestAddress, Unspecified}
    BY DEF IInv, TypeOK, Sends, Horizon
  <2>2. timer' \in {NoTimer} \cup Nat /\ sendInterval' \in Nat \ {0}
        /\ ttlLeft' \in Nat
    BY <1>1, <1>4 DEF Sends
  <2>3. alarmState' \in BOOLEAN
    BY DEF IInv, TypeOK, Sends
  <2>4. \A c \in Nat : (c + 1) % CounterRange \in 0 .. CounterRange - 1
    BY <1>2
  <2>5. seqNum' \in 0 .. CounterRange - 1 /\ stChng' \in 0 .. CounterRange - 1
    BY <1>2, <2>4 DEF IInv, TypeOK, Sends
  <2>6. QED BY <2>1, <2>2, <2>3, <2>5 DEF TypeOK
<1>7. OnLadder(sendInterval') 
  BY <1>1, <1>4 DEF Sends
<1>8. BackoffLadder'
  <2>1. timer' # NoTimer => \/ timer' <= sendInterval' \div 2
                            \/ sendInterval' = SInterval /\ timer' <= SInterval
    BY <1>1, <1>2, <1>4
  <2>2. QED BY <1>7, <2>1 DEF BackoffLadder, OnLadder, SInterval
<1>9. NoTimerWhileDown'
  BY DEF Sends, NoTimerWhileDown
<1>10. TtlIsTimeToNext'
  BY <1>1, <1>4 DEF Sends, TtlIsTimeToNext, UnitsFit, SInterval
<1>11. NeverSilenced' /\ NothingDueAfterStop'
  BY <1>1, <1>2, <1>3, <1>4 DEF NeverSilenced, NothingDueAfterStop, Forever
<1>12. StNumTellsState'
  <2>1. packet'.stNum = stChng' /\ packet'.data = alarmState'
    BY DEF Sends
  <2>2. CASE UNCHANGED <<stChng, alarmState>>
    BY <2>1, <2>2 DEF IInv, StNumTellsState
  <2>3. CASE stChng' = (stChng + 1) % CounterRange /\ alarmState' = ~alarmState
    <3>1. stChng \in 0 .. CounterRange - 1 /\ alarmState \in BOOLEAN
      BY DEF IInv, TypeOK
    <3>2. CounterRange % 2 = 0 => (stChng % 2 = 0 <=> stChng' % 2 # 0)
      <4> SUFFICES ASSUME CounterRange % 2 = 0
                   PROVE  stChng % 2 = 0 <=> stChng' % 2 # 0
        OBVIOUS
      <4>1. CASE stChng = CounterRange - 1
        <5>1. stChng' = 0
          BY <1>2, <2>3, <4>1
        <5>2. QED BY <1>2, <4>1, <5>1
      <4>2. CASE stChng # CounterRange - 1
        <5>1. stChng' = stChng + 1
          BY <1>2, <2>3, <3>1, <4>2
        <5>2. QED BY <3>1, <5>1
      <4>3. QED BY <4>1, <4>2
    <3>3. CounterRange % 2 = 0 => (alarmState' <=> stChng' % 2 = 0)
      BY <2>3, <3>2 DEF IInv, StNumTellsState
    <3>4. QED BY <2>1, <3>3 DEF StNumTellsState
  <2>4. QED BY <2>2, <2>3 DEF Sends
<1>13. QED BY <1>6, <1>8, <1>9, <1>10, <1>11, <1>12 DEF IInv

\* The steps that send nothing only run time, stop the timer, or arm the
\* first packet of a restarted node.
LEMMA QuietPreserves ==
  ASSUME IInv,
         \/ StartTimer /\ DestAddress = Unspecified
         \/ MessageWhileDown \/ NodeDown \/ NodeStart
         \/ Tick \/ Halted \/ UNCHANGED vars
  PROVE  IInv'
<1> USE DEF IInv, TypeOK, BackoffLadder, NoTimerWhileDown, TtlIsTimeToNext,
            NeverSilenced, NothingDueAfterStop, StNumTellsState, appVars
<1>0. /\ StartTime \in Nat /\ stopTime \in Int /\ Horizon \in Nat
      /\ stopTime' = stopTime => Horizon' = Horizon
      /\ stopTime <= Horizon /\ (stopTime >= 0 => StartTime <= stopTime)
      /\ Burst \in Nat \ {0} /\ SInterval = 32 * Burst
  BY ParameterAssumption DEF ParameterAssumption, Horizon, Later, SInterval
<1>1. CASE StartTimer /\ DestAddress = Unspecified
  BY <1>0, <1>1 DEF StartTimer
<1>3. CASE MessageWhileDown
  BY <1>0, <1>3 DEF MessageWhileDown
<1>4. CASE NodeDown
  BY <1>0, <1>4 DEF NodeDown
<1>5. CASE NodeStart
  <2> DEFINE delay == Later(StartTime - clock, 0)
  <2>1. delay \in Nat /\ (clock >= StartTime => delay = 0)
        /\ (clock < StartTime => clock + delay = StartTime)
    BY <1>0 DEF Later
  <2> HIDE DEF delay
  <2>2. \/ timer' = delay /\ (Forever \/ clock + delay < stopTime)
           /\ sendInterval' = (IF sendInterval < SInterval
                               THEN 2 * sendInterval ELSE sendInterval)
        \/ timer' = NoTimer /\ ~Forever /\ ~(clock + delay < stopTime)
           /\ sendInterval' = sendInterval
    BY <1>5 DEF NodeStart, Schedule, delay
  <2>3. /\ up' = TRUE /\ kind' = "START"
        /\ UNCHANGED <<stopTime, aborted, clock, seqNum, stChng, alarmState,
                       destMACAddress, packet, ttlLeft>>
    BY <1>5 DEF NodeStart
  <2>4. OnLadder(sendInterval') /\ sendInterval' \in Nat \ {0}
    BY <2>2, LadderClimb, LadderBounds
  <2>5. TypeOK'
    BY <1>0, <2>1, <2>2, <2>3, <2>4
  <2>6. BackoffLadder' /\ NoTimerWhileDown' /\ TtlIsTimeToNext'
    BY <2>3, <2>4 DEF OnLadder
  <2>7. NothingDueAfterStop'
    BY <1>0, <2>1, <2>2, <2>3 DEF Forever
  <2>8. NeverSilenced'
    <3>1. SUFFICES ASSUME timer' = NoTimer
                   PROVE  /\ ~Forever
                          /\ clock' + sendInterval' >= stopTime \/ StartTime = stopTime
      BY <2>3 DEF Forever
    <3>2. ~(stopTime < 0) /\ ~(clock + delay < stopTime)
      BY <2>1, <2>2, <3>1 DEF Forever
    <3>3. clock \in Nat /\ clock' = clock
      BY <1>0, <2>3
    <3>4. clock >= stopTime \/ StartTime = stopTime
      BY <1>0, <2>1, <3>2, <3>3
    <3>5. sendInterval' \in Nat
      BY <2>4
    <3>6. clock >= stopTime => clock' + sendInterval' >= stopTime
      <4>1. \A a \in Nat, b \in Nat, c \in Int : a >= c => a + b >= c
        OBVIOUS
      <4>2. stopTime \in Int
        BY <1>0
      <4>3. QED BY <3>3, <3>5, <4>1, <4>2
    <3>7. ~Forever
      BY <3>2 DEF Forever
    <3>8. QED BY <3>4, <3>6, <3>7
  <2>9. StNumTellsState'
    BY <2>3
  <2>10. QED BY <2>5, <2>6, <2>7, <2>8, <2>9
<1>6. CASE Tick
  <2>1. /\ timer # 0 /\ clock' = (IF clock < Horizon THEN clock + 1 ELSE clock)
        /\ timer' = (IF timer > 0 THEN timer - 1 ELSE timer)
        /\ ttlLeft' = (IF ttlLeft > 0 THEN ttlLeft - 1 ELSE ttlLeft)
        /\ UNCHANGED <<stopTime, up, aborted, kind, appVars, packet>>
    BY <1>6 DEF Tick
  <2>2. TypeOK'
    BY <1>0, <2>1
  <2>3. BackoffLadder'
    <3>1. OnLadder(sendInterval)'
      BY <2>1 DEF OnLadder
    <3>2. timer' # NoTimer => timer # NoTimer /\ timer' <= timer
      BY <2>1
    <3>3. QED BY <1>0, <2>1, <2>2, <3>1, <3>2
  <2>4. NoTimerWhileDown' /\ TtlIsTimeToNext'
    BY <2>1
  <2>5. NeverSilenced' /\ NothingDueAfterStop'
    BY <1>0, <2>1 DEF Forever
  <2>6. StNumTellsState'
    BY <2>1
  <2>7. QED BY <2>2, <2>3, <2>4, <2>5, <2>6
<1>7. CASE Halted \/ UNCHANGED vars
  BY <1>0, <1>7 DEF Halted, vars, OnLadder, Forever
<1>8. QED BY <1>1, <1>3, <1>4, <1>5, <1>6, <1>7

\* initialize() establishes the invariant.
LEMMA InitEstablishes == Init => IInv
<1> SUFFICES ASSUME Init PROVE IInv
  OBVIOUS
<1> USE DEF Init
<1>0. /\ StartTime \in Nat /\ stopTime \in Int /\ Horizon \in Nat
      /\ Burst \in Nat \ {0} /\ SInterval = 32 * Burst
      /\ CounterRange \in Nat \ {0, 1}
  BY ParameterAssumption DEF ParameterAssumption, Horizon, Later, SInterval
<1>1. TypeOK
  <2>1. /\ stopTime \in StopTimes
        /\ up \in BOOLEAN /\ aborted \in BOOLEAN /\ alarmState \in BOOLEAN
        /\ kind \in {"START", "NEXT"} /\ packet \in Packets \cup {NoPacket}
        /\ destMACAddress \in {DestAddress, Unspecified}
    OBVIOUS
  <2>2. clock \in 0 .. Horizon /\ timer \in {NoTimer} \cup Nat
    BY <1>0
  <2>3. /\ sendInterval \in Nat \ {0} /\ ttlLeft \in Nat
        /\ seqNum \in 0 .. CounterRange - 1 /\ stChng \in 0 .. CounterRange - 1
    BY <1>0
  <2>4. QED BY <2>1, <2>2, <2>3 DEF TypeOK
<1>2. BackoffLadder
  BY LadderClimb DEF BackoffLadder
<1>3. NothingDueAfterStop
  BY <1>0 DEF NothingDueAfterStop, Forever
<1>4. StNumTellsState
  BY <1>0 DEF StNumTellsState
<1>5. QED BY <1>1, <1>2, <1>3, <1>4
          DEF IInv, NoTimerWhileDown, TtlIsTimeToNext, NeverSilenced

(***************************************************************************)
(* The invariant of the publisher holds in every reachable state, for every *)
(* parameter of EtherAppGoose that initialize() accepts.                    *)
(***************************************************************************)
THEOREM PublisherInvariant == Spec => []IInv
<1>1. IInv /\ [Next]_vars => IInv'
  <2> SUFFICES ASSUME IInv, [Next]_vars PROVE IInv'
    OBVIOUS
  <2>1. CASE Next
    <3>1. TypeOK /\ OnLadder(sendInterval)
      BY DEF IInv, BackoffLadder
    <3>2. QED BY <2>1, <3>1, SendingStep, SendsPreserves, QuietPreserves
  <2>2. CASE UNCHANGED vars
    BY <2>2, QuietPreserves
  <2>3. QED BY <2>1, <2>2
<1>2. QED BY <1>1, InitEstablishes, PTL DEF Spec

\* Type correctness of the publisher's state.
THEOREM TypeCorrect == Spec => []TypeOK
<1>1. IInv => TypeOK
  BY DEF IInv
<1>2. QED BY <1>1, PublisherInvariant, PTL

\* timeAllowedtoLive is the time to the next packet, for every interval that
\* is a whole number of milliseconds on each rung and fits sixteen bits.
THEOREM TimeToLiveExact == Spec => []TtlIsTimeToNext
<1>1. IInv => TtlIsTimeToNext
  BY DEF IInv
<1>2. QED BY <1>1, PublisherInvariant, PTL

\* No interleaving of events, cancels and restarts loses the timer.
THEOREM TimerNeverLost == Spec => []NeverSilenced
<1>1. IInv => NeverSilenced
  BY DEF IInv
<1>2. QED BY <1>1, PublisherInvariant, PTL

\* No timer runs in a node that is down.
THEOREM TimerDiesWithNode == Spec => []NoTimerWhileDown
<1>1. IInv => NoTimerWhileDown
  BY DEF IInv
<1>2. QED BY <1>1, PublisherInvariant, PTL

\* The interval stays on the ladder of burst intervals, rung by rung.
THEOREM LadderKept == Spec => []BackoffLadder
<1>1. IInv => BackoffLadder
  BY DEF IInv
<1>2. QED BY <1>1, PublisherInvariant, PTL

\* Packets with the same stNum carry the same data, across wrap-around.
THEOREM StateNumberSound == Spec => []StNumTellsState
<1>1. IInv => StNumTellsState
  BY DEF IInv
<1>2. QED BY <1>1, PublisherInvariant, PTL

\* No timer is armed for stopTime or later.
THEOREM StopRespected == Spec => []NothingDueAfterStop
<1>1. IInv => NothingDueAfterStop
  BY DEF IInv
<1>2. QED BY <1>1, PublisherInvariant, PTL

\* A counter of a fixed width goes on by one, or from its largest value, which
\* is not 0, to 0.
LEMMA CounterWraps ==
  ASSUME NEW n \in 0 .. CounterRange - 1
  PROVE  /\ n = CounterRange - 1 => (n + 1) % CounterRange = 0 /\ n # 0
         /\ n # CounterRange - 1 => (n + 1) % CounterRange = n + 1
BY ParameterAssumption DEF ParameterAssumption

(***************************************************************************)
(* Every behaviour of the publisher is one of the abstract publisher, but   *)
(* for the value a counter takes when stChng++ or seqNum++ wraps.           *)
(***************************************************************************)
THEOREM ImplementsControlBlock == Spec => PublishesChanges
<1>1. Init => Documented!Init
  BY DEF Init, Documented!Init, Published
<1> DEFINE Step == Documented!Next \/ (ComesToZero /\ Wrapping!Next)
<1>2. ASSUME IInv, [Next]_vars
      PROVE  [Step]_(Documented!cbVars)
  <2>1. ASSUME NEW i, Sends(i)
        PROVE  Step
    <3>1. /\ seqNum \in 0 .. CounterRange - 1 /\ seqNum' = (seqNum + 1) % CounterRange
          /\ stChng \in 0 .. CounterRange - 1
          /\ \/ UNCHANGED <<stChng, alarmState>>
             \/ stChng' = (stChng + 1) % CounterRange /\ alarmState' = ~alarmState
      BY <1>2, <2>1 DEF IInv, TypeOK, Sends
    <3>2. Published' = [data |-> alarmState', stNum |-> stChng', sqNum |-> seqNum']
      BY <2>1, ParameterAssumption DEF Sends, Published, ParameterAssumption
    <3>3. CASE ComesToZero
      <4>1. /\ seqNum' = Wrapping!After(seqNum)
            /\ \/ UNCHANGED <<stChng, alarmState>>
               \/ stChng' = Wrapping!After(stChng) /\ alarmState' = ~alarmState
        BY <3>1, CounterWraps DEF Wrapping!After
      <4>2. QED BY <3>2, <3>3, <4>1
                DEF Wrapping!Next, Wrapping!Change, Wrapping!Repeat, Wrapping!Publish
    <3>4. CASE ~ComesToZero
      <4>1. /\ seqNum' = Documented!After(seqNum)
            /\ \/ UNCHANGED <<stChng, alarmState>>
               \/ stChng' = Documented!After(stChng) /\ alarmState' = ~alarmState
        BY <3>1, <3>4, CounterWraps DEF Documented!After, ComesToZero
      <4>2. QED BY <3>2, <4>1
                DEF Documented!Next, Documented!Change, Documented!Repeat, Documented!Publish
    <3>5. QED BY <3>3, <3>4
  <2>2. CASE \/ StartTimer /\ DestAddress = Unspecified
             \/ MessageWhileDown \/ NodeDown \/ NodeStart
             \/ Tick \/ Halted \/ UNCHANGED vars
    BY <2>2 DEF StartTimer, MessageWhileDown, NodeDown, NodeStart,
                Tick, Halted, vars, appVars, Documented!cbVars, Published
  <2>3. TypeOK /\ OnLadder(sendInterval)
    BY <1>2 DEF IInv, BackoffLadder
  <2>4. QED BY <1>2, <2>1, <2>2, <2>3, SendingStep
<1>3. QED BY <1>1, <1>2, PublisherInvariant, PTL
          DEF Spec, PublishesChanges

=============================================================================
