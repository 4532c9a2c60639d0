------------------------- MODULE SvPublisherProofs --------------------------
(***************************************************************************)
(* Theorems about the merging unit for every rate, pair of intervals, start *)
(* and stop time: the two timers never come out of step, so the stream is   *)
(* well formed, and nothing is sent outside the window of the parameters.   *)
(***************************************************************************)
EXTENDS SvPublisher, TLAPS

USE DEF NoTimer

(***************************************************************************)
(* Why a packet finds its sample: the sample timer, once running, is never  *)
(* more than a sampling interval away, and before that it is level with the *)
(* packet timer and in front of it.  Where it has been stopped, it was so   *)
(* near stopTime that no further packet is scheduled either.                *)
(***************************************************************************)
SampleNear ==
  smpTimer # NoTimer =>
    smpTimer <= SampleTicks \/ (smpTimer = msgTimer /\ first = "sample")

SamplingStopped ==
  msgTimer # NoTimer /\ smpTimer = NoTimer =>
    ~Forever /\ clock + SampleTicks >= StopTime

\* A scheduled packet lies within the window of the parameters.
DueWithinWindow ==
  msgTimer # NoTimer =>
    /\ StartTime <= clock + msgTimer
    /\ Forever \/ clock + msgTimer < StopTime

IInv ==
  /\ TypeOK
  /\ NoTimerWhileDown
  /\ SampleNear /\ SamplingStopped /\ SampleReady
  /\ DueWithinWindow

-----------------------------------------------------------------------------

\* What the parameters are.
LEMMA Parameters ==
  ASSUME setting \in Settings
  PROVE  /\ Rate \in Nat \ {0}
         /\ SendTicks \in Nat \ {0} /\ SampleTicks \in Nat \ {0} /\ SampleTicks <= SendTicks
         /\ StartTime \in Nat /\ StopTime \in Int
         /\ Horizon \in Nat /\ StartTime <= Horizon
         /\ ~Forever => Horizon = StopTime
BY StreamAssumption
DEF StreamAssumption, Horizon, Later, Forever, SendTicks, SampleTicks, StopTime

\* What initialize() read stays as it is.
LEMMA ParametersStay ==
  ASSUME setting' = setting
  PROVE  /\ SendTicks' = SendTicks /\ SampleTicks' = SampleTicks
         /\ StopTime' = StopTime /\ Horizon' = Horizon /\ Forever' = Forever
BY DEF Horizon, Forever, SendTicks, SampleTicks, StopTime

\* A timer armed after a delay runs for that delay or not at all.
LEMMA ArmedType ==
  ASSUME TypeOK, NEW delay \in Nat
  PROVE  /\ Armed(delay) \in Nat \cup {NoTimer}
         /\ Armed(delay) # NoTimer => Armed(delay) = delay
         /\ Armed(delay) # NoTimer => Forever \/ clock + delay < StopTime
         /\ Armed(delay) = NoTimer => ~Forever /\ clock + delay >= StopTime
<1>1. clock \in Nat /\ StopTime \in Int
  BY Parameters DEF TypeOK
<1>2. QED BY <1>1 DEF Armed

\* What lies beyond a limit stays beyond it.
LEMMA LaterStillBeyond ==
  ASSUME NEW a \in Int, NEW b \in Int, NEW d \in Int, NEW limit \in Int,
         a <= b, a + d >= limit
  PROVE  b + d >= limit
OBVIOUS

LEMMA InitEstablishes ==
  ASSUME Init
  PROVE  IInv
<1>0. setting \in Settings
  BY DEF Init
<1>1. StopTime >= 0 => StartTime <= StopTime
  BY <1>0, StreamAssumption DEF StreamAssumption, StopTime
<1>2. TypeOK
  <2>1. /\ setting \in Settings
        /\ up \in BOOLEAN /\ aborted \in BOOLEAN
        /\ first \in {"sample", "packet"} /\ kind \in {"START", "NEXT"}
    BY DEF Init
  <2>2. /\ clock \in 0 .. Horizon
        /\ smpTimer \in Nat \cup {NoTimer} /\ msgTimer \in Nat \cup {NoTimer}
    BY <1>0, <1>1, Parameters DEF Init
  <2>3. /\ seqNum \in 0 .. Rate /\ sample \in Samples
        /\ destMACAddress \in {DestAddress, Unspecified}
        /\ packet \in Packets \cup {NoPacket}
    BY <1>0, <1>1, Parameters DEF Init, Samples
  <2>4. QED BY <2>1, <2>2, <2>3 DEF TypeOK
<1>3. SampleNear /\ SamplingStopped /\ SampleReady /\ NoTimerWhileDown
  BY DEF Init, SampleNear, SamplingStopped, SampleReady, NoTimerWhileDown
<1>4. DueWithinWindow
  BY <1>0, <1>1, Parameters DEF Init, DueWithinWindow, Forever
<1>5. QED BY <1>2, <1>3, <1>4 DEF IInv

\* Taking a sample.
LEMMA SampleTimerPreserves ==
  ASSUME IInv, SampleTimer
  PROVE  IInv'
<1>0. /\ setting \in Settings /\ setting' = setting
      /\ SampleTicks' = SampleTicks /\ StopTime' = StopTime
      /\ Horizon' = Horizon /\ Forever' = Forever
  BY ParametersStay DEF IInv, TypeOK, SampleTimer
<1>1. TypeOK
  BY DEF IInv
<1>2. /\ Armed(SampleTicks) \in Nat \cup {NoTimer}
      /\ Armed(SampleTicks) # NoTimer => Armed(SampleTicks) = SampleTicks
      /\ Armed(SampleTicks) = NoTimer => ~Forever /\ clock + SampleTicks >= StopTime
  BY <1>1, ArmedType, <1>0, Parameters
<1>3. TypeOK'
  BY <1>0, <1>1, <1>2 DEF TypeOK, SampleTimer, Samples
<1>4. SampleReady'
  BY DEF SampleTimer, SampleReady
<1>5. SampleNear' /\ SamplingStopped'
  BY <1>2, <1>0, Parameters DEF SampleTimer, SampleNear, SamplingStopped
<1>6. NoTimerWhileDown' /\ DueWithinWindow'
  BY <1>0 DEF IInv, SampleTimer, NoTimerWhileDown, DueWithinWindow
<1>7. QED BY <1>3, <1>4, <1>5, <1>6 DEF IInv

\* When a packet is sent its sample has been taken, and the sample timer is at
\* most a sampling interval away.
LEMMA PacketFindsSample ==
  ASSUME IInv, PacketTimer
  PROVE  /\ sample = seqNum
         /\ smpTimer = NoTimer \/ smpTimer <= SampleTicks
         /\ StartTime <= clock /\ (Forever \/ clock < StopTime)
<1>0. /\ setting \in Settings /\ setting' = setting
      /\ SampleTicks' = SampleTicks /\ StopTime' = StopTime
      /\ Horizon' = Horizon /\ Forever' = Forever
  BY ParametersStay DEF IInv, TypeOK, PacketTimer
<1>1. msgTimer = 0 /\ (smpTimer = 0 => first = "packet")
  BY DEF PacketTimer
<1>2. smpTimer \in Nat \cup {NoTimer} /\ clock \in Nat
  BY <1>0, Parameters DEF IInv, TypeOK
<1>3. sample = seqNum
  BY <1>1, <1>2 DEF IInv, SampleReady
<1>4. smpTimer = NoTimer \/ smpTimer <= SampleTicks
  BY <1>1, <1>2 DEF IInv, SampleNear
<1>5. StartTime <= clock /\ (Forever \/ clock < StopTime)
  BY <1>1, <1>2 DEF IInv, DueWithinWindow
<1>6. QED BY <1>3, <1>4, <1>5

\* Sending a packet.
LEMMA PacketTimerPreserves ==
  ASSUME IInv, PacketTimer
  PROVE  IInv'
<1>0. /\ setting \in Settings /\ setting' = setting
      /\ SampleTicks' = SampleTicks /\ StopTime' = StopTime
      /\ Horizon' = Horizon /\ Forever' = Forever
  BY ParametersStay DEF IInv, TypeOK, PacketTimer
<1>1. /\ TypeOK /\ NoTimerWhileDown /\ SampleNear /\ SamplingStopped
  BY DEF IInv
<1>2. /\ smpTimer \in Nat \cup {NoTimer} /\ clock \in Nat
      /\ StartTime <= clock
      /\ smpTimer = NoTimer \/ smpTimer <= SampleTicks
  BY <1>1, PacketFindsSample, <1>0, Parameters DEF TypeOK
<1>3. /\ UNCHANGED <<setting, up, clock, smpTimer, sample, aborted>>
      /\ destMACAddress' \in {DestAddress, Unspecified}
  BY <1>1 DEF PacketTimer, TypeOK
<1>4. CASE kind = "START" /\ DestAddress = Unspecified
  <2>1. msgTimer' = NoTimer /\ UNCHANGED <<first, kind, seqNum, packet>>
    BY <1>4 DEF PacketTimer
  <2>2. TypeOK'
    BY <1>0, <1>1, <1>3, <2>1 DEF TypeOK
  <2>3. SampleNear'
    BY <1>0, <1>2, <1>3, <2>1 DEF SampleNear
  <2>4. QED BY <1>0, <1>1, <1>3, <2>1, <2>2, <2>3
            DEF IInv, SampleReady, SamplingStopped, DueWithinWindow, NoTimerWhileDown
<1>5. CASE ~(kind = "START" /\ DestAddress = Unspecified)
  <2>1. /\ packet' = [smpCnt |-> seqNum, sample |-> sample]
        /\ seqNum' = Following(seqNum)
        /\ msgTimer' = Armed(SendTicks)
        /\ first' = "sample" /\ kind' = "NEXT"
    BY <1>5 DEF PacketTimer
  <2>2. /\ Armed(SendTicks) \in Nat \cup {NoTimer}
        /\ Armed(SendTicks) # NoTimer => Armed(SendTicks) = SendTicks
        /\ Armed(SendTicks) # NoTimer => Forever \/ clock + SendTicks < StopTime
    BY <1>1, ArmedType, <1>0, Parameters
  <2>3. seqNum \in 0 .. Rate /\ Following(seqNum) \in 0 .. Rate
    BY <1>1, <1>0, Parameters DEF TypeOK, Following
  <2>4. packet' \in Packets
    BY <1>1, <2>1 DEF TypeOK, Packets
  <2>5. TypeOK'
    BY <1>0, <1>1, <1>3, <2>1, <2>2, <2>3, <2>4 DEF TypeOK
  <2>6. msgTimer = 0 /\ up
    BY DEF PacketTimer
  <2>7. msgTimer' # NoTimer => smpTimer # NoTimer
    BY <1>1, <1>2, <2>1, <2>2, <2>6, <1>0, Parameters DEF SamplingStopped
  <2>8. SampleReady'
    BY <1>2, <1>3, <2>1, <2>2, <2>7, <1>0, Parameters DEF SampleReady
  <2>9. SampleNear' /\ SamplingStopped' /\ NoTimerWhileDown'
    BY <1>0, <1>2, <1>3, <2>6, <2>7 DEF SampleNear, SamplingStopped, NoTimerWhileDown
  <2>10. DueWithinWindow'
    BY <1>2, <1>3, <2>1, <2>2, <1>0, Parameters DEF DueWithinWindow
  <2>11. QED BY <2>5, <2>8, <2>9, <2>10 DEF IInv
<1>6. QED BY <1>4, <1>5

\* The lifecycle: shutdowns, crashes, restarts, messages to a node that is down.
LEMMA LifecyclePreserves ==
  ASSUME IInv, MessageWhileDown \/ NodeDown \/ NodeStart
  PROVE  IInv'
<1>0. /\ setting \in Settings /\ setting' = setting
      /\ SampleTicks' = SampleTicks /\ StopTime' = StopTime
      /\ Horizon' = Horizon /\ Forever' = Forever
  BY ParametersStay DEF IInv, TypeOK, MessageWhileDown, NodeDown, NodeStart
<1>1. TypeOK
  BY DEF IInv
<1>2. CASE MessageWhileDown
  BY <1>0, <1>2 DEF IInv, MessageWhileDown, timers, data, TypeOK, SampleNear, SamplingStopped,
              SampleReady, NoTimerWhileDown, DueWithinWindow
<1>3. CASE NodeDown
  BY <1>0, <1>3 DEF IInv, NodeDown, data, TypeOK, SampleNear, SamplingStopped,
              SampleReady, NoTimerWhileDown, DueWithinWindow
<1>4. CASE NodeStart
  <2>1. clock \in Nat /\ StartTime \in Nat
    BY <1>1, <1>0, Parameters DEF TypeOK
  <2>2. StartDelay \in Nat /\ StartTime <= clock + StartDelay
    BY <2>1 DEF StartDelay, Later
  <2>3. /\ Armed(StartDelay) \in Nat \cup {NoTimer}
        /\ Armed(StartDelay) # NoTimer => Armed(StartDelay) = StartDelay
        /\ Armed(StartDelay) # NoTimer => Forever \/ clock + StartDelay < StopTime
    BY <1>1, <2>2, ArmedType
  <2>4. /\ smpTimer' = Armed(StartDelay) /\ msgTimer' = Armed(StartDelay)
        /\ first' = "sample" /\ kind' = "START" /\ up' = TRUE
        /\ UNCHANGED <<setting, aborted, clock, seqNum, sample, destMACAddress, packet>>
    BY <1>4 DEF NodeStart, StartTimers, data
  <2>5. TypeOK'
    BY <1>0, <1>1, <2>3, <2>4 DEF TypeOK
  <2>6. DueWithinWindow'
    BY <1>0, <2>1, <2>2, <2>3, <2>4 DEF DueWithinWindow
  <2>7. QED BY <1>0, <2>3, <2>4, <2>5, <2>6
            DEF IInv, SampleNear, SamplingStopped, SampleReady, NoTimerWhileDown
<1>5. QED BY <1>2, <1>3, <1>4

\* Time passes.
LEMMA TickPreserves ==
  ASSUME IInv, Tick
  PROVE  IInv'
<1>0. /\ setting \in Settings /\ setting' = setting
      /\ SampleTicks' = SampleTicks /\ StopTime' = StopTime
      /\ Horizon' = Horizon /\ Forever' = Forever
  BY ParametersStay DEF IInv, TypeOK, Tick
<1>1. /\ clock \in Nat /\ clock <= Horizon /\ StopTime \in Int
      /\ smpTimer \in Nat \cup {NoTimer} /\ msgTimer \in Nat \cup {NoTimer}
  BY <1>0, Parameters DEF IInv, TypeOK
<1>2. /\ smpTimer # 0 /\ msgTimer # 0
      /\ clock' = (IF clock < Horizon THEN clock + 1 ELSE clock)
      /\ smpTimer' = (IF smpTimer > 0 THEN smpTimer - 1 ELSE smpTimer)
      /\ msgTimer' = (IF msgTimer > 0 THEN msgTimer - 1 ELSE msgTimer)
      /\ UNCHANGED <<setting, up, aborted, first, kind, seqNum, sample, destMACAddress, packet>>
  BY DEF Tick, data
<1>3. /\ clock' \in 0 .. Horizon
      /\ smpTimer' \in Nat \cup {NoTimer} /\ msgTimer' \in Nat \cup {NoTimer}
      /\ smpTimer' = NoTimer <=> smpTimer = NoTimer
      /\ msgTimer' = NoTimer <=> msgTimer = NoTimer
      /\ smpTimer # NoTimer => smpTimer' = smpTimer - 1
      /\ msgTimer # NoTimer => msgTimer' = msgTimer - 1
      /\ clock <= clock'
  BY <1>1, <1>2, <1>0, Parameters
<1>4. TypeOK'
  BY <1>0, <1>2, <1>3 DEF IInv, TypeOK
<1>5. SampleNear' /\ SampleReady' /\ NoTimerWhileDown'
  BY <1>1, <1>2, <1>3, <1>0, Parameters DEF IInv, SampleNear, SampleReady, NoTimerWhileDown
<1>6. SamplingStopped'
  <2>1. ASSUME msgTimer' # NoTimer, smpTimer' = NoTimer
        PROVE  ~Forever /\ clock' + SampleTicks >= StopTime
    <3>1. ~Forever
      BY <1>3, <2>1 DEF IInv, SamplingStopped
    <3>2. clock + SampleTicks >= StopTime
      BY <1>3, <2>1 DEF IInv, SamplingStopped
    <3>3. /\ clock \in Int /\ clock' \in Int /\ clock <= clock'
          /\ SampleTicks \in Int /\ StopTime \in Int
      BY <1>1, <1>3, <1>0, Parameters
    <3>4. clock' + SampleTicks >= StopTime
      BY <3>2, <3>3, LaterStillBeyond
    <3>5. QED BY <3>1, <3>4, Zenon
  <2>2. QED BY <1>0, <2>1 DEF SamplingStopped
<1>7. DueWithinWindow'
  <2>1. ASSUME msgTimer' # NoTimer
        PROVE  StartTime <= clock' + msgTimer' /\ (Forever \/ clock' + msgTimer' < StopTime)
    <3>1. /\ StartTime <= clock + msgTimer
          /\ Forever \/ clock + msgTimer < StopTime
          /\ msgTimer' = msgTimer - 1 /\ msgTimer' \in Nat
      BY <1>3, <2>1 DEF IInv, DueWithinWindow
    <3>2. CASE clock < Horizon
      BY <1>1, <1>2, <3>1, <3>2
    <3>3. CASE clock = Horizon
      BY <1>1, <1>2, <3>1, <3>3, <1>0, Parameters
    <3>4. QED BY <1>1, <3>2, <3>3, <1>0, Parameters
  <2>2. QED BY <1>0, <2>1 DEF DueWithinWindow
<1>8. QED BY <1>4, <1>5, <1>6, <1>7 DEF IInv

(***************************************************************************)
(* The invariant holds in every reachable state of the merging unit.        *)
(***************************************************************************)
THEOREM StreamInvariant == Spec => []IInv
<1>1. IInv /\ [Next]_vars => IInv'
  <2>1. ASSUME IInv, Halted \/ UNCHANGED vars
        PROVE  IInv'
    <3>1. UNCHANGED vars
      BY <2>1 DEF Halted
    <3>2. /\ SampleTicks' = SampleTicks /\ StopTime' = StopTime
          /\ Horizon' = Horizon /\ Forever' = Forever
      BY <3>1, ParametersStay DEF vars
    <3>3. QED BY <2>1, <3>1, <3>2 DEF vars, timers, data, IInv, TypeOK, SampleNear,
                 SamplingStopped, SampleReady, NoTimerWhileDown, DueWithinWindow
  <2>2. QED BY <2>1, SampleTimerPreserves, PacketTimerPreserves, LifecyclePreserves,
               TickPreserves DEF Next
<1>2. QED BY <1>1, InitEstablishes, PTL DEF Spec

\* The variables of the merging unit keep their types.
THEOREM TypeCorrect == Spec => []TypeOK
<1>1. IInv => TypeOK
  BY DEF IInv
<1>2. QED BY <1>1, StreamInvariant, PTL

\* The sample of every scheduled packet is taken before it (SampleTimer,
\* PacketTimer and the lifecycle handler of EtherAppSv).
THEOREM SamplesReady == Spec => []SampleReady
<1>1. IInv => SampleReady
  BY DEF IInv
<1>2. QED BY <1>1, StreamInvariant, PTL

\* Neither timer runs in a node that is down (handleOperationStage).
THEOREM TimersDieWithNode == Spec => []NoTimerWhileDown
<1>1. IInv => NoTimerWhileDown
  BY DEF IInv
<1>2. QED BY <1>1, StreamInvariant, PTL

\* sendPacket never sends outside startTime and stopTime.
THEOREM WindowRespected == Spec => SendsWithinWindow
<1>1. ASSUME IInv, [Next]_vars
      PROVE  [packet' # packet => StartTime <= clock /\ (Forever \/ clock < StopTime)]_vars
  <2>1. packet' = packet \/ PacketTimer
    BY <1>1 DEF Next, SampleTimer, MessageWhileDown, NodeDown, NodeStart, Tick, Halted,
                vars, timers, data
  <2>2. QED BY <1>1, <2>1, PacketFindsSample
<1>2. QED BY <1>1, StreamInvariant, PTL DEF Spec, SendsWithinWindow

\* The merging unit implements the stream: sendPacket and the counter.
THEOREM ImplementsStream == Spec => PublishesStream
<1>1. Init => Stream!Init
  BY DEF Init, Stream!Init
<1>2. ASSUME IInv, [Next]_vars
      PROVE  [Stream!Send]_(Stream!streamVars)
  <2>1. CASE PacketTimer
    <3>1. sample = seqNum
      BY <1>2, <2>1, PacketFindsSample
    <3>2. CASE kind = "START" /\ DestAddress = Unspecified
      BY <2>1, <3>2 DEF PacketTimer, Stream!streamVars
    <3>3. CASE ~(kind = "START" /\ DestAddress = Unspecified)
      BY <2>1, <3>1, <3>3 DEF PacketTimer, Stream!Send, Stream!Following, Following
    <3>4. QED BY <3>2, <3>3
  <2>2. CASE \/ SampleTimer \/ MessageWhileDown \/ NodeDown \/ NodeStart
             \/ Tick \/ Halted \/ UNCHANGED vars
    BY <2>2 DEF SampleTimer, MessageWhileDown, NodeDown, NodeStart, Tick, Halted,
                vars, timers, data, Stream!streamVars
  <2>3. QED BY <1>2, <2>1, <2>2 DEF Next
<1>3. QED BY <1>1, <1>2, StreamInvariant, PTL DEF Spec, PublishesStream, Stream!Spec

=============================================================================
