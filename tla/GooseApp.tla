------------------------------ MODULE GooseApp ------------------------------
(***************************************************************************)
(* One EtherAppGoose module: the GOOSE publisher of an IED together with    *)
(* the handler of the GOOSE frames it receives                              *)
(* (inet/src/applications/ethernet/EtherAppGoose.cc).                       *)
(*                                                                          *)
(* Time is counted in ticks.  `clock' is simTime(), saturated at the later  *)
(* of startTime and stopTime, beyond which the code never tells two         *)
(* instants apart.  `timer' is the time left before timerMsg fires.  Time   *)
(* never passes over a timer that is due; events from outside (a frame, a   *)
(* trigger of the sampled-value application, a lifecycle operation) may     *)
(* come at any instant, before or after a timer due at the same instant.    *)
(*                                                                          *)
(* `packet' and `ttlLeft' belong to a subscriber: the last packet that left *)
(* on gate "out", and the time its timeAllowedtoLive still has to run.      *)
(***************************************************************************)
EXTENDS GooseRole

CONSTANTS
  Burst,          \* sendInterval/32 of the parameter, in ticks
  TicksPerMs,     \* ticks in a millisecond, the unit of timeAllowedtoLive
  StartTime,      \* parameter startTime, in ticks
  StopTimes,      \* values of parameter stopTime, in ticks; negative means forever
  TtlRange,       \* 2^16: goTtlValue is a uint16_t
  CounterRange,   \* 2^32: goStNumValue and goSqNumValue are uint32_t
  DestAddress,    \* what resolveDestMACAddress() makes of parameter destAddress
  Unspecified,    \* the null MAC address, MACAddress::UNSPECIFIED_ADDRESS
  NoPacket,       \* no packet has been sent yet
  IedType, PcAppID, InterAppID, ComAppID,  \* parameters of the same names
  AppIDs          \* application identifiers of the frames that may arrive

SInterval == 32 * Burst
Later(a, b) == IF a < b THEN b ELSE a

Packets == [dest : {DestAddress, Unspecified}, ttl : 0 .. TtlRange - 1,
            stNum : 0 .. CounterRange - 1, sqNum : 0 .. CounterRange - 1,
            data : BOOLEAN]

\* What initialize() requires of the parameters, and what units mean.
ASSUME ParameterAssumption ==
  /\ Burst \in Nat \ {0} /\ TicksPerMs \in Nat \ {0}
  /\ TtlRange \in Nat \ {0} /\ CounterRange \in Nat \ {0, 1}
  /\ StartTime \in Nat /\ StopTimes \subseteq Int
  /\ \A s \in StopTimes : s >= 0 => StartTime <= s
  /\ IedType \in IedTypes
  /\ NoPacket \notin Packets

VARIABLES
  stopTime,       \* read from the parameter once, by initialize()
  up,             \* nodeStatus is UP
  aborted,        \* a cRuntimeError has ended the simulation
  clock, timer, kind,            \* simTime(), timerMsg and its kind
  sendInterval, seqNum, stChng, alarmState, destMACAddress,
  packet, ttlLeft

appVars == <<sendInterval, seqNum, stChng, alarmState, destMACAddress>>
vars == <<stopTime, up, aborted, clock, timer, kind, appVars, packet, ttlLeft>>

NoTimer == -1

Forever == stopTime < 0
Horizon == Later(StartTime, stopTime)

Init ==
  /\ stopTime \in StopTimes
  /\ up = TRUE /\ aborted = FALSE /\ clock = 0
  /\ sendInterval = SInterval
  /\ seqNum = 0 /\ stChng = 1 /\ alarmState = FALSE
  /\ destMACAddress = Unspecified
  /\ packet = NoPacket /\ ttlLeft = 0
  /\ kind = "START"
  /\ timer = IF Forever \/ StartTime < stopTime THEN StartTime ELSE NoTimer

-----------------------------------------------------------------------------
(***************************************************************************)
(* Helpers of the handlers.                                                 *)
(***************************************************************************)

\* Slips of scheduleNextPacket: doubling before arming, doubling at the
\* nominal interval too, arming at stopTime itself, not doubling
\* the last rung.
ScheduleDoubledFirst(delay, interval) ==
  LET next == IF interval < SInterval THEN 2 * interval ELSE interval
  IN  timer' = (IF delay = interval THEN next ELSE delay) /\ sendInterval' = next
ScheduleOvershoot(delay, interval) ==
  timer' = delay /\ sendInterval' = IF interval <= SInterval THEN 2 * interval
                                                            ELSE interval
ScheduleAtStop(delay, interval) ==
  /\ timer' = IF Forever \/ clock + delay <= stopTime THEN delay ELSE NoTimer
  /\ sendInterval' = IF interval < SInterval THEN 2 * interval ELSE interval
ScheduleStopsShort(delay, interval) ==
  /\ timer' = IF Forever \/ clock + delay < stopTime THEN delay ELSE NoTimer
  /\ sendInterval' = IF 2 * interval < SInterval THEN 2 * interval ELSE interval

\* scheduleNextPacket arms the timer after `delay' unless that is not before
\* stopTime, and only then doubles an interval below the nominal one.
Schedule(delay, interval) ==
  IF Forever \/ clock + delay < stopTime
  THEN /\ timer' = delay
       /\ sendInterval' = IF interval < SInterval THEN 2 * interval
                                                  ELSE interval
  ELSE /\ timer' = NoTimer
       /\ sendInterval' = interval

\* goTtlValue: the current interval in whole milliseconds, cut to 16 bits.
Ttl(interval) == (interval \div TicksPerMs) % TtlRange

\* A slip of sendPacket: the counter is not cut to the width of the field.
SendUncut(interval, dest, stNum, data) ==
  /\ seqNum' = seqNum + 1
  /\ packet' = [dest |-> dest, ttl |-> Ttl(interval), stNum |-> stNum,
                sqNum |-> seqNum', data |-> data]
  /\ ttlLeft' = Ttl(interval) * TicksPerMs
  /\ kind' = "NEXT"
  /\ Schedule(interval, interval)

\* sendPacket() followed by scheduleNextPacket(false).
SendAndSchedule(interval, dest, stNum, data) ==
  /\ seqNum' = (seqNum + 1) % CounterRange
  /\ packet' = [dest |-> dest, ttl |-> Ttl(interval), stNum |-> stNum,
                sqNum |-> seqNum', data |-> data]
  /\ ttlLeft' = Ttl(interval) * TicksPerMs
  /\ kind' = "NEXT"
  /\ Schedule(interval, interval)

\* Slips of setAlarmState and of the repetition: the state number is not
\* counted; nothing is sent before the timer fires; the timer is cancelled
\* and not scheduled again.
SetAlarmStateUncounted ==
  /\ alarmState' = ~alarmState
  /\ SendAndSchedule(Burst, destMACAddress, stChng, alarmState')
  /\ UNCHANGED <<stChng, destMACAddress>>
SetAlarmStateSilent ==
  /\ alarmState' = ~alarmState
  /\ stChng' = (stChng + 1) % CounterRange
  /\ kind' = "NEXT"
  /\ Schedule(Burst, Burst)
  /\ UNCHANGED <<seqNum, destMACAddress, packet, ttlLeft>>
RepeatStateUnscheduled ==
  /\ seqNum' = (seqNum + 1) % CounterRange
  /\ packet' = [dest |-> destMACAddress, ttl |-> Ttl(Burst), stNum |-> stChng,
                sqNum |-> seqNum', data |-> alarmState]
  /\ ttlLeft' = Ttl(Burst) * TicksPerMs
  /\ timer' = NoTimer /\ sendInterval' = Burst
  /\ UNCHANGED <<kind, stChng, alarmState, destMACAddress>>

\* setAlarmState(): toggle, count, and restart the burst.
SetAlarmState ==
  /\ alarmState' = ~alarmState
  /\ stChng' = (stChng + 1) % CounterRange
  /\ SendAndSchedule(Burst, destMACAddress, stChng', alarmState')
  /\ UNCHANGED destMACAddress

\* The receiver's answer to a peer that has not followed: restart the burst
\* without changing the state.
RepeatState ==
  /\ SendAndSchedule(Burst, destMACAddress, stChng, alarmState)
  /\ UNCHANGED <<stChng, alarmState, destMACAddress>>

-----------------------------------------------------------------------------
(***************************************************************************)
(* Actions: one per event the module handles.                               *)
(***************************************************************************)

\* timerMsg of kind START: resolve the destination; a null one ends sending.
StartTimer ==
  /\ ~aborted /\ up /\ timer = 0 /\ kind = "START"
  /\ destMACAddress' = DestAddress
  /\ IF DestAddress = Unspecified
     THEN /\ timer' = NoTimer
          /\ UNCHANGED <<kind, sendInterval, seqNum, packet, ttlLeft>>
     ELSE SendAndSchedule(sendInterval, DestAddress, stChng, alarmState)
  /\ UNCHANGED <<stopTime, up, aborted, clock, stChng, alarmState>>

\* timerMsg of kind NEXT.
NextTimer ==
  /\ ~aborted /\ up /\ timer = 0 /\ kind = "NEXT"
  /\ SendAndSchedule(sendInterval, destMACAddress, stChng, alarmState)
  /\ UNCHANGED <<stopTime, up, aborted, clock, stChng, alarmState, destMACAddress>>

\* The sampled-value application of the same IED calls setAlarmState().
SvTrigger ==
  /\ ~aborted /\ up
  /\ SetAlarmState
  /\ UNCHANGED <<stopTime, up, aborted, clock>>

\* A GOOSE frame of application id arrives with the data item d.
ReceivePacket(id, d) ==
  /\ ~aborted /\ up
  /\ d # alarmState
  /\ LET reaction == Reaction(IedType, id, PcAppID, InterAppID, ComAppID)
     IN  \/ reaction = "change" /\ SetAlarmState
         \/ reaction = "repeat" /\ RepeatState
  /\ UNCHANGED <<stopTime, up, aborted, clock>>

\* A message delivered while the node is down, a frame or a timer still
\* running: handleMessage throws.
MessageWhileDown ==
  /\ ~aborted /\ ~up
  /\ aborted' = TRUE
  /\ UNCHANGED <<stopTime, up, clock, timer, kind, appVars, packet, ttlLeft>>

\* NodeShutdownOperation and NodeCrashOperation: the timer is cancelled, the
\* rest of the state stays.
NodeDown ==
  /\ ~aborted /\ up
  /\ up' = FALSE
  /\ timer' = NoTimer
  /\ UNCHANGED <<stopTime, aborted, clock, kind, appVars, packet, ttlLeft>>

\* A slip of the lifecycle handler: the restarted application is not
\* scheduled.
NodeStartUnscheduled ==
  /\ ~aborted /\ ~up
  /\ up' = TRUE
  /\ kind' = "START"
  /\ UNCHANGED <<stopTime, aborted, clock, timer, appVars, packet, ttlLeft>>

\* NodeStartOperation: scheduleNextPacket(true).
NodeStart ==
  /\ ~aborted /\ ~up
  /\ up' = TRUE
  /\ kind' = "START"
  /\ Schedule(Later(StartTime - clock, 0), sendInterval)
  /\ UNCHANGED <<stopTime, aborted, clock, seqNum, stChng, alarmState, destMACAddress,
                 packet, ttlLeft>>

\* Time passes, never over a timer that is due.
Tick ==
  /\ ~aborted /\ timer # 0
  /\ clock' = IF clock < Horizon THEN clock + 1 ELSE clock
  /\ timer' = IF timer > 0 THEN timer - 1 ELSE timer
  /\ ttlLeft' = IF ttlLeft > 0 THEN ttlLeft - 1 ELSE ttlLeft
  /\ UNCHANGED <<stopTime, up, aborted, kind, appVars, packet>>

Halted == aborted /\ UNCHANGED vars

Disturbance == SvTrigger \/ \E id \in AppIDs, d \in BOOLEAN : ReceivePacket(id, d)

Next ==
  \/ StartTimer \/ NextTimer
  \/ Disturbance \/ MessageWhileDown
  \/ NodeDown \/ NodeStart
  \/ Tick \/ Halted

Spec == Init /\ [][Next]_vars

\* The simulation kernel delivers every scheduled event and then advances
\* the time, so a due timer fires and time passes.
FairSpec == Spec /\ WF_vars(Tick) /\ WF_vars(StartTimer \/ NextTimer)

-----------------------------------------------------------------------------
(***************************************************************************)
(* Properties.                                                              *)
(***************************************************************************)

TypeOK ==
  /\ stopTime \in StopTimes
  /\ up \in BOOLEAN /\ aborted \in BOOLEAN
  /\ clock \in 0 .. Horizon
  /\ timer \in {NoTimer} \cup Nat
  /\ kind \in {"START", "NEXT"}
  /\ sendInterval \in Nat \ {0}
  /\ seqNum \in 0 .. CounterRange - 1
  /\ stChng \in 0 .. CounterRange - 1
  /\ alarmState \in BOOLEAN
  /\ destMACAddress \in {DestAddress, Unspecified}
  /\ packet \in Packets \cup {NoPacket}
  /\ ttlLeft \in Nat

\* The interval of a burst is a whole number of milliseconds, and the nominal
\* interval fits the time to live: the condition on the parameters under
\* which timeAllowedtoLive is exact.
UnitsFit == Burst % TicksPerMs = 0 /\ SInterval \div TicksPerMs < TtlRange

(***************************************************************************)
(* timeAllowedtoLive tells a subscriber how long to wait for the next       *)
(* message (EtherGooseStruct.h:36).  Through bursts, restarts and the       *)
(* doubling inside scheduleNextPacket, while a follow-up packet is          *)
(* scheduled it is due exactly when the time to live announced by the last  *)
(* packet ends.  The packet is built before the interval doubles; the other *)
(* order, or an event that forgets to reset the interval first, breaks it.  *)
(***************************************************************************)
TtlIsTimeToNext ==
  UnitsFit /\ packet # NoPacket /\ kind = "NEXT" /\ timer # NoTimer => timer = ttlLeft

(***************************************************************************)
(* A publisher that is up and has sent something falls silent only because  *)
(* stopTime is near, or equal to startTime: no interleaving of events,      *)
(* cancels and restarts loses the timer (cancelNextPacket is always         *)
(* followed by a new schedule).                                             *)
(***************************************************************************)
NeverSilenced ==
  up /\ ~aborted /\ packet # NoPacket /\ timer = NoTimer
     /\ DestAddress # Unspecified
  => ~Forever /\ (clock + sendInterval >= stopTime \/ StartTime = stopTime)

(***************************************************************************)
(* A timer never survives into a node that is down, so handleMessage never  *)
(* throws "Application is not running" for a self-message (only a frame     *)
(* from below can make it throw), and scheduleNextPacket(true) of a restart *)
(* never finds the message already scheduled, which is an error as well.    *)
(***************************************************************************)
NoTimerWhileDown == ~up => timer = NoTimer

(***************************************************************************)
(* stNum and the data item change together, across wrap-around and          *)
(* restarts: stNum is odd exactly when the published state is FALSE, so two *)
(* packets with the same stNum never carry different data.                  *)
(***************************************************************************)
StNumTellsState ==
  /\ CounterRange % 2 = 0 => (alarmState <=> stChng % 2 = 0)
  /\ packet # NoPacket => packet.stNum = stChng /\ packet.data = alarmState

(***************************************************************************)
(* No packet is left scheduled for an instant at or after stopTime, whatever *)
(* burst or restart armed the timer last.                                   *)
(***************************************************************************)
NothingDueAfterStop ==
  timer # NoTimer /\ ~Forever => clock + timer < stopTime

\* The interval is the nominal one divided by a power of two at most 32.
OnLadder(n) == \E m \in {1, 2, 4, 8, 16, 32} : n = m * Burst

(***************************************************************************)
(* The retransmission interval never leaves the ladder of burst intervals   *)
(* and a rung is never skipped: a pending follow-up packet was scheduled    *)
(* with the present interval, if that is nominal, or with half of it.       *)
(***************************************************************************)
BackoffLadder ==
  /\ OnLadder(sendInterval)
  /\ kind = "NEXT" /\ timer # NoTimer =>
       \/ timer <= sendInterval \div 2
       \/ sendInterval = SInterval /\ timer <= SInterval

(***************************************************************************)
(* The detailed publisher implements the abstract one: every change of      *)
(* alarmState goes out at once under a new stNum, and nothing else that is  *)
(* sent pretends to be a change, whatever burst, answer or restart it is    *)
(* part of.  EtherGooseStruct.h:54-60 reserves 0 and lets a counter roll    *)
(* over to 1 (Documented).  A step in which stChng++ or seqNum++ passes its *)
(* largest value is exempt from that, and from nothing else: it sends what  *)
(* the publisher promises, but for the counter that comes to 0 (Wrapping).  *)
(***************************************************************************)
Published ==
  IF packet = NoPacket THEN NoPacket
  ELSE [data |-> packet.data, stNum |-> packet.stNum, sqNum |-> packet.sqNum]

Documented == INSTANCE GooseControlBlock
                WITH First <- 1, Last <- CounterRange - 1, None <- NoPacket,
                     state <- alarmState, stNum <- stChng, sqNum <- seqNum,
                     published <- Published
Wrapping   == INSTANCE GooseControlBlock
                WITH First <- 0, Last <- CounterRange - 1, None <- NoPacket,
                     state <- alarmState, stNum <- stChng, sqNum <- seqNum,
                     published <- Published

\* A counter passes its largest value.
ComesToZero == (stChng # 0 /\ stChng' = 0) \/ (seqNum # 0 /\ seqNum' = 0)

PublishesChanges ==
  /\ Documented!Init
  /\ [][Documented!Next \/ (ComesToZero /\ Wrapping!Next)]_(Documented!cbVars)

(***************************************************************************)
(* Once nothing disturbs the publisher any more it climbs back to the       *)
(* nominal interval and stays there, if it never stops and its node stays   *)
(* up.                                                                      *)
(***************************************************************************)
BackoffSettles ==
  (Forever /\ DestAddress # Unspecified
     /\ <>[](up /\ ~aborted) /\ <>[][~Disturbance]_vars)
  => <>[](sendInterval = SInterval)

(***************************************************************************)
(* A publisher that never stops, on a node that stays up, sends for ever:   *)
(* the heartbeat that repairs lost packets.                                 *)
(***************************************************************************)
HeartbeatForever ==
  (Forever /\ DestAddress # Unspecified /\ <>[](up /\ ~aborted))
  => []<><<packet' # packet>>_vars

(***************************************************************************)
(* What the documentation says and the code does not do.                    *)
(***************************************************************************)

\* EtherAppGoose.ned:27: destAddress is the destination MAC address of what
\* the module sends.
SentToDestAddress == packet # NoPacket => packet.dest = DestAddress

=============================================================================
