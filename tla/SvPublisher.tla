---------------------------- MODULE SvPublisher -----------------------------
(***************************************************************************)
(* One EtherAppSv module that generates (sendInterval not 0): the           *)
(* application of a merging unit                                            *)
(* (inet/src/applications/ethernet/EtherAppSv.cc).                          *)
(*                                                                          *)
(* Two timers run side by side, one that takes samples and one that sends   *)
(* them; they share seqNum and the last sample.  Time is counted in ticks,  *)
(* clock saturates at the later of startTime and stopTime.  When both       *)
(* timers are due at the same instant the one that was scheduled first      *)
(* fires first: `first' says which one that is.                             *)
(***************************************************************************)
EXTENDS Integers

CONSTANTS
  Rate,                     \* parameter samplingRate
  Settings,                 \* values of sendInterval, sampleInterval and stopTime
  StartTime,                \* parameter startTime
  DestAddress, Unspecified, \* the resolved destination, the null MAC address
  Unset,                    \* currentSampleValue before the first sample
  NoPacket                  \* nothing has been sent yet

Later(a, b) == IF a < b THEN b ELSE a

\* A sample is told by the count its value was computed for.
Samples == 0 .. Rate \cup {Unset}
Packets == [smpCnt : 0 .. Rate, sample : Samples]

(***************************************************************************)
(* Both documented settings sample at least as often as they send           *)
(* (EtherAppSv.ned:31-32: 208333 ns and 208333 ns for protection, 65104 ns  *)
(* and 520833 ns for measuring), and the count fits its 16-bit field.       *)
(***************************************************************************)
ASSUME StreamAssumption ==
  /\ Rate \in Nat \ {0} /\ Rate < 65536
  /\ StartTime \in Nat
  /\ Settings \subseteq [send : Nat \ {0}, sample : Nat \ {0}, stop : Int]
  /\ \A s \in Settings : /\ s.sample <= s.send
                         /\ s.stop >= 0 => StartTime <= s.stop
  /\ Unset \notin 0 .. Rate
  /\ NoPacket \notin Packets

VARIABLES
  setting,                  \* the parameters of this run, read in initialize()
  up,                       \* nodeStatus is UP
  aborted,                  \* a cRuntimeError has ended the simulation
  clock,
  smpTimer, msgTimer,       \* time left before timerSmp and timerMsg fire
  first,                    \* the one of the two that was scheduled earlier
  kind,                     \* kind of timerMsg
  seqNum, sample, destMACAddress,
  packet                    \* the last packet that left on gate "out"

timers == <<smpTimer, msgTimer, first, kind>>
data == <<seqNum, sample, destMACAddress, packet>>
vars == <<setting, up, aborted, clock, timers, data>>

NoTimer == -1

SendTicks   == setting.send
SampleTicks == setting.sample
StopTime    == setting.stop       \* negative means forever
Forever     == StopTime < 0
Horizon     == Later(StartTime, StopTime)

-----------------------------------------------------------------------------

\* scheduleAt after a delay, unless that is not before stopTime.
Armed(delay) == IF Forever \/ clock + delay < StopTime THEN delay ELSE NoTimer

StartDelay == Later(StartTime - clock, 0)

\* A slip of the start: the packet timer is scheduled before the sample timer.
StartTimersPacketFirst(delay) ==
  /\ smpTimer' = Armed(delay)
  /\ msgTimer' = Armed(delay)
  /\ first' = "packet" /\ kind' = "START"

\* scheduleNextSample(true) and then scheduleNextPacket(true).
StartTimers(delay) ==
  /\ smpTimer' = Armed(delay)
  /\ msgTimer' = Armed(delay)
  /\ first' = "sample" /\ kind' = "START"

Init ==
  /\ setting \in Settings
  /\ up = TRUE /\ aborted = FALSE /\ clock = 0
  /\ smpTimer = IF Forever \/ StartTime < StopTime THEN StartTime ELSE NoTimer
  /\ msgTimer = smpTimer
  /\ first = "sample" /\ kind = "START"
  /\ seqNum = 0 /\ sample = Unset
  /\ destMACAddress = Unspecified
  /\ packet = NoPacket

\* timerSmp: take a sample for the present count.
SampleTimer ==
  /\ ~aborted /\ up
  /\ smpTimer = 0 /\ (msgTimer = 0 => first = "sample")
  /\ sample' = seqNum
  /\ smpTimer' = Armed(SampleTicks)
  /\ first' = "packet"
  /\ UNCHANGED <<setting, up, aborted, clock, msgTimer, kind, seqNum, destMACAddress, packet>>

\* Slips of the counter, stopping one short and one late, and the counter of
\* sendPacket.
FollowingLate(n) == IF n > Rate THEN 0 ELSE n + 1
FollowingShort(n) == IF n = Rate - 1 THEN 0 ELSE n + 1
Following(n) == IF n = Rate THEN 0 ELSE n + 1

\* timerMsg: send the last sample under the present count and count on.  The
\* first time the destination is resolved; a null one ends sending.
PacketTimer ==
  /\ ~aborted /\ up
  /\ msgTimer = 0 /\ (smpTimer = 0 => first = "packet")
  /\ destMACAddress' = IF kind = "START" THEN DestAddress ELSE destMACAddress
  /\ IF kind = "START" /\ DestAddress = Unspecified
     THEN /\ msgTimer' = NoTimer
          /\ UNCHANGED <<first, kind, seqNum, packet>>
     ELSE /\ packet' = [smpCnt |-> seqNum, sample |-> sample]
          /\ seqNum' = Following(seqNum)
          /\ msgTimer' = Armed(SendTicks)
          /\ first' = "sample" /\ kind' = "NEXT"
  /\ UNCHANGED <<setting, up, aborted, clock, smpTimer, sample>>

\* A message delivered while the node is down: handleMessage throws.
MessageWhileDown ==
  /\ ~aborted /\ ~up
  /\ aborted' = TRUE
  /\ UNCHANGED <<setting, up, clock, timers, data>>

\* NodeShutdownOperation and NodeCrashOperation.
NodeDown ==
  /\ ~aborted /\ up
  /\ up' = FALSE
  /\ smpTimer' = NoTimer /\ msgTimer' = NoTimer
  /\ UNCHANGED <<setting, aborted, clock, first, kind, data>>

\* Slips of the lifecycle handler: the restart does not wait for startTime;
\* it does not schedule the packets.
NodeStartAtOnce ==
  /\ ~aborted /\ ~up
  /\ up' = TRUE
  /\ StartTimers(0)
  /\ UNCHANGED <<setting, aborted, clock, data>>
NodeStartSamplesOnly ==
  /\ ~aborted /\ ~up
  /\ up' = TRUE
  /\ smpTimer' = Armed(StartDelay)
  /\ UNCHANGED <<setting, aborted, clock, msgTimer, first, kind, data>>

\* NodeStartOperation.
NodeStart ==
  /\ ~aborted /\ ~up
  /\ up' = TRUE
  /\ StartTimers(StartDelay)
  /\ UNCHANGED <<setting, aborted, clock, data>>

\* Time passes, never over a timer that is due.
Tick ==
  /\ ~aborted /\ smpTimer # 0 /\ msgTimer # 0
  /\ clock' = IF clock < Horizon THEN clock + 1 ELSE clock
  /\ smpTimer' = IF smpTimer > 0 THEN smpTimer - 1 ELSE smpTimer
  /\ msgTimer' = IF msgTimer > 0 THEN msgTimer - 1 ELSE msgTimer
  /\ UNCHANGED <<setting, up, aborted, first, kind, data>>

Halted == aborted /\ UNCHANGED vars

Next ==
  \/ SampleTimer \/ PacketTimer
  \/ MessageWhileDown \/ NodeDown \/ NodeStart
  \/ Tick \/ Halted

Spec == Init /\ [][Next]_vars

\* The simulation kernel delivers what is due and then advances the time.
FairSpec == Spec /\ WF_vars(SampleTimer \/ PacketTimer) /\ WF_vars(Tick)

-----------------------------------------------------------------------------
(***************************************************************************)
(* Properties.                                                              *)
(***************************************************************************)

TypeOK ==
  /\ setting \in Settings
  /\ up \in BOOLEAN /\ aborted \in BOOLEAN
  /\ clock \in 0 .. Horizon
  /\ smpTimer \in Nat \cup {NoTimer} /\ msgTimer \in Nat \cup {NoTimer}
  /\ first \in {"sample", "packet"} /\ kind \in {"START", "NEXT"}
  /\ seqNum \in 0 .. Rate /\ sample \in Samples
  /\ destMACAddress \in {DestAddress, Unspecified}
  /\ packet \in Packets \cup {NoPacket}

(***************************************************************************)
(* A packet that is scheduled finds the sample of its own count: it has     *)
(* been taken, or is going to be taken before the packet is sent.  At the   *)
(* instants the timers share it is the order of the two calls in            *)
(* initialize() and of the two handlers that decides, and after a restart   *)
(* the order in handleOperationStage().                                     *)
(***************************************************************************)
SampleReady ==
  msgTimer # NoTimer =>
    \/ sample = seqNum
    \/ smpTimer # NoTimer /\ smpTimer < msgTimer
    \/ smpTimer # NoTimer /\ smpTimer = msgTimer /\ first = "sample"

(***************************************************************************)
(* The merging unit implements the stream: no count is left out or sent     *)
(* twice over restarts, and uninitialized or stale samples are never sent.  *)
(***************************************************************************)
Stream == INSTANCE SvStream WITH None <- NoPacket, count <- seqNum, sent <- packet

PublishesStream == Stream!Spec

\* Neither timer survives into a node that is down: handleMessage would throw,
\* or the restart would schedule a message that is already scheduled.
NoTimerWhileDown == ~up => smpTimer = NoTimer /\ msgTimer = NoTimer

(***************************************************************************)
(* EtherAppSv.ned:29-30: nothing is sent before startTime, nor at or after  *)
(* stopTime, wherever shutdowns and restarts fall.                          *)
(***************************************************************************)
SendsWithinWindow ==
  [][packet' # packet => StartTime <= clock /\ (Forever \/ clock < StopTime)]_vars

(***************************************************************************)
(* A merging unit that never stops, on a node that stays up, sends for      *)
(* ever: sampling and sending never shut each other out.                    *)
(***************************************************************************)
StreamGoesOn ==
  (Forever /\ DestAddress # Unspecified /\ <>[](up /\ ~aborted))
  => []<><<packet' # packet>>_vars

=============================================================================
