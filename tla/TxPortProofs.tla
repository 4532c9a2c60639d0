---------------------------- MODULE TxPortProofs ----------------------------
(***************************************************************************)
(* Theorems about the transmitting side of a port, for any number of        *)
(* priorities, any capacity of the queues, any pause times, any faults of   *)
(* link and node, and both kinds of build.                                  *)
(***************************************************************************)
EXTENDS TxPort, SequenceTheorems, TLAPS

-----------------------------------------------------------------------------
(***************************************************************************)
(* The inductive invariant.  While the node is up the handshake between MAC *)
(* and scheduler is in one of three states; it is these, with what is in    *)
(* flight, that every step keeps, and not the sum OneRequestOut makes of    *)
(* them.  A node that is down has nothing queued and, once the wire is      *)
(* empty, nothing asked for, so the request initializeQueueModule makes     *)
(* when it is started is the only one.                                      *)
(***************************************************************************)

\* A request is out, for lack of a frame or with its frame on the wire.
Requested ==
  /\ asked = 1
  /\ \/ unmet = 1 /\ wire = <<>> /\ Waiting(queue) = {}
     \/ unmet = 0 /\ \E m \in Messages : m.to = "scheduler" /\ wire = <<m>>

\* The frame is on its way to the MAC.
Passed ==
  /\ asked = 0 /\ unmet = 0
  /\ \E m \in Messages : m.to = "MAC" /\ wire = <<m>>

\* The MAC has it.
Taken == asked = 0 /\ unmet = 0 /\ wire = <<>>

Handshake == \/ Requested /\ curTxFrame = NoFrame
             \/ Passed /\ curTxFrame = NoFrame
             \/ Taken /\ curTxFrame # NoFrame

NodeUp == isOperational => Handshake /\ aborted = "no"

NodeDown == ~isOperational => /\ Waiting(queue) = {} /\ unmet = 0
                              /\ wire = <<>> => asked = 0

Link == /\ connected => isOperational
        /\ ~connected => curTxFrame = NoFrame /\ transmitState = "TX_IDLE"

IInv == TypeOK /\ NodeUp /\ NodeDown /\ Link /\ TimerFitsState

-----------------------------------------------------------------------------
\* A frame has a priority, which is turned round into the input it is queued
\* at, and is not NoFrame.
LEMMA FrameFacts ==
  ASSUME NEW frame \in Frames
  PROVE  /\ frame.ppc \in Ppcs /\ frame.ppc \in 0..TopPpc
         /\ Gate(frame.ppc) \in Inputs /\ Gate(frame.ppc) = TopPpc - frame.ppc
         /\ frame # NoFrame
<1>1. frame.ppc \in Ppcs
  BY DEF Frames
<1>2. frame.ppc \in 0..TopPpc /\ TopPpc \in Nat
  BY <1>1, TxPortAssumption DEF TxPortAssumption
<1>3. frame.ppc # NoFrame.ppc
  BY <1>2 DEF NoFrame
<1>4. Gate(frame.ppc) \in Inputs /\ Gate(frame.ppc) = TopPpc - frame.ppc
  BY <1>2 DEF Gate, Inputs
<1>5. QED BY <1>1, <1>2, <1>3, <1>4

(***************************************************************************)
(* Sequences of at most one message.                                        *)
(***************************************************************************)
LEMMA OneMessage ==
  ASSUME NEW S, NEW m \in S
  PROVE  /\ <<m>> \in Seq(S) /\ <<>> \in Seq(S) /\ <<m>> # <<>> /\ Head(<<m>>) = m /\ Tail(<<m>>) = <<>>
         /\ Append(<<>>, m) = <<m>> /\ Len(<<m>>) = 1 /\ Len(<<>>) = 0
OBVIOUS

\* Taking the head off a queue leaves a queue, and queueing one too.
LEMMA QueueSteps ==
  ASSUME NEW q \in [Inputs -> Seq(Frames)], NEW i \in Inputs
  PROVE  /\ \A frame \in Frames : [q EXCEPT ![i] = Append(@, frame)] \in [Inputs -> Seq(Frames)]
         /\ q[i] # <<>> => /\ Head(q[i]) \in Frames
                           /\ [q EXCEPT ![i] = Tail(@)] \in [Inputs -> Seq(Frames)]
<1>1. q[i] \in Seq(Frames)
  OBVIOUS
<1>2. \A frame \in Frames : Append(q[i], frame) \in Seq(Frames)
  BY <1>1
<1>3. q[i] # <<>> => Head(q[i]) \in Frames /\ Tail(q[i]) \in Seq(Frames)
  BY <1>1
<1>4. QED BY <1>2, <1>3

\* What schedulePacket does with an empty wire: nothing if all queues are
\* empty, else one frame is on its way to the scheduler.
LEMMA Scheduling ==
  ASSUME NEW q \in [Inputs -> Seq(Frames)], SchedulePacket(q, <<>>)
  PROVE  /\ queue' \in [Inputs -> Seq(Frames)]
         /\ Waiting(q) = {} => queue' = q /\ wire' = <<>>
         /\ Waiting(q) # {} => \E m \in Messages : m.to = "scheduler" /\ wire' = <<m>>
<1>1. CASE Waiting(q) = {}
  BY <1>1 DEF SchedulePacket
<1>2. CASE Waiting(q) # {}
  <2>1. PICK i \in Inputs :
          /\ IsFirst(i, q)
          /\ queue' = [q EXCEPT ![i] = Tail(@)]
          /\ wire' = Append(<<>>, [to |-> "scheduler", frame |-> Head(q[i])])
    BY <1>2 DEF SchedulePacket
  <2>2. q[i] # <<>>
    BY <2>1 DEF IsFirst, Waiting
  <2>3. Head(q[i]) \in Frames /\ queue' \in [Inputs -> Seq(Frames)]
    BY <2>1, <2>2, QueueSteps
  <2>4. [to |-> "scheduler", frame |-> Head(q[i])] \in Messages
    BY <2>3 DEF Messages
  <2>5. QED BY <1>2, <2>1, <2>3, <2>4, OneMessage
<1>3. QED BY <1>1, <1>2

\* A request of a MAC that has none out, over an empty wire.
LEMMA Requesting ==
  ASSUME queue \in [Inputs -> Seq(Frames)], asked = 0, unmet = 0, RequestNextFrame(<<>>)
  PROVE  /\ queue' \in [Inputs -> Seq(Frames)] /\ wire' \in Seq(Messages)
         /\ asked' \in Int /\ unmet' \in Int
         /\ Requested'
<1>1. /\ asked' = 1 /\ SchedulePacket(queue, <<>>)
      /\ unmet' = IF Waiting(queue) = {} THEN 1 ELSE 0
  BY DEF RequestNextFrame, RequestPacket
<1>2. /\ queue' \in [Inputs -> Seq(Frames)]
      /\ Waiting(queue) = {} => queue' = queue /\ wire' = <<>>
      /\ Waiting(queue) # {} => \E m \in Messages : m.to = "scheduler" /\ wire' = <<m>>
  BY <1>1, Scheduling
<1>3. CASE Waiting(queue) = {}
  BY <1>1, <1>2, <1>3 DEF Requested, Waiting
<1>4. CASE Waiting(queue) # {}
  <2>1. PICK m \in Messages : m.to = "scheduler" /\ wire' = <<m>>
    BY <1>2, <1>4
  <2>2. wire' \in Seq(Messages)
    BY <2>1, OneMessage
  <2>3. asked' = 1 /\ unmet' = 0
    BY <1>1, <1>4
  <2>4. QED BY <1>2, <2>1, <2>2, <2>3 DEF Requested
<1>5. QED BY <1>3, <1>4

-----------------------------------------------------------------------------
(***************************************************************************)
(* Every step keeps the invariant.                                          *)
(***************************************************************************)
LEMMA InitEstablishes == Init => IInv
<1> SUFFICES ASSUME Init PROVE IInv
  OBVIOUS
<1>1. TypeOK
  BY TxPortAssumption DEF TxPortAssumption, Init, TypeOK, MACStates, Errors, Timers
<1>2. NodeUp /\ NodeDown /\ Link
  BY DEF Init, NodeUp, NodeDown, Link, Handshake, Requested, Waiting
<1>3. TimerFitsState
  BY DEF Init, TimerFitsState, Timers
<1>4. QED BY <1>1, <1>2, <1>3 DEF IInv

\* The frame from the relay: it serves the pending request or it waits.
LEMMA EnqueuePreserves ==
  ASSUME IInv, NEW frame \in Frames, Enqueue(frame)
  PROVE  IInv'
<1> USE DEF IInv
<1> DEFINE q == [queue EXCEPT ![Gate(frame.ppc)] = Append(@, frame)]
<1>1. TypeOK /\ Handshake /\ isOperational
  BY DEF Enqueue, NodeUp
<1>2. Gate(frame.ppc) \in Inputs
  BY FrameFacts
<1>3. q \in [Inputs -> Seq(Frames)] /\ q[Gate(frame.ppc)] # <<>>
  <2>1. queue \in [Inputs -> Seq(Frames)]
    BY <1>1 DEF TypeOK
  <2>2. q \in [Inputs -> Seq(Frames)]
    BY <1>2, <2>1, QueueSteps
  <2>3. q[Gate(frame.ppc)] = Append(queue[Gate(frame.ppc)], frame) /\ queue[Gate(frame.ppc)] \in Seq(Frames)
    BY <1>2, <2>1
  <2>4. QED BY <2>2, <2>3
<1>4. /\ queue' \in [Inputs -> Seq(Frames)] /\ wire' \in Seq(Messages)
      /\ asked' \in Int /\ unmet' \in Int /\ Handshake'
  <2>1. CASE Full(Gate(frame.ppc))
    BY <1>1, <2>1 DEF Enqueue, queues, transmitter, TypeOK, Handshake, Requested,
                      Passed, Taken, Waiting
  <2>2. CASE ~Full(Gate(frame.ppc)) /\ unmet > 0
    <3>1. asked = 1 /\ unmet = 1 /\ wire = <<>> /\ curTxFrame = NoFrame
      BY <1>1, <2>2 DEF Handshake, Requested, Passed, Taken
    <3>2. SchedulePacket(q, <<>>) /\ asked' = 1 /\ curTxFrame' = NoFrame
      BY <2>2, <3>1 DEF Enqueue, PacketEnqueued, transmitter
    <3>3. Waiting(q) # {}
      BY <1>2, <1>3 DEF Waiting
    <3>4. unmet' = 0
      <4>1. unmet' = IF Waiting(q) = {} THEN unmet ELSE unmet - 1
        BY <2>2 DEF Enqueue, PacketEnqueued
      <4> HIDE DEF q
      <4>2. QED BY <3>1, <3>3, <4>1
    <3>5. /\ queue' \in [Inputs -> Seq(Frames)]
          /\ \E m \in Messages : m.to = "scheduler" /\ wire' = <<m>>
      <4> HIDE DEF q
      <4>1. QED BY <1>3, <3>2, <3>3, Scheduling
    <3>6. QED BY <3>2, <3>4, <3>5, OneMessage DEF Handshake, Requested
  <2>3. CASE ~Full(Gate(frame.ppc)) /\ ~(unmet > 0)
    <3>1. queue' = q /\ UNCHANGED <<asked, unmet, wire, curTxFrame>>
      BY <2>3 DEF Enqueue, PacketEnqueued, transmitter
    <3>2. QED BY <1>1, <1>3, <2>3, <3>1 DEF TypeOK, Handshake, Requested, Passed, Taken
  <2>4. QED BY <2>1, <2>2, <2>3
<1>5. UNCHANGED <<transmitter, condition, pauses>>
  BY DEF Enqueue
<1>6. QED BY <1>1, <1>4, <1>5 DEF TypeOK, NodeUp, NodeDown, Link, TimerFitsState,
                                  transmitter, condition, pauses

\* Redirecting the head of the wire to the MAC.
LEMMA Redirecting ==
  ASSUME wire \in Seq(Messages), wire # <<>>
  PROVE  /\ Append(Tail(wire), [Head(wire) EXCEPT !.to = "MAC"]) \in Seq(Messages)
         /\ Append(Tail(wire), [Head(wire) EXCEPT !.to = "MAC"]) # <<>>
         /\ Head(wire) \in Messages /\ Tail(wire) \in Seq(Messages)
<1>1. Head(wire) \in Messages /\ Tail(wire) \in Seq(Messages)
  OBVIOUS
<1>2. [Head(wire) EXCEPT !.to = "MAC"] \in Messages
  BY <1>1 DEF Messages
<1>3. ASSUME NEW s \in Seq(Messages), NEW m \in Messages
      PROVE  Append(s, m) \in Seq(Messages) /\ Append(s, m) # <<>>
  OBVIOUS
<1>4. QED BY <1>1, <1>2, <1>3

\* An error leaves the node as it is; a node that is up meets none.
LEMMA AbortPreserves ==
  ASSUME IInv, ~isOperational, NEW e \in Errors, Abort(e), UNCHANGED queues
  PROVE  IInv'
BY DEF IInv, TypeOK, NodeUp, NodeDown, Link, TimerFitsState, Abort, queues, transmitter,
       pauses, Waiting

\* The scheduler passes on the frame it was asked for.
LEMMA PassSchedulerPreserves ==
  ASSUME IInv, aborted = "no", PassScheduler
  PROVE  IInv'
<1> USE DEF IInv
<1>1. TypeOK /\ wire \in Seq(Messages) /\ wire # <<>> /\ Head(wire).to = "scheduler"
  BY DEF PassScheduler, TypeOK
<1>2. CASE isOperational
  <2>1. PICK m \in Messages : m.to = "scheduler" /\ wire = <<m>>
    BY <1>1, <1>2, OneMessage DEF NodeUp, Handshake, Requested, Passed, Taken
  <2>2. asked = 1 /\ unmet = 0 /\ curTxFrame = NoFrame
    BY <1>1, <1>2, <2>1, OneMessage DEF NodeUp, Handshake, Requested, Passed, Taken
  <2>3. /\ asked' = 0 /\ unmet' = 0 /\ queue' = queue
        /\ wire' = Append(Tail(wire), [Head(wire) EXCEPT !.to = "MAC"])
        /\ UNCHANGED <<transmitter, condition, pauses>>
    BY <2>2 DEF PassScheduler
  <2>4. wire' = <<[m EXCEPT !.to = "MAC"]>>
    BY <2>1, <2>3, OneMessage
  <2>5. [m EXCEPT !.to = "MAC"] \in Messages /\ [m EXCEPT !.to = "MAC"].to = "MAC"
    BY DEF Messages
  <2>6. Handshake' /\ wire' \in Seq(Messages)
    BY <2>2, <2>3, <2>4, <2>5, OneMessage DEF Handshake, Passed, transmitter
  <2>7. QED BY <1>1, <1>2, <2>3, <2>6 DEF TypeOK, NodeUp, NodeDown, Link, TimerFitsState,
                                  transmitter, condition, pauses
<1>3. CASE ~isOperational /\ asked <= 0 /\ Asserts
  <2>1. Abort("ASSERT(packetsRequestedFromUs > 0)") /\ UNCHANGED queues
    BY <1>3 DEF PassScheduler, queues
  <2>2. QED BY <1>3, <2>1, AbortPreserves DEF Errors
<1>4. CASE ~isOperational /\ ~(asked <= 0 /\ Asserts)
  <2>1. /\ asked' = asked - 1 /\ UNCHANGED <<queue, unmet>>
        /\ wire' = Append(Tail(wire), [Head(wire) EXCEPT !.to = "MAC"])
        /\ UNCHANGED <<transmitter, condition, pauses>>
    BY <1>4 DEF PassScheduler
  <2>2. wire' \in Seq(Messages) /\ wire' # <<>>
    BY <1>1, <2>1, Redirecting
  <2>3. QED BY <1>1, <1>4, <2>1, <2>2 DEF TypeOK, NodeUp, NodeDown, Link, TimerFitsState,
                                  transmitter, condition, pauses, Waiting
<1>5. QED BY <1>2, <1>3, <1>4

\* The frame the MAC receives finds curTxFrame empty.
LEMMA FrameReceivedPreserves ==
  ASSUME IInv, aborted = "no", ProcessFrameFromUpperLayer
  PROVE  IInv'
<1> USE DEF IInv
<1>1. TypeOK /\ wire \in Seq(Messages) /\ wire # <<>> /\ Head(wire).to = "MAC"
  BY DEF ProcessFrameFromUpperLayer, TypeOK
<1>2. CASE ~isOperational
  <2>1. Abort("message from higher layer while off") /\ UNCHANGED queues
    BY <1>2 DEF ProcessFrameFromUpperLayer
  <2>2. QED BY <1>2, <2>1, AbortPreserves DEF Errors
<1>3. CASE isOperational
  <2>1. PICK m \in Messages : m.to = "MAC" /\ wire = <<m>>
    BY <1>1, <1>3, OneMessage DEF NodeUp, Handshake, Requested, Passed, Taken
  <2>2. asked = 0 /\ unmet = 0 /\ curTxFrame = NoFrame
    BY <1>1, <1>3, <2>1, OneMessage DEF NodeUp, Handshake, Requested, Passed, Taken
  <2>3. Tail(wire) = <<>> /\ Head(wire) = m /\ m.frame \in Frames /\ m.frame # NoFrame
    BY <2>1, OneMessage, FrameFacts DEF Messages
  <2>4. CASE ~connected
    <3>1. RequestNextFrame(<<>>) /\ UNCHANGED <<transmitter, condition, pauses>>
      BY <1>3, <2>3, <2>4 DEF ProcessFrameFromUpperLayer
    <3>2. /\ queue' \in [Inputs -> Seq(Frames)] /\ wire' \in Seq(Messages)
          /\ asked' \in Int /\ unmet' \in Int /\ Requested'
      BY <1>1, <2>2, <3>1, Requesting DEF TypeOK
    <3>3. Handshake'
      BY <2>2, <3>1, <3>2 DEF Handshake, transmitter
    <3>4. QED BY <1>1, <1>3, <3>1, <3>2, <3>3 DEF TypeOK, NodeUp, NodeDown, Link,
                 TimerFitsState, transmitter, condition, pauses
  <2>5. CASE connected
    <3>1. /\ curTxFrame' = m.frame /\ wire' = <<>>
          /\ IF transmitState = "TX_IDLE" THEN StartFrameTransmission
                                          ELSE UNCHANGED <<transmitState, timer>>
          /\ UNCHANGED <<queue, asked, unmet, condition, pauses>>
      BY <1>3, <2>2, <2>3, <2>5 DEF ProcessFrameFromUpperLayer
    <3>2. Handshake' /\ wire' \in Seq(Messages)
      BY <2>2, <2>3, <3>1, OneMessage DEF Handshake, Taken
    <3>3. TimerFitsState' /\ timer' \in [Timers -> {"off", "set", "due"}]
            /\ transmitState' \in MACStates
      BY <1>1, <2>2, <2>3, <3>1 DEF TypeOK, TimerFitsState, StartFrameTransmission, Timers,
                                    MACStates
    <3>4. QED BY <1>1, <1>3, <2>3, <2>5, <3>1, <3>2, <3>3 DEF TypeOK, NodeUp, NodeDown, Link,
                 condition, pauses
  <2>6. QED BY <2>4, <2>5
<1>4. QED BY <1>2, <1>3

\* At the end of a transmission the MAC asks for the next frame.
LEMMA EndTxPreserves ==
  ASSUME IInv, HandleEndTxPeriod
  PROVE  IInv'
<1> USE DEF IInv
<1>1. /\ TypeOK /\ TimerFitsState /\ transmitState = "TRANSMITTING"
      /\ connected /\ isOperational /\ curTxFrame # NoFrame
  BY DEF HandleEndTxPeriod, TimerFitsState, Link
<1>2. asked = 0 /\ unmet = 0 /\ wire = <<>>
  BY <1>1 DEF NodeUp, Handshake, Taken
<1>3. /\ queue' \in [Inputs -> Seq(Frames)] /\ wire' \in Seq(Messages)
      /\ asked' \in Int /\ unmet' \in Int /\ Requested'
  <2>1. RequestNextFrame(<<>>)
    BY <1>2 DEF HandleEndTxPeriod
  <2>2. QED BY <1>1, <1>2, <2>1, Requesting DEF TypeOK
<1>4. /\ timer' \in [Timers -> {"off", "set", "due"}] /\ transmitState' \in MACStates
      /\ TimerFitsState'
  BY <1>1 DEF HandleEndTxPeriod, TypeOK, TimerFitsState, Timers, MACStates,
              ScheduleEndPausePeriod, ScheduleEndIFGPeriod
<1>5. /\ curTxFrame' = NoFrame /\ pauseUnitsRequested' = 0
      /\ UNCHANGED <<numPauseFramesRcvd, condition>>
  BY DEF HandleEndTxPeriod
<1>6. Handshake'
  BY <1>3, <1>5 DEF Handshake
<1>7. NodeUp' /\ NodeDown' /\ Link'
  BY <1>1, <1>5, <1>6 DEF NodeUp, NodeDown, Link, condition
<1>8. QED BY <1>1, <1>3, <1>4, <1>5, <1>7 DEF TypeOK, condition

\* After the gap or the pause the frame that is there is sent.
LEMMA BeginSendPreserves ==
  ASSUME IInv, HandleEndIFGPeriod \/ HandleEndPausePeriod
  PROVE  IInv'
<1> USE DEF IInv
<1>1. /\ BeginSendFrames /\ TypeOK /\ TimerFitsState
      /\ transmitState \in {"WAIT_IFG", "PAUSE"} /\ connected
  BY DEF HandleEndIFGPeriod, HandleEndPausePeriod, TimerFitsState, Link
<1>2. UNCHANGED <<queues, curTxFrame, condition, pauses>>
  BY <1>1 DEF BeginSendFrames
<1>3. /\ timer' \in [Timers -> {"off", "set", "due"}] /\ transmitState' \in MACStates
      /\ TimerFitsState'
  BY <1>1, <1>2 DEF BeginSendFrames, StartFrameTransmission, TypeOK, TimerFitsState, Timers,
                    MACStates
<1>4. QED BY <1>1, <1>2, <1>3 DEF TypeOK, NodeUp, NodeDown, Link, Handshake, Requested,
             Passed, Taken, Waiting, queues, condition, pauses

\* A timer falls due.
LEMMA TimerFallsPreserves ==
  ASSUME IInv, NEW t \in Timers, TimerFalls(t)
  PROVE  IInv'
<1> USE DEF IInv
<1>1. /\ timer' \in [Timers -> {"off", "set", "due"}] /\ TimerFitsState'
  BY DEF TimerFalls, TypeOK, TimerFitsState, Timers
<1>2. QED BY <1>1 DEF TimerFalls, TypeOK, NodeUp, NodeDown, Link, Handshake, Requested,
             Passed, Taken, Waiting, queues, condition, pauses

\* A PAUSE frame touches the transmitter's timers only.
LEMMA PausePreserves ==
  ASSUME IInv, NEW units \in Units, ProcessPauseCommand(units)
  PROVE  IInv'
<1> USE DEF IInv
<1>1. /\ timer' \in [Timers -> {"off", "set", "due"}] /\ transmitState' \in MACStates
      /\ TimerFitsState'
  BY DEF ProcessPauseCommand, ScheduleEndPausePeriod, TypeOK, TimerFitsState, Timers, MACStates
<1>2. pauseUnitsRequested' \in Nat /\ numPauseFramesRcvd' \in 0..MaxPauses
  BY TxPortAssumption DEF TxPortAssumption, ProcessPauseCommand, TypeOK
<1>3. UNCHANGED <<queues, curTxFrame, condition>> /\ connected
  BY DEF ProcessPauseCommand
<1>4. QED BY <1>1, <1>2, <1>3 DEF TypeOK, NodeUp, NodeDown, Link, Handshake, Requested,
             Passed, Taken, Waiting, queues, condition

\* The transmitter is emptied when the link or the node goes down.
LEMMA DropTransmitterStops ==
  ASSUME DropTransmitter
  PROVE  /\ timer' \in [Timers -> {"off", "set", "due"}] /\ transmitState' = "TX_IDLE"
         /\ curTxFrame' = NoFrame /\ connected' = FALSE /\ TimerFitsState'
BY DEF DropTransmitter, TimerFitsState, Timers

\* The link goes down: the frame is dropped and, if the MAC had it, a request
\* takes its place.
LEMMA DisconnectPreserves ==
  ASSUME IInv, Disconnect
  PROVE  IInv'
<1> USE DEF IInv
<1>1. TypeOK /\ isOperational /\ wire = <<>> /\ Handshake
  BY DEF Disconnect, Quiet, NodeUp
<1>2. /\ queue' \in [Inputs -> Seq(Frames)] /\ wire' \in Seq(Messages)
      /\ asked' \in Int /\ unmet' \in Int /\ Requested'
  <2>1. RequestNextFrame(<<>>)
    BY <1>1 DEF Disconnect
  <2>2. CASE asked = 0
    <3>1. unmet = 0
      BY <1>1, <2>2 DEF Handshake, Requested, Passed, Taken
    <3>2. QED BY <1>1, <2>1, <2>2, <3>1, Requesting DEF TypeOK
  <2>3. CASE asked # 0
    <3>1. Requested /\ UNCHANGED <<queue, asked, unmet, wire>>
      BY <1>1, <2>1, <2>3 DEF Handshake, Passed, Taken, RequestNextFrame
    <3>2. QED BY <1>1, <3>1 DEF TypeOK, Requested, Waiting
  <2>4. QED BY <2>2, <2>3
<1>3. /\ timer' \in [Timers -> {"off", "set", "due"}] /\ transmitState' = "TX_IDLE"
      /\ curTxFrame' = NoFrame /\ connected' = FALSE /\ TimerFitsState'
  BY DropTransmitterStops DEF Disconnect
<1>4. UNCHANGED <<isOperational, aborted, pauses>>
  BY DEF Disconnect
<1>5. Handshake'
  BY <1>2, <1>3 DEF Handshake
<1>6. NodeUp' /\ NodeDown' /\ Link'
  BY <1>1, <1>3, <1>4, <1>5 DEF NodeUp, NodeDown, Link
<1>7. QED BY <1>1, <1>2, <1>3, <1>4, <1>6 DEF TypeOK, pauses, MACStates

\* The link comes back.
LEMMA ReconnectPreserves ==
  ASSUME IInv, Reconnect
  PROVE  IInv'
BY DEF IInv, Reconnect, TypeOK, NodeUp, NodeDown, Link, Handshake, Requested, Passed, Taken,
       Waiting, TimerFitsState, queues, transmitter, pauses

\* The node goes down: everything is forgotten but a frame on the wire.
LEMMA GoDownPreserves ==
  ASSUME IInv, NEW fault, GoDown(fault)
  PROVE  IInv'
<1> USE DEF IInv
<1>1. TypeOK /\ wire = <<>>
  BY DEF GoDown, Quiet
<1>2. wire' \in Seq(Messages)
  <2>1. CASE asked = 0 /\ Waiting(queue) # {}
    <3>1. PICK i \in Inputs :
            /\ IsFirst(i, queue)
            /\ wire' = <<[to |-> "scheduler", frame |-> Head(queue[i])]>>
      BY <2>1 DEF GoDown
    <3>2. Head(queue[i]) \in Frames
      BY <1>1, <3>1, QueueSteps DEF TypeOK, IsFirst, Waiting
    <3>3. [to |-> "scheduler", frame |-> Head(queue[i])] \in Messages
      BY <3>2 DEF Messages
    <3>4. QED BY <3>1, <3>3, OneMessage
  <2>2. CASE ~(asked = 0 /\ Waiting(queue) # {})
    BY <1>1, <2>2 DEF GoDown, TypeOK
  <2>3. QED BY <2>1, <2>2
<1>3. /\ timer' \in [Timers -> {"off", "set", "due"}] /\ transmitState' = "TX_IDLE"
      /\ curTxFrame' = NoFrame /\ connected' = FALSE /\ TimerFitsState'
  BY DropTransmitterStops DEF GoDown
<1>4. /\ asked' = 0 /\ unmet' = 0 /\ isOperational' = FALSE
      /\ UNCHANGED <<aborted, pauses>>
  BY DEF GoDown
<1>5. queue' \in [Inputs -> Seq(Frames)] /\ Waiting(queue)' = {}
  <2>1. queue' = [i \in Inputs |-> <<>>]
    BY DEF GoDown
  <2>2. QED BY <2>1 DEF Waiting
<1>6. NodeUp' /\ NodeDown' /\ Link'
  BY <1>3, <1>4, <1>5 DEF NodeUp, NodeDown, Link
<1>7. TypeOK'
  <2>1. queue' \in [Inputs -> Seq(Frames)]
    BY <1>5
  <2>2. asked' \in Int /\ unmet' \in Int
    BY <1>4
  <2>3. isOperational' \in BOOLEAN
    BY <1>4
  <2>4. pauseUnitsRequested' \in Nat /\ numPauseFramesRcvd' \in 0..MaxPauses /\ aborted' \in Errors
    BY <1>1, <1>4 DEF TypeOK, pauses
  <2>5. QED BY <1>2, <1>3, <2>1, <2>2, <2>3, <2>4 DEF TypeOK, MACStates
<1>8. QED BY <1>3, <1>6, <1>7

\* A started node has nothing out, so its request is the only one.
LEMMA StartPreserves ==
  ASSUME IInv, aborted = "no", Start
  PROVE  IInv'
<1> USE DEF IInv
<1>1. TypeOK /\ ~isOperational /\ wire = <<>> /\ asked = 0 /\ unmet = 0 /\ ~connected
  BY DEF Start, Quiet, NodeDown, Link
<1>2. /\ queue' \in [Inputs -> Seq(Frames)] /\ wire' \in Seq(Messages)
      /\ asked' \in Int /\ unmet' \in Int /\ Requested'
  <2>1. RequestNextFrame(<<>>)
    BY <1>1 DEF Start
  <2>2. QED BY <1>1, <2>1, Requesting DEF TypeOK
<1>3. /\ curTxFrame = NoFrame /\ transmitState = "TX_IDLE"
      /\ isOperational' = TRUE /\ connected' \in BOOLEAN
      /\ UNCHANGED <<transmitter, aborted, pauses>>
  BY <1>1 DEF Start, Link
<1>4. Handshake'
  BY <1>2, <1>3 DEF Handshake, transmitter
<1>5. NodeUp' /\ NodeDown' /\ Link' /\ TimerFitsState'
  BY <1>3, <1>4 DEF NodeUp, NodeDown, Link, TimerFitsState, transmitter
<1>6. QED BY <1>1, <1>2, <1>3, <1>5 DEF TypeOK, transmitter, pauses

-----------------------------------------------------------------------------
(***************************************************************************)
(* The port implements PriorityServer.  The frame in service is on the wire *)
(* or with the MAC, never both, by the handshake; each handler then either  *)
(* finishes it, takes an arrival, or is not seen by the server at all.      *)
(***************************************************************************)

\* The queues by priority.
View(q) == [p \in 0..TopPpc |-> q[Gate(p)]]

\* The classifier turns the priorities round, and so do the queues.
LEMMA Turned ==
  /\ \A p \in 0..TopPpc : Gate(p) \in Inputs /\ Gate(p) = TopPpc - p
  /\ \A i \in Inputs : TopPpc - i \in 0..TopPpc /\ Gate(TopPpc - i) = i
BY TxPortAssumption DEF TxPortAssumption, Gate, Inputs

\* The queues by priority are queues too.
LEMMA ViewType ==
  ASSUME NEW q \in [Inputs -> Seq(Frames)]
  PROVE  View(q) \in [0..TopPpc -> Seq(Frames)]
BY Turned DEF View

\* Empty queues are empty by priority.
LEMMA ViewNothing ==
  ASSUME NEW q \in [Inputs -> Seq(Frames)]
  PROVE  Waiting(q) = {} <=> View(q) = Server!Nothing
<1>1. Waiting(q) = {} <=> \A i \in Inputs : q[i] = <<>>
  BY DEF Waiting
<1>2. (\A i \in Inputs : q[i] = <<>>) <=> \A p \in 0..TopPpc : q[Gate(p)] = <<>>
  BY Turned
<1>3. (\A p \in 0..TopPpc : q[Gate(p)] = <<>>) <=> View(q) = Server!Nothing
  BY DEF View, Server!Nothing, Server!Priorities
<1>4. QED BY <1>1, <1>2, <1>3

\* A queue that changes changes for its priority alone.
LEMMA ViewUpdate ==
  ASSUME NEW q \in [Inputs -> Seq(Frames)], NEW i \in Inputs, NEW s \in Seq(Frames)
  PROVE  /\ TopPpc - i \in 0..TopPpc /\ View(q)[TopPpc - i] = q[i]
         /\ View([q EXCEPT ![i] = s]) = [View(q) EXCEPT ![TopPpc - i] = s]
<1> DEFINE r == [q EXCEPT ![i] = s]
<1>1. TopPpc - i \in 0..TopPpc /\ TopPpc \in Nat /\ i \in 0..TopPpc
  BY Turned, TxPortAssumption DEF TxPortAssumption, Inputs
<1>2. r \in [Inputs -> Seq(Frames)] /\ r[i] = s /\ \A j \in Inputs : j # i => r[j] = q[j]
  OBVIOUS
<1> HIDE DEF r
<1>3. /\ View(q)[TopPpc - i] = q[i] /\ View(r)[TopPpc - i] = s
      /\ \A p \in 0..TopPpc : p # TopPpc - i => View(r)[p] = View(q)[p]
  <2>1. \A p \in 0..TopPpc : View(q)[p] = q[Gate(p)] /\ View(r)[p] = r[Gate(p)]
    BY DEF View
  <2>2. Gate(TopPpc - i) = i
    BY Turned
  <2>3. ASSUME NEW p \in 0..TopPpc, p # TopPpc - i
        PROVE  Gate(p) # i /\ Gate(p) \in Inputs
    <3>1. Gate(p) = TopPpc - p /\ Gate(p) \in Inputs
      BY Turned
    <3>2. QED BY <1>1, <2>3, <3>1
  <2>4. QED BY <1>1, <1>2, <2>1, <2>2, <2>3
<1>4. View(q) \in [0..TopPpc -> Seq(Frames)] /\ View(r) \in [0..TopPpc -> Seq(Frames)]
  BY <1>2, ViewType
<1>5. View(r) = [View(q) EXCEPT ![TopPpc - i] = s]
  BY <1>1, <1>3, <1>4
<1>6. QED BY <1>1, <1>3, <1>5 DEF r

\* The first input that has a frame has the highest priority that waits.
LEMMA FirstIsServed ==
  ASSUME NEW q \in [Inputs -> Seq(Frames)], NEW i \in Inputs, IsFirst(i, q)
  PROVE  /\ View(q)[TopPpc - i] = q[i] /\ q[i] # <<>>
         /\ \A p \in 0..TopPpc : View(q)[p] # <<>> => p <= TopPpc - i
<1>1. q[i] # <<>> /\ \A j \in Inputs : q[j] # <<>> => i <= j
  BY DEF IsFirst, Waiting
<1>2. View(q)[TopPpc - i] = q[i]
  BY Turned DEF View
<1>3. ASSUME NEW p \in 0..TopPpc, View(q)[p] # <<>>
      PROVE  p <= TopPpc - i
  <2>1. q[Gate(p)] # <<>>
    BY <1>3 DEF View
  <2>2. i <= TopPpc - p
    BY <1>1, <2>1, Turned
  <2>3. QED BY <2>2, TxPortAssumption DEF TxPortAssumption, Inputs
<1>4. QED BY <1>1, <1>2, <1>3

\* What is in service, now and after the step.
LEMMA InServiceIs ==
  /\ ~isOperational => InService = NoFrame
  /\ isOperational /\ wire = <<>> => InService = curTxFrame
  /\ isOperational /\ wire # <<>> => InService = Head(wire).frame
  /\ ~isOperational' => InService' = NoFrame
  /\ isOperational' /\ wire' = <<>> => InService' = curTxFrame'
  /\ isOperational' /\ wire' # <<>> => InService' = Head(wire').frame
BY DEF InService

\* A message on the wire of a node that is up carries the frame in service.
LEMMA UnderWayInService ==
  ASSUME isOperational, NEW m \in Messages, wire = <<m>>
  PROVE  InService = m.frame /\ InService # NoFrame
<1>1. wire # <<>> /\ Head(wire) = m /\ m.frame \in Frames
  BY DEF Messages
<1>2. InService = m.frame
  BY <1>1, InServiceIs
<1>3. QED BY <1>1, <1>2, FrameFacts

\* A MAC that has something in service asks for the next frame: the server
\* finishes the one and goes on to the other.
LEMMA AskingFinishes ==
  ASSUME queue \in [Inputs -> Seq(Frames)], asked = 0, RequestNextFrame(<<>>),
         isOperational, UNCHANGED isOperational, InService # NoFrame, curTxFrame' = NoFrame
  PROVE  Server!Finish
<1>1. SchedulePacket(queue, <<>>)
  BY DEF RequestNextFrame, RequestPacket
<1>2. CASE Waiting(queue) = {}
  <2>1. queue' = queue /\ wire' = <<>>
    BY <1>1, <1>2 DEF SchedulePacket
  <2>2. View(queue) = Server!Nothing /\ View(queue') = View(queue)
    BY <1>2, <2>1, ViewNothing
  <2>3. InService' = NoFrame
    BY <2>1, InServiceIs
  <2>4. QED BY <2>2, <2>3 DEF Server!Finish, View
<1>3. CASE Waiting(queue) # {}
  <2>1. PICK i \in Inputs :
          /\ IsFirst(i, queue)
          /\ queue' = [queue EXCEPT ![i] = Tail(@)]
          /\ wire' = Append(<<>>, [to |-> "scheduler", frame |-> Head(queue[i])])
    BY <1>1, <1>3 DEF SchedulePacket
  <2> DEFINE p == TopPpc - i
  <2>2. /\ View(queue)[p] = queue[i] /\ queue[i] # <<>>
        /\ \A k \in 0..TopPpc : View(queue)[k] # <<>> => k <= p
    BY <2>1, FirstIsServed
  <2>3. Tail(queue[i]) \in Seq(Frames)
    BY <2>2
  <2>4. /\ p \in 0..TopPpc
        /\ View(queue') = [View(queue) EXCEPT ![p] = Tail(View(queue)[p])]
    <3>1. /\ p \in 0..TopPpc
          /\ View([queue EXCEPT ![i] = Tail(queue[i])])
               = [View(queue) EXCEPT ![p] = Tail(queue[i])]
      BY <2>3, ViewUpdate
    <3> HIDE DEF p
    <3>2. QED BY <2>1, <2>2, <3>1
  <2>5. InService' = Head(queue[i])
    <3>1. wire' # <<>> /\ Head(wire').frame = Head(queue[i])
      BY <2>1
    <3>2. QED BY <3>1, InServiceIs
  <2> HIDE DEF p
  <2>6. QED BY <2>2, <2>4, <2>5 DEF Server!Finish, Server!IsHighest, Server!Priorities, View
<1>4. QED BY <1>2, <1>3

\* An arrival begins to be served if nothing is in service, and waits or is
\* dropped if something is.
LEMMA EnqueueServes ==
  ASSUME IInv, NEW frame \in Frames, Enqueue(frame)
  PROVE  Server!Arrive(frame) \/ UNCHANGED Server!serverVars
<1> DEFINE g == Gate(frame.ppc)
           q == [queue EXCEPT ![g] = Append(@, frame)]
<1>1. /\ TypeOK /\ Handshake /\ isOperational
      /\ UNCHANGED <<isOperational, curTxFrame>>
  BY DEF Enqueue, IInv, NodeUp, condition, transmitter
<1>2. /\ g \in Inputs /\ queue \in [Inputs -> Seq(Frames)] /\ queue[g] \in Seq(Frames)
      /\ TopPpc - g = frame.ppc
  <2>1. g \in Inputs /\ g = TopPpc - frame.ppc /\ frame.ppc \in 0..TopPpc
    BY FrameFacts
  <2>2. QED BY <1>1, <2>1, TxPortAssumption DEF TypeOK, TxPortAssumption
<1> HIDE DEF g
<1>3. CASE Full(g)
  <2>1. queue' = queue /\ wire' = wire
    BY <1>3 DEF Enqueue, queues, g
  <2>2. InService' = InService
    BY <1>1, <2>1 DEF InService
  <2>3. QED BY <1>1, <2>1, <2>2 DEF Server!serverVars
<1>4. CASE ~Full(g) /\ unmet > 0
  <2>1. asked = 1 /\ unmet = 1 /\ wire = <<>> /\ curTxFrame = NoFrame /\ Waiting(queue) = {}
    BY <1>1, <1>4 DEF Handshake, Requested, Passed, Taken
  <2>2. SchedulePacket(q, <<>>)
    BY <1>4, <2>1 DEF Enqueue, PacketEnqueued, g
  <2>3. queue[g] = <<>> /\ q[g] = <<frame>> /\ \A j \in Inputs : j # g => q[j] = <<>>
    <3>1. \A j \in Inputs : queue[j] = <<>>
      BY <2>1 DEF Waiting
    <3>2. q[g] = Append(queue[g], frame) /\ \A j \in Inputs : j # g => q[j] = queue[j]
      BY <1>2
    <3>3. Append(<<>>, frame) = <<frame>>
      OBVIOUS
    <3> HIDE DEF q
    <3>4. QED BY <1>2, <3>1, <3>2, <3>3
  <2>4. PICK i \in Inputs :
          /\ IsFirst(i, q)
          /\ queue' = [q EXCEPT ![i] = Tail(@)]
          /\ wire' = Append(<<>>, [to |-> "scheduler", frame |-> Head(q[i])])
    <3>1. Waiting(q) # {}
      BY <1>2, <2>3 DEF Waiting
    <3> HIDE DEF q
    <3>2. QED BY <2>2, <3>1 DEF SchedulePacket
  <2>5. i = g
    BY <2>3, <2>4 DEF IsFirst, Waiting
  <2>6. queue' = queue /\ wire' # <<>> /\ Head(wire').frame = frame
    <3>1. Tail(q[g]) = queue[g] /\ Head(q[g]) = frame
      BY <2>3
    <3>2. wire' # <<>> /\ Head(wire').frame = frame
      BY <2>4, <2>5, <3>1
    <3>3. queue' = queue
      BY <1>2, <2>4, <2>5, <3>1
    <3>4. QED BY <3>2, <3>3
  <2>7. InService = NoFrame /\ InService' = frame
    BY <1>1, <2>1, <2>6, InServiceIs
  <2>8. QED BY <1>1, <2>6, <2>7 DEF Server!Arrive
<1>5. CASE ~Full(g) /\ ~(unmet > 0)
  <2>1. queue' = q /\ UNCHANGED wire
    BY <1>5 DEF Enqueue, PacketEnqueued, g
  <2>2. InService # NoFrame /\ InService' = InService
    <3>1. InService' = InService
      BY <1>1, <2>1 DEF InService
    <3>2. CASE Taken /\ curTxFrame # NoFrame
      <4>1. InService = curTxFrame
        BY <1>1, <3>2, InServiceIs DEF Taken
      <4>2. QED BY <3>1, <3>2, <4>1
    <3>3. CASE \E m \in Messages : wire = <<m>>
      BY <3>1, <3>3, <1>1, UnderWayInService
    <3>4. unmet = 0 \/ unmet = 1
      BY <1>1 DEF Handshake, Requested, Passed, Taken
    <3>5. QED BY <1>1, <1>5, <3>2, <3>3, <3>4 DEF Handshake, Requested, Passed
  <2>3. /\ View(queue)[frame.ppc] = queue[g] /\ frame.ppc \in 0..TopPpc
        /\ View(queue') = [View(queue) EXCEPT ![frame.ppc] = Append(View(queue)[frame.ppc], frame)]
    <3> DEFINE longer == Append(queue[g], frame)
    <3>1. longer \in Seq(Frames) /\ queue' = [queue EXCEPT ![g] = longer]
      BY <1>2, <2>1
    <3> HIDE DEF longer
    <3>2. /\ frame.ppc \in 0..TopPpc /\ View(queue)[frame.ppc] = queue[g]
          /\ View([queue EXCEPT ![g] = longer]) = [View(queue) EXCEPT ![frame.ppc] = longer]
      <4>1. /\ TopPpc - g \in 0..TopPpc /\ View(queue)[TopPpc - g] = queue[g]
            /\ View([queue EXCEPT ![g] = longer]) = [View(queue) EXCEPT ![TopPpc - g] = longer]
        BY ONLY <1>2, <3>1, ViewUpdate, Zenon
      <4>2. QED BY <1>2, <4>1
    <3>3. QED BY <3>1, <3>2 DEF longer
  <2>4. Capacity = 0 \/ Len(View(queue)[frame.ppc]) < Capacity
    <3>1. Len(queue[g]) \in Nat /\ Capacity \in Nat
      BY <1>2, TxPortAssumption DEF TxPortAssumption
    <3>2. QED BY <1>5, <2>3, <3>1 DEF Full
  <2>5. QED BY <1>1, <2>2, <2>3, <2>4 DEF Server!Arrive, Server!HasRoom, View
<1>6. QED BY <1>3, <1>4, <1>5

\* Handlers that leave the queues and the frame in service as they are.
LEMMA NotSeen ==
  ASSUME UNCHANGED <<queue, wire, curTxFrame, isOperational>>
  PROVE  UNCHANGED Server!serverVars
<1>1. InService' = InService
  BY DEF InService
<1>2. QED BY <1>1 DEF Server!serverVars

\* The way through the scheduler is not seen.
LEMMA PassSchedulerServes ==
  ASSUME IInv, PassScheduler
  PROVE  UNCHANGED Server!serverVars
<1>1. queue' = queue /\ UNCHANGED <<curTxFrame, isOperational>>
  BY DEF PassScheduler, Abort, transmitter, condition
<1>2. CASE ~isOperational
  BY <1>1, <1>2, InServiceIs DEF Server!serverVars
<1>3. CASE isOperational
  <2>1. PICK m \in Messages : wire = <<m>>
    BY <1>3 DEF IInv, NodeUp, Handshake, Requested, Passed, Taken, PassScheduler
  <2>2. wire # <<>> /\ wire' # <<>> /\ Head(wire').frame = Head(wire).frame
    <3>1. CASE wire' = wire
      BY <2>1, <3>1
    <3>2. CASE wire' = Append(Tail(wire), [Head(wire) EXCEPT !.to = "MAC"])
      BY <2>1, <3>2 DEF Messages
    <3>3. QED BY <3>1, <3>2 DEF PassScheduler
  <2>3. InService' = InService
    BY <1>1, <1>3, <2>2, InServiceIs
  <2>4. QED BY <1>1, <2>3 DEF Server!serverVars
<1>4. QED BY <1>2, <1>3

\* The MAC takes the frame, or loses it for lack of a link.
LEMMA FrameReceivedServes ==
  ASSUME IInv, ProcessFrameFromUpperLayer
  PROVE  Server!Finish \/ UNCHANGED Server!serverVars
<1>1. CASE ~isOperational
  <2>1. UNCHANGED <<queue, wire, curTxFrame, isOperational>>
    BY <1>1 DEF ProcessFrameFromUpperLayer, Abort, queues, transmitter
  <2>2. QED BY <2>1, NotSeen
<1>2. CASE isOperational
  <2>1. PICK m \in Messages : wire = <<m>> /\ m.to = "MAC" /\ asked = 0 /\ curTxFrame = NoFrame
    BY <1>2, OneMessage
       DEF IInv, NodeUp, Handshake, Requested, Passed, Taken, ProcessFrameFromUpperLayer
  <2>2. Head(wire) = m /\ Tail(wire) = <<>> /\ wire # <<>>
    BY <2>1
  <2>3. InService = m.frame /\ InService # NoFrame
    BY <1>2, <2>1, UnderWayInService
  <2>4. CASE ~connected
    <3>1. RequestNextFrame(<<>>) /\ UNCHANGED <<curTxFrame, isOperational>>
      BY <1>2, <2>2, <2>4 DEF ProcessFrameFromUpperLayer, transmitter, condition
    <3>2. QED BY <1>2, <2>1, <2>3, <3>1, AskingFinishes DEF IInv, TypeOK
  <2>5. CASE connected
    <3>1. /\ queue' = queue /\ curTxFrame' = m.frame /\ wire' = <<>>
          /\ UNCHANGED isOperational
      BY <1>2, <2>1, <2>2, <2>5 DEF ProcessFrameFromUpperLayer, condition
    <3>2. InService' = InService
      BY <1>2, <2>3, <3>1, InServiceIs
    <3>3. QED BY <3>1, <3>2 DEF Server!serverVars
  <2>6. QED BY <2>4, <2>5
<1>3. QED BY <1>1, <1>2

\* A frame that has been sent is finished.
LEMMA EndTxServes ==
  ASSUME IInv, HandleEndTxPeriod
  PROVE  Server!Finish
<1>1. curTxFrame # NoFrame /\ isOperational
  BY DEF IInv, TimerFitsState, Link, HandleEndTxPeriod
<1>2. asked = 0 /\ wire = <<>>
  BY <1>1 DEF IInv, NodeUp, Handshake, Taken
<1>3. /\ RequestNextFrame(<<>>) /\ curTxFrame' = NoFrame
      /\ UNCHANGED isOperational
  BY <1>2 DEF HandleEndTxPeriod, condition
<1>4. InService # NoFrame
  BY <1>1, <1>2, InServiceIs
<1>5. QED BY <1>1, <1>2, <1>3, <1>4, AskingFinishes DEF IInv, TypeOK

\* A frame the MAC holds when the link is cut is finished.
LEMMA DisconnectServes ==
  ASSUME IInv, Disconnect
  PROVE  Server!Finish \/ UNCHANGED Server!serverVars
<1>1. /\ isOperational /\ wire = <<>> /\ RequestNextFrame(<<>>)
      /\ curTxFrame' = NoFrame /\ UNCHANGED isOperational
  BY DEF Disconnect, Quiet, DropTransmitter
<1>2. CASE asked = 0
  <2>1. curTxFrame # NoFrame
    BY <1>1, <1>2 DEF IInv, NodeUp, Handshake, Requested, Passed
  <2>2. InService # NoFrame
    BY <1>1, <2>1, InServiceIs
  <2>3. QED BY <1>1, <1>2, <2>2, AskingFinishes DEF IInv, TypeOK
<1>3. CASE asked # 0
  <2>1. curTxFrame = NoFrame
    BY <1>1, <1>3 DEF IInv, NodeUp, Handshake, Passed, Taken
  <2>2. UNCHANGED <<queue, wire, curTxFrame, isOperational>>
    BY <1>1, <1>3, <2>1 DEF RequestNextFrame
  <2>3. QED BY <2>2, NotSeen
<1>4. QED BY <1>2, <1>3

\* A node that stops forgets what waits and what is in service.
LEMMA GoDownServes ==
  ASSUME NEW fault, GoDown(fault)
  PROVE  Server!Stop
<1>1. isOperational /\ ~isOperational' /\ queue' = [i \in Inputs |-> <<>>]
  BY DEF GoDown
<1>2. queue' \in [Inputs -> Seq(Frames)] /\ Waiting(queue') = {}
  BY <1>1 DEF Waiting
<1>3. View(queue') = Server!Nothing
  <2> DEFINE q == queue'
  <2>1. q \in [Inputs -> Seq(Frames)] /\ Waiting(q) = {}
    BY <1>2
  <2> HIDE DEF q
  <2>2. View(q) = Server!Nothing
    BY <2>1, ViewNothing
  <2>3. QED BY <2>2 DEF q
<1>4. InService' = NoFrame
  BY <1>1, InServiceIs
<1>5. isOperational' = FALSE
  BY DEF GoDown
<1>6. QED BY <1>1, <1>3, <1>4, <1>5 DEF Server!Stop, View

\* A node that starts asks for a frame and finds none.
LEMMA StartServes ==
  ASSUME IInv, Start
  PROVE  Server!Start
<1>1. /\ ~isOperational /\ wire = <<>> /\ asked = 0 /\ Waiting(queue) = {}
      /\ curTxFrame = NoFrame
  BY DEF Start, Quiet, IInv, NodeDown, Link
<1>2. queue' = queue /\ wire' = <<>> /\ curTxFrame' = NoFrame /\ isOperational' = TRUE
  BY <1>1 DEF Start, RequestNextFrame, RequestPacket, SchedulePacket, transmitter
<1>3. InService = NoFrame /\ InService' = NoFrame
  BY <1>1, <1>2, InServiceIs
<1>4. QED BY <1>1, <1>2, <1>3 DEF Server!Start

\* Every step is a step of the server or is not seen by it.
LEMMA StepServes ==
  ASSUME IInv, [Next]_vars
  PROVE  [Server!Next]_(Server!serverVars)
<1>1. CASE \/ HandleEndIFGPeriod \/ HandleEndPausePeriod
           \/ \E t \in Timers : TimerFalls(t)
           \/ \E units \in Units : ProcessPauseCommand(units)
           \/ Reconnect
           \/ UNCHANGED vars
  <2>1. UNCHANGED <<queue, wire, curTxFrame, isOperational>>
    BY <1>1 DEF HandleEndIFGPeriod, HandleEndPausePeriod, BeginSendFrames, TimerFalls,
                ProcessPauseCommand, Reconnect, queues, transmitter, condition, vars
  <2>2. QED BY <2>1, NotSeen
<1>2. CASE \E frame \in Frames : Enqueue(frame)
  BY <1>2, EnqueueServes DEF Server!Next
<1>3. CASE PassScheduler \/ ProcessFrameFromUpperLayer \/ HandleEndTxPeriod \/ Disconnect
  BY <1>3, PassSchedulerServes, FrameReceivedServes, EndTxServes, DisconnectServes
     DEF Server!Next
<1>4. CASE (\E fault \in {"shutdown", "crash"} : GoDown(fault)) \/ Start
  BY <1>4, GoDownServes, StartServes DEF Server!Next
<1>5. QED BY <1>1, <1>2, <1>3, <1>4 DEF Next, Step

-----------------------------------------------------------------------------
(***************************************************************************)
(* The theorems.                                                            *)
(***************************************************************************)

\* Whatever happens next keeps the invariant.
LEMMA StepKeeps ==
  ASSUME IInv, [Next]_vars
  PROVE  IInv'
<1>1. CASE Next
  BY <1>1, EnqueuePreserves, PassSchedulerPreserves, FrameReceivedPreserves, EndTxPreserves,
     BeginSendPreserves, TimerFallsPreserves, PausePreserves, DisconnectPreserves,
     ReconnectPreserves, GoDownPreserves, StartPreserves DEF Next, Step
<1>2. CASE UNCHANGED vars
  BY <1>2 DEF IInv, vars, TypeOK, NodeUp, NodeDown, Link, Handshake, Requested, Passed, Taken,
              Waiting, TimerFitsState
<1>3. QED BY <1>1, <1>2

\* The inductive invariant of queues, scheduler and MAC (EtherQueue1q,
\* SchedulerBase, EtherMACFullDuplex), whatever the peers, the link and the
\* node do.
THEOREM PortInvariant == Spec => []IInv
BY StepKeeps, InitEstablishes, PTL DEF Spec

\* The queues, the messages on the wire and the transmitter keep their types.
THEOREM TypeCorrect == Spec => []TypeOK
<1>1. IInv => TypeOK
  BY DEF IInv
<1>2. QED BY <1>1, PortInvariant, PTL

\* One frame is between MAC and scheduler, and none waits for nothing: what
\* requestPacket, packetEnqueued and the handlers of the MAC keep together.
THEOREM OneFrameBetween == Spec => [](OneRequestOut /\ WorkConserving)
<1>1. ASSUME IInv
      PROVE  OneRequestOut /\ WorkConserving
  <2>1. CASE isOperational
    <3>1. CASE Requested /\ curTxFrame = NoFrame
      <4>1. CASE wire = <<>>
        BY <2>1, <3>1, <4>1, OneMessage DEF Requested, OneRequestOut, WorkConserving, OnWayTo, Held
      <4>2. ASSUME NEW m \in Messages, m.to = "scheduler", wire = <<m>>
            PROVE  OneRequestOut /\ WorkConserving
        <5>1. unmet = 0 /\ wire # <<>> /\ Len(wire) = 1 /\ Head(wire) = m
          BY <3>1, <4>2, OneMessage DEF Requested
        <5>2. OnWayTo("scheduler") = 1 /\ OnWayTo("MAC") = 0
          BY <4>2, <5>1 DEF OnWayTo
        <5>3. QED BY <3>1, <5>1, <5>2 DEF Requested, OneRequestOut, WorkConserving, Held
      <4>3. QED BY <3>1, <4>1, <4>2 DEF Requested
    <3>2. CASE Passed /\ curTxFrame = NoFrame
      BY <2>1, <3>2, OneMessage DEF Passed, OneRequestOut, WorkConserving, OnWayTo, Held
    <3>3. CASE Taken /\ curTxFrame # NoFrame
      BY <1>1, <2>1, <3>3, OneMessage DEF IInv, TimerFitsState, Taken, OneRequestOut,
                                     WorkConserving, OnWayTo, Held
    <3>4. QED BY <1>1, <2>1, <3>1, <3>2, <3>3 DEF IInv, NodeUp, Handshake
  <2>2. CASE ~isOperational
    BY <1>1, <2>2 DEF IInv, NodeDown, OneRequestOut, WorkConserving
  <2>3. QED BY <2>1, <2>2
<1>2. QED BY <1>1, PortInvariant, PTL

\* A frame waits only while the transmitter has another or is not idle: each
\* request the scheduler could not meet is met by the next arrival.
THEOREM NoFrameStuck == Spec => []WorkConserving
<1>1. QED BY OneFrameBetween, PTL

\* The port is a server with strict priorities: whatever the link, the peers and
\* the node do, EtherQueue1q, PriorityScheduler and the transmitter together
\* neither reorder, repeat nor invent frames, serve the highest priority that
\* waits, and drop an arrival only for lack of room.
THEOREM ImplementsPriorityServer == Spec => ServesByPriority
<1>1. Init => Server!Init
  <2>1. SUFFICES ASSUME Init PROVE Server!Init
    OBVIOUS
  <2>2. queue \in [Inputs -> Seq(Frames)] /\ Waiting(queue) = {}
    BY <2>1 DEF Init, Waiting
  <2>3. View(queue) = Server!Nothing
    BY <2>2, ViewNothing
  <2>4. InService = NoFrame /\ isOperational = TRUE
    BY <2>1, InServiceIs DEF Init
  <2>5. QED BY <2>3, <2>4 DEF Server!Init, View
<1>2. IInv /\ [Next]_vars => [Server!Next]_(Server!serverVars)
  BY StepServes
<1>3. QED BY <1>1, <1>2, PortInvariant, PTL DEF Spec, ServesByPriority, Server!Spec

\* No ASSERT of the handshake fails while the node is up.
THEOREM PortSafeWhileUp == Spec => [](TypeOK /\ SafeWhileUp)
<1>1. IInv => TypeOK /\ SafeWhileUp
  BY DEF IInv, NodeUp, SafeWhileUp
<1>2. QED BY <1>1, PortInvariant, PTL

\* The MAC's timers and its state go together.
THEOREM TimersFit == Spec => []TimerFitsState
<1>1. IInv => TimerFitsState
  BY DEF IInv
<1>2. QED BY <1>1, PortInvariant, PTL

=============================================================================
