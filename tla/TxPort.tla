------------------------------- MODULE TxPort -------------------------------
(***************************************************************************)
(* The transmitting side of a port of the IEC switches (IecSwitchPort.ned): *)
(* the queues of EtherQueue1q, the Ether1qClassifier before them, the       *)
(* PriorityScheduler behind them, and the transmitter of EtherMACFullDuplex *)
(* that pulls frames out of them.                                           *)
(*                                                                          *)
(* Of a frame the port reads the priority (ppc) of its 802.1q tag; 0 stands *)
(* for an untagged frame too.  Its content only tells it from the others.   *)
(*                                                                          *)
(* The scheduler is asked by method calls, but a frame travels from a queue *)
(* to the scheduler and on to the MAC as a message, an event of its own:    *)
(* wire holds those messages in order.  Events of one instant run in the    *)
(* order they were inserted: a timer that is due was set earlier and runs   *)
(* before the messages sent at this instant, a timer set now comes later,   *)
(* a frame from the link was scheduled when its transmission began and the  *)
(* commands of a scenario when the simulation started.                      *)
(***************************************************************************)
EXTENDS Integers, Sequences

CONSTANTS
  TopPpc,       \* the highest priority, 7 in Ether1qClassifier
  Ppcs,         \* the priorities frames carry
  Contents,     \* what tells frames of one priority apart
  Capacity,     \* frameCapacity of the DropTailQueues, 0 for no limit
  Units,        \* the pause times PAUSE frames carry
  MaxPauses,    \* bound: the PAUSE frames received
  Faults,       \* the scenario commands that happen
  Asserts       \* whether the build keeps ASSERT (a debug build)

Frames  == [ppc : Ppcs, content : Contents]
NoFrame == [ppc |-> -1, content |-> 0]

ASSUME TxPortAssumption ==
  /\ TopPpc \in Nat /\ Ppcs \subseteq 0..TopPpc
  /\ Capacity \in Nat /\ Units \subseteq Nat /\ MaxPauses \in Nat
  /\ Asserts \in BOOLEAN
  /\ Faults \subseteq {"cut", "shutdown", "crash"}

VARIABLES
  queue,               \* the frames in the queue at each input of the scheduler
  asked,               \* packetsRequestedFromUs
  unmet,               \* packetsToBeRequestedFromInputs
  wire,                \* messages sent at this instant and not yet handled
  curTxFrame,
  transmitState,
  timer,               \* endTxMsg, endIFGMsg, endPauseMsg
  pauseUnitsRequested,
  numPauseFramesRcvd,
  connected,
  isOperational,
  aborted              \* the error that ended the simulation

vars == <<queue, asked, unmet, wire, curTxFrame, transmitState, timer,
          pauseUnitsRequested, numPauseFramesRcvd, connected, isOperational, aborted>>
queues      == <<queue, asked, unmet, wire>>
transmitter == <<curTxFrame, transmitState, timer>>
condition   == <<connected, isOperational, aborted>>
pauses      == <<pauseUnitsRequested, numPauseFramesRcvd>>

Inputs == 0..TopPpc
Timers == {"endTx", "endIFG", "endPause"}

\* The input a frame is queued at: in EtherQueue1q.ned queue7 is wired to
\* the first and the data queue to the last.
Gate(ppc) == IF ppc > 0 /\ ppc <= TopPpc THEN TopPpc - ppc ELSE TopPpc

Full(i) == Capacity # 0 /\ Len(queue[i]) >= Capacity

Init ==
  /\ queue = [i \in Inputs |-> <<>>] /\ wire = <<>>
  /\ asked = 1 /\ unmet = 1
  /\ curTxFrame = NoFrame /\ transmitState = "TX_IDLE"
  /\ timer = [t \in Timers |-> "off"]
  /\ pauseUnitsRequested = 0 /\ numPauseFramesRcvd = 0
  /\ connected = TRUE /\ isOperational = TRUE /\ aborted = "no"

NoTimerDue == \A t \in Timers : timer[t] # "due"

-----------------------------------------------------------------------------
(***************************************************************************)
(* The scheduler.                                                           *)
(***************************************************************************)
Waiting(q) == {i \in Inputs : q[i] # <<>>}

\* Faulty form: the scan runs from the last input to the first.
IsLast(i, q) == i \in Waiting(q) /\ \A j \in Waiting(q) : i >= j

\* The scan over the inputs ends at the first that is not empty.
IsFirst(i, q) == i \in Waiting(q) /\ \A j \in Waiting(q) : i <= j

\* Pass the head of the first input that has one on to the scheduler's gate.
SchedulePacket(q, w) ==
  IF Waiting(q) = {}
    THEN queue' = q /\ wire' = w
    ELSE \E i \in Inputs :
         /\ IsFirst(i, q)
         /\ queue' = [q EXCEPT ![i] = Tail(@)]
         /\ wire' = Append(w, [to |-> "scheduler", frame |-> Head(q[i])])

RequestPacket(w) ==
  /\ asked' = asked + 1
  /\ SchedulePacket(queue, w)
  /\ unmet' = IF Waiting(queue) = {} THEN unmet + 1 ELSE unmet

\* Faulty form: the MAC asks although a request is out.
RequestAnyway(w) == RequestPacket(w)

\* What the MAC calls: it asks only when nothing it asked for is to come.
RequestNextFrame(w) ==
  IF asked = 0 THEN RequestPacket(w)
               ELSE wire' = w /\ UNCHANGED <<queue, asked, unmet>>

\* Faulty form: an arrival does not serve the pending request.
PacketOnlyEnqueued(q) == queue' = q /\ UNCHANGED <<asked, unmet, wire>>

PacketEnqueued(q) ==
  /\ IF unmet > 0
       THEN /\ SchedulePacket(q, wire)
            /\ unmet' = IF Waiting(q) = {} THEN unmet ELSE unmet - 1
       ELSE queue' = q /\ UNCHANGED <<wire, unmet>>
  /\ UNCHANGED asked

\* A frame comes from the relay, is classified and queued, or dropped.
Enqueue(frame) ==
  /\ isOperational
  /\ IF Full(Gate(frame.ppc))
       THEN UNCHANGED queues
       ELSE PacketEnqueued([queue EXCEPT ![Gate(frame.ppc)] = Append(@, frame)])
  /\ UNCHANGED <<transmitter, condition, pauses>>

Abort(error) ==
  aborted' = error /\ UNCHANGED <<transmitter, pauses, connected, isOperational>>

\* The frame passes the scheduler, which must owe one.
PassScheduler ==
  /\ wire # <<>> /\ Head(wire).to = "scheduler" /\ NoTimerDue
  /\ UNCHANGED <<queue, unmet>>
  /\ IF asked <= 0 /\ Asserts
       THEN Abort("ASSERT(packetsRequestedFromUs > 0)") /\ UNCHANGED <<asked, wire>>
       ELSE /\ asked' = asked - 1
            /\ wire' = Append(Tail(wire), [Head(wire) EXCEPT !.to = "MAC"])
            /\ UNCHANGED <<transmitter, condition, pauses>>

-----------------------------------------------------------------------------
(***************************************************************************)
(* The transmitter.                                                         *)
(***************************************************************************)
StartFrameTransmission ==
  /\ timer' = [timer EXCEPT !["endIFG"] = "off", !["endPause"] = "off", !["endTx"] = "set"]
  /\ transmitState' = "TRANSMITTING"

\* The frame reaches the MAC.
ProcessFrameFromUpperLayer ==
  /\ wire # <<>> /\ Head(wire).to = "MAC" /\ NoTimerDue
  /\ LET frame == Head(wire).frame  rest == Tail(wire) IN
     \/ /\ ~isOperational
        /\ Abort("message from higher layer while off") /\ UNCHANGED queues
     \/ /\ isOperational /\ ~connected
        /\ RequestNextFrame(rest)
        /\ UNCHANGED <<transmitter, condition, pauses>>
     \/ /\ isOperational /\ connected /\ curTxFrame # NoFrame /\ Asserts
        /\ Abort("ASSERT(curTxFrame == NULL)") /\ UNCHANGED queues
     \/ /\ isOperational /\ connected /\ ~(curTxFrame # NoFrame /\ Asserts)
        /\ curTxFrame' = frame /\ wire' = rest
        /\ IF transmitState = "TX_IDLE" THEN StartFrameTransmission
                                        ELSE UNCHANGED <<transmitState, timer>>
        /\ UNCHANGED <<queue, asked, unmet, condition, pauses>>

ScheduleEndPausePeriod ==
  /\ timer' = [timer EXCEPT !["endTx"] = "off", !["endPause"] = "set"]
  /\ transmitState' = "PAUSE"

ScheduleEndIFGPeriod ==
  /\ timer' = [timer EXCEPT !["endTx"] = "off", !["endIFG"] = "set"]
  /\ transmitState' = "WAIT_IFG"

\* Faulty form: the pause is counted down instead of reset.
HandleEndTxCounting ==
  /\ timer["endTx"] = "due"
  /\ curTxFrame' = NoFrame
  /\ RequestNextFrame(wire)
  /\ IF pauseUnitsRequested > 0 THEN ScheduleEndPausePeriod ELSE ScheduleEndIFGPeriod
  /\ pauseUnitsRequested' = pauseUnitsRequested - 1
  /\ UNCHANGED <<numPauseFramesRcvd, condition>>

\* Faulty form: the pause waits until there is nothing to send.
HandleEndTxFrameFirst ==
  /\ timer["endTx"] = "due"
  /\ curTxFrame' = NoFrame
  /\ RequestNextFrame(wire)
  /\ IF pauseUnitsRequested > 0 /\ wire' = wire
       THEN ScheduleEndPausePeriod /\ pauseUnitsRequested' = 0
       ELSE ScheduleEndIFGPeriod /\ UNCHANGED pauseUnitsRequested
  /\ UNCHANGED <<numPauseFramesRcvd, condition>>

\* The next frame is asked for before the gap, or the pause, begins.
HandleEndTxPeriod ==
  /\ timer["endTx"] = "due"
  /\ curTxFrame' = NoFrame
  /\ RequestNextFrame(wire)
  /\ IF pauseUnitsRequested > 0 THEN ScheduleEndPausePeriod ELSE ScheduleEndIFGPeriod
  /\ pauseUnitsRequested' = 0
  /\ UNCHANGED <<numPauseFramesRcvd, condition>>

\* Faulty form: the port goes idle although the next frame is there.
BeginIdle ==
  /\ transmitState' = "TX_IDLE"
  /\ timer' = [timer EXCEPT !["endIFG"] = "off", !["endPause"] = "off"]
  /\ UNCHANGED <<queues, curTxFrame, condition, pauses>>

BeginSendFrames ==
  /\ IF curTxFrame # NoFrame
       THEN StartFrameTransmission
       ELSE /\ transmitState' = "TX_IDLE"
            /\ timer' = [timer EXCEPT !["endIFG"] = "off", !["endPause"] = "off"]
  /\ UNCHANGED <<queues, curTxFrame, condition, pauses>>

HandleEndIFGPeriod == timer["endIFG"] = "due" /\ BeginSendFrames

HandleEndPausePeriod == timer["endPause"] = "due" /\ BeginSendFrames

\* Time passes to the next timer, once all messages of this instant are handled.
TimerFalls(t) ==
  /\ wire = <<>> /\ NoTimerDue /\ timer[t] = "set"
  /\ timer' = [timer EXCEPT ![t] = "due"]
  /\ UNCHANGED <<queues, curTxFrame, transmitState, condition, pauses>>

\* Faulty form: a pause starts in the interframe gap.
ProcessPauseInGap(units) ==
  /\ isOperational /\ connected /\ wire = <<>>
  /\ numPauseFramesRcvd < MaxPauses
  /\ numPauseFramesRcvd' = numPauseFramesRcvd + 1
  /\ IF transmitState \in {"TX_IDLE", "WAIT_IFG", "PAUSE"} /\ units > 0
       THEN ScheduleEndPausePeriod /\ UNCHANGED pauseUnitsRequested
       ELSE pauseUnitsRequested' = units /\ UNCHANGED <<timer, transmitState>>
  /\ UNCHANGED <<queues, curTxFrame, condition>>

\* A PAUSE frame for this port is received.
ProcessPauseCommand(units) ==
  /\ isOperational /\ connected /\ wire = <<>>
  /\ numPauseFramesRcvd < MaxPauses
  /\ numPauseFramesRcvd' = numPauseFramesRcvd + 1
  /\ IF transmitState \in {"TX_IDLE", "PAUSE"}
       THEN /\ IF units > 0
                 THEN ScheduleEndPausePeriod
                 ELSE timer' = [timer EXCEPT !["endPause"] = "off"] /\ UNCHANGED transmitState
            /\ UNCHANGED pauseUnitsRequested
       ELSE pauseUnitsRequested' = units /\ UNCHANGED <<timer, transmitState>>
  /\ UNCHANGED <<queues, curTxFrame, condition>>

-----------------------------------------------------------------------------
(***************************************************************************)
(* Commands of a scenario: the link goes down and up, the node stops,       *)
(* crashes and starts.  They are the first events of their instant.         *)
(***************************************************************************)
Quiet == wire = <<>> /\ NoTimerDue

\* Faulty form: the frame being transmitted is kept.
DropTimersOnly ==
  /\ connected' = FALSE
  /\ timer' = [t \in Timers |-> "off"]
  /\ transmitState' = "TX_IDLE" /\ UNCHANGED curTxFrame

\* processConnectDisconnect: the port is emptied by asking for the next frame.
DropTransmitter ==
  /\ connected' = FALSE
  /\ timer' = [t \in Timers |-> "off"]
  /\ curTxFrame' = NoFrame /\ transmitState' = "TX_IDLE"

Disconnect ==
  /\ "cut" \in Faults /\ Quiet /\ isOperational /\ connected
  /\ DropTransmitter /\ RequestNextFrame(wire)
  /\ UNCHANGED <<isOperational, aborted, pauses>>

Reconnect ==
  /\ "cut" \in Faults /\ Quiet /\ isOperational /\ ~connected
  /\ connected' = TRUE
  /\ UNCHANGED <<queues, transmitter, isOperational, aborted, pauses>>

\* flushQueue and clearQueue both empty the queues and forget the requests,
\* not the frame just passed to the scheduler.
GoDown(fault) ==
  /\ fault \in Faults /\ Quiet /\ isOperational
  /\ DropTransmitter
  /\ isOperational' = FALSE
  /\ queue' = [i \in Inputs |-> <<>>] /\ asked' = 0 /\ unmet' = 0
  /\ IF asked = 0 /\ Waiting(queue) # {}
       THEN \E i \in Inputs :
              /\ IsFirst(i, queue)
              /\ wire' = <<[to |-> "scheduler", frame |-> Head(queue[i])]>>
       ELSE wire' = wire
  /\ UNCHANGED <<aborted, pauses>>

\* initializeFlags reads from the gates whether the link is there.
Start ==
  /\ Quiet /\ ~isOperational
  /\ connected' \in IF "cut" \in Faults THEN BOOLEAN ELSE {TRUE}
  /\ isOperational' = TRUE
  /\ RequestNextFrame(wire)
  /\ UNCHANGED <<transmitter, aborted, pauses>>

\* An ASSERT or an error ends the simulation.
Step ==
  \/ \E frame \in Frames : Enqueue(frame)
  \/ PassScheduler
  \/ ProcessFrameFromUpperLayer
  \/ HandleEndTxPeriod
  \/ HandleEndIFGPeriod
  \/ HandleEndPausePeriod
  \/ \E t \in Timers : TimerFalls(t)
  \/ \E units \in Units : ProcessPauseCommand(units)
  \/ Disconnect
  \/ Reconnect
  \/ \E fault \in {"shutdown", "crash"} : GoDown(fault)
  \/ Start

Next == aborted = "no" /\ Step

Spec == Init /\ [][Next]_vars

\* The simulation kernel handles every message sent and every timer set.
Kernel ==
  /\ aborted = "no"
  /\ \/ PassScheduler
     \/ ProcessFrameFromUpperLayer
     \/ HandleEndTxPeriod
     \/ HandleEndIFGPeriod
     \/ HandleEndPausePeriod
     \/ \E t \in Timers : TimerFalls(t)

FairSpec == Spec /\ WF_vars(Kernel)

-----------------------------------------------------------------------------
(***************************************************************************)
(* What must hold.                                                          *)
(***************************************************************************)
MACStates == {"TX_IDLE", "WAIT_IFG", "TRANSMITTING", "PAUSE"}
Messages  == [to : {"scheduler", "MAC"}, frame : Frames]
Errors    == {"no", "ASSERT(packetsRequestedFromUs > 0)", "ASSERT(curTxFrame == NULL)",
              "message from higher layer while off"}

\* The state of the queues, the scheduler and the transmitter has its type.
TypeOK ==
  /\ queue \in [Inputs -> Seq(Frames)]
  /\ asked \in Int /\ unmet \in Int
  /\ wire \in Seq(Messages)
  /\ curTxFrame \in Frames \cup {NoFrame}
  /\ transmitState \in MACStates
  /\ timer \in [Timers -> {"off", "set", "due"}]
  /\ pauseUnitsRequested \in Nat /\ numPauseFramesRcvd \in 0..MaxPauses
  /\ connected \in BOOLEAN /\ isOperational \in BOOLEAN
  /\ aborted \in Errors

OnWayTo(module) == IF wire # <<>> /\ Head(wire).to = module THEN 1 ELSE 0
Held == IF curTxFrame = NoFrame THEN 0 ELSE 1

\* The MAC and the scheduler keep one frame between them: a request is out,
\* or its frame is on the way to the MAC, or the MAC has it.  Two of them and
\* a frame is overwritten in curTxFrame, none and the port falls silent: the
\* MAC asks again only when getNumPendingRequests() is 0.
OneRequestOut ==
  isOperational =>
    /\ Len(wire) <= 1
    /\ asked + OnWayTo("MAC") + Held = 1
    /\ unmet + OnWayTo("scheduler") = asked

\* No frame waits in a queue that the scheduler was asked for and has not
\* passed on: an idle port has empty queues.
WorkConserving ==
  /\ unmet > 0 => Waiting(queue) = {}
  /\ isOperational /\ connected /\ transmitState = "TX_IDLE" /\ wire = <<>>
        => Waiting(queue) = {}

\* The frame that has been taken out of the queues and is not sent yet: on its
\* way to the MAC, or held by it.
InService ==
  CASE ~isOperational                 -> NoFrame
    [] isOperational /\ wire # <<>>   -> Head(wire).frame
    [] isOperational /\ wire = <<>>   -> curTxFrame

\* The port implements the priority server, through cut links, pauses, stops
\* and starts: a frame the MAC asks for ahead of time is in service, however
\* long the gap or the pause before it.
Server == INSTANCE PriorityServer
            WITH None <- NoFrame, waiting <- [p \in 0..TopPpc |-> queue[Gate(p)]],
                 current <- InService, up <- isOperational

ServesByPriority == Server!Spec

\* The frames of priority p in the port's care, the next to be sent first.
Accepted(p) ==
  (IF InService.ppc = p THEN <<InService>> ELSE <<>>) \o queue[Gate(p)]

\* What one step may do to the frames of a priority: nothing, take one more,
\* send or lose the first, or, when the node stops, lose them all.
FirstInFirstOut(p) ==
  \/ Accepted(p)' = Accepted(p)
  \/ \E frame \in Frames : frame.ppc = p /\ Accepted(p)' = Append(Accepted(p), frame)
  \/ Accepted(p) # <<>> /\ Accepted(p)' = Tail(Accepted(p))
  \/ ~isOperational' /\ Accepted(p)' = <<>>

\* Within a priority frames leave the port in the order they came, each once.
KeepsOrder == [][\A p \in Ppcs : FirstInFirstOut(p)]_vars

\* While the node is up neither ASSERT of the handshake between MAC and
\* scheduler fails, whatever happens to the link and in whatever order.
SafeWhileUp == isOperational => aborted = "no"

\* Stopping the node is safe too: "Clear external queue: send a request, and
\* received packet will be deleted in handleMessage()".
StopsSafely == aborted = "no"

\* The timers and the state of the MAC go together: the errors of the
\* handlers ("End of PAUSE event occurred when not in PAUSE_STATE!") cannot
\* be raised, nor one timer be scheduled twice.
TimerFitsState ==
  /\ timer["endTx"] # "off" <=> transmitState = "TRANSMITTING"
  /\ timer["endIFG"] # "off" <=> transmitState = "WAIT_IFG"
  /\ timer["endPause"] # "off" => transmitState = "PAUSE"
  /\ transmitState = "TRANSMITTING" => curTxFrame # NoFrame
  /\ transmitState = "TX_IDLE" => curTxFrame = NoFrame

\* A paused transmitter has the timer that ends the pause ("pausing for ...
\* more time units from now").
PauseEnds == transmitState = "PAUSE" => timer["endPause"] # "off"

\* A frame of the highest priority in a queue is eventually transmitted,
\* unless the link goes down or the port is left in PAUSE_STATE for good.
HighestServed ==
  LET Top == CHOOSE p \in Ppcs : \A q \in Ppcs : q <= p IN
  (queue[Gate(Top)] # <<>>) ~>
     \/ transmitState = "TRANSMITTING" /\ curTxFrame.ppc = Top
     \/ ~connected \/ ~PauseEnds
=============================================================================
