-------------------------- MODULE TxPassingProofs --------------------------
(***************************************************************************)
(* The order in which frames leave the port, for any number of priorities,  *)
(* any capacity, any pauses and any faults: a waiting frame is passed by at *)
(* most one frame of lower priority and by none of its own, and a stored    *)
(* PAUSE by at most one frame.                                              *)
(***************************************************************************)
EXTENDS MCTxPort, TxPortProofs

-----------------------------------------------------------------------------
(***************************************************************************)
(* The inductive invariant.  A frame is in the queue of its priority, so    *)
(* what the scheduler passes is never lower than a frame left waiting; once *)
(* a frame has been passed, what the port will transmit next is not lower   *)
(* either.                                                                  *)
(***************************************************************************)
Filed(q) == \A i \in Inputs : \A k \in 1 .. Len(q[i]) : Gate(q[i][k].ppc) = i

NotBelow(p) ==
  /\ wire # <<>> => Head(wire).frame.ppc >= p
  /\ curTxFrame # NoFrame => curTxFrame.ppc >= p

\* What comes after the frame being transmitted is not lower.
NextNotBelow(p) == transmitState # "TRANSMITTING" => NotBelow(p)

Overtaken(p) == passed[p] = 1 => queue[Gate(p)] # <<>> /\ NextNotBelow(p)

PassedInv ==
  /\ passed \in [Ppcs -> {0, 1}]
  /\ Filed(queue)
  /\ \A p \in Ppcs : Overtaken(p)

\* What a step owes to a frame of priority p that goes on waiting.
Leads(p) ==
  /\ Starts /\ NotBelow(p) => curTxFrame'.ppc >= p
  /\ NextNotBelow(p) => NextNotBelow(p)'

GoesOnWaiting(p) == queue[Gate(p)] # <<>> /\ Len(queue'[Gate(p)]) >= Len(queue[Gate(p)])

-----------------------------------------------------------------------------
(***************************************************************************)
(* Queues.                                                                  *)
(***************************************************************************)

\* The classifier turns the priorities round.
LEMMA GateTurns ==
  ASSUME NEW p \in Ppcs
  PROVE  p \in 0 .. TopPpc /\ Gate(p) = TopPpc - p /\ Gate(p) \in Inputs
BY TxPortAssumption DEF TxPortAssumption, Gate, Inputs

\* The head of the first queue that has one is not lower than any that waits.
LEMMA FirstIsHighest ==
  ASSUME NEW q \in [Inputs -> Seq(Frames)], Filed(q), NEW p \in Ppcs, q[Gate(p)] # <<>>,
         NEW i \in Inputs, IsFirst(i, q)
  PROVE  Head(q[i]).ppc >= p
<1>1. q[i] # <<>> /\ i <= Gate(p)
  BY GateTurns DEF IsFirst, Waiting
<1>2. q[i] \in Seq(Frames)
  OBVIOUS
<1>3. Len(q[i]) \in Nat \ {0} /\ Head(q[i]) = q[i][1] /\ Head(q[i]) \in Frames
  BY <1>1, <1>2
<1>4. 1 \in 1 .. Len(q[i])
  BY <1>3
<1>5. Gate(Head(q[i]).ppc) = i
  BY <1>3, <1>4 DEF Filed
<1>6. Gate(Head(q[i]).ppc) = TopPpc - Head(q[i]).ppc /\ Head(q[i]).ppc \in 0 .. TopPpc
  BY <1>3, FrameFacts
<1>7. Gate(p) = TopPpc - p /\ p \in 0 .. TopPpc
  BY GateTurns
<1>8. TopPpc \in Nat
  BY TxPortAssumption DEF TxPortAssumption
<1>9. QED BY <1>1, <1>5, <1>6, <1>7, <1>8

\* Taking the head off a queue, and queueing a frame, leave frames filed.
LEMMA FiledTail ==
  ASSUME NEW q \in [Inputs -> Seq(Frames)], Filed(q), NEW i \in Inputs, q[i] # <<>>
  PROVE  Filed([q EXCEPT ![i] = Tail(@)])
<1> DEFINE r == [q EXCEPT ![i] = Tail(@)]
<1>1. SUFFICES ASSUME NEW j \in Inputs, NEW k \in 1 .. Len(r[j])
               PROVE  Gate(r[j][k].ppc) = j
  BY DEF Filed
<1>2. CASE j = i
  <2>1. q[i] \in Seq(Frames) /\ r[i] = Tail(q[i])
    OBVIOUS
  <2>2. Len(q[i]) \in Nat /\ Len(r[i]) = Len(q[i]) - 1 /\ r[i][k] = q[i][k + 1]
    BY <1>2, <2>1
  <2>3. k + 1 \in 1 .. Len(q[i])
    BY <1>2, <2>2
  <2>4. QED BY <1>2, <2>2, <2>3 DEF Filed
<1>3. CASE j # i
  BY <1>3 DEF Filed
<1>4. QED BY <1>2, <1>3

LEMMA FiledAppend ==
  ASSUME NEW q \in [Inputs -> Seq(Frames)], Filed(q), NEW frame \in Frames
  PROVE  /\ [q EXCEPT ![Gate(frame.ppc)] = Append(@, frame)] \in [Inputs -> Seq(Frames)]
         /\ Filed([q EXCEPT ![Gate(frame.ppc)] = Append(@, frame)])
<1> DEFINE r == [q EXCEPT ![Gate(frame.ppc)] = Append(@, frame)]
<1>1. Gate(frame.ppc) \in Inputs /\ q[Gate(frame.ppc)] \in Seq(Frames)
  BY FrameFacts
<1>2. r \in [Inputs -> Seq(Frames)]
  BY <1>1, QueueSteps
<1>3. ASSUME NEW j \in Inputs, NEW k \in 1 .. Len(r[j])
      PROVE  Gate(r[j][k].ppc) = j
  <2>1. CASE j = Gate(frame.ppc)
    <3>1. r[j] = Append(q[j], frame) /\ q[j] \in Seq(Frames)
      BY <1>1, <2>1
    <3>2. Len(q[j]) \in Nat /\ Len(r[j]) = Len(q[j]) + 1
      BY <3>1
    <3>3. CASE k = Len(q[j]) + 1
      BY <2>1, <3>1, <3>2, <3>3
    <3>4. CASE k # Len(q[j]) + 1
      <4>1. k \in 1 .. Len(q[j]) /\ r[j][k] = q[j][k]
        BY <3>1, <3>2, <3>4
      <4>2. QED BY <4>1 DEF Filed
    <3>5. QED BY <3>3, <3>4
  <2>2. CASE j # Gate(frame.ppc)
    BY <1>1, <2>2 DEF Filed
  <2>3. QED BY <2>1, <2>2
<1>4. QED BY <1>2, <1>3 DEF Filed

\* What the scheduler passes with an empty wire is not lower than a frame
\* that waits, and leaves the queues filed.
LEMMA PassesHighest ==
  ASSUME NEW q \in [Inputs -> Seq(Frames)], Filed(q), SchedulePacket(q, <<>>)
  PROVE  /\ Filed(queue')
         /\ \A p \in Ppcs : q[Gate(p)] # <<>> => Head(wire').frame.ppc >= p
<1>1. CASE Waiting(q) = {}
  <2>1. \A p \in Ppcs : q[Gate(p)] = <<>>
    BY <1>1, GateTurns DEF Waiting
  <2>2. QED BY <1>1, <2>1 DEF SchedulePacket
<1>2. CASE Waiting(q) # {}
  <2>1. PICK i \in Inputs :
          /\ IsFirst(i, q)
          /\ queue' = [q EXCEPT ![i] = Tail(@)]
          /\ wire' = Append(<<>>, [to |-> "scheduler", frame |-> Head(q[i])])
    BY <1>2 DEF SchedulePacket
  <2>2. q[i] # <<>>
    BY <2>1 DEF IsFirst, Waiting
  <2>3. Filed(queue')
    BY <2>1, <2>2, FiledTail
  <2>4. Head(wire').frame = Head(q[i])
    BY <2>1
  <2>5. QED BY <2>1, <2>3, <2>4, FirstIsHighest
<1>3. QED BY <1>1, <1>2

\* A MAC that asks with nothing out and nothing on the wire.
LEMMA AskingPasses ==
  ASSUME TypeOK, Filed(queue), asked = 0, RequestNextFrame(<<>>)
  PROVE  /\ Filed(queue')
         /\ \A p \in Ppcs : queue[Gate(p)] # <<>> => Head(wire').frame.ppc >= p
BY PassesHighest DEF TypeOK, RequestNextFrame, RequestPacket

-----------------------------------------------------------------------------
(***************************************************************************)
(* What each handler owes to the frames that wait.                          *)
(***************************************************************************)
Owes == Filed(queue') /\ \A p \in Ppcs : GoesOnWaiting(p) => Leads(p)

\* A node that is down has nothing waiting.
LEMMA DownHasNone ==
  ASSUME IInv, ~isOperational
  PROVE  \A p \in Ppcs : queue[Gate(p)] = <<>>
BY GateTurns DEF IInv, NodeDown, Waiting

LEMMA EnqueueOwes ==
  ASSUME IInv, Filed(queue), NEW frame \in Frames, Enqueue(frame)
  PROVE  Owes
<1> DEFINE q == [queue EXCEPT ![Gate(frame.ppc)] = Append(@, frame)]
<1>1. isOperational /\ UNCHANGED <<curTxFrame, transmitState>>
  BY DEF Enqueue, transmitter
<1>2. q \in [Inputs -> Seq(Frames)] /\ Filed(q)
  BY FiledAppend DEF IInv, TypeOK
<1>3. CASE UNCHANGED queues
  BY <1>1, <1>3 DEF Owes, Filed, Leads, Starts, NextNotBelow, NotBelow, queues
<1>4. CASE PacketEnqueued(q)
  <2>1. CASE unmet > 0
    <3>1. wire = <<>> /\ Waiting(queue) = {}
      BY <1>1, <2>1 DEF IInv, NodeUp, Handshake, Requested, Passed, Taken
    <3>2. SchedulePacket(q, <<>>)
      BY <1>4, <2>1, <3>1 DEF PacketEnqueued
    <3>3. Filed(queue')
      BY <1>2, <3>2, PassesHighest
    <3>4. \A p \in Ppcs : queue[Gate(p)] = <<>>
      BY <3>1, GateTurns DEF Waiting
    <3>5. QED BY <3>3, <3>4 DEF Owes, GoesOnWaiting
  <2>2. CASE ~(unmet > 0)
    <3>1. queue' = q /\ wire' = wire
      BY <1>4, <2>2 DEF PacketEnqueued
    <3>2. QED BY <1>1, <1>2, <3>1 DEF Owes, Leads, Starts, NextNotBelow, NotBelow
  <2>3. QED BY <2>1, <2>2
<1>5. QED BY <1>3, <1>4 DEF Enqueue

LEMMA PassSchedulerOwes ==
  ASSUME IInv, Filed(queue), PassScheduler
  PROVE  Owes
<1>1. queue' = queue /\ UNCHANGED <<curTxFrame, transmitState>>
  BY DEF PassScheduler, Abort, transmitter
<1>2. CASE ~isOperational
  BY <1>1, <1>2, DownHasNone DEF Owes, GoesOnWaiting, Filed
<1>3. CASE isOperational
  <2>1. PICK m \in Messages : wire = <<m>>
    BY <1>3 DEF IInv, NodeUp, Handshake, Requested, Passed, Taken, PassScheduler
  <2>2. wire' # <<>> /\ Head(wire').frame = Head(wire).frame
    <3>1. CASE wire' = wire
      BY <2>1, <3>1
    <3>2. CASE wire' = Append(Tail(wire), [Head(wire) EXCEPT !.to = "MAC"])
      BY <2>1, <3>2 DEF Messages
    <3>3. QED BY <3>1, <3>2 DEF PassScheduler
  <2>3. wire # <<>>
    BY <2>1
  <2>4. QED BY <1>1, <2>2, <2>3 DEF Owes, Filed, Leads, Starts, NextNotBelow, NotBelow
<1>4. QED BY <1>2, <1>3

LEMMA FrameReceivedOwes ==
  ASSUME IInv, Filed(queue), ProcessFrameFromUpperLayer
  PROVE  Owes
<1>1. CASE ~isOperational
  BY <1>1, DownHasNone DEF Owes, GoesOnWaiting, Filed, ProcessFrameFromUpperLayer, queues
<1>2. CASE isOperational
  <2>1. PICK m \in Messages : /\ wire = <<m>> /\ m.to = "MAC"
                              /\ asked = 0 /\ curTxFrame = NoFrame
    BY <1>2, OneMessage
       DEF IInv, NodeUp, Handshake, Requested, Passed, Taken, ProcessFrameFromUpperLayer
  <2>2. Head(wire) = m /\ Tail(wire) = <<>> /\ wire # <<>>
    BY <2>1
  <2>3. CASE ~connected
    <3>1. RequestNextFrame(<<>>) /\ UNCHANGED <<curTxFrame, transmitState>>
      BY <1>2, <2>2, <2>3 DEF ProcessFrameFromUpperLayer, transmitter
    <3>2. /\ Filed(queue')
          /\ \A p \in Ppcs : queue[Gate(p)] # <<>> => Head(wire').frame.ppc >= p
      BY <2>1, <3>1, AskingPasses DEF IInv
    <3>3. QED BY <2>1, <3>1, <3>2 DEF Owes, GoesOnWaiting, Leads, Starts, NextNotBelow, NotBelow
  <2>4. CASE connected
    <3>1. queue' = queue /\ curTxFrame' = m.frame /\ wire' = <<>>
      BY <1>2, <2>1, <2>2, <2>4 DEF ProcessFrameFromUpperLayer
    <3>2. transmitState # "TX_IDLE" => transmitState' = transmitState
      BY <1>2, <2>1, <2>2, <2>4 DEF ProcessFrameFromUpperLayer
    <3>3. transmitState = "TX_IDLE" => transmitState' = "TRANSMITTING"
      BY <1>2, <2>1, <2>2, <2>4 DEF ProcessFrameFromUpperLayer, StartFrameTransmission
    <3>4. QED BY <2>2, <3>1, <3>2, <3>3 DEF Owes, Filed, Leads, Starts, NextNotBelow, NotBelow
  <2>5. QED BY <2>3, <2>4
<1>3. QED BY <1>1, <1>2

\* The next frame is asked for when a frame has been sent.
LEMMA EndTxOwes ==
  ASSUME IInv, Filed(queue), HandleEndTxPeriod
  PROVE  Owes
<1>1. transmitState = "TRANSMITTING" /\ curTxFrame # NoFrame
  BY DEF IInv, TimerFitsState, HandleEndTxPeriod
<1>2. CASE ~isOperational
  BY <1>1, <1>2 DEF IInv, Link
<1>3. CASE isOperational
  <2>1. asked = 0 /\ wire = <<>>
    BY <1>1, <1>3 DEF IInv, NodeUp, Handshake, Taken
  <2>2. /\ RequestNextFrame(<<>>)
        /\ curTxFrame' = NoFrame /\ transmitState' \in {"PAUSE", "WAIT_IFG"}
    BY <2>1 DEF HandleEndTxPeriod, ScheduleEndPausePeriod, ScheduleEndIFGPeriod
  <2>3. /\ Filed(queue')
        /\ \A p \in Ppcs : queue[Gate(p)] # <<>> => Head(wire').frame.ppc >= p
    BY <2>1, <2>2, AskingPasses DEF IInv
  <2>4. QED BY <2>2, <2>3 DEF Owes, GoesOnWaiting, Leads, Starts, NextNotBelow, NotBelow
<1>4. QED BY <1>2, <1>3

\* At the end of a gap or a pause the frame that was taken is sent.
LEMMA BeginSendOwes ==
  ASSUME IInv, Filed(queue), HandleEndIFGPeriod \/ HandleEndPausePeriod
  PROVE  Owes
<1>1. transmitState \in {"WAIT_IFG", "PAUSE"}
  BY DEF IInv, TimerFitsState, HandleEndIFGPeriod, HandleEndPausePeriod
<1>2. queue' = queue /\ wire' = wire /\ curTxFrame' = curTxFrame
  BY DEF HandleEndIFGPeriod, HandleEndPausePeriod, BeginSendFrames, queues,
         StartFrameTransmission
<1>3. curTxFrame = NoFrame => transmitState' = "TX_IDLE"
  BY DEF HandleEndIFGPeriod, HandleEndPausePeriod, BeginSendFrames
<1>4. QED BY <1>1, <1>2, <1>3 DEF Owes, Filed, Leads, Starts, NextNotBelow, NotBelow

\* A link that is cut: what was sent is lost, and the next is asked for.
LEMMA DisconnectOwes ==
  ASSUME IInv, Filed(queue), Disconnect
  PROVE  Owes
<1>1. /\ isOperational /\ wire = <<>> /\ RequestNextFrame(<<>>)
      /\ curTxFrame' = NoFrame /\ transmitState' = "TX_IDLE"
  BY DEF Disconnect, Quiet, DropTransmitter
<1>2. CASE asked = 0
  <2>1. /\ Filed(queue')
        /\ \A p \in Ppcs : queue[Gate(p)] # <<>> => Head(wire').frame.ppc >= p
    BY <1>1, <1>2, AskingPasses DEF IInv
  <2>2. QED BY <1>1, <2>1 DEF Owes, GoesOnWaiting, Leads, Starts, NextNotBelow, NotBelow
<1>3. CASE asked # 0
  <2>1. Waiting(queue) = {}
    BY <1>1, <1>3 DEF IInv, NodeUp, Handshake, Requested, Passed, Taken
  <2>2. \A p \in Ppcs : queue[Gate(p)] = <<>>
    BY <2>1, GateTurns DEF Waiting
  <2>3. queue' = queue
    BY <1>1, <1>3 DEF RequestNextFrame
  <2>4. QED BY <2>2, <2>3 DEF Owes, Filed, GoesOnWaiting
<1>4. QED BY <1>2, <1>3

\* A node that stops empties its queues, one that starts has none waiting.
LEMMA LifecycleOwes ==
  ASSUME IInv, Filed(queue), (\E fault \in Faults : GoDown(fault)) \/ Start
  PROVE  Owes
<1>1. CASE \E fault \in Faults : GoDown(fault)
  <2>1. queue' = [i \in Inputs |-> <<>>]
    BY <1>1 DEF GoDown
  <2>2. Filed(queue')
    BY <2>1 DEF Filed
  <2>3. ASSUME NEW p \in Ppcs, queue[Gate(p)] # <<>>
        PROVE  ~(Len(queue'[Gate(p)]) >= Len(queue[Gate(p)]))
    <3>1. Gate(p) \in Inputs /\ queue[Gate(p)] \in Seq(Frames)
      BY GateTurns DEF IInv, TypeOK
    <3>2. Len(queue[Gate(p)]) \in Nat \ {0} /\ Len(queue'[Gate(p)]) = 0
      BY <2>1, <2>3, <3>1
    <3>3. QED BY <3>2
  <2>4. QED BY <2>2, <2>3 DEF Owes, GoesOnWaiting
<1>2. CASE Start
  <2>1. ~isOperational /\ wire = <<>> /\ asked = 0 /\ RequestNextFrame(<<>>)
    BY <1>2 DEF Start, Quiet, IInv, NodeDown
  <2>2. Filed(queue')
    BY <2>1, AskingPasses DEF IInv
  <2>3. QED BY <2>1, <2>2, DownHasNone DEF Owes, GoesOnWaiting
<1>3. QED BY <1>1, <1>2

\* Timers that fall due, PAUSE frames and a link that returns touch neither
\* the queues nor the frames that were taken out of them.
LEMMA OthersOwe ==
  ASSUME Filed(queue),
         \/ \E t \in Timers : TimerFalls(t)
         \/ \E units \in Units : ProcessPauseCommand(units)
         \/ Reconnect
  PROVE  Owes
<1>1. UNCHANGED <<queue, wire, curTxFrame>>
  BY DEF TimerFalls, ProcessPauseCommand, Reconnect, queues, transmitter
<1>2. \/ transmitState' = transmitState
      \/ transmitState # "TRANSMITTING" /\ transmitState' # "TRANSMITTING"
  BY DEF TimerFalls, ProcessPauseCommand, Reconnect, ScheduleEndPausePeriod, transmitter
<1>3. QED BY <1>1, <1>2 DEF Owes, Filed, Leads, Starts, NextNotBelow, NotBelow

\* Every step.
LEMMA StepOwes ==
  ASSUME IInv, Filed(queue), Next
  PROVE  Owes
<1>1. CASE \E fault \in {"shutdown", "crash"} : GoDown(fault)
  BY <1>1, LifecycleOwes DEF GoDown
<1>2. CASE ~\E fault \in {"shutdown", "crash"} : GoDown(fault)
  BY <1>2, EnqueueOwes, PassSchedulerOwes, FrameReceivedOwes, EndTxOwes, BeginSendOwes,
     DisconnectOwes, LifecycleOwes, OthersOwe DEF Next, Step
<1>3. QED BY <1>1, <1>2

-----------------------------------------------------------------------------
(***************************************************************************)
(* Within a priority the port is first in, first out: what PriorityServer   *)
(* does to the frames of one priority, given that frames are filed.         *)
(***************************************************************************)

\* A frame before a queue.
LEMMA OneBefore ==
  ASSUME NEW w \in Seq(Frames), NEW s \in Frames
  PROVE  /\ <<s>> \o w \in Seq(Frames) /\ <<s>> \o w # <<>>
         /\ Tail(<<s>> \o w) = w /\ Head(<<s>> \o w) = s
         /\ \A f \in Frames : <<s>> \o Append(w, f) = Append(<<s>> \o w, f)
<1> DEFINE v == <<s>> \o w
<1>1. <<s>> \in Seq(Frames) /\ Len(<<s>>) = 1 /\ <<s>>[1] = s
  OBVIOUS
<1>2. /\ v \in Seq(Frames) /\ Len(v) = 1 + Len(w) /\ Len(w) \in Nat
      /\ \A i \in 1 .. 1 + Len(w) : v[i] = IF i <= 1 THEN s ELSE w[i - 1]
  <2>1. /\ v \in Seq(Frames) /\ Len(v) = 1 + Len(w)
        /\ \A i \in 1 .. 1 + Len(w) : v[i] = IF i <= 1 THEN <<s>>[i] ELSE w[i - 1]
    BY <1>1, ConcatProperties
  <2>2. \A i \in 1 .. 1 + Len(w) : i <= 1 => <<s>>[i] = s
    BY <1>1
  <2>3. Len(w) \in Nat
    BY LenProperties
  <2> HIDE DEF v
  <2>4. QED BY <2>1, <2>2, <2>3
<1> HIDE DEF v
<1>3. v # <<>> /\ v[1] = s
  BY <1>2, EmptySeq
<1>4. Tail(v) = w /\ Head(v) = s
  <2>1. /\ Tail(v) \in Seq(Frames) /\ Len(Tail(v)) = Len(v) - 1
        /\ \A i \in 1 .. Len(Tail(v)) : Tail(v)[i] = v[i + 1]
    BY <1>2, <1>3, HeadTailProperties
  <2>2. Len(Tail(v)) = Len(w)
    BY <1>2, <2>1
  <2>3. \A i \in 1 .. Len(Tail(v)) : Tail(v)[i] = w[i]
    BY <1>2, <2>1, <2>2
  <2>4. Tail(v) = w
    BY <2>1, <2>2, <2>3, SeqEqual
  <2>5. Head(v) = s
    BY <1>2, <1>3
  <2>6. QED BY <2>4, <2>5
<1>5. ASSUME NEW f \in Frames
      PROVE  <<s>> \o Append(w, f) = Append(v, f)
  <2>1. Append(w, f) = w \o <<f>> /\ Append(v, f) = v \o <<f>> /\ <<f>> \in Seq(Frames)
    BY <1>2, AppendIsConcat
  <2>2. (<<s>> \o w) \o <<f>> = <<s>> \o (w \o <<f>>)
    BY <1>1, <2>1, ConcatAssociative
  <2>3. QED BY <2>1, <2>2 DEF v
<1>6. QED BY <1>2, <1>3, <1>4, <1>5 DEF v

\* A queue is its first frame before the others.
LEMMA FirstBefore ==
  ASSUME NEW w \in Seq(Frames), w # <<>>
  PROVE  Head(w) \in Frames /\ Tail(w) \in Seq(Frames) /\ <<Head(w)>> \o Tail(w) = w
<1>1. /\ Head(w) \in Frames /\ Tail(w) \in Seq(Frames) /\ Len(Tail(w)) = Len(w) - 1
      /\ \A i \in 1 .. Len(Tail(w)) : Tail(w)[i] = w[i + 1]
  BY HeadTailProperties
<1> DEFINE v == <<Head(w)>> \o Tail(w)
<1>2. v \in Seq(Frames) /\ v # <<>> /\ Tail(v) = Tail(w) /\ Head(v) = Head(w)
  BY <1>1, OneBefore
<1> HIDE DEF v
<1>3. Len(Tail(v)) = Len(v) - 1 /\ Len(v) \in Nat \ {0} /\ Len(w) \in Nat \ {0}
      /\ \A i \in 1 .. Len(Tail(v)) : Tail(v)[i] = v[i + 1]
  BY <1>2, HeadTailProperties, EmptySeq
<1>4. Len(v) = Len(w)
  <2>1. Len(Tail(v)) = Len(Tail(w))
    BY <1>2
  <2>2. Len(v) - 1 = Len(w) - 1 /\ Len(v) \in Nat /\ Len(w) \in Nat
    BY <1>1, <1>3, <2>1
  <2>3. QED BY <2>2
<1>5. ASSUME NEW i \in 1 .. Len(v)
      PROVE  v[i] = w[i]
  <2>1. CASE i = 1
    BY <1>2, <2>1
  <2>2. CASE i # 1
    <3>1. i - 1 \in 1 .. Len(Tail(w)) /\ (i - 1) + 1 = i
      BY <1>1, <1>3, <1>4, <2>2
    <3>2. QED BY <1>1, <1>2, <1>3, <3>1
  <2>3. QED BY <2>1, <2>2
<1>6. v = w
  BY <1>2, <1>4, <1>5, SeqEqual
<1>7. QED BY <1>1, <1>6 DEF v

\* What is in the port's care is the frame in service, if it is of that
\* priority, before the queue.
LEMMA AcceptedIs ==
  ASSUME NEW p \in Ppcs, queue \in [Inputs -> Seq(Frames)]
  PROVE  /\ queue[Gate(p)] \in Seq(Frames)
         /\ InService.ppc = p => Accepted(p) = <<InService>> \o queue[Gate(p)]
         /\ InService.ppc # p => Accepted(p) = queue[Gate(p)]
<1>1. queue[Gate(p)] \in Seq(Frames)
  BY GateTurns
<1>2. <<>> \o queue[Gate(p)] = queue[Gate(p)]
  BY <1>1, ConcatEmptySeq
<1>3. QED BY <1>1, <1>2 DEF Accepted

LEMMA AcceptedWillBe ==
  ASSUME NEW p \in Ppcs, queue' \in [Inputs -> Seq(Frames)]
  PROVE  /\ queue'[Gate(p)] \in Seq(Frames)
         /\ InService'.ppc = p => Accepted(p)' = <<InService'>> \o queue'[Gate(p)]
         /\ InService'.ppc # p => Accepted(p)' = queue'[Gate(p)]
<1>1. queue'[Gate(p)] \in Seq(Frames)
  BY GateTurns
<1>2. <<>> \o queue'[Gate(p)] = queue'[Gate(p)]
  BY <1>1, ConcatEmptySeq
<1>3. QED BY <1>1, <1>2 DEF Accepted

\* A port that serves nothing has nothing waiting.
LEMMA IdleIsEmpty ==
  ASSUME IInv
  PROVE  /\ InService \in Frames \cup {NoFrame}
         /\ InService = NoFrame => \A p \in Ppcs : queue[Gate(p)] = <<>>
         /\ \A p \in Ppcs : NoFrame.ppc # p
<1>1. \A p \in Ppcs : NoFrame.ppc # p
  BY TxPortAssumption DEF TxPortAssumption, NoFrame
<1>2. CASE ~isOperational
  BY <1>1, <1>2, DownHasNone, InServiceIs
<1>3. CASE isOperational /\ Waiting(queue) = {}
  <2>1. \A p \in Ppcs : queue[Gate(p)] = <<>>
    BY <1>3, GateTurns DEF Waiting
  <2>2. InService \in Frames \cup {NoFrame}
    <3>1. CASE wire = <<>>
      BY <1>3, <3>1, InServiceIs DEF IInv, TypeOK
    <3>2. CASE wire # <<>>
      <4>1. Head(wire) \in Messages
        BY <3>2, Redirecting DEF IInv, TypeOK
      <4>2. QED BY <1>3, <3>2, <4>1, InServiceIs DEF Messages
    <3>3. QED BY <3>1, <3>2
  <2>3. QED BY <1>1, <2>1, <2>2
<1>4. CASE isOperational /\ Waiting(queue) # {}
  <2>1. \/ \E m \in Messages : wire = <<m>>
        \/ wire = <<>> /\ curTxFrame # NoFrame
    BY <1>4 DEF IInv, NodeUp, Handshake, Requested, Passed, Taken
  <2>2. CASE \E m \in Messages : wire = <<m>>
    BY <1>1, <1>4, <2>2, UnderWayInService DEF Messages
  <2>3. CASE wire = <<>> /\ curTxFrame # NoFrame
    BY <1>1, <1>4, <2>3, InServiceIs DEF IInv, TypeOK
  <2>4. QED BY <2>1, <2>2, <2>3
<1>5. QED BY <1>2, <1>3, <1>4

\* A queue that is seen by its priority.
LEMMA SeenAt ==
  ASSUME NEW p \in Ppcs
  PROVE  /\ p \in 0..TopPpc
         /\ View(queue)[p] = queue[Gate(p)] /\ View(queue')[p] = queue'[Gate(p)]
BY GateTurns DEF View

\* A frame that arrives is the last of its priority.
LEMMA ArriveKeepsOrder ==
  ASSUME IInv, TypeOK', NEW p \in Ppcs, NEW frame \in Frames, Server!Arrive(frame)
  PROVE  FirstInFirstOut(p)
<1> DEFINE w == queue[Gate(p)]
<1>1. w \in Seq(Frames) /\ queue \in [Inputs -> Seq(Frames)] /\ queue' \in [Inputs -> Seq(Frames)]
  BY GateTurns DEF IInv, TypeOK
<1>2. CASE InService = NoFrame
  <2>1. InService' = frame /\ View(queue') = View(queue)
    BY <1>2 DEF Server!Arrive, View
  <2>2. queue'[Gate(p)] = <<>> /\ Accepted(p) = <<>>
    BY <1>1, <1>2, <2>1, SeenAt, IdleIsEmpty, AcceptedIs
  <2>3. CASE frame.ppc = p
    <3>1. Accepted(p)' = <<frame>> \o <<>>
      BY <1>1, <2>1, <2>2, <2>3, AcceptedWillBe
    <3>2. <<frame>> \o <<>> = Append(<<>>, frame)
      OBVIOUS
    <3>3. Accepted(p)' = Append(Accepted(p), frame)
      BY <2>2, <3>1, <3>2
    <3>4. QED BY <2>3, <3>3 DEF FirstInFirstOut
  <2>4. CASE frame.ppc # p
    <3>1. Accepted(p)' = Accepted(p)
      BY <1>1, <2>1, <2>2, <2>4, AcceptedWillBe
    <3>2. QED BY <3>1 DEF FirstInFirstOut
  <2>5. QED BY <2>3, <2>4
<1>3. CASE InService # NoFrame
  <2>1. /\ View(queue') = [View(queue) EXCEPT ![frame.ppc] = Append(@, frame)]
        /\ InService' = InService
    BY <1>3 DEF Server!Arrive, View
  <2>2. InService \in Frames
    BY <1>3, IdleIsEmpty
  <2>3. View(queue) \in [0..TopPpc -> Seq(Frames)]
    BY <1>1, ViewType
  <2>4. CASE frame.ppc = p
    <3>1. queue'[Gate(p)] = Append(w, frame)
      BY <2>1, <2>3, <2>4, SeenAt
    <3>2. CASE InService.ppc = p
      <4>1. Accepted(p) = <<InService>> \o w
        BY <1>1, <3>2, AcceptedIs
      <4>2. Accepted(p)' = <<InService>> \o Append(w, frame)
        BY <1>1, <2>1, <3>1, <3>2, AcceptedWillBe
      <4>3. Accepted(p)' = Append(Accepted(p), frame)
        BY <1>1, <2>2, <4>1, <4>2, OneBefore
      <4>4. QED BY <2>4, <4>3 DEF FirstInFirstOut
    <3>3. CASE InService.ppc # p
      <4>1. Accepted(p)' = Append(Accepted(p), frame)
        BY <1>1, <2>1, <3>1, <3>3, AcceptedIs, AcceptedWillBe
      <4>2. QED BY <2>4, <4>1 DEF FirstInFirstOut
    <3>4. QED BY <3>2, <3>3
  <2>5. CASE frame.ppc # p
    <3>1. queue'[Gate(p)] = w
      BY <2>1, <2>3, <2>5, SeenAt
    <3>2. Accepted(p)' = Accepted(p)
      BY <2>1, <3>1 DEF Accepted
    <3>3. QED BY <3>2 DEF FirstInFirstOut
  <2>6. QED BY <2>4, <2>5
<1>4. QED BY <1>2, <1>3

\* A frame that has been sent, or was lost with the link, was the first of its
\* priority, and the next of the highest priority moves into its place.
LEMMA FinishKeepsOrder ==
  ASSUME IInv, TypeOK', Filed(queue), NEW p \in Ppcs, Server!Finish
  PROVE  FirstInFirstOut(p)
<1> DEFINE w == queue[Gate(p)]
<1>1. w \in Seq(Frames) /\ queue \in [Inputs -> Seq(Frames)] /\ queue' \in [Inputs -> Seq(Frames)]
  BY GateTurns DEF IInv, TypeOK
<1>2. InService \in Frames
  BY IdleIsEmpty DEF Server!Finish
<1>3. Accepted(p)' = w
  <2>1. CASE View(queue) = Server!Nothing /\ InService' = NoFrame /\ View(queue') = View(queue)
    <3>1. Server!Nothing[p] = <<>>
      BY SeenAt DEF Server!Nothing, Server!Priorities
    <3>2. w = <<>> /\ queue'[Gate(p)] = w
      BY <2>1, <3>1, SeenAt
    <3>3. QED BY <1>1, <2>1, <3>2, IdleIsEmpty, AcceptedWillBe
  <2>2. ASSUME NEW k \in 0..TopPpc, Server!IsHighest(k), InService' = Head(View(queue)[k]),
               View(queue') = [View(queue) EXCEPT ![k] = Tail(@)]
        PROVE  Accepted(p)' = w
    <3> DEFINE q == queue[Gate(k)]
    <3>1. q \in Seq(Frames) /\ View(queue)[k] = q /\ Gate(k) = TopPpc - k /\ Gate(k) \in Inputs
      BY <1>1, Turned DEF View
    <3>2. q # <<>>
      BY <2>2, <3>1 DEF Server!IsHighest, View
    <3>3. InService' = Head(q) /\ Head(q) \in Frames
      BY <2>2, <3>1, <3>2, FirstBefore
    <3>4. Gate(Head(q).ppc) = Gate(k)
      <4>1. 1 \in 1 .. Len(q) /\ Head(q) = q[1]
        <5>1. Len(q) \in Nat \ {0}
          BY <3>1, <3>2, EmptySeq, LenProperties
        <5>2. QED BY <3>1, <5>1
      <4>2. QED BY <3>1, <4>1 DEF Filed
    <3>5. Head(q).ppc = k
      <4>1. /\ Gate(Head(q).ppc) = TopPpc - Head(q).ppc /\ Head(q).ppc \in 0..TopPpc
            /\ TopPpc \in Nat
        BY <3>3, FrameFacts, TxPortAssumption DEF TxPortAssumption
      <4>2. QED BY <3>1, <3>4, <4>1
    <3>6. View(queue) \in [0..TopPpc -> Seq(Frames)]
      BY <1>1, ViewType
    <3>7. CASE k = p
      <4>1. queue'[Gate(p)] = Tail(w)
        BY <2>2, <3>6, <3>7, SeenAt
      <4>2. Accepted(p)' = <<Head(w)>> \o Tail(w)
        BY <1>1, <3>3, <3>5, <3>7, <4>1, AcceptedWillBe
      <4>3. QED BY <1>1, <3>2, <3>7, <4>2, FirstBefore
    <3>8. CASE k # p
      <4>1. queue'[Gate(p)] = w
        BY <2>2, <3>6, <3>8, SeenAt
      <4>2. QED BY <1>1, <3>3, <3>5, <3>8, <4>1, AcceptedWillBe
    <3>9. QED BY <3>7, <3>8
  <2>3. QED BY <2>1, <2>2 DEF Server!Finish, Server!Priorities, View
<1>4. CASE InService.ppc = p
  <2>1. <<InService>> \o w # <<>> /\ Tail(<<InService>> \o w) = w
    BY <1>1, <1>2, OneBefore
  <2>2. Accepted(p) = <<InService>> \o w
    BY <1>1, <1>4, AcceptedIs
  <2>3. Accepted(p) # <<>> /\ Tail(Accepted(p)) = w
    BY <2>1, <2>2
  <2>4. QED BY <1>3, <2>3 DEF FirstInFirstOut
<1>5. CASE InService.ppc # p
  BY <1>1, <1>3, <1>5, AcceptedIs DEF FirstInFirstOut
<1>6. QED BY <1>4, <1>5

\* Every step of the port is one of the server, and a server that stops loses
\* what it has.
LEMMA StepKeepsOrder ==
  ASSUME IInv, TypeOK', Filed(queue), [Next]_vars, NEW p \in Ppcs
  PROVE  FirstInFirstOut(p)
<1>1. \/ UNCHANGED Server!serverVars
      \/ \E frame \in Frames : Server!Arrive(frame)
      \/ Server!Finish
      \/ Server!Stop
      \/ Server!Start
  BY StepServes DEF Server!Next
<1>2. CASE UNCHANGED Server!serverVars \/ Server!Start
  <2>1. View(queue') = View(queue) /\ InService' = InService
    BY <1>2 DEF Server!serverVars, Server!Start, View
  <2>2. queue'[Gate(p)] = queue[Gate(p)]
    BY <2>1, SeenAt
  <2>3. Accepted(p)' = Accepted(p)
    BY <2>1, <2>2 DEF Accepted
  <2>4. QED BY <2>3 DEF FirstInFirstOut
<1>3. CASE Server!Stop
  <2>1. View(queue') = Server!Nothing /\ InService' = NoFrame /\ ~isOperational'
    BY <1>3 DEF Server!Stop, View
  <2>2. Server!Nothing[p] = <<>>
    BY SeenAt DEF Server!Nothing, Server!Priorities
  <2>3. queue'[Gate(p)] = <<>>
    BY <2>1, <2>2, SeenAt
  <2>4. Accepted(p)' = <<>>
    BY <2>1, <2>3, IdleIsEmpty, AcceptedWillBe DEF TypeOK
  <2>5. QED BY <2>1, <2>4 DEF FirstInFirstOut
<1>4. QED BY <1>1, <1>2, <1>3, ArriveKeepsOrder, FinishKeepsOrder

\* Within a priority the queues, the scheduler and the transmitter send frames
\* in the order the relay gave them, each once: a cut link loses the first, a
\* node that stops loses them all.
THEOREM FirstComeFirstServed == Spec => KeepsOrder
<1>1. Spec => [](IInv /\ Filed(queue))
  <2>1. Init => IInv /\ Filed(queue)
    BY InitEstablishes DEF Init, Filed
  <2>2. IInv /\ Filed(queue) /\ [Next]_vars => IInv' /\ Filed(queue)'
    <3>1. ASSUME IInv, Filed(queue), [Next]_vars PROVE Filed(queue)'
      <4>1. CASE Next
        BY <3>1, <4>1, StepOwes DEF Owes, Filed
      <4>2. CASE UNCHANGED vars
        BY <3>1, <4>2 DEF vars, Filed
      <4>3. QED BY <3>1, <4>1, <4>2
    <3>2. QED BY <3>1, StepKeeps
  <2>3. QED BY <2>1, <2>2, PTL DEF Spec
<1>2. IInv /\ Filed(queue) /\ [Next]_vars => [\A p \in Ppcs : FirstInFirstOut(p)]_vars
  <2>1. ASSUME IInv, Filed(queue), [Next]_vars, NEW p \in Ppcs PROVE FirstInFirstOut(p)
    BY <2>1, StepKeeps, StepKeepsOrder DEF IInv
  <2>2. QED BY <2>1
<1>3. QED BY <1>1, <1>2, PTL DEF Spec, KeepsOrder

-----------------------------------------------------------------------------
(***************************************************************************)
(* The theorems about what MCTxPort counts.                                 *)
(***************************************************************************)

\* The count follows what a step owes.
LEMMA CountPreserves ==
  ASSUME TypeOK', PassedInv, Owes, Count
  PROVE  PassedInv'
<1>1. ASSUME NEW p \in Ppcs
      PROVE  passed'[p] \in {0, 1} /\ Overtaken(p)'
  <2>1. passed[p] \in {0, 1} /\ p \in Int /\ Gate(p) \in Inputs
    BY GateTurns DEF PassedInv
  <2>2. passed'[p] = IF queue'[Gate(p)] = <<>> \/ Len(queue'[Gate(p)]) < Len(queue[Gate(p)])
                       THEN 0
                       ELSE IF Starts /\ curTxFrame'.ppc < p THEN passed[p] + 1 ELSE passed[p]
    BY DEF Count
  <2>3. CASE queue'[Gate(p)] = <<>> \/ Len(queue'[Gate(p)]) < Len(queue[Gate(p)])
    BY <2>2, <2>3 DEF Overtaken
  <2>4. CASE ~(queue'[Gate(p)] = <<>> \/ Len(queue'[Gate(p)]) < Len(queue[Gate(p)]))
    <3>1. CASE passed[p] = 0
      <4>1. passed'[p] \in {0, 1}
        BY <2>2, <2>4, <3>1
      <4>2. passed'[p] = 1 => transmitState' = "TRANSMITTING"
        BY <2>2, <2>4, <3>1 DEF Starts
      <4>3. QED BY <2>4, <4>1, <4>2 DEF Overtaken, NextNotBelow
    <3>2. CASE passed[p] = 1
      <4>1. queue[Gate(p)] # <<>> /\ NextNotBelow(p)
        BY <3>2 DEF PassedInv, Overtaken
      <4>2. Leads(p)
        BY <2>4, <4>1 DEF Owes, GoesOnWaiting
      <4>3. NextNotBelow(p)'
        BY <4>1, <4>2 DEF Leads
      <4>4. Starts => curTxFrame'.ppc >= p
        BY <4>1, <4>2 DEF Leads, NextNotBelow, Starts
      <4>5. curTxFrame'.ppc \in Int
        <5>1. CASE curTxFrame' = NoFrame
          BY <5>1 DEF NoFrame
        <5>2. CASE curTxFrame' \in Frames
          BY <5>2, FrameFacts
        <5>3. QED BY <5>1, <5>2 DEF TypeOK
      <4>6. ~(Starts /\ curTxFrame'.ppc < p)
        BY <2>1, <4>4, <4>5
      <4>7. passed'[p] = 1
        BY <2>2, <2>4, <3>2, <4>6
      <4>8. QED BY <2>4, <4>3, <4>7 DEF Overtaken
    <3>3. QED BY <2>1, <3>1, <3>2
  <2>5. QED BY <2>3, <2>4
<1>2. passed' \in [Ppcs -> {0, 1}]
  BY <1>1 DEF Count
<1>3. QED BY <1>1, <1>2 DEF PassedInv, Owes

\* A PAUSE is defied by a frame that is being sent, and then stored still.
DefiedInv ==
  /\ defied \in {0, 1}
  /\ defied = 1 => transmitState = "TRANSMITTING" /\ pauseUnitsRequested > 0

\* The end of that frame begins the pause, and nothing else leaves the state.
LEMMA DefyPreserves ==
  ASSUME IInv, IInv', DefiedInv, Next, Defy
  PROVE  DefiedInv'
<1>1. CASE defied = 0
  BY <1>1 DEF DefiedInv, Defy, Starts, IInv, TypeOK
<1>2. CASE defied = 1
  <2>1. transmitState = "TRANSMITTING" /\ pauseUnitsRequested > 0 /\ ~Starts
    BY <1>2 DEF DefiedInv, Starts
  <2>2. \/ transmitState' \in {"TRANSMITTING", "PAUSE"}
        \/ ~connected'
    <3>1. ~HandleEndIFGPeriod /\ ~HandleEndPausePeriod /\ connected
      BY <2>1 DEF HandleEndIFGPeriod, HandleEndPausePeriod, IInv, TimerFitsState, Link
    <3>2. CASE PassScheduler \/ ProcessFrameFromUpperLayer
      BY <2>1, <3>2
         DEF PassScheduler, ProcessFrameFromUpperLayer, Abort, transmitter
    <3>3. CASE HandleEndTxPeriod
      BY <2>1, <3>3 DEF HandleEndTxPeriod, ScheduleEndPausePeriod
    <3>4. CASE \/ \E frame \in Frames : Enqueue(frame)
               \/ \E t \in Timers : TimerFalls(t)
               \/ \E units \in Units : ProcessPauseCommand(units)
               \/ Reconnect
      BY <2>1, <3>4 DEF Enqueue, TimerFalls, ProcessPauseCommand, Reconnect, transmitter
    <3>5. CASE Disconnect \/ \E fault \in {"shutdown", "crash"} : GoDown(fault)
      BY <3>5 DEF Disconnect, GoDown, DropTransmitter
    <3>6. CASE Start
      BY <2>1, <3>6 DEF Start, transmitter
    <3>7. QED BY <3>1, <3>2, <3>3, <3>4, <3>5, <3>6 DEF Next, Step
  <2>3. pauseUnitsRequested' \in Nat
    BY DEF IInv, TypeOK
  <2>4. QED BY <1>2, <2>1, <2>2, <2>3 DEF DefiedInv, Defy
<1>3. QED BY <1>1, <1>2 DEF DefiedInv

LEMMA HistoryInvariant == MCSpec => [](IInv /\ PassedInv /\ DefiedInv)
<1>1. MCInit => IInv /\ PassedInv /\ DefiedInv
  <2>1. ASSUME MCInit PROVE PassedInv /\ DefiedInv
    BY <2>1 DEF MCInit, Init, PassedInv, Filed, Overtaken, DefiedInv
  <2>2. QED BY <2>1, InitEstablishes DEF MCInit
<1>2. ASSUME IInv, PassedInv, DefiedInv, [MCNext]_<<vars, history>>
      PROVE  IInv' /\ PassedInv' /\ DefiedInv'
  <2>1. CASE MCNext
    <3>1. IInv' /\ TypeOK'
      BY <1>2, <2>1, StepKeeps DEF MCNext, IInv
    <3>2. Owes
      BY <1>2, <2>1, StepOwes DEF MCNext, PassedInv
    <3>3. QED BY <1>2, <2>1, <3>1, <3>2, CountPreserves, DefyPreserves DEF MCNext
  <2>2. CASE UNCHANGED <<vars, history>>
    BY <1>2, <2>2, StepKeeps
       DEF vars, history, PassedInv, Filed, Overtaken, NextNotBelow, NotBelow, DefiedInv
  <2>3. QED BY <1>2, <2>1, <2>2
<1>3. QED BY <1>1, <1>2, PTL DEF MCSpec

\* A frame that waits in EtherQueue1q is passed by one frame of lower
\* priority at most: the one handleEndTxPeriod had asked for before it came.
THEOREM PassedOnce == MCSpec => []PassedAtMostOnce
<1>1. PassedInv => PassedAtMostOnce
  BY DEF PassedInv, PassedAtMostOnce
<1>2. QED BY <1>1, HistoryInvariant, PTL

\* A stored PAUSE (processPauseCommand) lets one frame begin and no second one.
THEOREM PauseObeyed == MCSpec => []PauseAfterOneFrame
<1>1. DefiedInv => PauseAfterOneFrame
  BY DEF DefiedInv, PauseAfterOneFrame
<1>2. QED BY <1>1, HistoryInvariant, PTL

=============================================================================
