--------------------------- MODULE BayProtection ----------------------------
(***************************************************************************)
(* The GOOSE protection chain of a bay (networks Bay and T1_1 of redes.ned): *)
(* the P&C IED, the interlocking IED and the command IED, each running an   *)
(* EtherAppGoose, exchanging GOOSE frames through the switch.               *)
(*                                                                          *)
(* Each IED is the abstract publisher that GooseApp implements: a change is *)
(* published at once, and the present state is repeated for ever.  The      *)
(* network is a FIFO queue per publisher and subscriber, because a          *)
(* publisher uses one priority and one path: frames may be lost, because a  *)
(* full DropTailQueue drops what arrives or because of a bit error, but     *)
(* they are neither reordered nor duplicated.  Links on which the           *)
(* subscriber ignores the publisher are left out, as what is delivered      *)
(* there changes nothing.                                                   *)
(***************************************************************************)
EXTENDS GooseRole, Sequences

CONSTANTS
  AppID,                          \* parameter myAppID of each IED
  PcAppID, InterAppID, ComAppID,  \* parameters of the same names
  Links,                          \* who hears whom: pairs <<publisher, subscriber>>
  Capacity,                       \* frames a queue holds (frameCapacity)
  MaxEvents                       \* bound on the events the P&C IED detects

Ieds == IedTypes

\* What the subscriber of a link does with a frame that differs from its
\* own state.
Answer(link) == Reaction(link[2], AppID[link[1]], PcAppID, InterAppID, ComAppID)

ASSUME BayAssumption ==
  /\ Links \subseteq Ieds \X Ieds
  /\ Capacity \in Nat \ {0} /\ MaxEvents \in Nat
  /\ \A l \in Links :
       Answer(l) = IF l \in {<<"pc", "inter">>, <<"inter", "com">>}
                   THEN "change" ELSE "repeat"

VARIABLES
  alarm,      \* alarmState of each IED
  changes,    \* changes of alarmState so far: stChng - 1
  queue       \* frames on their way, per link

vars == <<alarm, changes, queue>>

Frames == [data : BOOLEAN, stNum : Nat]

Init ==
  /\ alarm = [n \in Ieds |-> FALSE]
  /\ changes = [n \in Ieds |-> 0]
  /\ queue = [l \in Links |-> <<>>]

-----------------------------------------------------------------------------

\* A slip of the bound of the queue, and the queue: DropTailQueue::enqueue.
EnqueueOneMore(q, frame) == IF Len(q) <= Capacity THEN Append(q, frame) ELSE q
Enqueue(q, frame) == IF Len(q) < Capacity THEN Append(q, frame) ELSE q

\* IED n sends its (new) state to all that hear it; queues is what the queues
\* hold before.
Publish(n, queues) ==
  queue' = [l \in Links |->
    IF l[1] = n THEN Enqueue(queues[l], [data |-> alarm'[n], stNum |-> changes'[n]])
                ELSE queues[l]]

Popped(link) == [queue EXCEPT ![link] = Tail(@)]

\* setAlarmState() of IED n.
SetAlarmState(n, queues) ==
  /\ alarm' = [alarm EXCEPT ![n] = ~@]
  /\ changes' = [changes EXCEPT ![n] = @ + 1]
  /\ Publish(n, queues)

Repeat(n, queues) ==
  /\ UNCHANGED <<alarm, changes>>
  /\ Publish(n, queues)

-----------------------------------------------------------------------------

\* The sampled-value subscriber of the P&C IED detects the beginning or the
\* end of an abnormal situation.
DetectEvent ==
  /\ changes["pc"] < MaxEvents
  /\ SetAlarmState("pc", queue)

\* The retransmission timer of IED n fires.
Heartbeat(n) == Repeat(n, queue)

\* A slip of receivePacket: the test that the states differ is dropped.
DeliverAlways(link) ==
  /\ queue[link] # <<>>
  /\ \/ Answer(link) = "change" /\ Head(queue[link]).data # alarm[link[2]]
        /\ SetAlarmState(link[2], Popped(link))
     \/ Answer(link) = "change" /\ Head(queue[link]).data = alarm[link[2]]
        /\ Repeat(link[2], Popped(link))
     \/ Answer(link) = "repeat" /\ Repeat(link[2], Popped(link))

\* A slip of the mapping of identifiers: the interlocking IED takes the
\* report of the command IED for a command.
DeliverComCommands(link) ==
  /\ queue[link] # <<>>
  /\ \/ /\ Head(queue[link]).data = alarm[link[2]]
        /\ queue' = Popped(link)
        /\ UNCHANGED <<alarm, changes>>
     \/ /\ Head(queue[link]).data # alarm[link[2]]
        /\ IF link[2] = "pc" THEN Repeat(link[2], Popped(link))
                             ELSE SetAlarmState(link[2], Popped(link))

\* A slip of the command IED: it repeats its state instead of following.
DeliverComRepeats(link) ==
  /\ queue[link] # <<>>
  /\ \/ /\ Head(queue[link]).data = alarm[link[2]]
        /\ queue' = Popped(link)
        /\ UNCHANGED <<alarm, changes>>
     \/ /\ Head(queue[link]).data # alarm[link[2]]
        /\ IF link[2] = "inter" /\ Answer(link) = "change"
           THEN SetAlarmState(link[2], Popped(link))
           ELSE Repeat(link[2], Popped(link))

\* receivePacket: a frame that tells the IED's own state is consumed; one
\* that differs is followed, or answered with the IED's own state.
Deliver(link) ==
  /\ queue[link] # <<>>
  /\ \/ /\ Head(queue[link]).data = alarm[link[2]]
        /\ queue' = Popped(link)
        /\ UNCHANGED <<alarm, changes>>
     \/ /\ Head(queue[link]).data # alarm[link[2]]
        /\ Answer(link) = "change"
        /\ SetAlarmState(link[2], Popped(link))
     \/ /\ Head(queue[link]).data # alarm[link[2]]
        /\ Answer(link) = "repeat"
        /\ Repeat(link[2], Popped(link))

\* A frame is received with a bit error and dropped by the MAC.
Lose(link) ==
  /\ queue[link] # <<>>
  /\ queue' = Popped(link)
  /\ UNCHANGED <<alarm, changes>>

Next ==
  \/ DetectEvent
  \/ \E n \in Ieds : Heartbeat(n)
  \/ \E link \in Links : Deliver(link) \/ Lose(link)

Spec == Init /\ [][Next]_vars

\* Timers fire for ever (HeartbeatForever of GooseApp); a network that is
\* offered frames on a link for ever does not lose all of them.
FairSpec ==
  /\ Spec
  /\ \A n \in Ieds : WF_vars(Heartbeat(n))
  /\ \A link \in Links : SF_vars(Deliver(link))

-----------------------------------------------------------------------------
(***************************************************************************)
(* Properties.                                                              *)
(***************************************************************************)

TypeOK ==
  /\ alarm \in [Ieds -> BOOLEAN]
  /\ changes \in [Ieds -> Nat]
  /\ queue \in [Links -> Seq(Frames)]
  /\ \A l \in Links : Len(queue[l]) <= Capacity

(***************************************************************************)
(* On the links that carry commands, the frames under way form a history    *)
(* the subscriber is still to catch up with: their state numbers rise from  *)
(* at least the subscriber's own count to at most the publisher's, and each *)
(* tells the state that goes with its number.  receivePacket compares only  *)
(* states, never numbers, so this is what makes following by states sound.  *)
(***************************************************************************)
CommandLinks == Links \cap {<<"pc", "inter">>, <<"inter", "com">>}

Leads(q, follower, leader) ==
  /\ follower <= leader
  /\ \A i \in 1 .. Len(q) :
       /\ follower <= q[i].stNum /\ q[i].stNum <= leader
       /\ q[i].data <=> q[i].stNum % 2 = 1
  /\ \A i, j \in 1 .. Len(q) : i < j => q[i].stNum <= q[j].stNum

FramesLeadFollower ==
  \A l \in CommandLinks : Leads(queue[l], changes[l[2]], changes[l[1]])

\* alarmState is the parity of the number of changes, in every IED.
StateIsParity == \A n \in Ieds : alarm[n] <=> changes[n] % 2 = 1

(***************************************************************************)
(* The chain implements CommandChain: through losses, crossing repetitions  *)
(* and stale frames no IED changes more often than the one it follows, so   *)
(* the breaker is never operated without a command.                         *)
(***************************************************************************)
Chain == INSTANCE CommandChain
           WITH commanded <- changes["pc"], interlocked <- changes["inter"],
                operated <- changes["com"]

NoSpuriousOperation == Chain!Spec

(***************************************************************************)
(* Once the P&C IED detects nothing new (MaxEvents is reached at the        *)
(* latest), the interlocking and the command IED come to its state and stay *)
(* there, whatever was lost: no frame under way tells another state any     *)
(* more.                                                                    *)
(***************************************************************************)
Agreed ==
  /\ \A n \in Ieds : alarm[n] = alarm["pc"]
  /\ \A l \in Links : \A i \in 1 .. Len(queue[l]) : queue[l][i].data = alarm["pc"]

BreakerFollows == <>[]Agreed

(***************************************************************************)
(* The bursts that frames provoke die out: after some instant no frame      *)
(* makes anybody publish, and only the timers send.  Every differing frame  *)
(* is answered at burst rate, so stale frames crossing each other could     *)
(* have kept the answers going.                                             *)
(***************************************************************************)
NobodyAnswers == \A link \in Links : Deliver(link) => queue' = Popped(link)

StormsEnd == <>[][NobodyAnswers]_vars

=============================================================================
