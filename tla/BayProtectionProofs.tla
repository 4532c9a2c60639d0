------------------------ MODULE BayProtectionProofs -------------------------
(***************************************************************************)
(* Theorems about the protection chain for any identifiers, links, queue    *)
(* capacity and number of events: the frames under way lead the follower,   *)
(* and the chain implements CommandChain.                                   *)
(***************************************************************************)
EXTENDS BayProtection, SequenceTheorems, TLAPS

-----------------------------------------------------------------------------
(***************************************************************************)
(* Histories of frames.                                                     *)
(***************************************************************************)

\* Counting one more change flips the parity.
LEMMA ParityFlips == \A k \in Nat : (k + 1) % 2 = 1 <=> ~(k % 2 = 1)
OBVIOUS

\* What is left of a queue after its first frame.
LEMMA TailOf ==
  ASSUME NEW q \in Seq(Frames), q # <<>>
  PROVE  /\ Tail(q) \in Seq(Frames) /\ Len(Tail(q)) = Len(q) - 1
         /\ Len(q) \in Nat \ {0} /\ Head(q) = q[1] /\ q[1] \in Frames
         /\ \A i \in 1 .. Len(Tail(q)) : Tail(q)[i] = q[i + 1]
OBVIOUS

\* Without its first frame a history still leads the follower, even one that
\* has caught up with that frame.
LEMMA LeadsTail ==
  ASSUME NEW q \in Seq(Frames), q # <<>>, NEW follower \in Nat, NEW leader \in Nat,
         Leads(q, follower, leader)
  PROVE  /\ Head(q).stNum \in Nat
         /\ follower <= Head(q).stNum /\ Head(q).stNum <= leader
         /\ Head(q).data <=> Head(q).stNum % 2 = 1
         /\ \A k \in Nat : k <= Head(q).stNum => Leads(Tail(q), k, leader)
<1>1. /\ Tail(q) \in Seq(Frames) /\ Len(Tail(q)) = Len(q) - 1
      /\ Len(q) \in Nat \ {0} /\ Head(q) = q[1] /\ q[1] \in Frames
      /\ \A i \in 1 .. Len(Tail(q)) : Tail(q)[i] = q[i + 1]
  BY TailOf
<1>2. \A i \in 1 .. Len(q) : q[i] \in Frames
  OBVIOUS
<1>3. /\ Head(q).stNum \in Nat
      /\ follower <= Head(q).stNum /\ Head(q).stNum <= leader
      /\ Head(q).data <=> Head(q).stNum % 2 = 1
  BY <1>1 DEF Leads, Frames
<1>4. ASSUME NEW k \in Nat, k <= Head(q).stNum
      PROVE  Leads(Tail(q), k, leader)
  <2>1. ASSUME NEW i \in 1 .. Len(Tail(q))
        PROVE  /\ k <= Tail(q)[i].stNum /\ Tail(q)[i].stNum <= leader
               /\ Tail(q)[i].data <=> Tail(q)[i].stNum % 2 = 1
    <3>1. i + 1 \in 1 .. Len(q) /\ 1 \in 1 .. Len(q) /\ 1 < i + 1
          /\ Tail(q)[i] = q[i + 1]
      BY <1>1
    <3>2. q[1].stNum <= q[i + 1].stNum /\ q[i + 1].stNum <= leader
          /\ (q[i + 1].data <=> q[i + 1].stNum % 2 = 1)
      BY <3>1 DEF Leads
    <3>3. q[1].stNum \in Nat /\ q[i + 1].stNum \in Nat
      BY <1>2, <3>1 DEF Frames
    <3>4. k <= q[i + 1].stNum
      BY <1>1, <1>4, <3>2, <3>3
    <3>5. QED BY <3>1, <3>2, <3>4
  <2>2. ASSUME NEW i \in 1 .. Len(Tail(q)), NEW j \in 1 .. Len(Tail(q)), i < j
        PROVE  Tail(q)[i].stNum <= Tail(q)[j].stNum
    <3>1. i + 1 \in 1 .. Len(q) /\ j + 1 \in 1 .. Len(q) /\ i + 1 < j + 1
      BY <1>1, <2>2
    <3>2. q[i + 1].stNum <= q[j + 1].stNum
      BY <3>1 DEF Leads
    <3>3. QED BY <1>1, <3>2
  <2>3. k <= leader
    BY <1>3, <1>4
  <2>4. QED BY <2>1, <2>2, <2>3 DEF Leads
<1>5. QED BY <1>3, <1>4

\* The leader's present state may join the history, or be dropped.
LEMMA LeadsEnqueue ==
  ASSUME NEW q \in Seq(Frames), NEW follower \in Nat, NEW leader \in Nat,
         Leads(q, follower, leader),
         NEW f \in Frames, leader <= f.stNum, f.data <=> f.stNum % 2 = 1
  PROVE  Leads(Enqueue(q, f), follower, f.stNum)
<1> DEFINE r == Append(q, f)
<1>1. /\ Len(r) = Len(q) + 1 /\ r[Len(q) + 1] = f /\ Len(q) \in Nat
      /\ \A i \in 1 .. Len(q) : r[i] = q[i] /\ q[i] \in Frames
      /\ f.stNum \in Nat
  <2>1. /\ Len(r) = Len(q) + 1 /\ r[Len(q) + 1] = f /\ Len(q) \in Nat
        /\ \A i \in 1 .. Len(q) : r[i] = q[i]
    OBVIOUS
  <2>2. \A i \in 1 .. Len(q) : q[i] \in Frames
    OBVIOUS
  <2>3. f.stNum \in Nat
    BY DEF Frames
  <2>4. QED BY <2>1, <2>2, <2>3
<1>2. ASSUME NEW i \in 1 .. Len(q)
      PROVE  /\ follower <= q[i].stNum /\ q[i].stNum <= f.stNum
             /\ q[i].data <=> q[i].stNum % 2 = 1
  <2>1. q[i].stNum \in Nat
    BY <1>1 DEF Frames
  <2>2. /\ follower <= q[i].stNum /\ q[i].stNum <= leader
        /\ q[i].data <=> q[i].stNum % 2 = 1
    BY DEF Leads
  <2>3. QED BY <1>1, <2>1, <2>2
<1>3. follower <= f.stNum
  BY <1>1 DEF Leads
<1>4. \A i, j \in 1 .. Len(q) : i < j => q[i].stNum <= q[j].stNum
  BY DEF Leads
<1>5. Leads(q, follower, f.stNum)
  BY <1>2, <1>3, <1>4 DEF Leads
<1>6. Leads(r, follower, f.stNum)
  <2> HIDE DEF r
  <2>1. \A i \in 1 .. Len(r) : i \in 1 .. Len(q) \/ i = Len(q) + 1
    BY <1>1
  <2>2. \A i \in 1 .. Len(r) :
          /\ follower <= r[i].stNum /\ r[i].stNum <= f.stNum
          /\ r[i].data <=> r[i].stNum % 2 = 1
    BY <1>1, <1>2, <1>3, <2>1
  <2>3. ASSUME NEW i \in 1 .. Len(r), NEW j \in 1 .. Len(r), i < j
        PROVE  r[i].stNum <= r[j].stNum
    <3>1. i \in 1 .. Len(q)
      BY <1>1, <2>3
    <3>2. CASE j = Len(q) + 1
      BY <1>1, <2>2, <3>2
    <3>3. CASE j \in 1 .. Len(q)
      BY <1>1, <1>4, <2>3, <3>1, <3>3
    <3>4. QED BY <2>1, <3>2, <3>3
  <2>4. QED BY <1>3, <2>2, <2>3 DEF Leads
<1>7. QED BY <1>5, <1>6 DEF Enqueue

-----------------------------------------------------------------------------
(***************************************************************************)
(* The inductive invariant, and the step every action is made of: some      *)
(* queues have lost their first frame, and one IED publishes its state.     *)
(***************************************************************************)
IInv == TypeOK /\ StateIsParity /\ FramesLeadFollower

\* The queues an IED finds when it publishes: well-formed, within their
\* capacity, and leading followers that may have caught up with one frame.
Ready(queues, count) ==
  /\ queues \in [Links -> Seq(Frames)]
  /\ \A l \in Links : Len(queues[l]) <= Capacity
  /\ \A l \in CommandLinks : Leads(queues[l], count[l[2]], changes[l[1]])

\* A frame that joins a queue leaves it a queue, within its capacity.
LEMMA EnqueueType ==
  ASSUME NEW q \in Seq(Frames), Len(q) <= Capacity, NEW f \in Frames
  PROVE  Enqueue(q, f) \in Seq(Frames) /\ Len(Enqueue(q, f)) <= Capacity
<1>1. Append(q, f) \in Seq(Frames) /\ Len(Append(q, f)) = Len(q) + 1 /\ Len(q) \in Nat
  OBVIOUS
<1>2. Capacity \in Nat
  BY BayAssumption DEF BayAssumption
<1>3. CASE Len(q) < Capacity
  <2>1. Enqueue(q, f) = Append(q, f)
    BY <1>3 DEF Enqueue
  <2>2. Len(Append(q, f)) <= Capacity
    BY <1>1, <1>2, <1>3
  <2>3. QED BY <1>1, <2>1, <2>2
<1>4. CASE ~(Len(q) < Capacity)
  BY <1>4 DEF Enqueue
<1>5. QED BY <1>3, <1>4

\* Publishing keeps the invariant.
LEMMA PublishKeeps ==
  ASSUME NEW n \in Ieds, NEW queues, Ready(queues, changes'),
         TypeOK, StateIsParity, Publish(n, queues),
         \/ UNCHANGED <<alarm, changes>>
         \/ /\ alarm' = [alarm EXCEPT ![n] = ~@]
            /\ changes' = [changes EXCEPT ![n] = @ + 1]
  PROVE  IInv'
<1> DEFINE f == [data |-> alarm'[n], stNum |-> changes'[n]]
<1>1. alarm \in [Ieds -> BOOLEAN] /\ changes \in [Ieds -> Nat]
  BY DEF TypeOK
<1>2. alarm' \in [Ieds -> BOOLEAN] /\ changes' \in [Ieds -> Nat]
  <2>1. CASE UNCHANGED <<alarm, changes>>
    BY <1>1, <2>1
  <2>2. CASE /\ alarm' = [alarm EXCEPT ![n] = ~@]
             /\ changes' = [changes EXCEPT ![n] = @ + 1]
    <3>1. [alarm EXCEPT ![n] = ~@] \in [Ieds -> BOOLEAN]
      BY <1>1
    <3>2. [changes EXCEPT ![n] = @ + 1] \in [Ieds -> Nat]
      BY <1>1
    <3>3. QED BY <2>2, <3>1, <3>2
  <2>3. QED BY <2>1, <2>2
<1>3. StateIsParity'
  <2>1. CASE UNCHANGED <<alarm, changes>>
    BY <2>1 DEF StateIsParity
  <2>2. CASE /\ alarm' = [alarm EXCEPT ![n] = ~@]
             /\ changes' = [changes EXCEPT ![n] = @ + 1]
    <3>1. ASSUME NEW m \in Ieds
          PROVE  alarm'[m] <=> changes'[m] % 2 = 1
      <4>1. CASE m = n
        <5>1. changes'[n] = changes[n] + 1 /\ changes[n] \in Nat
              /\ alarm'[n] = ~alarm[n]
          BY <1>1, <2>2
        <5>2. alarm[n] <=> changes[n] % 2 = 1
          BY DEF StateIsParity
        <5>3. (changes[n] + 1) % 2 = 1 <=> ~(changes[n] % 2 = 1)
          BY <5>1, ParityFlips
        <5>4. QED BY <4>1, <5>1, <5>2, <5>3
      <4>2. CASE m # n
        BY <1>1, <2>2, <4>2 DEF StateIsParity
      <4>3. QED BY <4>1, <4>2
    <3>2. QED BY <3>1 DEF StateIsParity
  <2>3. QED BY <2>1, <2>2
<1>4. f \in Frames /\ (f.data <=> f.stNum % 2 = 1)
  BY <1>2, <1>3 DEF Frames, StateIsParity
<1>5. \A m \in Ieds : changes[m] <= changes'[m] /\ (m # n => changes'[m] = changes[m])
  BY <1>1
<1>6. /\ queue' = [l \in Links |-> IF l[1] = n THEN Enqueue(queues[l], f) ELSE queues[l]]
      /\ queues \in [Links -> Seq(Frames)]
      /\ \A l \in Links : Len(queues[l]) <= Capacity
      /\ \A l \in CommandLinks : Leads(queues[l], changes'[l[2]], changes[l[1]])
  BY DEF Publish, Ready
<1> HIDE DEF f
<1>7. ASSUME NEW l \in Links
      PROVE  queue'[l] \in Seq(Frames) /\ Len(queue'[l]) <= Capacity
  <2>1. CASE l[1] = n
    BY <1>4, <1>6, <2>1, EnqueueType
  <2>2. CASE l[1] # n
    BY <1>6, <2>2
  <2>3. QED BY <2>1, <2>2
<1>8. ASSUME NEW l \in CommandLinks
      PROVE  Leads(queue'[l], changes'[l[2]], changes'[l[1]])
  <2>1. l \in Links /\ l[1] \in Ieds /\ l[2] \in Ieds
    BY BayAssumption DEF BayAssumption, CommandLinks
  <2>2. CASE l[1] = n
    <3>1. f.stNum = changes'[n]
      BY DEF f
    <3>2. Leads(Enqueue(queues[l], f), changes'[l[2]], f.stNum)
      BY <1>1, <1>2, <1>4, <1>5, <1>6, <2>1, <2>2, <3>1, LeadsEnqueue
    <3>3. QED BY <1>6, <2>1, <2>2, <3>1, <3>2
  <2>3. CASE l[1] # n
    BY <1>5, <1>6, <2>1, <2>3
  <2>4. QED BY <2>2, <2>3
<1>9. TypeOK'
  BY <1>2, <1>6, <1>7 DEF TypeOK
<1>10. FramesLeadFollower'
  BY <1>8 DEF FramesLeadFollower, CommandLinks
<1>11. QED BY <1>3, <1>9, <1>10 DEF IInv

-----------------------------------------------------------------------------
(***************************************************************************)
(* The actions.                                                             *)
(***************************************************************************)

\* The links, and what their subscribers do.
LEMMA LinkFacts ==
  ASSUME NEW l \in Links
  PROVE  /\ l[1] \in Ieds /\ l[2] \in Ieds
         /\ Answer(l) = "change" => l \in CommandLinks
         /\ \A m \in CommandLinks : l \in CommandLinks /\ m # l => m[2] # l[2]
         /\ \A m \in CommandLinks : m \in Links
BY BayAssumption DEF BayAssumption, CommandLinks

\* A publisher that changes by itself finds the queues ready: its own change
\* raises only what it leads.
LEMMA QueuesReady ==
  ASSUME IInv
  PROVE  Ready(queue, changes)
BY DEF IInv, TypeOK, FramesLeadFollower, Ready

\* Taking a frame off a link leaves the queues ready for whatever its
\* subscriber publishes, also when the frame makes the subscriber change.
LEMMA PoppedReady ==
  ASSUME IInv, NEW link \in Links, queue[link] # <<>>
  PROVE  /\ Ready(Popped(link), changes)
         /\ link \in CommandLinks /\ Head(queue[link]).data # alarm[link[2]] =>
              /\ changes[link[2]] < changes[link[1]]
              /\ Ready(Popped(link), [changes EXCEPT ![link[2]] = @ + 1])
<1>1. /\ alarm \in [Ieds -> BOOLEAN] /\ changes \in [Ieds -> Nat]
      /\ queue \in [Links -> Seq(Frames)] /\ \A l \in Links : Len(queue[l]) <= Capacity
  BY DEF IInv, TypeOK
<1>2. /\ Tail(queue[link]) \in Seq(Frames)
      /\ Len(Tail(queue[link])) = Len(queue[link]) - 1 /\ Len(queue[link]) \in Nat
  BY <1>1, TailOf
<1>3. Capacity \in Nat
  BY BayAssumption DEF BayAssumption
<1>4. /\ Popped(link) \in [Links -> Seq(Frames)]
      /\ Popped(link)[link] = Tail(queue[link])
      /\ \A l \in Links : l # link => Popped(link)[l] = queue[l]
  BY <1>1, <1>2 DEF Popped
<1>5. ASSUME NEW l \in Links
      PROVE  Len(Popped(link)[l]) <= Capacity
  <2>1. Len(queue[link]) <= Capacity /\ Len(queue[l]) <= Capacity
    BY <1>1
  <2>2. Len(Tail(queue[link])) <= Capacity
    BY <1>2, <1>3, <2>1
  <2>3. CASE l = link
    BY <1>4, <2>2, <2>3
  <2>4. CASE l # link
    BY <1>4, <2>1, <2>4
  <2>5. QED BY <2>3, <2>4
<1>6. \A l \in CommandLinks : Leads(queue[l], changes[l[2]], changes[l[1]])
  BY DEF IInv, FramesLeadFollower
<1>7. changes[link[1]] \in Nat /\ changes[link[2]] \in Nat
  BY <1>1, LinkFacts
<1>8. ASSUME link \in CommandLinks
      PROVE  /\ Head(queue[link]).stNum \in Nat
             /\ changes[link[2]] <= Head(queue[link]).stNum
             /\ Head(queue[link]).stNum <= changes[link[1]]
             /\ Head(queue[link]).data <=> Head(queue[link]).stNum % 2 = 1
             /\ \A k \in Nat : k <= Head(queue[link]).stNum =>
                               Leads(Tail(queue[link]), k, changes[link[1]])
  <2>1. Leads(queue[link], changes[link[2]], changes[link[1]])
    BY <1>6, <1>8
  <2>2. queue[link] \in Seq(Frames)
    BY <1>1
  <2>3. QED BY <1>7, <2>1, <2>2, LeadsTail
<1>9. Ready(Popped(link), changes)
  <2>1. ASSUME NEW l \in CommandLinks
        PROVE  Leads(Popped(link)[l], changes[l[2]], changes[l[1]])
    <3>1. CASE l = link
      BY <1>4, <1>7, <1>8, <3>1
    <3>2. CASE l # link
      BY <1>4, <1>6, <3>2 DEF CommandLinks
    <3>3. QED BY <3>1, <3>2
  <2>2. QED BY <1>4, <1>5, <2>1 DEF Ready
<1>10. ASSUME link \in CommandLinks, Head(queue[link]).data # alarm[link[2]]
       PROVE  /\ changes[link[2]] < changes[link[1]]
              /\ Ready(Popped(link), [changes EXCEPT ![link[2]] = @ + 1])
  <2> DEFINE count == [changes EXCEPT ![link[2]] = @ + 1]
  <2>1. link[2] \in Ieds
    BY LinkFacts
  <2>2. alarm[link[2]] <=> changes[link[2]] % 2 = 1
    BY <2>1 DEF IInv, StateIsParity
  <2>3. changes[link[2]] # Head(queue[link]).stNum
    <3>1. alarm[link[2]] \in BOOLEAN
      BY <1>1, <2>1
    <3>2. Head(queue[link]).data \in BOOLEAN
      <4>1. queue[link] \in Seq(Frames)
        BY <1>1
      <4>2. Head(queue[link]) \in Frames
        BY <4>1, TailOf
      <4>3. QED BY <4>2 DEF Frames
    <3>3. SUFFICES ASSUME changes[link[2]] = Head(queue[link]).stNum PROVE FALSE
      OBVIOUS
    <3>4. Head(queue[link]).data <=> alarm[link[2]]
      BY <1>8, <1>10, <2>2, <3>3
    <3>5. QED BY <1>10, <3>1, <3>2, <3>4
  <2>4. changes[link[2]] + 1 <= Head(queue[link]).stNum /\ changes[link[2]] + 1 \in Nat
    BY <1>7, <1>8, <1>10, <2>3
  <2>5. changes[link[2]] < changes[link[1]]
    BY <1>7, <1>8, <1>10, <2>4
  <2>6. count[link[2]] = changes[link[2]] + 1
        /\ \A m \in Ieds : m # link[2] => count[m] = changes[m]
    BY <1>1, <2>1
  <2> HIDE DEF count
  <2>7. ASSUME NEW l \in CommandLinks
        PROVE  Leads(Popped(link)[l], count[l[2]], changes[l[1]])
    <3>1. CASE l = link
      BY <1>4, <1>8, <1>10, <2>4, <2>6, <3>1
    <3>2. CASE l # link
      <4>1. l \in Links /\ l[2] \in Ieds /\ l[2] # link[2]
        BY <1>10, <3>2, LinkFacts DEF CommandLinks
      <4>2. QED BY <1>4, <1>6, <2>6, <3>2, <4>1
    <3>3. QED BY <3>1, <3>2
  <2>8. Ready(Popped(link), count)
    BY <1>4, <1>5, <2>7 DEF Ready
  <2>9. QED BY <2>5, <2>8 DEF count
<1>11. QED BY <1>9, <1>10

\* An action either changes nobody and keeps the invariant, or is a change
\* that the abstract chain allows.
LEMMA StepKeeps ==
  ASSUME IInv, [Next]_vars
  PROVE  IInv' /\ [Chain!Next]_(Chain!chainVars)
<1> USE DEF Chain!chainVars
<1>1. /\ alarm \in [Ieds -> BOOLEAN] /\ changes \in [Ieds -> Nat]
      /\ "pc" \in Ieds /\ "inter" \in Ieds /\ "com" \in Ieds
      /\ TypeOK /\ StateIsParity
  BY DEF IInv, TypeOK, Ieds, IedTypes
<1>2. CASE DetectEvent
  <2>1. /\ alarm' = [alarm EXCEPT !["pc"] = ~@]
        /\ changes' = [changes EXCEPT !["pc"] = @ + 1]
        /\ Publish("pc", queue)
    BY <1>2 DEF DetectEvent, SetAlarmState
  <2>2. Ready(queue, changes')
    <3>1. Ready(queue, changes)
      BY QueuesReady
    <3>2. \A l \in CommandLinks : changes'[l[2]] = changes[l[2]]
      BY <1>1, <2>1 DEF CommandLinks
    <3>3. QED BY <3>1, <3>2 DEF Ready
  <2>3. IInv'
    BY <1>1, <2>1, <2>2, PublishKeeps
  <2>4. Chain!Command
    BY <1>1, <2>1 DEF Chain!Command
  <2>5. QED BY <2>3, <2>4 DEF Chain!Next
<1>3. ASSUME NEW n \in Ieds, Heartbeat(n)
      PROVE  IInv' /\ UNCHANGED changes
  <2>1. UNCHANGED <<alarm, changes>> /\ Publish(n, queue)
    BY <1>3 DEF Heartbeat, Repeat
  <2>2. Ready(queue, changes')
    BY <2>1, QueuesReady
  <2>3. QED BY <1>1, <2>1, <2>2, PublishKeeps
<1>4. ASSUME NEW link \in Links, queue[link] # <<>>, queue' = Popped(link),
             UNCHANGED <<alarm, changes>>
      PROVE  IInv'
  <2>1. Ready(queue', changes)
    BY <1>4, PoppedReady
  <2>2. QED BY <1>1, <1>4, <2>1
            DEF IInv, TypeOK, StateIsParity, FramesLeadFollower, Ready, CommandLinks
<1>5. ASSUME NEW link \in Links, Deliver(link)
      PROVE  IInv' /\ [Chain!Next]_(Chain!chainVars)
  <2>1. link[1] \in Ieds /\ link[2] \in Ieds /\ queue[link] # <<>>
    BY <1>5, LinkFacts DEF Deliver
  <2>2. CASE queue' = Popped(link) /\ UNCHANGED <<alarm, changes>>
    BY <1>4, <2>1, <2>2
  <2>3. CASE Repeat(link[2], Popped(link))
    <3>1. UNCHANGED <<alarm, changes>> /\ Publish(link[2], Popped(link))
      BY <2>3 DEF Repeat
    <3>2. Ready(Popped(link), changes')
      BY <2>1, <3>1, PoppedReady
    <3>3. QED BY <1>1, <2>1, <3>1, <3>2, PublishKeeps
  <2>4. CASE /\ Head(queue[link]).data # alarm[link[2]] /\ Answer(link) = "change"
             /\ SetAlarmState(link[2], Popped(link))
    <3>1. link \in CommandLinks
      BY <2>4, LinkFacts
    <3>2. /\ alarm' = [alarm EXCEPT ![link[2]] = ~@]
          /\ changes' = [changes EXCEPT ![link[2]] = @ + 1]
          /\ Publish(link[2], Popped(link))
      BY <2>4 DEF SetAlarmState
    <3>3. changes[link[2]] < changes[link[1]] /\ Ready(Popped(link), changes')
      BY <2>1, <2>4, <3>1, <3>2, PoppedReady
    <3>4. IInv'
      BY <1>1, <2>1, <3>2, <3>3, PublishKeeps
    <3>5. CASE link = <<"pc", "inter">>
      <4>1. changes["inter"] < changes["pc"]
            /\ changes' = [changes EXCEPT !["inter"] = @ + 1]
        BY <3>2, <3>3, <3>5
      <4>2. Chain!Interlock
        BY <1>1, <4>1 DEF Chain!Interlock
      <4>3. QED BY <3>4, <4>2 DEF Chain!Next
    <3>6. CASE link = <<"inter", "com">>
      <4>1. changes["com"] < changes["inter"]
            /\ changes' = [changes EXCEPT !["com"] = @ + 1]
        BY <3>2, <3>3, <3>6
      <4>2. Chain!Operate
        BY <1>1, <4>1 DEF Chain!Operate
      <4>3. QED BY <3>4, <4>2 DEF Chain!Next
    <3>7. QED BY <3>1, <3>5, <3>6 DEF CommandLinks
  <2>5. QED BY <1>5, <2>2, <2>3, <2>4 DEF Deliver
<1>6. ASSUME NEW link \in Links, Lose(link)
      PROVE  IInv' /\ UNCHANGED changes
  BY <1>4, <1>6 DEF Lose
<1>7. CASE UNCHANGED vars
  BY <1>7 DEF vars, IInv, TypeOK, StateIsParity, FramesLeadFollower, CommandLinks
<1>8. QED BY <1>2, <1>3, <1>5, <1>6, <1>7 DEF Next

\* The chain starts quiet, with nothing under way.
LEMMA InitEstablishes == Init => IInv /\ Chain!Init
<1> SUFFICES ASSUME Init PROVE IInv /\ Chain!Init
  OBVIOUS
<1>1. Capacity \in Nat /\ "pc" \in Ieds /\ "inter" \in Ieds /\ "com" \in Ieds
  BY BayAssumption DEF BayAssumption, Ieds, IedTypes
<1>2. TypeOK
  BY <1>1 DEF Init, TypeOK
<1>3. StateIsParity
  BY DEF Init, StateIsParity
<1>4. FramesLeadFollower
  <2>1. ASSUME NEW l \in CommandLinks
        PROVE  Leads(queue[l], changes[l[2]], changes[l[1]])
    <3>1. queue[l] = <<>> /\ changes[l[1]] = 0 /\ changes[l[2]] = 0
      BY LinkFacts DEF Init, CommandLinks
    <3>2. QED BY <3>1 DEF Leads
  <2>2. QED BY <2>1 DEF FramesLeadFollower
<1>5. Chain!Init
  BY <1>1 DEF Init, Chain!Init
<1>6. QED BY <1>2, <1>3, <1>4, <1>5 DEF IInv

\* The inductive invariant holds throughout.
LEMMA InvariantHolds == Spec => []IInv
<1>1. IInv /\ [Next]_vars => IInv'
  BY StepKeeps
<1>2. QED BY InitEstablishes, <1>1, PTL DEF Spec

(***************************************************************************)
(* Frames under way always lead the IED they command, and states are told   *)
(* apart by their numbers, in a chain of any size of queues and any number  *)
(* of events.                                                               *)
(***************************************************************************)
THEOREM HistoriesLead == Spec => [](TypeOK /\ StateIsParity /\ FramesLeadFollower)
<1>1. Init => IInv
  BY InitEstablishes
<1>2. IInv /\ [Next]_vars => IInv'
  BY StepKeeps
<1>3. IInv => TypeOK /\ StateIsParity /\ FramesLeadFollower
  BY DEF IInv
<1>4. QED BY <1>1, <1>2, <1>3, PTL DEF Spec

\* The state of each IED of the chain, its state number and the frames in
\* the queues have their types, whatever is lost or dropped by a full queue.
THEOREM TypeCorrect == Spec => []TypeOK
<1>1. QED BY HistoriesLead, PTL

\* Two IEDs with equal state numbers are in the same state: setAlarmState
\* toggles, and receivePacket compares states and never numbers.
THEOREM NumberTellsState == Spec => []StateIsParity
<1>1. QED BY HistoriesLead, PTL

(***************************************************************************)
(* The protection chain implements CommandChain: the breaker is never       *)
(* operated without a command, whatever is lost and however stale the       *)
(* frames under way are.                                                    *)
(***************************************************************************)
THEOREM NeverSpurious == Spec => NoSpuriousOperation
<1>1. Init => IInv /\ Chain!Init
  BY InitEstablishes
<1>2. IInv /\ [Next]_vars => IInv' /\ [Chain!Next]_(Chain!chainVars)
  BY StepKeeps
<1>3. QED BY <1>1, <1>2, PTL DEF Spec, NoSpuriousOperation, Chain!Spec

(***************************************************************************)
(* The breaker is operated no more often than the interlocking IED asked    *)
(* for it, that no more often than the P&C IED commanded, and that no more  *)
(* often than an event was detected: no repetition, stale frame or answer   *)
(* of receivePacket adds an operation.                                      *)
(***************************************************************************)
EveryChangeHasACause ==
  /\ changes["com"] <= changes["inter"]
  /\ changes["inter"] <= changes["pc"]
  /\ changes["pc"] <= MaxEvents

THEOREM OperationsBounded == Spec => []EveryChangeHasACause
<1>1. Init => EveryChangeHasACause
  BY BayAssumption DEF BayAssumption, Init, EveryChangeHasACause, Ieds, IedTypes
<1>2. ASSUME IInv, EveryChangeHasACause, [Next]_vars
      PROVE  EveryChangeHasACause'
  <2>1. changes \in [Ieds -> Nat] /\ "pc" \in Ieds /\ "inter" \in Ieds /\ "com" \in Ieds
    BY <1>2 DEF IInv, TypeOK, Ieds, IedTypes
  <2>2. changes["pc"] \in Nat /\ changes["inter"] \in Nat /\ changes["com"] \in Nat
        /\ MaxEvents \in Nat
    BY <2>1, BayAssumption DEF BayAssumption
  <2>3. [Chain!Next]_(Chain!chainVars)
    BY <1>2, StepKeeps
  <2>4. changes'["pc"] <= MaxEvents
    <3>1. CASE DetectEvent
      BY <2>1, <2>2, <3>1 DEF DetectEvent, SetAlarmState
    <3>2. CASE UNCHANGED vars
      BY <1>2, <3>2 DEF vars, EveryChangeHasACause
    <3>3. CASE \E n \in Ieds : Heartbeat(n)
      BY <1>2, <3>3 DEF Heartbeat, Repeat, EveryChangeHasACause
    <3>4. ASSUME NEW link \in Links, Deliver(link) \/ Lose(link)
          PROVE  changes'["pc"] <= MaxEvents
      <4>1. CASE UNCHANGED changes
        BY <1>2, <4>1 DEF EveryChangeHasACause
      <4>2. CASE Answer(link) = "change" /\ SetAlarmState(link[2], Popped(link))
        <5>1. link[2] # "pc" /\ link[2] \in Ieds
          BY <4>2, LinkFacts DEF CommandLinks
        <5>2. changes'["pc"] = changes["pc"]
          BY <2>1, <4>2, <5>1 DEF SetAlarmState
        <5>3. QED BY <1>2, <5>2 DEF EveryChangeHasACause
      <4>3. QED BY <3>4, <4>1, <4>2 DEF Deliver, Lose, Repeat
    <3>5. QED BY <1>2, <3>1, <3>2, <3>3, <3>4 DEF Next
  <2>5. changes'["com"] <= changes'["inter"] /\ changes'["inter"] <= changes'["pc"]
    <3>1. CASE UNCHANGED Chain!chainVars
      BY <1>2, <3>1 DEF Chain!chainVars, EveryChangeHasACause
    <3>2. CASE Chain!Next
      BY <1>2, <2>2, <3>2
         DEF Chain!Next, Chain!Command, Chain!Interlock, Chain!Operate, EveryChangeHasACause
    <3>3. QED BY <2>3, <3>1, <3>2
  <2>6. QED BY <2>4, <2>5 DEF EveryChangeHasACause
<1>3. QED BY <1>1, <1>2, InvariantHolds, PTL DEF Spec

-----------------------------------------------------------------------------
(***************************************************************************)
(* Agreement.  When all IEDs are in one state and every frame under way     *)
(* tells it, no frame makes anybody change or answer, so nothing but a new  *)
(* event ends the agreement, whatever the timers and the network do.        *)
(***************************************************************************)
Tells(q, state) == \A i \in 1 .. Len(q) : q[i].data = state

\* Taking a frame off a queue that tells one state, and adding one more.
LEMMA TellsTail ==
  ASSUME NEW q \in Seq(Frames), q # <<>>, NEW state, Tells(q, state)
  PROVE  Tells(Tail(q), state) /\ Head(q).data = state
<1>1. /\ Len(Tail(q)) = Len(q) - 1 /\ Len(q) \in Nat \ {0} /\ Head(q) = q[1]
      /\ \A i \in 1 .. Len(Tail(q)) : Tail(q)[i] = q[i + 1]
  BY TailOf
<1>2. ASSUME NEW i \in 1 .. Len(Tail(q))
      PROVE  Tail(q)[i].data = state
  <2>1. i + 1 \in 1 .. Len(q) /\ Tail(q)[i] = q[i + 1]
    BY <1>1
  <2>2. QED BY <2>1 DEF Tells
<1>3. q[1].data = state
  BY <1>1 DEF Tells
<1>4. QED BY <1>1, <1>2, <1>3 DEF Tells

LEMMA TellsEnqueue ==
  ASSUME NEW q \in Seq(Frames), NEW f, NEW state, Tells(q, state), f.data = state
  PROVE  Tells(Enqueue(q, f), state)
<1> DEFINE r == Append(q, f)
<1>1. /\ Len(r) = Len(q) + 1 /\ r[Len(q) + 1] = f /\ Len(q) \in Nat
      /\ \A i \in 1 .. Len(q) : r[i] = q[i]
  OBVIOUS
<1>2. Tells(r, state)
  <2> HIDE DEF r
  <2>1. \A i \in 1 .. Len(r) : i \in 1 .. Len(q) \/ i = Len(q) + 1
    BY <1>1
  <2>2. QED BY <1>1, <2>1 DEF Tells
<1>3. QED BY <1>2 DEF Enqueue

\* An IED that repeats the agreed state leaves the agreement.
LEMMA RepeatAgrees ==
  ASSUME Agreed, NEW n \in Ieds, Repeat(n, queue), TypeOK
  PROVE  Agreed'
<1>1. UNCHANGED alarm /\ alarm[n] = alarm["pc"]
  BY DEF Repeat, Agreed
<1>2. ASSUME NEW l \in Links
      PROVE  Tells(queue'[l], alarm["pc"])
  <2>1. queue[l] \in Seq(Frames) /\ Tells(queue[l], alarm["pc"])
    BY DEF TypeOK, Agreed, Tells
  <2>2. Tells(Enqueue(queue[l], [data |-> alarm'[n], stNum |-> changes'[n]]), alarm["pc"])
    BY <1>1, <2>1, TellsEnqueue
  <2>3. QED BY <2>1, <2>2 DEF Repeat, Publish
<1>3. QED BY <1>1, <1>2 DEF Agreed, Tells

\* Without a new event an agreement stays, and no delivery is answered.
LEMMA AgreedStep ==
  ASSUME IInv, Agreed, [Next]_vars
  PROVE  NobodyAnswers /\ (~DetectEvent => Agreed')
<1>1. TypeOK /\ queue \in [Links -> Seq(Frames)]
  BY DEF IInv, TypeOK
<1>2. ASSUME NEW link \in Links, queue[link] # <<>>
      PROVE  Head(queue[link]).data = alarm[link[2]] /\ Tells(Tail(queue[link]), alarm["pc"])
  <2>1. queue[link] \in Seq(Frames) /\ Tells(queue[link], alarm["pc"])
    BY <1>1 DEF Agreed, Tells
  <2>2. alarm[link[2]] = alarm["pc"]
    BY LinkFacts DEF Agreed
  <2>3. QED BY <1>2, <2>1, <2>2, TellsTail
<1>3. ASSUME NEW link \in Links, Deliver(link)
      PROVE  queue' = Popped(link) /\ UNCHANGED alarm /\ queue[link] # <<>>
  BY <1>2, <1>3 DEF Deliver
<1>4. ASSUME NEW link \in Links, queue[link] # <<>>, queue' = Popped(link), UNCHANGED alarm
      PROVE  Agreed'
  <2>1. ASSUME NEW l \in Links
        PROVE  Tells(queue'[l], alarm["pc"])
    <3>1. CASE l = link
      BY <1>1, <1>2, <1>4, <3>1 DEF Popped
    <3>2. CASE l # link
      BY <1>1, <1>4, <3>2 DEF Popped, Agreed, Tells
    <3>3. QED BY <3>1, <3>2
  <2>2. QED BY <1>4, <2>1 DEF Agreed, Tells
<1>5. NobodyAnswers
  BY <1>3 DEF NobodyAnswers
<1>6. ASSUME ~DetectEvent PROVE Agreed'
  <2>1. CASE UNCHANGED vars
    BY <2>1 DEF vars, Agreed
  <2>2. CASE \E n \in Ieds : Heartbeat(n)
    BY <1>1, <2>2, RepeatAgrees DEF Heartbeat
  <2>3. CASE \E link \in Links : Deliver(link) \/ Lose(link)
    BY <1>3, <1>4, <2>3 DEF Lose
  <2>4. QED BY <1>6, <2>1, <2>2, <2>3 DEF Next
<1>7. QED BY <1>5, <1>6

\* An agreement of the three IEDs ends with a new event only: no loss, no
\* heartbeat, no late frame that receivePacket handles disturbs it.
THEOREM AgreementStays == Spec => [][Agreed /\ ~DetectEvent => Agreed']_vars
<1>1. IInv /\ [Next]_vars => [Agreed /\ ~DetectEvent => Agreed']_vars
  BY AgreedStep
<1>2. QED BY <1>1, InvariantHolds, PTL DEF Spec

\* An IED of an agreed bay is never made to publish by a frame: sendPacket is
\* called by the timers alone.
THEOREM AgreementIsQuiet == Spec => [][Agreed => NobodyAnswers]_vars
<1>1. IInv /\ [Next]_vars => [Agreed => NobodyAnswers]_vars
  BY AgreedStep
<1>2. QED BY <1>1, InvariantHolds, PTL DEF Spec

\* The two promises of the chain are not independent: where the breaker
\* follows for good, no frame is answered for ever.
THEOREM FollowingEndsStorms == Spec /\ BreakerFollows => StormsEnd
<1>1. QED BY AgreementIsQuiet, PTL DEF BreakerFollows, StormsEnd

\* Once the IEDs agree and no event is detected any more, the breaker has
\* followed for good and the storms of answers are over: what fairness has to
\* provide is one instant of agreement.
THEOREM OnceAgreedSettled ==
  Spec /\ <>(Agreed /\ [][~DetectEvent]_vars) => BreakerFollows /\ StormsEnd
<1>1. IInv /\ Agreed /\ [Next]_vars /\ [~DetectEvent]_vars => Agreed'
  <2>1. Agreed /\ UNCHANGED vars => Agreed'
    BY DEF vars, Agreed
  <2>2. QED BY <2>1, AgreedStep
<1>2. Spec /\ <>(Agreed /\ [][~DetectEvent]_vars) => BreakerFollows
  BY <1>1, InvariantHolds, PTL DEF Spec, BreakerFollows
<1>3. QED BY <1>2, FollowingEndsStorms, PTL

=============================================================================
