--------------------------- MODULE PriorityServer ----------------------------
(***************************************************************************)
(* What the transmitting side of a port promises to the relay: a server     *)
(* with strict priorities.  It never rests while a frame waits, takes the   *)
(* longest waiting frame of the highest priority when it has finished one,  *)
(* never reorders, repeats or invents frames, and drops an arrival only     *)
(* when the queue of its priority is full, so never while it is idle.       *)
(***************************************************************************)
EXTENDS Integers, Sequences

CONSTANTS TopPpc, Frames, Capacity, None

VARIABLES
  waiting,  \* for each priority, the frames that wait
  current,  \* the frame in service, or None
  up

serverVars == <<waiting, current, up>>

Priorities == 0 .. TopPpc

Nothing == [p \in Priorities |-> <<>>]

HasRoom(p) == Capacity = 0 \/ Len(waiting[p]) < Capacity

Init == waiting = Nothing /\ current = None /\ up = TRUE

\* An idle server takes the frame at once.
Arrive(frame) ==
  /\ up
  /\ \/ /\ current = None
        /\ current' = frame /\ UNCHANGED waiting
     \/ /\ current # None /\ HasRoom(frame.ppc)
        /\ waiting' = [waiting EXCEPT ![frame.ppc] = Append(@, frame)]
        /\ UNCHANGED current
  /\ UNCHANGED up

IsHighest(p) == waiting[p] # <<>> /\ \A q \in Priorities : waiting[q] # <<>> => q <= p

\* The frame in service has been sent, or was lost with the link.
Finish ==
  /\ current # None
  /\ \/ /\ waiting = Nothing
        /\ current' = None /\ UNCHANGED waiting
     \/ \E p \in Priorities :
          /\ IsHighest(p)
          /\ current' = Head(waiting[p])
          /\ waiting' = [waiting EXCEPT ![p] = Tail(@)]
  /\ UNCHANGED up

Stop ==
  /\ up /\ up' = FALSE
  /\ waiting' = Nothing /\ current' = None

Start ==
  /\ ~up /\ up' = TRUE
  /\ UNCHANGED <<waiting, current>>

Next ==
  \/ \E frame \in Frames : Arrive(frame)
  \/ Finish
  \/ Stop
  \/ Start

Spec == Init /\ [][Next]_serverVars

=============================================================================
