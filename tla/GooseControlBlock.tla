------------------------- MODULE GooseControlBlock -------------------------
(***************************************************************************)
(* What a GOOSE publisher promises to its subscribers, whatever its timers, *)
(* bursts, start and stop times and restarts do: a change of state is       *)
(* published in the very step in which it happens, under a new state        *)
(* number; anything else that is published repeats the present state under  *)
(* its number; and every publication takes the next sequence number.        *)
(***************************************************************************)
EXTENDS Integers

CONSTANTS First, Last,  \* a counter that has reached Last goes on with First
          None          \* nothing has been published yet

VARIABLES state, stNum, sqNum, published

cbVars == <<state, stNum, sqNum, published>>

Init ==
  /\ state = FALSE /\ stNum = 1 /\ sqNum = 0
  /\ published = None

After(n) == IF n = Last THEN First ELSE n + 1

Publish ==
  /\ sqNum' = After(sqNum)
  /\ published' = [data |-> state', stNum |-> stNum', sqNum |-> sqNum']

Change ==
  /\ state' = ~state
  /\ stNum' = After(stNum)
  /\ Publish

Repeat ==
  /\ UNCHANGED <<state, stNum>>
  /\ Publish

Next == Change \/ Repeat

Spec == Init /\ [][Next]_cbVars

=============================================================================
