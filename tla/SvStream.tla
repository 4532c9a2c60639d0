------------------------------ MODULE SvStream ------------------------------
(***************************************************************************)
(* What a merging unit promises to its subscribers, whatever its two timers *)
(* and its restarts do: packets are counted from 0 to Rate over and over,   *)
(* none is left out, and each carries the sample that was taken for its     *)
(* own count.                                                               *)
(***************************************************************************)
EXTENDS Naturals

CONSTANTS Rate,      \* the last value of the count (samplingRate)
          None     \* nothing has been sent yet

VARIABLES count, sent

streamVars == <<count, sent>>

Following(n) == IF n = Rate THEN 0 ELSE n + 1

Init == count = 0 /\ sent = None

Send ==
  /\ sent' = [smpCnt |-> count, sample |-> count]
  /\ count' = Following(count)

Spec == Init /\ [][Send]_streamVars

=============================================================================
