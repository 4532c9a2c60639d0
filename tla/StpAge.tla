------------------------------- MODULE StpAge -------------------------------
(***************************************************************************)
(* Stp with a watch that tells how many ticks ago the last command was.     *)
(***************************************************************************)
EXTENDS MCStp

CONSTANT MaxCalm  \* bound: the watch stops here

VARIABLE calm     \* ticks since the last command

AgeInit == Init /\ calm = 0

\* Without a command, a step between quiet states is a tick.
AgeNext ==
  /\ Next
  /\ calm' = CASE faults' # faults -> 0
               [] Quiet /\ faults' = faults -> Min({calm + 1, MaxCalm})
               [] OTHER -> calm

AgeSpec == AgeInit /\ [][AgeNext]_<<vars, calm>>

\* The age in a port's data "is conveyed to enable a switch to discard information
\* whose age exceeds Max Age" (Ieee8021dInterfaceData.h), so no bridge believes in
\* a root that has been gone for twice that time.
OldNewsDiscarded ==
  calm > 2 * MaxAge => \A b \in Bridges : Up(b) => Up(bridge[b].root)
=============================================================================
