---------------------------- MODULE CommandChain ----------------------------
(***************************************************************************)
(* What the protection chain of a bay promises: the interlocking IED        *)
(* changes the state it asks of the breaker only in answer to a change      *)
(* commanded by the P&C IED, and the command IED operates the breaker only  *)
(* in answer to the interlocking IED, each at most once per change.         *)
(***************************************************************************)
EXTENDS Naturals

VARIABLES commanded, interlocked, operated  \* changes made so far by each

chainVars == <<commanded, interlocked, operated>>

Init == commanded = 0 /\ interlocked = 0 /\ operated = 0

Command ==
  /\ commanded' = commanded + 1
  /\ UNCHANGED <<interlocked, operated>>

Interlock ==
  /\ interlocked < commanded
  /\ interlocked' = interlocked + 1
  /\ UNCHANGED <<commanded, operated>>

Operate ==
  /\ operated < interlocked
  /\ operated' = operated + 1
  /\ UNCHANGED <<commanded, interlocked>>

Next == Command \/ Interlock \/ Operate

Spec == Init /\ [][Next]_chainVars

=============================================================================
