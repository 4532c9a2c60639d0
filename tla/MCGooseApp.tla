----------------------------- MODULE MCGooseApp -----------------------------
(***************************************************************************)
(* Instances of GooseApp for TLC.  Identifiers are those of the Bay network *)
(* (TestInet/src/omnetpp.ini): 1 the P&C IED, 2 the interlocking IED, 3 the *)
(* command IED; unused slots hold the default 0; 9 is a stranger.           *)
(***************************************************************************)
EXTENDS GooseApp

MCIds(first) == [i \in 0 .. 2 |-> IF i = 0 THEN first ELSE 0]

MCPc    == MCIds(1)
MCInter == [i \in 0 .. 1 |-> IF i = 0 THEN 2 ELSE 0]
MCCom   == MCIds(3)
MCStopTimes == {-1, 20}   \* never, and within a burst that a late event starts

=============================================================================
