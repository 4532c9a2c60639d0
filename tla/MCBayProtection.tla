-------------------------- MODULE MCBayProtection ---------------------------
(***************************************************************************)
(* Instances of BayProtection for TLC, with the identifiers and the         *)
(* destinations of the repository's configurations.                         *)
(***************************************************************************)
EXTENDS BayProtection

\* omnetpp.ini: P&C 1, interlocking 2, command 3, unused slots 0.
MCAppID      == [n \in IedTypes |-> CASE n = "pc" -> 1 [] n = "inter" -> 2 [] n = "com" -> 3]
MCPcAppID    == [i \in 0 .. 2 |-> IF i = 0 THEN 1 ELSE 0]
MCInterAppID == [i \in 0 .. 1 |-> IF i = 0 THEN 2 ELSE 0]
MCComAppID   == [i \in 0 .. 2 |-> IF i = 0 THEN 3 ELSE 0]

\* omnetpp.ini: every IED joins the GOOSE multicast group and hears the others.
MCGroupLinks == {l \in IedTypes \X IedTypes : l[1] # l[2] /\
                   Reaction(l[2], MCAppID[l[1]], MCPcAppID, MCInterAppID, MCComAppID) # "ignore"}

=============================================================================
