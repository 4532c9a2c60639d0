----------------------------- MODULE GooseRole -----------------------------
(***************************************************************************)
(* What EtherAppGoose::receivePacket does with a GOOSE frame, as a          *)
(* function of the kind of IED (parameter iedType) and of the application   *)
(* identifiers it is configured to listen to.  The same decision is used by *)
(* the single publisher (GooseApp) and by the protection chain of a bay     *)
(* (BayProtection).                                                         *)
(***************************************************************************)
EXTENDS Integers, FiniteSetsExt

\* The values of parameter iedType that receivePacket compares with.
IedTypes == {"pc", "inter", "com"}

\* The slots of a list of configured identifiers that hold frmAppID; the
\* loops of receivePacket stop at the first.
Slots(frmAppID, ids) == {i \in DOMAIN ids : ids[i] = frmAppID}

(***************************************************************************)
(* The reaction to a frame of application frmAppID whose data differs from  *)
(* the IED's own state: toggle the state (setAlarmState), repeat the state  *)
(* at the burst rate, or nothing.  Loop index i of the interlocking IED     *)
(* tests pcAppID[i] before comAppID[i], so the smallest index wins, and     *)
(* pcAppID wins a tie.                                                      *)
(***************************************************************************)
Reaction(iedType, frmAppID, pcAppID, interAppID, comAppID) ==
  LET fromPc    == Slots(frmAppID, pcAppID)
      fromCom   == Slots(frmAppID, comAppID)
      fromInter == Slots(frmAppID, interAppID)
  IN  CASE iedType = "inter" /\ fromPc \cup fromCom # {} ->
             IF Min(fromPc \cup fromCom) \in fromPc THEN "change" ELSE "repeat"
        [] iedType = "com" /\ fromInter # {} -> "change"
        [] iedType = "pc" /\ fromInter # {} -> "repeat"
        [] OTHER -> "ignore"

=============================================================================
