------------------------------ MODULE MCTxPort ------------------------------
(***************************************************************************)
(* TxPort with two history variables: how often a waiting frame was passed, *)
(* and how many frames were sent in the face of a stored PAUSE.             *)
(***************************************************************************)
EXTENDS TxPort

VARIABLES
  passed,  \* for each priority, the frames of lower priority whose
           \* transmission began while its oldest frame waited
  defied   \* the frames whose transmission began since a PAUSE was stored

history == <<passed, defied>>

MCInit == Init /\ passed = [p \in Ppcs |-> 0] /\ defied = 0

Starts == transmitState # "TRANSMITTING" /\ transmitState' = "TRANSMITTING"

Count ==
  passed' = [p \in Ppcs |->
    LET q == Gate(p) IN
    IF queue'[q] = <<>> \/ Len(queue'[q]) < Len(queue[q]) THEN 0
    ELSE IF Starts /\ curTxFrame'.ppc < p THEN passed[p] + 1
    ELSE passed[p]]

\* A pause that begins, a PAUSE that takes the request back and a link that is
\* lost settle it.
Defy ==
  defied' = IF pauseUnitsRequested' = 0 \/ transmitState' = "PAUSE" \/ ~connected' THEN 0
            ELSE IF Starts THEN defied + 1 ELSE defied

MCNext == Next /\ Count /\ Defy

MCSpec == MCInit /\ [][MCNext]_<<vars, history>>

MCFairSpec == MCSpec /\ WF_<<vars, history>>(Kernel /\ Count /\ Defy)

\* A waiting frame is passed by at most one frame of lower priority: the one
\* handleEndTxPeriod has taken out of the queues before the gap or the pause.
PassedAtMostOnce == \A p \in Ppcs : passed[p] <= 1

\* A PAUSE frame that comes while the transmitter is busy holds it up before a
\* second frame: what processPauseCommand stores in the interframe gap, "and then
\* it'll go to PAUSE state", lets the next frame go, and handleEndTxPeriod obeys
\* it after that one, whatever other PAUSE frames, faults and frames come between.
PauseAfterOneFrame == defied <= 1

=============================================================================
