--------------------------- MODULE MCSvPublisher ----------------------------
(***************************************************************************)
(* Instances of SvPublisher for TLC.                                        *)
(***************************************************************************)
EXTENDS SvPublisher

\* The protection setting with a stop time, in step with the sampling and out
\* of step, and the measuring setting, eight samples to a packet, for ever.
MCSettings ==
  {[send |-> 2, sample |-> 2, stop |-> 16],
   [send |-> 3, sample |-> 2, stop |-> 17],
   [send |-> 8, sample |-> 1, stop |-> -1]}

=============================================================================
