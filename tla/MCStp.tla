------------------------------- MODULE MCStp --------------------------------
(***************************************************************************)
(* Networks for Stp: the smallest with a spare link, and the smallest where *)
(* two bridges may wait for each other after the root is gone.              *)
(***************************************************************************)
EXTENDS Stp

Triangle == {{1, 2}, {1, 3}, {2, 3}}
Square   == {{1, 2}, {1, 3}, {2, 4}, {3, 4}}
=============================================================================
