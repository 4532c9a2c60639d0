----------------------------- MODULE MCMacRelay -----------------------------
(***************************************************************************)
(* Instances of MacRelay for TLC: a switch of three ports, VLAN 1 and       *)
(* untagged frames, and the addresses of up to three stations.              *)
(***************************************************************************)
EXTENDS MacRelay

CONSTANTS a1, a2, a3

\* Two stations of VLAN 1 in the file, as in AddrTable1.txt.
MCStatic == {<<1, a1, 0>>, <<1, a2, 2>>}

=============================================================================
