----------------------------- MODULE MCLocalCdp -----------------------------
(***************************************************************************)
(* LocalCdp for TLC: three jobs of the two providers, two faults, aborts   *)
(* or losses, three tabs and two connections.                              *)
(***************************************************************************)
EXTENDS LocalCdp
=============================================================================
