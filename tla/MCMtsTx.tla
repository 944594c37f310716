------------------------------ MODULE MCMtsTx ------------------------------
(* Small instances of MtsTx for TLC. *)
EXTENDS MtsTx

CONSTANTS s1, s2, t1
=============================================================================
