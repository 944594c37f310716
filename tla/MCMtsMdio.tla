----------------------------- MODULE MCMtsMdio -----------------------------
(* Small instances of MtsMdio for TLC. *)
EXTENDS MtsMdio
=============================================================================
