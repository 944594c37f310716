---------------------------- MODULE MCBootDeploy ----------------------------
(* Instance of BootDeploy for TLC. *)
EXTENDS BootDeploy, TLC

TagSymmetry == Permutations(Tags)
=============================================================================
