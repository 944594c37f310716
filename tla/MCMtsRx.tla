------------------------------ MODULE MCMtsRx ------------------------------
(* Small instances of MtsRx for TLC. *)
EXTENDS MtsRx

AllControllers == ControllerKinds

\* Nothing is claimed of what follows a descriptor taken by two calls at once.
NotShared == ~shared
=============================================================================
