------------------------------ MODULE MCMtsLink ------------------------------
(* Instances of MtsLink for TLC. *)
EXTENDS MtsLink

\* Link down, and up in two modes.
DownUpUp == {[up |-> FALSE, mode |-> 1], [up |-> TRUE, mode |-> 1], [up |-> TRUE, mode |-> 2]}
DownUp == {[up |-> FALSE, mode |-> 1], [up |-> TRUE, mode |-> 1]}
=============================================================================
