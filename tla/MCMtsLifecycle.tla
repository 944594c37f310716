--------------------------- MODULE MCMtsLifecycle ---------------------------
(* Instances of MtsLifecycle for TLC. *)
EXTENDS MtsLifecycle

\* The steps of the probe that can fail.
AllFails == ProbeSteps \ {"data", "program", "mac", "master"}

\* Every one of them may fail while somebody calls the sysfs stores, with and without
\* trigger_pci.
Everything == {[ops |-> o, fails |-> AllFails] : o \in {{"rx_clean", "rmu"}, {"rx_clean", "rmu", "pci"}}}
=============================================================================
