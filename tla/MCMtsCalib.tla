----------------------------- MODULE MCMtsCalib -----------------------------
(* The calibration's script on small instances of MtsCalib. *)
EXTENDS MtsCalib, MtsCalibScript

\* The script of the driver has the form the theorems about MtsCalib ask for.
ASSUME ScriptAssumption == WellFormed /\ PagesFormed
=============================================================================
