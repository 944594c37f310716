----------------------------- MODULE BootFiles -----------------------------
(* The files of boot_referencia, which builds write and deployments read. *)
EXTENDS Naturals

CONSTANTS
  Tags,        \* names of build variants
  MaxBuilds    \* bound: builds

NoTag == "no tag"
None == <<>>          \* there is no such file
Torn == <<"torn">>    \* it was not written to its end

ASSUME FilesAssumption == MaxBuilds \in Nat \ {0} /\ NoTag \notin Tags
=============================================================================
