------------------------------ MODULE BootRef ------------------------------
(***************************************************************************)
(* What the builds promise about the kernels in boot_referencia, one file  *)
(* per tag: a kernel is written in place, by one build at a time, and once *)
(* it is written to its end it is a whole kernel, newer than every other.  *)
(* KernelBuild implements this; BootDeploy relies on it.                   *)
(***************************************************************************)
EXTENDS BootFiles

VARIABLES
  kernels,    \* bzImage-7.0-<tag>
  writing     \* the tag whose kernel is being written

refVars == <<kernels, writing>>

RefInit == kernels = [t \in Tags |-> None] /\ writing = NoTag

RefBegin(t) ==
  /\ writing = NoTag
  /\ kernels' = [kernels EXCEPT ![t] = Torn] /\ writing' = t

RefEnd ==
  /\ writing # NoTag
  /\ \E n \in 1..MaxBuilds :
       /\ \A t \in Tags, m \in n..MaxBuilds : kernels[t] # <<"kernel", m>>
       /\ kernels' = [kernels EXCEPT ![writing] = <<"kernel", n>>]
  /\ writing' = NoTag

\* The build stops while it writes.
RefCut == writing # NoTag /\ writing' = NoTag /\ UNCHANGED kernels

RefNext == (\E t \in Tags : RefBegin(t)) \/ RefEnd \/ RefCut

RefSpec == RefInit /\ [][RefNext]_refVars
=============================================================================
