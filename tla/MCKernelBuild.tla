--------------------------- MODULE MCKernelBuild ---------------------------
(* Instances of KernelBuild for TLC. *)
EXTENDS KernelBuild

\* The second commit of the upstream branch breaks the RTC patch, the third one mends
\* that and breaks the driver patch.
MCBreaking == {<<2, "rtc">>, <<3, "mts">>}
=============================================================================
