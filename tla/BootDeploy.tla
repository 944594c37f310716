----------------------------- MODULE BootDeploy -----------------------------
(***************************************************************************)
(* distros/arch_minimal_v2/deploy-boot-7.0.sh: it puts the kernel, the     *)
(* bootargs and the initramfs of a tag from boot_referencia on the BOOT    *)
(* partition, keeps the bootargs that were there under the tag that was    *)
(* active, compares what it wrote with its sources and unmounts the disk.  *)
(* It may fail or be interrupted at every step.  Builds and a developer    *)
(* change boot_referencia at the same time; of the builds the script sees  *)
(* what BootRef says.                                                      *)
(***************************************************************************)
EXTENDS BootRef, Sequences

CONSTANTS
  Versions,    \* texts of a file the developer writes
  MaxWrites,   \* bound: files the developer writes
  MaxDeploys   \* bound: runs of the script

ASSUME DeployAssumption == Versions # {} /\ MaxWrites \in Nat /\ MaxDeploys \in Nat \ {0}

Order == <<"kernel", "args", "initrd">>    \* bzImage, bootargs.txt, initramfs.cpio.gz
Files == {"kernel", "args", "initrd"}
Tiny == <<"tiny">>  \* a file too small to be real

\* bootargs-7.0-<tag>.txt and initramfs-7.0-<tag>.cpio.gz, in a version of that tag's.
Texts == {"args", "initrd"}
Text(t, v) == <<t, v>>

\* What a copy that is cut short leaves of file f: next to nothing, or a part that is
\* still its tag's.
Parts(f, c) == IF f = "kernel" THEN {Torn} ELSE {Tiny, <<c[1]>>}

\* The bootargs of a tag, or a part of them.
ArgsOf(t) == {None, Tiny, <<t>>} \cup {Text(t, v) : v \in Versions}

VARIABLES
  texts,       \* the two texts of every tag in boot_referencia
  writes,      \* how often one of them was written
  mounted,     \* the BOOT partition is mounted
  hd,          \* its three files
  old,         \* it has kernels under names of their own
  saved,       \* bootargs-7.0-<tag>.txt on it
  active,      \* active-tag.txt; NoTag when it is missing or empty
  dpc, dtag,   \* the run of the script
  at,          \* the file of Order it is at
  differ,      \* FAIL: a comparison failed
  reported,    \* the tag of the last run, once it has said that the tag is active
  deploys,     \* runs so far
  seen,        \* history: what each source was since the run began
  spoiled      \* history: tags that were active when a run stopped between the copy of
               \*   the bootargs and active-tag.txt, or in that copy

disk == <<mounted, hd, old, saved, active>>
run == <<dpc, dtag, at, differ, reported, deploys>>
dvars == <<disk, run, seen, spoiled>>
vars == <<refVars, texts, writes, dvars>>

\* The file of a tag in boot_referencia.
Source(t, f) == IF f = "kernel" THEN kernels[t] ELSE texts[t][f]

Init ==
  /\ RefInit /\ writes = 0
  /\ \E v \in Versions : texts = [t \in Tags |-> [f \in Texts |-> Text(t, v)]]
  /\ mounted = TRUE /\ old \in BOOLEAN
  /\ hd = [f \in Files |-> None] /\ saved = [t \in Tags |-> None] /\ active = NoTag
  /\ dpc = "idle" /\ dtag \in Tags /\ at = 1 /\ differ = FALSE
  /\ reported = NoTag /\ deploys = 0
  /\ seen = [f \in Files |-> {}] /\ spoiled = {}

-----------------------------------------------------------------------------
Step(p) == dpc' = p /\ UNCHANGED <<dtag, at, differ, reported, deploys, spoiled>>
Stop == Step("idle")

\* The bootargs are the new ones already and active-tag.txt is still the old one.
Between == (dpc = "copy" /\ at > 2) \/ dpc = "tag"

\* The run ends early; what it copied stays, bootargs that are not the active tag's
\* perhaps among it.
Cut(foreign) ==
  /\ dpc' = "idle"
  /\ spoiled' = IF foreign THEN spoiled \cup {active} ELSE spoiled
  /\ UNCHANGED <<dtag, at, differ, reported, deploys>>

\* The tag has its three files, none is implausibly small, the partition is mounted
\* and large enough; otherwise the script exits and nothing has changed.
StartDeploy(t) ==
  /\ dpc = "idle" /\ deploys < MaxDeploys /\ mounted
  /\ \A f \in Files : Source(t, f) \notin {None, Tiny}
  /\ dpc' = "purge" /\ dtag' = t /\ at' = 1 /\ differ' = FALSE
  /\ reported' = NoTag /\ deploys' = deploys + 1
  /\ UNCHANGED <<disk, spoiled>>

\* rm -f of the kernels under names of their own.
Purge ==
  /\ dpc = "purge"
  /\ old' = FALSE
  /\ Step("save")
  /\ UNCHANGED <<mounted, hd, saved, active>>

\* Mutant: bootargs kept under the tag that is being deployed.
SaveUnderNewTag ==
  /\ dpc = "save"
  /\ IF active # NoTag /\ hd["args"] # None
     THEN saved' = [saved EXCEPT ![dtag] = hd["args"]] /\ Step("copy")
     ELSE UNCHANGED saved /\ Step("copy")
  /\ UNCHANGED <<mounted, hd, old, active>>

\* cp of bootargs.txt to the name of the tag that was active.
Save ==
  /\ dpc = "save"
  /\ IF active # NoTag /\ hd["args"] # None
     THEN \/ saved' = [saved EXCEPT ![active] = hd["args"]] /\ Step("copy")
          \/ (\E c \in Parts("args", hd["args"]) : saved' = [saved EXCEPT ![active] = c]) /\ Stop
     ELSE UNCHANGED saved /\ Step("copy")
  /\ UNCHANGED <<mounted, hd, old, active>>

\* cp of the next file: whole, cut short without an error, or failed.
Copy ==
  /\ dpc = "copy"
  /\ \/ /\ \E c \in {Source(dtag, Order[at])} \cup Parts(Order[at], Source(dtag, Order[at])) :
             hd' = [hd EXCEPT ![Order[at]] = c]
        /\ dpc' = IF at = Len(Order) THEN "tag" ELSE "copy"
        /\ at' = (at % Len(Order)) + 1
        /\ UNCHANGED <<dtag, differ, reported, deploys, spoiled>>
     \/ /\ \E c \in Parts(Order[at], Source(dtag, Order[at])) : hd' = [hd EXCEPT ![Order[at]] = c]
        /\ Cut(at >= 2)
  /\ UNCHANGED <<mounted, old, saved, active>>

\* vram.txt, bootlog.txt and active-tag.txt; a failure may leave the last one empty.
WriteTag ==
  /\ dpc = "tag"
  /\ \/ active' = dtag /\ Step("md5")
     \/ active' = NoTag /\ Stop
  /\ UNCHANGED <<mounted, hd, old, saved>>

\* md5sum of the two files; two that are cut short may be cut at the same byte.
Same(c, d) == IF c # d THEN {FALSE} ELSE IF Len(c) = 1 THEN BOOLEAN ELSE {TRUE}

\* Mutant: check_md5 of the initramfs left out.
CheckTwo ==
  /\ dpc = "md5"
  /\ \E same \in Same(Source(dtag, Order[at]), hd[Order[at]]) : differ' = (differ \/ ~same)
  /\ IF at < 2 THEN dpc' = "md5" /\ at' = at + 1
     ELSE dpc' = "report" /\ at' = 1
  /\ UNCHANGED <<dtag, reported, deploys, spoiled, disk>>

\* check_md5 of the next file.
Check ==
  /\ dpc = "md5"
  /\ \E same \in Same(Source(dtag, Order[at]), hd[Order[at]]) : differ' = (differ \/ ~same)
  /\ dpc' = IF at = Len(Order) THEN "report" ELSE "md5"
  /\ at' = (at % Len(Order)) + 1
  /\ UNCHANGED <<dtag, reported, deploys, spoiled, disk>>

\* The script says that the tag is active, or not to test.
Report ==
  /\ dpc = "report"
  /\ reported' = IF differ THEN NoTag ELSE dtag
  /\ dpc' = IF differ THEN "idle" ELSE "umount"
  /\ UNCHANGED <<dtag, at, differ, deploys, spoiled, disk>>

\* umount of the partitions of that disk, BOOT last; one may be busy.
Unmount ==
  /\ dpc = "umount"
  /\ mounted' \in BOOLEAN
  /\ Stop
  /\ UNCHANGED <<hd, old, saved, active>>

\* Ctrl-C, the cable, an I/O error.
Abort ==
  /\ dpc # "idle"
  /\ Cut(Between)
  /\ UNCHANGED disk

\* The disk is attached again.
Mount ==
  /\ ~mounted
  /\ mounted' = TRUE
  /\ UNCHANGED <<hd, old, saved, active, run, spoiled>>

Deploy ==
  \/ \E t \in Tags : StartDeploy(t)
  \/ Purge \/ Save \/ Copy \/ WriteTag \/ Check \/ Report \/ Unmount \/ Abort \/ Mount

-----------------------------------------------------------------------------
(* boot_referencia. *)

\* What the developer may put in a file of a tag: a version of its own, for an initramfs
\* also a copy of another tag's, or next to nothing.
Drafts(t, f) ==
  {Tiny} \cup {Text(u, v) : u \in (IF f = "args" THEN {t} ELSE Tags), v \in Versions}

\* The developer writes the bootargs or the initramfs of a tag.
Write(t, f) ==
  /\ writes < MaxWrites /\ writes' = writes + 1
  /\ \E c \in Drafts(t, f) : c # texts[t][f] /\ texts' = [texts EXCEPT ![t][f] = c]
  /\ UNCHANGED <<refVars, disk, run, spoiled>>

\* What the source files were since the run began, until it reports; a new run begins
\* with nothing seen.
Record ==
  seen' = [f \in Files |->
             IF reported' # NoTag THEN seen[f]
             ELSE IF dpc' = "idle" THEN {}
             ELSE (IF dpc = "idle" THEN {} ELSE seen[f]) \cup {Source(dtag, f)'}]

Next ==
  /\ \/ RefNext /\ UNCHANGED <<texts, writes, disk, run, spoiled>>
     \/ \E t \in Tags, f \in Texts : Write(t, f)
     \/ Deploy /\ UNCHANGED <<refVars, texts, writes>>
  /\ Record

Spec == Init /\ [][Next]_vars

-----------------------------------------------------------------------------
DeployTypeOK ==
  /\ active \in Tags \cup {NoTag} /\ reported \in Tags \cup {NoTag} /\ dtag \in Tags
  /\ dpc \in {"idle", "purge", "save", "copy", "tag", "md5", "report", "umount"}
  /\ at \in 1..3 /\ differ \in BOOLEAN /\ old \in BOOLEAN
  /\ DOMAIN hd = Files /\ DOMAIN saved = Tags /\ DOMAIN seen = Files
  /\ DOMAIN texts = Tags /\ \A t \in Tags : DOMAIN texts[t] = Texts

\* When the script has said that a tag is active, that tag is in active-tag.txt, no
\* other kernel takes up space, and each of the three files is what that tag's file
\* was at some time since this run began, whatever copies were cut short silently and
\* whatever builds and edits went on.
DeployedMatches ==
  reported # NoTag =>
    /\ active = reported /\ ~old
    /\ \A f \in Files : hd[f] \in seen[f]

\* The bootargs kept on the partition under a tag are that tag's, and so are the
\* parts of them a failed copy leaves, except for a tag that was active when a run
\* stopped in the copy of the bootargs, or between it and active-tag.txt.
HistoryTrue == \A t \in Tags \ spoiled : saved[t] \in ArgsOf(t)

-----------------------------------------------------------------------------
(* The inductive strengthening of both. *)

\* Whose bootargs bootargs.txt and the sources are.
ArgsInv ==
  /\ \A t \in Tags : texts[t]["args"] \in ArgsOf(t) \ {None}
  /\ Between => hd["args"] \in ArgsOf(dtag)
  /\ ~Between => \A t \in Tags \ spoiled : active = t => hd["args"] \in ArgsOf(t)

\* What a run knows on its way: every comparison so far was with a source it has seen.
RunInv ==
  /\ dpc \in {"purge", "save", "tag"} => at = 1
  /\ dpc \notin {"idle", "umount"} => reported = NoTag
  /\ dpc = "umount" => reported = dtag
  /\ dpc \notin {"idle", "umount"} => \A f \in Files : Source(dtag, f) \in seen[f]
  /\ dpc \in {"save", "copy", "tag", "md5", "report"} => ~old
  /\ dpc \in {"md5", "report"} => active = dtag
  /\ dpc = "md5" /\ ~differ => \A j \in 1..(at - 1) : hd[Order[j]] \in seen[Order[j]]
  /\ dpc = "report" /\ ~differ => \A f \in Files : hd[f] \in seen[f]

DeployInv == DeployTypeOK /\ ArgsInv /\ RunInv /\ HistoryTrue /\ DeployedMatches
=============================================================================
