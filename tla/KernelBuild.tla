---------------------------- MODULE KernelBuild ----------------------------
(***************************************************************************)
(* The kernel build, distros/arch_minimal_v2/00-build-kernel-7.0.sh: it    *)
(* brings a git work tree up to date, puts the patches of patches/ into it *)
(* without committing them, copies the GBE driver over it, compiles, and   *)
(* publishes the bzImage under a tag in boot_referencia.  The script stops *)
(* at the first command that fails and may be interrupted anywhere; the    *)
(* work tree stays as it then is, and the next run starts from there.      *)
(*                                                                         *)
(* A patch changes files git tracks and, except for the AHCI patch, adds   *)
(* files of its own, which git does not track.  Between runs a developer   *)
(* edits the tree and takes the changes back, never during a run.          *)
(***************************************************************************)
EXTENDS BootFiles, FiniteSets

CONSTANTS
  Breaking,    \* <<c, p>>: patch p does not apply to commit c of the upstream branch
  MaxCommit,   \* bound: commits of the upstream branch
  Cleanups     \* how the developer takes changes back: "tracked" (git checkout -- .),
               \*   "all" (git clean as well)

Patches == {"ahci", "icc", "mts", "rtc"}
Adding == {"icc", "mts", "rtc"}

ASSUME BuildAssumption ==
  /\ Breaking \subseteq (1..MaxCommit) \X Patches
  /\ MaxCommit \in Nat \ {0}
  /\ Cleanups \subseteq {"tracked", "all"}

VARIABLES
  upstream,         \* the newest commit
  cloned, head,     \* the work tree exists, on commit head
  vmlinux,          \* .config and vmlinux are there, on the right branch
  work,             \* the developer has uncommitted work in tracked files of the kernel
  inplace, files,   \* the patches whose changes, whose own files are in the tree
  sony,             \* mts.c in the tree: missing, of the patch, of drivers_mts, of an older drivers_mts
  bpc, btag,        \* the run of the script
  built,            \* boot_referencia: the kernel of every tag
  builds            \* runs so far

tree == <<cloned, head, vmlinux, work, inplace, files, sony>>
bvars == <<upstream, cloned, head, vmlinux, work, inplace, files, sony, bpc, btag, built, builds>>

Sources == {"missing", "patch", "current", "old"}

\* A kernel: the patches and the driver it has, the run that built it.
Images == (SUBSET Patches) \X Sources \X (1..MaxBuilds)

BInit ==
  /\ upstream = 1
  /\ cloned = FALSE /\ head = 0 /\ vmlinux = FALSE
  /\ work = FALSE /\ inplace = {} /\ files = {} /\ sony = "missing"
  /\ bpc = "idle" /\ btag \in Tags
  /\ built = [t \in Tags |-> None]
  /\ builds = 0

-----------------------------------------------------------------------------
Stay(v) == UNCHANGED <<upstream, built, builds>> /\ UNCHANGED v

\* The script exits, or goes on at step p.
GoOn(p) == bpc' = p /\ UNCHANGED btag
Exit == GoOn("idle")

StartBuild(t) ==
  /\ bpc = "idle" /\ builds < MaxBuilds
  /\ bpc' = "setup" /\ btag' = t /\ builds' = builds + 1
  /\ UNCHANGED <<upstream, tree, built>>

\* git clone of the branch.
Clone ==
  /\ bpc = "setup" /\ ~cloned
  /\ cloned' = TRUE /\ head' = upstream
  /\ GoOn("ahci")
  /\ Stay(<<vmlinux, work, inplace, files, sony>>)

\* abort_if_kernel_tree_dirty: tracked files under drivers, arch and include; every
\* patch changes some of them.
Dirty == inplace # {} \/ work

\* The previous build is used: nothing to fetch, or the merge is a fast-forward.
Incremental ==
  /\ bpc = "setup" /\ cloned /\ vmlinux
  /\ head' = upstream
  /\ GoOn("ahci")
  /\ Stay(<<cloned, vmlinux, work, inplace, files, sony>>)

\* git merge fails, on rewritten history or on files changed on both sides.
MergeFails ==
  /\ bpc = "setup" /\ cloned /\ vmlinux /\ head # upstream
  /\ IF Dirty THEN Exit ELSE GoOn("reset")
  /\ Stay(tree)

\* git reset --hard, all the merge needs.
Reset ==
  /\ bpc = "reset"
  /\ head' = upstream /\ inplace' = {} /\ work' = FALSE
  /\ GoOn("ahci")
  /\ Stay(<<cloned, vmlinux, files, sony>>)

\* Mutant: without abort_if_kernel_tree_dirty, as before 2026-08-01.
StartOverUnchecked ==
  /\ bpc = "setup" /\ cloned /\ ~vmlinux
  /\ GoOn("clean")
  /\ Stay(tree)

\* There is no complete previous build, or another branch.
StartOver ==
  /\ bpc = "setup" /\ cloned /\ ~vmlinux
  /\ IF Dirty THEN Exit ELSE GoOn("clean")
  /\ Stay(tree)

\* git reset --hard and git clean -fdx.
Clean ==
  /\ bpc = "clean"
  /\ head' = upstream /\ inplace' = {} /\ work' = FALSE /\ files' = {} /\ sony' = "missing"
  /\ GoOn("ahci")
  /\ Stay(<<cloned, vmlinux>>)

\* git apply accepts the patch.
Applies(p) == p \notin inplace \cup files /\ <<head, p>> \notin Breaking

\* git apply --check and git apply of the AHCI patch.
ApplyAhci ==
  /\ bpc = "ahci"
  /\ IF Applies("ahci") THEN inplace' = inplace \cup {"ahci"} /\ GoOn("firmware")
     ELSE UNCHANGED inplace /\ Exit
  /\ Stay(<<cloned, head, vmlinux, work, files, sony>>)

\* Downloads, the question about MWIFIEX_SDIO, the base configuration.
Firmware ==
  /\ bpc = "firmware"
  /\ GoOn("icc") \/ Exit
  /\ Stay(tree)

\* The ICC debug patch and the driver patch, unless mts.c is in the tree.
ApplyIcc ==
  /\ bpc = "icc"
  /\ IF sony # "missing" THEN GoOn("copy") /\ UNCHANGED <<inplace, files>>
     ELSE IF Applies("icc")
          THEN inplace' = inplace \cup {"icc"} /\ files' = files \cup {"icc"} /\ GoOn("mts")
          ELSE Exit /\ UNCHANGED <<inplace, files>>
  /\ Stay(<<cloned, head, vmlinux, work, sony>>)

\* The driver patch brings an mts.c of its own.
ApplyMts ==
  /\ bpc = "mts"
  /\ IF Applies("mts")
     THEN inplace' = inplace \cup {"mts"} /\ files' = files \cup {"mts"} /\ sony' = "patch" /\ GoOn("copy")
     ELSE Exit /\ UNCHANGED <<inplace, files, sony>>
  /\ Stay(<<cloned, head, vmlinux, work>>)

\* Mutant: cp -n, which keeps the mts.c that is there.
CopyNoClobber ==
  /\ bpc = "copy"
  /\ sony' = IF sony = "missing" THEN "current" ELSE sony
  /\ GoOn("rtc")
  /\ Stay(<<cloned, head, vmlinux, work, inplace, files>>)

\* cp -f of mts.c and mts.h.
CopyDriver ==
  /\ bpc = "copy"
  /\ sony' = "current"
  /\ GoOn("rtc")
  /\ Stay(<<cloned, head, vmlinux, work, inplace, files>>)

\* Mutant: "|| echo AVISO", as the comment says it was.
ApplyRtcWarns ==
  /\ bpc = "rtc"
  /\ IF Applies("rtc") THEN inplace' = inplace \cup {"rtc"} /\ files' = files \cup {"rtc"}
     ELSE UNCHANGED <<inplace, files>>
  /\ GoOn("make")
  /\ Stay(<<cloned, head, vmlinux, work, sony>>)

\* git apply --check and git apply of the RTC patch.
ApplyRtc ==
  /\ bpc = "rtc"
  /\ IF Applies("rtc")
     THEN inplace' = inplace \cup {"rtc"} /\ files' = files \cup {"rtc"} /\ GoOn("make")
     ELSE Exit /\ UNCHANGED <<inplace, files>>
  /\ Stay(<<cloned, head, vmlinux, work, sony>>)

\* The configuration, make bzImage and make modules.
Make ==
  /\ bpc = "make"
  /\ \/ vmlinux' = TRUE /\ GoOn("publish")
     \/ vmlinux' \in BOOLEAN /\ Exit
  /\ Stay(<<cloned, head, work, inplace, files, sony>>)

\* The image that this tree compiles to.
Image == <<inplace \cap (files \cup (Patches \ Adding)), sony, builds>>

\* cp of bzImage and .config to boot_referencia; until it is through the file is
\* incomplete.
Publish ==
  /\ bpc = "publish"
  /\ built' = [built EXCEPT ![btag] = Torn]
  /\ GoOn("published")
  /\ UNCHANGED <<upstream, tree, builds>>

Published ==
  /\ bpc = "published"
  /\ built' = [built EXCEPT ![btag] = Image]
  /\ Exit
  /\ UNCHANGED <<upstream, tree, builds>>

\* Ctrl-C, a full disk, a power cut.
Interrupt ==
  /\ bpc # "idle"
  /\ Exit
  /\ Stay(tree)

Script ==
  \/ Clone \/ Incremental \/ MergeFails \/ Reset \/ StartOver \/ Clean
  \/ ApplyAhci \/ Firmware \/ ApplyIcc \/ ApplyMts \/ CopyDriver \/ ApplyRtc
  \/ Make \/ Publish \/ Published

-----------------------------------------------------------------------------
(* Between runs. *)

\* The upstream branch moves.
Upstream ==
  /\ bpc = "idle" /\ upstream < MaxCommit
  /\ upstream' = upstream + 1
  /\ UNCHANGED <<tree, bpc, btag, built, builds>>

\* drivers_mts/mts.c is worked on.
Driver ==
  /\ bpc = "idle" /\ sony = "current"
  /\ sony' = "old"
  /\ UNCHANGED <<upstream, cloned, head, vmlinux, work, inplace, files, bpc, btag, built, builds>>

\* The developer works in the tree.
Edit ==
  /\ bpc = "idle" /\ cloned /\ ~work
  /\ work' = TRUE
  /\ UNCHANGED <<upstream, cloned, head, vmlinux, inplace, files, sony, bpc, btag, built, builds>>

\* The developer saves the work and takes the changes to the tree back; files the
\* build made are ignored by git and stay.
TakeBack(how) ==
  /\ bpc = "idle" /\ cloned
  /\ inplace' = {} /\ work' = FALSE
  /\ IF how = "all" THEN files' = {} /\ sony' = "missing" ELSE UNCHANGED <<files, sony>>
  /\ UNCHANGED <<upstream, cloned, head, vmlinux, bpc, btag, built, builds>>

Developer == Upstream \/ Driver \/ Edit \/ (\E how \in Cleanups : TakeBack(how))

Build == (\E t \in Tags : StartBuild(t)) \/ Script \/ Interrupt \/ Developer

BSpec == BInit /\ [][Build]_bvars

-----------------------------------------------------------------------------
\* The build never throws away uncommitted work in tracked files under drivers,
\* arch and include, the loss of 2026-08-01 that abort_if_kernel_tree_dirty is for.
WorkKept ==
  [][bpc # "idle" => (work => work') /\ inplace \subseteq inplace']_bvars

\* A kernel with all four patches whole and the driver of drivers_mts.
Whole(c) == c[1] = Patches /\ c[2] = "current"

\* Every kernel in boot_referencia is whole, however often a run was interrupted or
\* failed and left the tree half patched.
ImageComplete == \A t \in Tags : built[t] \in {None, Torn} \/ Whole(built[t])

Ref == INSTANCE BootRef WITH
  kernels <- [t \in Tags |-> IF built[t] \in {None, Torn} THEN built[t]
                             ELSE IF Whole(built[t]) THEN <<"kernel", built[t][3]>>
                             ELSE <<"incomplete">>],
  writing <- IF bpc = "published" THEN btag ELSE NoTag

\* The build keeps what it promises about boot_referencia (BootRef): one kernel is
\* written at a time, and what stays under a tag is torn or whole and the newest.
ImplementsRef == Ref!RefSpec

-----------------------------------------------------------------------------
(* The inductive strengthening of ImageComplete and WorkKept. *)

BuildTypeOK ==
  /\ bpc \in {"idle", "setup", "reset", "clean", "ahci", "firmware", "icc", "mts", "copy",
              "rtc", "make", "publish", "published"}
  /\ btag \in Tags
  /\ inplace \subseteq Patches /\ files \subseteq Adding
  /\ sony \in Sources /\ work \in BOOLEAN
  /\ DOMAIN built = Tags

\* A patch is in the tree with both halves, and mts.c is there exactly when the patch is.
TreeInv ==
  /\ files = inplace \cap Adding
  /\ sony # "missing" <=> "mts" \in files
  /\ "mts" \in files => "icc" \in files

\* What the run has put into the tree so far.
ProgressInv ==
  /\ bpc \in {"reset", "clean"} => ~Dirty
  /\ bpc \in {"firmware", "icc", "mts", "copy", "rtc", "make", "publish", "published"} =>
       "ahci" \in inplace
  /\ bpc = "mts" => "icc" \in inplace
  /\ bpc \in {"copy", "rtc", "make", "publish", "published"} => "mts" \in inplace
  /\ bpc \in {"rtc", "make", "publish", "published"} => sony = "current"
  /\ bpc \in {"make", "publish", "published"} => "rtc" \in inplace

BuildInv == BuildTypeOK /\ TreeInv /\ ProgressInv /\ ImageComplete

\* A kernel that was written to its end bears the number of a run that is over.
NumberInv ==
  /\ builds \in 0..MaxBuilds /\ (bpc # "idle" => builds > 0)
  /\ \A t \in Tags : built[t] \notin {None, Torn} =>
       /\ built[t] \in Images
       /\ built[t][3] <= builds /\ (bpc # "idle" => built[t][3] < builds)
=============================================================================
