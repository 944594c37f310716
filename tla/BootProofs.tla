---------------------------- MODULE BootProofs ----------------------------
(***************************************************************************)
(* Proofs about what gets a kernel to the console.  The build, for any     *)
(* upstream history, any tags and any number of runs, when the developer   *)
(* takes changes back together with the files git does not track; and the  *)
(* deployment, for any tags, versions and numbers of builds, edits and     *)
(* runs.                                                                   *)
(***************************************************************************)
EXTENDS KernelBuild, BootDeploy, TLAPS

-----------------------------------------------------------------------------
(* The build. *)

\* The way of cleaning up that leaves no half of a patch behind.
CleansAll == Cleanups \subseteq {"all"}

\* Before the first run there is no tree.
LEMMA BuildInit == BInit => BuildInv
BY DEF BInit, BuildInv, BuildTypeOK, TreeInv, ProgressInv, ImageComplete, Dirty, Patches, Adding, Sources

\* How the run begins: the work tree is cloned, merged, reset or cleaned.
LEMMA SetupInv ==
  ASSUME BuildInv, (\E t \in Tags : StartBuild(t)) \/ Clone \/ Incremental \/ MergeFails \/ Reset
                   \/ StartOver \/ Clean
  PROVE  BuildInv'
<1> USE DEF BuildInv, BuildTypeOK, TreeInv, ProgressInv, ImageComplete, Dirty, Patches, Adding, Sources,
            Stay, GoOn, Exit, tree
<1>1. ASSUME NEW t \in Tags, StartBuild(t) PROVE BuildInv' BY <1>1 DEF StartBuild
<1>2. CASE Clone BY <1>2 DEF Clone
<1>3. CASE Incremental BY <1>3 DEF Incremental
<1>4. CASE MergeFails BY <1>4 DEF MergeFails
<1>5. CASE Reset BY <1>5 DEF Reset
<1>6. CASE StartOver BY <1>6 DEF StartOver
<1>7. CASE Clean BY <1>7 DEF Clean
<1> QED BY <1>1, <1>2, <1>3, <1>4, <1>5, <1>6, <1>7

\* The patches go in one after the other, then the driver.
LEMMA PatchInv ==
  ASSUME BuildInv, ApplyAhci \/ Firmware \/ ApplyIcc \/ ApplyMts \/ CopyDriver \/ ApplyRtc
  PROVE  BuildInv'
<1> USE DEF BuildInv, BuildTypeOK, TreeInv, ProgressInv, ImageComplete, Dirty, Patches, Adding, Sources,
            Stay, GoOn, Exit, tree, Applies
<1>1. CASE ApplyAhci BY <1>1 DEF ApplyAhci
<1>2. CASE Firmware BY <1>2 DEF Firmware
<1>3. CASE ApplyIcc BY <1>3 DEF ApplyIcc
<1>4. CASE ApplyMts BY <1>4 DEF ApplyMts
<1>5. CASE CopyDriver BY <1>5 DEF CopyDriver
<1>6. CASE ApplyRtc BY <1>6 DEF ApplyRtc
<1> QED BY <1>1, <1>2, <1>3, <1>4, <1>5, <1>6

\* Only a tree with everything in it is compiled and published.
LEMMA PublishInv ==
  ASSUME BuildInv, Make \/ Publish \/ Published \/ Interrupt
  PROVE  BuildInv'
<1> USE DEF BuildInv, BuildTypeOK, TreeInv, ProgressInv, Dirty, Patches, Adding, Sources,
            Stay, GoOn, Exit, tree
<1>1. CASE Make BY <1>1 DEF Make, ImageComplete
<1>2. CASE Publish
  <2>1. ImageComplete' BY <1>2 DEF Publish, ImageComplete
  <2> QED BY <1>2, <2>1 DEF Publish
<1>3. CASE Published
  <2>1. Image[1] = Patches /\ Image[2] = "current"
    BY <1>3 DEF Published, Image
  <2>2. \A t \in Tags : built'[t] = built[t] \/ built'[t] = Image
    BY <1>3 DEF Published
  <2>3. ImageComplete'
    BY <2>1, <2>2 DEF ImageComplete, Whole
  <2> QED BY <1>3, <2>3 DEF Published
<1>4. CASE Interrupt BY <1>4 DEF Interrupt, ImageComplete
<1> QED BY <1>1, <1>2, <1>3, <1>4

\* What happens between runs.
LEMMA DeveloperInv ==
  ASSUME BuildInv, CleansAll, Developer
  PROVE  BuildInv'
<1> USE DEF BuildInv, BuildTypeOK, TreeInv, ProgressInv, ImageComplete, Dirty, Patches, Adding, Sources, tree
<1>1. CASE Upstream BY <1>1 DEF Upstream
<1>2. CASE Driver BY <1>2 DEF Driver
<1>3. CASE Edit BY <1>3 DEF Edit
<1>4. ASSUME NEW how \in Cleanups, TakeBack(how) PROVE BuildInv'
  BY <1>4 DEF TakeBack, CleansAll
<1> QED BY <1>1, <1>2, <1>3, <1>4 DEF Developer

\* The tree never holds half a patch, and each step of a run finds in it all that the
\* steps before it put there.
THEOREM BuildInvariant == CleansAll => (BSpec => []BuildInv)
<1> SUFFICES ASSUME CleansAll PROVE BSpec => []BuildInv
  OBVIOUS
<1>1. ASSUME BuildInv, [Build]_bvars PROVE BuildInv'
  <2>1. CASE UNCHANGED bvars
    BY <1>1, <2>1 DEF bvars, BuildInv, BuildTypeOK, TreeInv, ProgressInv, ImageComplete, Dirty
  <2>2. CASE Build
    BY <1>1, <2>2, SetupInv, PatchInv, PublishInv, DeveloperInv DEF Build, Script
  <2> QED BY <1>1, <2>1, <2>2
<1> QED BY BuildInit, <1>1, PTL DEF BSpec

\* Every kernel that 00-build-kernel-7.0.sh leaves in boot_referencia is torn or has all
\* four patches and the driver of drivers_mts.
THEOREM BuildImageComplete == CleansAll => (BSpec => []ImageComplete)
<1>1. BuildInv => ImageComplete
  BY DEF BuildInv
<1> QED BY BuildInvariant, <1>1, PTL

\* No run throws uncommitted work or an applied patch away: abort_if_kernel_tree_dirty
\* comes before each reset.  The steps that reset the tree are found at a clean tree.
THEOREM BuildWorkKept == CleansAll => (BSpec => WorkKept)
<1> DEFINE Keeps == bpc # "idle" => (work => work') /\ inplace \subseteq inplace'
<1>1. ASSUME BuildInv, [Build]_bvars PROVE [Keeps]_bvars
  <2> SUFFICES ASSUME Build, bpc # "idle" PROVE (work => work') /\ inplace \subseteq inplace'
    BY <1>1
  <2>1. CASE Reset \/ Clean
    BY <1>1, <2>1 DEF BuildInv, ProgressInv, Dirty, Reset, Clean
  <2>2. CASE Script /\ ~Reset /\ ~Clean
    BY <2>2 DEF Script, Clone, Incremental, MergeFails, StartOver, ApplyAhci, Firmware, ApplyIcc, ApplyMts,
       CopyDriver, ApplyRtc, Make, Publish, Published, Stay, GoOn, Exit, tree
  <2>3. CASE Interrupt
    BY <2>3 DEF Interrupt, Stay, tree
  <2>4. ASSUME (\E t \in Tags : StartBuild(t)) \/ Developer PROVE FALSE
    BY <2>4 DEF StartBuild, Developer, Upstream, Driver, Edit, TakeBack
  <2> QED BY <2>1, <2>2, <2>3, <2>4 DEF Build
<1> QED BY BuildInvariant, <1>1, PTL DEF BSpec, WorkKept

-----------------------------------------------------------------------------
(* The refinement of BootRef. *)

\* At least one run is allowed.
LEMMA BuildsNat == MaxBuilds \in Nat /\ MaxBuilds > 0
BY FilesAssumption

\* The number of an image is a run's.
LEMMA ImageNumber == \A c \in Images : c[3] \in 1..MaxBuilds
BY DEF Images

\* The kernel a run publishes has the number of that run, and every other one has a
\* smaller number.
LEMMA NumberStep ==
  ASSUME BuildInv, NumberInv, [Build]_bvars
  PROVE  NumberInv'
<1> USE BuildsNat DEF NumberInv
<1>1. CASE UNCHANGED bvars BY <1>1 DEF bvars
<1>2. ASSUME NEW t \in Tags, StartBuild(t) PROVE NumberInv'
  BY <1>2, ImageNumber DEF StartBuild
<1>3. CASE Publish
  <2>1. \A t \in Tags : built'[t] = built[t] \/ built'[t] = Torn
    BY <1>3 DEF Publish, BuildInv, BuildTypeOK
  <2>2. bpc # "idle" /\ bpc' # "idle" /\ builds' = builds
    BY <1>3 DEF Publish, GoOn
  <2> QED BY <2>1, <2>2
<1>4. CASE Published
  <2>1. Image \in Images /\ Image[3] = builds
    BY <1>4 DEF Published, Image, Images, BuildInv, BuildTypeOK
  <2>2. \A t \in Tags : built'[t] = built[t] \/ built'[t] = Image
    BY <1>4 DEF Published, BuildInv, BuildTypeOK
  <2> QED BY <1>4, <2>1, <2>2 DEF Published, Exit, GoOn
<1>5. CASE bpc # "idle" /\ UNCHANGED <<built, builds>>
  BY <1>5
<1>6. CASE bpc = "idle" /\ UNCHANGED <<built, builds, bpc>>
  BY <1>6
<1>7. CASE Script /\ ~Publish /\ ~Published
  BY <1>5, <1>7 DEF Script, Clone, Incremental, MergeFails, Reset, StartOver, Clean, ApplyAhci, Firmware,
     ApplyIcc, ApplyMts, CopyDriver, ApplyRtc, Make, Stay
<1>8. CASE Interrupt
  BY <1>5, <1>8 DEF Interrupt, Stay
<1>9. CASE Developer
  BY <1>6, <1>9 DEF Developer, Upstream, Driver, Edit, TakeBack
<1> QED BY <1>1, <1>2, <1>3, <1>4, <1>7, <1>8, <1>9 DEF Build

\* A kernel that is published is newer than all that were there before.
THEOREM BuildNumbers == CleansAll => (BSpec => []NumberInv)
<1>1. BInit => NumberInv
  BY BuildsNat DEF BInit, NumberInv
<1> QED BY BuildInvariant, NumberStep, <1>1, PTL DEF BSpec

\* A published image is neither missing nor torn.
LEMMA ImageWhole ==
  ASSUME NEW c \in Images
  PROVE  c \notin {None, Torn}
<1>1. PICK p \in SUBSET Patches, s \in Sources, n \in 1..MaxBuilds : c = <<p, s, n>>
  BY DEF Images
<1>2. <<p, s, n>> # << >>
  OBVIOUS
<1>3. <<p, s, n>> # <<"torn">>
  OBVIOUS
<1> QED BY <1>1, <1>2, <1>3 DEF None, Torn

\* Each step of the build is one of BootRef or leaves its variables alone.
LEMMA RefStep ==
  ASSUME BuildInv, NumberInv, [Build]_bvars
  PROVE  [Ref!RefNext]_(Ref!refVars)
<1> DEFINE View(c) == IF c \in {None, Torn} THEN c
                      ELSE IF Whole(c) THEN <<"kernel", c[3]>> ELSE <<"incomplete">>
           Now == [t \in Tags |-> View(built[t])]
<1>1. CASE UNCHANGED built /\ bpc # "published" /\ bpc' # "published"
  BY <1>1 DEF Ref!refVars
<1>2. CASE Publish
  <2>1. Ref!RefBegin(btag)
    BY <1>2 DEF Publish, GoOn, Ref!RefBegin, BuildInv, BuildTypeOK, Ref!NoTag, NoTag, Ref!Torn, Torn
  <2>2. btag \in Tags
    BY DEF BuildInv, BuildTypeOK
  <2> QED BY <2>1, <2>2 DEF Ref!RefNext, Ref!RefBegin
<1>3. CASE Published
  <2>1. /\ bpc = "published" /\ bpc' = "idle" /\ btag \in Tags /\ builds \in 1..MaxBuilds
        /\ built' = [built EXCEPT ![btag] = Image]
    BY <1>3, BuildsNat DEF Published, Exit, GoOn, BuildInv, BuildTypeOK, NumberInv
  <2>2. Image \in Images /\ Image[3] = builds /\ Whole(Image)
    BY <1>3, <2>1 DEF Published, Image, Images, Whole, BuildInv, BuildTypeOK, TreeInv, ProgressInv, Patches, Adding
  <2>3. Image \notin {None, Torn}
    BY <2>2, ImageWhole
  <2>4. ASSUME NEW t \in Tags, NEW m \in builds..MaxBuilds
        PROVE  Now[t] # <<"kernel", m>>
    <3>1. CASE built[t] = None
      BY <3>1 DEF None
    <3>2. CASE built[t] = Torn
      <4>1. <<"torn">> # <<"kernel", m>>
        OBVIOUS
      <4> QED BY <3>2, <4>1 DEF Torn
    <3>3. CASE built[t] \notin {None, Torn}
      <4>1. built[t][3] \in 1..MaxBuilds /\ built[t][3] < builds
        BY <3>3, <2>1, ImageNumber DEF NumberInv
      <4>2. Whole(built[t])
        BY <3>3 DEF BuildInv, ImageComplete
      <4> QED BY <3>3, <4>1, <4>2, <2>1
    <3> QED BY <3>1, <3>2, <3>3
  <2>5. [t \in Tags |-> View(built'[t])] = [Now EXCEPT ![btag] = <<"kernel", builds>>]
    BY <2>1, <2>2, <2>3 DEF BuildInv, BuildTypeOK
  <2>6. Ref!RefEnd
    BY <2>1, <2>4, <2>5, FilesAssumption DEF Ref!RefEnd, NoTag, Ref!NoTag
  <2> QED BY <2>6 DEF Ref!RefNext
<1>4. CASE Interrupt
  BY <1>4, <1>1, FilesAssumption DEF Interrupt, Exit, GoOn, Stay, Ref!RefNext, Ref!RefCut, NoTag, Ref!NoTag,
     BuildInv, BuildTypeOK
<1>5. CASE Script /\ ~Publish /\ ~Published
  BY <1>1, <1>5 DEF Script, Clone, Incremental, MergeFails, Reset, StartOver, Clean, ApplyAhci, Firmware,
     ApplyIcc, ApplyMts, CopyDriver, ApplyRtc, Make, Stay, GoOn, Exit
<1>6. CASE (\E t \in Tags : StartBuild(t)) \/ Developer
  BY <1>1, <1>6 DEF StartBuild, Developer, Upstream, Driver, Edit, TakeBack
<1>7. CASE UNCHANGED bvars
  BY <1>7 DEF bvars, Ref!refVars
<1> QED BY <1>2, <1>3, <1>4, <1>5, <1>6, <1>7 DEF Build

\* The build implements BootRef: to a reader of boot_referencia, such as
\* deploy-boot-7.0.sh, kernels are torn or whole, and a later one is a newer one.
THEOREM BuildImplementsRef == CleansAll => (BSpec => ImplementsRef)
<1>1. BInit => Ref!RefInit
  BY DEF BInit, Ref!RefInit, None, Ref!None, NoTag, Ref!NoTag
<1> QED BY BuildInvariant, BuildNumbers, RefStep, <1>1, PTL DEF BSpec, ImplementsRef, Ref!RefSpec

-----------------------------------------------------------------------------
(* The deployment. *)

\* A version of a tag's bootargs is that tag's.
LEMMA TextArgs == \A t \in Tags, v \in Versions : Text(t, v) \in ArgsOf(t) \ {None}
<1> SUFFICES ASSUME NEW t \in Tags, NEW v \in Versions PROVE Text(t, v) \in ArgsOf(t) \ {None}
  OBVIOUS
<1>1. <<t, v>> # << >>
  OBVIOUS
<1> QED BY <1>1 DEF ArgsOf, Text, None

\* A part of a tag's bootargs is that tag's, and so is an empty file.
LEMMA PartArgs ==
  ASSUME NEW t \in Tags, NEW c \in ArgsOf(t) \ {None}, NEW d \in Parts("args", c)
  PROVE  d \in ArgsOf(t)
<1>1. d = Tiny \/ d = <<c[1]>>
  BY DEF Parts
<1>2. CASE c = Tiny
  BY <1>1, <1>2 DEF Tiny, ArgsOf
<1>3. CASE c = <<t>>
  BY <1>1, <1>3 DEF ArgsOf
<1>4. ASSUME NEW v \in Versions, c = Text(t, v) PROVE d \in ArgsOf(t)
  BY <1>1, <1>4 DEF Text, ArgsOf
<1> QED BY <1>2, <1>3, <1>4 DEF ArgsOf

\* A partition that nothing was deployed to.
LEMMA DeployInit == Init => DeployInv
<1> SUFFICES ASSUME Init PROVE DeployInv
  OBVIOUS
<1>1. DeployTypeOK
  <2>1. differ \in BOOLEAN /\ old \in BOOLEAN
    BY Zenon DEF Init
  <2> QED BY <2>1 DEF Init, DeployTypeOK
<1>2. ArgsInv
  <2>1. ASSUME NEW t \in Tags PROVE texts[t]["args"] \in ArgsOf(t) \ {None}
    <3>1. PICK v \in Versions : texts = [u \in Tags |-> [f \in Texts |-> Text(u, v)]]
      BY DEF Init
    <3>2. texts[t]["args"] = Text(t, v)
      BY <3>1 DEF Texts
    <3> QED BY <3>2, TextArgs
  <2> QED BY <2>1, FilesAssumption DEF Init, ArgsInv, Between, NoTag
<1>3. RunInv /\ DeployedMatches
  BY DEF Init, RunInv, DeployedMatches
<1>4. HistoryTrue
  BY DEF Init, HistoryTrue, ArgsOf
<1> QED BY <1>1, <1>2, <1>3, <1>4 DEF DeployInv

\* Each variable keeps its type.
LEMMA TypeStep ==
  ASSUME DeployTypeOK, Next
  PROVE  DeployTypeOK'
<1> USE DEF DeployTypeOK, Step, Stop, Cut, disk, run
<1>1. DOMAIN seen' = Files
  BY DEF Next, Record
<1>2. CASE RefNext /\ UNCHANGED <<texts, writes, disk, run, spoiled>>
  BY <1>1, <1>2
<1>3. ASSUME NEW t \in Tags, NEW f \in Texts, Write(t, f) PROVE DeployTypeOK'
  BY <1>1, <1>3 DEF Write, Texts
<1>4. ASSUME NEW t \in Tags, StartDeploy(t), UNCHANGED texts PROVE DeployTypeOK'
  <2>1. differ' \in BOOLEAN
    BY <1>4, Zenon DEF StartDeploy
  <2> QED BY <1>1, <1>4, <2>1 DEF StartDeploy
<1>5. CASE UNCHANGED texts /\ (Purge \/ Save \/ WriteTag)
  BY <1>1, <1>5 DEF Purge, Save, WriteTag
<1>6. CASE UNCHANGED texts /\ Copy
  BY <1>1, <1>6 DEF Copy, Order
<1>7. CASE UNCHANGED texts /\ Check
  BY <1>1, <1>7 DEF Check, Order, Same
<1>8. CASE UNCHANGED texts /\ (Report \/ Unmount \/ Abort \/ Mount)
  BY <1>1, <1>8 DEF Report, Unmount, Abort, Mount
<1> QED BY <1>2, <1>3, <1>4, <1>5, <1>6, <1>7, <1>8 DEF Next, Deploy

\* The order in which files are copied and compared.
LEMMA OrderIs ==
  Len(Order) = 3 /\ Order[1] = "kernel" /\ Order[2] = "args" /\ Order[3] = "initrd"
BY DEF Order

\* The bootargs that are there are kept under the tag that is active.
LEMMA HistSave ==
  ASSUME DeployTypeOK, ArgsInv, RunInv, HistoryTrue, UNCHANGED texts, Save
  PROVE  ArgsInv' /\ HistoryTrue'
<1>1. /\ dpc = "save" /\ dpc' \in {"copy", "idle"} /\ at' = at
      /\ UNCHANGED <<texts, hd, active, dtag, spoiled>>
  BY DEF Save, Step, Stop
<1>2. at = 1
  BY <1>1 DEF RunInv
<1>3. ~Between /\ ~Between'
  BY <1>1, <1>2 DEF Between
<1>4. ASSUME NEW t \in Tags \ spoiled
      PROVE  \/ saved'[t] = saved[t]
             \/ /\ active = t /\ hd["args"] # None
                /\ saved'[t] = hd["args"] \/ saved'[t] \in Parts("args", hd["args"])
  BY DEF Save, DeployTypeOK
<1>5. ArgsInv'
  BY <1>1, <1>3 DEF ArgsInv
<1>6. ASSUME NEW t \in Tags \ spoiled PROVE saved'[t] \in ArgsOf(t)
  <2>1. active = t => hd["args"] \in ArgsOf(t)
    BY <1>3 DEF ArgsInv
  <2>2. saved[t] \in ArgsOf(t)
    BY DEF HistoryTrue
  <2> QED BY <1>4, <2>1, <2>2, PartArgs
<1>7. HistoryTrue'
  BY <1>1, <1>6 DEF HistoryTrue
<1> QED BY <1>5, <1>7

\* The bootargs of the tag that is deployed replace them; from then until
\* active-tag.txt is written the tag that is active is not theirs.
LEMMA HistCopy ==
  ASSUME DeployTypeOK, ArgsInv, HistoryTrue, UNCHANGED texts, Copy
  PROVE  ArgsInv' /\ HistoryTrue'
<1>1. dpc = "copy" /\ UNCHANGED <<texts, active, dtag, saved>>
  BY DEF Copy, Cut
<1>2. at \in {1, 2, 3} /\ dtag \in Tags /\ DOMAIN hd = Files
  BY DEF DeployTypeOK
<1>3. \A t \in Tags : texts[t]["args"] \in ArgsOf(t) \ {None}
  BY DEF ArgsInv
<1>4. /\ at = 3 => hd["args"] \in ArgsOf(dtag)
      /\ at # 3 => \A t \in Tags \ spoiled : active = t => hd["args"] \in ArgsOf(t)
  BY <1>1, <1>2 DEF ArgsInv, Between
<1>5. ASSUME NEW c \in {Source(dtag, Order[at])} \cup Parts(Order[at], Source(dtag, Order[at])),
             hd' = [hd EXCEPT ![Order[at]] = c],
             dpc' = IF at = Len(Order) THEN "tag" ELSE "copy", at' = (at % Len(Order)) + 1,
             spoiled' = spoiled
      PROVE  ArgsInv' /\ HistoryTrue'
  <2>1. CASE at = 1
    <3>1. hd'["args"] = hd["args"]
      BY <1>2, <1>5, <2>1, OrderIs DEF Files
    <3>2. dpc' = "copy" /\ at' = 2
      BY <1>5, <2>1, OrderIs
    <3> QED BY <1>1, <1>3, <1>4, <1>5, <2>1, <3>1, <3>2 DEF ArgsInv, HistoryTrue, Between
  <2>2. CASE at = 2
    <3>1. hd'["args"] = c
      BY <1>2, <1>5, <2>2, OrderIs DEF Files
    <3>2. dpc' = "copy" /\ at' = 3
      BY <1>5, <2>2, OrderIs
    <3>3. c \in ArgsOf(dtag)
      <4>1. Source(dtag, "args") \in ArgsOf(dtag) \ {None}
        BY <1>2, <1>3 DEF Source
      <4> QED BY <1>2, <1>5, <2>2, <4>1, OrderIs, PartArgs
    <3> QED BY <1>1, <1>3, <1>5, <3>1, <3>2, <3>3 DEF ArgsInv, HistoryTrue, Between
  <2>3. CASE at = 3
    <3>1. hd'["args"] = hd["args"]
      BY <1>2, <1>5, <2>3, OrderIs DEF Files
    <3>2. dpc' = "tag"
      BY <1>5, <2>3, OrderIs
    <3> QED BY <1>1, <1>3, <1>4, <1>5, <2>3, <3>1, <3>2 DEF ArgsInv, HistoryTrue, Between
  <2> QED BY <1>2, <2>1, <2>2, <2>3
<1>6. ASSUME NEW c, hd' = [hd EXCEPT ![Order[at]] = c], Cut(at >= 2) PROVE ArgsInv' /\ HistoryTrue'
  <2>1. at = 1 => hd'["args"] = hd["args"]
    BY <1>2, <1>6, OrderIs DEF Files
  <2>2. dpc' = "idle" /\ spoiled' = (IF at # 1 THEN spoiled \cup {active} ELSE spoiled)
    BY <1>1, <1>2, <1>6 DEF Cut
  <2> QED BY <1>1, <1>3, <1>4, <2>1, <2>2 DEF ArgsInv, HistoryTrue, Between
<1> QED BY <1>5, <1>6 DEF Copy

\* Where bootargs come from: the copies, the history and active-tag.txt.
LEMMA HistStep ==
  ASSUME DeployTypeOK, ArgsInv, RunInv, HistoryTrue, Next
  PROVE  ArgsInv' /\ HistoryTrue'
<1> USE FilesAssumption DEF DeployTypeOK, ArgsInv, HistoryTrue, Between, Step, Stop, Cut, disk, run
<1>1. CASE RefNext /\ UNCHANGED <<texts, writes, disk, run, spoiled>>
  BY <1>1
<1>2. ASSUME NEW t \in Tags, NEW f \in Texts, Write(t, f) PROVE ArgsInv' /\ HistoryTrue'
  <2>1. PICK c \in Drafts(t, f) : texts' = [texts EXCEPT ![t][f] = c]
    BY <1>2 DEF Write
  <2>2. f = "args" => c \in ArgsOf(t) \ {None}
    <3>1. Tiny \in ArgsOf(t) \ {None}
      BY DEF Tiny, None, ArgsOf
    <3>2. CASE f = "args" /\ c # Tiny
      <4>1. PICK v \in Versions : c = Text(t, v)
        BY <2>1, <3>2 DEF Drafts
      <4> QED BY <4>1, TextArgs
    <3> QED BY <3>1, <3>2
  <2>3. \A u \in Tags : texts'[u]["args"] = texts[u]["args"] \/ (u = t /\ f = "args" /\ texts'[u]["args"] = c)
    BY <2>1 DEF Texts
  <2> QED BY <1>2, <2>2, <2>3 DEF Write
<1>3. ASSUME NEW t \in Tags, StartDeploy(t), UNCHANGED texts PROVE ArgsInv' /\ HistoryTrue'
  BY <1>3 DEF StartDeploy
<1>4. CASE UNCHANGED texts /\ Purge
  BY <1>4 DEF Purge
<1>5. CASE UNCHANGED texts /\ Save
  BY <1>5, HistSave
<1>6. CASE UNCHANGED texts /\ Copy
  BY <1>6, HistCopy
<1>7. CASE UNCHANGED texts /\ WriteTag
  BY <1>7 DEF WriteTag, NoTag
<1>8. CASE UNCHANGED texts /\ (Check \/ Report \/ Unmount \/ Mount)
  BY <1>8 DEF Check, Report, Unmount, Mount, Order
<1>9. CASE UNCHANGED texts /\ Abort
  BY <1>9 DEF Abort
<1> QED BY <1>1, <1>2, <1>3, <1>4, <1>5, <1>6, <1>7, <1>8, <1>9 DEF Next, Deploy

\* What a run in progress has seen of its sources it keeps, and it sees what is there.
LEMMA SeenStep ==
  ASSUME DeployTypeOK, RunInv, Next
  PROVE  /\ dpc' \notin {"idle", "umount"} /\ reported' = NoTag =>
              \A f \in Files : (IF dpc = "idle" THEN {} ELSE seen[f]) \cup {Source(dtag, f)'} = seen'[f]
         /\ reported' # NoTag => \A f \in Files : seen'[f] = seen[f]
BY DEF Next, Record

\* The parts of the run's knowledge that a step keeps when it only changes the sources
\* or attaches the disk.
LEMMA RunSources ==
  ASSUME DeployTypeOK, RunInv, DeployedMatches, Next, UNCHANGED <<disk, run>> \/ Mount
  PROVE  RunInv' /\ DeployedMatches'
<1>1. UNCHANGED <<hd, old, active, dpc, dtag, at, differ, reported>>
  BY DEF disk, run, Mount
<1>2. dpc \notin {"idle", "umount"} => \A f \in Files : seen[f] \subseteq seen'[f] /\ Source(dtag, f)' \in seen'[f]
  BY <1>1, SeenStep DEF RunInv
<1>3. \A j \in 1..(at - 1) : Order[j] \in Files
  BY OrderIs DEF Files, DeployTypeOK
<1>4. DeployedMatches'
  BY <1>1, SeenStep DEF DeployedMatches
<1>5. RunInv'
  BY <1>1, <1>2, <1>3 DEF RunInv
<1> QED BY <1>4, <1>5

\* The steps up to the comparison.
LEMMA RunCopies ==
  ASSUME DeployTypeOK, RunInv, DeployedMatches, Next,
         (\E t \in Tags : StartDeploy(t)) \/ Purge \/ Save \/ Copy \/ WriteTag
  PROVE  RunInv' /\ DeployedMatches'
<1>1. reported' = NoTag
  BY DEF StartDeploy, Purge, Save, Copy, WriteTag, Step, Stop, Cut, RunInv
<1>2. DeployedMatches'
  BY <1>1 DEF DeployedMatches
<1>3. dpc' \notin {"idle", "umount"} => \A f \in Files : Source(dtag, f)' \in seen'[f]
  BY <1>1, SeenStep
<1>4. /\ dpc' \in {"idle", "purge", "save", "copy", "tag", "md5"}
      /\ dpc' \in {"purge", "save", "tag", "md5"} => at' = 1
      /\ dpc' \in {"save", "copy", "tag", "md5"} => ~old'
      /\ dpc' = "md5" => active' = dtag'
  <2>1. ASSUME NEW t \in Tags, StartDeploy(t) PROVE dpc' = "purge" /\ at' = 1
    BY <2>1 DEF StartDeploy
  <2>2. CASE Purge BY <2>2 DEF Purge, Step, RunInv
  <2>3. CASE Save BY <2>3 DEF Save, Step, Stop, RunInv
  <2>4. CASE Copy
    <3>1. at \in {1, 2, 3}
      BY DEF DeployTypeOK
    <3> QED BY <2>4, <3>1, OrderIs DEF Copy, Cut, RunInv
  <2>5. CASE WriteTag BY <2>5 DEF WriteTag, Step, Stop, RunInv
  <2> QED BY <2>1, <2>2, <2>3, <2>4, <2>5
<1> QED BY <1>1, <1>2, <1>3, <1>4 DEF RunInv

\* A comparison that does not fail found the source that is there now.
LEMMA RunCheck ==
  ASSUME DeployTypeOK, RunInv, DeployedMatches, Next, Check, UNCHANGED <<kernels, texts>>
  PROVE  RunInv' /\ DeployedMatches'
<1>1. /\ dpc = "md5" /\ reported = NoTag /\ ~old /\ active = dtag /\ at \in {1, 2, 3}
      /\ UNCHANGED <<hd, old, active, dtag, reported>>
  BY DEF Check, disk, RunInv, DeployTypeOK
<1>2. \/ at \in {1, 2} /\ dpc' = "md5" /\ at' = at + 1
      \/ at = 3 /\ dpc' = "report" /\ at' = 1
  BY <1>1, OrderIs DEF Check
<1>3. \A f \in Files : seen[f] \subseteq seen'[f] /\ Source(dtag, f)' \in seen'[f]
  BY <1>1, <1>2, SeenStep
<1>4. ~differ' => ~differ /\ hd[Order[at]] = Source(dtag, Order[at])
  <2>1. PICK same \in Same(Source(dtag, Order[at]), hd[Order[at]]) : differ' = (differ \/ ~same)
    BY DEF Check
  <2>2. same \in BOOLEAN /\ (same => hd[Order[at]] = Source(dtag, Order[at]))
    BY <2>1 DEF Same
  <2>3. ~differ' => ~differ /\ same
    BY <2>1, <2>2, Zenon
  <2> QED BY <2>2, <2>3
<1>5. Order[at] \in Files /\ \A f \in Files : Source(dtag, f) \in seen[f]
  BY <1>1, OrderIs DEF RunInv, Files
<1>6. ~differ' => \A j \in 1..at : hd[Order[j]] \in seen'[Order[j]]
  <2>1. SUFFICES ASSUME ~differ', NEW j \in 1..at PROVE hd[Order[j]] \in seen'[Order[j]]
    OBVIOUS
  <2>2. Order[j] \in Files
    BY <1>1, OrderIs DEF Files
  <2>3. CASE j = at
    BY <1>3, <1>4, <1>5, <2>1, <2>3
  <2>4. CASE j # at
    <3>1. j \in 1..(at - 1)
      BY <1>1, <2>4
    <3>2. hd[Order[j]] \in seen[Order[j]]
      BY <1>1, <1>4, <2>1, <3>1 DEF RunInv
    <3> QED BY <1>3, <2>2, <3>2
  <2> QED BY <2>3, <2>4
<1>7. CASE at \in {1, 2} /\ dpc' = "md5" /\ at' = at + 1
  <2>1. \A j \in 1..(at' - 1) : j \in 1..at
    BY <1>7
  <2> QED BY <1>1, <1>3, <1>6, <1>7, <2>1 DEF RunInv, DeployedMatches
<1>8. CASE at = 3 /\ dpc' = "report"
  <2>1. ~differ' => \A f \in Files : hd[f] \in seen'[f]
    BY <1>6, <1>8, OrderIs DEF Files
  <2> QED BY <1>1, <1>3, <1>8, <2>1 DEF RunInv, DeployedMatches
<1> QED BY <1>2, <1>7, <1>8

\* The report, and the ways to stop.
LEMMA RunEnds ==
  ASSUME DeployTypeOK, RunInv, DeployedMatches, Next, Report \/ Unmount \/ Abort
  PROVE  RunInv' /\ DeployedMatches'
<1>1. UNCHANGED <<hd, old, active, dtag>>
  BY DEF Report, Unmount, Abort, Step, Stop, Cut, disk
<1>2. CASE Report
  <2>1. dpc = "report" /\ dpc' \in {"idle", "umount"} /\ (dpc' = "umount" <=> ~differ)
    BY <1>2 DEF Report
  <2>2. reported' = IF differ THEN NoTag ELSE dtag
    BY <1>2 DEF Report
  <2>3. reported' # NoTag => ~differ /\ \A f \in Files : seen'[f] = seen[f]
    BY <2>2, SeenStep
  <2>4. DeployedMatches'
    BY <1>1, <2>1, <2>2, <2>3 DEF DeployedMatches, RunInv
  <2>5. RunInv'
    BY <1>1, <2>1, <2>2 DEF RunInv
  <2> QED BY <2>4, <2>5
<1>3. CASE Unmount \/ Abort
  <2>1. dpc' = "idle" /\ reported' = reported
    BY <1>3 DEF Unmount, Abort, Step, Stop, Cut
  <2>2. DeployedMatches'
    BY <1>1, <2>1, SeenStep DEF DeployedMatches
  <2> QED BY <2>1, <2>2 DEF RunInv
<1> QED BY <1>2, <1>3

\* The inductive invariant of the deployment.
THEOREM DeployInvariant == Spec => []DeployInv
<1>1. ASSUME DeployInv, [Next]_vars PROVE DeployInv'
  <2>1. CASE UNCHANGED vars
    BY <1>1, <2>1 DEF vars, refVars, dvars, disk, run, DeployInv, DeployTypeOK, ArgsInv, RunInv, HistoryTrue,
       DeployedMatches, Between, Source
  <2>2. CASE Next
    <3>1. DeployTypeOK' /\ ArgsInv' /\ HistoryTrue'
      BY <1>1, <2>2, TypeStep, HistStep DEF DeployInv
    <3>2. RunInv' /\ DeployedMatches'
      <4>1. CASE UNCHANGED <<disk, run>> \/ Mount
        BY <1>1, <2>2, <4>1, RunSources DEF DeployInv
      <4>2. CASE Deploy /\ ~Mount /\ UNCHANGED <<refVars, texts, writes>>
        BY <1>1, <2>2, <4>2, RunCopies, RunCheck, RunEnds DEF DeployInv, Deploy, refVars
      <4> QED BY <2>2, <4>1, <4>2 DEF Next, Write
    <3> QED BY <3>1, <3>2 DEF DeployInv
  <2> QED BY <1>1, <2>1, <2>2
<1> QED BY DeployInit, <1>1, PTL DEF Spec

\* After deploy-boot-7.0.sh has said that a tag is active, the partition holds that
\* tag's three files as they were at some time during the run.
THEOREM DeployMatches == Spec => []DeployedMatches
<1>1. DeployInv => DeployedMatches
  BY DEF DeployInv
<1> QED BY DeployInvariant, <1>1, PTL

\* Bootargs are kept under the tag they belong to, but for the tags that a run which
\* stopped between the copy of bootargs and active-tag.txt found active.
THEOREM DeployHistory == Spec => []HistoryTrue
<1>1. DeployInv => HistoryTrue
  BY DEF DeployInv
<1> QED BY DeployInvariant, <1>1, PTL

-----------------------------------------------------------------------------
(* Both scripts on one boot_referencia. *)

\* What the deployment reads as kernels is what the build has written.
Joined == refVars = Ref!refVars

\* deploy-boot-7.0.sh and the developer, whoever writes the kernels.
Beside ==
  /\ \/ refVars' # refVars /\ UNCHANGED <<texts, writes, disk, run, spoiled>>
     \/ \E t \in Tags, f \in Texts : Write(t, f)
     \/ Deploy /\ UNCHANGED <<refVars, texts, writes>>
  /\ Record

\* 00-build-kernel-7.0.sh and deploy-boot-7.0.sh, each run again and again.
System == BSpec /\ Init /\ [][Beside]_vars /\ []Joined

\* What the build does to its kernels it does to those the deployment reads.
LEMMA JoinedStep ==
  ASSUME Joined, Joined', [Ref!RefNext]_(Ref!refVars)
  PROVE  [RefNext]_refVars
<1> DEFINE K == [t \in Tags |-> IF built[t] \in {None, Torn} THEN built[t]
                               ELSE IF Whole(built[t]) THEN <<"kernel", built[t][3]>>
                               ELSE <<"incomplete">>]
           W == IF bpc = "published" THEN btag ELSE NoTag
<1>1. kernels = K /\ writing = W /\ kernels' = K' /\ writing' = W'
  BY DEF Joined, refVars, Ref!refVars
<1>2. CASE UNCHANGED Ref!refVars
  BY <1>1, <1>2 DEF refVars, Ref!refVars
<1>3. ASSUME NEW t \in Tags, Ref!RefBegin(t) PROVE RefNext
  BY <1>1, <1>3 DEF Ref!RefBegin, RefBegin, RefNext, Ref!NoTag, NoTag, Ref!Torn, Torn
<1>4. CASE Ref!RefEnd
  BY <1>1, <1>4 DEF Ref!RefEnd, RefEnd, RefNext, Ref!NoTag, NoTag
<1>5. CASE Ref!RefCut
  BY <1>1, <1>5 DEF Ref!RefCut, RefCut, RefNext, Ref!NoTag, NoTag
<1> QED BY <1>2, <1>3, <1>4, <1>5 DEF Ref!RefNext

\* The build script keeps the promise that the deployment script is checked against:
\* with both at work the deployment behaves as BootDeploy says.
THEOREM SystemImplementsDeploy == CleansAll => (System => Spec)
<1>1. ASSUME Joined, Joined', [Ref!RefNext]_(Ref!refVars), [Beside]_vars
      PROVE  [Next]_vars
  BY <1>1, JoinedStep DEF Beside, Next
<1> QED BY <1>1, BuildImplementsRef, PTL DEF System, Spec, ImplementsRef, Ref!RefSpec

\* A kernel with all its patches and the driver, or the part of one that was written.
Real == {Torn} \cup {<<"kernel", n>> : n \in 1..MaxBuilds}

\* The kernels a run has seen since it began are real.
KernelInv ==
  /\ kernels \in [Tags -> {None} \cup Real]
  /\ dpc # "idle" => kernels[dtag] # None
  /\ seen["kernel"] \subseteq Real

\* What 7.0 boots after a deployment that was reported as a success.
ShipsReal == reported # NoTag => hd["kernel"] \in Real

LEMMA KernelStep ==
  ASSUME DeployTypeOK, KernelInv, [Next]_vars
  PROVE  KernelInv'
<1>1. CASE UNCHANGED vars
  BY <1>1 DEF vars, refVars, dvars, run, KernelInv
<1>2. CASE Next
  <2>1. kernels' \in [Tags -> {None} \cup Real] /\ \A t \in Tags : kernels[t] # None => kernels'[t] # None
    <3>1. CASE UNCHANGED refVars
      BY <3>1 DEF refVars, KernelInv
    <3>2. ASSUME NEW t \in Tags, RefBegin(t)
          PROVE  kernels' \in [Tags -> {None} \cup Real] /\ \A u \in Tags : kernels[u] # None => kernels'[u] # None
      BY <3>2 DEF RefBegin, KernelInv, Real, Torn, None
    <3>3. CASE RefEnd
      <4>1. PICK n \in 1..MaxBuilds : kernels' = [kernels EXCEPT ![writing] = <<"kernel", n>>]
        BY <3>3 DEF RefEnd
      <4>2. <<"kernel", n>> \in Real /\ <<"kernel", n>> # None
        BY DEF Real, None
      <4> QED BY <4>1, <4>2 DEF KernelInv
    <3>4. CASE RefCut
      BY <3>4 DEF RefCut, KernelInv
    <3> QED BY <1>2, <3>1, <3>2, <3>3, <3>4 DEF Next, RefNext, Write
  <2>2. dtag' \in Tags /\ (dpc' # "idle" => kernels'[dtag'] # None)
    <3>1. CASE dpc # "idle" /\ dtag' = dtag
      BY <2>1, <3>1 DEF DeployTypeOK, KernelInv
    <3>2. ASSUME NEW t \in Tags, StartDeploy(t), UNCHANGED refVars
          PROVE  dtag' \in Tags /\ (dpc' # "idle" => kernels'[dtag'] # None)
      BY <3>2 DEF StartDeploy, refVars, Source, Files
    <3>3. CASE UNCHANGED run
      BY <2>1, <3>3 DEF run, DeployTypeOK, KernelInv
    <3>4. CASE Purge \/ Save \/ Copy \/ WriteTag \/ Check \/ Report \/ Unmount \/ Abort
      BY <3>1, <3>4 DEF Purge, Save, Copy, WriteTag, Check, Report, Unmount, Abort, Step, Stop, Cut
    <3>5. CASE Mount
      BY <3>3, <3>5 DEF Mount
    <3> QED BY <1>2, <3>2, <3>3, <3>4, <3>5 DEF Next, Write, Deploy
  <2>3. seen'["kernel"] \subseteq Real
    <3>1. \/ seen'["kernel"] = {} \/ seen'["kernel"] = seen["kernel"]
          \/ dpc' # "idle" /\ seen'["kernel"] \subseteq seen["kernel"] \cup {kernels'[dtag']}
      BY <1>2 DEF Next, Record, Source, Files
    <3> QED BY <2>1, <2>2, <3>1 DEF KernelInv
  <2> QED BY <2>1, <2>2, <2>3 DEF KernelInv
<1> QED BY <1>1, <1>2

\* With both scripts at work, however they interleave, fail and are interrupted: after
\* a deployment that was reported the partition holds the tag's files as they were
\* during the run, and its kernel is one that a build published with all patches and
\* the driver, or was still publishing.
THEOREM SystemShips == CleansAll => (System => [](DeployedMatches /\ HistoryTrue /\ ShipsReal))
<1>1. Init => KernelInv
  BY DEF Init, RefInit, KernelInv, Files
<1>2. DeployInv /\ KernelInv /\ [Next]_vars => KernelInv'
  BY KernelStep DEF DeployInv
<1>3. DeployInv /\ KernelInv => DeployedMatches /\ HistoryTrue /\ ShipsReal
  BY DEF DeployInv, DeployedMatches, KernelInv, ShipsReal, Files
<1> QED BY SystemImplementsDeploy, DeployInvariant, <1>1, <1>2, <1>3, PTL DEF Spec
=============================================================================
