---------------------------- MODULE MtsLifecycle ----------------------------
(***************************************************************************)
(* The life of the Baikal GBE driver (drivers_mts/mts.c): mts_probe in its *)
(* five stages with the goto chain that undoes it, mts_remove, mts_open    *)
(* and mts_stop, and what may run meanwhile: the poll timer, the interrupt *)
(* handler and the sysfs stores, which sleep.  One step per call that can  *)
(* fail or that another actor can tell apart.                              *)
(*                                                                         *)
(* A resource is a name in the set res.  Register contents are told apart  *)
(* only as far as the properties need them.                                *)
(***************************************************************************)
EXTENDS Naturals, FiniteSets

CONSTANTS
  Stages,       \* the values of the module parameter stage
  ForceResets,  \* the values of the module parameter force_mac_reset
  Envs          \* what may happen: records of ops, the sysfs stores somebody calls
                \* ("rx_clean", "rmu", "pci"), and fails, the probe steps that may fail

ProbeSteps == {"enable", "regions", "netdev", "map", "data", "mask", "rings", "program",
               "mac", "master", "vectors", "irq", "register"}
Unwinding == {"freeirq", "freeirqs", "freerings", "unmap", "freedev", "release", "disable", "cleanup"}
Removing == {"rmfiles", "drain", "unregister", "macstop", "freemem"}
Resources == {"device", "regions", "netdev", "regs", "glue", "bar4", "rings", "vectors", "irq"}

ASSUME LifeAssumption ==
  /\ Stages \subseteq 0 .. 4
  /\ ForceResets \subseteq BOOLEAN
  /\ \A e \in Envs : e.ops \subseteq {"rx_clean", "rmu", "pci"} /\ e.fails \subseteq ProbeSteps

VARIABLES
  stage, reset,  \* the parameters this load of the module was given
  env,           \* the environment it meets
  pc,            \* the step the driver core's thread is at
  res,           \* the resources held
  drvdata,       \* whether pci_get_drvdata returns the net_device
  files,         \* whether the sysfs files exist
  op,            \* the sysfs store that runs, "none" for none
  registered,    \* dev->reg_state == NETREG_REGISTERED
  up,            \* the interface is up
  polling,       \* mp->napi_enabled: NAPI enabled and the timer armed
  master,        \* PCI_COMMAND_MASTER
  ringreg,       \* what the ring registers point to: "orbis", "rings" or "freed"
  oops,          \* a NULL pointer was followed
  left           \* history: a probe failed after it created the sysfs files, and no
                 \* mts_remove has taken them away since

vars == <<stage, reset, env, pc, res, drvdata, files, op, registered, up, polling,
          master, ringreg, oops, left>>
param == <<stage, reset, env>>
net == <<registered, up, polling>>
hw == <<master, ringreg>>
user == <<files, op>>

\* The registers of the rings arrive with the addresses Orbis left there.
Init ==
  /\ stage \in Stages /\ reset \in ForceResets /\ env \in Envs
  /\ pc = "unbound" /\ res = {} /\ drvdata = FALSE
  /\ files = FALSE /\ op = "none"
  /\ registered = FALSE /\ up = FALSE /\ polling = FALSE
  /\ master = FALSE /\ ringreg = "orbis"
  /\ oops = FALSE /\ left = FALSE

-----------------------------------------------------------------------------
(* mts_probe *)

Bind ==
  /\ pc = "unbound"
  /\ pc' = "enable"
  /\ UNCHANGED <<param, res, drvdata, user, net, hw, oops, left>>

\* One step of the probe that acquires R and goes on at next, or fails and jumps
\* to label.
Acquire(step, R, next, label) ==
  /\ pc = step
  /\ \/ res' = res \cup R /\ pc' = next
     \/ step \in env.fails /\ res' = res /\ pc' = label
  /\ UNCHANGED <<param, drvdata, user, net, hw, oops>>

ProbeEnable == Acquire("enable", {"device"}, "regions", "cleanup") /\ UNCHANGED left
ProbeRegions == Acquire("regions", {"regions"}, "netdev", "disable") /\ UNCHANGED left
ProbeNetdev == Acquire("netdev", {"netdev"}, "map", "release") /\ UNCHANGED left

\* pci_iomap must succeed, the two glue mappings need not.
ProbeMap ==
  /\ \E G \in SUBSET {"glue", "bar4"} : Acquire("map", {"regs"} \cup G, "data", "freedev")
  /\ UNCHANGED left

\* pci_set_drvdata; from stage 1 on the dump and mts_mdio_probe.
ProbeData ==
  /\ pc = "data"
  /\ drvdata' = TRUE
  /\ pc' = IF stage >= 2 THEN "mask" ELSE "bound"
  /\ UNCHANGED <<param, res, user, net, hw, oops, left>>

\* mts_mac_stop ends with mts_tx_drain_force, which follows mp->tx_skb.
MacStop == oops' = (oops \/ "rings" \notin res)

\* force_mac_reset, then the DMA mask.
ProbeMask ==
  /\ pc = "mask"
  /\ IF reset THEN MacStop ELSE UNCHANGED oops
  /\ \/ pc' = "rings"
     \/ "mask" \in env.fails /\ pc' = "unmap"
  /\ UNCHANGED <<param, res, drvdata, user, net, hw, left>>

\* Mutant: the result of mts_alloc_rings is not looked at.
ProbeRingsUnchecked == Acquire("rings", {"rings"}, "program", "program") /\ UNCHANGED left

\* mts_alloc_rings, which frees what it got when it fails.
ProbeRings == Acquire("rings", {"rings"}, "program", "unmap") /\ UNCHANGED left

\* mts_setup_rings, mts_program_rings and the six sysfs files; a file that cannot
\* be created is only reported.
ProbeProgram ==
  /\ pc = "program"
  /\ ringreg' = "rings"
  /\ files' \in {files, TRUE}
  /\ pc' = IF stage >= 3 THEN "mac" ELSE "bound"
  /\ UNCHANGED <<param, res, drvdata, op, net, master, oops, left>>

\* mts_mac_enable and the IMR.
ProbeMac ==
  /\ pc = "mac"
  /\ pc' = IF stage >= 4 THEN "master" ELSE "bound"
  /\ UNCHANGED <<param, res, drvdata, user, net, hw, oops, left>>

ProbeMaster ==
  /\ pc = "master"
  /\ master' = TRUE
  /\ pc' = "vectors"
  /\ UNCHANGED <<param, res, drvdata, user, net, ringreg, oops, left>>

\* A probe that fails from here on leaves the sysfs files it created.
Leaves(labels) == left' = (left \/ (files /\ pc' \in labels))

ProbeVectors == Acquire("vectors", {"vectors"}, "irq", "freerings") /\ Leaves({"freerings"})
ProbeIrq == Acquire("irq", {"irq"}, "register", "freeirqs") /\ Leaves({"freeirqs"})

\* mts_get_mac_address and register_netdev.
ProbeRegister ==
  /\ pc = "register"
  /\ \/ registered' = TRUE /\ pc' = "bound"
     \/ "register" \in env.fails /\ registered' = FALSE /\ pc' = "freeirq"
  /\ Leaves({"freeirq"})
  /\ UNCHANGED <<param, res, drvdata, user, up, polling, hw, oops>>

-----------------------------------------------------------------------------
(* The goto chain, and what the driver core does after a failed probe or a remove *)

Release(step, R, next) ==
  /\ pc = step
  /\ res' = res \ R
  /\ pc' = next
  /\ UNCHANGED <<param, drvdata, user, net, oops, left>>

FreeIrq == Release("freeirq", {"irq"}, "freeirqs") /\ UNCHANGED hw
FreeVectors == Release("freeirqs", {"vectors"}, "freerings") /\ UNCHANGED hw

FreedRing == IF ringreg = "rings" THEN "freed" ELSE ringreg

\* Mutant: the rings are freed with the device still mastering the bus.
FreeRingsOnErrorMastering ==
  /\ Release("freerings", {"rings"}, "unmap")
  /\ ringreg' = FreedRing
  /\ UNCHANGED master

\* pci_clear_master, mts_free_rings.
FreeRingsOnError ==
  /\ Release("freerings", {"rings"}, "unmap")
  /\ master' = FALSE
  /\ ringreg' = FreedRing

\* Mutant: only the glue mapping is undone, not the one of BAR4.
UnmapOnlyGlue == Release("unmap", {"glue", "regs"}, "freedev") /\ UNCHANGED hw

Unmap == Release("unmap", {"glue", "bar4", "regs"}, "freedev") /\ UNCHANGED hw
FreeNetdev == Release("freedev", {"netdev"}, "release") /\ UNCHANGED hw
ReleaseRegions == Release("release", {"regions"}, "disable") /\ UNCHANGED hw

\* pci_disable_device clears PCI_COMMAND_MASTER.
DisableDevice ==
  /\ Release("disable", {"device"}, "cleanup")
  /\ master' = FALSE
  /\ UNCHANGED ringreg

\* The driver core clears the driver data; it does not remove the sysfs files.
Cleanup ==
  /\ pc = "cleanup"
  /\ drvdata' = FALSE
  /\ pc' = "unbound"
  /\ UNCHANGED <<param, res, user, net, hw, oops, left>>

-----------------------------------------------------------------------------
(* mts_remove *)

Unbind ==
  /\ pc = "bound"
  /\ pc' = IF stage >= 2 THEN "rmfiles" ELSE "unregister"
  /\ UNCHANGED <<param, res, drvdata, user, net, hw, oops, left>>

\* Mutant: the files stay open to new stores.
RemoveFilesOpen ==
  /\ pc = "rmfiles"
  /\ pc' = "drain"
  /\ UNCHANGED <<param, res, drvdata, user, net, hw, oops, left>>

\* device_remove_file lets no store in any more,
RemoveFiles ==
  /\ pc = "rmfiles"
  /\ files' = FALSE
  /\ pc' = "drain"
  /\ UNCHANGED <<param, res, drvdata, op, net, hw, oops, left>>

\* and waits for the one that runs.
RemoveDrain ==
  /\ pc = "drain" /\ op = "none"
  /\ pc' = "unregister"
  /\ left' = FALSE
  /\ UNCHANGED <<param, res, drvdata, user, net, hw, oops>>

\* unregister_netdev calls mts_stop if the interface is up; then the interrupt
\* and the bus master bit are given up.  Nothing of it without a net_device
\* that is registered.
RemoveUnregister ==
  /\ pc = "unregister"
  /\ IF registered
     THEN /\ registered' = FALSE /\ up' = FALSE /\ polling' = FALSE
          /\ IF up THEN MacStop ELSE UNCHANGED oops
          /\ res' = res \ {"irq", "vectors"}
          /\ master' = FALSE
     ELSE UNCHANGED <<net, oops, res, master>>
  /\ pc' = "macstop"
  /\ UNCHANGED <<param, drvdata, user, ringreg, left>>

RemoveMacStop ==
  /\ pc = "macstop"
  /\ MacStop
  /\ pc' = "freemem"
  /\ UNCHANGED <<param, res, drvdata, user, net, hw, left>>

\* mts_free_rings; the rest is the tail of the goto chain.
RemoveFreeRings ==
  /\ Release("freemem", {"rings"}, "unmap")
  /\ ringreg' = FreedRing
  /\ UNCHANGED master

-----------------------------------------------------------------------------
(* mts_open and mts_stop, called under RTNL while the net_device is registered *)

\* Neither the MAC cores nor the rings are programmed again.
Open ==
  /\ pc = "bound" /\ registered /\ ~up
  /\ up' = TRUE
  /\ polling' \in BOOLEAN
  /\ UNCHANGED <<param, pc, res, drvdata, user, registered, hw, oops, left>>

\* Mutant: the poll timer is left armed.
StopKeepsTimer ==
  /\ pc = "bound" /\ up
  /\ up' = FALSE
  /\ MacStop
  /\ UNCHANGED <<param, pc, res, drvdata, user, registered, polling, hw, left>>

Stop ==
  /\ pc = "bound" /\ up
  /\ up' = FALSE /\ polling' = FALSE
  /\ MacStop
  /\ UNCHANGED <<param, pc, res, drvdata, user, registered, hw, left>>

-----------------------------------------------------------------------------
(* The sysfs stores *)

\* A store that finds no driver data returns at once.  trigger_rx_clean follows
\* mp->rx_ring untested, the RMU sender tests mp->tx_ring, and trigger_pci sets
\* PCI_COMMAND_MASTER.
OpStart(k) ==
  /\ files /\ op = "none" /\ drvdata
  /\ op' = k
  /\ master' = (master \/ k = "pci")
  /\ oops' = (oops \/ (k = "rx_clean" /\ "rings" \notin res))
  /\ UNCHANGED <<param, pc, res, drvdata, files, net, ringreg, left>>

OpEnd ==
  /\ op # "none"
  /\ op' = "none"
  /\ UNCHANGED <<param, pc, res, drvdata, files, net, hw, oops, left>>

-----------------------------------------------------------------------------
Probe ==
  \/ ProbeEnable \/ ProbeRegions \/ ProbeNetdev \/ ProbeMap \/ ProbeData \/ ProbeMask \/ ProbeRings
  \/ ProbeProgram \/ ProbeMac \/ ProbeMaster \/ ProbeVectors \/ ProbeIrq \/ ProbeRegister
Unwind ==
  \/ FreeIrq \/ FreeVectors \/ FreeRingsOnError \/ Unmap \/ FreeNetdev \/ ReleaseRegions
  \/ DisableDevice \/ Cleanup
Remove == RemoveFiles \/ RemoveDrain \/ RemoveUnregister \/ RemoveMacStop \/ RemoveFreeRings

Life ==
  \/ Bind \/ Probe \/ Unwind \/ Unbind \/ Remove
  \/ Open \/ Stop
  \/ \E k \in env.ops : OpStart(k)
  \/ OpEnd

\* After an oops the thread that holds the device is gone and nothing goes on.
Next == ~oops /\ Life

Spec == Init /\ [][Next]_vars

\* The driver core's thread goes on, and a store that sleeps wakes up.
FairSpec == Spec /\ WF_vars(Probe \/ Unwind \/ Remove) /\ WF_vars(OpEnd)

-----------------------------------------------------------------------------
LifeTypeOK ==
  /\ stage \in Stages /\ reset \in ForceResets /\ env \in Envs
  /\ pc \in {"unbound", "bound"} \cup ProbeSteps \cup Unwinding \cup Removing
  /\ res \subseteq Resources
  /\ op \in env.ops \cup {"none"}
  /\ {drvdata, files, registered, up, polling, master, oops, left} \subseteq BOOLEAN
  /\ ringreg \in {"orbis", "rings", "freed"}

At(steps) == pc \in steps

\* What trigger_pci can do to the bus master bit that the order of the probe does not.
Pci == "pci" \in env.ops

\* Whatever step of the probe fails and however often the device is bound and
\* removed: once the driver is gone it holds nothing, and neither the poll timer nor
\* the interrupt is left.  Only a probe that failed late leaves something: the sysfs
\* files (mts.c:2918-2932 does not remove them), and through them the bus master bit.
NothingHeldWhenUnbound ==
  pc = "unbound" =>
    /\ res = {} /\ ~registered /\ ~up /\ ~polling /\ ~drvdata
    /\ files => left
    /\ master => left /\ Pci

\* The reason mts.c:32-37 gives for the order of the probe: the device masters the
\* bus only while the ring registers point to rings the driver holds.  It is so but
\* for trigger_pci: at stages 2 and 3 mts_remove frees the rings with the bit set, and
\* the files a failed probe left let trigger_pci set it at any time.
MasterOverRings ==
  master => \/ "rings" \in res /\ ringreg = "rings"
            \/ Pci /\ left
            \/ Pci /\ stage \in {2, 3} /\ At({"unmap", "freedev", "release", "disable"})

\* No memory is freed under those who use it: the poll timer and the interrupt
\* handler need the net_device, the registers and the rings, and a sysfs store that
\* sleeps needs the net_device and the registers when it wakes up, unless its file is
\* one that a failed probe left.
UsersHaveMemory ==
  /\ polling \/ "irq" \in res => {"netdev", "regs", "rings"} \subseteq res
  /\ op # "none" => {"netdev", "regs"} \subseteq res \/ left

\* When a NULL ring pointer is followed, by mts_tx_drain_force in an mts_mac_stop or
\* by mts_rx_clean in trigger_rx_clean: in every mts_remove below stage 2, although
\* mts.c:22 calls stage 0 harmless; in every probe with force_mac_reset that gets that
\* far; through a file that a failed probe left; and never else.
NullRings ==
  /\ oops => \/ left
             \/ stage < 2 /\ pc = "freemem"
             \/ stage >= 2 /\ reset /\ At({"rings", "unmap"})
  /\ stage < 2 /\ pc = "freemem" => oops
  /\ reset /\ pc = "rings" => oops

\* From stage 2 on mts_remove comes to its end although it waits for the sysfs stores;
\* below it always ends in the NULL pointer.
RemoveFinishes ==
  /\ pc \in Removing /\ stage >= 2 ~> pc = "unbound"
  /\ pc \in Removing /\ stage < 2 ~> oops

-----------------------------------------------------------------------------
(* The inductive strengthening: what is held at every step. *)

HasDevice == ~At({"unbound", "enable", "cleanup"})
HasRegions == HasDevice /\ ~At({"regions", "disable"})
HasNetdev == HasRegions /\ ~At({"netdev", "release"})
HasRegs == HasNetdev /\ ~At({"map", "freedev"})
HasRings ==
  HasRegs /\ ~At({"data", "mask", "rings", "unmap"}) /\ (At({"bound"} \cup Removing) => stage >= 2)
Registered4 == At({"bound", "rmfiles", "drain", "unregister"}) /\ stage = 4
HasVectors == At({"irq", "register", "freeirq", "freeirqs"}) \/ Registered4
HasIrq == HasVectors /\ ~At({"irq", "freeirqs"})

HeldInv ==
  /\ "device" \in res <=> HasDevice
  /\ "regions" \in res <=> HasRegions
  /\ "netdev" \in res <=> HasNetdev
  /\ "regs" \in res <=> HasRegs
  /\ ("glue" \in res \/ "bar4" \in res) => HasRegs
  /\ "rings" \in res <=> HasRings
  /\ "vectors" \in res <=> HasVectors
  /\ "irq" \in res <=> HasIrq

Late == At({"master", "vectors", "irq", "register", "freeirq", "freeirqs", "freerings"})

NetInv ==
  /\ registered <=> Registered4
  /\ (up => registered) /\ (polling => up)
  /\ At({"mac"}) => stage >= 3
  /\ Late => stage = 4
  /\ At({"mask", "rings", "program", "rmfiles", "drain"}) => stage >= 2
  /\ At({"unbound"}) => ~drvdata

\* Who set the bus master bit.
MasterInv ==
  /\ HasRings /\ ~At({"program"}) => ringreg = "rings"
  /\ master => \/ Late \/ Registered4
               \/ Pci /\ left
               \/ Pci /\ stage = 4 /\ At({"mac"})
               \/ Pci /\ stage \in {2, 3} /\ At({"mac", "bound", "unmap", "freedev", "release", "disable"} \cup Removing)

\* The sysfs stores: one runs only while its file exists or is being removed, and
\* until a probe fails late that is between mts_program_rings and the end of
\* device_remove_file.
StoreInv ==
  /\ op # "none" => files \/ At({"drain"})
  /\ left => stage = 4 /\ (files \/ At({"drain"}))
  /\ files /\ ~left =>
       At({"mac", "master", "vectors", "irq", "register", "bound", "rmfiles"}) /\ stage >= 2
  /\ At({"drain"}) => ~files

LifeInv == LifeTypeOK /\ HeldInv /\ NetInv /\ MasterInv
=============================================================================
