------------------------------ MODULE AhciPoll ------------------------------
(***************************************************************************)
(* The AHCI polling fallback of                                            *)
(* patches/ahci-baikal-polling-fallback.patch.  On Baikal the PCIe glue    *)
(* makes PxIE 0 after a while and no interrupt comes any more, so a timer  *)
(* looks at PxIS of every port each millisecond and calls the interrupt    *)
(* handler's ahci_port_intr itself.  It runs beside the interrupt handler, *)
(* the issuing of commands, libata's error handler (EH) and the removal of *)
(* the driver, on a machine with several CPUs.                             *)
(*                                                                         *)
(* libata and ahci_port_intr are not in the repository; they are modelled  *)
(* from the way the patch uses them: under ap->lock, which is host->lock,  *)
(* PxIS is cleared, the commands the controller no longer works on are     *)
(* looked up and completed.                                                *)
(***************************************************************************)
EXTENDS Naturals, FiniteSets

CONSTANTS
  N,          \* ports of the host
  Cmds        \* command slots of a port

ASSUME AhciAssumption == N \in Nat \ {0}

Ports == 1..N
Holders == {"timer", "irq"}

VARIABLES
  baikal,     \* the console is a Baikal
  glue,       \* function .7 (xhci-aeolia.c) or .2 (ahci.c)
  active,     \* commands libata waits for
  inflight,   \* commands the controller works on
  pxis, pxie, \* the interrupt status and enable registers of every port
  frozen,     \* ata_port_is_frozen
  lock,       \* holder of host->lock, or "free"
  at, port,   \* where the timer callback and the interrupt handler are, for which port
  done,       \* the commands they found completed
  enabled,    \* poll_enabled
  rm,         \* the step ahci_remove_one is at; 0: the driver is bound
  mapped      \* hpriv->mmio is mapped

regs == <<active, inflight, pxis, pxie, frozen>>
handlers == <<lock, at, port, done>>
life == <<baikal, glue, enabled, rm, mapped>>
vars == <<regs, handlers, life>>

Init ==
  /\ baikal \in BOOLEAN /\ glue \in BOOLEAN
  /\ active = [p \in Ports |-> {}] /\ inflight = [p \in Ports |-> {}]
  /\ pxis = [p \in Ports |-> FALSE] /\ pxie = [p \in Ports |-> TRUE]
  /\ frozen = [p \in Ports |-> FALSE]
  /\ lock = "free"
  /\ at = [h \in Holders |-> "idle"] /\ port = [h \in Holders |-> 1]
  /\ done = [h \in Holders |-> {}]
  /\ enabled = FALSE /\ rm = 0 /\ mapped = TRUE

-----------------------------------------------------------------------------
(* The timer. *)

\* ahci_baikal_start_poll_timer, after the host is active.
Start ==
  /\ baikal /\ ~enabled /\ rm = 0
  /\ enabled' = TRUE /\ at' = [at EXCEPT !["timer"] = "armed"]
  /\ UNCHANGED <<regs, lock, port, done, baikal, glue, rm, mapped>>

\* The next port, or the timer is armed again.
Onward ==
  /\ at' = [at EXCEPT !["timer"] = IF port["timer"] = N THEN "armed" ELSE "check"]
  /\ port' = [port EXCEPT !["timer"] = IF @ = N THEN 1 ELSE @ + 1]

TimerGo(s) == at' = [at EXCEPT !["timer"] = s] /\ UNCHANGED port

\* The millisecond is over.
Expire ==
  /\ at["timer"] = "armed"
  /\ TimerGo("check")
  /\ UNCHANGED <<regs, lock, done, life>>

\* A frozen port is passed over.
CheckFrozen ==
  /\ at["timer"] = "check"
  /\ IF frozen[port["timer"]] THEN Onward ELSE TimerGo("read")
  /\ UNCHANGED <<regs, lock, done, life>>

\* Mutant: HOST_IRQ_STAT in place of PxIS.
ReadHostStatus ==
  /\ at["timer"] = "read"
  /\ LET p == port["timer"] IN IF pxis[p] /\ pxie[p] THEN TimerGo("lock") ELSE Onward
  /\ UNCHANGED <<regs, lock, done, life>>

\* readl(PORT_IRQ_STAT).
ReadStatus ==
  /\ at["timer"] = "read"
  /\ IF pxis[port["timer"]] THEN TimerGo("lock") ELSE Onward
  /\ UNCHANGED <<regs, lock, done, life>>

\* Mutant: ahci_port_intr called without ap->lock.
TimerNoLock ==
  /\ at["timer"] = "lock"
  /\ TimerGo("ack")
  /\ UNCHANGED <<regs, lock, done, life>>

\* spin_lock_irqsave(ap->lock).
TimerLock ==
  /\ at["timer"] = "lock" /\ lock = "free"
  /\ lock' = "timer"
  /\ TimerGo("ack")
  /\ UNCHANGED <<regs, done, life>>

\* Acknowledge at host level and spin_unlock_irqrestore.
TimerUnlock ==
  /\ at["timer"] = "unlock"
  /\ lock' = "free"
  /\ Onward
  /\ UNCHANGED <<regs, done, life>>

-----------------------------------------------------------------------------
(* ahci_port_intr, for the timer and for the interrupt handler. *)

Ack(h) ==
  /\ at[h] = "ack"
  /\ pxis' = [pxis EXCEPT ![port[h]] = FALSE]
  /\ at' = [at EXCEPT ![h] = "scan"]
  /\ UNCHANGED <<active, inflight, pxie, frozen, lock, port, done, life>>

Scan(h) ==
  /\ at[h] = "scan"
  /\ done' = [done EXCEPT ![h] = active[port[h]] \ inflight[port[h]]]
  /\ at' = [at EXCEPT ![h] = "complete"]
  /\ UNCHANGED <<regs, lock, port, life>>

Complete(h) ==
  /\ at[h] = "complete"
  /\ active' = [active EXCEPT ![port[h]] = @ \ done[h]]
  /\ done' = [done EXCEPT ![h] = {}]
  /\ at' = [at EXCEPT ![h] = "unlock"]
  /\ UNCHANGED <<inflight, pxis, pxie, frozen, lock, port, life>>

-----------------------------------------------------------------------------
(* The interrupt handler, the controller, libata. *)

\* An interrupt is raised while a port has PxIS & PxIE.  Nothing in the patch shows
\* when the handler is freed.
IrqEnter(p) ==
  /\ at["irq"] = "idle" /\ lock = "free"
  /\ pxis[p] /\ pxie[p]
  /\ lock' = "irq" /\ at' = [at EXCEPT !["irq"] = "ack"] /\ port' = [port EXCEPT !["irq"] = p]
  /\ UNCHANGED <<regs, done, life>>

IrqLeave ==
  /\ at["irq"] = "unlock"
  /\ lock' = "free" /\ at' = [at EXCEPT !["irq"] = "idle"]
  /\ UNCHANGED <<regs, port, done, life>>

\* A command is issued, under the lock.
Issue(p, c) ==
  /\ lock = "free" /\ ~frozen[p] /\ rm = 0
  /\ c \notin active[p] \cup inflight[p]
  /\ active' = [active EXCEPT ![p] = @ \cup {c}]
  /\ inflight' = [inflight EXCEPT ![p] = @ \cup {c}]
  /\ UNCHANGED <<pxis, pxie, frozen, handlers, life>>

\* The controller finishes a command; PxIS latches, whatever PxIE is.
Finish(p, c) ==
  /\ c \in inflight[p]
  /\ inflight' = [inflight EXCEPT ![p] = @ \ {c}]
  /\ pxis' = [pxis EXCEPT ![p] = TRUE]
  /\ UNCHANGED <<active, pxie, frozen, handlers, life>>

\* The PCIe glue of the Baikal: PxIE becomes 0.
DropEnable(p) ==
  /\ baikal /\ pxie[p]
  /\ pxie' = [pxie EXCEPT ![p] = FALSE]
  /\ UNCHANGED <<active, inflight, pxis, frozen, handlers, life>>

\* A command timed out: under the lock EH takes the commands and freezes the port.
Freeze(p) ==
  /\ lock = "free" /\ ~frozen[p] /\ active[p] # {}
  /\ frozen' = [frozen EXCEPT ![p] = TRUE] /\ pxie' = [pxie EXCEPT ![p] = FALSE]
  /\ active' = [active EXCEPT ![p] = {}]
  /\ UNCHANGED <<inflight, pxis, handlers, life>>

\* EH has reset the port and thaws it.
Thaw(p) ==
  /\ lock = "free" /\ frozen[p]
  /\ frozen' = [frozen EXCEPT ![p] = FALSE] /\ pxie' = [pxie EXCEPT ![p] = TRUE]
  /\ inflight' = [inflight EXCEPT ![p] = {}] /\ pxis' = [pxis EXCEPT ![p] = FALSE]
  /\ UNCHANGED <<active, handlers, life>>

-----------------------------------------------------------------------------
(* ahci_remove_one. *)

\* Mutant: iounmap before ahci_baikal_stop_poll_timer.
RemovalUnmapFirst ==
  IF glue THEN <<"detach", "unmap", "stop">> ELSE <<"stop", "detach", "unmap">>

\* The order of the steps in xhci-aeolia.c and in ahci.c.
Removal ==
  IF glue THEN <<"detach", "stop", "unmap">> ELSE <<"stop", "detach", "unmap">>

Remove ==
  /\ rm = 0 /\ (baikal => enabled)
  /\ rm' = 1
  /\ UNCHANGED <<regs, handlers, baikal, glue, enabled, mapped>>

Doing(s) == rm \in 1..3 /\ Removal[rm] = s /\ rm' = rm + 1

\* ata_host_detach: EH ends every command, no new one is issued.
Detach ==
  /\ Doing("detach") /\ lock = "free"
  /\ active' = [p \in Ports |-> {}] /\ inflight' = [p \in Ports |-> {}]
  /\ UNCHANGED <<pxis, pxie, frozen, handlers, baikal, glue, enabled, mapped>>

\* ahci_baikal_stop_poll_timer: hrtimer_cancel waits for a callback that runs.
Stop ==
  /\ Doing("stop")
  /\ enabled => at["timer"] = "armed"
  /\ at' = [at EXCEPT !["timer"] = "idle"]
  /\ UNCHANGED <<regs, lock, port, done, baikal, glue, enabled, mapped>>

\* iounmap.
Unmap ==
  /\ Doing("unmap")
  /\ mapped' = FALSE
  /\ UNCHANGED <<regs, handlers, baikal, glue, enabled>>

-----------------------------------------------------------------------------
TimerStep ==
  \/ Expire \/ CheckFrozen \/ ReadStatus \/ TimerLock \/ TimerUnlock
  \/ Ack("timer") \/ Scan("timer") \/ Complete("timer")

IrqStep == (\E p \in Ports : IrqEnter(p)) \/ IrqLeave \/ Ack("irq") \/ Scan("irq") \/ Complete("irq")

RemoveStep == Detach \/ Stop \/ Unmap

Next ==
  \/ Start \/ TimerStep \/ IrqStep \/ Remove \/ RemoveStep
  \/ \E p \in Ports : DropEnable(p) \/ Freeze(p) \/ Thaw(p)
  \/ \E p \in Ports, c \in Cmds : Issue(p, c) \/ Finish(p, c)

Spec == Init /\ [][Next]_vars

\* The timer expires and spinlocks are fair (queued), an interrupt that is enabled is
\* served for every port, a probe and a removal go on to their end.
FairSpec ==
  /\ Spec
  /\ WF_vars(Start) /\ SF_vars(TimerStep) /\ WF_vars(IrqStep) /\ SF_vars(RemoveStep)
  /\ \A p \in Ports : SF_vars(IrqEnter(p))

-----------------------------------------------------------------------------
TypeOK ==
  /\ baikal \in BOOLEAN /\ glue \in BOOLEAN /\ enabled \in BOOLEAN /\ mapped \in BOOLEAN
  /\ active \in [Ports -> SUBSET Cmds] /\ inflight \in [Ports -> SUBSET Cmds]
  /\ pxis \in [Ports -> BOOLEAN] /\ pxie \in [Ports -> BOOLEAN]
  /\ frozen \in [Ports -> BOOLEAN]
  /\ lock \in {"free", "timer", "irq"}
  /\ at \in [Holders -> {"idle", "armed", "check", "read", "lock", "ack", "scan", "complete", "unlock"}]
  /\ port \in [Holders -> Ports] /\ done \in [Holders -> SUBSET Cmds]
  /\ rm \in 0..4

\* A command is completed once: what the timer or the interrupt handler is about to
\* complete libata still waits for, although the other one, EH and new commands
\* change the port meanwhile.
CompletedOnce == \A h \in Holders : at[h] = "complete" => done[h] \subseteq active[port[h]]

\* The timer callback touches no register that is unmapped: the removal waits for one
\* that runs on another CPU, on both functions.
TouchesMapped == at["timer"] \in {"read", "ack", "scan", "complete", "unlock"} => mapped

\* A command the controller has finished is completed or taken over by EH, although
\* the glue may switch the port's interrupts off for good.
FinishedIsSeen ==
  \A p \in Ports, c \in Cmds : c \in active[p] \ inflight[p] ~> c \notin active[p]

-----------------------------------------------------------------------------
(* The inductive strengthening. *)

Locked == {"ack", "scan", "complete", "unlock"}

\* Whoever is inside ahci_port_intr holds the lock, and the other way round.
LockInv ==
  /\ \A h \in Holders : at[h] \in Locked <=> lock = h
  /\ at["irq"] \in Locked \cup {"idle"}

\* The timer runs only between its start and its stop, which comes before the unmapping.
LifeInv ==
  /\ ~enabled => at["timer"] = "idle"
  /\ rm >= (IF glue THEN 3 ELSE 2) => at["timer"] = "idle"
  /\ ~mapped => rm = 4

AhciInv == TypeOK /\ LockInv /\ LifeInv /\ CompletedOnce
=============================================================================
