------------------------------ MODULE MtsMdio ------------------------------
(***************************************************************************)
(* The MDIO bus of the Baikal GBE (drivers_mts/mts.c): one register of     *)
(* BAR0 takes the commands, answers with bit 15 and holds the data in its  *)
(* upper half.  Clause 45 calls select a register with an ADDR frame and   *)
(* then access it; Clause 22 calls name it in the command.  A call that    *)
(* polls MTS_MDIO_RETRIES times in vain returns -ETIMEDOUT and abandons    *)
(* its command.  The source does not say what the controller does with it: *)
(* here it carries it out at any later time, also during another call's    *)
(* wait, or forgets it.                                                    *)
(*                                                                         *)
(* One call is under way at a time; its callers (mts_mdio_probe,           *)
(* mts_phy_wakeup, mts_phy_calibration, the sysfs stores) are any sequence *)
(* of calls.                                                               *)
(***************************************************************************)
EXTENDS Naturals

CONSTANTS
  Packed,   \* the packed addresses Clause 45 calls are given
  Regs22,   \* the register numbers Clause 22 calls are given
  Vals,     \* the values written
  Fresh,    \* what a register of the PHY holds before it is written
  MaxLate   \* bound: the abandoned commands that may still be carried out

ASSUME MdioAssumption ==
  Packed \cup Regs22 \cup Vals \cup {Fresh} \subseteq Nat /\ MaxLate \in Nat

VARIABLES
  ready,    \* bit 15 of BAR0[0x00], MTS_MDIO_READY
  data,     \* its upper half
  pending,  \* the command written last, while its caller waits for it
  late,     \* the commands abandoned and not yet carried out
  latch,    \* the register the last ADDR frame selected in every device
  phy,      \* the registers of the PHY
  pc, call, \* the call under way
  clean,    \* history: no abandoned command was left when it was entered
  shadow    \* what may be in every register as far as the callers can know

vars == <<ready, data, pending, late, latch, phy, pc, call, clean, shadow>>

Addrs == [clause : {45}, addr : Packed] \cup [clause : {22}, addr : Regs22]
Calls == [op : {"read"}, to : Addrs, val : {0}] \cup [op : {"write"}, to : Addrs, val : Vals]

\* mts_mdio_*_packed take the device from the low byte and the register from the
\* 16 bits above it, whatever lies above those; the device field of a command has
\* five bits.
Devad(a) == IF a.clause = 45 THEN (a.addr % 256) % 32 ELSE 0
Reg(a) == IF a.clause = 45 THEN (a.addr \div 256) % 65536 ELSE a.addr % 32

\* The register of the PHY a call reaches.
Target(a) == [clause |-> a.clause, devad |-> Devad(a), reg |-> Reg(a)]

PhyRegs == {Target(a) : a \in Addrs}
Regs45 == {r \in PhyRegs : r.clause = 45}

\* Every device has one of its registers selected, if only by the last boot.
Latches ==
  {l \in [{r.devad : r \in Regs45} -> {r.reg : r \in Regs45}] :
     \A d \in DOMAIN l : [clause |-> 45, devad |-> d, reg |-> l[d]] \in Regs45}

Command(op, a, v) == [op |-> op, to |-> Target(a), val |-> v]
Nothing == [op |-> "none"]
Places == 1 .. MaxLate

\* The registers a command can land in, if ADDR frames come between: those of its
\* device under Clause 45, its own under Clause 22.
Lands(t) == {r \in PhyRegs : r.clause = t.clause /\ (t.clause = 22 => r = t) /\ r.devad = t.devad}

\* What may be in the registers once the value of the call may land.
MayLand == [r \in PhyRegs |-> IF r \in Lands(Target(call.to)) THEN shadow[r] \cup {call.val} ELSE shadow[r]]

Init ==
  /\ ready \in BOOLEAN /\ data = 0 /\ pending = Nothing
  /\ late = [k \in Places |-> Nothing]
  /\ phy = [r \in PhyRegs |-> Fresh]
  /\ latch \in Latches
  /\ pc = "idle" /\ call \in {c \in Calls : c.op = "read"}
  /\ clean = TRUE
  /\ shadow = [r \in PhyRegs |-> {Fresh}]

-----------------------------------------------------------------------------
\* A function of the driver is entered.  The PHY address of a Clause 22 call is
\* ignored.
Enter(c) ==
  /\ pc = "idle"
  /\ call' = c
  /\ clean' = (\A k \in Places : late[k] = Nothing)
  /\ pc' = IF c.to.clause = 45 THEN "clear1" ELSE "clear2"
  /\ UNCHANGED <<ready, data, pending, late, latch, phy, shadow>>

\* MTS_MDIO_CLEAR_BUSY is written.
ClearBusy ==
  /\ pc \in {"clear1", "clear2"}
  /\ ready' = FALSE
  /\ pc' = IF pc = "clear1" THEN "addr" ELSE "cmd"
  /\ UNCHANGED <<data, pending, late, latch, phy, call, clean, shadow>>

\* The command written last is left behind, if it was not carried out: to be carried
\* out later, if the bound leaves room.
Abandon ==
  \/ \E k \in Places : late[k] = Nothing /\ late' = [late EXCEPT ![k] = pending]
  \/ (pending = Nothing \/ \A k \in Places : late[k] # Nothing) /\ late' = late

\* Mutant: Clause 45 without its ADDR frame.
WriteAddrSkipped ==
  /\ pc = "addr"
  /\ pc' = "clear2"
  /\ UNCHANGED <<ready, data, pending, late, latch, phy, call, clean, shadow>>

\* The ADDR frame, with the register in the upper half.
WriteAddr ==
  /\ pc = "addr"
  /\ pending' = Command("addr", call.to, 0)
  /\ ready' = FALSE /\ data' = Reg(call.to)
  /\ pc' = "wait1"
  /\ UNCHANGED <<late, latch, phy, call, clean, shadow>>

\* The access, with the value to be written in the upper half.  The wait for the ADDR
\* frame may have been ended by an abandoned command.
WriteCmd ==
  /\ pc = "cmd"
  /\ Abandon
  /\ pending' = Command(call.op, call.to, call.val)
  /\ ready' = FALSE /\ data' = call.val
  /\ pc' = "wait2"
  /\ shadow' = IF call.op = "write" /\ ~clean THEN MayLand ELSE shadow
  /\ UNCHANGED <<latch, phy, call, clean>>

\* Mutant: mts_mdio_wait_write as it was before the audit of its comment, with the
\* inverted test of bit 15.
WaitDoneInverted ==
  /\ pc \in {"wait1", "wait2"} /\ (ready <=> pc = "wait1")
  /\ pc' = IF pc = "wait1" THEN "clear2" ELSE "take"
  /\ UNCHANGED <<ready, data, pending, late, latch, phy, call, clean, shadow>>

\* mts_mdio_wait and mts_mdio_wait_write find bit 15 set.
WaitDone ==
  /\ pc \in {"wait1", "wait2"} /\ ready
  /\ pc' = IF pc = "wait1" THEN "clear2" ELSE "take"
  /\ UNCHANGED <<ready, data, pending, late, latch, phy, call, clean, shadow>>

\* Mutant: the poll has no limit.
WaitTimeoutNever == FALSE /\ UNCHANGED vars

\* They do not: -ETIMEDOUT.  A write whose command was issued may still happen, in any
\* register an ADDR frame selects by then.
WaitTimeout ==
  /\ pc \in {"wait1", "wait2"} /\ ~ready
  /\ pc' = "idle"
  /\ Abandon /\ pending' = Nothing
  /\ shadow' = IF pc = "wait2" /\ call.op = "write" THEN MayLand ELSE shadow
  /\ UNCHANGED <<ready, data, latch, phy, call, clean>>

\* The call returns 0, a read with the upper half of the register: from now on
\* the callers expect that value, or the one written, if nothing was left to
\* interfere.
Take ==
  /\ pc = "take"
  /\ pc' = "idle"
  /\ Abandon /\ pending' = Nothing
  /\ shadow' = IF clean
               THEN [shadow EXCEPT ![Target(call.to)] = {IF call.op = "read" THEN data ELSE call.val}]
               ELSE shadow
  /\ UNCHANGED <<ready, data, latch, phy, call, clean>>

-----------------------------------------------------------------------------
\* The register the controller reaches for a command: under Clause 45 the one the
\* device has latched.
Reached(t) == IF t.clause = 45 THEN [t EXCEPT !.reg = latch[t.devad]] ELSE t

\* The controller carries out a command and sets bit 15.
Exec(c) ==
  /\ ready' = TRUE
  /\ latch' = IF c.op = "addr" THEN [latch EXCEPT ![c.to.devad] = c.to.reg] ELSE latch
  /\ phy' = IF c.op = "write" THEN [phy EXCEPT ![Reached(c.to)] = c.val] ELSE phy
  /\ data' = IF c.op = "read" THEN phy[Reached(c.to)] ELSE data
  /\ UNCHANGED <<pc, call, clean, shadow>>

HwExec == pending # Nothing /\ Exec(pending) /\ pending' = Nothing /\ UNCHANGED late

\* The same for a command whose caller has gone.
HwExecLate(k) ==
  late[k] # Nothing /\ Exec(late[k]) /\ late' = [late EXCEPT ![k] = Nothing] /\ UNCHANGED pending

\* Or such a command never happens, because a later frame replaced it.
HwForget(k) ==
  /\ late[k] # Nothing
  /\ late' = [late EXCEPT ![k] = Nothing]
  /\ UNCHANGED <<ready, data, pending, latch, phy, pc, call, clean, shadow>>

Driver == ClearBusy \/ WriteAddr \/ WriteCmd \/ WaitDone \/ WaitTimeout \/ Take

Hardware == HwExec \/ \E k \in Places : HwExecLate(k) \/ HwForget(k)

Next == (\E c \in Calls : Enter(c)) \/ Driver \/ Hardware

Spec == Init /\ [][Next]_vars

\* The polls are bounded and busy: the driver's thread goes on.
FairSpec == Spec /\ WF_vars(Driver)

-----------------------------------------------------------------------------
\* The registers behave as registers although calls time out and what they left
\* behind may happen late: a read that was entered with nothing left behind, and is
\* about to return 0, returns the value of the last such call to the same register, or
\* of a write since then that timed out, or was made with something left behind, in a
\* register of the same device.  A register is what a packed address reaches:
\* 0x22001e and 0x122001e (mts.c:884 and 963) are one.
ReadsBack == pc = "take" /\ call.op = "read" /\ clean => data \in shadow[Target(call.to)]

\* Every call comes back, whether the controller answers or not.
CallReturns == pc # "idle" ~> pc = "idle"

-----------------------------------------------------------------------------
(* The inductive strengthening of ReadsBack. *)

Commands == [op : {"addr"}, to : Regs45, val : Nat] \cup [op : {"read", "write"}, to : PhyRegs, val : Nat]

MdioTypeOK ==
  /\ ready \in BOOLEAN /\ data \in Nat /\ clean \in BOOLEAN
  /\ pending \in Commands \cup {Nothing}
  /\ late \in [Places -> Commands \cup {Nothing}]
  /\ latch \in Latches
  /\ phy \in [PhyRegs -> Nat]
  /\ pc \in {"idle", "clear1", "addr", "wait1", "clear2", "cmd", "wait2", "take"}
  /\ call \in Calls
  /\ shadow \in [PhyRegs -> SUBSET Nat]

\* Where the call is, and, if nothing was left behind when it was entered, what the
\* controller has done for it.
Selected == Reached(Target(call.to)) = Target(call.to)

PhaseInv ==
  /\ pc \in {"idle", "clear1", "addr"} => pending = Nothing
  /\ pc \in {"clear1", "addr", "wait1"} => call.to.clause = 45
  /\ clean /\ pc # "idle" => \A k \in Places : late[k] = Nothing
  /\ clean /\ pc = "wait1" =>
       IF ready THEN pending = Nothing /\ Selected ELSE pending = Command("addr", call.to, 0)
  /\ clean /\ pc \in {"clear2", "cmd"} => pending = Nothing /\ Selected
  /\ clean /\ pc \in {"wait2", "take"} => Selected
  /\ clean /\ pc = "wait2" /\ ~ready => pending = Command(call.op, call.to, call.val)
  /\ pc = "take" => ready
  /\ clean /\ pc \in {"wait2", "take"} /\ ready =>
       /\ pending = Nothing
       /\ IF call.op = "read" THEN data = phy[Target(call.to)] ELSE phy[Target(call.to)] = call.val

\* A register holds what its callers expect, or what the call under way wrote; a
\* write left behind, or made with something left behind, is expected wherever it can
\* land.
Expected(c) == c.op = "write" => \A r \in Lands(c.to) : c.val \in shadow[r]

ShadowInv ==
  /\ \A r \in PhyRegs :
       \/ phy[r] \in shadow[r]
       \/ clean /\ r = Target(call.to) /\ pc \in {"wait2", "take"} /\ ready /\ call.op = "write"
  /\ \A k \in Places : Expected(late[k])
  /\ ~clean => Expected(pending)

MdioInv == MdioTypeOK /\ PhaseInv /\ ShadowInv
=============================================================================
