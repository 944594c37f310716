--------------------------- MODULE MtsMdioProofs ---------------------------
(***************************************************************************)
(* The MDIO bus for any addresses and any values, however late the         *)
(* controller carries out the commands that were abandoned.                *)
(***************************************************************************)
EXTENDS MtsMdio, TLAPS

\* What a target is.
LEMMA TargetIn == \A a \in Addrs : Target(a) \in PhyRegs /\ Target(a).clause = a.clause
BY DEF PhyRegs, Target

LEMMA RegNat == \A a \in Addrs : Reg(a) \in Nat
<1> SUFFICES ASSUME NEW a \in Addrs PROVE Reg(a) \in Nat
  OBVIOUS
<1>1. a.addr \in Nat
  BY MdioAssumption DEF Addrs
<1>2. a.addr \div 256 \in Nat
  BY <1>1
<1>3. (a.addr \div 256) % 65536 \in Nat /\ a.addr % 32 \in Nat
  BY <1>1, <1>2
<1> QED BY <1>3 DEF Reg

\* A Clause 45 target names a device with a latch.
LEMMA LatchDomain ==
  ASSUME NEW r \in PhyRegs, r.clause = 45, latch \in Latches
  PROVE  r.devad \in DOMAIN latch /\ [clause |-> 45, devad |-> r.devad, reg |-> latch[r.devad]] \in PhyRegs
BY DEF Latches, Regs45

\* A target is made of its three fields.
LEMMA TargetFields ==
  \A r \in PhyRegs : r = [clause |-> r.clause, devad |-> r.devad, reg |-> r.reg] /\ r.clause \in {22, 45}
BY DEF PhyRegs, Target, Addrs

\* The controller reaches a register of the PHY.
LEMMA ReachedIn ==
  ASSUME latch \in Latches, NEW r \in PhyRegs
  PROVE  Reached(r) \in PhyRegs
<1>1. CASE r.clause = 45
  <2>1. Reached(r) = [clause |-> 45, devad |-> r.devad, reg |-> latch[r.devad]]
    BY <1>1, TargetFields DEF Reached
  <2> QED BY <1>1, <2>1, LatchDomain
<1>2. CASE r.clause # 45
  BY <1>2 DEF Reached
<1> QED BY <1>1, <1>2

\* It reaches one of the registers the command can land in.
LEMMA ReachedLands ==
  ASSUME latch \in Latches, NEW r \in PhyRegs
  PROVE  Reached(r) \in Lands(r)
<1>1. Reached(r) \in PhyRegs
  BY ReachedIn
<1>2. Reached(r).clause = r.clause /\ Reached(r).devad = r.devad /\ (r.clause = 22 => Reached(r) = r)
  <2>1. CASE r.clause = 45
    <3>1. Reached(r) = [clause |-> 45, devad |-> r.devad, reg |-> latch[r.devad]]
      BY <2>1, TargetFields DEF Reached
    <3> QED BY <2>1, <3>1
  <2>2. CASE r.clause # 45
    BY <2>2 DEF Reached
  <2> QED BY <2>1, <2>2
<1> QED BY <1>1, <1>2 DEF Lands

\* The commands the calls give.
LEMMA CommandIn ==
  ASSUME MdioTypeOK
  PROVE  /\ call.to \in Addrs /\ call.op \in {"read", "write"} /\ call.val \in Nat
         /\ Target(call.to) \in PhyRegs /\ Target(call.to).clause = call.to.clause
         /\ Command(call.op, call.to, call.val) \in Commands
         /\ call.to.clause = 45 => Command("addr", call.to, 0) \in Commands
<1>1. call.to \in Addrs /\ call.op \in {"read", "write"} /\ call.val \in Nat
  BY MdioAssumption DEF MdioTypeOK, Calls
<1>2. Target(call.to) \in PhyRegs /\ Target(call.to).clause = call.to.clause
  BY <1>1, TargetIn
<1>3. Command(call.op, call.to, call.val) \in Commands
  BY <1>1, <1>2 DEF Command, Commands
<1>4. call.to.clause = 45 => Command("addr", call.to, 0) \in Commands
  BY <1>2 DEF Command, Commands, Regs45
<1> QED BY <1>1, <1>2, <1>3, <1>4

\* Abandoning adds at most the command written last.
LEMMA AbandonLate ==
  ASSUME MdioTypeOK, Abandon
  PROVE  /\ late' \in [Places -> Commands \cup {Nothing}]
         /\ \A k \in Places : late'[k] = late[k] \/ late'[k] = pending
BY DEF MdioTypeOK, Abandon

\* A value that may land is expected where it can, and nothing is forgotten.
LEMMA MayLandAdds ==
  ASSUME MdioTypeOK
  PROVE  /\ MayLand \in [PhyRegs -> SUBSET Nat]
         /\ \A r \in PhyRegs : shadow[r] \subseteq MayLand[r]
         /\ \A r \in Lands(Target(call.to)) : call.val \in MayLand[r]
<1>1. call.val \in Nat /\ Lands(Target(call.to)) \subseteq PhyRegs
  BY CommandIn DEF Lands
<1>2. shadow \in [PhyRegs -> SUBSET Nat]
  BY DEF MdioTypeOK
<1> QED BY <1>1, <1>2 DEF MayLand

\* Before the first call.
LEMMA InitInv == Init => MdioInv
<1> SUFFICES ASSUME Init PROVE MdioInv
  OBVIOUS
<1>1. MdioTypeOK
  <2>1. ready \in BOOLEAN /\ clean \in BOOLEAN
    BY Zenon DEF Init
  <2>2. late \in [Places -> Commands \cup {Nothing}]
    BY DEF Init
  <2>3. call \in Calls /\ latch \in Latches
    BY DEF Init
  <2>4. phy \in [PhyRegs -> Nat] /\ shadow \in [PhyRegs -> SUBSET Nat]
    BY MdioAssumption DEF Init
  <2> QED BY <2>1, <2>2, <2>3, <2>4 DEF Init, MdioTypeOK
<1>2. PhaseInv
  BY DEF Init, PhaseInv
<1>3. ShadowInv
  BY DEF Init, ShadowInv, Expected, Nothing
<1> QED BY <1>1, <1>2, <1>3 DEF MdioInv

\* The steps of a call keep the types.
LEMMA TypeStep ==
  ASSUME MdioTypeOK, PhaseInv, (\E c \in Calls : Enter(c)) \/ Driver
  PROVE  MdioTypeOK'
<1>1. ASSUME NEW c \in Calls, Enter(c) PROVE MdioTypeOK'
  <2>1. clean' \in BOOLEAN
    BY <1>1, Zenon DEF Enter
  <2> QED BY <1>1, <2>1 DEF Enter, MdioTypeOK
<1>2. CASE ClearBusy
  BY <1>2 DEF ClearBusy, MdioTypeOK
<1>3. CASE WriteAddr
  <2>1. call.to.clause = 45
    BY <1>3 DEF WriteAddr, PhaseInv
  <2>2. pending' \in Commands /\ data' \in Nat
    BY <1>3, <2>1, CommandIn, RegNat DEF WriteAddr
  <2> QED BY <1>3, <2>2 DEF WriteAddr, MdioTypeOK
<1>4. CASE WriteCmd
  <2>1. pending' \in Commands /\ data' \in Nat
    BY <1>4, CommandIn DEF WriteCmd
  <2>2. late' \in [Places -> Commands \cup {Nothing}]
    BY <1>4, AbandonLate DEF WriteCmd
  <2>3. shadow' \in [PhyRegs -> SUBSET Nat]
    BY <1>4, MayLandAdds DEF WriteCmd, MdioTypeOK
  <2> QED BY <1>4, <2>1, <2>2, <2>3 DEF WriteCmd, MdioTypeOK
<1>5. CASE WaitDone
  BY <1>5 DEF WaitDone, MdioTypeOK
<1>6. CASE WaitTimeout
  <2>2. late' \in [Places -> Commands \cup {Nothing}]
    BY <1>6, AbandonLate DEF WaitTimeout
  <2>3. shadow' \in [PhyRegs -> SUBSET Nat]
    BY <1>6, MayLandAdds DEF WaitTimeout, MdioTypeOK
  <2> QED BY <1>6, <2>2, <2>3 DEF WaitTimeout, MdioTypeOK
<1>7. CASE Take
  <2>2. late' \in [Places -> Commands \cup {Nothing}]
    BY <1>7, AbandonLate DEF Take
  <2>3. shadow' \in [PhyRegs -> SUBSET Nat]
    BY <1>7, CommandIn DEF Take, MdioTypeOK
  <2> QED BY <1>7, <2>2, <2>3 DEF Take, MdioTypeOK
<1> QED BY <1>1, <1>2, <1>3, <1>4, <1>5, <1>6, <1>7 DEF Driver

\* They keep track of where the call is.
LEMMA PhaseStep ==
  ASSUME MdioInv, (\E c \in Calls : Enter(c)) \/ Driver
  PROVE  PhaseInv'
<1> USE DEF PhaseInv, Selected, Reached
<1>0. MdioTypeOK /\ PhaseInv
  BY DEF MdioInv
<1>1. ASSUME NEW c \in Calls, Enter(c) PROVE PhaseInv'
  <2>1. c.to.clause \in {22, 45}
    BY DEF Calls, Addrs
  <2>2. /\ pc' = (IF c.to.clause = 45 THEN "clear1" ELSE "clear2") /\ call' = c
        /\ pending' = Nothing /\ late' = late /\ (clean' => \A k \in Places : late[k] = Nothing)
    BY <1>0, <1>1 DEF Enter
  <2>3. c.to.clause # 45 => Target(c.to).clause # 45
    BY TargetIn DEF Calls
  <2> QED BY <2>1, <2>2, <2>3
<1>2. CASE ClearBusy
  BY <1>0, <1>2 DEF ClearBusy
<1>3. CASE WriteAddr
  BY <1>0, <1>3, CommandIn DEF WriteAddr
<1>4. CASE WriteCmd
  <2>1. clean => \A k \in Places : late'[k] = Nothing
    BY <1>0, <1>4, AbandonLate DEF WriteCmd
  <2> QED BY <1>0, <1>4, <2>1 DEF WriteCmd
<1>5. CASE WaitDone
  BY <1>0, <1>5 DEF WaitDone
<1>6. CASE WaitTimeout
  BY <1>0, <1>6 DEF WaitTimeout
<1>7. CASE Take
  BY <1>0, <1>7 DEF Take
<1> QED BY <1>1, <1>2, <1>3, <1>4, <1>5, <1>6, <1>7 DEF Driver

\* They keep track of what the callers may expect.
LEMMA ShadowStep ==
  ASSUME MdioInv, (\E c \in Calls : Enter(c)) \/ Driver
  PROVE  ShadowInv'
<1>0. MdioTypeOK /\ PhaseInv /\ ShadowInv
  BY DEF MdioInv
<1>1. ASSUME NEW c \in Calls, Enter(c) PROVE ShadowInv'
  <2>1. /\ pc = "idle" /\ pending' = Nothing
        /\ UNCHANGED <<phy, shadow, late>>
    BY <1>0, <1>1 DEF Enter, PhaseInv
  <2>2. \A r \in PhyRegs : phy[r] \in shadow[r]
    BY <1>0, <2>1 DEF ShadowInv
  <2> QED BY <1>0, <2>1, <2>2 DEF ShadowInv, Expected, Nothing
<1>2. CASE ClearBusy
  BY <1>0, <1>2 DEF ClearBusy, ShadowInv, Expected
<1>3. CASE WriteAddr
  BY <1>0, <1>3 DEF WriteAddr, Command, ShadowInv, Expected
<1>4. CASE WriteCmd
  <2>1. /\ pc = "cmd" /\ pc' = "wait2" /\ ~ready' /\ UNCHANGED <<phy, call, clean>>
        /\ pending' = Command(call.op, call.to, call.val)
        /\ shadow' = (IF call.op = "write" /\ ~clean THEN MayLand ELSE shadow)
    BY <1>4 DEF WriteCmd
  <2>2. \A r \in PhyRegs : phy[r] \in shadow[r] /\ shadow[r] \subseteq shadow'[r]
    BY <1>0, <2>1, MayLandAdds DEF ShadowInv
  <2>3. \A k \in Places : late'[k] = late[k] \/ late'[k] = pending
    BY <1>0, <1>4, AbandonLate DEF WriteCmd
  <2>4. pending = Nothing \/ ~clean
    BY <1>0, <2>1 DEF PhaseInv
  <2>5. ASSUME NEW k \in Places PROVE Expected(late[k])' \/ late'[k] = Nothing
    <3>1. late'[k] # Nothing => Expected(late'[k])
      BY <1>0, <2>3, <2>4 DEF ShadowInv
    <3> QED BY <2>2, <3>1 DEF Expected, Lands
  <2>6. ~clean' => Expected(pending)'
    BY <1>0, <2>1, MayLandAdds DEF Expected, Command
  <2> QED BY <2>1, <2>2, <2>5, <2>6 DEF ShadowInv, Expected, Nothing
<1>5. CASE WaitDone
  <2>1. /\ pc \in {"wait1", "wait2"} /\ pc' = (IF pc = "wait1" THEN "clear2" ELSE "take")
        /\ UNCHANGED <<ready, pending, late, phy, call, clean, shadow>>
    BY <1>5 DEF WaitDone
  <2>2. ASSUME NEW r \in PhyRegs
        PROVE  \/ phy[r] \in shadow[r]
               \/ clean /\ r = Target(call.to) /\ pc' = "take" /\ ready /\ call.op = "write"
    BY <1>0, <2>1 DEF ShadowInv
  <2>3. (\A k \in Places : Expected(late[k])') /\ (~clean' => Expected(pending)')
    BY <1>0, <2>1 DEF ShadowInv, Expected
  <2> QED BY <2>1, <2>2, <2>3 DEF ShadowInv
<1>6. CASE WaitTimeout
  <2>1. /\ pc \in {"wait1", "wait2"} /\ ~ready /\ pc' = "idle" /\ pending' = Nothing
        /\ UNCHANGED <<phy, call, clean>>
        /\ shadow' = (IF pc = "wait2" /\ call.op = "write" THEN MayLand ELSE shadow)
    BY <1>6 DEF WaitTimeout
  <2>2. \A r \in PhyRegs : phy[r] \in shadow[r] /\ shadow[r] \subseteq shadow'[r]
    BY <1>0, <2>1, MayLandAdds DEF ShadowInv
  <2>3. \A k \in Places : late'[k] = late[k] \/ late'[k] = pending
    BY <1>0, <1>6, AbandonLate DEF WaitTimeout
  <2>4. pending.op = "write" => \A r \in Lands(pending.to) : pending.val \in shadow'[r]
    <3>1. CASE ~clean
      BY <1>0, <2>2, <3>1 DEF ShadowInv, Expected, Lands
    <3>2. CASE clean /\ pc = "wait1"
      BY <1>0, <2>1, <3>2 DEF PhaseInv, Command
    <3>3. CASE clean /\ pc = "wait2"
      <4>1. pending = Command(call.op, call.to, call.val)
        BY <1>0, <2>1, <3>3 DEF PhaseInv
      <4> QED BY <1>0, <2>1, <3>3, <4>1, MayLandAdds DEF Command
    <3> QED BY <2>1, <3>1, <3>2, <3>3
  <2>5. ASSUME NEW k \in Places PROVE Expected(late[k])'
    <3>1. CASE late'[k] = late[k]
      BY <1>0, <2>2, <3>1 DEF ShadowInv, Expected, Lands
    <3>2. CASE late'[k] = pending
      BY <2>4, <3>2 DEF Expected
    <3> QED BY <2>3, <3>1, <3>2
  <2> QED BY <2>1, <2>2, <2>5 DEF ShadowInv, Expected, Nothing
<1>7. CASE Take
  <2>1. /\ pc = "take" /\ pc' = "idle" /\ pending' = Nothing /\ UNCHANGED <<phy, call, clean>>
        /\ shadow' = (IF clean
                      THEN [shadow EXCEPT ![Target(call.to)] =
                              {IF call.op = "read" THEN data ELSE call.val}]
                      ELSE shadow)
    BY <1>7 DEF Take
  <2>2. \A k \in Places : late'[k] = late[k] \/ late'[k] = pending
    BY <1>0, <1>7, AbandonLate DEF Take
  <2>3. CASE clean
    <3>1. /\ pending = Nothing /\ ready /\ \A k \in Places : late[k] = Nothing
          /\ phy[Target(call.to)] = IF call.op = "read" THEN data ELSE call.val
      BY <1>0, <2>1, <2>3, CommandIn DEF PhaseInv
    <3>2. \A r \in PhyRegs : phy[r] \in shadow'[r]
      BY <1>0, <2>1, <2>3, <3>1 DEF ShadowInv, MdioTypeOK
    <3>3. \A k \in Places : late'[k] = Nothing
      BY <2>2, <3>1
    <3> QED BY <2>1, <3>2, <3>3 DEF ShadowInv, Expected, Nothing
  <2>4. CASE ~clean
    <3>1. shadow' = shadow /\ \A r \in PhyRegs : phy[r] \in shadow[r]
      BY <1>0, <2>1, <2>4 DEF ShadowInv
    <3>2. \A k \in Places : Expected(late[k])'
      BY <1>0, <2>2, <2>4, <3>1 DEF ShadowInv, Expected
    <3> QED BY <2>1, <3>1, <3>2 DEF ShadowInv, Expected, Nothing
  <2> QED BY <2>3, <2>4
<1> QED BY <1>1, <1>2, <1>3, <1>4, <1>5, <1>6, <1>7 DEF Driver

\* What carrying out a command does.
LEMMA ExecDoes ==
  ASSUME MdioTypeOK, NEW c \in Commands, Exec(c)
  PROVE  /\ ready' = TRUE /\ latch' \in Latches /\ phy' \in [PhyRegs -> Nat] /\ data' \in Nat
         /\ c.to \in PhyRegs /\ Reached(c.to) \in Lands(c.to) /\ Reached(c.to) \in PhyRegs
         /\ \A r \in PhyRegs : phy'[r] = phy[r] \/ (c.op = "write" /\ r = Reached(c.to) /\ phy'[r] = c.val)
<1>1. /\ ready' = TRUE
      /\ latch' = (IF c.op = "addr" THEN [latch EXCEPT ![c.to.devad] = c.to.reg] ELSE latch)
      /\ phy' = (IF c.op = "write" THEN [phy EXCEPT ![Reached(c.to)] = c.val] ELSE phy)
      /\ data' = (IF c.op = "read" THEN phy[Reached(c.to)] ELSE data)
  BY DEF Exec
<1>2. /\ c.to \in PhyRegs /\ c.val \in Nat /\ (c.op = "addr" => c.to \in Regs45)
      /\ latch \in Latches /\ phy \in [PhyRegs -> Nat] /\ data \in Nat
  BY DEF Commands, Regs45, MdioTypeOK
<1>3. Reached(c.to) \in Lands(c.to) /\ Reached(c.to) \in PhyRegs
  BY <1>2, ReachedIn, ReachedLands
<1>4. latch' \in Latches
  <2>1. CASE c.op # "addr"
    BY <1>1, <1>2, <2>1
  <2>2. CASE c.op = "addr"
    <3> DEFINE t == c.to
    <3>1. t \in Regs45 /\ t \in PhyRegs /\ t.clause = 45
      BY <1>2, <2>2 DEF Regs45
    <3>2. t.devad \in DOMAIN latch /\ t = [clause |-> 45, devad |-> t.devad, reg |-> t.reg]
      BY <1>2, <3>1, LatchDomain, TargetFields
    <3>3. latch' = [latch EXCEPT ![t.devad] = t.reg]
      BY <1>1, <2>2
    <3> HIDE DEF t
    <3> QED BY <1>2, <3>1, <3>2, <3>3 DEF Latches
  <2> QED BY <2>1, <2>2
<1>5. phy' \in [PhyRegs -> Nat] /\ data' \in Nat
  BY <1>1, <1>2, <1>3
<1>6. \A r \in PhyRegs : phy'[r] = phy[r] \/ (c.op = "write" /\ r = Reached(c.to) /\ phy'[r] = c.val)
  BY <1>1, <1>2, <1>3
<1> QED BY <1>1, <1>2, <1>3, <1>4, <1>5, <1>6

\* The controller carries out the command of the call under way.
LEMMA HwStep ==
  ASSUME MdioInv, HwExec
  PROVE  MdioInv'
<1>0. MdioTypeOK /\ PhaseInv /\ ShadowInv
  BY DEF MdioInv
<1>1. /\ pending \in Commands /\ pending # Nothing /\ Exec(pending) /\ pending' = Nothing
      /\ UNCHANGED <<late, pc, call, clean, shadow>>
  BY <1>0 DEF HwExec, Exec, MdioTypeOK
<1>2. /\ ready' = TRUE /\ latch' \in Latches /\ phy' \in [PhyRegs -> Nat] /\ data' \in Nat
      /\ Reached(pending.to) \in Lands(pending.to) /\ Reached(pending.to) \in PhyRegs
      /\ \A r \in PhyRegs :
           phy'[r] = phy[r] \/ (pending.op = "write" /\ r = Reached(pending.to) /\ phy'[r] = pending.val)
  BY <1>0, <1>1, ExecDoes
<1>3. MdioTypeOK'
  <2>1. ready' \in BOOLEAN
    BY <1>2
  <2> QED BY <1>0, <1>1, <1>2, <2>1 DEF MdioTypeOK
<1>4. /\ pc \notin {"idle", "clear1", "addr"}
      /\ clean => ~ready /\ pc \in {"wait1", "wait2"}
  BY <1>0, <1>1 DEF PhaseInv, MdioTypeOK
<1>5. clean /\ pc = "wait1" => pending = Command("addr", call.to, 0)
  BY <1>0, <1>4 DEF PhaseInv
<1>6. clean /\ pc = "wait2" => pending = Command(call.op, call.to, call.val) /\ Selected
  BY <1>0, <1>4 DEF PhaseInv
<1>7. PhaseInv'
  <2>1. CASE ~clean
    <3>1. pc' = "wait1" => call'.to.clause = 45
      BY <1>0, <1>1 DEF PhaseInv
    <3> QED BY <1>1, <1>2, <1>4, <2>1, <3>1 DEF PhaseInv
  <2>2. CASE clean /\ pc = "wait1"
    <3> DEFINE t == Target(call.to)
    <3>1. t \in PhyRegs /\ t.clause = 45 /\ call.to.clause = 45
      BY <1>0, <2>2, CommandIn DEF PhaseInv
    <3>2. t.devad \in DOMAIN latch /\ t = [clause |-> 45, devad |-> t.devad, reg |-> t.reg]
      BY <1>0, <3>1, LatchDomain, TargetFields DEF MdioTypeOK
    <3>3. latch' = [latch EXCEPT ![t.devad] = t.reg]
      <4>1. pending.op = "addr" /\ pending.to = t
        BY <1>5, <2>2 DEF Command
      <4> HIDE DEF t
      <4> QED BY <1>1, <4>1 DEF Exec
    <3>4. latch'[t.devad] = t.reg
      BY <1>0, <3>2, <3>3 DEF MdioTypeOK, Latches
    <3> HIDE DEF t
    <3>5. [t EXCEPT !.reg = latch'[t.devad]] = t
      BY <3>2, <3>4
    <3>6. Selected'
      BY <1>1, <3>1, <3>5 DEF Selected, Reached, t
    <3>7. \A k \in Places : late'[k] = Nothing
      BY <1>0, <1>1, <2>2 DEF PhaseInv
    <3> QED BY <1>1, <1>2, <2>2, <3>1, <3>6, <3>7 DEF PhaseInv
  <2>3. CASE clean /\ pc = "wait2"
    <3>1. call.op \in {"read", "write"} /\ Target(call.to) \in PhyRegs
      BY <1>0, CommandIn
    <3>2. pending.op = call.op /\ pending.to = Target(call.to) /\ pending.val = call.val
      BY <1>6, <2>3 DEF Command
    <3>3. latch' = latch /\ Reached(pending.to) = Target(call.to)
      BY <1>1, <1>6, <2>3, <3>1, <3>2 DEF Exec, Selected
    <3>4. Selected'
      BY <1>1, <1>6, <2>3, <3>3 DEF Selected, Reached
    <3>5. IF call.op = "read" THEN data' = phy'[Target(call.to)] ELSE phy'[Target(call.to)] = call.val
      BY <1>0, <1>1, <3>1, <3>2, <3>3 DEF Exec, MdioTypeOK
    <3>6. \A k \in Places : late'[k] = Nothing
      BY <1>0, <1>1, <2>3 DEF PhaseInv
    <3> QED BY <1>1, <1>2, <2>3, <3>4, <3>5, <3>6 DEF PhaseInv
  <2> QED BY <1>4, <2>1, <2>2, <2>3
<1>8. ShadowInv'
  <2>1. ASSUME NEW r \in PhyRegs
        PROVE  \/ phy'[r] \in shadow[r]
               \/ clean /\ r = Target(call.to) /\ pc = "wait2" /\ call.op = "write"
    <3>1. phy[r] \in shadow[r] \/ ~clean
      BY <1>0, <1>4 DEF ShadowInv
    <3>2. phy[r] \in shadow[r]
      BY <1>0, <3>1 DEF ShadowInv
    <3>3. CASE phy'[r] = phy[r]
      BY <3>2, <3>3
    <3>4. CASE phy'[r] # phy[r]
      <4>1. pending.op = "write" /\ r = Reached(pending.to) /\ phy'[r] = pending.val
        BY <1>2, <3>4
      <4>2. CASE ~clean
        BY <1>0, <1>2, <4>1, <4>2 DEF ShadowInv, Expected
      <4>3. CASE clean /\ pc = "wait1"
        BY <1>5, <4>1, <4>3 DEF Command
      <4>4. CASE clean /\ pc = "wait2"
        BY <1>6, <4>1, <4>4 DEF Command, Selected
      <4> QED BY <1>4, <4>2, <4>3, <4>4
    <3> QED BY <3>3, <3>4
  <2>2. \A k \in Places : Expected(late[k])'
    BY <1>0, <1>1 DEF ShadowInv, Expected
  <2> QED BY <1>1, <1>2, <2>1, <2>2 DEF ShadowInv, Expected, Nothing
<1> QED BY <1>3, <1>7, <1>8 DEF MdioInv

\* It carries out a command left behind: the call under way was not entered with a
\* clean slate.
LEMMA LateStep ==
  ASSUME MdioInv, NEW k \in Places, HwExecLate(k)
  PROVE  MdioInv'
<1>0. MdioTypeOK /\ PhaseInv /\ ShadowInv
  BY DEF MdioInv
<1> DEFINE c == late[k]
<1>1. /\ c \in Commands /\ Exec(c) /\ late' = [late EXCEPT ![k] = Nothing]
      /\ UNCHANGED <<pending, pc, call, clean, shadow>>
  BY <1>0 DEF HwExecLate, Exec, MdioTypeOK
<1>2. ~clean \/ pc = "idle"
  BY <1>0 DEF HwExecLate, PhaseInv
<1>3. Expected(c)
  BY <1>0 DEF ShadowInv
<1> HIDE DEF c
<1>4. /\ ready' = TRUE /\ latch' \in Latches /\ phy' \in [PhyRegs -> Nat] /\ data' \in Nat
      /\ Reached(c.to) \in Lands(c.to)
      /\ \A r \in PhyRegs : phy'[r] = phy[r] \/ (c.op = "write" /\ r = Reached(c.to) /\ phy'[r] = c.val)
  BY <1>0, <1>1, ExecDoes
<1>5. /\ late' \in [Places -> Commands \cup {Nothing}]
      /\ \A j \in Places : late'[j] = late[j] \/ late'[j] = Nothing
  BY <1>0, <1>1 DEF MdioTypeOK
<1>6. MdioTypeOK'
  <2>1. ready' \in BOOLEAN
    BY <1>4
  <2> QED BY <1>0, <1>1, <1>4, <1>5, <2>1 DEF MdioTypeOK
<1>7. PhaseInv'
  BY <1>0, <1>1, <1>2, <1>4 DEF PhaseInv
<1>8. ShadowInv'
  <2>1. \A r \in PhyRegs : phy[r] \in shadow[r]
    BY <1>0, <1>2 DEF ShadowInv
  <2>2. \A r \in PhyRegs : phy'[r] \in shadow[r]
    BY <1>3, <1>4, <2>1 DEF Expected
  <2>3. ASSUME NEW j \in Places PROVE Expected(late[j])'
    BY <1>0, <1>1, <1>5 DEF ShadowInv, Expected, Nothing
  <2>4. ~clean' => Expected(pending)'
    BY <1>0, <1>1 DEF ShadowInv, Expected
  <2> QED BY <1>1, <2>2, <2>3, <2>4 DEF ShadowInv
<1> QED BY <1>6, <1>7, <1>8 DEF MdioInv

\* It forgets one.
LEMMA ForgetStep ==
  ASSUME MdioInv, NEW k \in Places, HwForget(k)
  PROVE  MdioInv'
<1>0. MdioTypeOK /\ PhaseInv /\ ShadowInv
  BY DEF MdioInv
<1>1. /\ late' = [late EXCEPT ![k] = Nothing]
      /\ UNCHANGED <<ready, data, pending, latch, phy, pc, call, clean, shadow>>
  BY DEF HwForget
<1>2. /\ late' \in [Places -> Commands \cup {Nothing}]
      /\ \A j \in Places : late'[j] = late[j] \/ late'[j] = Nothing
  BY <1>0, <1>1 DEF MdioTypeOK
<1>3. MdioTypeOK'
  BY <1>0, <1>1, <1>2 DEF MdioTypeOK
<1>4. PhaseInv'
  BY <1>0, <1>1, <1>2 DEF PhaseInv, Selected, Reached
<1>5. ShadowInv'
  BY <1>0, <1>1, <1>2 DEF ShadowInv, Expected, Nothing
<1> QED BY <1>3, <1>4, <1>5 DEF MdioInv

\* Where every call is, and what every register may hold: the inductive invariant.
THEOREM MdioInvariant == Spec => []MdioInv
<1>1. ASSUME MdioInv, [Next]_vars PROVE MdioInv'
  <2>1. CASE UNCHANGED vars
    BY <1>1, <2>1 DEF vars, MdioInv, MdioTypeOK, PhaseInv, Selected, ShadowInv, Expected, Reached
  <2>2. CASE Hardware
    BY <1>1, <2>2, HwStep, LateStep, ForgetStep DEF Hardware
  <2>3. CASE (\E c \in Calls : Enter(c)) \/ Driver
    BY <1>1, <2>3, TypeStep, PhaseStep, ShadowStep DEF MdioInv
  <2> QED BY <1>1, <2>1, <2>2, <2>3 DEF Next
<1> QED BY InitInv, <1>1, PTL DEF Spec

\* The registers a packed address or a register number reaches behave as registers,
\* although calls time out and the controller carries out what they left behind at any
\* later time: a read entered with nothing left behind returns what its callers may
\* expect.
THEOREM MdioReadsBack == Spec => []ReadsBack
<1>1. MdioInv => ReadsBack
  BY CommandIn DEF MdioInv, PhaseInv, ShadowInv, ReadsBack
<1> QED BY MdioInvariant, <1>1, PTL
=============================================================================
