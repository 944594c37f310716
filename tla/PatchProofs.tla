----------------------------- MODULE PatchProofs -----------------------------
(***************************************************************************)
(* Proofs about the kernel patches: the AHCI polling fallback, for any     *)
(* number of ports and command slots, and the two users of the system      *)
(* controller, for any number of writers and any jiffies counter.          *)
(***************************************************************************)
EXTENDS AhciPoll, IccRtc, TLAPS

-----------------------------------------------------------------------------
(* The AHCI polling fallback. *)

LEMMA InitInv == Init => AhciInv
<1> SUFFICES ASSUME Init PROVE AhciInv OBVIOUS
<1>1. TypeOK
  <2>1. 1 \in Ports BY AhciAssumption DEF Ports
  <2>2. rm \in 0..4 BY DEF Init
  <2>3. active \in [Ports -> SUBSET Cmds] /\ inflight \in [Ports -> SUBSET Cmds] BY DEF Init
  <2>4. pxis \in [Ports -> BOOLEAN] /\ pxie \in [Ports -> BOOLEAN] /\ frozen \in [Ports -> BOOLEAN]
    BY Zenon DEF Init
  <2>5. port \in [Holders -> Ports] /\ done \in [Holders -> SUBSET Cmds] BY <2>1 DEF Init
  <2>6. at \in [Holders -> {"idle", "armed", "check", "read", "lock", "ack", "scan", "complete", "unlock"}]
    BY DEF Init
  <2>7. lock \in {"free", "timer", "irq"} /\ enabled \in BOOLEAN /\ mapped \in BOOLEAN
        /\ baikal \in BOOLEAN /\ glue \in BOOLEAN
    BY Zenon DEF Init
  <2> QED BY <2>2, <2>3, <2>4, <2>5, <2>6, <2>7 DEF TypeOK
<1>2. LockInv BY DEF Init, LockInv, Locked, Holders
<1>3. LifeInv /\ CompletedOnce BY DEF Init, LifeInv, CompletedOnce, Holders
<1> QED BY <1>1, <1>2, <1>3 DEF AhciInv

\* The steps of the timer callback outside the lock, and the taking and giving back of
\* the lock.
LEMMA TimerInv ==
  ASSUME AhciInv, Start \/ Expire \/ CheckFrozen \/ ReadStatus \/ TimerLock \/ TimerUnlock
  PROVE  AhciInv'
<1> USE AhciAssumption DEF AhciInv, TypeOK, LockInv, LifeInv, CompletedOnce, Locked, Ports, Holders,
                           regs, life, Onward, TimerGo
<1>1. CASE Start BY <1>1 DEF Start
<1>2. CASE Expire BY <1>2 DEF Expire
<1>3. CASE CheckFrozen BY <1>3 DEF CheckFrozen
<1>4. CASE ReadStatus BY <1>4 DEF ReadStatus
<1>5. CASE TimerLock BY <1>5 DEF TimerLock
<1>6. CASE TimerUnlock BY <1>6 DEF TimerUnlock
<1> QED BY <1>1, <1>2, <1>3, <1>4, <1>5, <1>6

\* ahci_port_intr, called by the timer or by the interrupt handler.
LEMMA PortIntrInv ==
  ASSUME AhciInv, NEW h \in Holders, Ack(h) \/ Scan(h) \/ Complete(h)
  PROVE  AhciInv'
<1> USE DEF AhciInv, TypeOK, LockInv, LifeInv, CompletedOnce, Locked, Ports, Holders, regs, life
<1>1. CASE Ack(h) BY <1>1 DEF Ack
<1>2. CASE Scan(h) BY <1>2 DEF Scan
<1>3. CASE Complete(h) BY <1>3 DEF Complete
<1> QED BY <1>1, <1>2, <1>3

\* The entry to and the exit from the interrupt handler.
LEMMA IrqInv ==
  ASSUME AhciInv, IrqLeave \/ \E p \in Ports : IrqEnter(p)
  PROVE  AhciInv'
<1> USE DEF AhciInv, TypeOK, LockInv, LifeInv, CompletedOnce, Locked, Ports, Holders, regs, handlers, life
<1>1. CASE IrqLeave BY <1>1 DEF IrqLeave
<1>2. ASSUME NEW p \in Ports, IrqEnter(p) PROVE AhciInv'
  BY <1>2 DEF IrqEnter
<1> QED BY <1>1, <1>2

\* The glue and the error handler.
LEMMA LibataInv ==
  ASSUME AhciInv, NEW p \in Ports, DropEnable(p) \/ Freeze(p) \/ Thaw(p)
  PROVE  AhciInv'
<1> USE DEF AhciInv, TypeOK, LockInv, LifeInv, CompletedOnce, Locked, Ports, Holders, regs, handlers, life
<1>1. CASE DropEnable(p) BY <1>1 DEF DropEnable
<1>2. CASE Freeze(p) BY <1>2 DEF Freeze
<1>3. CASE Thaw(p) BY <1>3 DEF Thaw
<1> QED BY <1>1, <1>2, <1>3

\* Commands are issued and the controller finishes them.
LEMMA CommandInv ==
  ASSUME AhciInv, NEW p \in Ports, NEW c \in Cmds, Issue(p, c) \/ Finish(p, c)
  PROVE  AhciInv'
<1> USE DEF AhciInv, TypeOK, LockInv, LifeInv, CompletedOnce, Locked, Ports, Holders, regs, handlers, life
<1>1. CASE Issue(p, c) BY <1>1 DEF Issue
<1>2. CASE Finish(p, c) BY <1>2 DEF Finish
<1> QED BY <1>1, <1>2

\* The removal of the driver, in the orders of both functions.
LEMMA RemoveInv ==
  ASSUME AhciInv, Remove \/ RemoveStep
  PROVE  AhciInv'
<1> USE DEF AhciInv, TypeOK, LockInv, LifeInv, CompletedOnce, Locked, Ports, Holders, regs, handlers,
            Doing, Removal
<1>1. CASE Remove BY <1>1 DEF Remove
<1>2. CASE Detach BY <1>2 DEF Detach
<1>3. CASE Stop
  <2>1. at["timer"] \notin Locked /\ rm \in 1..3 /\ rm' = rm + 1
    BY <1>3 DEF Stop
  <2>2. at' = [at EXCEPT !["timer"] = "idle"] /\ UNCHANGED <<regs, lock, port, done, baikal, glue, enabled, mapped>>
    BY <1>3 DEF Stop
  <2>3. mapped
    BY <2>1
  <2> QED BY <2>1, <2>2, <2>3
<1>4. CASE Unmap
  <2>1. rm = 3 /\ rm' = 4
    BY <1>4 DEF Unmap
  <2>2. at["timer"] = "idle"
    BY <1>4, <2>1 DEF Unmap
  <2>3. mapped' = FALSE /\ UNCHANGED <<regs, handlers, baikal, glue, enabled>>
    BY <1>4 DEF Unmap
  <2>4. LifeInv'
    BY <2>1, <2>2, <2>3
  <2>5. TypeOK'
    <3>1. /\ mapped' \in BOOLEAN /\ baikal' \in BOOLEAN
          /\ glue' \in BOOLEAN /\ enabled' \in BOOLEAN
      BY <2>3, Zenon
    <3>2. UNCHANGED <<regs, handlers>> /\ rm' \in 0..4
      BY <2>1, <2>3
    <3> QED BY <3>1, <3>2
  <2>6. LockInv'
    BY <2>3
  <2>7. CompletedOnce'
    BY <2>3
  <2> QED BY <2>4, <2>5, <2>6, <2>7
<1> QED BY <1>1, <1>2, <1>3, <1>4 DEF RemoveStep

\* The invariant behind the results below: who is inside ahci_port_intr holds host->lock,
\* and the timer callback is over before the registers are unmapped.
THEOREM AhciInvariant == Spec => []AhciInv
<1>1. ASSUME AhciInv, [Next]_vars PROVE AhciInv'
  <2>1. CASE UNCHANGED vars
    BY <1>1, <2>1 DEF vars, regs, handlers, life, AhciInv, TypeOK, LockInv, LifeInv, CompletedOnce
  <2>2. CASE Start \/ TimerStep
    BY <1>1, <2>2, TimerInv, PortIntrInv DEF TimerStep, Holders
  <2>3. CASE Remove \/ RemoveStep
    BY <1>1, <2>3, RemoveInv
  <2>4. CASE IrqStep
    BY <1>1, <2>4, IrqInv, PortIntrInv DEF IrqStep, Holders
  <2>5. ASSUME NEW p \in Ports, DropEnable(p) \/ Freeze(p) \/ Thaw(p) PROVE AhciInv'
    BY <1>1, <2>5, LibataInv
  <2>6. ASSUME NEW p \in Ports, NEW c \in Cmds, Issue(p, c) \/ Finish(p, c) PROVE AhciInv'
    BY <1>1, <2>6, CommandInv
  <2> QED BY <1>1, <2>1, <2>2, <2>3, <2>4, <2>5, <2>6 DEF Next
<1> QED BY InitInv, <1>1, PTL DEF Spec

\* No command is completed twice, by the timer, the interrupt handler and the error
\* handler together, for any number of ports and commands.
THEOREM AhciCompletedOnce == Spec => []CompletedOnce
BY AhciInvariant, PTL DEF AhciInv

\* The timer callback touches no register that is unmapped, in the removal orders of
\* both functions.
THEOREM AhciTouchesMapped == Spec => []TouchesMapped
<1>1. AhciInv => TouchesMapped
  BY DEF AhciInv, TypeOK, LifeInv, TouchesMapped, Holders
<1> QED BY AhciInvariant, <1>1, PTL

-----------------------------------------------------------------------------
(* The clock. *)

LEMMA IccNumbers ==
  /\ HZ \in Nat \ {0} /\ Wrap \in Nat \ {0} /\ MaxTicks \in Nat \ {0} /\ MaxTicks < Wrap
  /\ Times \subseteq Nat /\ "free" \notin Writers
<1>1. HZ \in Nat \ {0} /\ Wrap \in Nat \ {0} /\ MaxTicks \in Nat \ {0}
  BY IccAssumption, Zenon
<1> QED BY <1>1, IccAssumption

\* A step of the counter, which may wrap around.
LEMMA JiffiesStep ==
  ASSUME NEW t \in Nat, t < MaxTicks
  PROVE  (JiffiesAt(t) + 1) % Wrap = JiffiesAt(t + 1)
<1>1. CASE t = 0
  BY <1>1, IccNumbers DEF JiffiesAt
<1>2. CASE t # 0
  BY <1>2, IccNumbers DEF JiffiesAt
<1> QED BY <1>1, <1>2

\* The unsigned difference of two values of the counter is the number of ticks
\* between them, on whichever side of the wrap they are.
LEMMA JiffiesDifference ==
  ASSUME NEW t \in 0 .. MaxTicks, NEW g \in 0 .. t
  PROVE  (JiffiesAt(t) + Wrap - JiffiesAt(g)) % Wrap = t - g
<1>1. CASE g = 0 /\ t = 0
  BY <1>1, IccNumbers DEF JiffiesAt
<1>2. CASE g = 0 /\ t # 0
  BY <1>2, IccNumbers DEF JiffiesAt
<1>3. CASE g # 0
  <2>1. JiffiesAt(t) + Wrap - JiffiesAt(g) = Wrap + (t - g) /\ t - g \in 0 .. Wrap - 1
    BY <1>3, IccNumbers DEF JiffiesAt
  <2> QED BY <2>1, IccNumbers
<1> QED BY <1>1, <1>2, <1>3

LEMMA ClockInit == IccInit => ClockInv
BY IccNumbers DEF IccInit, ClockInv, RtcKeepsTime, JiffiesAt, Unread

\* What keeps the clock's state keeps ClockInv.
LEMMA ClockKept ==
  ASSUME ClockInv, UNCHANGED <<ticks, jiffies, base_time, base_jiffies, told, given>>
  PROVE  ClockInv'
BY DEF ClockInv, RtcKeepsTime, JiffiesAt

LEMMA ClockStep == ClockInv /\ [IccNext]_iccVars => ClockInv'
<1> SUFFICES ASSUME ClockInv, [IccNext]_iccVars PROVE ClockInv'
  OBVIOUS
<1>1. CASE Tick
  <2>1. ticks' = ticks + 1 /\ ticks' \in 0 .. MaxTicks /\ jiffies' = JiffiesAt(ticks')
    BY <1>1, JiffiesStep, IccNumbers DEF Tick, ClockInv
  <2>2. UNCHANGED <<base_time, base_jiffies, told, given>>
    BY <1>1 DEF Tick
  <2>3. given' \in [time : Nat, at : 0 .. ticks']
    BY <2>1, <2>2, IccNumbers DEF ClockInv
  <2> QED BY <2>1, <2>2, <2>3 DEF ClockInv, RtcKeepsTime, JiffiesAt
<1>2. ASSUME NEW t \in Times, SetTime(t) PROVE ClockInv'
  <2>1. t \in Nat BY IccNumbers
  <2> QED BY <1>2, <2>1 DEF SetTime, ClockInv, RtcKeepsTime, JiffiesAt, Unread
<1>3. CASE ReadTime
  <2>1. UNCHANGED <<ticks, jiffies, base_time, base_jiffies, given>>
    BY <1>3 DEF ReadTime
  <2>2. Elapsed = (ticks - given.at) \div HZ
    BY JiffiesDifference DEF Elapsed, ClockInv
  <2>3. told'.at = ticks /\ told'.time = IF given.time = 0 THEN 0 ELSE given.time + Elapsed
    BY <1>3 DEF ReadTime, ClockInv
  <2>4. RtcKeepsTime'
    BY <2>1, <2>2, <2>3 DEF RtcKeepsTime
  <2> QED BY <2>1, <2>4 DEF ClockInv, JiffiesAt
<1>4. CASE Retry \/ Return \/ DbgShow \/ UNCHANGED iccVars
  BY <1>4, ClockKept DEF Retry, Return, DbgShow, clock, iccVars
<1>5. ASSUME NEW o \in {"load", "alarm"}, Begin(o) PROVE ClockInv'
  BY <1>5, ClockKept DEF Begin
<1>6. ASSUME NEW w \in Writers, DbgLock(w) \/ DbgSend(w) \/ \E c \in Commands : WriteCmd(w, c)
      PROVE  ClockInv'
  BY <1>6, ClockKept DEF DbgLock, DbgSend, WriteCmd, clock
<1> QED BY <1>1, <1>2, <1>3, <1>4, <1>5, <1>6 DEF IccNext

\* The clock keeps the time it was given, for every width of jiffies that the
\* machine does not run through, every HZ and any number of operations and retries.
THEOREM IccKeepsTime == IccSpec => []RtcKeepsTime
<1>1. ClockInv => RtcKeepsTime
  BY DEF ClockInv
<1> QED BY <1>1, ClockInit, ClockStep, PTL DEF IccSpec

-----------------------------------------------------------------------------
(* /proc/ps4_icc. *)

LEMMA DebugInit == IccInit => DebugInv
BY DEF IccInit, DebugInv, Belongs

LEMMA DebugStep == DebugInv /\ [IccNext]_iccVars => DebugInv'
<1> SUFFICES ASSUME DebugInv, [IccNext]_iccVars PROVE DebugInv'
  OBVIOUS
<1>1. CASE UNCHANGED debug
  BY <1>1 DEF DebugInv, Belongs, debug
<1>2. CASE DbgShow
  BY <1>2 DEF DbgShow, DebugInv, Belongs
<1>3. ASSUME NEW w \in Writers, NEW c \in Commands, WriteCmd(w, c) PROVE DebugInv'
  BY <1>3 DEF WriteCmd, DebugInv, Belongs
<1>4. ASSUME NEW w \in Writers, DbgLock(w) PROVE DebugInv'
  <2>1. \A v \in Writers : step[v] # "send"
    BY <1>4, IccNumbers DEF DbgLock, DebugInv
  <2> QED BY <1>4, <2>1, IccNumbers DEF DbgLock, DebugInv
<1>5. ASSUME NEW w \in Writers, DbgSend(w) PROVE DebugInv'
  <2>1. step[w] = "send" /\ holder = w /\ reply = Zeros /\ cmd = mine[w]
    BY <1>5 DEF DbgSend, DebugInv
  <2>2. \A v \in Writers \ {w} : step[v] # "send"
    BY <2>1 DEF DebugInv
  <2>3. Belongs(cmd', ret', reply')
    BY <1>5, <2>1 DEF DbgSend, Belongs
  <2> QED BY <1>5, <2>2, <2>3 DEF DbgSend, DebugInv
<1>6. Tick \/ Retry \/ Return \/ ReadTime \/ UNCHANGED iccVars => UNCHANGED debug
  BY DEF Tick, Retry, Return, ReadTime, iccVars
<1>7. \A t : SetTime(t) \/ Begin(t) => UNCHANGED debug
  BY DEF SetTime, Begin
<1> QED BY <1>1, <1>2, <1>3, <1>4, <1>5, <1>6, <1>7 DEF IccNext

\* What /proc/ps4_icc shows belongs together, for any number of processes that write
\* to it and whatever the system controller answers.
THEOREM IccShownBelongs == IccSpec => []ShownBelongs
<1>1. DebugInv => ShownBelongs
  BY DEF DebugInv, Belongs, ShownBelongs
<1> QED BY <1>1, DebugInit, DebugStep, PTL DEF IccSpec
=============================================================================
