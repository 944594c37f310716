------------------------------ MODULE MtsCalib ------------------------------
(***************************************************************************)
(* PHY start-up of the Baikal GBE driver (drivers_mts/mts.c):              *)
(* mts_mdio_probe, then mts_mac_enable with mts_phy_calibration and        *)
(* mts_phy_wakeup, which every binding of the driver runs once.            *)
(*                                                                         *)
(* The calibration is straight code, about a hundred MDIO accesses, none   *)
(* of whose results is looked at.  Here it is a script (MtsCalibScript)    *)
(* that a few actions carry out.  What matters of the values is where they *)
(* come from: read-modify-write sequences share one variable, val16, and   *)
(* when the read times out they write back what another register held.     *)
(* So alien[r] is the set of bits of register r that neither the register  *)
(* nor the calibration put there, and a C variable remembers which         *)
(* register it was read from.                                              *)
(***************************************************************************)
EXTENDS Integers, Sequences

CONSTANTS
  Script,     \* the steps of mts_phy_calibration, see Steps
  Bits,       \* the bits of a register
  Page,       \* the register that selects a page
  Targets,    \* how many registers mts_mdio_probe reads
  Pages,      \* the pages the console may have left selected
  MaxFailures,\* bound: MDIO calls that time out
  MaxBinds    \* bound: bindings of the driver

Ones == 65535    \* 0xffff
Junk == 65536    \* a page number that is the contents of some other register
None == -1       \* no register

\* reg: the register; var: the C variable read into or written from; keep: the bits
\* taken over from it, the others being the calibration's own; data: a page
\* number, a number of turns, or the step to continue with.
Steps ==
  [op : {"read", "write", "modify", "merge", "select", "restore", "gate", "efuse",
         "connect", "isolate", "loop"},
   reg : Nat \cup {None}, var : {"val16", "r4", "r9", "other"}, keep : SUBSET Bits, data : Nat]

\* TLC evaluates a definition once and a substituted constant wherever it occurs.
Code == Script

ASSUME CalibAssumption ==
  /\ Code \in Seq(Steps)
  /\ \A j \in 1..Len(Code) :
       Code[j].op \in {"gate", "efuse"} => Code[j].data \in (j + 1)..(Len(Code) + 1)
  /\ Pages \subseteq 0..Ones
  /\ Targets \in Nat /\ MaxFailures \in Nat /\ MaxBinds \in Nat
  /\ Page \in Nat

VARIABLES
  pc,        \* "unbound", "probe", "enable", "script" or "end"
  i,         \* the step of the script
  n,         \* the turns of a loop done, the targets of mts_mdio_probe read
  efuse,     \* (p0 & 0x80800000) == 0x80800000
  iso,       \* BAR0[0x200] # 0: the PHY is isolated and reads as zeros
  alien,     \* see above
  page,      \* the contents of the page register
  var,       \* the C variables: the register each was read from, and its contents
  lost,      \* history: the registers whose read failed
  missed,    \* history: the registers a write to which failed or was left out
  hurt,      \* history: the steps on the page register that failed
  failures, binds

hw == <<efuse, iso, alien, page>>
history == <<lost, missed, hurt>>
vars == <<pc, i, n, efuse, iso, alien, page, var, lost, missed, hurt,
          failures, binds>>

\* The write halves of the read-modify-writes, and their registers.
Modifies == {j \in 1..Len(Code) : Code[j].op \in {"modify", "merge"}}
ModRegs == {Code[j].reg : j \in Modifies}

Writes == {"write", "modify", "merge", "select", "restore"}
Unset == [of |-> None, alien |-> Bits, data |-> Junk]
\* val16 and other are not initialised, r4 and r9 are zero: none holds a register.
Locals == [v \in {"val16", "r4", "r9", "other"} |-> Unset]

Init ==
  /\ pc = "unbound" /\ i = 1 /\ n = 0
  /\ efuse \in BOOLEAN /\ iso \in BOOLEAN /\ page \in Pages
  /\ alien = [r \in ModRegs |-> {}]
  /\ var = Locals
  /\ lost = {} /\ missed = {} /\ hurt = {}
  /\ failures = 0 /\ binds = 0

-----------------------------------------------------------------------------
\* The driver is bound: the structures are new, the hardware is as it was.
Bind ==
  /\ pc = "unbound" /\ binds < MaxBinds
  /\ pc' = "probe" /\ binds' = binds + 1
  /\ i' = 1 /\ n' = 0 /\ var' = Locals
  /\ missed' = {} /\ hurt' = {}
  /\ UNCHANGED <<hw, lost, failures>>

\* mts_mdio_probe reads its next target, and goes on after a timeout.
ProbeRead ==
  /\ pc = "probe" /\ n < Targets
  /\ n' = n + 1
  /\ failures' = failures \/ (failures < MaxFailures /\ failures' = failures + 1)
  /\ UNCHANGED <<pc, i, hw, var, history, binds>>

\* Whatever it reports, the binding goes on.
ProbeReport ==
  /\ pc = "probe" /\ n = Targets
  /\ pc' = "enable" /\ n' = 0
  /\ UNCHANGED <<i, hw, var, history, failures, binds>>

\* mts_mac_enable: the calibration, unless enable_phy_calib is off (phy_calib_done is
\* new with every binding).
MacEnable(enable_phy_calib) ==
  /\ pc = "enable"
  /\ pc' = IF enable_phy_calib THEN "script" ELSE "end"
  /\ missed' = IF enable_phy_calib THEN {} ELSE ModRegs
  /\ UNCHANGED <<i, n, hw, var, lost, hurt, failures, binds>>

-----------------------------------------------------------------------------
S == Code[i]
At(ops) == pc = "script" /\ S.op \in ops

\* On with step j.
Goto(j) == i' = j /\ n' = 0 /\ pc' = IF j > Len(Code) THEN "end" ELSE pc

\* The registers of the steps that a jump to j leaves out.
Skipped(j) == {Code[k].reg : k \in Modifies \cap (i + 1)..(j - 1)}

\* The access at hand times out.
Fail == failures < MaxFailures /\ failures' = failures + 1

\* What a read leaves in its variable.
Contents(r) ==
  IF iso THEN Unset
  ELSE [of |-> r, alien |-> IF r \in ModRegs THEN alien[r] ELSE {}, data |-> IF r = Page THEN page ELSE Junk]

\* Mutant: the value goes into another local than the one the mask is applied to.
ReadOkElsewhere ==
  /\ At({"read", "gate"})
  /\ var' = [var EXCEPT !["other"] = Contents(S.reg)]
  /\ Goto(i + 1)
  /\ UNCHANGED <<hw, history, failures, binds>>

\* mts_mdio_read*, and mts_mdio_c22_read; only a gate looks at the result.
ReadOk ==
  /\ At({"read", "gate"})
  /\ var' = [var EXCEPT ![S.var] = Contents(S.reg)]
  /\ Goto(i + 1)
  /\ UNCHANGED <<hw, history, failures, binds>>

\* The variable keeps what it had.
ReadFail ==
  /\ At({"read", "gate"}) /\ Fail
  /\ lost' = lost \cup ({S.reg} \cap ModRegs)
  /\ hurt' = IF S.reg = Page THEN hurt \cup {i} ELSE hurt
  /\ IF S.op = "gate" THEN Goto(S.data) /\ missed' = missed \cup Skipped(S.data)
     ELSE Goto(i + 1) /\ missed' = missed
  /\ UNCHANGED <<hw, var, binds>>

\* The bits of the word to be written that are alien to its register.
Taken == (IF var[S.var].of = S.reg THEN var[S.var].alien ELSE Bits) \cap S.keep

\* Mutant: the result of the mask is not assigned to val16.
AssignNot == UNCHANGED var

\* val16 = (val16 & keep) | ... before the write; a merge passes the expression on.
Assign ==
  var' = IF S.op = "modify"
         THEN [var EXCEPT ![S.var] = [of |-> S.reg, alien |-> Taken, data |-> Junk]]
         ELSE var

\* The write reaches the PHY.
Effect ==
  IF iso THEN UNCHANGED <<alien, page>>
  ELSE /\ alien' = CASE S.op \in {"modify", "merge"} -> [alien EXCEPT ![S.reg] = Taken]
                     [] S.op = "write" /\ S.reg \in ModRegs -> [alien EXCEPT ![S.reg] = {}]
                     [] OTHER -> alien
       /\ page' = CASE S.op = "select" -> S.data
                    [] S.op = "restore" -> IF var[S.var].of = Page THEN var[S.var].data ELSE Junk
                    [] OTHER -> page

\* Mutant: the saved page is not written back.
WriteOkStays ==
  /\ At(Writes)
  /\ Assign /\ IF S.op = "restore" THEN UNCHANGED <<alien, page>> ELSE Effect
  /\ Goto(i + 1)
  /\ UNCHANGED <<efuse, iso, history, failures, binds>>

\* mts_mdio_write*, mts_mdio_page_write and mts_mdio_c22_write.
WriteOk ==
  /\ At(Writes)
  /\ Assign /\ Effect
  /\ Goto(i + 1)
  /\ UNCHANGED <<efuse, iso, history, failures, binds>>

\* The call gives up; the controller may carry out its command all the same (MtsMdio).
WriteFail ==
  /\ At(Writes) /\ Fail
  /\ Assign /\ (Effect \/ UNCHANGED <<alien, page>>)
  /\ missed' = missed \cup ({S.reg} \cap ModRegs)
  /\ hurt' = IF S.reg = Page THEN hurt \cup {i} ELSE hurt
  /\ Goto(i + 1)
  /\ UNCHANGED <<efuse, iso, lost, binds>>

\* Tuning is for consoles whose efuse asks for it.
Efuse ==
  /\ At({"efuse"})
  /\ IF efuse THEN Goto(i + 1) /\ missed' = missed
     ELSE Goto(S.data) /\ missed' = missed \cup Skipped(S.data)
  /\ UNCHANGED <<hw, var, lost, hurt, failures, binds>>

\* Mutant: 0 isolates.
IsolateSwapped ==
  /\ At({"connect", "isolate"})
  /\ iso' = (S.op = "connect")
  /\ Goto(i + 1)
  /\ UNCHANGED <<efuse, alien, page, var, history, failures, binds>>

\* BAR0[0x200] = 0 and = 1.
Isolate ==
  /\ At({"connect", "isolate"})
  /\ iso' = (S.op = "isolate")
  /\ Goto(i + 1)
  /\ UNCHANGED <<efuse, alien, page, var, history, failures, binds>>

\* Mutant: the loop waits for the hardware, its turns counted with the wrong limit.
LoopForever ==
  /\ At({"loop"})
  /\ Goto(i + 1) \/ (n' = 1 - n /\ UNCHANGED <<pc, i>>)
  /\ UNCHANGED <<hw, var, history, failures, binds>>

\* A loop that polls the hardware, or asks the syscon again, a number of times.
Loop ==
  /\ At({"loop"})
  /\ \/ Goto(i + 1)
     \/ n + 1 < S.data /\ n' = n + 1 /\ UNCHANGED <<pc, i>>
  /\ UNCHANGED <<hw, var, history, failures, binds>>

\* The driver is unbound.
Unbind ==
  /\ pc = "end"
  /\ pc' = "unbound"
  /\ UNCHANGED <<i, n, hw, var, history, failures, binds>>

Calibrate == ReadOk \/ ReadFail \/ WriteOk \/ WriteFail \/ Efuse \/ Isolate \/ Loop
Start == ProbeRead \/ ProbeReport \/ (\E e \in BOOLEAN : MacEnable(e))

Next == Bind \/ Start \/ Calibrate \/ Unbind

Spec == Init /\ [][Next]_vars

\* The thread that binds the driver goes on.
FairSpec == Spec /\ WF_vars(Start \/ Calibrate)

-----------------------------------------------------------------------------
\* No read-modify-write puts bits of one register into another, although all of
\* them go through val16 and no result is looked at, unless the read of that very
\* register has failed.
OwnBits == \A r \in ModRegs : alien[r] # {} => r \in lost

\* Step k is the last read-modify-write of its register before step j.
Latest(k, j) ==
  k \in Modifies /\ k < j /\ \A m \in Modifies : m < j /\ Code[m].reg = Code[k].reg => m <= k

\* It comes right after another one of the same register.
Doubled(k) ==
  /\ k \in Modifies /\ k - 2 \in Modifies /\ Code[k - 2].op = "modify"
  /\ Code[k - 2].reg = Code[k].reg /\ Code[k - 2].var = Code[k].var

\* The bits that it, or both of them, take over.
Kept(k) == {b \in Code[k].keep : Doubled(k) => b \in Code[k - 2].keep}

\* The halves of 0x172001e to 0x175001e heal each other: when none of the writes to
\* it failed, a register ends with no alien bit but those its last
\* read-modify-write keeps, or its last two when they stand side by side, however
\* many of the reads failed, in this calibration or an earlier one.
KeptBitsOnly ==
  pc = "end" => \A k \in Modifies : Latest(k, i) /\ Code[k].reg \notin missed =>
    alien[Code[k].reg] \subseteq Kept(k)

PageReset(j) == Code[j].op = "select" /\ Code[j].data = 0
PageSave(j) == Code[j].op = "read" /\ Code[j].reg = Page

\* The failure of step j on the page register may leave a page other than 0 selected.
Blamed(j) ==
  /\ \A k \in 1..Len(Code) : PageReset(k) => k <= j
  /\ PageSave(j) => \A k \in 1..(j - 1) : PageSave(k) => \E m \in k..j : PageReset(m)

\* The calibration leaves page 0 selected, whatever page the console had selected
\* and whatever failed before the page was last reset.  After that only a failed
\* write of the page register can leave another page, or a failed read at the
\* first save: a later save that fails finds in val16 what the one before read.
PageRestored ==
  pc = "end" /\ i > Len(Code) =>
    page = 0 \/ \E j \in hurt : Blamed(j)

\* The binding comes to its end, whatever the syscon, the PHY and the MAC answer.
CalibEnds == pc = "probe" ~> pc = "end"

-----------------------------------------------------------------------------
(* What OwnBits and KeptBitsOnly need of a script. *)

\* A write half follows its read half, and no jump comes between them.
Paired ==
  /\ \A j \in Modifies :
       /\ j > 1 /\ Code[j].reg # None /\ Code[j - 1].op = "read"
       /\ Code[j - 1].reg = Code[j].reg /\ Code[j - 1].var = Code[j].var
  /\ \A j \in 1..Len(Code) :
       Code[j].op \in {"gate", "efuse"} => Code[j].data \notin Modifies

\* The PHY is connected before the first of them, and isolated after the last.
Connected(c) ==
  /\ c \in 1..Len(Code) /\ Code[c].op = "connect"
  /\ \A j \in Modifies : j > c
  /\ \A j \in 1..Len(Code) :
       /\ Code[j].op \in {"gate", "efuse"} /\ j < c => Code[j].data <= c
       /\ Code[j].op = "isolate" => \A k \in Modifies : k < j

Connections == {c \in 1..Len(Code) : Connected(c)}

WellFormed == Paired /\ Connections # {}

(* What PageRestored needs of it. *)

\* At step j a page is selected that a step after z selected.
Away(z, j) ==
  \E k \in (z + 1)..(j - 1) :
    Code[k].op = "select" /\ \A m \in (k + 1)..(j - 1) : Code[m].op # "restore"

\* The page was saved after step z and before step j, or is restored at step j or later.
SavedSince(z, j) == \E k \in (z + 1)..(j - 1) : PageSave(k)
RestoredFrom(j) == \E k \in j..Len(Code) : Code[k].op = "restore"

\* Step z resets the page for the last time, with the PHY connected and no jump past
\* it.  After it every page that is selected is restored, from a variable v into
\* which nothing but the page register is read between the saves.
PagesPaired(z, v) ==
  /\ PageReset(z) /\ (\A k \in 1..Len(Code) : PageReset(k) => k <= z)
  /\ (\E c \in Connections : c < z)
  /\ \A k \in 1..Len(Code) :
       /\ Code[k].op \in {"gate", "efuse"} => Code[k].data <= z
       /\ Code[k].op \in {"select", "restore"} => Code[k].reg = Page
       /\ Code[k].op = "isolate" => \A j \in 1..Len(Code) : Code[j].reg = Page => j < k
  /\ \A k \in (z + 1)..Len(Code) :
       /\ Code[k].op = "restore" => Code[k].var = v /\ SavedSince(z, k)
       /\ PageSave(k) => Code[k].var = v /\ ~Away(z, k)
       /\ Code[k].op \in {"read", "modify"} /\ Code[k].var = v /\ SavedSince(z, k) /\ RestoredFrom(k) =>
            PageSave(k)
  /\ ~Away(z, Len(Code) + 1)

PagesFormed == \E z \in 1..Len(Code), v \in DOMAIN Locals : PagesPaired(z, v)

(* The inductive strengthening. *)

CalibTypeOK ==
  /\ pc \in {"unbound", "probe", "enable", "script", "end"}
  /\ i \in 1..(Len(Code) + 1) /\ (pc = "script" => i <= Len(Code)) /\ n \in Nat
  /\ (pc \in {"probe", "enable"} => i = 1)
  /\ efuse \in BOOLEAN /\ iso \in BOOLEAN
  /\ alien \in [ModRegs -> SUBSET Bits] /\ page \in Nat
  /\ var \in [DOMAIN Locals -> [of : Nat \cup {None}, alien : SUBSET Bits, data : Nat]]
  /\ lost \subseteq ModRegs /\ missed \subseteq ModRegs /\ hurt \subseteq 1..Len(Code)
  /\ failures \in 0..MaxFailures /\ binds \in 0..MaxBinds

\* A variable is as alien as the register it was read from.
VarInv ==
  /\ \A v \in DOMAIN var : var[v].of \in ModRegs /\ var[v].alien # {} => var[v].of \in lost
  /\ pc = "script" /\ i \in Modifies => S.reg \in lost \/ var[S.var].of = S.reg

\* Past the connection the PHY answers, until it is isolated again.
IsoInv ==
  pc = "script" /\ iso =>
    \A c \in Connections : c < i => \E j \in 1..(i - 1) : Code[j].op = "isolate"

\* Only bits that were kept are alien, in the register and, while it matters, in
\* its variable: right after the first of two read-modify-writes, and before the
\* write half of the second.
KeptInv ==
  /\ pc \in {"script", "end"} =>
       \A k \in Modifies : Latest(k, i) /\ Code[k].reg \notin missed =>
         alien[Code[k].reg] \subseteq Kept(k)
  /\ pc = "script" =>
       \A k \in Modifies :
         Code[k].op = "modify" /\ Code[k].reg \notin missed /\ (i = k + 1 \/ (i = k + 2 /\ Doubled(i))) =>
           var[Code[k].var].of = Code[k].reg /\ var[Code[k].var].alien \subseteq Code[k].keep

CalibInv == CalibTypeOK /\ OwnBits /\ VarInv /\ IsoInv /\ KeptInv

\* Past its last reset the page is 0 unless another one is selected at the moment, and
\* from the first save to the last restore v holds page 0.
PageInv(z, v) ==
  pc \in {"script", "end"} /\ i > z =>
    \/ \E j \in hurt : Blamed(j)
    \/ /\ ~Away(z, i) => page = 0
       /\ SavedSince(z, i) /\ RestoredFrom(i) => var[v].of = Page /\ var[v].data = 0
=============================================================================
