--------------------------- MODULE MtsCalibProofs ---------------------------
(***************************************************************************)
(* Proofs about MtsCalib for every script of the form that WellFormed and  *)
(* PagesFormed describe, any number of failures and of bindings.           *)
(* MCMtsCalib has TLC evaluate both for the script of the driver.          *)
(***************************************************************************)
EXTENDS MtsCalib, TLAPS

-----------------------------------------------------------------------------
(* Scripts. *)

LEMMA CodeStep ==
  ASSUME NEW j \in 1..Len(Code)
  PROVE  /\ Code[j].op \in {"read", "write", "modify", "merge", "select", "restore", "gate", "efuse",
                            "connect", "isolate", "loop"}
         /\ Code[j].reg \in Nat \cup {None} /\ Code[j].var \in {"val16", "r4", "r9", "other"}
         /\ Code[j].keep \subseteq Bits /\ Code[j].data \in Nat
<1>1. Code[j] \in Steps
  BY CalibAssumption
<1> QED BY <1>1 DEF Steps

LEMMA CodeLen == Len(Code) \in Nat
BY CalibAssumption

LEMMA Widen ==
  ASSUME NEW a \in Nat, NEW b \in Nat, b >= a
  PROVE  1..(a - 1) \subseteq 1..(b - 1)
OBVIOUS

LEMMA LocalsDomain == DOMAIN Locals = {"val16", "r4", "r9", "other"}
BY DEF Locals

\* The register of a write half is one of ModRegs.
LEMMA ModReg == \A j \in Modifies : j \in 1..Len(Code) /\ Code[j].reg \in ModRegs /\ Code[j].op \in {"modify", "merge"}
BY DEF Modifies, ModRegs

LEMMA ModifiesAre == \A j \in 1..Len(Code) : Code[j].op \in {"modify", "merge"} <=> j \in Modifies
BY DEF Modifies

\* Where a step of the script leads to: on, past a jump whose steps count as missed, or
\* another turn of a loop.
Moved ==
  /\ pc = "script" /\ i \in 1..Len(Code)
  /\ i' \in 1..(Len(Code) + 1) /\ n' \in Nat
  /\ pc' = IF i' > Len(Code) THEN "end" ELSE "script"
  /\ \/ i' = i + 1
     \/ /\ S.op \in {"gate", "efuse"} /\ i' = S.data /\ S.data \in (i + 1)..(Len(Code) + 1)
        /\ missed' = missed \cup Skipped(S.data)
     \/ S.op = "loop" /\ i' = i
  /\ lost \subseteq lost' /\ missed \subseteq missed' /\ hurt \subseteq hurt'

LEMMA MovedStep ==
  ASSUME CalibTypeOK, Calibrate PROVE Moved
<1>1. pc = "script" /\ i \in 1..Len(Code) /\ Len(Code) \in Nat /\ n \in Nat
  BY CodeLen DEF CalibTypeOK, Calibrate, ReadOk, ReadFail, WriteOk, WriteFail, Efuse, Isolate, Loop, At
<1>2. S.op \in {"gate", "efuse"} => S.data \in (i + 1)..(Len(Code) + 1)
  BY <1>1, CalibAssumption DEF S
<1>3. CASE Goto(i + 1)
  <2>1. lost \subseteq lost' /\ missed \subseteq missed' /\ hurt \subseteq hurt'
    BY DEF Calibrate, ReadOk, ReadFail, WriteOk, WriteFail, Efuse, Isolate, Loop, history
  <2> QED BY <1>1, <1>3, <2>1 DEF Moved, Goto
<1>4. CASE S.op \in {"gate", "efuse"} /\ Goto(S.data) /\ missed' = missed \cup Skipped(S.data)
  <2>1. lost \subseteq lost' /\ hurt \subseteq hurt'
    BY DEF Calibrate, ReadOk, ReadFail, WriteOk, WriteFail, Efuse, Isolate, Loop, history
  <2> QED BY <1>1, <1>2, <1>4, <2>1 DEF Moved, Goto
<1>5. CASE S.op = "loop" /\ n' = n + 1 /\ UNCHANGED <<pc, i, history>>
  BY <1>1, <1>5 DEF Moved, history
<1>6. Goto(i + 1) \/ (S.op \in {"gate", "efuse"} /\ Goto(S.data) /\ missed' = missed \cup Skipped(S.data))
      \/ (S.op = "loop" /\ n' = n + 1 /\ UNCHANGED <<pc, i, history>>)
  BY DEF Calibrate, ReadOk, ReadFail, WriteOk, WriteFail, Efuse, Isolate, Loop, At
<1> QED BY <1>3, <1>4, <1>5, <1>6

-----------------------------------------------------------------------------
(* Types. *)

LEMMA UnsetType == Unset \in [of : Nat \cup {None}, alien : SUBSET Bits, data : Nat]
BY DEF Unset, Junk

LEMMA CalibInit == Init => CalibTypeOK
<1> SUFFICES ASSUME Init PROVE CalibTypeOK
  OBVIOUS
<1>1. efuse \in BOOLEAN /\ iso \in BOOLEAN
  BY Zenon DEF Init
<1>2. i \in 1..(Len(Code) + 1) /\ n \in Nat /\ i = 1
  BY CodeLen DEF Init
<1>3. page \in Nat
  <2>1. page \in Pages
    BY DEF Init
  <2>2. Pages \subseteq 0..Ones
    BY CalibAssumption
  <2>3. page \in 0..Ones
    BY <2>1, <2>2
  <2> QED BY <2>1, <2>3 DEF Ones
<1>4. var \in [DOMAIN Locals -> [of : Nat \cup {None}, alien : SUBSET Bits, data : Nat]]
  BY UnsetType DEF Init, Locals
<1>5. failures \in 0..MaxFailures /\ binds \in 0..MaxBinds
  BY CalibAssumption DEF Init
<1> QED BY <1>1, <1>2, <1>3, <1>4, <1>5 DEF Init, CalibTypeOK

\* The bits and the contents a step of the script handles.
LEMMA ScriptTypes ==
  ASSUME CalibTypeOK, Calibrate
  PROVE  /\ alien' \in [ModRegs -> SUBSET Bits] /\ page' \in Nat
         /\ var' \in [DOMAIN Locals -> [of : Nat \cup {None}, alien : SUBSET Bits, data : Nat]]
<1>1. i \in 1..Len(Code) /\ S = Code[i]
  BY MovedStep DEF Moved, S
<1>2. S.reg \in Nat \cup {None} /\ S.var \in DOMAIN Locals /\ S.keep \subseteq Bits /\ S.data \in Nat
  BY <1>1, CodeStep, LocalsDomain
<1>3. S.op \in {"modify", "merge"} => S.reg \in ModRegs
  BY <1>1, ModReg, ModifiesAre
<1>4. Contents(S.reg) \in [of : Nat \cup {None}, alien : SUBSET Bits, data : Nat]
  BY <1>2, UnsetType DEF Contents, CalibTypeOK, Junk
<1>5. Taken \subseteq Bits /\ var[S.var].data \in Nat
  BY <1>2 DEF Taken, CalibTypeOK
<1>6. Effect => alien' \in [ModRegs -> SUBSET Bits] /\ page' \in Nat
  <2>1. CASE iso BY <2>1 DEF Effect, CalibTypeOK
  <2>2. CASE ~iso
    BY <1>2, <1>3, <1>5, <2>2 DEF Effect, CalibTypeOK, Junk
  <2> QED BY <2>1, <2>2
<1>7. Assign => var' \in [DOMAIN Locals -> [of : Nat \cup {None}, alien : SUBSET Bits, data : Nat]]
  BY <1>2, <1>5 DEF Assign, CalibTypeOK, Junk
<1>8. CASE ReadOk
  BY <1>2, <1>4, <1>8 DEF ReadOk, CalibTypeOK, hw
<1>9. CASE WriteOk \/ WriteFail
  <2>1. Assign /\ (Effect \/ UNCHANGED <<alien, page>>)
    BY <1>9 DEF WriteOk, WriteFail
  <2> QED BY <1>6, <1>7, <2>1 DEF CalibTypeOK
<1>10. CASE ReadFail \/ Efuse \/ Isolate \/ Loop
  BY <1>10 DEF ReadFail, Efuse, Isolate, Loop, hw, CalibTypeOK
<1> QED BY <1>8, <1>9, <1>10 DEF Calibrate

\* The histories and counters of a step of the script.
LEMMA ScriptHistories ==
  ASSUME CalibTypeOK, Calibrate
  PROVE  /\ lost' \subseteq ModRegs /\ missed' \subseteq ModRegs /\ hurt' \subseteq 1..Len(Code)
         /\ failures' \in 0..MaxFailures /\ UNCHANGED binds
         /\ efuse' \in BOOLEAN /\ iso' \in BOOLEAN
<1>1. i \in 1..Len(Code)
  BY MovedStep DEF Moved
<1>2. \A j : Skipped(j) \subseteq ModRegs
  BY DEF Skipped, ModRegs
<1>3. lost' \subseteq ModRegs /\ missed' \subseteq ModRegs /\ hurt' \subseteq 1..Len(Code)
  BY <1>1, <1>2 DEF CalibTypeOK, Calibrate, ReadOk, ReadFail, WriteOk, WriteFail, Efuse, Isolate, Loop, history
<1>4. failures' \in 0..MaxFailures
  <2>1. UNCHANGED failures \/ Fail
    BY DEF Calibrate, ReadOk, ReadFail, WriteOk, WriteFail, Efuse, Isolate, Loop
  <2> QED BY <2>1, CalibAssumption DEF Fail, CalibTypeOK
<1>5. UNCHANGED binds
  BY DEF Calibrate, ReadOk, ReadFail, WriteOk, WriteFail, Efuse, Isolate, Loop
<1>6. efuse' \in BOOLEAN
  <2>1. efuse' = efuse
    BY DEF Calibrate, ReadOk, ReadFail, WriteOk, WriteFail, Efuse, Isolate, Loop, hw
  <2> QED BY <2>1 DEF CalibTypeOK
<1>7. iso' \in BOOLEAN
  <2>1. iso' = iso \/ iso' = (S.op = "isolate")
    BY DEF Calibrate, ReadOk, ReadFail, WriteOk, WriteFail, Efuse, Isolate, Loop, hw
  <2> QED BY <2>1, Zenon DEF CalibTypeOK
<1> QED BY <1>3, <1>4, <1>5, <1>6, <1>7

\* Every step keeps the types; a script that connects the PHY is not empty.
LEMMA CalibTypes ==
  ASSUME CalibTypeOK, Connections # {}, [Next]_vars
  PROVE  CalibTypeOK'
<1>0. Len(Code) \in Nat /\ 1 <= Len(Code)
  BY CodeLen DEF Connections
<1>1. CASE Calibrate
  <2>1. Moved
    BY <1>1, MovedStep
  <2>2. /\ pc' \in {"script", "end"} /\ i' \in 1..(Len(Code) + 1) /\ (pc' = "script" => i' <= Len(Code))
        /\ n' \in Nat
    BY <2>1, <1>0 DEF Moved
  <2> QED BY <1>1, <2>2, ScriptTypes, ScriptHistories DEF CalibTypeOK
<1>2. CASE UNCHANGED vars \/ Unbind
  <2>1. UNCHANGED <<i, n, efuse, iso, alien, page, var, lost, missed, hurt, failures, binds>>
        /\ pc' \in {pc, "unbound"}
    BY <1>2 DEF vars, Unbind, hw, history
  <2> QED BY <2>1 DEF CalibTypeOK
<1>3. CASE Bind
  <2>1. UNCHANGED <<efuse, iso, alien, page, lost, failures>> /\ pc' = "probe" /\ i' = 1 /\ n' = 0
        /\ var' = Locals /\ missed' = {} /\ hurt' = {} /\ binds' = binds + 1
    BY <1>3 DEF Bind, hw
  <2>2. binds' \in 0..MaxBinds
    BY <1>3, CalibAssumption DEF Bind, CalibTypeOK
  <2>3. var' \in [DOMAIN Locals -> [of : Nat \cup {None}, alien : SUBSET Bits, data : Nat]]
    BY <2>1, UnsetType DEF Locals
  <2> QED BY <1>0, <2>1, <2>2, <2>3 DEF CalibTypeOK
<1>4. CASE ProbeRead
  <2>1. n' = n + 1 /\ UNCHANGED <<pc, i, efuse, iso, alien, page, var, lost, missed, hurt, binds>>
    BY <1>4 DEF ProbeRead, hw, history
  <2>2. failures' \in 0..MaxFailures
    <3>1. failures' = failures \/ (failures < MaxFailures /\ failures' = failures + 1)
      BY <1>4 DEF ProbeRead
    <3> QED BY <3>1, CalibAssumption DEF CalibTypeOK
  <2>3. n' \in Nat
    BY <2>1 DEF CalibTypeOK
  <2> QED BY <2>1, <2>2, <2>3 DEF CalibTypeOK
<1>5. CASE ProbeReport
  <2>1. pc' = "enable" /\ pc = "probe" /\ n' = 0
        /\ UNCHANGED <<i, efuse, iso, alien, page, var, lost, missed, hurt, failures, binds>>
    BY <1>5 DEF ProbeReport, hw, history
  <2> QED BY <2>1 DEF CalibTypeOK
<1>6. ASSUME NEW e \in BOOLEAN, MacEnable(e) PROVE CalibTypeOK'
  <2>1. pc' \in {"script", "end"} /\ pc = "enable" /\ missed' \in {{}, ModRegs}
        /\ UNCHANGED <<i, n, efuse, iso, alien, page, var, lost, hurt, failures, binds>>
    BY <1>6 DEF MacEnable, hw
  <2> QED BY <1>0, <2>1 DEF CalibTypeOK
<1> QED BY <1>1, <1>2, <1>3, <1>4, <1>5, <1>6 DEF Next, Start

-----------------------------------------------------------------------------
(* The PHY while the script runs. *)

\* The PHY is not isolated between the connection and the last read-modify-write.
LEMMA PhyAnswers ==
  ASSUME CalibTypeOK, IsoInv, WellFormed, pc = "script",
         i \in Modifies \/ i + 1 \in Modifies
  PROVE  ~iso
<1> SUFFICES ASSUME iso PROVE FALSE
  OBVIOUS
<1>1. PICK c \in Connections : TRUE
  BY DEF WellFormed
<1>2. PICK m \in Modifies : m = i \/ m = i + 1
  OBVIOUS
<1>3. m \in 1..Len(Code) /\ c \in 1..Len(Code) /\ i \in 1..Len(Code) /\ Len(Code) \in Nat
  BY <1>1, <1>2, ModReg, CodeLen DEF Connections, CalibTypeOK
<1>4. c < m /\ Code[c].op = "connect" /\ \A j \in 1..Len(Code) : Code[j].op = "isolate" => m < j
  BY <1>1, <1>2 DEF Connections, Connected
<1>5. m = i + 1 => Code[i].op = "read"
  <2>1. m - 1 \in 1..Len(Code) /\ Code[m - 1].op = "read"
    BY <1>2, <1>3 DEF WellFormed, Paired
  <2> QED BY <1>3, <2>1
<1>6. c < i
  BY <1>2, <1>3, <1>4, <1>5
<1>7. PICK j \in 1..(i - 1) : Code[j].op = "isolate"
  BY <1>1, <1>6 DEF IsoInv
<1>8. j \in 1..Len(Code)
  BY <1>3, <1>7
<1> QED BY <1>2, <1>3, <1>4, <1>7, <1>8

LEMMA IsoStep ==
  ASSUME CalibTypeOK, IsoInv, Calibrate
  PROVE  IsoInv'
<1> SUFFICES ASSUME iso', NEW c \in Connections, c < i'
             PROVE  \E j \in 1..(i' - 1) : Code[j].op = "isolate"
  BY DEF IsoInv
<1>1. Moved
  BY MovedStep
<1>2. c \in 1..Len(Code) /\ Len(Code) \in Nat /\ Code[c].op = "connect" /\ i \in 1..Len(Code) /\ i' \in 1..(Len(Code) + 1)
  BY <1>1, CodeLen DEF Connections, Connected, Moved
<1>3. Code[i].op \in {"gate", "efuse"} /\ i < c => Code[i].data <= c
  BY <1>2 DEF Connections, Connected
<1>4. i' >= i /\ (i' = i \/ i' = i + 1 \/ (Code[i].op \in {"gate", "efuse"} /\ i' = Code[i].data))
  BY <1>1, <1>2 DEF Moved, S
<1>5. CASE Isolate
  <2>1. Code[i].op \in {"connect", "isolate"} /\ (iso' <=> Code[i].op = "isolate")
    BY <1>5 DEF Isolate, At, S
  <2>2. i' = i + 1
    BY <1>5 DEF Isolate, Goto
  <2>3. i \in 1..(i' - 1)
    BY <1>2, <2>2
  <2> QED BY <2>1, <2>3
<1>6. CASE ~Isolate
  <2>1. iso' = iso /\ Code[i].op # "connect" /\ pc = "script"
    BY <1>6, <1>1 DEF Calibrate, ReadOk, ReadFail, WriteOk, WriteFail, Efuse, Loop, hw, At, S, Writes, Moved
  <2>2. c < i
    BY <1>2, <1>3, <1>4, <2>1
  <2>3. PICK j \in 1..(i - 1) : Code[j].op = "isolate"
    BY <2>1, <2>2 DEF IsoInv
  <2>4. i' >= i /\ i \in Nat /\ i' \in Nat
    BY <1>2, <1>4
  <2>5. j \in 1..(i' - 1)
    BY <2>4, Widen
  <2> QED BY <2>3, <2>5
<1> QED BY <1>5, <1>6

-----------------------------------------------------------------------------
(* Whose bits the variables and the registers hold. *)

\* A read-modify-write of a register none of whose reads failed takes over its own bits.
LEMMA TakenOwn ==
  ASSUME CalibTypeOK, VarInv, pc = "script", i \in Modifies, S.reg \notin lost
  PROVE  Taken = {}
<1>1. i \in 1..Len(Code) /\ S.reg \in ModRegs
  BY ModReg DEF S
<1>2. S.var \in DOMAIN var
  BY <1>1, CodeStep, LocalsDomain DEF S, CalibTypeOK
<1>3. var[S.var].of = S.reg
  BY DEF VarInv
<1>4. var[S.var].alien = {}
  BY <1>1, <1>2, <1>3 DEF VarInv
<1> QED BY <1>3, <1>4 DEF Taken

\* The variables, while the script runs.
LEMMA VarStep ==
  ASSUME CalibTypeOK, OwnBits, VarInv, WellFormed, Calibrate
  PROVE  \A v \in DOMAIN var' : var'[v].of \in ModRegs /\ var'[v].alien # {} => var'[v].of \in lost'
<1>1. Moved /\ i \in 1..Len(Code) /\ pc = "script"
  BY MovedStep DEF Moved
<1>2. DOMAIN var = DOMAIN Locals /\ S.var \in DOMAIN var
  BY <1>1, CodeStep, LocalsDomain DEF CalibTypeOK, S
<1>3. CASE UNCHANGED var
  BY <1>1, <1>3 DEF VarInv, Moved
<1>4. CASE ReadOk
  <2>1. var' = [var EXCEPT ![S.var] = Contents(S.reg)]
    BY <1>4 DEF ReadOk
  <2>2. Contents(S.reg).of \in ModRegs /\ Contents(S.reg).alien # {} => Contents(S.reg).of \in lost
    <3>1. CASE iso
      <4>1. None \notin ModRegs
        BY DEF ModRegs, WellFormed, Paired
      <4> QED BY <3>1, <4>1 DEF Contents, Unset
    <3>2. CASE ~iso
      BY <3>2 DEF Contents, OwnBits
    <3> QED BY <3>1, <3>2
  <2> QED BY <1>1, <1>2, <2>1, <2>2 DEF VarInv, Moved
<1>5. CASE S.op = "modify" /\ Assign
  <2>1. var' = [var EXCEPT ![S.var] = [of |-> S.reg, alien |-> Taken, data |-> Junk]]
    BY <1>5 DEF Assign
  <2>2. i \in Modifies
    BY <1>1, <1>5, ModifiesAre DEF S
  <2>3. Taken # {} => S.reg \in lost
    BY <1>1, <2>2, TakenOwn
  <2> QED BY <1>1, <1>2, <2>1, <2>3 DEF VarInv, Moved
<1> QED BY <1>3, <1>4, <1>5 DEF Calibrate, ReadOk, ReadFail, WriteOk, WriteFail, Efuse, Isolate, Loop, Assign

\* What a step of the script does to the bits of the registers.
LEMMA AlienStep ==
  ASSUME CalibTypeOK, Calibrate, NEW r \in ModRegs
  PROVE  alien'[r] = alien[r] \/ alien'[r] = {} \/ (i \in Modifies /\ r = S.reg /\ alien'[r] = Taken)
<1>1. i \in 1..Len(Code) /\ alien \in [ModRegs -> SUBSET Bits]
  BY MovedStep DEF Moved, CalibTypeOK
<1>2. CASE UNCHANGED alien
  BY <1>2
<1>3. CASE Effect /\ ~iso
  <2>1. CASE S.op \in {"modify", "merge"}
    <3>1. i \in Modifies
      BY <1>1, <2>1, ModifiesAre DEF S
    <3>2. alien' = [alien EXCEPT ![S.reg] = Taken]
      BY <1>3, <2>1 DEF Effect
    <3> QED BY <1>1, <3>1, <3>2
  <2>2. CASE S.op = "write" /\ S.reg \in ModRegs
    <3>1. alien' = [alien EXCEPT ![S.reg] = {}]
      BY <1>3, <2>2 DEF Effect
    <3> QED BY <1>1, <3>1
  <2>3. CASE S.op \notin {"modify", "merge"} /\ ~(S.op = "write" /\ S.reg \in ModRegs)
    <3>1. alien' = alien
      BY <1>3, <2>3 DEF Effect
    <3> QED BY <3>1
  <2> QED BY <2>1, <2>2, <2>3
<1> QED BY <1>2, <1>3 DEF Calibrate, ReadOk, ReadFail, WriteOk, WriteFail, Efuse, Isolate, Loop, hw, Effect

LEMMA OwnStep ==
  ASSUME CalibTypeOK, OwnBits, VarInv, Calibrate
  PROVE  OwnBits'
<1> SUFFICES ASSUME NEW r \in ModRegs, alien'[r] # {}, r \notin lost' PROVE FALSE
  BY DEF OwnBits
<1>1. pc = "script" /\ r \notin lost
  BY MovedStep DEF Moved
<1>2. alien[r] = {}
  BY <1>1 DEF OwnBits
<1>3. i \in Modifies /\ r = S.reg /\ alien'[r] = Taken
  BY <1>2, AlienStep
<1> QED BY <1>1, <1>3, TakenOwn

\* A write half is reached only from its read half.
LEMMA FromRead ==
  ASSUME CalibTypeOK, WellFormed, Calibrate, i' \in Modifies
  PROVE  /\ i' = i + 1 /\ S.op = "read" /\ S.reg = Code[i'].reg /\ S.var = Code[i'].var
         /\ ReadOk \/ ReadFail
<1>1. Moved
  BY MovedStep
<1>2. i' \in 1..Len(Code) /\ i \in 1..Len(Code) /\ Code[i'].op \in {"modify", "merge"}
  BY <1>1, ModReg DEF Moved
<1>3. i' = i + 1
  <2>1. S.op \in {"gate", "efuse"} => i' # S.data
    BY <1>2 DEF S, WellFormed, Paired
  <2>2. S.op = "loop" => i' # i
    BY <1>2 DEF S
  <2> QED BY <1>1, <2>1, <2>2 DEF Moved
<1>4. i' - 1 = i
  BY <1>2, <1>3
<1>5. S.op = "read" /\ S.reg = Code[i'].reg /\ S.var = Code[i'].var
  BY <1>4 DEF S, WellFormed, Paired
<1>6. ReadOk \/ ReadFail
  BY <1>5 DEF Calibrate, WriteOk, WriteFail, Efuse, Isolate, Loop, At, Writes
<1> QED BY <1>3, <1>5, <1>6

\* What the read half leaves behind.
LEMMA ReadHalf ==
  ASSUME CalibTypeOK, IsoInv, WellFormed, Calibrate, i' \in Modifies
  PROVE  \/ S.reg \in lost' /\ UNCHANGED var
         \/ var'[S.var].of = S.reg /\ var'[S.var].alien = alien[S.reg]
<1>1. i' = i + 1 /\ S.op = "read" /\ S.reg = Code[i'].reg /\ (ReadOk \/ ReadFail)
  BY FromRead
<1>2. S.reg \in ModRegs
  BY <1>1, ModReg
<1>3. pc = "script" /\ i \in 1..Len(Code)
  BY MovedStep DEF Moved
<1>4. CASE ReadOk
  <2>1. ~iso
    BY <1>1, <1>3, PhyAnswers
  <2>2. S.var \in DOMAIN var
    BY <1>3, CodeStep, LocalsDomain DEF S, CalibTypeOK
  <2>3. var' = [var EXCEPT ![S.var] = Contents(S.reg)]
    BY <1>4 DEF ReadOk
  <2> QED BY <1>2, <2>1, <2>2, <2>3 DEF Contents
<1>5. CASE ReadFail
  BY <1>2, <1>5 DEF ReadFail
<1> QED BY <1>1, <1>4, <1>5

LEMMA VarInvStep ==
  ASSUME CalibTypeOK, OwnBits, VarInv, IsoInv, WellFormed, Calibrate
  PROVE  VarInv'
<1>1. \A v \in DOMAIN var' : var'[v].of \in ModRegs /\ var'[v].alien # {} => var'[v].of \in lost'
  BY VarStep
<1>2. i' \in Modifies => Code[i'].reg \in lost' \/ var'[Code[i'].var].of = Code[i'].reg
  BY FromRead, ReadHalf
<1> QED BY <1>1, <1>2 DEF VarInv, S

-----------------------------------------------------------------------------
(* Which bits can be alien at all. *)

\* A write half whose write did not fail.
LEMMA WriteHalf ==
  ASSUME CalibTypeOK, IsoInv, WellFormed, Calibrate, i \in Modifies, S.reg \notin missed'
  PROVE  /\ i' = i + 1 /\ alien'[S.reg] = Taken
         /\ S.op = "modify" => var'[S.var].of = S.reg /\ var'[S.var].alien = Taken
<1>1. pc = "script" /\ i \in 1..Len(Code) /\ S.reg \in ModRegs /\ S.op \in {"modify", "merge"}
  BY MovedStep, ModReg DEF Moved, S
<1>2. WriteOk
  BY <1>1 DEF Calibrate, ReadOk, ReadFail, WriteFail, Efuse, Isolate, Loop, At
<1>3. ~iso
  BY <1>1, PhyAnswers
<1>4. S.var \in DOMAIN var
  BY <1>1, CodeStep, LocalsDomain DEF S, CalibTypeOK
<1>5. alien' = [alien EXCEPT ![S.reg] = Taken] /\ Assign /\ i' = i + 1
  BY <1>1, <1>2, <1>3 DEF WriteOk, Effect, Goto
<1> QED BY <1>1, <1>4, <1>5 DEF Assign, CalibTypeOK

\* A register is written last by the step that wrote it last before this one, unless
\* this one writes it or a jump leaves its writing out.
LEMMA LatestBefore ==
  ASSUME CalibTypeOK, Calibrate, NEW k \in Modifies, Latest(k, i'), Code[k].reg \notin missed', k # i
  PROVE  Latest(k, i) /\ ~(i \in Modifies /\ Code[k].reg = S.reg)
<1>1. Moved
  BY MovedStep
<1>2. k \in 1..Len(Code) /\ i \in 1..Len(Code) /\ i' \in 1..(Len(Code) + 1) /\ Len(Code) \in Nat
  BY <1>1, ModReg, CodeLen DEF Moved
<1>3. k < i'
  BY DEF Latest
<1>4. k < i
  <2>1. CASE i' = i + 1
    BY <1>2, <1>3, <2>1
  <2>2. CASE i' = i
    BY <1>3, <2>2
  <2>3. CASE i' = S.data /\ missed' = missed \cup Skipped(S.data)
    <3>1. ~(k \in (i + 1)..(S.data - 1))
      BY <2>3 DEF Skipped
    <3> QED BY <1>2, <1>3, <2>3, <3>1
  <2> QED BY <1>1, <2>1, <2>2, <2>3 DEF Moved
<1>5. i <= i'
  BY <1>1, <1>2 DEF Moved
<1>6. ASSUME NEW m \in Modifies, m < i, Code[m].reg = Code[k].reg PROVE m <= k
  <2>1. m \in 1..Len(Code)
    BY ModReg
  <2>2. m < i'
    BY <1>2, <1>5, <1>6, <2>1
  <2> QED BY <1>6, <2>2 DEF Latest
<1>7. ~(i \in Modifies /\ Code[k].reg = S.reg)
  <2> SUFFICES ASSUME i \in Modifies, Code[k].reg = Code[i].reg PROVE FALSE
    BY DEF S
  <2>1. i < i'
    <3>1. Code[i].op \in {"modify", "merge"}
      BY ModReg
    <3> QED BY <1>1, <1>2, <3>1 DEF Moved, S
  <2>2. i <= k
    BY <2>1 DEF Latest
  <2> QED BY <1>2, <1>4, <2>2
<1> QED BY <1>4, <1>6, <1>7 DEF Latest

\* The registers.
LEMMA KeptRegisters ==
  ASSUME CalibTypeOK, IsoInv, KeptInv, WellFormed, Calibrate,
         NEW k \in Modifies, Latest(k, i'), Code[k].reg \notin missed'
  PROVE  alien'[Code[k].reg] \subseteq Kept(k)
<1>1. Moved /\ Code[k].reg \notin missed /\ Code[k].reg \in ModRegs
  BY MovedStep, ModReg DEF Moved
<1>2. pc = "script"
  BY <1>1 DEF Moved
<1>3. CASE k # i
  <2>1. Latest(k, i) /\ ~(i \in Modifies /\ Code[k].reg = S.reg)
    BY <1>3, LatestBefore
  <2>2. alien[Code[k].reg] \subseteq Kept(k)
    BY <1>1, <1>2, <2>1 DEF KeptInv
  <2>3. alien'[Code[k].reg] = alien[Code[k].reg] \/ alien'[Code[k].reg] = {}
    BY <1>1, <2>1, AlienStep
  <2> QED BY <2>2, <2>3
<1>4. CASE k = i
  <2>1. S = Code[k] /\ alien'[S.reg] = Taken
    BY <1>4, WriteHalf DEF S
  <2>2. Taken \subseteq Code[k].keep
    BY <2>1 DEF Taken
  <2>3. ASSUME Doubled(k) PROVE Taken \subseteq Code[k - 2].keep
    <3>1. /\ k - 2 \in Modifies /\ Code[k - 2].op = "modify" /\ Code[k - 2].reg = Code[k].reg
          /\ Code[k - 2].var = Code[k].var
      BY <2>3 DEF Doubled
    <3>2. i = (k - 2) + 2
      BY <1>4, ModReg
    <3>3. var[Code[k].var].of = Code[k].reg /\ var[Code[k].var].alien \subseteq Code[k - 2].keep
      BY <1>1, <1>2, <1>4, <2>3, <3>1, <3>2 DEF KeptInv
    <3> QED BY <2>1, <3>3 DEF Taken
  <2> QED BY <2>1, <2>2, <2>3 DEF Kept
<1> QED BY <1>3, <1>4

\* The variable of a pair of read-modify-writes.
LEMMA KeptVariable ==
  ASSUME CalibTypeOK, IsoInv, KeptInv, WellFormed, Calibrate,
         NEW k \in Modifies, Code[k].op = "modify", Code[k].reg \notin missed',
         i' = k + 1 \/ (i' = k + 2 /\ Doubled(i'))
  PROVE  var'[Code[k].var].of = Code[k].reg /\ var'[Code[k].var].alien \subseteq Code[k].keep
<1>1. Moved /\ Code[k].reg \notin missed
  BY MovedStep DEF Moved
<1>2. pc = "script" /\ i \in 1..Len(Code) /\ k \in 1..Len(Code) /\ Len(Code) \in Nat
  BY <1>1, ModReg, CodeLen DEF Moved
<1>3. CASE i' = k + 1 /\ i = k
  <2>1. S = Code[k]
    BY <1>3 DEF S
  <2> QED BY <1>3, <2>1, WriteHalf DEF Taken
<1>4. CASE i' = k + 1 /\ i # k
  <2>1. CASE i' = i + 1
    BY <1>2, <1>4, <2>1
  <2>2. CASE i' = S.data /\ S.data \in (i + 1)..(Len(Code) + 1) /\ missed' = missed \cup Skipped(S.data)
    <3>1. k \in (i + 1)..(S.data - 1)
      BY <1>2, <1>4, <2>2
    <3> QED BY <2>2, <3>1 DEF Skipped
  <2>3. CASE S.op = "loop" /\ i' = i
    <3>1. UNCHANGED var
      BY <2>3 DEF Calibrate, ReadOk, ReadFail, WriteOk, WriteFail, Efuse, Isolate, Loop, At, Writes
    <3> QED BY <1>1, <1>2, <1>4, <2>3, <3>1 DEF KeptInv
  <2> QED BY <1>1, <2>1, <2>2, <2>3 DEF Moved
<1>5. CASE i' = k + 2 /\ Doubled(i')
  <2>1. /\ i' \in Modifies /\ Code[k].reg = Code[i'].reg /\ Code[k].var = Code[i'].var
    <3>1. i' - 2 = k
      BY <1>2, <1>5
    <3> QED BY <1>5, <3>1 DEF Doubled
  <2>2. i = k + 1 /\ S.reg = Code[k].reg /\ S.var = Code[k].var
    BY <1>2, <1>5, <2>1, FromRead
  <2>3. Latest(k, i)
    <3>1. ASSUME NEW m \in Modifies, m < i PROVE m <= k
      BY <1>2, <2>2, <3>1, ModReg
    <3> QED BY <1>2, <2>2, <3>1 DEF Latest
  <2>4. alien[S.reg] \subseteq Code[k].keep
    BY <1>1, <1>2, <2>2, <2>3 DEF KeptInv, Kept
  <2>5. var[S.var].of = S.reg /\ var[S.var].alien \subseteq Code[k].keep
    BY <1>1, <1>2, <2>2 DEF KeptInv
  <2> QED BY <2>1, <2>2, <2>4, <2>5, ReadHalf
<1> QED BY <1>3, <1>4, <1>5

-----------------------------------------------------------------------------
LEMMA CalibStep ==
  ASSUME CalibInv, WellFormed, [Next]_vars
  PROVE  CalibInv'
<1>1. CalibTypeOK'
  BY CalibTypes DEF CalibInv, WellFormed
<1>2. CASE Calibrate
  <2>1. OwnBits' /\ VarInv' /\ IsoInv'
    BY <1>2, OwnStep, VarInvStep, IsoStep DEF CalibInv
  <2>2. KeptInv'
    BY <1>2, KeptRegisters, KeptVariable DEF CalibInv, KeptInv
  <2> QED BY <1>1, <2>1, <2>2 DEF CalibInv
<1>3. CASE UNCHANGED vars
  BY <1>1, <1>3 DEF vars, CalibInv, OwnBits, VarInv, IsoInv, KeptInv, S
<1>4. CASE pc' \notin {"script", "end"} /\ UNCHANGED <<alien, lost>> /\ (UNCHANGED var \/ var' = Locals)
  <2>1. \A v \in DOMAIN Locals : Locals[v].of \notin ModRegs
    BY DEF Locals, Unset, ModRegs, WellFormed, Paired
  <2> QED BY <1>1, <1>4, <2>1 DEF CalibInv, OwnBits, VarInv, IsoInv, KeptInv
<1>5. ASSUME NEW e \in BOOLEAN, MacEnable(e) PROVE CalibInv'
  <2>1. i = 1 /\ UNCHANGED <<i, alien, lost, var, iso>>
    BY <1>5 DEF MacEnable, CalibInv, CalibTypeOK, hw
  <2>2. 1 \notin Modifies /\ \A k \in Modifies : ~(k < 1) /\ k + 1 # 1 /\ k + 2 # 1
    BY ModReg DEF WellFormed, Paired
  <2>3. \A c \in Connections : ~(c < 1)
    BY DEF Connections
  <2> QED BY <1>1, <2>1, <2>2, <2>3 DEF CalibInv, OwnBits, VarInv, IsoInv, KeptInv, Latest
<1>6. CASE Bind \/ ProbeRead \/ ProbeReport \/ Unbind
  BY <1>4, <1>6 DEF Bind, ProbeRead, ProbeReport, Unbind, hw, history
<1> QED BY <1>2, <1>3, <1>5, <1>6 DEF Next, Start

\* The invariant of the calibration, for every well-formed script.
THEOREM CalibInvariant == WellFormed => (Spec => []CalibInv)
<1> SUFFICES ASSUME WellFormed PROVE Spec => []CalibInv
  OBVIOUS
<1>1. Init => CalibInv
  <2> SUFFICES ASSUME Init PROVE CalibInv
    OBVIOUS
  <2>1. \A v \in DOMAIN Locals : Locals[v].of \notin ModRegs
    BY DEF Locals, Unset, ModRegs, WellFormed, Paired
  <2> QED BY <2>1, CalibInit DEF Init, CalibInv, OwnBits, VarInv, IsoInv, KeptInv
<1>2. CalibInv /\ [Next]_vars => CalibInv'
  BY CalibStep
<1> QED BY <1>1, <1>2, PTL DEF Spec

\* No read-modify-write of a well-formed script puts bits of one register into another
\* although all of them go through val16, unless a read of that register has failed.
THEOREM CalibOwnBits == WellFormed => (Spec => []OwnBits)
<1>1. CalibInv => OwnBits
  BY DEF CalibInv
<1> QED BY <1>1, CalibInvariant, PTL

\* A register to which no write failed ends with no alien bit but those its last
\* read-modify-write keeps, or its last two when they stand side by side.
THEOREM CalibKeptBits == WellFormed => (Spec => []KeptBitsOnly)
<1>1. CalibInv => KeptBitsOnly
  BY DEF CalibInv, KeptInv, KeptBitsOnly
<1> QED BY <1>1, CalibInvariant, PTL

-----------------------------------------------------------------------------
(* The selected page. *)

\* The PHY is not isolated at a step on the page register past its last reset.
LEMMA PageAnswers ==
  ASSUME CalibTypeOK, IsoInv, pc = "script", NEW z \in 1..Len(Code), NEW v, PagesPaired(z, v),
         i >= z, S.reg = Page
  PROVE  ~iso
<1> SUFFICES ASSUME iso PROVE FALSE
  OBVIOUS
<1>1. PICK c \in Connections : c < z
  BY DEF PagesPaired
<1>2. i \in 1..Len(Code) /\ c \in 1..Len(Code) /\ z \in 1..Len(Code) /\ Len(Code) \in Nat
  BY CodeLen DEF CalibTypeOK, Connections
<1>3. c < i
  BY <1>1, <1>2
<1>4. PICK j \in 1..(i - 1) : Code[j].op = "isolate"
  BY <1>3 DEF IsoInv
<1>5. j \in 1..Len(Code) /\ ~(i < j)
  BY <1>2
<1> QED BY <1>2, <1>4, <1>5 DEF PagesPaired, S

\* The page register, the variable v and the steps behind when a step goes on.
LEMMA AwayStep ==
  ASSUME NEW z \in Nat, NEW j \in Nat, j > z
  PROVE  /\ Code[j].op = "restore" => ~Away(z, j + 1)
         /\ Code[j].op \notin {"select", "restore"} => (Away(z, j) => Away(z, j + 1))
         /\ SavedSince(z, j + 1) => SavedSince(z, j) \/ PageSave(j)
<1>1. ASSUME NEW k \in (z + 1)..j PROVE k = j \/ k \in (z + 1)..(j - 1)
  OBVIOUS
<1>2. (j + 1) - 1 = j
  OBVIOUS
<1>3. ASSUME Code[j].op = "restore", Away(z, j + 1) PROVE FALSE
  <2>1. PICK k \in (z + 1)..j : Code[k].op = "select" /\ \A m \in (k + 1)..j : Code[m].op # "restore"
    BY <1>2, <1>3 DEF Away
  <2>2. k # j
    BY <1>3, <2>1
  <2>3. j \in (k + 1)..j
    BY <2>2
  <2> QED BY <1>3, <2>1, <2>3
<1>4. ASSUME Code[j].op \notin {"select", "restore"}, Away(z, j) PROVE Away(z, j + 1)
  <2>1. PICK k \in (z + 1)..(j - 1) : Code[k].op = "select" /\ \A m \in (k + 1)..(j - 1) : Code[m].op # "restore"
    BY <1>4 DEF Away
  <2>2. \A m \in (k + 1)..j : m = j \/ m \in (k + 1)..(j - 1)
    OBVIOUS
  <2>3. k \in (z + 1)..j /\ \A m \in (k + 1)..j : Code[m].op # "restore"
    BY <1>4, <2>1, <2>2
  <2> QED BY <1>2, <2>1, <2>3 DEF Away
<1>5. SavedSince(z, j + 1) => SavedSince(z, j) \/ PageSave(j)
  BY <1>1, <1>2 DEF SavedSince
<1> QED BY <1>3, <1>4, <1>5

\* Steps that are to blame when they fail.
LEMMA BlameStep ==
  ASSUME NEW z \in 1..Len(Code), NEW v, PagesPaired(z, v), NEW j \in z..Len(Code),
         PageSave(j) => ~SavedSince(z, j)
  PROVE  Blamed(j)
<1>0. Len(Code) \in Nat
  BY CodeLen
<1>1. \A k \in 1..Len(Code) : PageReset(k) => k <= j
  BY <1>0 DEF PagesPaired
<1>2. ASSUME PageSave(j), NEW k \in 1..(j - 1), PageSave(k) PROVE \E m \in k..j : PageReset(m)
  <2>1. k \notin (z + 1)..(j - 1)
    BY <1>2 DEF SavedSince
  <2>2. z \in k..j
    BY <1>0, <2>1
  <2> QED BY <2>2 DEF PagesPaired
<1> QED BY <1>1, <1>2 DEF Blamed

LEMMA PageStep ==
  ASSUME CalibTypeOK, IsoInv, NEW z \in 1..Len(Code), NEW v \in DOMAIN Locals, PagesPaired(z, v),
         PageInv(z, v), Calibrate
  PROVE  PageInv(z, v)'
<1> SUFFICES ASSUME i' > z, \A j \in hurt' : ~Blamed(j)
             PROVE  /\ ~Away(z, i') => page' = 0
                    /\ SavedSince(z, i') /\ RestoredFrom(i') => var'[v].of = Page /\ var'[v].data = 0
  BY DEF PageInv
<1>1. Moved
  BY MovedStep
<1>2. pc = "script" /\ i \in 1..Len(Code) /\ S = Code[i] /\ Len(Code) \in Nat /\ z \in Nat /\ i \in Nat
  BY <1>1, CodeLen DEF Moved, S
<1>3. S.op \in {"gate", "efuse"} => S.data <= z /\ S.data \in (i + 1)..(Len(Code) + 1)
  BY <1>2, CalibAssumption DEF PagesPaired
<1>4. i >= z /\ (i' = i + 1 \/ (S.op = "loop" /\ i' = i))
  BY <1>1, <1>2, <1>3 DEF Moved
<1>5. S.op \notin {"gate", "efuse"}
  BY <1>2, <1>3, <1>4
<1>6. i \in hurt' => PageSave(i) /\ SavedSince(z, i)
  <2>1. i \in z..Len(Code)
    BY <1>2, <1>4
  <2> QED BY <2>1, BlameStep
<1>7. RestoredFrom(i + 1) => RestoredFrom(i)
  <2>1. (i + 1)..Len(Code) \subseteq i..Len(Code)
    BY <1>2
  <2> QED BY <2>1 DEF RestoredFrom
<1>8. S.reg = Page => ~iso
  BY <1>2, <1>4, PageAnswers
<1>9. S.op \in {"select", "restore"} => S.reg = Page /\ WriteOk /\ i' = i + 1
  <2> SUFFICES ASSUME S.op \in {"select", "restore"} PROVE S.reg = Page /\ WriteOk /\ i' = i + 1
    OBVIOUS
  <2>1. S.reg = Page /\ ~PageSave(i)
    BY <1>2 DEF PagesPaired, PageSave
  <2>2. WriteOk \/ WriteFail
    BY DEF Calibrate, ReadOk, ReadFail, Efuse, Isolate, Loop, At
  <2>3. ~WriteFail
    BY <1>6, <2>1 DEF WriteFail
  <2> QED BY <1>4, <2>1, <2>2, <2>3
<1>10. S.op \in {"select", "restore"} =>
          /\ UNCHANGED var
          /\ page' = IF S.op = "select" THEN S.data ELSE IF var[S.var].of = Page THEN var[S.var].data ELSE Junk
  BY <1>8, <1>9 DEF WriteOk, Assign, Effect
<1>11. CASE i = z
  <2>1. S.op = "select" /\ S.data = 0
    BY <1>2, <1>11 DEF PagesPaired, PageReset
  <2>2. page' = 0 /\ i' = z + 1
    BY <1>9, <1>10, <1>11, <2>1
  <2>3. ~SavedSince(z, z + 1)
    BY <1>2 DEF SavedSince
  <2> QED BY <2>2, <2>3
<1>12. CASE i > z
  <2>1. /\ ~Away(z, i) => page = 0
        /\ SavedSince(z, i) /\ RestoredFrom(i) => var[v].of = Page /\ var[v].data = 0
    BY <1>1, <1>2, <1>12 DEF PageInv, Moved
  <2>2. i \in (z + 1)..Len(Code)
    BY <1>2, <1>12
  <2>3. /\ S.op = "restore" => ~Away(z, i + 1)
        /\ S.op \notin {"select", "restore"} => (Away(z, i) => Away(z, i + 1))
        /\ SavedSince(z, i + 1) => SavedSince(z, i) \/ PageSave(i)
    BY <1>2, <1>12, AwayStep
  <2>4. CASE S.op = "select"
    <3>1. Away(z, i + 1)
      <4>1. i \in (z + 1)..((i + 1) - 1) /\ (i + 1)..((i + 1) - 1) = {}
        BY <1>2, <2>2
      <4> QED BY <1>2, <2>4, <4>1 DEF Away
    <3>2. ~PageSave(i)
      BY <1>2, <2>4 DEF PageSave
    <3> QED BY <1>7, <1>9, <1>10, <2>1, <2>3, <2>4, <3>1, <3>2
  <2>5. CASE S.op = "restore"
    <3>1. S.var = v /\ SavedSince(z, i) /\ ~PageSave(i)
      BY <1>2, <2>2, <2>5 DEF PagesPaired, PageSave
    <3>2. RestoredFrom(i)
      <4>1. i \in i..Len(Code)
        BY <1>2
      <4> QED BY <1>2, <2>5, <4>1 DEF RestoredFrom
    <3> QED BY <1>9, <1>10, <2>1, <2>5, <3>1, <3>2
  <2>6. CASE PageSave(i)
    <3>1. S.op = "read" /\ S.reg = Page /\ S.var = v /\ ~Away(z, i)
      BY <1>2, <2>2, <2>6 DEF PagesPaired, PageSave
    <3>2. ReadOk \/ ReadFail
      BY <3>1 DEF Calibrate, WriteOk, WriteFail, Efuse, Isolate, Loop, At, Writes
    <3>3. page' = page /\ page = 0 /\ i' = i + 1
      BY <1>4, <2>1, <3>1, <3>2 DEF ReadOk, ReadFail, hw
    <3>4. CASE ReadOk
      <4>1. var' = [var EXCEPT ![v] = Contents(Page)] /\ ~iso
        BY <1>8, <3>1, <3>4 DEF ReadOk
      <4>2. v \in DOMAIN var
        BY DEF CalibTypeOK
      <4>3. var'[v].of = Page /\ var'[v].data = page
        BY <4>1, <4>2 DEF Contents
      <4> QED BY <3>3, <4>3
    <3>5. CASE ReadFail
      <4>1. i \in hurt' /\ UNCHANGED var
        BY <3>1, <3>5 DEF ReadFail
      <4> QED BY <1>6, <1>7, <2>1, <3>3, <4>1
    <3> QED BY <3>2, <3>4, <3>5
  <2>7. CASE S.op \notin {"select", "restore"} /\ ~PageSave(i)
    <3>1. page' = page
      BY <2>7 DEF Calibrate, ReadOk, ReadFail, WriteOk, WriteFail, Efuse, Isolate, Loop, hw, Effect
    <3>2. ~Away(z, i') => ~Away(z, i)
      BY <1>4, <2>3, <2>7
    <3>3. SavedSince(z, i') /\ RestoredFrom(i') => SavedSince(z, i) /\ RestoredFrom(i)
      BY <1>4, <1>7, <2>3, <2>7
    <3>4. SavedSince(z, i) /\ RestoredFrom(i) => ~(S.op \in {"read", "modify"} /\ S.var = v)
      BY <1>2, <2>2, <2>7 DEF PagesPaired
    <3>5. S.op \in {"read", "modify"} \/ UNCHANGED var
      BY <1>5 DEF Calibrate, ReadOk, ReadFail, WriteOk, WriteFail, Efuse, Isolate, Loop, At, Assign
    <3>6. S.var # v => var'[v] = var[v]
      BY DEF Calibrate, ReadOk, ReadFail, WriteOk, WriteFail, Efuse, Isolate, Loop, Assign, CalibTypeOK
    <3> QED BY <2>1, <3>1, <3>2, <3>3, <3>4, <3>5, <3>6
  <2> QED BY <2>4, <2>5, <2>6, <2>7
<1> QED BY <1>2, <1>4, <1>11, <1>12

\* The calibration of a well-formed script leaves page 0 selected, unless a step on the
\* page register failed that nothing after it makes good.
THEOREM CalibPageRestored == WellFormed /\ PagesFormed => (Spec => []PageRestored)
<1> SUFFICES ASSUME WellFormed, PagesFormed PROVE Spec => []PageRestored
  OBVIOUS
<1>1. PICK z \in 1..Len(Code), v \in DOMAIN Locals : PagesPaired(z, v)
  BY DEF PagesFormed
<1>2. Init => PageInv(z, v)
  BY DEF Init, PageInv
<1>3. CalibInv /\ PageInv(z, v) /\ [Next]_vars => PageInv(z, v)'
  <2> SUFFICES ASSUME CalibInv, PageInv(z, v), [Next]_vars PROVE PageInv(z, v)'
    OBVIOUS
  <2>1. CASE Calibrate
    BY <1>1, <2>1, PageStep DEF CalibInv
  <2>2. CASE UNCHANGED vars
    BY <2>2 DEF vars, PageInv
  <2>3. ASSUME NEW e \in BOOLEAN, MacEnable(e) PROVE PageInv(z, v)'
    <3>1. i' = 1
      BY <2>3 DEF MacEnable, CalibInv, CalibTypeOK
    <3> QED BY <3>1 DEF PageInv
  <2>4. CASE pc' \notin {"script", "end"}
    BY <2>4 DEF PageInv
  <2>5. CASE Bind \/ ProbeRead \/ ProbeReport \/ Unbind
    BY <2>4, <2>5 DEF Bind, ProbeRead, ProbeReport, Unbind
  <2> QED BY <2>1, <2>2, <2>3, <2>5 DEF Next, Start
<1>4. CalibInv /\ PageInv(z, v) => PageRestored
  <2> SUFFICES ASSUME CalibInv, PageInv(z, v), pc = "end", i > Len(Code)
               PROVE  page = 0 \/ \E j \in hurt : Blamed(j)
    BY DEF PageRestored
  <2>0. i \in 1..(Len(Code) + 1)
    BY DEF CalibInv, CalibTypeOK
  <2>1. i = Len(Code) + 1 /\ i > z
    BY <2>0, CodeLen
  <2>2. ~Away(z, i)
    BY <1>1, <2>1 DEF PagesPaired
  <2> QED BY <2>1, <2>2 DEF PageInv
<1> QED BY <1>2, <1>3, <1>4, CalibInvariant, PTL DEF Spec
=============================================================================
