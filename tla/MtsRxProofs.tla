---------------------------- MODULE MtsRxProofs ----------------------------
(***************************************************************************)
(* Proofs about MtsRx, for a ring and a budget of any size, any number of  *)
(* frames, either reading of the controller and every set of callers of    *)
(* mts_rx_clean.                                                           *)
(***************************************************************************)
EXTENDS MtsRx, FiniteSetTheorems, FunctionTheorems, SequenceTheorems, TLAPS

USE RxNAssumption, RxBudgetAssumption

LEMMA RingSteps ==
  /\ \A i \in Slots : NextSlot(i) \in Slots /\ NextSlot(i) # i
  /\ \A i, j \in Slots : NextSlot(i) = NextSlot(j) => i = j
  BY DEF Slots, NextSlot

LEMMA RxInit ==
  ASSUME Init
  PROVE  RingInv
  <1> USE DEF Init, Slots
  <1>1. wrap \in [Slots -> BOOLEAN] /\ WrapOnLast
    BY DEF WrapOnLast
  <1>2. log \in Seq([id : Nat, out : {"up", "dropped", "error"}]) /\ Len(log) = 0
    OBVIOUS
  <1>3. TypeOK
    BY <1>1, <1>2, RxHwAssumption DEF TypeOK
  <1>4. InOrder /\ TurnInv /\ Sole
    BY <1>2 DEF InOrder, TurnInv, Sole, InTurn
  <1>5. ChainInv
    BY <1>2 DEF ChainInv, Live, HeadSlot
  <1>6. WindowInv
    BY <1>2 DEF WindowInv, HeadSlot, Ring
  <1>7. CtrlInv
    BY <1>2 DEF CtrlInv, Disposed
  <1>8. QED
    BY <1>1, <1>3, <1>4, <1>5, <1>6, <1>7 DEF RingInv

\* A call under way has disposed of at most a budget of frames.
LEMMA DisposedBound ==
  ASSUME RingInv, NEW c
  PROVE  Disposed(c) \in 0 .. Budget
  <1>1. CASE c \notin Consumers
    BY <1>1 DEF Disposed
  <1>2. CASE c \in Consumers
    <2>1. cleaned[c] \in 0 .. Budget
      BY <1>2 DEF RingInv, TypeOK
    <2>2. pc[c] \in {"give", "advance"} => cleaned[c] < Budget
      BY <1>2 DEF RingInv, TurnInv, InTurn
    <2> QED BY <1>2, <2>1, <2>2 DEF Disposed
  <1> QED BY <1>1, <1>2

LEMMA HwReceiveKeeps ==
  ASSUME RingInv, HwReceive
  PROVE  RingInv'
  <1> USE DEF RingInv
  <1>0. /\ own[hw_idx] = 1 /\ hw_idx \in Slots
        /\ own' = [own EXCEPT ![hw_idx] = 0]
        /\ buf' = [buf EXCEPT ![hw_idx] = arrived + 1]
        /\ arrived' = arrived + 1 /\ arrived \in Nat
        /\ hw_idx' = NextSlot(hw_idx)
        /\ ctrl.own = 1 /\ rx_ptr' = <<"addr", hw_idx'>>
        /\ UNCHANGED <<wrap, rx_idx, sched, pc, at, ctl, cleaned, log, ctrl>>
    <2>1. hw_idx \in Slots /\ own[hw_idx] = ctrl.own /\ arrived \in Nat
      BY DEF HwReceive, TypeOK
    <2>2. ctrl.own \in {0, 1}
      BY DEF TypeOK, ControllerKinds
    <2>3. ctrl.own = 1
      BY <2>1, <2>2 DEF CtrlInv
    <2>4. hw_idx' = NextSlot(hw_idx)
      BY <2>1 DEF HwReceive, WrapOnLast, NextSlot
    <2> QED BY <2>1, <2>3, <2>4 DEF HwReceive
  <1>1. TypeOK'
    BY <1>0, RingSteps DEF HwReceive, TypeOK
  <1>2. WrapOnLast' /\ InOrder' /\ Sole'
    BY <1>0 DEF WrapOnLast, InOrder, Sole, InTurn
  <1>3. TurnInv'
    BY <1>0 DEF TurnInv, TypeOK, InTurn
  <1>4. ChainInv'
    <2>1. /\ hw_idx \notin Live /\ Live' = Live \cup {hw_idx} /\ Live \subseteq Slots
          /\ \A i \in Live : buf'[i] = buf[i]
          /\ buf'[hw_idx] = arrived + 1
          /\ HeadSlot' = HeadSlot /\ HeadSlot \in Slots
      <3>1. hw_idx \notin Live /\ Live \subseteq Slots
        BY <1>0 DEF Live
      <3>2. Live' = Live \cup {hw_idx}
        BY <1>0 DEF Live, TypeOK, TurnInv, InTurn
      <3>3. HeadSlot' = HeadSlot /\ HeadSlot \in Slots
        BY <1>0, RingSteps DEF TypeOK, HeadSlot
      <3>4. (\A i \in Live : buf'[i] = buf[i]) /\ buf'[hw_idx] = arrived + 1
        BY <1>0, <3>1 DEF TypeOK
      <3> QED BY <3>1, <3>2, <3>3, <3>4
    <2>2. Len(log) \in Nat /\ Len(log)' = Len(log)
      BY <1>0 DEF TypeOK
    <2>3. /\ Len(log') = Len(log) /\ Len(log) <= arrived
          /\ \A i \in Live' : buf'[i] \in Len(log') + 1 .. arrived'
      BY <1>0, <2>1, <2>2 DEF ChainInv
    <2>4. \A i, j \in Live' : buf'[i] = buf'[j] => i = j
      BY <1>0, <2>1, <2>2 DEF ChainInv
    <2>5. \A i \in Live' : buf'[i] < arrived' =>
            NextSlot(i) \in Live' /\ buf'[NextSlot(i)] = buf'[i] + 1
      BY <1>0, <2>1, <2>2, RingSteps DEF ChainInv
    <2>6. \A i \in Live' : buf'[i] = arrived' => hw_idx' = NextSlot(i)
      BY <1>0, <2>1, <2>2 DEF ChainInv
    <2>7. /\ Len(log') < arrived' => HeadSlot' \in Live' /\ buf'[HeadSlot'] = Len(log') + 1
          /\ Len(log') # arrived' /\ Len(log') <= arrived'
      BY <1>0, <2>1, <2>2, <2>3 DEF ChainInv
    <2>8. \A k \in Len(log') + 1 .. arrived' : \E i \in Live' : buf'[i] = k
      BY <1>0, <2>1, <2>2, <2>3 DEF ChainInv
    <2> HIDE DEF RingInv
    <2>9. QED
      BY ONLY <2>3, <2>4, <2>5, <2>6, <2>7, <2>8 DEF ChainInv
  <1>5. WindowInv'
    <2> DEFINE w == arrived - Len(log)
    <2>1. /\ hw_idx \notin Live /\ Live' = Live \cup {hw_idx} /\ Live \subseteq Slots
          /\ \A i \in Live : buf'[i] = buf[i]
          /\ buf'[hw_idx] = arrived + 1
          /\ HeadSlot' = HeadSlot /\ HeadSlot \in Slots
      <3>1. hw_idx \notin Live /\ Live \subseteq Slots
        BY <1>0 DEF Live
      <3>2. Live' = Live \cup {hw_idx}
        BY <1>0 DEF Live, TypeOK, TurnInv, InTurn
      <3>3. HeadSlot' = HeadSlot /\ HeadSlot \in Slots
        BY <1>0, RingSteps DEF TypeOK, HeadSlot
      <3>4. (\A i \in Live : buf'[i] = buf[i]) /\ buf'[hw_idx] = arrived + 1
        BY <1>0, <3>1 DEF TypeOK
      <3> QED BY <3>1, <3>2, <3>3, <3>4
    <2>2. Len(log) \in Nat /\ Len(log') = Len(log) /\ w \in Nat /\ arrived = Len(log) + w
      BY <1>0 DEF TypeOK, ChainInv
    <2>3. /\ w <= N /\ hw_idx = Ring(HeadSlot + w)
          /\ \A j \in 1 .. w :
               Ring(HeadSlot + j - 1) \in Live /\ buf[Ring(HeadSlot + j - 1)] = Len(log) + j
      BY <2>2 DEF WindowInv
    <2>4. arrived' - Len(log') = w + 1
      BY <1>0, <2>2
    <2> HIDE DEF w
    <2>5. w < N
      <3>1. w = N => hw_idx = Ring(HeadSlot + 1 - 1) /\ 1 \in 1 .. w
        BY <2>1, <2>2, <2>3 DEF Ring, Slots
      <3> QED BY <2>1, <2>2, <2>3, <3>1
    <2>6. hw_idx' = Ring(HeadSlot + (w + 1))
      BY <1>0, <2>1, <2>2, <2>3, <2>5 DEF Ring, Slots, NextSlot
    <2>7. \A j \in 1 .. w + 1 :
            Ring(HeadSlot + j - 1) \in Live' /\ buf'[Ring(HeadSlot + j - 1)] = Len(log) + j
      <3> TAKE j \in 1 .. w + 1
      <3>1. CASE j \in 1 .. w
        BY <2>1, <2>3, <3>1
      <3>2. CASE j = w + 1
        <4>1. HeadSlot + j - 1 = HeadSlot + w
          BY <2>1, <2>2, <3>2 DEF Slots
        <4> QED BY <2>1, <2>2, <2>3, <3>2, <4>1
      <3> QED BY <2>2, <3>1, <3>2
    <2> HIDE DEF RingInv
    <2>8. arrived' <= Len(log') + N
      BY <1>0, <2>2, <2>5
    <2> QED BY <2>1, <2>2, <2>4, <2>6, <2>7, <2>8 DEF WindowInv
  <1>6. CtrlInv'
    <2>1. Disposed("napi")' = Disposed("napi") /\ Disposed("sysfs")' = Disposed("sysfs")
      BY <1>0 DEF Disposed
    <2>2. ctrl.ptr = "current" => Len(log) = Disposed("napi") + Disposed("sysfs")
      BY DEF HwReceive, CtrlInv
    <2>3. ctrl.ptr = "current" => arrived' <= N + 2 * Budget
      <3>1. arrived' <= Len(log) + N /\ arrived' \in Nat /\ Len(log) \in Nat
        BY <1>0, <1>1, <1>5 DEF WindowInv, TypeOK
      <3>2. Disposed("napi") \in 0 .. Budget /\ Disposed("sysfs") \in 0 .. Budget
        BY DisposedBound
      <3> QED BY <2>2, <3>1, <3>2
    <2> QED BY <1>0, <2>1, <2>2, <2>3 DEF CtrlInv
  <1>7. QED
    BY <1>1, <1>2, <1>3, <1>4, <1>5, <1>6

LEMMA CopyKeeps ==
  ASSUME RingInv, NEW c \in Consumers, CleanCopy(c)
  PROVE  RingInv'
  <1> USE DEF RingInv
  <1> DEFINE n == Len(log)
  <1>0. /\ pc[c] = "copy" /\ at[c] = rx_idx /\ own[rx_idx] = 0
        /\ ctl[c] <=> buf[rx_idx] \notin BadFrames
        /\ rx_idx \in Slots /\ n \in Nat /\ arrived \in Nat
        /\ \A b \in Consumers : InTurn(b) => b = c
    BY DEF CleanCopy, TurnInv, TypeOK, InTurn, Sole
  <1>1. /\ rx_idx \in Live /\ HeadSlot = rx_idx
        /\ buf[rx_idx] = n + 1 /\ n < arrived
    <2>1. rx_idx \in Live
      BY <1>0 DEF Live, InTurn
    <2>2. HeadSlot = rx_idx
      BY <1>0 DEF HeadSlot, InTurn
    <2> QED BY <1>0, <2>1, <2>2 DEF ChainInv
  <1>2. PICK o \in {"up", "dropped", "error"} :
          /\ log' = Append(log, [id |-> buf[rx_idx], out |-> o])
          /\ o = "error" <=> buf[rx_idx] \in BadFrames
    BY <1>0 DEF CleanCopy
  <1>3. /\ pc' = [pc EXCEPT ![c] = "give"]
        /\ UNCHANGED <<own, wrap, buf, rx_idx, rx_ptr, hw_idx, arrived, sched, at, ctl, cleaned, ctrl>>
    BY DEF CleanCopy
  <1>4. /\ Len(log') = n + 1
        /\ \A k \in 1 .. n : log'[k] = log[k]
        /\ log'[n + 1] = [id |-> n + 1, out |-> o]
        /\ log' \in Seq([id : Nat, out : {"up", "dropped", "error"}])
    BY <1>0, <1>1, <1>2 DEF TypeOK
  <1>5. TypeOK'
    BY <1>3, <1>4 DEF TypeOK
  <1>6. WrapOnLast' /\ TurnInv' /\ Sole'
    BY <1>0, <1>3 DEF WrapOnLast, TurnInv, TypeOK, Sole, InTurn
  <1>7. InOrder'
    BY <1>0, <1>1, <1>2, <1>4 DEF InOrder
  <1>8. ChainInv'
    <2>1. /\ Live' = Live \ {rx_idx} /\ Live \subseteq Slots
          /\ HeadSlot' = NextSlot(rx_idx)
      BY <1>0, <1>3 DEF Live, HeadSlot, TypeOK, InTurn
    <2> HIDE DEF n
    <2> USE <1>0, <1>1, <1>3, <2>1
    <2>2. /\ n + 1 <= arrived
          /\ \A i \in Live' : buf[i] \in n + 2 .. arrived
      BY DEF ChainInv, n
    <2>3. \A i, j \in Live' : buf[i] = buf[j] => i = j
      BY DEF ChainInv
    <2>4. \A i \in Live' : buf[i] < arrived =>
            NextSlot(i) \in Live' /\ buf[NextSlot(i)] = buf[i] + 1
      BY <2>2, RingSteps DEF ChainInv
    <2>5. /\ n + 1 < arrived => NextSlot(rx_idx) \in Live' /\ buf[NextSlot(rx_idx)] = n + 2
          /\ n + 1 = arrived => hw_idx = NextSlot(rx_idx)
      BY RingSteps DEF ChainInv
    <2>6. \A i \in Live' : buf[i] = arrived => hw_idx = NextSlot(i)
      BY DEF ChainInv
    <2>7. \A k \in n + 2 .. arrived : \E i \in Live' : buf[i] = k
      BY DEF ChainInv, n
    <2>8. QED
      BY <1>4, <2>2, <2>3, <2>4, <2>5, <2>6, <2>7 DEF ChainInv, NextSlot
  <1>9. WindowInv'
    <2> DEFINE w == arrived - n
    <2>1. /\ Live' = Live \ {rx_idx} /\ Live \subseteq Slots
          /\ HeadSlot' = NextSlot(rx_idx) /\ HeadSlot' \in Slots
      BY <1>0, <1>3, RingSteps DEF Live, HeadSlot, TypeOK, InTurn
    <2>2. /\ w \in Nat /\ w > 0 /\ w <= N /\ arrived = n + w
          /\ hw_idx = Ring(rx_idx + w)
          /\ \A j \in 1 .. w :
               Ring(rx_idx + j - 1) \in Live /\ buf[Ring(rx_idx + j - 1)] = n + j
      BY <1>0, <1>1 DEF WindowInv
    <2>3. arrived' - Len(log') = w - 1 /\ arrived' <= Len(log') + N
      BY <1>0, <1>3, <1>4, <2>2
    <2> HIDE DEF w, n
    <2>4. \A j \in 0 .. w - 1 : Ring(HeadSlot' + j) = Ring(rx_idx + (j + 1))
      BY <1>0, <2>1, <2>2 DEF Ring, Slots, NextSlot
    <2>5. hw_idx' = Ring(HeadSlot' + (w - 1))
      BY <1>0, <1>3, <2>2, <2>4
    <2>6. \A j \in 1 .. w - 1 :
            Ring(HeadSlot' + j - 1) \in Live' /\ buf'[Ring(HeadSlot' + j - 1)] = n + 1 + j
      <3> TAKE j \in 1 .. w - 1
      <3>1. Ring(HeadSlot' + j - 1) = Ring(rx_idx + (j + 1) - 1)
        BY <1>0, <2>1, <2>2 DEF Ring, Slots, NextSlot
      <3>2. /\ Ring(rx_idx + (j + 1) - 1) \in Live
            /\ buf[Ring(rx_idx + (j + 1) - 1)] = n + (j + 1)
        BY <2>2
      <3>3. n + (j + 1) # n + 1 /\ n + (j + 1) = n + 1 + j
        BY <1>0, <2>2
      <3> QED BY <1>1, <1>3, <2>1, <3>1, <3>2, <3>3
    <2> QED BY <1>4, <2>3, <2>5, <2>6 DEF WindowInv
  <1>10. CtrlInv'
    <2>1. /\ Disposed(c)' = Disposed(c) + 1
          /\ \A b \in {"napi", "sysfs"} \ {c} : Disposed(b)' = Disposed(b)
      BY <1>0, <1>3, RxConsumersAssumption DEF Disposed, TypeOK
    <2>2. Disposed("napi") \in Nat /\ Disposed("sysfs") \in Nat
      BY DisposedBound
    <2>3. Disposed("napi")' + Disposed("sysfs")' = Disposed("napi") + Disposed("sysfs") + 1
      BY <2>1, <2>2, RxConsumersAssumption
    <2> QED BY <1>0, <1>3, <1>4, <2>3 DEF CtrlInv
  <1>11. QED
    BY <1>5, <1>6, <1>7, <1>8, <1>9, <1>10

LEMMA OtherStepsKeep ==
  ASSUME RingInv, NEW c \in Consumers, ~shared',
         CleanEnter(c) \/ CleanTop(c) \/ CleanExit(c)
  PROVE  RingInv'
  <1> USE DEF RingInv
  <1>1. /\ UNCHANGED <<own, wrap, buf, rx_idx, hw_idx, arrived, log, ctrl>>
        /\ sched' \in {"off", "on", "missed"}
        /\ rx_ptr' \in {"addr", "index"} \X Slots
    BY DEF CleanEnter, CleanTop, CleanExit, TypeOK
  <1>2. /\ pc' \in [Consumers -> {"idle", "top", "copy", "give", "advance", "exit"}]
        /\ at' \in [Consumers -> Slots]
        /\ cleaned' \in [Consumers -> 0 .. Budget]
    <2>1. 0 \in Slots /\ 0 \in 0 .. Budget /\ rx_idx \in Slots
      BY DEF TypeOK, Slots
    <2>2. CASE CleanEnter(c)
      BY <2>2 DEF CleanEnter, TypeOK
    <2>3. CASE CleanTop(c)
      BY <2>1, <2>3 DEF CleanTop, TypeOK
    <2>4. CASE CleanExit(c)
      BY <2>1, <2>4 DEF CleanExit, TypeOK
    <2> QED BY <2>2, <2>3, <2>4
  <1>3. ctl' \in [Consumers -> BOOLEAN] /\ \A b \in Consumers \ {c} : ctl'[b] = ctl[b]
    <2>1. \E v \in BOOLEAN : ctl' = [ctl EXCEPT ![c] = v] \/ ctl' = ctl
      BY DEF CleanEnter, CleanTop, CleanExit
    <2> QED BY <2>1 DEF TypeOK
  <1>4. /\ pc'[c] \in {"idle", "top", "copy", "exit"}
        /\ pc[c] \in {"idle", "top", "exit"}
        /\ pc'[c] = "idle" => cleaned'[c] = 0
        /\ pc'[c] = "copy" =>
             /\ own[rx_idx] = 0 /\ at'[c] = rx_idx /\ cleaned'[c] < Budget
             /\ ctl'[c] <=> buf[rx_idx] \notin BadFrames
             /\ \A b \in Consumers : ~InTurn(b)
        /\ \A b \in Consumers \ {c} :
             pc'[b] = pc[b] /\ at'[b] = at[b] /\ cleaned'[b] = cleaned[b]
    BY DEF CleanEnter, CleanTop, CleanExit, TypeOK
  <1>5. TypeOK'
    BY <1>1, <1>2, <1>3 DEF TypeOK
  <1>6. WrapOnLast' /\ InOrder'
    BY <1>1 DEF WrapOnLast, InOrder
  <1>7. TurnInv' /\ Sole'
    <2>1. TurnInv'
      BY <1>1, <1>3, <1>4 DEF TurnInv, InTurn
    <2> QED BY <1>4, <2>1 DEF Sole, InTurn
  <1>8. Live' = Live /\ HeadSlot' = HeadSlot
    BY <1>1, <1>4 DEF Live, HeadSlot
  <1>9. ChainInv' /\ WindowInv'
    BY <1>1, <1>8 DEF ChainInv, WindowInv
  <1>10. CtrlInv'
    <2>1. \A b \in {"napi", "sysfs"} \ {c} : Disposed(b)' = Disposed(b)
      BY <1>4 DEF Disposed
    <2>2. \/ Disposed(c)' = Disposed(c) /\ rx_ptr' = rx_ptr
          \/ rx_ptr'[1] = "index"
      BY <1>4 DEF Disposed, TypeOK, TurnInv, CleanEnter, CleanTop, CleanExit
    <2>3. \/ UNCHANGED rx_ptr /\ Disposed("napi")' = Disposed("napi")
             /\ Disposed("sysfs")' = Disposed("sysfs")
          \/ rx_ptr'[1] = "index"
      BY <2>1, <2>2
    <2> QED BY <1>1, <2>3 DEF CtrlInv
  <1>11. QED
    BY <1>5, <1>6, <1>7, <1>9, <1>10

LEMMA IdleStepsKeep ==
  ASSUME RingInv, PollTimer \/ UNCHANGED vars
  PROVE  RingInv'
  <1>1. /\ UNCHANGED <<own, wrap, buf, rx_idx, rx_ptr, hw_idx, arrived, pc, at, ctl, cleaned, log, ctrl>>
        /\ sched' \in {"off", "on", "missed"}
    BY DEF PollTimer, vars, RingInv, TypeOK
  <1>2. Live' = Live /\ HeadSlot' = HeadSlot /\ \A c : Disposed(c)' = Disposed(c)
    BY <1>1 DEF Live, HeadSlot, Disposed
  <1>3. TypeOK' /\ WrapOnLast' /\ InOrder' /\ TurnInv' /\ Sole'
    BY <1>1 DEF RingInv, TypeOK, WrapOnLast, InOrder, TurnInv, Sole, InTurn
  <1>4. ChainInv' /\ WindowInv' /\ CtrlInv'
    BY <1>1, <1>2 DEF RingInv, ChainInv, WindowInv, CtrlInv
  <1> QED BY <1>3, <1>4 DEF RingInv

LEMMA GiveKeeps ==
  ASSUME RingInv, NEW c \in Consumers, CleanGive(c)
  PROVE  RingInv'
  <1> USE DEF RingInv
  <1>0. /\ pc[c] = "give" /\ at[c] = rx_idx /\ own[rx_idx] = 0
        /\ rx_idx \in Slots /\ cleaned[c] < Budget
        /\ own' = [own EXCEPT ![rx_idx] = 1]
        /\ wrap' = [wrap EXCEPT ![rx_idx] = (rx_idx = N - 1)]
        /\ pc' = [pc EXCEPT ![c] = "advance"]
        /\ UNCHANGED <<buf, rx_idx, rx_ptr, hw_idx, arrived, sched, at, ctl, cleaned, log, ctrl>>
        /\ \A b \in Consumers : InTurn(b) => b = c
    BY DEF CleanGive, TurnInv, TypeOK, InTurn, Sole
  <1>1. wrap' = wrap
    BY <1>0 DEF TypeOK, WrapOnLast
  <1>2. TypeOK' /\ WrapOnLast' /\ InOrder'
    BY <1>0, <1>1 DEF TypeOK, WrapOnLast, InOrder
  <1>3. TurnInv' /\ Sole'
    BY <1>0 DEF TypeOK, TurnInv, Sole, InTurn
  <1>4. Live' = Live /\ HeadSlot' = HeadSlot
    BY <1>0 DEF Live, HeadSlot, TypeOK, InTurn
  <1>5. ChainInv' /\ WindowInv'
    BY <1>0, <1>4 DEF ChainInv, WindowInv
  <1>6. CtrlInv'
    <2>1. Disposed("napi")' = Disposed("napi") /\ Disposed("sysfs")' = Disposed("sysfs")
      BY <1>0 DEF Disposed, TypeOK
    <2>2. ctrl.own = 0 => \A i \in Slots : own'[i] = 1
      BY <1>0 DEF CtrlInv
    <2> QED BY <1>0, <2>1, <2>2 DEF CtrlInv
  <1>7. QED
    BY <1>2, <1>3, <1>5, <1>6

LEMMA AdvanceKeeps ==
  ASSUME RingInv, NEW c \in Consumers, CleanAdvance(c)
  PROVE  RingInv'
  <1> USE DEF RingInv
  <1>0. /\ pc[c] = "advance" /\ rx_idx \in Slots /\ cleaned[c] < Budget
        /\ rx_idx' = NextSlot(rx_idx) /\ rx_idx' \in Slots
        /\ cleaned' = [cleaned EXCEPT ![c] = @ + 1]
        /\ pc' = [pc EXCEPT ![c] = "top"]
        /\ UNCHANGED <<own, wrap, buf, rx_ptr, hw_idx, arrived, sched, at, ctl, log, ctrl>>
        /\ \A b \in Consumers : InTurn(b) => b = c
    BY RingSteps DEF CleanAdvance, TurnInv, TypeOK, InTurn, Sole
  <1>1. TypeOK'
    BY <1>0 DEF TypeOK
  <1>2. WrapOnLast' /\ InOrder' /\ TurnInv' /\ Sole'
    BY <1>0 DEF TypeOK, WrapOnLast, InOrder, TurnInv, Sole, InTurn
  <1>3. Live' = Live /\ HeadSlot' = HeadSlot
    BY <1>0 DEF Live, HeadSlot, TypeOK, InTurn
  <1>4. ChainInv' /\ WindowInv'
    BY <1>0, <1>3 DEF ChainInv, WindowInv
  <1>5. CtrlInv'
    <2>1. Disposed("napi")' = Disposed("napi") /\ Disposed("sysfs")' = Disposed("sysfs")
      BY <1>0 DEF Disposed, TypeOK
    <2> QED BY <1>0, <2>1 DEF CtrlInv
  <1>6. QED
    BY <1>1, <1>2, <1>4, <1>5

\* What happened to a shared descriptor is never forgotten.
LEMMA SharedStays == shared \in BOOLEAN /\ [Next]_vars => (shared => shared') /\ shared' \in BOOLEAN
  BY DEF Next, vars, HwReceive, PollTimer, Clean, CleanGoesOn, CleanEnter, CleanTop, CleanCopy,
         CleanGive, CleanAdvance, CleanExit

\* A step that shares no descriptor keeps the invariant of the ring.
LEMMA StepKeeps ==
  RingInv /\ ~shared' /\ [Next]_vars => RingInv'
  BY HwReceiveKeeps, CopyKeeps, OtherStepsKeep, IdleStepsKeep, GiveKeeps, AdvanceKeeps
     DEF Next, Clean, CleanGoesOn

\* The receive ring's invariant holds until two calls of mts_rx_clean handle a
\* descriptor at once.
THEOREM RxInvariant == Spec => []RxInv
  <1>1. (shared \in BOOLEAN /\ RxInv) /\ [Next]_vars => (shared \in BOOLEAN /\ RxInv)'
    BY StepKeeps, SharedStays DEF RxInv
  <1>2. Init => shared \in BOOLEAN /\ RxInv
    BY RxInit DEF RxInv, Init
  <1>3. QED
    BY <1>1, <1>2, PTL DEF Spec

\* Frames are disposed of exactly once and in the order of arrival until two calls
\* of mts_rx_clean handle a descriptor at once, for a ring and a budget of any size.
THEOREM RxInOrder == Spec => []DeliveredInOrder
  <1>1. RxInv => DeliveredInOrder
    BY DEF RxInv, RingInv, DeliveredInOrder
  <1>2. QED
    BY <1>1, RxInvariant, PTL

\* No stored frame is overwritten before it has been disposed of, until two calls of
\* mts_rx_clean handle a descriptor at once.
THEOREM RxNoFrameLost == Spec => []NoFrameLost
  <1>1. RxInv => NoFrameLost
    BY DEF RxInv, RingInv, ChainInv, NoFrameLost, Live
  <1>2. QED
    BY <1>1, RxInvariant, PTL

\* The WRAP bit never leaves the last descriptor, until two calls of mts_rx_clean
\* handle a descriptor at once.
THEOREM RxRingClosed == Spec => []RingClosed
  <1>1. RxInv => RingClosed
    BY DEF RxInv, RingInv, RingClosed
  <1>2. QED
    BY <1>1, RxInvariant, PTL

\* A controller that owns descriptors with OWN clear receives nothing, and one that
\* fetches by MTS_RX_RING_PTR at most a ring and two budgets of frames.
THEOREM RxReceives == Spec => []ReceivesAsRead
  <1>1. RxInv => ReceivesAsRead
    BY DEF RxInv, RingInv, CtrlInv, ReceivesAsRead
  <1>2. QED
    BY <1>1, RxInvariant, PTL
-----------------------------------------------------------------------------
(* The refinement of RxFifo. *)

\* The frames that wait when lo have been disposed of and hi have arrived.
Frames(lo, hi) == [j \in 1 .. hi - lo |-> lo + j]

LEMMA FramesSeq ==
  ASSUME NEW lo \in Nat, NEW hi \in Nat, lo <= hi
  PROVE  Frames(lo, hi) \in Seq(Nat) /\ Len(Frames(lo, hi)) = hi - lo
  BY DEF Frames

LEMMA FramesArrive ==
  ASSUME NEW lo \in Nat, NEW hi \in Nat, lo <= hi
  PROVE  Frames(lo, hi + 1) = Append(Frames(lo, hi), hi + 1)
<1>1. hi + 1 \in Nat /\ lo <= hi + 1 /\ hi + 1 - lo = (hi - lo) + 1
  OBVIOUS
<1>2. /\ Frames(lo, hi) \in Seq(Nat) /\ Len(Frames(lo, hi)) = hi - lo
      /\ Frames(lo, hi + 1) \in Seq(Nat) /\ Len(Frames(lo, hi + 1)) = (hi - lo) + 1
  <2>1. Frames(lo, hi) \in Seq(Nat) /\ Len(Frames(lo, hi)) = hi - lo
    BY FramesSeq
  <2>2. Frames(lo, hi + 1) \in Seq(Nat) /\ Len(Frames(lo, hi + 1)) = hi + 1 - lo
    BY <1>1, FramesSeq
  <2> QED BY <1>1, <2>1, <2>2
<1>3. /\ Append(Frames(lo, hi), hi + 1) \in Seq(Nat)
      /\ Len(Append(Frames(lo, hi), hi + 1)) = (hi - lo) + 1
      /\ \A j \in 1 .. hi - lo : Append(Frames(lo, hi), hi + 1)[j] = Frames(lo, hi)[j]
      /\ Append(Frames(lo, hi), hi + 1)[(hi - lo) + 1] = hi + 1
  BY <1>1, <1>2
<1>4. \A j \in 1 .. (hi - lo) + 1 : Frames(lo, hi + 1)[j] = Append(Frames(lo, hi), hi + 1)[j]
  BY <1>1, <1>3 DEF Frames
<1> QED BY <1>2, <1>3, <1>4, SeqEqual

LEMMA FramesDispose ==
  ASSUME NEW lo \in Nat, NEW hi \in Nat, lo < hi
  PROVE  /\ Frames(lo, hi) # << >> /\ Head(Frames(lo, hi)) = lo + 1
         /\ Frames(lo + 1, hi) = Tail(Frames(lo, hi))
<1>1. lo + 1 \in Nat /\ lo + 1 <= hi /\ lo <= hi
  OBVIOUS
<1>2. /\ Frames(lo, hi) \in Seq(Nat) /\ Len(Frames(lo, hi)) = hi - lo
      /\ Frames(lo + 1, hi) \in Seq(Nat) /\ Len(Frames(lo + 1, hi)) = hi - (lo + 1)
  BY <1>1, FramesSeq
<1>3. Frames(lo, hi) # << >>
  BY <1>1, <1>2
<1>4. /\ Head(Frames(lo, hi)) = lo + 1
      /\ Tail(Frames(lo, hi)) \in Seq(Nat)
      /\ Len(Tail(Frames(lo, hi))) = hi - (lo + 1)
      /\ \A j \in 1 .. hi - (lo + 1) : Tail(Frames(lo, hi))[j] = Frames(lo, hi)[j + 1]
  BY <1>2, <1>3, HeadTailProperties DEF Frames
<1>5. \A j \in 1 .. hi - (lo + 1) : Frames(lo + 1, hi)[j] = Tail(Frames(lo, hi))[j]
  BY <1>1, <1>4 DEF Frames
<1> QED BY <1>2, <1>3, <1>4, <1>5, SeqEqual

\* The descriptors of live hold the frames lo + 1 to hi, one each, from h on.
Window(live, b, h, lo, hi) ==
  /\ \A i \in live : b[i] \in lo + 1 .. hi
  /\ \A i, j \in live : b[i] = b[j] => i = j
  /\ \A j \in 1 .. hi - lo : Ring(h + j - 1) \in live /\ b[Ring(h + j - 1)] = lo + j

\* Such a window has as many descriptors as frames.
LEMMA WindowSize ==
  ASSUME NEW lo \in Nat, NEW hi \in Nat, lo <= hi,
         NEW live, NEW b, NEW h, Window(live, b, h, lo, hi)
  PROVE  Cardinality(live) = hi - lo
<1> USE DEF Window
<1> DEFINE w == hi - lo
           f == [j \in 1 .. w |-> Ring(h + j - 1)]
<1>1. w \in Nat
  OBVIOUS
<1>2. f \in [1 .. w -> live]
  OBVIOUS
<1>3. \A j, k \in 1 .. w : f[j] = f[k] => j = k
  <2> TAKE j, k \in 1 .. w
  <2> HAVE f[j] = f[k]
  <2>1. lo + j = lo + k
    OBVIOUS
  <2> QED BY <2>1
<1>4. \A i \in live : \E j \in 1 .. w : f[j] = i
  <2> TAKE i \in live
  <2>1. b[i] - lo \in 1 .. w /\ lo + (b[i] - lo) = b[i]
    OBVIOUS
  <2>2. f[b[i] - lo] \in live /\ b[f[b[i] - lo]] = b[i]
    BY <2>1
  <2>3. f[b[i] - lo] = i
    BY <2>2
  <2> QED BY <2>1, <2>3
<1>5. ExistsBijection(1 .. w, live)
  <2> HIDE DEF f, w
  <2>1. f \in Bijection(1 .. w, live)
    BY <1>2, <1>3, <1>4, Fun_IsBij, Zenon
  <2> QED BY <2>1 DEF ExistsBijection
<1> HIDE DEF f, Window
<1>6. Cardinality(live) = w
  <2> HIDE DEF w
  <2> QED BY <1>1, <1>5, FS_CountingElements
<1> QED BY <1>6

\* What waits in the ring is what has arrived and was not disposed of.
LEMMA WaitingFrames ==
  RingInv =>
    /\ Waiting = Frames(Len(log), arrived)
    /\ Len(log) \in Nat /\ arrived \in Nat /\ Len(log) <= arrived
    /\ HeadSlot \in Slots
<1> SUFFICES ASSUME RingInv
             PROVE  /\ Waiting = Frames(Len(log), arrived)
                    /\ Len(log) \in Nat /\ arrived \in Nat /\ Len(log) <= arrived
                    /\ HeadSlot \in Slots
  OBVIOUS
<1>1. HeadSlot \in Slots
  BY RingSteps DEF RingInv, TypeOK, HeadSlot
<1>2. Len(log) \in Nat /\ arrived \in Nat /\ Len(log) <= arrived
  BY DEF RingInv, TypeOK, ChainInv
<1>3. Waiting = Frames(Len(log), arrived)
  <2>1. /\ \A i \in Live : buf[i] \in Len(log) + 1 .. arrived
        /\ \A i, j \in Live : buf[i] = buf[j] => i = j
    BY DEF RingInv, ChainInv
  <2>2. \A j \in 1 .. arrived - Len(log) :
          Ring(HeadSlot + j - 1) \in Live /\ buf[Ring(HeadSlot + j - 1)] = Len(log) + j
    BY DEF RingInv, WindowInv
  <2>3. Cardinality(Live) = arrived - Len(log)
    <3>1. Window(Live, buf, HeadSlot, Len(log), arrived)
      BY <2>1, <2>2 DEF Window
    <3> QED BY <1>2, <3>1, WindowSize
  <2> QED BY <2>2, <2>3 DEF Waiting, Frames
<1> QED BY <1>1, <1>2, <1>3

\* A step of the receive path is a step of the abstract queue, or none of it.
LEMMA FifoStep ==
  RingInv /\ RingInv' /\ [Next]_vars => [Fifo!Next]_<<arrived, Waiting, log>>
<1> SUFFICES ASSUME RingInv, RingInv', [Next]_vars
             PROVE  [Fifo!Next]_<<arrived, Waiting, log>>
  OBVIOUS
<1> DEFINE n == Len(log)
<1>1. /\ Waiting = Frames(n, arrived) /\ n \in Nat /\ arrived \in Nat /\ n <= arrived
      /\ HeadSlot \in Slots
  BY WaitingFrames
<1>2. Waiting' = Frames(Len(log'), arrived')
  <2>1. (RingInv => Waiting = Frames(Len(log), arrived))'
    BY WaitingFrames, PTL
  <2> QED BY <2>1
<1>3. CASE HwReceive
  <2>1. arrived' = arrived + 1 /\ log' = log /\ Waiting' = Frames(n, arrived + 1)
    BY <1>2, <1>3 DEF HwReceive
  <2>2. arrived' <= Len(log') + N
    BY DEF RingInv, WindowInv
  <2>3. Len(Waiting) < N
    <3>1. Len(Waiting) = arrived - n
      BY <1>1, FramesSeq
    <3> QED BY <1>1, <2>1, <2>2, <3>1
  <2>4. Waiting' = Append(Waiting, arrived + 1)
    BY <1>1, <2>1, FramesArrive
  <2> QED BY <2>1, <2>3, <2>4 DEF Fifo!Next, Fifo!Arrive
<1>4. ASSUME NEW c \in Consumers, CleanCopy(c)
      PROVE  Fifo!Next
  <2>1. /\ pc[c] = "copy" /\ rx_idx \in Slots /\ rx_idx \in Live /\ HeadSlot = rx_idx
        /\ ctl[c] <=> buf[rx_idx] \notin BadFrames
    BY <1>4 DEF CleanCopy, RingInv, TurnInv, TypeOK, Live, HeadSlot, Sole, InTurn
  <2>2. n < arrived /\ buf[rx_idx] = n + 1
    BY <1>1, <2>1 DEF RingInv, ChainInv
  <2>3. PICK o \in Fifo!Outcomes(n + 1) : log' = Append(log, [id |-> n + 1, out |-> o])
    BY <1>4, <2>1, <2>2 DEF CleanCopy, Fifo!Outcomes
  <2>4. Len(log') = n + 1 /\ arrived' = arrived
    BY <1>4, <2>3 DEF CleanCopy, RingInv, TypeOK
  <2>5. /\ Waiting # << >> /\ Head(Waiting) = n + 1
        /\ Waiting' = Tail(Waiting)
    BY <1>1, <1>2, <2>2, <2>4, FramesDispose
  <2> QED BY <2>3, <2>4, <2>5 DEF Fifo!Next, Fifo!Dispose
<1>5. CASE UNCHANGED <<arrived, log>>
  BY <1>1, <1>2, <1>5
<1>6. CASE PollTimer \/ UNCHANGED vars
  BY <1>5, <1>6 DEF PollTimer, vars
<1>7. ASSUME NEW c \in Consumers,
             \/ CleanEnter(c) \/ CleanTop(c) \/ CleanGive(c)
             \/ CleanAdvance(c) \/ CleanExit(c)
      PROVE  UNCHANGED <<arrived, log>>
  BY <1>7 DEF CleanEnter, CleanTop, CleanGive, CleanAdvance, CleanExit
<1> QED BY <1>3, <1>4, <1>5, <1>6, <1>7 DEF Next, Clean, CleanGoesOn

\* Until two calls handle a descriptor at once, the ring and mts_rx_clean implement
\* the bounded queue of RxFifo: what the controller stores is queued, at most N frames
\* wait, and each turn of the loop disposes of the oldest, for a ring and a budget of
\* any size.
THEOREM RxImplementsFifo == Spec => ImplementsFifo
<1>1. Init => Fifo!Init
  <2> SUFFICES ASSUME Init PROVE Fifo!Init
    OBVIOUS
  <2>1. arrived = 0 /\ log = << >> /\ Len(log) = 0
    BY DEF Init
  <2>2. Waiting = Frames(0, 0)
    BY <2>1, RxInit, WaitingFrames
  <2>3. Frames(0, 0) = << >>
    BY DEF Frames
  <2> QED BY <2>1, <2>2, <2>3 DEF Fifo!Init
<1>2. RxInv /\ RxInv' /\ [Next]_vars => [Fifo!Next \/ shared']_<<arrived, Waiting, log>>
  <2> SUFFICES ASSUME RxInv, RxInv', [Next]_vars, ~shared'
               PROVE  [Fifo!Next]_<<arrived, Waiting, log>>
    OBVIOUS
  <2>1. ~shared
    BY DEF Next, vars, HwReceive, PollTimer, Clean, CleanGoesOn, CleanEnter, CleanTop, CleanCopy,
           CleanGive, CleanAdvance, CleanExit
  <2> QED BY <2>1, FifoStep DEF RxInv
<1> QED BY <1>1, <1>2, RxInvariant, PTL DEF Spec, ImplementsFifo
=============================================================================
