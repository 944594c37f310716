--------------------------- MODULE MtsLinkProofs ---------------------------
(***************************************************************************)
(* Carrier detection and the storm guard for any contents of BAR0[0x04],   *)
(* any window and any limit.                                               *)
(***************************************************************************)
EXTENDS MtsLink, TLAPS

\* The invariants hold when the probe is over.
LEMMA InitInv == Init => LinkInv /\ StormInv
<1> SUFFICES ASSUME Init PROVE LinkInv /\ StormInv
  OBVIOUS
<1>1. LinkTypeOK
  <2>1. recent \in Seq(0 .. Window + 1) /\ Len(recent) = 0
    BY DEF Init
  <2>2. count \in 0 .. MaxCount + 1 /\ age \in 0 .. Window + 1
    BY LinkAssumption DEF Init
  <2>3. /\ par_carrier \in BOOLEAN /\ force_carrier \in BOOLEAN /\ opened \in BOOLEAN
        /\ enable_carrier \in BOOLEAN /\ polling \in BOOLEAN /\ link_up \in BOOLEAN
        /\ carrier \in BOOLEAN /\ forced \in BOOLEAN /\ irq_on \in BOOLEAN
    BY Zenon DEF Init
  <2>4. /\ raw \in LinkVals /\ val \in LinkVals \cup {None} /\ link_last_raw \in LinkVals \cup {None}
        /\ pc \in {"idle", "apply"} /\ link_mode \in {0} \cup {v.mode : v \in LinkVals}
    BY Zenon DEF Init
  <2> QED BY <2>1, <2>2, <2>3, <2>4, LinkAssumption DEF LinkTypeOK
<1>2. LinkInv
  BY <1>1 DEF Init, LinkInv, CarrierIsLastSeen, None
<1>3. StormInv
  BY <1>1, LinkAssumption DEF Init, StormInv, NoFalseStorm
<1> QED BY <1>2, <1>3

\* What changes the link's side leaves the guard's alone.
LEMMA LinkStep ==
  ASSUME LinkInv, HwLink \/ SetEnableCarrier \/ SetForceCarrier \/ Open \/ Stop \/ LinkCheck
                  \/ ForceCarrier \/ ForceLinkBit
  PROVE  LinkInv' /\ UNCHANGED irq
<1> USE LinkAssumption DEF LinkInv, LinkTypeOK, CarrierIsLastSeen, link, irq
<1>1. CASE HwLink BY <1>1 DEF HwLink
<1>2. CASE SetEnableCarrier BY <1>2 DEF SetEnableCarrier
<1>3. CASE SetForceCarrier BY <1>3 DEF SetForceCarrier
<1>4. CASE Open BY <1>4 DEF Open, None
<1>5. CASE Stop BY <1>5 DEF Stop
<1>6. CASE PollRead BY <1>6 DEF PollRead
<1>7. CASE LinkSame BY <1>7 DEF LinkSame
<1>8. CASE LinkChange BY <1>8 DEF LinkChange
<1>9. CASE ForceCarrier BY <1>9 DEF ForceCarrier
<1>10. CASE ForceLinkBit BY <1>10 DEF ForceLinkBit
<1> QED BY <1>1, <1>2, <1>3, <1>4, <1>5, <1>6, <1>7, <1>8, <1>9, <1>10 DEF LinkCheck

\* The history of interrupts after another one.
LEMMA ArrivedSeq ==
  ASSUME LinkTypeOK
  PROVE  /\ Arrived \in Seq(0 .. Window + 1) /\ Len(Arrived) <= MaxCount + 1
         /\ Len(Arrived) = IF Len(recent) = MaxCount + 1 THEN MaxCount + 1 ELSE Len(recent) + 1
         /\ Arrived[Len(Arrived)] = 0
         /\ \A i \in 1 .. Len(Arrived) - 1 : Arrived[i] = recent[i + Len(recent) + 1 - Len(Arrived)]
<1> DEFINE s == Append(recent, 0)
<1>1. s \in Seq(0 .. Window + 1) /\ Len(s) = Len(recent) + 1 /\ Len(recent) \in Nat
  BY LinkAssumption DEF LinkTypeOK
<1>2. s[Len(s)] = 0 /\ \A i \in 1 .. Len(recent) : s[i] = recent[i]
  BY <1>1 DEF LinkTypeOK
<1>3. CASE Len(s) <= MaxCount + 1
  <2>1. Arrived = s
    BY <1>3, <1>1, LinkAssumption DEF Arrived
  <2> QED BY <1>1, <1>2, <1>3, <2>1, LinkAssumption
<1>4. CASE Len(s) > MaxCount + 1
  <2>1. Arrived = Tail(s) /\ Len(recent) = MaxCount + 1
    BY <1>4, <1>1, LinkAssumption DEF Arrived, LinkTypeOK
  <2>2. Tail(s) \in Seq(0 .. Window + 1) /\ Len(Tail(s)) = Len(s) - 1
    BY <1>1
  <2>3. \A i \in 1 .. Len(Tail(s)) : Tail(s)[i] = s[i + 1]
    BY <1>1
  <2> HIDE DEF s
  <2> QED BY <1>1, <1>2, <2>1, <2>2, <2>3, LinkAssumption
<1> QED BY <1>1, <1>3, <1>4, LinkAssumption

\* The guard counts what arrived within the window.
LEMMA GuardStep ==
  ASSUME LinkInv, StormInv, Tick \/ IrqNewWindow \/ IrqInWindow
  PROVE  LinkInv' /\ StormInv'
<1> USE LinkAssumption
<1>1. CASE Tick
  <2>1. recent' \in Seq(0 .. Window + 1) /\ Len(recent') = Len(recent)
    BY <1>1 DEF Tick, Older, LinkInv, LinkTypeOK
  <2>2. \A i \in 1 .. Len(recent) : recent'[i] = Older(recent[i]) /\ recent[i] \in 0 .. Window + 1
    BY <1>1 DEF Tick, LinkInv, LinkTypeOK
  <2>3. LinkInv'
    BY <1>1, <2>1 DEF Tick, Older, LinkInv, LinkTypeOK, CarrierIsLastSeen, link
  <2>4. StormInv'
    BY <1>1, <2>1, <2>2, <2>3 DEF Tick, Older, StormInv, NoFalseStorm, LinkInv, LinkTypeOK
  <2> QED BY <2>3, <2>4
<1>2. CASE IrqNewWindow
  <2>1. LinkInv'
    BY <1>2, ArrivedSeq DEF IrqNewWindow, LinkInv, LinkTypeOK, CarrierIsLastSeen, link
  <2>2. StormInv'
    BY <1>2, <2>1, ArrivedSeq DEF IrqNewWindow, StormInv, NoFalseStorm, LinkInv, LinkTypeOK
  <2> QED BY <2>1, <2>2
<1>3. CASE IrqInWindow
  <2>1. LinkInv'
    BY <1>3, ArrivedSeq DEF IrqInWindow, StormInv, LinkInv, LinkTypeOK, CarrierIsLastSeen, link
  <2>2. /\ age' = age /\ age \in 0 .. Window /\ count' = count + 1 /\ count \in 1 .. MaxCount
        /\ recent' = Arrived
        /\ recent \in Seq(0 .. Window + 1) /\ Len(recent) \in count .. MaxCount + 1
        /\ \A i \in 1 .. Len(recent) : i > Len(recent) - count => recent[i] <= age
    BY <1>3 DEF IrqInWindow, StormInv, LinkInv, LinkTypeOK
  <2>3. /\ Len(recent') \in count' .. MaxCount + 1 /\ Len(recent') <= Len(recent) + 1
        /\ recent'[Len(recent')] = 0
        /\ \A i \in 1 .. Len(recent') - 1 : recent'[i] = recent[i + Len(recent) + 1 - Len(recent')]
    BY <2>2, ArrivedSeq DEF LinkInv
  <2>4. ASSUME NEW i \in 1 .. Len(recent'), i > Len(recent') - count' PROVE recent'[i] <= age
    <3>1. CASE i = Len(recent')
      BY <2>2, <2>3, <3>1
    <3>2. CASE i < Len(recent')
      <4> DEFINE j == i + Len(recent) + 1 - Len(recent')
      <4>1. j \in 1 .. Len(recent) /\ j > Len(recent) - count
        BY <2>2, <2>3, <2>4, <3>2
      <4>2. recent'[i] = recent[j]
        BY <2>3, <3>2
      <4> QED BY <2>2, <4>1, <4>2
    <3> QED BY <2>3, <3>1, <3>2
  <2>guard. irq_on' <=> count' <= MaxCount
    BY <1>3, Zenon DEF IrqInWindow
  <2>5. NoFalseStorm'
    <3>1. SUFFICES ASSUME ~irq_on' PROVE Len(recent') = MaxCount + 1 /\ recent'[1] <= Window
      BY DEF NoFalseStorm
    <3>2. count' = MaxCount + 1
      BY <2>2, <2>guard, <3>1
    <3>3. recent'[1] <= age
      <4>1. 1 \in 1 .. Len(recent') /\ 1 > Len(recent') - count'
        BY <2>2, <2>3, <3>2
      <4> QED BY <2>4, <4>1
    <3>4. recent'[1] \in 0 .. Window + 1
      BY <2>1, <2>3, <3>2 DEF LinkInv, LinkTypeOK
    <3> QED BY <2>2, <2>3, <3>2, <3>3, <3>4
  <2>6. StormInv'
    BY <2>1, <2>2, <2>3, <2>4, <2>5, <2>guard DEF StormInv, LinkInv
  <2> QED BY <2>1, <2>6
<1> QED BY <1>1, <1>2, <1>3

\* The carrier and the guard together: the inductive invariants.
THEOREM LinkInvariant == Spec => [](LinkInv /\ StormInv)
<1>1. ASSUME LinkInv, StormInv, [Next]_vars PROVE LinkInv' /\ StormInv'
  <2>1. CASE UNCHANGED vars
    BY <1>1, <2>1 DEF vars, LinkInv, StormInv, LinkTypeOK, CarrierIsLastSeen, NoFalseStorm
  <2>2. CASE Tick \/ IrqNewWindow \/ IrqInWindow
    BY <1>1, <2>2, GuardStep
  <2>3. CASE HwLink \/ SetEnableCarrier \/ SetForceCarrier \/ Open \/ Stop \/ LinkCheck
             \/ ForceCarrier \/ ForceLinkBit
    <3>1. LinkInv' /\ UNCHANGED irq
      BY <1>1, <2>3, LinkStep
    <3> QED BY <1>1, <3>1 DEF StormInv, NoFalseStorm, LinkInv, irq
  <2> QED BY <1>1, <2>1, <2>2, <2>3 DEF Next
<1> QED BY InitInv, <1>1, PTL DEF Spec

\* Whatever mts_open, mts_stop, the parameters and the early return of mts_link_check
\* do, the stack is told what BAR0[0x04] last said.
THEOREM LinkCarrier == Spec => []CarrierIsLastSeen
<1>1. LinkInv => CarrierIsLastSeen
  BY DEF LinkInv
<1> QED BY LinkInvariant, <1>1, PTL

\* mts_interrupt never gives the line up for fewer interrupts than its limit allows
\* within one window.
THEOREM LinkNoFalseStorm == Spec => []NoFalseStorm
<1>1. StormInv => NoFalseStorm
  BY DEF StormInv
<1> QED BY LinkInvariant, <1>1, PTL
=============================================================================
