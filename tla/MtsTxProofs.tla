---------------------------- MODULE MtsTxProofs ----------------------------
(***************************************************************************)
(* Proofs about MtsTx, for a ring of any size, any sets of frames and any  *)
(* interleaving of the actors.  One lemma per action, one step per         *)
(* conjunct of the ownership invariant.                                    *)
(***************************************************************************)
EXTENDS MtsTx, TLAPS

USE NAssumption, FrameAssumption

LEMMA NextSlotInRing == \A i \in Slots : NextSlot(i) \in Slots
  BY DEF Slots, NextSlot

LEMMA InitOwnership == Init => OwnershipInv
  <1> SUFFICES ASSUME Init PROVE OwnershipInv
    OBVIOUS
  <1> USE DEF Init, Slots, Frames, Actors, Softirqs, Labels, Statuses
  <1>1. stopped \in BOOLEAN /\ carrier \in BOOLEAN /\ up \in BOOLEAN /\ enable_tx \in BOOLEAN
    BY Zenon
  <1>2. /\ own \in [Slots -> {0, 1}]
        /\ tx_idx \in Slots /\ tx_clean \in Slots
        /\ frees \in [Frames -> Nat] /\ at \in [Actors -> Slots]
    OBVIOUS
  <1>3. /\ desc \in [Slots -> Frames \cup {NoFrame}]
        /\ tx_skb \in [Slots -> Skbs \cup {NoFrame}]
        /\ fr \in [Actors -> Frames \cup {NoFrame}]
        /\ pc \in [Actors -> Labels] /\ status \in [Frames -> Statuses]
        /\ sent \subseteq Skbs /\ shared \subseteq Skbs
    OBVIOUS
  <1>4. TypeOK
    BY <1>1, <1>2, <1>3 DEF TypeOK
  <1>5. LabelsOf /\ XmitHand /\ ReleaserHand /\ SysfsHand
    BY DEF LabelsOf, XmitHand, ReleaserHand, SysfsHand, Filling, Holding, Releasing
  <1>6. DoubleFreeNeedsTwoReaders /\ SlotsHoldLiveSkbs /\ FreedByStatus /\ Unaccepted
    BY DEF DoubleFreeNeedsTwoReaders, SlotsHoldLiveSkbs, FreedByStatus, Unaccepted
  <1>7. QED
    BY <1>4, <1>5, <1>6 DEF OwnershipInv

-----------------------------------------------------------------------------
(* mts_start_xmit *)

LEMMA CallXmitKeeps == ASSUME OwnershipInv, NEW s \in Skbs, CallXmit(s) PROVE OwnershipInv'
  <1> USE DEF OwnershipInv
  <1>1. DoubleFreeNeedsTwoReaders' /\ FreedByStatus' /\ Unaccepted'
    BY DEF DoubleFreeNeedsTwoReaders, FreedByStatus, Unaccepted, CallXmit
  <1>2. TypeOK'
    BY DEF TypeOK, Slots, Frames, Actors, Softirqs, Labels, Statuses, Reclaimers,
           device, CallXmit, Goto
  <1>3. LabelsOf'
    BY DEF LabelsOf, TypeOK, Actors, Softirqs, Labels, Reclaimers, CallXmit, Goto
  <1>4. SlotsHoldLiveSkbs'
    BY DEF SlotsHoldLiveSkbs, TypeOK, LabelsOf, Slots, Frames, Actors, Softirqs,
           Labels, Statuses, Reclaimers, device, CallXmit, Goto, Clearing, XmitHand,
           ReleaserHand, SysfsHand, Releasing, Holding, Filling, FreedByStatus
  <1>5. XmitHand'
    BY DEF XmitHand, TypeOK, LabelsOf, Slots, Frames, Actors, Softirqs, Labels,
           Statuses, Reclaimers, device, CallXmit, Goto, Filling, ReleaserHand,
           Holding, Releasing, SysfsHand, Unaccepted
  <1>6. ReleaserHand'
    BY DEF ReleaserHand, TypeOK, LabelsOf, Slots, Frames, Actors, Softirqs, Labels,
           Statuses, Reclaimers, device, CallXmit, Goto, Holding, Releasing,
           Filling, XmitHand, SlotsHoldLiveSkbs, Clearing, FreedByStatus, Unaccepted
  <1>7. SysfsHand'
    BY DEF SysfsHand, TypeOK, LabelsOf, Slots, Frames, Actors, Softirqs, Labels,
           Statuses, Reclaimers, device, CallXmit, Goto, XmitHand, Filling, Holding,
           Releasing, ReleaserHand
  <1>8. QED
    BY <1>1, <1>2, <1>3, <1>4, <1>5, <1>6, <1>7

LEMMA XmitDropKeeps == ASSUME OwnershipInv, XmitDrop PROVE OwnershipInv'
  <1> USE DEF OwnershipInv
  <1>1. TypeOK'
    BY DEF TypeOK, Slots, Frames, Actors, Softirqs, Labels, Statuses, Reclaimers,
           device, XmitDrop, Free, Return, Goto, XmitHand, ReleaserHand, SysfsHand,
           Releasing, Holding, Filling
  <1>2. LabelsOf'
    BY DEF LabelsOf, TypeOK, Actors, Softirqs, Labels, Reclaimers, XmitDrop, Free,
           Return, Goto
  <1>3. DoubleFreeNeedsTwoReaders'
    BY DEF DoubleFreeNeedsTwoReaders, TypeOK, LabelsOf, Slots, Frames, Actors,
           Softirqs, Labels, Statuses, Reclaimers, device, XmitDrop, Free, Return,
           Goto, XmitHand, ReleaserHand, SysfsHand, FreedByStatus, Releasing,
           Holding, Filling
  <1>4. SlotsHoldLiveSkbs'
    BY DEF SlotsHoldLiveSkbs, TypeOK, LabelsOf, Slots, Frames, Actors, Softirqs,
           Labels, Statuses, Reclaimers, device, XmitDrop, Free, Return, Goto,
           Clearing, XmitHand, ReleaserHand, SysfsHand, Releasing, Holding, Filling,
           FreedByStatus
  <1>5. FreedByStatus'
    BY DEF FreedByStatus, TypeOK, LabelsOf, Slots, Frames, Actors, Softirqs, Labels,
           Statuses, Reclaimers, device, XmitDrop, Free, Return, Goto, XmitHand,
           ReleaserHand, SysfsHand, Releasing, Holding, Filling
  <1>6. Unaccepted'
    BY DEF Unaccepted, TypeOK, LabelsOf, Slots, Frames, Actors, Softirqs, Labels,
           Statuses, Reclaimers, device, XmitDrop, Free, Return, Goto, XmitHand,
           Filling, SysfsHand
  <1>7. XmitHand'
    BY DEF XmitHand, TypeOK, LabelsOf, Slots, Frames, Actors, Softirqs, Labels,
           Statuses, Reclaimers, device, XmitDrop, Free, Return, Goto, Filling,
           ReleaserHand, Holding, Releasing, SysfsHand, Unaccepted
  <1>8. ReleaserHand'
    BY DEF ReleaserHand, TypeOK, LabelsOf, Slots, Frames, Actors, Softirqs, Labels,
           Statuses, Reclaimers, device, XmitDrop, Free, Return, Goto, Holding,
           Releasing, Filling, XmitHand, SlotsHoldLiveSkbs, Clearing, FreedByStatus,
           Unaccepted
  <1>9. SysfsHand'
    BY DEF SysfsHand, TypeOK, LabelsOf, Slots, Frames, Actors, Softirqs, Labels,
           Statuses, Reclaimers, device, XmitDrop, Free, Return, Goto, XmitHand,
           Filling, Holding, Releasing, ReleaserHand
  <1>10. QED
    BY <1>1, <1>2, <1>3, <1>4, <1>5, <1>6, <1>7, <1>8, <1>9

LEMMA XmitBusyKeeps == ASSUME OwnershipInv, XmitBusy PROVE OwnershipInv'
  <1> USE DEF OwnershipInv
  <1>1. DoubleFreeNeedsTwoReaders' /\ FreedByStatus' /\ Unaccepted'
    BY DEF DoubleFreeNeedsTwoReaders, FreedByStatus, Unaccepted, XmitBusy
  <1>2. TypeOK'
    BY DEF TypeOK, Slots, Frames, Actors, Softirqs, Labels, Statuses, Reclaimers,
           device, XmitBusy, Return, Goto
  <1>3. LabelsOf'
    BY DEF LabelsOf, TypeOK, Actors, Softirqs, Labels, Reclaimers, XmitBusy, Return,
           Goto
  <1>4. SlotsHoldLiveSkbs'
    BY DEF SlotsHoldLiveSkbs, TypeOK, LabelsOf, Slots, Frames, Actors, Softirqs,
           Labels, Statuses, Reclaimers, device, XmitBusy, Return, Goto, Clearing,
           XmitHand, ReleaserHand, SysfsHand, Releasing, Holding, Filling,
           FreedByStatus
  <1>5. XmitHand'
    BY DEF XmitHand, TypeOK, LabelsOf, Slots, Frames, Actors, Softirqs, Labels,
           Statuses, Reclaimers, device, XmitBusy, Return, Goto, Filling,
           ReleaserHand, Holding, Releasing, SysfsHand, Unaccepted
  <1>6. ReleaserHand'
    BY DEF ReleaserHand, TypeOK, LabelsOf, Slots, Frames, Actors, Softirqs, Labels,
           Statuses, Reclaimers, device, XmitBusy, Return, Goto, Holding, Releasing,
           Filling, XmitHand, SlotsHoldLiveSkbs, Clearing, FreedByStatus, Unaccepted
  <1>7. SysfsHand'
    BY DEF SysfsHand, TypeOK, LabelsOf, Slots, Frames, Actors, Softirqs, Labels,
           Statuses, Reclaimers, device, XmitBusy, Return, Goto, XmitHand, Filling,
           Holding, Releasing, ReleaserHand
  <1>8. QED
    BY <1>1, <1>2, <1>3, <1>4, <1>5, <1>6, <1>7

LEMMA XmitAcceptKeeps == ASSUME OwnershipInv, XmitAccept PROVE OwnershipInv'
  <1> USE DEF OwnershipInv
  <1>1. DoubleFreeNeedsTwoReaders'
    BY DEF DoubleFreeNeedsTwoReaders, XmitAccept
  <1>2. TypeOK'
    BY DEF TypeOK, Slots, Frames, Actors, Softirqs, Labels, Statuses, Reclaimers,
           device, XmitAccept, Goto, XmitHand, ReleaserHand, SysfsHand, Releasing,
           Holding, Filling
  <1>3. LabelsOf'
    BY DEF LabelsOf, TypeOK, Actors, Softirqs, Labels, Reclaimers, XmitAccept, Goto
  <1>4. SlotsHoldLiveSkbs'
    BY DEF SlotsHoldLiveSkbs, TypeOK, LabelsOf, Slots, Frames, Actors, Softirqs,
           Labels, Statuses, Reclaimers, device, XmitAccept, Goto, Clearing,
           XmitHand, ReleaserHand, SysfsHand, Releasing, Holding, Filling,
           FreedByStatus
  <1>5. FreedByStatus'
    BY DEF FreedByStatus, TypeOK, LabelsOf, Slots, Frames, Actors, Softirqs, Labels,
           Statuses, Reclaimers, device, XmitAccept, Goto, XmitHand, ReleaserHand,
           SysfsHand, Releasing, Holding, Filling
  <1>6. Unaccepted'
    BY DEF Unaccepted, TypeOK, LabelsOf, Slots, Frames, Actors, Softirqs, Labels,
           Statuses, Reclaimers, device, XmitAccept, Goto, XmitHand, Filling,
           SysfsHand
  <1>7. XmitHand'
    BY DEF XmitHand, TypeOK, LabelsOf, Slots, Frames, Actors, Softirqs, Labels,
           Statuses, Reclaimers, device, XmitAccept, Goto, Filling, ReleaserHand,
           Holding, Releasing, SysfsHand, Unaccepted
  <1>8. ReleaserHand'
    BY DEF ReleaserHand, TypeOK, LabelsOf, Slots, Frames, Actors, Softirqs, Labels,
           Statuses, Reclaimers, device, XmitAccept, Goto, Holding, Releasing,
           Filling, XmitHand, SlotsHoldLiveSkbs, Clearing, FreedByStatus, Unaccepted
  <1>9. SysfsHand'
    BY DEF SysfsHand, TypeOK, LabelsOf, Slots, Frames, Actors, Softirqs, Labels,
           Statuses, Reclaimers, device, XmitAccept, Goto, XmitHand, Filling,
           Holding, Releasing, ReleaserHand
  <1>10. QED
    BY <1>1, <1>2, <1>3, <1>4, <1>5, <1>6, <1>7, <1>8, <1>9

LEMMA XmitFillKeeps == ASSUME OwnershipInv, XmitFill PROVE OwnershipInv'
  <1> USE DEF OwnershipInv
  <1>1. DoubleFreeNeedsTwoReaders' /\ FreedByStatus'
    BY DEF DoubleFreeNeedsTwoReaders, FreedByStatus, XmitFill
  <1>2. TypeOK'
    BY DEF TypeOK, Slots, Frames, Actors, Softirqs, Labels, Statuses, Reclaimers,
           device, XmitFill, Goto, XmitHand, ReleaserHand, SysfsHand, Releasing,
           Holding, Filling
  <1>3. LabelsOf'
    BY DEF LabelsOf, TypeOK, Actors, Softirqs, Labels, Reclaimers, XmitFill, Goto
  <1>4. SlotsHoldLiveSkbs'
    BY DEF SlotsHoldLiveSkbs, TypeOK, LabelsOf, Slots, Frames, Actors, Softirqs,
           Labels, Statuses, Reclaimers, device, XmitFill, Goto, Clearing, XmitHand,
           ReleaserHand, SysfsHand, Releasing, Holding, Filling, FreedByStatus
  <1>5. Unaccepted'
    BY DEF Unaccepted, TypeOK, LabelsOf, Slots, Frames, Actors, Softirqs, Labels,
           Statuses, Reclaimers, device, XmitFill, Goto, XmitHand, Filling,
           SysfsHand
  <1>6. XmitHand'
    BY DEF XmitHand, TypeOK, LabelsOf, Slots, Frames, Actors, Softirqs, Labels,
           Statuses, Reclaimers, device, XmitFill, Goto, Filling, ReleaserHand,
           Holding, Releasing, SysfsHand, Unaccepted
  <1>7. ReleaserHand'
    BY DEF ReleaserHand, TypeOK, LabelsOf, Slots, Frames, Actors, Softirqs, Labels,
           Statuses, Reclaimers, device, XmitFill, Goto, Holding, Releasing,
           Filling, XmitHand, SlotsHoldLiveSkbs, Clearing, FreedByStatus, Unaccepted
  <1>8. SysfsHand'
    BY DEF SysfsHand, TypeOK, LabelsOf, Slots, Frames, Actors, Softirqs, Labels,
           Statuses, Reclaimers, device, XmitFill, Goto, XmitHand, Filling, Holding,
           Releasing, ReleaserHand
  <1>9. QED
    BY <1>1, <1>2, <1>3, <1>4, <1>5, <1>6, <1>7, <1>8

LEMMA KickKeeps == ASSUME OwnershipInv, NEW a \in {"xmit", "sysfs"}, Kick(a) PROVE OwnershipInv'
  <1> USE DEF OwnershipInv
  <1>1. DoubleFreeNeedsTwoReaders' /\ FreedByStatus' /\ Unaccepted'
    BY DEF DoubleFreeNeedsTwoReaders, FreedByStatus, Unaccepted, Kick
  <1>2. TypeOK'
    BY DEF TypeOK, Slots, Frames, Actors, Softirqs, Labels, Statuses, Reclaimers,
           device, Kick, Goto
  <1>3. LabelsOf'
    BY DEF LabelsOf, TypeOK, Actors, Softirqs, Labels, Reclaimers, Kick, Goto
  <1>4. SlotsHoldLiveSkbs'
    BY DEF SlotsHoldLiveSkbs, TypeOK, LabelsOf, Slots, Frames, Actors, Softirqs,
           Labels, Statuses, Reclaimers, device, Kick, Goto, Clearing, XmitHand,
           ReleaserHand, SysfsHand, Releasing, Holding, Filling, FreedByStatus
  <1>5. XmitHand'
    BY DEF XmitHand, TypeOK, LabelsOf, Slots, Frames, Actors, Softirqs, Labels,
           Statuses, Reclaimers, device, Kick, Goto, Filling, ReleaserHand, Holding,
           Releasing, SysfsHand, Unaccepted
  <1>6. ReleaserHand'
    BY DEF ReleaserHand, TypeOK, LabelsOf, Slots, Frames, Actors, Softirqs, Labels,
           Statuses, Reclaimers, device, Kick, Goto, Holding, Releasing, Filling,
           XmitHand, SlotsHoldLiveSkbs, Clearing, FreedByStatus, Unaccepted
  <1>7. SysfsHand'
    BY DEF SysfsHand, TypeOK, LabelsOf, Slots, Frames, Actors, Softirqs, Labels,
           Statuses, Reclaimers, device, Kick, Goto, XmitHand, Filling, Holding,
           Releasing, ReleaserHand
  <1>8. QED
    BY <1>1, <1>2, <1>3, <1>4, <1>5, <1>6, <1>7

LEMMA XmitAdvanceKeeps == ASSUME OwnershipInv, XmitAdvance PROVE OwnershipInv'
  <1> USE DEF OwnershipInv
  <1>1. DoubleFreeNeedsTwoReaders' /\ FreedByStatus' /\ Unaccepted'
    BY DEF DoubleFreeNeedsTwoReaders, FreedByStatus, Unaccepted, XmitAdvance
  <1>2. TypeOK'
    BY NextSlotInRing DEF TypeOK, Slots, Frames, Actors, Softirqs, Labels, Statuses,
           Reclaimers, device, XmitAdvance, Goto
  <1>3. LabelsOf'
    BY NextSlotInRing DEF LabelsOf, TypeOK, Actors, Softirqs, Labels, Reclaimers,
           XmitAdvance, Goto
  <1>4. SlotsHoldLiveSkbs'
    BY NextSlotInRing DEF SlotsHoldLiveSkbs, TypeOK, LabelsOf, Slots, Frames,
           Actors, Softirqs, Labels, Statuses, Reclaimers, device, XmitAdvance,
           Goto, Clearing, XmitHand, ReleaserHand, SysfsHand, Releasing, Holding,
           Filling, FreedByStatus
  <1>5. XmitHand'
    BY NextSlotInRing DEF XmitHand, TypeOK, LabelsOf, Slots, Frames, Actors,
           Softirqs, Labels, Statuses, Reclaimers, device, XmitAdvance, Goto,
           Filling, ReleaserHand, Holding, Releasing, SysfsHand, Unaccepted
  <1>6. ReleaserHand'
    <2>1. fr["xmit"] = NoFrame
      BY DEF ReleaserHand, Holding, Releasing, Filling, XmitAdvance, Softirqs
    <2>2. /\ fr' = fr /\ UNCHANGED <<tx_skb, shared, status, frees>>
          /\ \A b \in Softirqs : pc'[b] = IF b = "xmit" THEN "scan" ELSE pc[b]
          /\ \A b \in Softirqs \ {"xmit"} : at'[b] = at[b]
      BY <2>1 DEF TypeOK, XmitAdvance, Goto, Actors, Softirqs
    <2>3. QED
      BY <2>1, <2>2 DEF ReleaserHand, Holding, Releasing, Filling, Softirqs
  <1>7. SysfsHand'
    BY NextSlotInRing DEF SysfsHand, TypeOK, LabelsOf, Slots, Frames, Actors,
           Softirqs, Labels, Statuses, Reclaimers, device, XmitAdvance, Goto,
           XmitHand, Filling, Holding, Releasing, ReleaserHand
  <1>8. QED
    BY <1>1, <1>2, <1>3, <1>4, <1>5, <1>6, <1>7

LEMMA XmitStopCheckKeeps == ASSUME OwnershipInv, XmitStopCheck PROVE OwnershipInv'
  <1> USE DEF OwnershipInv
  <1>1. DoubleFreeNeedsTwoReaders' /\ FreedByStatus' /\ Unaccepted'
    BY DEF DoubleFreeNeedsTwoReaders, FreedByStatus, Unaccepted, XmitStopCheck
  <1>2. TypeOK'
    BY DEF TypeOK, Slots, Frames, Actors, Softirqs, Labels, Statuses, Reclaimers,
           device, XmitStopCheck, Return, Goto
  <1>3. LabelsOf'
    BY DEF LabelsOf, TypeOK, Actors, Softirqs, Labels, Reclaimers, XmitStopCheck,
           Return, Goto
  <1>4. SlotsHoldLiveSkbs'
    BY DEF SlotsHoldLiveSkbs, TypeOK, LabelsOf, Slots, Frames, Actors, Softirqs,
           Labels, Statuses, Reclaimers, device, XmitStopCheck, Return, Goto,
           Clearing, XmitHand, ReleaserHand, SysfsHand, Releasing, Holding, Filling,
           FreedByStatus
  <1>5. XmitHand'
    BY DEF XmitHand, TypeOK, LabelsOf, Slots, Frames, Actors, Softirqs, Labels,
           Statuses, Reclaimers, device, XmitStopCheck, Return, Goto, Filling,
           ReleaserHand, Holding, Releasing, SysfsHand, Unaccepted
  <1>6. ReleaserHand'
    BY DEF ReleaserHand, TypeOK, LabelsOf, Slots, Frames, Actors, Softirqs, Labels,
           Statuses, Reclaimers, device, XmitStopCheck, Return, Goto, Holding,
           Releasing, Filling, XmitHand, SlotsHoldLiveSkbs, Clearing, FreedByStatus,
           Unaccepted
  <1>7. SysfsHand'
    BY DEF SysfsHand, TypeOK, LabelsOf, Slots, Frames, Actors, Softirqs, Labels,
           Statuses, Reclaimers, device, XmitStopCheck, Return, Goto, XmitHand,
           Filling, Holding, Releasing, ReleaserHand
  <1>8. QED
    BY <1>1, <1>2, <1>3, <1>4, <1>5, <1>6, <1>7

-----------------------------------------------------------------------------
(* mts_tx_reclaim *)

LEMMA PollReclaimKeeps == ASSUME OwnershipInv, PollReclaim PROVE OwnershipInv'
  <1> USE DEF OwnershipInv
  <1>1. DoubleFreeNeedsTwoReaders' /\ FreedByStatus' /\ Unaccepted'
    BY DEF DoubleFreeNeedsTwoReaders, FreedByStatus, Unaccepted, PollReclaim
  <1>2. TypeOK'
    BY DEF TypeOK, Slots, Frames, Actors, Softirqs, Labels, Statuses, Reclaimers,
           device, PollReclaim, Goto
  <1>3. LabelsOf'
    BY DEF LabelsOf, TypeOK, Actors, Softirqs, Labels, Reclaimers, PollReclaim, Goto
  <1>4. SlotsHoldLiveSkbs'
    BY DEF SlotsHoldLiveSkbs, TypeOK, LabelsOf, Slots, Frames, Actors, Softirqs,
           Labels, Statuses, Reclaimers, device, PollReclaim, Goto, Clearing,
           XmitHand, ReleaserHand, SysfsHand, Releasing, Holding, Filling,
           FreedByStatus
  <1>5. XmitHand'
    BY DEF XmitHand, TypeOK, LabelsOf, Slots, Frames, Actors, Softirqs, Labels,
           Statuses, Reclaimers, device, PollReclaim, Goto, Filling, ReleaserHand,
           Holding, Releasing, SysfsHand, Unaccepted
  <1>6. ReleaserHand'
    BY DEF ReleaserHand, TypeOK, LabelsOf, Slots, Frames, Actors, Softirqs, Labels,
           Statuses, Reclaimers, device, PollReclaim, Goto, Holding, Releasing,
           Filling, XmitHand, SlotsHoldLiveSkbs, Clearing, FreedByStatus, Unaccepted
  <1>7. SysfsHand'
    BY DEF SysfsHand, TypeOK, LabelsOf, Slots, Frames, Actors, Softirqs, Labels,
           Statuses, Reclaimers, device, PollReclaim, Goto, XmitHand, Filling,
           Holding, Releasing, ReleaserHand
  <1>8. QED
    BY <1>1, <1>2, <1>3, <1>4, <1>5, <1>6, <1>7

LEMMA ReclaimScanKeeps == ASSUME OwnershipInv, NEW a \in Reclaimers, ReclaimScan(a) PROVE OwnershipInv'
  <1> USE DEF OwnershipInv
  <1>1. FreedByStatus' /\ Unaccepted'
    BY DEF FreedByStatus, Unaccepted, ReclaimScan
  <1>2. TypeOK'
    BY DEF TypeOK, Slots, Frames, Actors, Softirqs, Labels, Statuses, Reclaimers,
           device, ReclaimScan, Goto, Taken
  <1>3. LabelsOf'
    BY DEF LabelsOf, TypeOK, Actors, Softirqs, Labels, Reclaimers, ReclaimScan,
           Goto, Taken
  <1>4. DoubleFreeNeedsTwoReaders'
    BY DEF DoubleFreeNeedsTwoReaders, TypeOK, LabelsOf, Slots, Frames, Actors,
           Softirqs, Labels, Statuses, Reclaimers, device, ReclaimScan, Goto, Taken,
           XmitHand, ReleaserHand, SysfsHand, FreedByStatus, Releasing, Holding,
           Filling
  <1>5. SlotsHoldLiveSkbs'
    BY DEF SlotsHoldLiveSkbs, TypeOK, LabelsOf, Slots, Frames, Actors, Softirqs,
           Labels, Statuses, Reclaimers, device, ReclaimScan, Goto, Taken, Clearing,
           XmitHand, ReleaserHand, SysfsHand, Releasing, Holding, Filling,
           FreedByStatus
  <1>6. XmitHand'
    BY DEF XmitHand, TypeOK, LabelsOf, Slots, Frames, Actors, Softirqs, Labels,
           Statuses, Reclaimers, device, ReclaimScan, Goto, Taken, Filling,
           ReleaserHand, Holding, Releasing, SysfsHand, Unaccepted
  <1>7. ReleaserHand'
    BY DEF ReleaserHand, TypeOK, LabelsOf, Slots, Frames, Actors, Softirqs, Labels,
           Statuses, Reclaimers, device, ReclaimScan, Goto, Taken, Holding,
           Releasing, Filling, XmitHand, SlotsHoldLiveSkbs, Clearing, FreedByStatus,
           Unaccepted
  <1>8. SysfsHand'
    BY DEF SysfsHand, TypeOK, LabelsOf, Slots, Frames, Actors, Softirqs, Labels,
           Statuses, Reclaimers, device, ReclaimScan, Goto, Taken, XmitHand,
           Filling, Holding, Releasing, ReleaserHand
  <1>9. QED
    BY <1>1, <1>2, <1>3, <1>4, <1>5, <1>6, <1>7, <1>8

LEMMA ReclaimReleaseKeeps == ASSUME OwnershipInv, NEW a \in Reclaimers, ReclaimRelease(a) PROVE OwnershipInv'
  <1> USE DEF OwnershipInv
  <1>1. TypeOK'
    <2>1. fr[a] \in Frames
      BY DEF TypeOK, LabelsOf, ReleaserHand, Holding, Releasing, ReclaimRelease,
             Reclaimers, Softirqs, Frames, Actors
    <2>2. frees' \in [Frames -> Nat] /\ status' \in [Frames -> Statuses]
      BY <2>1 DEF TypeOK, ReclaimRelease, Free, Statuses
    <2>3. QED
      BY <2>2 DEF TypeOK, ReclaimRelease, Goto, Reclaimers, Softirqs, Actors,
             Labels, Frames, device
  <1>2. LabelsOf'
    BY DEF LabelsOf, TypeOK, Actors, Softirqs, Labels, Reclaimers, ReclaimRelease,
           Free, Goto
  <1>3. DoubleFreeNeedsTwoReaders'
    BY DEF DoubleFreeNeedsTwoReaders, TypeOK, LabelsOf, Slots, Frames, Actors,
           Softirqs, Labels, Statuses, Reclaimers, device, ReclaimRelease, Free,
           Goto, XmitHand, ReleaserHand, SysfsHand, FreedByStatus, Releasing,
           Holding, Filling
  <1>4. SlotsHoldLiveSkbs'
    BY DEF SlotsHoldLiveSkbs, TypeOK, LabelsOf, Slots, Frames, Actors, Softirqs,
           Labels, Statuses, Reclaimers, device, ReclaimRelease, Free, Goto,
           Clearing, XmitHand, ReleaserHand, SysfsHand, Releasing, Holding, Filling,
           FreedByStatus
  <1>5. FreedByStatus'
    BY DEF FreedByStatus, TypeOK, LabelsOf, Slots, Frames, Actors, Softirqs, Labels,
           Statuses, Reclaimers, device, ReclaimRelease, Free, Goto, XmitHand,
           ReleaserHand, SysfsHand, Releasing, Holding, Filling
  <1>6. Unaccepted'
    BY DEF Unaccepted, TypeOK, LabelsOf, Slots, Frames, Actors, Softirqs, Labels,
           Statuses, Reclaimers, device, ReclaimRelease, Free, Goto, XmitHand,
           Filling, SysfsHand
  <1>7. XmitHand'
    BY DEF XmitHand, TypeOK, LabelsOf, Slots, Frames, Actors, Softirqs, Labels,
           Statuses, Reclaimers, device, ReclaimRelease, Free, Goto, Filling,
           ReleaserHand, Holding, Releasing, SysfsHand, Unaccepted
  <1>8. ReleaserHand'
    <2>1. a \in Softirqs /\ Holding(a) /\ Releasing(a) /\ fr[a] \in Skbs
      BY DEF TypeOK, LabelsOf, ReleaserHand, Holding, Releasing, Filling,
             ReclaimRelease, Reclaimers, Softirqs
    <2>2. /\ at' = at /\ fr' = fr /\ UNCHANGED <<tx_skb, shared>>
          /\ \A b \in Softirqs : pc'[b] = IF b = a THEN "clear" ELSE pc[b]
      BY <2>1 DEF TypeOK, ReclaimRelease, Goto, Actors
    <2>3. \A s \in Skbs : /\ status'[s] = IF s = fr[a] THEN "done" ELSE status[s]
                          /\ s # fr[a] => frees'[s] = frees[s]
      BY <2>1 DEF TypeOK, ReclaimRelease, Free, Frames
    <2>4. \A b \in Softirqs \ {a} : fr[b] = fr[a] => fr[a] \in shared
      BY <2>1 DEF ReleaserHand
    <2>5. \A b \in Softirqs : Holding(b)' <=> Holding(b)
      BY <2>1, <2>2 DEF Holding, Releasing
    <2>6. \A b \in Softirqs : Releasing(b)' => b # a /\ Releasing(b)
      BY <2>1, <2>2 DEF Releasing
    <2>7. ASSUME NEW b \in Softirqs, Holding(b)
          PROVE  /\ fr'[b] \in Skbs /\ status'[fr'[b]] # "stack"
                 /\ \A i \in Slots : tx_skb'[i] = fr'[b] => i = at'[b]
                 /\ \A c \in Softirqs \ {b} : fr'[c] = fr'[b] => fr'[b] \in shared'
      <3>1. /\ fr[b] \in Skbs /\ status[fr[b]] # "stack"
            /\ \A i \in Slots : tx_skb[i] = fr[b] => i = at[b]
            /\ \A c \in Softirqs \ {b} : fr[c] = fr[b] => fr[b] \in shared
        BY <2>7 DEF ReleaserHand
      <3>2. status'[fr[b]] # "stack"
        BY <2>3, <3>1
      <3>3. fr' = fr /\ at' = at /\ tx_skb' = tx_skb /\ shared' = shared
        BY <2>2
      <3>4. QED
        BY <3>1, <3>2, <3>3, Zenon
    <2>8. ASSUME NEW b \in Softirqs, b # a, Releasing(b)
          PROVE  frees'[fr'[b]] = 0 \/ fr'[b] \in shared'
      <3>1. fr[b] \in Skbs /\ (frees[fr[b]] = 0 \/ fr[b] \in shared)
        BY <2>8 DEF ReleaserHand, Holding
      <3>2. fr' = fr /\ shared' = shared
        BY <2>2
      <3>3. CASE fr[b] = fr[a]
        BY <2>4, <2>8, <3>2, <3>3, Zenon
      <3>4. CASE fr[b] # fr[a]
        <4>1. frees'[fr[b]] = frees[fr[b]]
          BY <2>3, <3>1, <3>4
        <4>2. QED
          BY <3>1, <3>2, <4>1, Zenon
      <3>5. QED
        BY <3>3, <3>4
    <2>9. Filling' <=> Filling
      BY <2>1, <2>2 DEF Filling, Softirqs, ReclaimRelease
    <2>10. QED
      BY <2>2, <2>5, <2>6, <2>7, <2>8, <2>9 DEF ReleaserHand
  <1>9. SysfsHand'
    BY DEF SysfsHand, TypeOK, LabelsOf, Slots, Frames, Actors, Softirqs, Labels,
           Statuses, Reclaimers, device, ReclaimRelease, Free, Goto, XmitHand,
           Filling, Holding, Releasing, ReleaserHand
  <1>10. QED
    BY <1>1, <1>2, <1>3, <1>4, <1>5, <1>6, <1>7, <1>8, <1>9

LEMMA ReclaimClearKeeps == ASSUME OwnershipInv, NEW a \in Reclaimers, ReclaimClear(a) PROVE OwnershipInv'
  <1> USE DEF OwnershipInv
  <1>1. DoubleFreeNeedsTwoReaders' /\ FreedByStatus'
    BY DEF DoubleFreeNeedsTwoReaders, FreedByStatus, ReclaimClear
  <1>2. TypeOK'
    BY DEF TypeOK, Slots, Frames, Actors, Softirqs, Labels, Statuses, Reclaimers,
           device, ReclaimClear, Goto
  <1>3. LabelsOf'
    BY DEF LabelsOf, TypeOK, Actors, Softirqs, Labels, Reclaimers, ReclaimClear, Goto
  <1>4. SlotsHoldLiveSkbs'
    BY DEF SlotsHoldLiveSkbs, TypeOK, LabelsOf, Slots, Frames, Actors, Softirqs,
           Labels, Statuses, Reclaimers, device, ReclaimClear, Goto, Clearing,
           XmitHand, ReleaserHand, SysfsHand, Releasing, Holding, Filling,
           FreedByStatus
  <1>5. Unaccepted'
    BY DEF Unaccepted, TypeOK, LabelsOf, Slots, Frames, Actors, Softirqs, Labels,
           Statuses, Reclaimers, device, ReclaimClear, Goto, XmitHand, Filling,
           SysfsHand
  <1>6. XmitHand'
    BY DEF XmitHand, TypeOK, LabelsOf, Slots, Frames, Actors, Softirqs, Labels,
           Statuses, Reclaimers, device, ReclaimClear, Goto, Filling, ReleaserHand,
           Holding, Releasing, SysfsHand, Unaccepted
  <1>7. ReleaserHand'
    BY DEF ReleaserHand, TypeOK, LabelsOf, Slots, Frames, Actors, Softirqs, Labels,
           Statuses, Reclaimers, device, ReclaimClear, Goto, Holding, Releasing,
           Filling, XmitHand, SlotsHoldLiveSkbs, Clearing, FreedByStatus, Unaccepted
  <1>8. SysfsHand'
    BY DEF SysfsHand, TypeOK, LabelsOf, Slots, Frames, Actors, Softirqs, Labels,
           Statuses, Reclaimers, device, ReclaimClear, Goto, XmitHand, Filling,
           Holding, Releasing, ReleaserHand
  <1>9. QED
    BY <1>1, <1>2, <1>3, <1>4, <1>5, <1>6, <1>7, <1>8

LEMMA ReclaimRestoreKeeps == ASSUME OwnershipInv, NEW a \in Reclaimers, ReclaimRestore(a) PROVE OwnershipInv'
  <1> USE DEF OwnershipInv
  <1>1. DoubleFreeNeedsTwoReaders' /\ FreedByStatus' /\ Unaccepted'
    BY DEF DoubleFreeNeedsTwoReaders, FreedByStatus, Unaccepted, ReclaimRestore
  <1>2. TypeOK'
    BY NextSlotInRing DEF TypeOK, Slots, Frames, Actors, Softirqs, Labels, Statuses,
           Reclaimers, device, ReclaimRestore, Goto
  <1>3. LabelsOf'
    BY NextSlotInRing DEF LabelsOf, TypeOK, Actors, Softirqs, Labels, Reclaimers,
           ReclaimRestore, Goto
  <1>4. SlotsHoldLiveSkbs'
    BY NextSlotInRing DEF SlotsHoldLiveSkbs, TypeOK, LabelsOf, Slots, Frames,
           Actors, Softirqs, Labels, Statuses, Reclaimers, device, ReclaimRestore,
           Goto, Clearing, XmitHand, ReleaserHand, SysfsHand, Releasing, Holding,
           Filling, FreedByStatus
  <1>5. XmitHand'
    BY NextSlotInRing DEF XmitHand, TypeOK, LabelsOf, Slots, Frames, Actors,
           Softirqs, Labels, Statuses, Reclaimers, device, ReclaimRestore, Goto,
           Filling, ReleaserHand, Holding, Releasing, SysfsHand, Unaccepted
  <1>6. ReleaserHand'
    <2>1. a \in Softirqs /\ fr[a] = NoFrame
      BY DEF ReleaserHand, Holding, Releasing, Filling, ReclaimRestore,
             Reclaimers, Softirqs
    <2>2. /\ fr' = fr /\ UNCHANGED <<tx_skb, shared, status, frees>>
          /\ \A b \in Softirqs : pc'[b] = IF b = a THEN "scan" ELSE pc[b]
          /\ \A b \in Softirqs \ {a} : at'[b] = at[b]
      BY <2>1 DEF TypeOK, ReclaimRestore, Goto, Actors
    <2>3. QED
      BY <2>1, <2>2 DEF ReleaserHand, Holding, Releasing, Filling, Softirqs, Reclaimers
  <1>7. SysfsHand'
    BY NextSlotInRing DEF SysfsHand, TypeOK, LabelsOf, Slots, Frames, Actors,
           Softirqs, Labels, Statuses, Reclaimers, device, ReclaimRestore, Goto,
           XmitHand, Filling, Holding, Releasing, ReleaserHand
  <1>8. QED
    BY <1>1, <1>2, <1>3, <1>4, <1>5, <1>6, <1>7

LEMMA ReclaimFinishKeeps == ASSUME OwnershipInv, NEW a \in Reclaimers, ReclaimFinish(a) PROVE OwnershipInv'
  <1> USE DEF OwnershipInv
  <1>1. DoubleFreeNeedsTwoReaders' /\ FreedByStatus' /\ Unaccepted'
    BY DEF DoubleFreeNeedsTwoReaders, FreedByStatus, Unaccepted, ReclaimFinish
  <1>2. TypeOK'
    BY DEF TypeOK, Slots, Frames, Actors, Softirqs, Labels, Statuses, Reclaimers,
           device, ReclaimFinish, Goto
  <1>3. LabelsOf'
    BY DEF LabelsOf, TypeOK, Actors, Softirqs, Labels, Reclaimers, ReclaimFinish, Goto
  <1>4. SlotsHoldLiveSkbs'
    BY DEF SlotsHoldLiveSkbs, TypeOK, LabelsOf, Slots, Frames, Actors, Softirqs,
           Labels, Statuses, Reclaimers, device, ReclaimFinish, Goto, Clearing,
           XmitHand, ReleaserHand, SysfsHand, Releasing, Holding, Filling,
           FreedByStatus
  <1>5. XmitHand'
    BY DEF XmitHand, TypeOK, LabelsOf, Slots, Frames, Actors, Softirqs, Labels,
           Statuses, Reclaimers, device, ReclaimFinish, Goto, Filling, ReleaserHand,
           Holding, Releasing, SysfsHand, Unaccepted
  <1>6. ReleaserHand'
    BY DEF ReleaserHand, TypeOK, LabelsOf, Slots, Frames, Actors, Softirqs, Labels,
           Statuses, Reclaimers, device, ReclaimFinish, Goto, Holding, Releasing,
           Filling, XmitHand, SlotsHoldLiveSkbs, Clearing, FreedByStatus, Unaccepted
  <1>7. SysfsHand'
    BY DEF SysfsHand, TypeOK, LabelsOf, Slots, Frames, Actors, Softirqs, Labels,
           Statuses, Reclaimers, device, ReclaimFinish, Goto, XmitHand, Filling,
           Holding, Releasing, ReleaserHand
  <1>8. QED
    BY <1>1, <1>2, <1>3, <1>4, <1>5, <1>6, <1>7

LEMMA ReclaimWakeKeeps == ASSUME OwnershipInv, NEW a \in Reclaimers, ReclaimWake(a) PROVE OwnershipInv'
  <1> USE DEF OwnershipInv
  <1>1. DoubleFreeNeedsTwoReaders' /\ FreedByStatus' /\ Unaccepted'
    BY DEF DoubleFreeNeedsTwoReaders, FreedByStatus, Unaccepted, ReclaimWake
  <1>2. TypeOK'
    <2>1. stopped' \in BOOLEAN
      BY Zenon DEF ReclaimWake
    <2>2. QED
      BY <2>1 DEF TypeOK, ReclaimWake, Goto, Slots, Reclaimers, Softirqs, Actors,
             Labels, device
  <1>3. LabelsOf'
    BY DEF LabelsOf, TypeOK, Actors, Softirqs, Labels, Reclaimers, ReclaimWake, Goto
  <1>4. SlotsHoldLiveSkbs'
    BY DEF SlotsHoldLiveSkbs, TypeOK, LabelsOf, Slots, Frames, Actors, Softirqs,
           Labels, Statuses, Reclaimers, device, ReclaimWake, Goto, Clearing,
           XmitHand, ReleaserHand, SysfsHand, Releasing, Holding, Filling,
           FreedByStatus
  <1>5. XmitHand'
    BY DEF XmitHand, TypeOK, LabelsOf, Slots, Frames, Actors, Softirqs, Labels,
           Statuses, Reclaimers, device, ReclaimWake, Goto, Filling, ReleaserHand,
           Holding, Releasing, SysfsHand, Unaccepted
  <1>6. ReleaserHand'
    BY DEF ReleaserHand, TypeOK, LabelsOf, Slots, Frames, Actors, Softirqs, Labels,
           Statuses, Reclaimers, device, ReclaimWake, Goto, Holding, Releasing,
           Filling, XmitHand, SlotsHoldLiveSkbs, Clearing, FreedByStatus, Unaccepted
  <1>7. SysfsHand'
    BY DEF SysfsHand, TypeOK, LabelsOf, Slots, Frames, Actors, Softirqs, Labels,
           Statuses, Reclaimers, device, ReclaimWake, Goto, XmitHand, Filling,
           Holding, Releasing, ReleaserHand
  <1>8. QED
    BY <1>1, <1>2, <1>3, <1>4, <1>5, <1>6, <1>7

-----------------------------------------------------------------------------
(* mts_tx_drain_force, from the watchdog *)

LEMMA TxTimeoutKeeps == ASSUME OwnershipInv, TxTimeout PROVE OwnershipInv'
  <1> USE DEF OwnershipInv
  <1>1. FreedByStatus' /\ Unaccepted'
    BY DEF FreedByStatus, Unaccepted, TxTimeout
  <1>2. TypeOK'
    BY DEF TypeOK, Slots, Frames, Actors, Softirqs, Labels, Statuses, Reclaimers,
           device, TxTimeout, Goto, Taken
  <1>3. LabelsOf'
    BY DEF LabelsOf, TypeOK, Actors, Softirqs, Labels, Reclaimers, TxTimeout, Goto,
           Taken
  <1>4. DoubleFreeNeedsTwoReaders'
    BY DEF DoubleFreeNeedsTwoReaders, TypeOK, LabelsOf, Slots, Frames, Actors,
           Softirqs, Labels, Statuses, Reclaimers, device, TxTimeout, Goto, Taken,
           XmitHand, ReleaserHand, SysfsHand, FreedByStatus, Releasing, Holding,
           Filling
  <1>5. SlotsHoldLiveSkbs'
    BY DEF SlotsHoldLiveSkbs, TypeOK, LabelsOf, Slots, Frames, Actors, Softirqs,
           Labels, Statuses, Reclaimers, device, TxTimeout, Goto, Taken, Clearing,
           XmitHand, ReleaserHand, SysfsHand, Releasing, Holding, Filling,
           FreedByStatus
  <1>6. XmitHand'
    BY DEF XmitHand, TypeOK, LabelsOf, Slots, Frames, Actors, Softirqs, Labels,
           Statuses, Reclaimers, device, TxTimeout, Goto, Taken, Filling,
           ReleaserHand, Holding, Releasing, SysfsHand, Unaccepted
  <1>7. ReleaserHand'
    BY DEF ReleaserHand, TypeOK, LabelsOf, Slots, Frames, Actors, Softirqs, Labels,
           Statuses, Reclaimers, device, TxTimeout, Goto, Taken, Holding, Releasing,
           Filling, XmitHand, SlotsHoldLiveSkbs, Clearing, FreedByStatus, Unaccepted
  <1>8. SysfsHand'
    BY DEF SysfsHand, TypeOK, LabelsOf, Slots, Frames, Actors, Softirqs, Labels,
           Statuses, Reclaimers, device, TxTimeout, Goto, Taken, XmitHand, Filling,
           Holding, Releasing, ReleaserHand
  <1>9. QED
    BY <1>1, <1>2, <1>3, <1>4, <1>5, <1>6, <1>7, <1>8

LEMMA DrainReleaseKeeps == ASSUME OwnershipInv, DrainRelease PROVE OwnershipInv'
  <1> USE DEF OwnershipInv
  <1>1. TypeOK'
    <2>1. CASE fr["wd"] # NoFrame
      <3>1. fr["wd"] \in Frames
        BY <2>1 DEF TypeOK, Actors, Softirqs
      <3>2. frees' \in [Frames -> Nat] /\ status' \in [Frames -> Statuses]
        BY <2>1, <3>1 DEF TypeOK, DrainRelease, Free, Statuses
      <3>3. QED
        BY <2>1, <3>2 DEF TypeOK, DrainRelease, Goto, Softirqs, Actors, Labels, device
    <2>2. CASE fr["wd"] = NoFrame
      BY <2>2 DEF TypeOK, DrainRelease, DrainNext, Goto, Taken, Slots, Frames,
             Softirqs, Actors, Labels, device
    <2>3. QED
      BY <2>1, <2>2
  <1>2. LabelsOf'
    BY DEF LabelsOf, TypeOK, Actors, Softirqs, Labels, Reclaimers, DrainRelease,
           DrainNext, Free, Goto, Taken
  <1>3. DoubleFreeNeedsTwoReaders'
    <2>1. CASE fr["wd"] # NoFrame
      <3>1. fr["wd"] \in Frames /\ (frees[fr["wd"]] = 0 \/ fr["wd"] \in shared)
        BY <2>1 DEF TypeOK, DrainRelease, ReleaserHand, Releasing, Actors, Softirqs
      <3>2. QED
        BY <2>1, <3>1 DEF TypeOK, DoubleFreeNeedsTwoReaders, DrainRelease, Free
    <2>2. CASE fr["wd"] = NoFrame
      BY <2>2 DEF DoubleFreeNeedsTwoReaders, DrainRelease, DrainNext, Taken
    <2>3. QED
      BY <2>1, <2>2
  <1>4. SlotsHoldLiveSkbs'
    BY DEF SlotsHoldLiveSkbs, TypeOK, LabelsOf, Slots, Frames, Actors, Softirqs,
           Labels, Statuses, Reclaimers, device, DrainRelease, DrainNext, Free,
           Goto, Taken, Clearing, XmitHand, ReleaserHand, SysfsHand, Releasing,
           Holding, Filling, FreedByStatus
  <1>5. FreedByStatus'
    BY DEF FreedByStatus, TypeOK, LabelsOf, Slots, Frames, Actors, Softirqs, Labels,
           Statuses, Reclaimers, device, DrainRelease, DrainNext, Free, Goto, Taken,
           XmitHand, ReleaserHand, SysfsHand, Releasing, Holding, Filling
  <1>6. Unaccepted'
    BY DEF Unaccepted, TypeOK, LabelsOf, Slots, Frames, Actors, Softirqs, Labels,
           Statuses, Reclaimers, device, DrainRelease, DrainNext, Free, Goto, Taken,
           XmitHand, Filling, SysfsHand
  <1>7. XmitHand'
    BY DEF XmitHand, TypeOK, LabelsOf, Slots, Frames, Actors, Softirqs, Labels,
           Statuses, Reclaimers, device, DrainRelease, DrainNext, Free, Goto, Taken,
           Filling, ReleaserHand, Holding, Releasing, SysfsHand, Unaccepted
  <1>8. ReleaserHand'
    BY DEF ReleaserHand, TypeOK, LabelsOf, Slots, Frames, Actors, Softirqs, Labels,
           Statuses, Reclaimers, device, DrainRelease, DrainNext, Free, Goto, Taken,
           Holding, Releasing, Filling, XmitHand, SlotsHoldLiveSkbs, Clearing,
           FreedByStatus, Unaccepted
  <1>9. SysfsHand'
    BY DEF SysfsHand, TypeOK, LabelsOf, Slots, Frames, Actors, Softirqs, Labels,
           Statuses, Reclaimers, device, DrainRelease, DrainNext, Free, Goto, Taken,
           XmitHand, Filling, Holding, Releasing, ReleaserHand
  <1>10. QED
    BY <1>1, <1>2, <1>3, <1>4, <1>5, <1>6, <1>7, <1>8, <1>9

LEMMA DrainWipeKeeps == ASSUME OwnershipInv, DrainWipe PROVE OwnershipInv'
  <1> USE DEF OwnershipInv
  <1>1. FreedByStatus'
    BY DEF FreedByStatus, DrainWipe, DrainNext
  <1>2. TypeOK'
    BY DEF TypeOK, Slots, Frames, Actors, Softirqs, Labels, Statuses, Reclaimers,
           device, DrainWipe, DrainNext, Goto, Taken
  <1>3. LabelsOf'
    BY DEF LabelsOf, TypeOK, Actors, Softirqs, Labels, Reclaimers, DrainWipe,
           DrainNext, Goto, Taken
  <1>4. DoubleFreeNeedsTwoReaders'
    BY DEF DoubleFreeNeedsTwoReaders, TypeOK, LabelsOf, Slots, Frames, Actors,
           Softirqs, Labels, Statuses, Reclaimers, device, DrainWipe, DrainNext,
           Goto, Taken, XmitHand, ReleaserHand, SysfsHand, FreedByStatus, Releasing,
           Holding, Filling
  <1>5. SlotsHoldLiveSkbs'
    BY DEF SlotsHoldLiveSkbs, TypeOK, LabelsOf, Slots, Frames, Actors, Softirqs,
           Labels, Statuses, Reclaimers, device, DrainWipe, DrainNext, Goto, Taken,
           Clearing, XmitHand, ReleaserHand, SysfsHand, Releasing, Holding, Filling,
           FreedByStatus
  <1>6. Unaccepted'
    BY DEF Unaccepted, TypeOK, LabelsOf, Slots, Frames, Actors, Softirqs, Labels,
           Statuses, Reclaimers, device, DrainWipe, DrainNext, Goto, Taken,
           XmitHand, Filling, SysfsHand
  <1>7. XmitHand'
    BY DEF XmitHand, TypeOK, LabelsOf, Slots, Frames, Actors, Softirqs, Labels,
           Statuses, Reclaimers, device, DrainWipe, DrainNext, Goto, Taken, Filling,
           ReleaserHand, Holding, Releasing, SysfsHand, Unaccepted
  <1>8. ReleaserHand'
    BY DEF ReleaserHand, TypeOK, LabelsOf, Slots, Frames, Actors, Softirqs, Labels,
           Statuses, Reclaimers, device, DrainWipe, DrainNext, Goto, Taken, Holding,
           Releasing, Filling, XmitHand, SlotsHoldLiveSkbs, Clearing, FreedByStatus,
           Unaccepted
  <1>9. SysfsHand'
    BY DEF SysfsHand, TypeOK, LabelsOf, Slots, Frames, Actors, Softirqs, Labels,
           Statuses, Reclaimers, device, DrainWipe, DrainNext, Goto, Taken,
           XmitHand, Filling, Holding, Releasing, ReleaserHand
  <1>10. QED
    BY <1>1, <1>2, <1>3, <1>4, <1>5, <1>6, <1>7, <1>8, <1>9

LEMMA DrainResetKeeps == ASSUME OwnershipInv, DrainReset PROVE OwnershipInv'
  <1> USE DEF OwnershipInv
  <1>1. DoubleFreeNeedsTwoReaders' /\ FreedByStatus' /\ Unaccepted'
    BY DEF DoubleFreeNeedsTwoReaders, FreedByStatus, Unaccepted, DrainReset
  <1>2. TypeOK'
    <2>1. stopped' \in BOOLEAN
      BY Zenon DEF DrainReset
    <2>2. QED
      BY <2>1 DEF TypeOK, DrainReset, Return, Goto, Slots, Softirqs, Actors,
             Labels, device
  <1>3. LabelsOf'
    BY DEF LabelsOf, TypeOK, Actors, Softirqs, Labels, Reclaimers, DrainReset,
           Return, Goto
  <1>4. SlotsHoldLiveSkbs'
    BY DEF SlotsHoldLiveSkbs, TypeOK, LabelsOf, Slots, Frames, Actors, Softirqs,
           Labels, Statuses, Reclaimers, device, DrainReset, Return, Goto, Clearing,
           XmitHand, ReleaserHand, SysfsHand, Releasing, Holding, Filling,
           FreedByStatus
  <1>5. XmitHand'
    BY DEF XmitHand, TypeOK, LabelsOf, Slots, Frames, Actors, Softirqs, Labels,
           Statuses, Reclaimers, device, DrainReset, Return, Goto, Filling,
           ReleaserHand, Holding, Releasing, SysfsHand, Unaccepted
  <1>6. ReleaserHand'
    BY DEF ReleaserHand, TypeOK, LabelsOf, Slots, Frames, Actors, Softirqs, Labels,
           Statuses, Reclaimers, device, DrainReset, Return, Goto, Holding,
           Releasing, Filling, XmitHand, SlotsHoldLiveSkbs, Clearing, FreedByStatus,
           Unaccepted
  <1>7. SysfsHand'
    BY DEF SysfsHand, TypeOK, LabelsOf, Slots, Frames, Actors, Softirqs, Labels,
           Statuses, Reclaimers, device, DrainReset, Return, Goto, XmitHand,
           Filling, Holding, Releasing, ReleaserHand
  <1>8. QED
    BY <1>1, <1>2, <1>3, <1>4, <1>5, <1>6, <1>7

-----------------------------------------------------------------------------
(* mts_stop, mts_open and the carrier *)

LEMMA IfDownKeeps == ASSUME OwnershipInv, IfDown PROVE OwnershipInv'
  <1> USE DEF OwnershipInv
  <1>1. LabelsOf'
    BY DEF LabelsOf, IfDown
  <1>2. TypeOK'
    <2>1. up' \in BOOLEAN
      BY Zenon DEF IfDown
    <2>2. frees' \in [Frames -> Nat] /\ status' \in [Frames -> Statuses]
      BY DEF TypeOK, IfDown, Statuses
    <2>3. QED
      BY <2>1, <2>2 DEF TypeOK, IfDown, Slots
  <1>3. DoubleFreeNeedsTwoReaders'
    <2>1. \A i \in Slots : tx_skb[i] # NoFrame => tx_skb[i] \in Frames /\ frees[tx_skb[i]] = 0
      BY DEF TypeOK, IfDown, SlotsHoldLiveSkbs, Clearing, Frames
    <2>2. \A f \in Frames : frees[f] \in Nat /\ frees'[f] \in {frees[f], frees[f] + 1}
      BY DEF TypeOK, IfDown
    <2>3. \A f \in Frames : frees'[f] # frees[f] => frees[f] = 0
      BY <2>1 DEF IfDown
    <2>4. QED
      BY <2>2, <2>3 DEF DoubleFreeNeedsTwoReaders, IfDown
  <1>4. SlotsHoldLiveSkbs'
    BY DEF SlotsHoldLiveSkbs, TypeOK, LabelsOf, Slots, Frames, Actors, Softirqs,
           Labels, Statuses, Reclaimers, device, IfDown, Clearing, XmitHand,
           ReleaserHand, SysfsHand, Releasing, Holding, Filling, FreedByStatus
  <1>5. FreedByStatus'
    BY DEF FreedByStatus, TypeOK, LabelsOf, Slots, Frames, Actors, Softirqs, Labels,
           Statuses, Reclaimers, device, IfDown, XmitHand, ReleaserHand, SysfsHand,
           Releasing, Holding, Filling
  <1>6. Unaccepted'
    BY DEF Unaccepted, TypeOK, LabelsOf, Slots, Frames, Actors, Softirqs, Labels,
           Statuses, Reclaimers, device, IfDown, XmitHand, Filling, SysfsHand
  <1>7. XmitHand'
    BY DEF XmitHand, TypeOK, LabelsOf, Slots, Frames, Actors, Softirqs, Labels,
           Statuses, Reclaimers, device, IfDown, Filling, ReleaserHand, Holding,
           Releasing, SysfsHand, Unaccepted
  <1>8. ReleaserHand'
    BY DEF ReleaserHand, TypeOK, LabelsOf, Slots, Frames, Actors, Softirqs, Labels,
           Statuses, Reclaimers, device, IfDown, Holding, Releasing, Filling,
           XmitHand, SlotsHoldLiveSkbs, Clearing, FreedByStatus, Unaccepted
  <1>9. SysfsHand'
    BY DEF SysfsHand, TypeOK, LabelsOf, Slots, Frames, Actors, Softirqs, Labels,
           Statuses, Reclaimers, device, IfDown, XmitHand, Filling, Holding,
           Releasing, ReleaserHand
  <1>10. QED
    BY <1>1, <1>2, <1>3, <1>4, <1>5, <1>6, <1>7, <1>8, <1>9

LEMMA IfUpKeeps == ASSUME OwnershipInv, IfUp PROVE OwnershipInv'
  <1> USE DEF OwnershipInv
  <1>1. LabelsOf' /\ DoubleFreeNeedsTwoReaders' /\ SlotsHoldLiveSkbs' /\ FreedByStatus' /\ Unaccepted' /\ XmitHand' /\ ReleaserHand' /\ SysfsHand'
    BY DEF LabelsOf, DoubleFreeNeedsTwoReaders, SlotsHoldLiveSkbs, FreedByStatus,
           Unaccepted, XmitHand, ReleaserHand, SysfsHand, Clearing, Filling,
           Holding, Releasing, IfUp
  <1>2. TypeOK'
    BY DEF TypeOK, Slots, Frames, Actors, Softirqs, Labels, Statuses, Reclaimers,
           device, IfUp
  <1>3. QED
    BY <1>1, <1>2

LEMMA LinkCheckKeeps == ASSUME OwnershipInv, LinkCheck PROVE OwnershipInv'
  <1> USE DEF OwnershipInv
  <1>1. LabelsOf' /\ DoubleFreeNeedsTwoReaders' /\ SlotsHoldLiveSkbs' /\ FreedByStatus' /\ Unaccepted' /\ XmitHand' /\ ReleaserHand' /\ SysfsHand'
    BY DEF LabelsOf, DoubleFreeNeedsTwoReaders, SlotsHoldLiveSkbs, FreedByStatus,
           Unaccepted, XmitHand, ReleaserHand, SysfsHand, Clearing, Filling,
           Holding, Releasing, LinkCheck
  <1>2. TypeOK'
    BY DEF TypeOK, Slots, Frames, Actors, Softirqs, Labels, Statuses, Reclaimers,
           device, LinkCheck
  <1>3. QED
    BY <1>1, <1>2

-----------------------------------------------------------------------------
(* the sysfs senders *)

LEMMA SysfsSendKeeps == ASSUME OwnershipInv, NEW f \in Raw, SysfsSend(f) PROVE OwnershipInv'
  <1> USE DEF OwnershipInv
  <1>1. DoubleFreeNeedsTwoReaders'
    BY DEF DoubleFreeNeedsTwoReaders, SysfsSend
  <1>2. TypeOK'
    BY DEF TypeOK, Slots, Frames, Actors, Softirqs, Labels, Statuses, Reclaimers,
           device, SysfsSend, Goto
  <1>3. LabelsOf'
    BY DEF LabelsOf, TypeOK, Actors, Softirqs, Labels, Reclaimers, SysfsSend, Goto
  <1>4. SlotsHoldLiveSkbs'
    BY DEF SlotsHoldLiveSkbs, TypeOK, LabelsOf, Slots, Frames, Actors, Softirqs,
           Labels, Statuses, Reclaimers, device, SysfsSend, Goto, Clearing,
           XmitHand, ReleaserHand, SysfsHand, Releasing, Holding, Filling,
           FreedByStatus
  <1>5. FreedByStatus'
    BY DEF FreedByStatus, TypeOK, LabelsOf, Slots, Frames, Actors, Softirqs, Labels,
           Statuses, Reclaimers, device, SysfsSend, Goto, XmitHand, ReleaserHand,
           SysfsHand, Releasing, Holding, Filling
  <1>6. Unaccepted'
    BY DEF Unaccepted, TypeOK, LabelsOf, Slots, Frames, Actors, Softirqs, Labels,
           Statuses, Reclaimers, device, SysfsSend, Goto, XmitHand, Filling,
           SysfsHand
  <1>7. XmitHand'
    BY DEF XmitHand, TypeOK, LabelsOf, Slots, Frames, Actors, Softirqs, Labels,
           Statuses, Reclaimers, device, SysfsSend, Goto, Filling, ReleaserHand,
           Holding, Releasing, SysfsHand, Unaccepted
  <1>8. ReleaserHand'
    BY DEF ReleaserHand, TypeOK, LabelsOf, Slots, Frames, Actors, Softirqs, Labels,
           Statuses, Reclaimers, device, SysfsSend, Goto, Holding, Releasing,
           Filling, XmitHand, SlotsHoldLiveSkbs, Clearing, FreedByStatus, Unaccepted
  <1>9. SysfsHand'
    BY DEF SysfsHand, TypeOK, LabelsOf, Slots, Frames, Actors, Softirqs, Labels,
           Statuses, Reclaimers, device, SysfsSend, Goto, XmitHand, Filling,
           Holding, Releasing, ReleaserHand
  <1>10. QED
    BY <1>1, <1>2, <1>3, <1>4, <1>5, <1>6, <1>7, <1>8, <1>9

LEMMA SysfsFillKeeps == ASSUME OwnershipInv, SysfsFill PROVE OwnershipInv'
  <1> USE DEF OwnershipInv
  <1>1. DoubleFreeNeedsTwoReaders' /\ FreedByStatus' /\ Unaccepted'
    BY DEF DoubleFreeNeedsTwoReaders, FreedByStatus, Unaccepted, SysfsFill
  <1>2. TypeOK'
    BY DEF TypeOK, Slots, Frames, Actors, Softirqs, Labels, Statuses, Reclaimers,
           device, SysfsFill, Goto, XmitHand, ReleaserHand, SysfsHand, Releasing,
           Holding, Filling
  <1>3. LabelsOf'
    BY DEF LabelsOf, TypeOK, Actors, Softirqs, Labels, Reclaimers, SysfsFill, Goto
  <1>4. SlotsHoldLiveSkbs'
    BY DEF SlotsHoldLiveSkbs, TypeOK, LabelsOf, Slots, Frames, Actors, Softirqs,
           Labels, Statuses, Reclaimers, device, SysfsFill, Goto, Clearing,
           XmitHand, ReleaserHand, SysfsHand, Releasing, Holding, Filling,
           FreedByStatus
  <1>5. XmitHand'
    BY DEF XmitHand, TypeOK, LabelsOf, Slots, Frames, Actors, Softirqs, Labels,
           Statuses, Reclaimers, device, SysfsFill, Goto, Filling, ReleaserHand,
           Holding, Releasing, SysfsHand, Unaccepted
  <1>6. ReleaserHand'
    BY DEF ReleaserHand, TypeOK, LabelsOf, Slots, Frames, Actors, Softirqs, Labels,
           Statuses, Reclaimers, device, SysfsFill, Goto, Holding, Releasing,
           Filling, XmitHand, SlotsHoldLiveSkbs, Clearing, FreedByStatus, Unaccepted
  <1>7. SysfsHand'
    BY DEF SysfsHand, TypeOK, LabelsOf, Slots, Frames, Actors, Softirqs, Labels,
           Statuses, Reclaimers, device, SysfsFill, Goto, XmitHand, Filling,
           Holding, Releasing, ReleaserHand
  <1>8. QED
    BY <1>1, <1>2, <1>3, <1>4, <1>5, <1>6, <1>7

LEMMA SysfsAdvanceKeeps == ASSUME OwnershipInv, SysfsAdvance PROVE OwnershipInv'
  <1> USE DEF OwnershipInv
  <1>1. DoubleFreeNeedsTwoReaders' /\ FreedByStatus' /\ Unaccepted'
    BY DEF DoubleFreeNeedsTwoReaders, FreedByStatus, Unaccepted, SysfsAdvance
  <1>2. TypeOK'
    BY NextSlotInRing DEF TypeOK, Slots, Frames, Actors, Softirqs, Labels, Statuses,
           Reclaimers, device, SysfsAdvance, Goto
  <1>3. LabelsOf'
    BY NextSlotInRing DEF LabelsOf, TypeOK, Actors, Softirqs, Labels, Reclaimers,
           SysfsAdvance, Goto
  <1>4. SlotsHoldLiveSkbs'
    BY NextSlotInRing DEF SlotsHoldLiveSkbs, TypeOK, LabelsOf, Slots, Frames,
           Actors, Softirqs, Labels, Statuses, Reclaimers, device, SysfsAdvance,
           Goto, Clearing, XmitHand, ReleaserHand, SysfsHand, Releasing, Holding,
           Filling, FreedByStatus
  <1>5. XmitHand'
    BY NextSlotInRing DEF XmitHand, TypeOK, LabelsOf, Slots, Frames, Actors,
           Softirqs, Labels, Statuses, Reclaimers, device, SysfsAdvance, Goto,
           Filling, ReleaserHand, Holding, Releasing, SysfsHand, Unaccepted
  <1>6. ReleaserHand'
    BY NextSlotInRing DEF ReleaserHand, TypeOK, LabelsOf, Slots, Frames, Actors,
           Softirqs, Labels, Statuses, Reclaimers, device, SysfsAdvance, Goto,
           Holding, Releasing, Filling, XmitHand, SlotsHoldLiveSkbs, Clearing,
           FreedByStatus, Unaccepted
  <1>7. SysfsHand'
    BY NextSlotInRing DEF SysfsHand, TypeOK, LabelsOf, Slots, Frames, Actors,
           Softirqs, Labels, Statuses, Reclaimers, device, SysfsAdvance, Goto,
           XmitHand, Filling, Holding, Releasing, ReleaserHand
  <1>8. QED
    BY <1>1, <1>2, <1>3, <1>4, <1>5, <1>6, <1>7

LEMMA SysfsWakeKeeps == ASSUME OwnershipInv, SysfsWake PROVE OwnershipInv'
  <1> USE DEF OwnershipInv
  <1>1. TypeOK'
    <2>1. fr["sysfs"] \in Frames
      BY DEF SysfsHand, SysfsWake, Frames
    <2>2. frees' \in [Frames -> Nat] /\ status' \in [Frames -> Statuses]
      <3>1. CASE Free(fr["sysfs"], "dropped")
        BY <2>1, <3>1 DEF TypeOK, Free, Statuses
      <3>2. QED
        BY <3>1 DEF TypeOK, SysfsWake
    <2>3. QED
      BY <2>2 DEF TypeOK, SysfsWake, Return, Goto, Slots, Actors, Labels, device
  <1>2. LabelsOf'
    BY DEF LabelsOf, TypeOK, Actors, Softirqs, Labels, Reclaimers, SysfsWake, Free,
           Return, Goto
  <1>3. DoubleFreeNeedsTwoReaders'
    <2>1. CASE Free(fr["sysfs"], "dropped")
      <3>1. fr["sysfs"] \in Frames /\ frees[fr["sysfs"]] = 0
        BY DEF SysfsHand, SysfsWake, Frames, FreedByStatus
      <3>2. QED
        BY <2>1, <3>1 DEF TypeOK, DoubleFreeNeedsTwoReaders, SysfsWake, Free
    <2>2. QED
      BY <2>1 DEF DoubleFreeNeedsTwoReaders, SysfsWake
  <1>4. SlotsHoldLiveSkbs'
    BY DEF SlotsHoldLiveSkbs, TypeOK, LabelsOf, Slots, Frames, Actors, Softirqs,
           Labels, Statuses, Reclaimers, device, SysfsWake, Free, Return, Goto,
           Clearing, XmitHand, ReleaserHand, SysfsHand, Releasing, Holding, Filling,
           FreedByStatus
  <1>5. FreedByStatus'
    <2>1. CASE Free(fr["sysfs"], "dropped")
      <3>1. fr["sysfs"] \in Frames /\ frees[fr["sysfs"]] \in Nat
        BY DEF SysfsHand, SysfsWake, Frames, TypeOK
      <3>2. QED
        BY <2>1, <3>1 DEF TypeOK, FreedByStatus, Free
    <2>2. QED
      BY <2>1 DEF FreedByStatus, SysfsWake
  <1>6. Unaccepted'
    BY DEF Unaccepted, TypeOK, LabelsOf, Slots, Frames, Actors, Softirqs, Labels,
           Statuses, Reclaimers, device, SysfsWake, Free, Return, Goto, XmitHand,
           Filling, SysfsHand
  <1>7. XmitHand'
    BY DEF XmitHand, TypeOK, LabelsOf, Slots, Frames, Actors, Softirqs, Labels,
           Statuses, Reclaimers, device, SysfsWake, Free, Return, Goto, Filling,
           ReleaserHand, Holding, Releasing, SysfsHand, Unaccepted
  <1>8. ReleaserHand'
    <2>1. \A a \in Softirqs : pc'[a] = pc[a] /\ at'[a] = at[a] /\ fr'[a] = fr[a]
      BY DEF TypeOK, SysfsWake, Return, Goto, Softirqs, Actors
    <2>2. fr["sysfs"] \in Raw /\ UNCHANGED <<tx_skb, shared>>
      BY DEF SysfsHand, SysfsWake
    <2>3. \A s \in Skbs : status'[s] = status[s] /\ frees'[s] = frees[s]
      <3>1. CASE Free(fr["sysfs"], "dropped")
        BY <2>2, <3>1 DEF TypeOK, Free, Frames
      <3>2. QED
        BY <3>1 DEF SysfsWake
    <2>4. QED
      BY <2>1, <2>2, <2>3 DEF ReleaserHand, Holding, Releasing, Filling, Softirqs
  <1>9. SysfsHand'
    BY DEF SysfsHand, TypeOK, LabelsOf, Slots, Frames, Actors, Softirqs, Labels,
           Statuses, Reclaimers, device, SysfsWake, Free, Return, Goto, XmitHand,
           Filling, Holding, Releasing, ReleaserHand
  <1>10. QED
    BY <1>1, <1>2, <1>3, <1>4, <1>5, <1>6, <1>7, <1>8, <1>9

-----------------------------------------------------------------------------
(* the controller *)

LEMMA HwSendKeeps == ASSUME OwnershipInv, NEW i \in Slots, HwSend(i) PROVE OwnershipInv'
  <1> USE DEF OwnershipInv
  <1>1. LabelsOf' /\ DoubleFreeNeedsTwoReaders' /\ SlotsHoldLiveSkbs' /\ FreedByStatus' /\ Unaccepted' /\ XmitHand' /\ ReleaserHand' /\ SysfsHand'
    BY DEF LabelsOf, DoubleFreeNeedsTwoReaders, SlotsHoldLiveSkbs, FreedByStatus,
           Unaccepted, XmitHand, ReleaserHand, SysfsHand, Clearing, Filling,
           Holding, Releasing, HwSend
  <1>2. TypeOK'
    BY DEF TypeOK, Slots, Frames, Actors, Softirqs, Labels, Statuses, Reclaimers,
           device, HwSend
  <1>3. QED
    BY <1>1, <1>2

-----------------------------------------------------------------------------
LEMMA NextKeepsOwnership == OwnershipInv /\ [Next]_vars => OwnershipInv'
  <1> SUFFICES ASSUME OwnershipInv, [Next]_vars PROVE OwnershipInv'
    OBVIOUS
  <1>1. CASE Xmit
    BY <1>1, CallXmitKeeps, XmitDropKeeps, XmitBusyKeeps, XmitAcceptKeeps,
           XmitFillKeeps,
       XmitAdvanceKeeps, XmitStopCheckKeeps DEF Xmit
  <1>2. ASSUME NEW a \in Reclaimers, Reclaim(a) PROVE OwnershipInv'
    BY <1>2, ReclaimScanKeeps, ReclaimReleaseKeeps, ReclaimClearKeeps,
           ReclaimRestoreKeeps,
       ReclaimFinishKeeps, ReclaimWakeKeeps DEF Reclaim
  <1>3. CASE TxTimeout \/ Drain
    BY <1>3, TxTimeoutKeeps, DrainReleaseKeeps, DrainWipeKeeps, DrainResetKeeps DEF
           Drain
  <1>4. CASE Sysfs
    BY <1>4, SysfsSendKeeps, SysfsFillKeeps, SysfsAdvanceKeeps, SysfsWakeKeeps DEF Sysfs
  <1>5. CASE UNCHANGED vars
    BY <1>5 DEF vars, device, OwnershipInv, TypeOK, LabelsOf, DoubleFreeNeedsTwoReaders,
       SlotsHoldLiveSkbs, Clearing, FreedByStatus, Unaccepted, XmitHand, ReleaserHand,
       SysfsHand, Filling, Holding, Releasing
  <1>6. QED
    BY <1>1, <1>2, <1>3, <1>4, <1>5, KickKeeps, PollReclaimKeeps, IfDownKeeps,
           IfUpKeeps,
       LinkCheckKeeps, HwSendKeeps DEF Next

\* The ownership invariant holds throughout, whatever the ring size, the traffic,
\* the controller's completion order, and the interleaving of mts_start_xmit,
\* mts_poll, the watchdog, the sysfs senders and the ifdown/ifup cycles on any
\* number of CPUs.
THEOREM TxOwnership == Spec => []OwnershipInv
  BY InitOwnership, NextKeepsOwnership, PTL DEF Spec

\* No buffer of the transmit path is freed twice unless two of the unlocked
\* releasers had it in hand at the same time.
THEOREM TxDoubleFree == Spec => []DoubleFreeNeedsTwoReaders
  <1>1. OwnershipInv => DoubleFreeNeedsTwoReaders
    BY DEF OwnershipInv
  <1>2. QED
    BY <1>1, TxOwnership, PTL

\* Every pending slot of mp->tx_skb refers to a socket buffer that is live, or that
\* its releaser is about to clear, and that no other slot refers to.
THEOREM TxSlotsLive == Spec => []SlotsHoldLiveSkbs
  <1>1. OwnershipInv => SlotsHoldLiveSkbs
    BY DEF OwnershipInv
  <1>2. QED
    BY <1>1, TxOwnership, PTL
=============================================================================
