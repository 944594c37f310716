------------------------------- MODULE MtsTx -------------------------------
(***************************************************************************)
(* The transmit path of the Baikal GBE driver (drivers_mts/mts.c): the     *)
(* descriptor ring shared by                                               *)
(*   xmit   mts_start_xmit, called by the network stack under the queue    *)
(*          lock, and the opportunistic mts_tx_reclaim it ends with;       *)
(*   napi   the mts_tx_reclaim of mts_poll, which takes no lock;           *)
(*   wd     mts_tx_timeout, called by the watchdog timer with the queue    *)
(*          frozen (so never while xmit runs);                             *)
(*   sysfs  mts_send_test_frame and mts_send_rmu_frame, called from the    *)
(*          trigger_* stores in process context, without any lock;         *)
(*   ifdown mts_stop, whose mts_mac_stop drains the ring;                  *)
(* and the controller, which takes a descriptor whose OWN bit is clear and *)
(* sets the bit when the frame is out.                                     *)
(*                                                                         *)
(* The kernel is built for SMP: every actor may be on a CPU of its own,    *)
(* and a load or store of shared state that another actor may observe is a *)
(* step of its own.  A frame is an opaque token: length, SOP, EOP, WRAP    *)
(* and the DMA address are not told apart, d[1] holds the frame itself.    *)
(***************************************************************************)
EXTENDS Naturals, FiniteSets

CONSTANTS
  N,           \* MTS_RING_SIZE: the number of descriptors of the ring
  Skbs,        \* socket buffers the network stack hands to the driver
  Raw,         \* buffers of mts_send_test_frame and mts_send_rmu_frame
  NoFrame      \* the NULL pointer

ASSUME NAssumption == N \in Nat /\ N > 1
ASSUME FrameAssumption ==
  /\ NoFrame \notin Skbs \cup Raw
  /\ Skbs \cap Raw = {}

VARIABLES
  own,       \* bit 31 of d[0] of every descriptor: 0 = the controller's
  desc,      \* d[1] of every descriptor: the frame it points to
  tx_skb,    \* mp->tx_skb: the socket buffer pending on every descriptor
  tx_idx,    \* mp->tx_idx: the next descriptor to fill
  tx_clean,  \* mp->tx_clean: the next descriptor to reclaim
  stopped,   \* netif_queue_stopped(dev)
  carrier,   \* netif_carrier_ok(dev)
  up,        \* the interface is open (between mts_open and mts_stop)
  enable_tx, \* mp->enable_tx: the module parameter as the last mts_open read it
  pc,        \* where every actor is
  at,        \* the local idx, clean or i of every actor
  fr,        \* the local skb or buf of every actor
  status,    \* who has every frame: see Statuses
  frees,     \* how many times every frame was given back to the allocator
  sent,      \* the socket buffers the controller has put on the wire
  shared     \* history: skbs read from a slot while another actor was releasing them

device == <<carrier, up, enable_tx>>
vars == <<own, desc, tx_skb, tx_idx, tx_clean, stopped, device,
          pc, at, fr, status, frees, sent, shared>>

Slots    == 0 .. N - 1
Frames   == Skbs \cup Raw
Softirqs == {"xmit", "napi", "wd"}
Actors   == Softirqs \cup {"sysfs"}
Labels   == {"idle", "check", "fill", "kick", "advance", "scan", "release",
             "clear", "restore", "finish", "wake", "stopcheck", "drain",
             "wipe", "reset", "sleep"}

\* stack: not yet accepted; driver: accepted; done: counted in tx_packets and
\* released; dropped: released without having been counted.
Statuses == {"stack", "driver", "done", "dropped"}

\* (i + 1) & (MTS_RING_SIZE - 1): the ring size is a power of two.
NextSlot(i) == IF i = N - 1 THEN 0 ELSE i + 1

\* A buffer goes back to its allocator with status s.
Free(f, s) ==
  /\ frees' = [frees EXCEPT ![f] = @ + 1]
  /\ status' = [status EXCEPT ![f] = s]

\* Actor a goes to label l with i and f in its local variables.
Goto(a, l, i, f) ==
  /\ pc' = [pc EXCEPT ![a] = l]
  /\ at' = [at EXCEPT ![a] = i]
  /\ fr' = [fr EXCEPT ![a] = f]

\* The call ends and its local variables with it.
Return(a) == Goto(a, "idle", 0, NoFrame)

\* What shared becomes when a reads f from a slot.
Taken(a, f) == shared \cup {g \in {f} \cap Skbs : \E b \in Softirqs \ {a} : fr[b] = g}

\* mts_setup_rings: every descriptor idle (OWN = 1), both indices 0.
Init ==
  /\ own = [i \in Slots |-> 1]
  /\ desc = [i \in Slots |-> NoFrame]
  /\ tx_skb = [i \in Slots |-> NoFrame]
  /\ tx_idx = 0
  /\ tx_clean = 0
  /\ stopped = FALSE
  /\ carrier = FALSE
  /\ up = FALSE
  /\ enable_tx = FALSE
  /\ pc = [a \in Actors |-> "idle"]
  /\ at = [a \in Actors |-> 0]
  /\ fr = [a \in Actors |-> NoFrame]
  /\ status = [f \in Frames |-> "stack"]
  /\ frees = [f \in Frames |-> 0]
  /\ sent = {}
  /\ shared = {}

-----------------------------------------------------------------------------
(* mts_start_xmit *)

\* The stack hands a buffer over and idx is read.  The queue lock keeps a second
\* call out; the watchdog has the queue frozen while it runs.
CallXmit(s) ==
  /\ pc["xmit"] = "idle" /\ pc["wd"] = "idle"
  /\ up /\ ~stopped
  /\ s \in Skbs /\ status[s] = "stack"
  /\ Goto("xmit", "check", tx_idx, s)
  /\ UNCHANGED <<own, desc, tx_skb, tx_idx, tx_clean, stopped, device, status, frees, sent, shared>>

\* enable_tx is off, or dma_map_single fails: the skb is dropped.
XmitDrop ==
  /\ pc["xmit"] = "check"
  /\ enable_tx => own[at["xmit"]] = 1
  /\ Free(fr["xmit"], "dropped")
  /\ Return("xmit")
  /\ UNCHANGED <<own, desc, tx_skb, tx_idx, tx_clean, stopped, device, sent, shared>>

\* Mutant: the skb is freed although NETDEV_TX_BUSY leaves it to the stack.
XmitBusyFrees ==
  /\ pc["xmit"] = "check" /\ enable_tx
  /\ own[at["xmit"]] = 0
  /\ stopped' = TRUE
  /\ frees' = [frees EXCEPT ![fr["xmit"]] = @ + 1]
  /\ Return("xmit")
  /\ UNCHANGED <<own, desc, tx_skb, tx_idx, tx_clean, device, status, sent, shared>>

\* The descriptor is the controller's: NETDEV_TX_BUSY, the stack keeps the skb
\* and the queue stops.
XmitBusy ==
  /\ pc["xmit"] = "check" /\ enable_tx
  /\ own[at["xmit"]] = 0
  /\ stopped' = TRUE
  /\ Return("xmit")
  /\ UNCHANGED <<own, desc, tx_skb, tx_idx, tx_clean, device, status, frees, sent, shared>>

\* The OWN bit is read, the skb is mapped.
XmitAccept ==
  /\ pc["xmit"] = "check" /\ enable_tx
  /\ own[at["xmit"]] = 1
  /\ status' = [status EXCEPT ![fr["xmit"]] = "driver"]
  /\ Goto("xmit", "fill", at["xmit"], fr["xmit"])
  /\ UNCHANGED <<own, desc, tx_skb, tx_idx, tx_clean, stopped, device, frees, sent, shared>>

\* tx_skb[idx] and d[1], d[2]: everything before the wmb().
XmitFill ==
  /\ pc["xmit"] = "fill"
  /\ tx_skb' = [tx_skb EXCEPT ![at["xmit"]] = fr["xmit"]]
  /\ desc' = [desc EXCEPT ![at["xmit"]] = fr["xmit"]]
  /\ Goto("xmit", "kick", at["xmit"], NoFrame)
  /\ UNCHANGED <<own, tx_idx, tx_clean, stopped, device, status, frees, sent, shared>>

\* d[0] without OWN: the descriptor is handed to the controller.
Kick(a) ==
  /\ pc[a] = "kick"
  /\ own' = [own EXCEPT ![at[a]] = 0]
  /\ Goto(a, "advance", at[a], fr[a])
  /\ UNCHANGED <<desc, tx_skb, tx_idx, tx_clean, stopped, device, status, frees, sent, shared>>

\* tx_idx moves, TX_RING_PTR is written; mts_tx_reclaim begins with tx_clean.
XmitAdvance ==
  /\ pc["xmit"] = "advance"
  /\ tx_idx' = NextSlot(at["xmit"])
  /\ Goto("xmit", "scan", tx_clean, NoFrame)
  /\ UNCHANGED <<own, desc, tx_skb, tx_clean, stopped, device, status, frees, sent, shared>>

\* The last test of mts_start_xmit: stop the queue when the next descriptor is
\* not free.  It is not repeated after the queue has stopped.
XmitStopCheck ==
  /\ pc["xmit"] = "stopcheck"
  /\ stopped' = (stopped \/ own[tx_idx] = 0)
  /\ Return("xmit")
  /\ UNCHANGED <<own, desc, tx_skb, tx_idx, tx_clean, device, status, frees, sent, shared>>

-----------------------------------------------------------------------------
(* mts_tx_reclaim, run by xmit and by napi *)

Reclaimers == {"xmit", "napi"}

\* mts_poll with enable_tx.  napi_disable in mts_stop keeps it out while down.
PollReclaim ==
  /\ pc["napi"] = "idle"
  /\ up /\ enable_tx
  /\ Goto("napi", "scan", tx_clean, NoFrame)
  /\ UNCHANGED <<own, desc, tx_skb, tx_idx, tx_clean, stopped, device, status, frees, sent, shared>>

\* The loop's two tests and the load of tx_skb[clean].
ReclaimScan(a) ==
  /\ pc[a] = "scan"
  /\ \/ /\ at[a] = tx_idx \/ own[at[a]] = 1
        /\ Goto(a, "finish", at[a], NoFrame)
        /\ UNCHANGED shared
     \/ /\ at[a] # tx_idx /\ own[at[a]] = 0
        /\ Goto(a, IF tx_skb[at[a]] = NoFrame THEN "restore" ELSE "release",
                at[a], tx_skb[at[a]])
        /\ shared' = Taken(a, tx_skb[at[a]])
  /\ UNCHANGED <<own, desc, tx_skb, tx_idx, tx_clean, stopped, device, status, frees, sent>>

\* The skb is counted, unmapped and released.
ReclaimRelease(a) ==
  /\ pc[a] = "release"
  /\ Free(fr[a], "done")
  /\ Goto(a, "clear", at[a], fr[a])
  /\ UNCHANGED <<own, desc, tx_skb, tx_idx, tx_clean, stopped, device, sent, shared>>

\* Mutant: tx_skb[clean] is not cleared after the skb is released.
ReclaimClearSkipped(a) ==
  /\ pc[a] = "clear"
  /\ Goto(a, "restore", at[a], NoFrame)
  /\ UNCHANGED <<own, desc, tx_skb, tx_idx, tx_clean, stopped, device, status, frees, sent, shared>>

\* The slot forgets the skb, whatever it holds by now.
ReclaimClear(a) ==
  /\ pc[a] = "clear"
  /\ tx_skb' = [tx_skb EXCEPT ![at[a]] = NoFrame]
  /\ Goto(a, "restore", at[a], NoFrame)
  /\ UNCHANGED <<own, desc, tx_idx, tx_clean, stopped, device, status, frees, sent, shared>>

\* The descriptor goes back to the idle pattern and clean advances.
ReclaimRestore(a) ==
  /\ pc[a] = "restore"
  /\ own' = [own EXCEPT ![at[a]] = 1]
  /\ Goto(a, "scan", NextSlot(at[a]), NoFrame)
  /\ UNCHANGED <<desc, tx_skb, tx_idx, tx_clean, stopped, device, status, frees, sent, shared>>

\* tx_clean is published, if anything was reclaimed.
ReclaimFinish(a) ==
  /\ pc[a] = "finish"
  /\ tx_clean' = at[a]
  /\ Goto(a, IF at[a] # tx_clean THEN "wake" ELSE IF a = "xmit" THEN "stopcheck" ELSE "idle",
          0, NoFrame)
  /\ UNCHANGED <<own, desc, tx_skb, tx_idx, stopped, device, status, frees, sent, shared>>

\* A stopped queue is woken.
ReclaimWake(a) ==
  /\ pc[a] = "wake"
  /\ stopped' = FALSE
  /\ Goto(a, IF a = "xmit" THEN "stopcheck" ELSE "idle", 0, NoFrame)
  /\ UNCHANGED <<own, desc, tx_skb, tx_idx, tx_clean, device, status, frees, sent, shared>>

-----------------------------------------------------------------------------
(* mts_tx_drain_force: from the watchdog, and from mts_stop *)

\* dev_watchdog saw the queue stopped for watchdog_timeo, with carrier, and froze
\* it.  Slot 0 is read.
TxTimeout ==
  /\ pc["wd"] = "idle" /\ pc["xmit"] = "idle"
  /\ up /\ stopped /\ carrier
  /\ Goto("wd", "drain", 0, tx_skb[0])
  /\ shared' = Taken("wd", tx_skb[0])
  /\ UNCHANGED <<own, desc, tx_skb, tx_idx, tx_clean, stopped, device, status, frees, sent>>

\* The loop goes on with the next slot; after the last one tx_idx is reset.
DrainNext ==
  IF at["wd"] = N - 1
    THEN /\ tx_idx' = 0
         /\ Goto("wd", "reset", 0, NoFrame)
         /\ UNCHANGED shared
    ELSE /\ Goto("wd", "drain", at["wd"] + 1, tx_skb[at["wd"] + 1])
         /\ shared' = Taken("wd", tx_skb[at["wd"] + 1])
         /\ UNCHANGED tx_idx

\* The skb read from the slot is unmapped and released; an empty slot is skipped.
DrainRelease ==
  /\ pc["wd"] = "drain"
  /\ \/ /\ fr["wd"] # NoFrame
        /\ Free(fr["wd"], "dropped")
        /\ Goto("wd", "wipe", at["wd"], fr["wd"])
        /\ UNCHANGED <<tx_idx, shared>>
     \/ /\ fr["wd"] = NoFrame
        /\ DrainNext
        /\ UNCHANGED <<status, frees>>
  /\ UNCHANGED <<own, desc, tx_skb, tx_clean, stopped, device, sent>>

\* Mutant: the drained slot keeps its pointer to the released skb.
DrainWipeSkipped ==
  /\ pc["wd"] = "wipe"
  /\ DrainNext
  /\ UNCHANGED <<own, desc, tx_skb, tx_clean, stopped, device, status, frees, sent>>

\* The slot is cleared.
DrainWipe ==
  /\ pc["wd"] = "wipe"
  /\ tx_skb' = [tx_skb EXCEPT ![at["wd"]] = NoFrame]
  /\ DrainNext
  /\ UNCHANGED <<own, desc, tx_clean, stopped, device, status, frees, sent>>

\* Mutant: mts_tx_timeout drains the ring but does not wake the queue.
DrainResetNoWake ==
  /\ pc["wd"] = "reset"
  /\ tx_clean' = 0
  /\ Return("wd")
  /\ UNCHANGED <<own, desc, tx_skb, tx_idx, stopped, device, status, frees, sent, shared>>

\* tx_clean is reset and the queue woken; no descriptor has been touched.
DrainReset ==
  /\ pc["wd"] = "reset"
  /\ tx_clean' = 0
  /\ stopped' = FALSE
  /\ Return("wd")
  /\ UNCHANGED <<own, desc, tx_skb, tx_idx, device, status, frees, sent, shared>>

\* mts_stop: the core has deactivated the queue, the poll timer is deleted and
\* NAPI disabled before mts_mac_stop drains the ring.
IfDown ==
  /\ up /\ \A a \in Softirqs : pc[a] = "idle"
  /\ up' = FALSE
  /\ LET held == {tx_skb[i] : i \in Slots} \ {NoFrame}
     IN  /\ status' = [f \in Frames |-> IF f \in held THEN "dropped" ELSE status[f]]
         /\ frees' = [f \in Frames |-> IF f \in held THEN frees[f] + 1 ELSE frees[f]]
  /\ tx_skb' = [i \in Slots |-> NoFrame]
  /\ tx_idx' = 0 /\ tx_clean' = 0
  /\ UNCHANGED <<own, desc, stopped, carrier, enable_tx, pc, at, fr, sent, shared>>

\* mts_open reads the module parameter again, turns the carrier off and starts the
\* queue if transmission is enabled; it neither rebuilds nor reprograms the ring.
IfUp ==
  /\ ~up /\ up' = TRUE
  /\ enable_tx' \in BOOLEAN
  /\ carrier' = FALSE
  /\ stopped' = (stopped /\ ~enable_tx')
  /\ UNCHANGED <<own, desc, tx_skb, tx_idx, tx_clean, pc, at, fr, status, frees, sent, shared>>

\* mts_link_check, in mts_poll, reports the carrier the register shows; the
\* trigger_phy_trigger store turns it on at any time.  MtsLink has the details.
LinkCheck ==
  /\ carrier => up
  /\ carrier' = ~carrier
  /\ UNCHANGED <<own, desc, tx_skb, tx_idx, tx_clean, stopped, up, enable_tx, pc, at, fr,
                 status, frees, sent, shared>>

-----------------------------------------------------------------------------
(* mts_send_test_frame and mts_send_rmu_frame *)

\* tx_idx is read, its OWN bit tested and the buffer allocated and mapped.
SysfsSend(f) ==
  /\ pc["sysfs"] = "idle"
  /\ f \in Raw /\ status[f] = "stack"
  /\ own[tx_idx] = 1
  /\ status' = [status EXCEPT ![f] = "driver"]
  /\ Goto("sysfs", "fill", tx_idx, f)
  /\ UNCHANGED <<own, desc, tx_skb, tx_idx, tx_clean, stopped, device, frees, sent, shared>>

\* Only the descriptor is written: tx_skb[idx] is left as it is.
SysfsFill ==
  /\ pc["sysfs"] = "fill"
  /\ desc' = [desc EXCEPT ![at["sysfs"]] = fr["sysfs"]]
  /\ Goto("sysfs", "kick", at["sysfs"], fr["sysfs"])
  /\ UNCHANGED <<own, tx_skb, tx_idx, tx_clean, stopped, device, status, frees, sent, shared>>

SysfsAdvance ==
  /\ pc["sysfs"] = "advance"
  /\ tx_idx' = NextSlot(at["sysfs"])
  /\ Goto("sysfs", "sleep", at["sysfs"], fr["sysfs"])
  /\ UNCHANGED <<own, desc, tx_skb, tx_clean, stopped, device, status, frees, sent, shared>>

\* After msleep a test frame is unmapped and freed, whether or not the controller
\* is done with it; an RMU frame is never freed, its OWN bit only logged.
SysfsWake ==
  /\ pc["sysfs"] = "sleep"
  /\ \/ Free(fr["sysfs"], "dropped")
     \/ UNCHANGED <<status, frees>>
  /\ Return("sysfs")
  /\ UNCHANGED <<own, desc, tx_skb, tx_idx, tx_clean, stopped, device, sent, shared>>

-----------------------------------------------------------------------------
\* The controller sends a descriptor it owns and gives it back.
HwSend(i) ==
  /\ own[i] = 0
  /\ own' = [own EXCEPT ![i] = 1]
  /\ sent' = sent \cup ({desc[i]} \cap Skbs)
  /\ UNCHANGED <<desc, tx_skb, tx_idx, tx_clean, stopped, device, pc, at, fr, status, frees, shared>>

Xmit ==
  \/ \E s \in Skbs : CallXmit(s)
  \/ XmitDrop \/ XmitBusy \/ XmitAccept
  \/ XmitFill \/ XmitAdvance \/ XmitStopCheck

Reclaim(a) ==
  \/ ReclaimScan(a) \/ ReclaimRelease(a) \/ ReclaimClear(a)
  \/ ReclaimRestore(a) \/ ReclaimFinish(a) \/ ReclaimWake(a)

Drain == DrainRelease \/ DrainWipe \/ DrainReset

Sysfs == (\E f \in Raw : SysfsSend(f)) \/ SysfsFill \/ SysfsAdvance \/ SysfsWake

Next ==
  \/ Xmit
  \/ \E a \in {"xmit", "sysfs"} : Kick(a)
  \/ PollReclaim \/ \E a \in Reclaimers : Reclaim(a)
  \/ TxTimeout \/ Drain
  \/ IfDown \/ IfUp \/ LinkCheck
  \/ Sysfs
  \/ \E i \in Slots : HwSend(i)

Spec == Init /\ [][Next]_vars

\* A softirq that has begun goes on, each on its own CPU, and dev_watchdog is
\* re-armed for as long as the interface is up: it finds a queue that stays
\* stopped while the carrier stays on.
XmitStep ==
  \/ XmitDrop \/ XmitBusy \/ XmitAccept \/ XmitFill \/ Kick("xmit")
  \/ XmitAdvance \/ XmitStopCheck \/ Reclaim("xmit")

Fairness ==
  /\ WF_vars(XmitStep) /\ WF_vars(Reclaim("napi"))
  /\ WF_vars(TxTimeout) /\ WF_vars(Drain)

FairSpec == Spec /\ Fairness

-----------------------------------------------------------------------------
\* Every variable has its type.
TypeOK ==
  /\ own \in [Slots -> {0, 1}]
  /\ desc \in [Slots -> Frames \cup {NoFrame}]
  /\ tx_skb \in [Slots -> Skbs \cup {NoFrame}]
  /\ tx_idx \in Slots /\ tx_clean \in Slots
  /\ stopped \in BOOLEAN /\ carrier \in BOOLEAN
  /\ up \in BOOLEAN /\ enable_tx \in BOOLEAN
  /\ pc \in [Actors -> Labels]
  /\ at \in [Actors -> Slots]
  /\ fr \in [Actors -> Frames \cup {NoFrame}]
  /\ status \in [Frames -> Statuses]
  /\ frees \in [Frames -> Nat]
  /\ sent \subseteq Skbs
  /\ shared \subseteq Skbs

\* A buffer goes back to its allocator twice only if one of mts_tx_reclaim in
\* mts_start_xmit, mts_tx_reclaim in mts_poll and the watchdog's drain read it
\* from its slot while another of them, on another CPU, was releasing it.  Nothing
\* else frees a buffer twice: not a lap over slots reclaim never passed, not the
\* indices reset under a reclaim, not mts_stop, not the sysfs senders.
DoubleFreeNeedsTwoReaders == \A f \in Frames : frees[f] > 1 => f \in shared

\* Actor a has released the buffer of slot i and is about to clear the slot.
Clearing(a, i) ==
  /\ pc[a] \in {"clear", "wipe"}
  /\ at[a] = i
  /\ fr[a] = tx_skb[i]

\* Even while reclaims on two CPUs and the watchdog overlap, a slot of mp->tx_skb
\* never refers to a released socket buffer for longer than the actor that
\* released it takes to clear it, and no two slots share one, although tx_idx may
\* lap slots that mts_tx_reclaim never cleared.
SlotsHoldLiveSkbs ==
  \A i \in Slots : tx_skb[i] # NoFrame =>
    /\ \/ status[tx_skb[i]] = "driver" /\ frees[tx_skb[i]] = 0
       \/ \E a \in Softirqs : Clearing(a, i)
    /\ \A j \in Slots : tx_skb[j] = tx_skb[i] => i = j

\* The inductive strengthening of the two properties above: a buffer has been
\* freed exactly when its status says so; the buffer start_xmit has in hand is in
\* no slot; the buffer a releaser has in hand is in no slot but the one it stands
\* at, is freed already only if it has been shared, and has another holder only if
\* it has been shared; the sysfs sender's buffer is its own.
FreedByStatus == \A f \in Frames : (frees[f] = 0) <=> (status[f] \in {"stack", "driver"})

\* xmit has not yet put its buffer into a slot.
Filling == pc["xmit"] \in {"check", "fill"}
\* a has read a buffer from a slot and not yet released it; or not yet cleared the slot.
Releasing(a) == pc[a] = "release" \/ (pc[a] = "drain" /\ fr[a] # NoFrame)
Holding(a) == Releasing(a) \/ pc[a] \in {"clear", "wipe"}

XmitHand ==
  Filling =>
    /\ fr["xmit"] \in Skbs
    /\ status[fr["xmit"]] = IF pc["xmit"] = "check" THEN "stack" ELSE "driver"
    /\ \A i \in Slots : tx_skb[i] # fr["xmit"]
    /\ \A a \in Softirqs \ {"xmit"} : fr[a] # fr["xmit"]

ReleaserHand ==
  \A a \in Softirqs :
    /\ Holding(a) =>
         /\ fr[a] \in Skbs
         /\ status[fr[a]] # "stack"
         /\ \A i \in Slots : tx_skb[i] = fr[a] => i = at[a]
         /\ \A b \in Softirqs \ {a} : fr[b] = fr[a] => fr[a] \in shared
    /\ Releasing(a) => frees[fr[a]] = 0 \/ fr[a] \in shared
    /\ ~Holding(a) /\ ~(a = "xmit" /\ Filling) => fr[a] = NoFrame

SysfsHand == pc["sysfs"] # "idle" => fr["sysfs"] \in Raw /\ status[fr["sysfs"]] = "driver"

Unaccepted == \A i \in Slots : tx_skb[i] # NoFrame => status[tx_skb[i]] # "stack"

LabelsOf ==
  /\ pc["xmit"] \in Labels \ {"drain", "wipe", "reset", "sleep"}
  /\ pc["napi"] \in {"idle", "scan", "release", "clear", "restore", "finish", "wake"}
  /\ pc["wd"] \in {"idle", "drain", "wipe", "reset"}
  /\ pc["sysfs"] \in {"idle", "fill", "kick", "advance", "sleep"}

OwnershipInv ==
  /\ TypeOK /\ LabelsOf
  /\ DoubleFreeNeedsTwoReaders /\ SlotsHoldLiveSkbs
  /\ FreedByStatus /\ Unaccepted
  /\ XmitHand /\ ReleaserHand /\ SysfsHand

\* What plano-mts-tx-rx-carrier-2026-07-23.md:109 says of mts_tx_reclaim: it
\* counts and releases a socket buffer once its transmission is over.
ReclaimedAfterSent == \A s \in Skbs : status[s] = "done" => s \in sent

\* A queue that mts_start_xmit stopped does not stay stopped while the interface
\* is up and the carrier on: reclaim or, when reclaim makes no progress, the
\* watchdog wakes it.  Without carrier dev_watchdog does not look at the queue.
StoppedQueueRecovers == (up /\ stopped /\ carrier) ~> (~up \/ ~stopped \/ ~carrier)
=============================================================================
