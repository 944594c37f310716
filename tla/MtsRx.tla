------------------------------- MODULE MtsRx -------------------------------
(***************************************************************************)
(* The receive path of the Baikal GBE driver (drivers_mts/mts.c): the ring *)
(* the controller fills and mts_rx_clean empties.  mts_rx_clean is called  *)
(* by mts_poll, which the poll timer schedules, and, without any exclusion,*)
(* by the sysfs stores trigger_rx_clean and trigger_loopback.  mp->rx_idx  *)
(* is read again at every use, so each use is a step of its own.           *)
(*                                                                         *)
(* The source describes the controller in two ways at odds with each       *)
(* other.  mts.c:497-501 says that it owns a receive descriptor with OWN   *)
(* clear, mts.c:523, 1645 and 1671 that it fills one with OWN set;         *)
(* mts.c:537-540 calls MTS_RX_RING_PTR its current pointer, mts.c:1682 a   *)
(* tail index.  The model takes every combination.                         *)
(*                                                                         *)
(* A frame is the number of its arrival; its bytes are not told apart, its *)
(* length only as possible or impossible.                                  *)
(***************************************************************************)
EXTENDS Naturals, Sequences, FiniteSets

CONSTANTS
  N,           \* MTS_RING_SIZE
  Budget,      \* the most descriptors one call of mts_rx_clean handles
  Consumers,   \* who calls mts_rx_clean: "napi", "sysfs"
  Controllers, \* the readings of the controller: see ControllerKinds
  BadFrames,   \* the frames whose length is 0 or above MTS_RX_BUF_SIZE
  MaxFrames    \* bound: how many frames arrive

ASSUME RxNAssumption == N \in Nat /\ N > 1
ASSUME RxBudgetAssumption == Budget \in Nat /\ Budget > 0
ASSUME RxConsumersAssumption == Consumers \subseteq {"napi", "sysfs"}

\* own: the OWN bit of a descriptor the controller may fill; ptr: whether it only
\* takes MTS_RX_RING_PTR for a hint or fetches the descriptor it points to.
ControllerKinds == [own : {0, 1}, ptr : {"tail", "current"}]

ASSUME RxHwAssumption ==
  Controllers \subseteq ControllerKinds /\ BadFrames \subseteq Nat /\ MaxFrames \in Nat

VARIABLES
  own,      \* bit 31 of d[0] of every descriptor
  wrap,     \* bit 30 of d[0] of every descriptor: the ring ends here
  buf,      \* the frame in the buffer of every descriptor, 0 for none
  rx_idx,   \* mp->rx_idx
  rx_ptr,   \* MTS_RX_RING_PTR: <<"addr", i>> is the address of descriptor i
  hw_idx,   \* the descriptor the controller looks at
  arrived,  \* how many frames the controller has stored
  sched,    \* NAPI: "off", "on" or "missed" (scheduled again while it was on)
  pc,       \* where every consumer is
  at,       \* the descriptor d of every consumer
  ctl,      \* whether the length every consumer read in d[0] is possible
  cleaned,  \* the local counter of every consumer
  log,      \* what became of the frames
  ctrl,     \* the controller this machine has
  shared    \* history: a call took a descriptor while another was handling one

vars == <<own, wrap, buf, rx_idx, rx_ptr, hw_idx, arrived, sched, pc, at, ctl, cleaned, log,
          ctrl, shared>>

Slots == 0 .. N - 1
NextSlot(i) == IF i = N - 1 THEN 0 ELSE i + 1

\* Mutant: mts_setup_rings clears OWN, as the comment above it says.
InitByComment ==
  /\ own = [i \in Slots |-> 0]
  /\ wrap = [i \in Slots |-> i = N - 1]
  /\ buf = [i \in Slots |-> 0]
  /\ rx_idx = 0 /\ hw_idx = 0
  /\ rx_ptr = <<"addr", 0>>
  /\ arrived = 0
  /\ sched = "off"
  /\ pc = [c \in Consumers |-> "idle"]
  /\ at = [c \in Consumers |-> 0]
  /\ ctl = [c \in Consumers |-> TRUE]
  /\ cleaned = [c \in Consumers |-> 0]
  /\ log = << >>
  /\ ctrl \in Controllers
  /\ shared = FALSE

\* mts_setup_rings (OWN = 1 everywhere, WRAP on the last) and mts_program_rings.
Init ==
  /\ own = [i \in Slots |-> 1]
  /\ wrap = [i \in Slots |-> i = N - 1]
  /\ buf = [i \in Slots |-> 0]
  /\ rx_idx = 0 /\ hw_idx = 0
  /\ rx_ptr = <<"addr", 0>>
  /\ arrived = 0
  /\ sched = "off"
  /\ pc = [c \in Consumers |-> "idle"]
  /\ at = [c \in Consumers |-> 0]
  /\ ctl = [c \in Consumers |-> TRUE]
  /\ cleaned = [c \in Consumers |-> 0]
  /\ log = << >>
  /\ ctrl \in Controllers
  /\ shared = FALSE

-----------------------------------------------------------------------------
\* The controller stores a frame in the descriptor it looks at, if that one is
\* its own and, when it fetches by the pointer register, if that points to it, and
\* moves on as the WRAP bit says.
HwReceive ==
  /\ arrived < MaxFrames /\ hw_idx \in Slots
  /\ own[hw_idx] = ctrl.own
  /\ ctrl.ptr = "current" => rx_ptr = <<"addr", hw_idx>>
  /\ arrived' = arrived + 1
  /\ buf' = [buf EXCEPT ![hw_idx] = arrived + 1]
  /\ own' = [own EXCEPT ![hw_idx] = 1 - ctrl.own]
  /\ hw_idx' = IF wrap[hw_idx] THEN 0 ELSE hw_idx + 1
  /\ rx_ptr' = <<"addr", hw_idx'>>
  /\ UNCHANGED <<wrap, rx_idx, sched, pc, at, ctl, cleaned, log, ctrl, shared>>

\* mts_poll_timer: napi_schedule, and the timer is armed again.
PollTimer ==
  /\ "napi" \in Consumers
  /\ sched' = IF sched = "off" THEN "on" ELSE "missed"
  /\ UNCHANGED <<own, wrap, buf, rx_idx, rx_ptr, hw_idx, arrived, pc, at, ctl, cleaned, log, ctrl, shared>>

\* mts_rx_clean is entered: by mts_poll, or by a sysfs store.
CleanEnter(c) ==
  /\ pc[c] = "idle"
  /\ c = "napi" => sched # "off"
  /\ pc' = [pc EXCEPT ![c] = "top"]
  /\ UNCHANGED <<own, wrap, buf, rx_idx, rx_ptr, hw_idx, arrived, sched, at, ctl, cleaned, log, ctrl, shared>>

\* A call that has read d and ctl and not yet advanced rx_idx is in a turn.
InTurn(c) == pc[c] \in {"copy", "give", "advance"}

\* Mutant: a frame with a bad length ends the loop instead of being counted.
CleanTopStopsAtBad(c) ==
  /\ pc[c] = "top"
  /\ \/ /\ cleaned[c] < Budget /\ own[rx_idx] = 0 /\ buf[rx_idx] \notin BadFrames
        /\ pc' = [pc EXCEPT ![c] = "copy"]
        /\ at' = [at EXCEPT ![c] = rx_idx]
        /\ shared' = (shared \/ \E b \in Consumers : InTurn(b))
        /\ UNCHANGED ctl
     \/ /\ cleaned[c] = Budget \/ own[rx_idx] = 1 \/ buf[rx_idx] \in BadFrames
        /\ pc' = [pc EXCEPT ![c] = "exit"]
        /\ UNCHANGED <<at, ctl, shared>>
  /\ UNCHANGED <<own, wrap, buf, rx_idx, rx_ptr, hw_idx, arrived, sched, cleaned, log, ctrl>>

\* Mutant: the descriptor goes back to the controller before its buffer is copied.
CleanTopGivesEarly(c) ==
  /\ pc[c] = "top"
  /\ \/ /\ cleaned[c] < Budget /\ own[rx_idx] = 0
        /\ pc' = [pc EXCEPT ![c] = "copy"]
        /\ at' = [at EXCEPT ![c] = rx_idx]
        /\ shared' = (shared \/ \E b \in Consumers : InTurn(b))
        /\ ctl' = [ctl EXCEPT ![c] = buf[rx_idx] \notin BadFrames]
        /\ own' = [own EXCEPT ![rx_idx] = 1]
     \/ /\ cleaned[c] = Budget \/ own[rx_idx] = 1
        /\ pc' = [pc EXCEPT ![c] = "exit"]
        /\ UNCHANGED <<at, ctl, own, shared>>
  /\ UNCHANGED <<wrap, buf, rx_idx, rx_ptr, hw_idx, arrived, sched, cleaned, log, ctrl>>

\* The top of the loop: the budget, d from rx_idx, and ctl from d[0].
CleanTop(c) ==
  /\ pc[c] = "top"
  /\ \/ /\ cleaned[c] < Budget /\ own[rx_idx] = 0
        /\ pc' = [pc EXCEPT ![c] = "copy"]
        /\ at' = [at EXCEPT ![c] = rx_idx]
        /\ shared' = (shared \/ \E b \in Consumers : InTurn(b))
        /\ ctl' = [ctl EXCEPT ![c] = buf[rx_idx] \notin BadFrames]
     \/ /\ cleaned[c] = Budget \/ own[rx_idx] = 1
        /\ pc' = [pc EXCEPT ![c] = "exit"]
        /\ UNCHANGED <<at, ctl, shared>>
  /\ UNCHANGED <<own, wrap, buf, rx_idx, rx_ptr, hw_idx, arrived, sched, cleaned, log, ctrl>>

\* Mutant: the length is not checked before the frame is handed up.
CleanCopyNoLengthCheck(c) ==
  /\ pc[c] = "copy"
  /\ \E o \in {"up", "dropped"} : log' = Append(log, [id |-> buf[rx_idx], out |-> o])
  /\ pc' = [pc EXCEPT ![c] = "give"]
  /\ UNCHANGED <<own, wrap, buf, rx_idx, rx_ptr, hw_idx, arrived, sched, at, ctl, cleaned, ctrl, shared>>

\* The buffer of the descriptor at rx_idx, read again, is copied into an skb
\* and handed up; without memory it is dropped, and with a bad length in ctl it
\* is an error.
CleanCopy(c) ==
  /\ pc[c] = "copy"
  /\ \E o \in IF ctl[c] THEN {"up", "dropped"} ELSE {"error"} :
       log' = Append(log, [id |-> buf[rx_idx], out |-> o])
  /\ pc' = [pc EXCEPT ![c] = "give"]
  /\ UNCHANGED <<own, wrap, buf, rx_idx, rx_ptr, hw_idx, arrived, sched, at, ctl, cleaned, ctrl, shared>>

\* Mutant: the last descriptor loses its WRAP bit when it is given back.
CleanGiveNoWrap(c) ==
  /\ pc[c] = "give"
  /\ own' = [own EXCEPT ![at[c]] = 1]
  /\ wrap' = [wrap EXCEPT ![at[c]] = FALSE]
  /\ pc' = [pc EXCEPT ![c] = "advance"]
  /\ UNCHANGED <<buf, rx_idx, rx_ptr, hw_idx, arrived, sched, at, ctl, cleaned, log, ctrl, shared>>

\* d[0] is rewritten: OWN, and WRAP if rx_idx, read again, is the last one.
CleanGive(c) ==
  /\ pc[c] = "give"
  /\ own' = [own EXCEPT ![at[c]] = 1]
  /\ wrap' = [wrap EXCEPT ![at[c]] = (rx_idx = N - 1)]
  /\ pc' = [pc EXCEPT ![c] = "advance"]
  /\ UNCHANGED <<buf, rx_idx, rx_ptr, hw_idx, arrived, sched, at, ctl, cleaned, log, ctrl, shared>>

\* Mutant: the index is not masked with MTS_RING_SIZE - 1.
CleanAdvanceNoMask(c) ==
  /\ pc[c] = "advance"
  /\ rx_idx' = rx_idx + 1
  /\ cleaned' = [cleaned EXCEPT ![c] = @ + 1]
  /\ pc' = [pc EXCEPT ![c] = "top"]
  /\ UNCHANGED <<own, wrap, buf, rx_ptr, hw_idx, arrived, sched, at, ctl, log, ctrl, shared>>

\* Mutant: the last descriptor is skipped when the index wraps.
CleanAdvanceSkipsLast(c) ==
  /\ pc[c] = "advance"
  /\ rx_idx' = IF rx_idx >= N - 2 THEN 0 ELSE rx_idx + 1
  /\ cleaned' = [cleaned EXCEPT ![c] = @ + 1]
  /\ pc' = [pc EXCEPT ![c] = "top"]
  /\ UNCHANGED <<own, wrap, buf, rx_ptr, hw_idx, arrived, sched, at, ctl, log, ctrl, shared>>

CleanAdvance(c) ==
  /\ pc[c] = "advance"
  /\ rx_idx' = NextSlot(rx_idx)
  /\ cleaned' = [cleaned EXCEPT ![c] = @ + 1]
  /\ pc' = [pc EXCEPT ![c] = "top"]
  /\ UNCHANGED <<own, wrap, buf, rx_ptr, hw_idx, arrived, sched, at, ctl, log, ctrl, shared>>

\* The index is written to MTS_RX_RING_PTR if anything was cleaned.  mts_poll
\* completes NAPI unless the budget was used up or it was scheduled meanwhile.
CleanExit(c) ==
  /\ pc[c] = "exit"
  /\ rx_ptr' = IF cleaned[c] > 0 THEN <<"index", rx_idx>> ELSE rx_ptr
  /\ sched' = CASE c # "napi" \/ cleaned[c] = Budget -> sched
              []   OTHER -> IF sched = "missed" THEN "on" ELSE "off"
  /\ pc' = [pc EXCEPT ![c] = "idle"]
  /\ at' = [at EXCEPT ![c] = 0]
  /\ ctl' = [ctl EXCEPT ![c] = TRUE]
  /\ cleaned' = [cleaned EXCEPT ![c] = 0]
  /\ UNCHANGED <<own, wrap, buf, rx_idx, hw_idx, arrived, log, ctrl, shared>>

CleanGoesOn(c) ==
  CleanTop(c) \/ CleanCopy(c) \/ CleanGive(c) \/ CleanAdvance(c) \/ CleanExit(c)

Clean(c) == CleanEnter(c) \/ CleanGoesOn(c)

Next == HwReceive \/ PollTimer \/ \E c \in Consumers : Clean(c)

Spec == Init /\ [][Next]_vars

\* The poll timer re-arms itself for as long as the interface is up, a scheduled
\* poll runs, and a call of mts_rx_clean that has begun goes on.
Fairness ==
  /\ WF_vars(PollTimer) /\ WF_vars(Clean("napi"))
  /\ \A c \in Consumers : WF_vars(CleanGoesOn(c))

FairSpec == Spec /\ Fairness

-----------------------------------------------------------------------------
TypeOK ==
  /\ own \in [Slots -> {0, 1}]
  /\ wrap \in [Slots -> BOOLEAN]
  /\ buf \in [Slots -> Nat]
  /\ rx_idx \in Slots /\ hw_idx \in Slots
  /\ rx_ptr \in {"addr", "index"} \X Slots
  /\ arrived \in Nat
  /\ sched \in {"off", "on", "missed"}
  /\ pc \in [Consumers -> {"idle", "top", "copy", "give", "advance", "exit"}]
  /\ at \in [Consumers -> Slots]
  /\ ctl \in [Consumers -> BOOLEAN]
  /\ cleaned \in [Consumers -> 0 .. Budget]
  /\ log \in Seq([id : Nat, out : {"up", "dropped", "error"}])
  /\ ctrl \in ControllerKinds

InOrder ==
  \A k \in 1 .. Len(log) :
    /\ log[k].id = k
    /\ log[k].out = "error" <=> k \in BadFrames

\* NAPI and the sysfs stores between them dispose of every frame the controller
\* stored exactly once and in the order of arrival, and count as errors exactly those
\* whose length is impossible, although mp->rx_idx is read again after each test and
\* calls overlap.  The one exception is a descriptor taken by two calls at once.
DeliveredInOrder == shared \/ InOrder

WrapOnLast == \A i \in Slots : wrap[i] <=> i = N - 1

\* Until two calls of mts_rx_clean handle a descriptor at once, the WRAP bit stays on
\* the last descriptor and only there, so the controller never runs past the ring,
\* although mts_rx_clean rebuilds the bit each time.
RingClosed == shared \/ WrapOnLast

\* Until two calls of mts_rx_clean handle a descriptor at once, a stored frame that
\* has not been disposed of is still in the ring: giving a descriptor back never lets
\* the controller overwrite a frame not yet copied.
NoFrameLost ==
  shared \/ \A k \in Len(log) + 1 .. arrived : \E i \in Slots : own[i] = 0 /\ buf[i] = k

\* Which reading of the controller lets the driver receive at all.  One that owns
\* descriptors with OWN clear (mts.c:497-501) is never given any by mts_setup_rings
\* and mts_rx_clean; one that fetches by MTS_RX_RING_PTR (mts.c:537-540) stops at the
\* index the first useful call of mts_rx_clean writes there, after at most a ring of
\* frames and what the calls under way took.
ReceivesAsRead ==
  shared \/ /\ ctrl.own = 0 => arrived = 0
            /\ ctrl.ptr = "current" => arrived <= N + 2 * Budget

\* The receive path implements RxFifo until two calls handle a descriptor at once: the
\* waiting frames are those found in the ring from rx_idx on.  Between copy and the
\* end of the turn the descriptor at rx_idx no longer counts.
HeadSlot ==
  IF \E c \in Consumers : pc[c] \in {"give", "advance"} THEN NextSlot(rx_idx) ELSE rx_idx

Live ==
  {i \in Slots : own[i] = 0 /\ ~ \E c \in Consumers : pc[c] = "give" /\ at[c] = i}

\* The descriptor k places after the first one, less than two rounds of the ring away.
Ring(k) == IF k < N THEN k ELSE k - N

Waiting == [j \in 1 .. Cardinality(Live) |-> buf[Ring(HeadSlot + j - 1)]]

Fifo == INSTANCE RxFifo WITH queue <- Waiting

ImplementsFifo == Fifo!Init /\ [][Fifo!Next \/ shared']_<<arrived, Waiting, log>>

\* The inductive strengthening behind the properties above while no descriptor was
\* shared: at most one call is in a turn; the live descriptors hold the frames after
\* the last one disposed of, each followed in the ring by the next one, the newest
\* followed by the descriptor the controller looks at.
Sole == \A b, c \in Consumers : InTurn(b) /\ InTurn(c) => b = c

TurnInv ==
  \A c \in Consumers :
    /\ InTurn(c) => at[c] = rx_idx /\ cleaned[c] < Budget
    /\ pc[c] \in {"copy", "give"} => own[rx_idx] = 0
    /\ pc[c] = "copy" => (ctl[c] <=> buf[rx_idx] \notin BadFrames)
    /\ pc[c] = "idle" => cleaned[c] = 0

ChainInv ==
  /\ Len(log) <= arrived
  /\ \A i \in Live : buf[i] \in Len(log) + 1 .. arrived
  /\ \A i, j \in Live : buf[i] = buf[j] => i = j
  /\ \A i \in Live : buf[i] < arrived =>
       NextSlot(i) \in Live /\ buf[NextSlot(i)] = buf[i] + 1
  /\ \A i \in Live : buf[i] = arrived => hw_idx = NextSlot(i)
  /\ Len(log) < arrived => HeadSlot \in Live /\ buf[HeadSlot] = Len(log) + 1
  /\ Len(log) = arrived => hw_idx = HeadSlot
  /\ \A k \in Len(log) + 1 .. arrived : \E i \in Live : buf[i] = k

\* Counted from HeadSlot on, the j-th live descriptor holds the j-th waiting frame,
\* and the controller looks at the descriptor after the last of them.
WindowInv ==
  /\ arrived <= Len(log) + N
  /\ hw_idx = Ring(HeadSlot + (arrived - Len(log)))
  /\ \A j \in 1 .. arrived - Len(log) :
       Ring(HeadSlot + j - 1) \in Live /\ buf[Ring(HeadSlot + j - 1)] = Len(log) + j

\* A controller that waits for OWN clear has got nothing.  One that fetches by the
\* pointer register has got at most a ring and two budgets: while the register still
\* holds an address, only the calls under way have disposed of frames.
Disposed(c) ==
  IF c \notin Consumers THEN 0
  ELSE IF pc[c] \in {"give", "advance"} THEN cleaned[c] + 1 ELSE cleaned[c]

CtrlInv ==
  /\ ctrl.own = 0 => arrived = 0 /\ \A i \in Slots : own[i] = 1
  /\ ctrl.ptr = "current" =>
       /\ arrived <= N + 2 * Budget
       /\ rx_ptr[1] = "addr" => Len(log) = Disposed("napi") + Disposed("sysfs")

RingInv ==
  TypeOK /\ Sole /\ WrapOnLast /\ InOrder /\ TurnInv /\ ChainInv /\ WindowInv /\ CtrlInv

RxInv == shared \/ RingInv

\* Every frame the controller stores is eventually disposed of, by NAPI if not by a
\* sysfs store, unless two calls handle a descriptor at once.
EveryFrameDisposed ==
  \A k \in 1 .. MaxFrames : (arrived >= k) ~> (Len(log) >= k \/ shared)
=============================================================================
