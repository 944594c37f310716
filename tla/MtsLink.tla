------------------------------- MODULE MtsLink -------------------------------
(***************************************************************************)
(* Carrier detection of the Baikal GBE driver (drivers_mts/mts.c):         *)
(* mts_link_check, called by every NAPI poll, which reads BAR0[0x04] and   *)
(* turns the carrier on and off; mts_open and mts_stop; the module         *)
(* parameters that can be changed at any time; the sysfs store             *)
(* trigger_phy_trigger, which turns the carrier on by itself; and the      *)
(* interrupt storm guard of mts_interrupt, which switches detection off.   *)
(*                                                                         *)
(* Time is kept as ages, which stop counting once they are past the window.*)
(***************************************************************************)
EXTENDS Naturals, Sequences

CONSTANTS
  LinkVals,    \* the contents of BAR0[0x04]: records with fields up and mode
  Params,      \* the parameters somebody changes: "enable", "force"
  Others,      \* enable_rx or enable_tx: the poll timer runs anyway
  Window,      \* irq_storm_threshold_ms in jiffies
  MaxCount     \* irq_storm_max_count

None == [up |-> FALSE, mode |-> 0]  \* ~0U, the value mts_open puts in link_last_raw

ASSUME LinkAssumption ==
  /\ \A v \in LinkVals : v.up \in BOOLEAN /\ v.mode \in Nat \ {0}
  /\ LinkVals # {} /\ Others \in BOOLEAN /\ Params \subseteq {"enable", "force"}
  /\ Window \in Nat \ {0} /\ MaxCount \in Nat \ {0}

VARIABLES
  raw,             \* BAR0[0x04]
  par_carrier,     \* the module parameters enable_carrier
  force_carrier,   \*   and force_carrier
  opened,          \* the interface is up
  enable_carrier,  \* mp->enable_carrier
  polling,         \* mp->napi_enabled
  pc, val,         \* mts_link_check: "idle", or "apply" with the value read
  link_last_raw, link_up, link_mode,  \* mp->...; speed and duplex are one mode
  carrier,         \* netif_carrier_ok
  forced,          \* history: somebody forced the carrier since mts_open
  irq_on,          \* the interrupt line is enabled
  count, age,      \* mp->irq_window_count, jiffies - mp->irq_storm_jiffies
  recent           \* history: the ages of the last MaxCount + 1 interrupts

link == <<link_last_raw, link_up, link_mode>>
irq == <<irq_on, count, age, recent>>
vars == <<raw, par_carrier, force_carrier, opened, enable_carrier, polling, pc, val,
          link_last_raw, link_up, link_mode, carrier, forced, irq_on, count, age, recent>>

Older(t) == IF t > Window THEN t ELSE t + 1

\* The probe: mp is zeroed, the parameters have their defaults.
Init ==
  /\ raw \in LinkVals
  /\ par_carrier = TRUE /\ force_carrier = FALSE
  /\ opened = FALSE /\ enable_carrier = TRUE /\ polling = FALSE
  /\ pc = "idle" /\ val = None
  /\ link_last_raw = None /\ link_up = FALSE /\ link_mode = 0
  /\ carrier = FALSE /\ forced = FALSE
  /\ irq_on = TRUE /\ count = 0 /\ age = Window + 1 /\ recent = << >>

-----------------------------------------------------------------------------
HwLink ==
  /\ raw' \in LinkVals \ {raw}
  /\ UNCHANGED <<par_carrier, force_carrier, opened, enable_carrier, polling, pc, val, link,
                 carrier, forced, irq>>

SetEnableCarrier ==
  /\ "enable" \in Params
  /\ par_carrier' = ~par_carrier
  /\ UNCHANGED <<raw, force_carrier, opened, enable_carrier, polling, pc, val, link,
                 carrier, forced, irq>>

SetForceCarrier ==
  /\ "force" \in Params
  /\ force_carrier' = ~force_carrier
  /\ UNCHANGED <<raw, par_carrier, opened, enable_carrier, polling, pc, val, link,
                 carrier, forced, irq>>

\* Mutant: what is known of the link survives ifdown and ifup.
OpenKeepsLastRaw ==
  /\ ~opened
  /\ opened' = TRUE
  /\ enable_carrier' = par_carrier
  /\ polling' = (par_carrier \/ Others)
  /\ link_up' = FALSE
  /\ carrier' = FALSE /\ forced' = FALSE
  /\ UNCHANGED <<raw, par_carrier, force_carrier, pc, val, link_last_raw, link_mode, irq>>

\* mts_open reads the parameters again and forgets what it knew of the link.
Open ==
  /\ ~opened
  /\ opened' = TRUE
  /\ enable_carrier' = par_carrier
  /\ polling' = (par_carrier \/ Others)
  /\ link_last_raw' = None /\ link_up' = FALSE
  /\ carrier' = FALSE /\ forced' = FALSE
  /\ UNCHANGED <<raw, par_carrier, force_carrier, pc, val, link_mode, irq>>

\* mts_stop; napi_disable waits for the poll that runs.
Stop ==
  /\ opened /\ pc = "idle"
  /\ opened' = FALSE /\ polling' = FALSE
  /\ UNCHANGED <<raw, par_carrier, force_carrier, enable_carrier, pc, val, link, carrier, forced, irq>>

\* mts_poll, which the timer schedules: the read of mts_link_check.
PollRead ==
  /\ polling /\ pc = "idle" /\ enable_carrier
  /\ val' = raw /\ pc' = "apply"
  /\ UNCHANGED <<raw, par_carrier, force_carrier, opened, enable_carrier, polling, link,
                 carrier, forced, irq>>

\* Nothing happens when the value read is the last one.
LinkSame ==
  /\ pc = "apply" /\ val = link_last_raw
  /\ pc' = "idle" /\ val' = None
  /\ UNCHANGED <<raw, par_carrier, force_carrier, opened, enable_carrier, polling, link,
                 carrier, forced, irq>>

\* Mutant: the carrier is turned on when the link comes up and never off.
LinkChangeNoOff ==
  /\ pc = "apply" /\ val # link_last_raw
  /\ pc' = "idle" /\ val' = None
  /\ link_last_raw' = val
  /\ link_mode' = IF val.up THEN val.mode ELSE 0
  /\ link_up' = (force_carrier \/ val.up)
  /\ carrier' = (carrier \/ (link_up' /\ ~link_up))
  /\ forced' = (forced \/ force_carrier)
  /\ UNCHANGED <<raw, par_carrier, force_carrier, opened, enable_carrier, polling, irq>>

\* A new value: force_carrier turns the carrier on unless it believes it is on;
\* otherwise the carrier is switched when the link bit differs from link_up.
\* Speed and duplex are taken over in every case.
LinkChange ==
  /\ pc = "apply" /\ val # link_last_raw
  /\ pc' = "idle" /\ val' = None
  /\ link_last_raw' = val
  /\ link_mode' = IF val.up THEN val.mode ELSE 0
  /\ link_up' = (force_carrier \/ val.up)
  /\ carrier' = IF link_up' = link_up THEN carrier ELSE link_up'
  /\ forced' = (forced \/ force_carrier)
  /\ UNCHANGED <<raw, par_carrier, force_carrier, opened, enable_carrier, polling, irq>>

\* trigger_phy_trigger 5 to 8 and 11: netif_carrier_on, and nothing else of mp.
ForceCarrier ==
  /\ carrier' = TRUE /\ forced' = TRUE
  /\ UNCHANGED <<raw, par_carrier, force_carrier, opened, enable_carrier, polling, pc, val, link, irq>>

\* trigger_phy_trigger 9: the link bit of BAR0[0x04] is set as well.
ForceLinkBit ==
  /\ raw' \in {v \in LinkVals : v.up /\ v.mode = raw.mode}
  /\ carrier' = TRUE /\ forced' = TRUE
  /\ UNCHANGED <<par_carrier, force_carrier, opened, enable_carrier, polling, pc, val, link, irq>>

-----------------------------------------------------------------------------
Tick ==
  /\ irq_on /\ (age <= Window \/ \E i \in 1 .. Len(recent) : recent[i] <= Window)
  /\ age' = Older(age)
  /\ recent' = [i \in 1 .. Len(recent) |-> Older(recent[i])]
  /\ UNCHANGED <<raw, par_carrier, force_carrier, opened, enable_carrier, polling, pc, val, link,
                 carrier, forced, irq_on, count>>

Arrived == LET s == Append(recent, 0)
           IN  IF Len(s) > MaxCount + 1 THEN Tail(s) ELSE s

\* Mutant: the window is not moved to the first interrupt after it.
IrqNewWindowNoStart ==
  /\ irq_on /\ age > Window
  /\ age' = 0 /\ count' = count + 1
  /\ recent' = Arrived
  /\ UNCHANGED <<raw, par_carrier, force_carrier, opened, enable_carrier, polling, pc, val, link,
                 carrier, forced, irq_on>>

\* The storm guard of mts_interrupt, irq_storm_threshold_ms being set: the first
\* interrupt after the window,
IrqNewWindow ==
  /\ irq_on /\ age > Window
  /\ age' = 0 /\ count' = 1
  /\ recent' = Arrived
  /\ UNCHANGED <<raw, par_carrier, force_carrier, opened, enable_carrier, polling, pc, val, link,
                 carrier, forced, irq_on>>

\* one inside it, that may be one too many: the line is disabled, and carrier
\* detection with it.
IrqInWindow ==
  /\ irq_on /\ age <= Window
  /\ count' = count + 1
  /\ recent' = Arrived
  /\ irq_on' = (count' <= MaxCount)
  /\ enable_carrier' = (enable_carrier /\ irq_on')
  /\ UNCHANGED <<raw, par_carrier, force_carrier, opened, polling, pc, val, link, carrier, forced, age>>

LinkCheck == PollRead \/ LinkSame \/ LinkChange

Next ==
  \/ HwLink \/ SetEnableCarrier \/ SetForceCarrier
  \/ Open \/ Stop \/ LinkCheck
  \/ ForceCarrier \/ ForceLinkBit
  \/ Tick \/ IrqNewWindow \/ IrqInWindow

Spec == Init /\ [][Next]_vars

\* The poll timer re-arms itself for as long as NAPI is enabled.
FairSpec == Spec /\ WF_vars(LinkCheck)

-----------------------------------------------------------------------------
LinkTypeOK ==
  /\ raw \in LinkVals /\ val \in LinkVals \cup {None} /\ link_last_raw \in LinkVals \cup {None}
  /\ pc \in {"idle", "apply"}
  /\ par_carrier \in BOOLEAN /\ force_carrier \in BOOLEAN /\ opened \in BOOLEAN
  /\ enable_carrier \in BOOLEAN /\ polling \in BOOLEAN /\ link_up \in BOOLEAN
  /\ carrier \in BOOLEAN /\ forced \in BOOLEAN /\ irq_on \in BOOLEAN
  /\ link_mode \in {0} \cup {v.mode : v \in LinkVals}
  /\ count \in 0 .. MaxCount + 1 /\ age \in 0 .. Window + 1
  /\ recent \in Seq(0 .. Window + 1) /\ Len(recent) <= MaxCount + 1

\* While the interface is up and nobody forced the carrier, the stack is told
\* exactly what the last value read from BAR0[0x04] said, whatever mts_open,
\* mts_stop, the early return of mts_link_check and the parameters do in between.
CarrierIsLastSeen == opened /\ ~forced => (carrier <=> link_last_raw.up)

\* The inductive strengthening of CarrierIsLastSeen.
LinkInv ==
  /\ LinkTypeOK
  /\ CarrierIsLastSeen
  /\ opened /\ ~forced => (link_up <=> link_last_raw.up)
  /\ pc = "apply" => opened /\ val \in LinkVals
  /\ polling => opened
  /\ link_last_raw # None => link_mode = IF link_last_raw.up THEN link_last_raw.mode ELSE 0

\* The guard gives up interrupts only after more than irq_storm_max_count of them
\* arrived within one window (mts.c:2590-2593: no false alarm in normal traffic).
NoFalseStorm == ~irq_on => Len(recent) = MaxCount + 1 /\ recent[1] <= Window

\* The inductive strengthening of NoFalseStorm: the interrupts counted are the last
\* ones, and all of them came since the window began.
StormInv ==
  /\ LinkTypeOK /\ NoFalseStorm
  /\ count <= Len(recent) /\ (irq_on => count <= MaxCount) /\ (age <= Window => count > 0)
  /\ \A i \in 1 .. Len(recent) : i > Len(recent) - count => recent[i] <= age

\* A link that stays as it is is reported as it is, as long as the interface is
\* up, nobody forces the carrier and detection stays switched on.
CarrierFollowsLink ==
  \A v \in LinkVals :
    <>[](raw = v /\ opened /\ ~forced /\ enable_carrier) => <>[](carrier = v.up)

\* What mts.c:2605-2610 says of a storm: the driver goes back to polling, and the
\* link is checked by polling only.  So it is still reported.
PollingOutlivesStorm ==
  \A v \in LinkVals :
    <>[](raw = v /\ opened /\ ~forced /\ par_carrier) => <>[](carrier = v.up)
=============================================================================
