------------------------------- MODULE IccRtc -------------------------------
(***************************************************************************)
(* The two users of the system controller (ICC) that patches/ adds: the    *)
(* clock, ps4-icc-rtc-wrapper.patch, which keeps the time itself and tells *)
(* the controller to load or save its context, with retries; and the file  *)
(* /proc/ps4_icc, ps4-icc-proc-debug.patch, which sends the command that   *)
(* is written to it and shows the last answer.                             *)
(*                                                                         *)
(* The RTC core lets one operation of the clock run at a time.             *)
(***************************************************************************)
EXTENDS Naturals

CONSTANTS
  Writers,     \* processes that write to /proc/ps4_icc
  Commands,    \* numbers written to it: major and minor taken together
  Width,       \* how many of them apcie_icc_cmd tells apart: u8 and u16
  Times,       \* times given to set_time
  HZ,          \* jiffies per second
  Wrap,        \* values of jiffies
  Retries,     \* PS4_ICC_RTC_RETRIES
  MaxTicks,    \* bound: ticks of the clock
  MaxOps       \* bound: operations of the clock

ASSUME IccAssumption ==
  /\ {Width, HZ, Wrap, Retries, MaxTicks, MaxOps} \subseteq Nat \ {0}
  /\ MaxTicks < Wrap
  /\ Commands \subseteq Nat /\ Times \subseteq Nat
  /\ "free" \notin Writers

VARIABLES
  ticks, jiffies,           \* ticks since boot; the counter of the kernel
  base_time, base_jiffies,  \* the softc of the clock
  op, tries,                \* the operation that runs, its attempts so far
  ops,                      \* operations so far
  told,                     \* what the last read_time returned, and when
  given,                    \* history: the last time set, and when
  holder,                   \* icc_dbg_lock
  cmd, reply, ret, ran,     \* icc_dbg_major and _minor, icc_dbg_reply, icc_dbg_ret, icc_dbg_ran
  step, mine,               \* where every writer is, and its command
  shown                     \* what the last reader of the file saw

clock == <<ticks, jiffies, base_time, base_jiffies, op, tries, ops, told, given>>
debug == <<holder, cmd, reply, ret, ran, step, mine, shown>>
iccVars == <<clock, debug>>

Zeros == <<>>   \* the reply buffer after memset
Unread == [time |-> 0, at |-> 0, valid |-> FALSE]   \* read_time did not run since the last set_time

IccInit ==
  /\ ticks = 0 /\ jiffies = Wrap - 1
  /\ base_time = 0 /\ base_jiffies = jiffies
  /\ op = "idle" /\ tries = 0 /\ ops = 0
  /\ told = Unread /\ given = [time |-> 0, at |-> 0]
  /\ holder = "free" /\ cmd = 0 /\ reply = Zeros /\ ret = "none" /\ ran = FALSE
  /\ step = [w \in Writers |-> "idle"] /\ mine = [w \in Writers |-> 0]
  /\ shown = [cmd |-> 0, ret |-> "none", reply |-> Zeros]

-----------------------------------------------------------------------------
(* The clock. *)

Tick ==
  /\ ticks < MaxTicks
  /\ ticks' = ticks + 1 /\ jiffies' = (jiffies + 1) % Wrap
  /\ UNCHANGED <<base_time, base_jiffies, op, tries, ops, told, given, debug>>

\* Mutant: base_jiffies keeps the value of the probe.
SetTimeOldBase(t) ==
  /\ op = "idle" /\ ops < MaxOps
  /\ base_time' = t /\ given' = [time |-> t, at |-> ticks] /\ told' = Unread
  /\ op' = "save" /\ tries' = 0 /\ ops' = ops + 1
  /\ UNCHANGED <<ticks, jiffies, base_jiffies, debug>>

\* ps4_rtc_set_time up to the command that saves the context.
SetTime(t) ==
  /\ op = "idle" /\ ops < MaxOps
  /\ base_time' = t /\ base_jiffies' = jiffies /\ given' = [time |-> t, at |-> ticks] /\ told' = Unread
  /\ op' = "save" /\ tries' = 0 /\ ops' = ops + 1
  /\ UNCHANGED <<ticks, jiffies, debug>>

\* ps4_rtc_read_time, ps4_rtc_read_alarm and ps4_rtc_set_alarm begin with a command.
Begin(o) ==
  /\ op = "idle" /\ ops < MaxOps
  /\ op' = o /\ tries' = 0 /\ ops' = ops + 1
  /\ UNCHANGED <<ticks, jiffies, base_time, base_jiffies, told, given, debug>>

\* ps4_icc_rtc_cmd: EAGAIN, EINTR or ETIMEDOUT, and it is tried again.
Retry ==
  /\ op \in {"load", "save", "alarm"} /\ tries + 1 < Retries
  /\ tries' = tries + 1
  /\ UNCHANGED <<ticks, jiffies, base_time, base_jiffies, op, ops, told, given, debug>>

\* ps4_icc_rtc_cmd returns: an answer, another error, or the last attempt has failed.
\* The caller warns at most.
Return ==
  /\ op \in {"load", "save", "alarm"}
  /\ op' = IF op = "load" THEN "compute" ELSE "idle"
  /\ UNCHANGED <<ticks, jiffies, base_time, base_jiffies, tries, ops, told, given, debug>>

\* jiffies - base_jiffies, an unsigned subtraction, in seconds.
Elapsed == ((jiffies + Wrap - base_jiffies) % Wrap) \div HZ

\* ps4_rtc_read_time under sc->lock; base_time 0 means that no time was set.
ReadTime ==
  /\ op = "compute"
  /\ told' = [time |-> IF base_time = 0 THEN 0 ELSE base_time + Elapsed, at |-> ticks,
              valid |-> TRUE]
  /\ op' = "idle"
  /\ UNCHANGED <<ticks, jiffies, base_time, base_jiffies, tries, ops, given, debug>>

-----------------------------------------------------------------------------
(* /proc/ps4_icc. *)

\* icc_dbg_write up to the lock; a line that is too long or does not parse changes nothing.
WriteCmd(w, c) ==
  /\ step[w] = "idle"
  /\ step' = [step EXCEPT ![w] = "lock"] /\ mine' = [mine EXCEPT ![w] = c]
  /\ UNCHANGED <<clock, holder, cmd, reply, ret, ran, shown>>

\* Mutant: without icc_dbg_lock.
DbgNoLock(w) ==
  /\ step[w] = "lock"
  /\ reply' = Zeros /\ cmd' = mine[w]
  /\ step' = [step EXCEPT ![w] = "send"]
  /\ UNCHANGED <<clock, holder, ret, ran, mine, shown>>

DbgLock(w) ==
  /\ step[w] = "lock" /\ holder = "free"
  /\ holder' = w /\ reply' = Zeros /\ cmd' = mine[w]
  /\ step' = [step EXCEPT ![w] = "send"]
  /\ UNCHANGED <<clock, ret, ran, mine, shown>>

\* What the system controller answers to a command.
ReplyTo(c) == <<"reply", c % Width>>

\* apcie_icc_cmd, which sleeps; an error leaves the buffer as it is.
DbgSend(w) ==
  /\ step[w] = "send"
  /\ \/ reply' = ReplyTo(mine[w]) /\ ret' = "bytes"
     \/ reply' = reply /\ ret' = "error"
  /\ ran' = TRUE
  /\ step' = [step EXCEPT ![w] = "idle"] /\ holder' = "free"
  /\ UNCHANGED <<clock, cmd, mine, shown>>

\* icc_dbg_show.
DbgShow ==
  /\ holder = "free" /\ ran
  /\ shown' = [cmd |-> cmd, ret |-> ret, reply |-> reply]
  /\ UNCHANGED <<clock, holder, cmd, reply, ret, ran, step, mine>>

-----------------------------------------------------------------------------
IccNext ==
  \/ Tick \/ Retry \/ Return \/ ReadTime \/ DbgShow
  \/ \E t \in Times : SetTime(t)
  \/ \E o \in {"load", "alarm"} : Begin(o)
  \/ \E w \in Writers : DbgLock(w) \/ DbgSend(w) \/ \E c \in Commands : WriteCmd(w, c)

IccSpec == IccInit /\ [][IccNext]_iccVars

-----------------------------------------------------------------------------
\* The clock tells the last time it was given plus the whole seconds since then,
\* although jiffies wraps around and any number of commands to the controller fail.
\* Time 0, which the driver takes for unset, stands still.
RtcKeepsTime ==
  told.valid =>
    told.time = IF given.time = 0 THEN 0 ELSE given.time + (told.at - given.at) \div HZ

\* What the file shows belongs together: the result and the bytes are the answer to the
\* command it names, as far as apcie_icc_cmd takes it, however writers overlap.
ShownBelongs ==
  CASE shown.ret = "bytes" -> shown.reply = ReplyTo(shown.cmd)
    [] shown.ret \in {"error", "none"} -> shown.reply = Zeros

-----------------------------------------------------------------------------
(* The inductive strengthening. *)

\* The value of jiffies t ticks after boot.
JiffiesAt(t) == IF t = 0 THEN Wrap - 1 ELSE t - 1

\* The softc holds the last time given, and jiffies as it was then.
ClockInv ==
  /\ ticks \in 0 .. MaxTicks /\ jiffies = JiffiesAt(ticks)
  /\ given \in [time : Nat, at : 0 .. ticks]
  /\ base_time = given.time /\ base_jiffies = JiffiesAt(given.at)
  /\ RtcKeepsTime

\* The command, the result and the bytes belong together.
Belongs(c, r, bytes) == (r = "bytes" /\ bytes = ReplyTo(c)) \/ (r \in {"error", "none"} /\ bytes = Zeros)

\* Only the holder of icc_dbg_lock sends, into a buffer it cleared, the command the
\* file names; whoever takes the lock finds them belonging together.
DebugInv ==
  /\ step \in [Writers -> {"idle", "lock", "send"}] /\ mine \in [Writers -> Commands \cup {0}]
  /\ \A w \in Writers : step[w] = "send" => holder = w /\ reply = Zeros /\ cmd = mine[w]
  /\ holder = "free" => Belongs(cmd, ret, reply)
  /\ Belongs(shown.cmd, shown.ret, shown.reply)
=============================================================================
