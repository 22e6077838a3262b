------------------------------- MODULE Timers -------------------------------
(***************************************************************************)
(* The software timers of timers.c: the daemon task with its two sorted    *)
(* lists, the queue of commands, and the tasks and interrupts that send    *)
(* them.                                                                   *)
(*                                                                         *)
(* The tick counter wraps.  A timer that expires after the next wrap waits *)
(* in the overflow list; the lists change places when the daemon notices   *)
(* the wrap, which it does by comparing the time with xLastTime.  Only the *)
(* daemon touches the lists, so a step of it goes from one use of the      *)
(* queue or of the tick counter to the next.                               *)
(***************************************************************************)
EXTENDS Integers, Sequences, SequencesExt

CONSTANTS
  TimerSet,    \* the timers, all created
  Period,      \* xTimerPeriodInTicks each was created with
  AutoReload,  \* the timers created with uxAutoReload
  Commands,    \* what tasks may ask for: [cmd, timer, val]
  IsrCommands, \* what interrupts may ask for
  Modes,       \* calls of vTimerSetReloadMode: [timer, auto]
  Null,        \* no command in hand
  TickMod,     \* the tick counter wraps to 0 after TickMod - 1
  QueueLength, \* configTIMER_QUEUE_LENGTH
  MaxCmds,     \* bound on the commands sent
  MaxLate,     \* bound on the ticks the daemon takes from waking to blocking
  MaxAge       \* bound on the ticks a command is on its way

Tick == 0 .. TickMod - 1
Item == [timer : TimerSet, time : Tick]
Cmd == [cmd : {"start", "restart", "stop", "period", "delete", "pend"}, timer : TimerSet,
        val : Tick, age : 0 .. MaxAge]

\* The daemon may be late by less than what a period leaves of a lap of the
\* counter, and its own restarts are not older than other commands.
ASSUME TimersAssumption ==
  /\ TickMod \in Nat /\ TickMod >= 2
  /\ Period \in [TimerSet -> 1 .. TickMod - 1] /\ AutoReload \subseteq TimerSet
  /\ QueueLength \in Nat \ {0}
  /\ MaxAge \in 0 .. TickMod - 1 /\ MaxLate \in 0 .. MaxAge /\ MaxCmds \in Nat
  /\ Null \notin Cmd
  /\ \A t \in TimerSet : Period[t] + MaxLate < TickMod
  /\ \A c \in Commands \cup IsrCommands :
       /\ c.timer \in TimerSet /\ c.val \in 1 .. TickMod - 1
       /\ c.cmd \in {"start", "stop", "period", "delete", "pend"}
       /\ c.cmd = "period" => c.val + MaxLate < TickMod
  /\ \A m \in Modes : m.timer \in TimerSet

VARIABLES
  tick,                    \* xTickCount
  cur, ovf,                \* pxCurrentTimerList, pxOverflowTimerList
  active, auto, period,    \* ucStatus and xTimerPeriodInTicks of every timer
  freed,                   \* the timers vPortFree took back
  q,                       \* xTimerQueue
  pc, last, msg,           \* the daemon: where it is, xLastTime, the command in hand
  left,                    \* ticks it still sleeps, or Forever
  ask, dead, sent,         \* the command a task is sending, timers deleted, count
  late,                    \* ghost: ticks since the daemon woke up
  rem, run, early          \* ghosts: ticks until a timer is due; those that
                           \* run; those that fired before their time

timerVars == <<active, auto, period, freed>>
listVars == <<cur, ovf>>
clientVars == <<ask, dead, sent>>
ghosts == <<rem, run, early>>
vars == <<tick, listVars, timerVars, q, pc, last, msg, left, clientVars, late, ghosts>>

Forever == -1

Init ==
  /\ tick = 0 /\ last = 0
  /\ cur = <<>> /\ ovf = <<>> /\ q = <<>>
  /\ active = {} /\ auto = AutoReload /\ period = Period /\ freed = {}
  /\ pc = "look" /\ msg = Null /\ left = 0
  /\ ask = Null /\ dead = {} /\ sent = 0
  /\ late = 0 /\ rem = [t \in TimerSet |-> 0] /\ run = {} /\ early = {}

(* ------------------------------ the lists ----------------------------- *)

\* vListInsert walks to the first item that is later.
Insert(list, t, time) ==
  LET n == CHOOSE n \in 0 .. Len(list) :
             /\ \A i \in 1 .. n : list[i].time <= time
             /\ n < Len(list) => list[n + 1].time > time
  IN InsertAt(list, n + 1, [timer |-> t, time |-> time])

\* uxListRemove, of a timer that may be in the list.
In(list, t) == \E i \in DOMAIN list : list[i].timer = t
Without(list, t) ==
  IF In(list, t) THEN RemoveAt(list, CHOOSE i \in DOMAIN list : list[i].timer = t) ELSE list

\* Mutants of prvInsertTimerInActiveList: a command whose time has run out
\* waits for the next wrap; a command from before the wrap is taken for one
\* whose time has passed.
NeverNow(expiry, time, cmdTime, p) == IF expiry <= time THEN "overflow" ELSE "current"
NowAfterWrap(expiry, time, cmdTime, p) ==
  IF expiry <= time
  THEN IF (time - cmdTime) % TickMod >= p THEN "now" ELSE "overflow"
  ELSE IF time < cmdTime THEN "now" ELSE "current"

\* Where a timer goes that a command of time cmdTime lets expire at expiry.
prvInsertTimerInActiveList(expiry, time, cmdTime, p) ==
  IF expiry <= time
  THEN IF (time - cmdTime) % TickMod >= p THEN "now" ELSE "overflow"
  ELSE IF time < cmdTime /\ expiry >= cmdTime THEN "now" ELSE "current"

Place(where, C, O, t, time) ==
  /\ cur' = IF where = "current" THEN Insert(C, t, time) ELSE C
  /\ ovf' = IF where = "overflow" THEN Insert(O, t, time) ELSE O

\* Mutant of Restart: nothing is sent.
RestartForgotten(t, cmdTime, age) == UNCHANGED <<q, run>>

\* xTimerGenericCommand of the daemon itself, which cannot wait: with the
\* queue full the timer is not started again.
Restart(t, cmdTime, age) ==
  IF Len(q) < QueueLength
  THEN /\ q' = Append(q, [cmd |-> "restart", timer |-> t, val |-> cmdTime, age |-> age])
       /\ run' = run \cup {t}
  ELSE q' = q /\ run' = run \ {t}

\* The callback runs; r the ticks until the timer is due.
Fired(t, r) == early' = IF r > 0 THEN early \cup {t} ELSE early

(* ------------------------------ the daemon ---------------------------- *)

\* Mutant of SleepFor: with the current list empty, sleeps for ever.
SleepNoOverflow(time) == IF cur # <<>> THEN Head(cur).time - time ELSE Forever

\* prvGetNextExpireTime and prvProcessTimerOrBlockTask: with the scheduler
\* suspended, go on to a timer that is due, or block until the first one is,
\* or until the counter wraps if all are behind the wrap.
SleepFor(time) ==
  IF cur # <<>> THEN Head(cur).time - time
  ELSE IF ovf = <<>> THEN Forever
  ELSE IF time = 0 THEN 1 ELSE TickMod - time

HeadDue == cur # <<>> /\ Head(cur).time <= tick

prvProcessTimerOrBlockTask ==
  /\ pc = "look"
  /\ last' = tick
  /\ \/ tick < last /\ pc' = "switch" /\ UNCHANGED <<left, late>>
     \/ tick >= last /\ HeadDue /\ pc' = "expire" /\ UNCHANGED <<left, late>>
     \/ /\ tick >= last /\ ~HeadDue
        /\ pc' = "blocked" /\ left' = SleepFor(tick)
        /\ late' = IF q = <<>> THEN 0 ELSE late
  /\ UNCHANGED <<tick, listVars, timerVars, q, msg, clientVars, ghosts>>

\* Woken by a command or by the time.
Wake ==
  /\ pc = "blocked" /\ (q # <<>> \/ left = 0)
  /\ pc' = "commands" /\ left' = 0
  /\ UNCHANGED <<tick, listVars, timerVars, q, last, msg, clientVars, late, ghosts>>

\* xNextExpireTime is still the time of the head.
prvProcessExpiredTimer ==
  LET t     == Head(cur).timer
      next  == Head(cur).time
      again == (next + period[t]) % TickMod
      where == prvInsertTimerInActiveList(again, last, next, period[t])
  IN /\ pc = "expire"
     /\ Fired(t, rem[t])
     /\ \/ /\ t \in auto
           /\ Place(where, Tail(cur), ovf, t, again)
           /\ rem' = [rem EXCEPT ![t] = @ + period[t]]
           /\ IF where = "now" THEN Restart(t, next, -rem[t]) ELSE UNCHANGED <<q, run>>
           /\ UNCHANGED active
        \/ /\ t \notin auto
           /\ cur' = Tail(cur) /\ active' = active \ {t}
           /\ run' = run \ {t} /\ rem' = [rem EXCEPT ![t] = 0]
           /\ UNCHANGED <<ovf, q>>
     /\ pc' = "commands"
     /\ UNCHANGED <<tick, auto, period, freed, last, msg, left, clientVars, late>>

\* prvSwitchTimerLists, one timer a step: what is left in the current list is
\* due.  A one-shot timer keeps its active flag.
prvSwitchTimerLists ==
  LET t      == Head(cur).timer
      next   == Head(cur).time
      reload == (next + period[t]) % TickMod
  IN /\ pc = "switch" /\ cur # <<>>
     /\ Fired(t, rem[t])
     /\ \/ /\ t \in auto /\ reload > next
           /\ cur' = Insert(Tail(cur), t, reload)
           /\ UNCHANGED <<q, run>>
        \/ t \in auto /\ reload <= next /\ Restart(t, next, -rem[t]) /\ cur' = Tail(cur)
        \/ t \notin auto /\ run' = run \ {t} /\ cur' = Tail(cur) /\ UNCHANGED q
     /\ rem' = [rem EXCEPT ![t] = IF t \in auto THEN @ + period[t] ELSE 0]
     /\ UNCHANGED <<tick, ovf, timerVars, pc, last, msg, left, clientVars, late>>

SwitchDone ==
  /\ pc = "switch" /\ cur = <<>>
  /\ cur' = ovf /\ ovf' = cur
  /\ pc' = IF msg = Null THEN "commands" ELSE "apply"
  /\ UNCHANGED <<tick, timerVars, q, last, msg, left, clientVars, late, ghosts>>

\* Mutant of NoCommand: back to sleep without a look at the timers.
SleepAgain ==
  /\ pc = "commands" /\ q = <<>>
  /\ pc' = "blocked"
  /\ UNCHANGED <<tick, listVars, timerVars, q, last, msg, left, clientVars, late, ghosts>>

\* prvProcessReceivedCommands: the queue is empty; a pended function; or a
\* command for a timer.
NoCommand ==
  /\ pc = "commands" /\ q = <<>>
  /\ pc' = "look"
  /\ UNCHANGED <<tick, listVars, timerVars, q, last, msg, left, clientVars, late, ghosts>>

ReceiveCommand ==
  /\ pc = "commands" /\ q # <<>>
  /\ q' = Tail(q)
  /\ IF Head(q).cmd = "pend" THEN UNCHANGED <<pc, msg>> ELSE pc' = "sample" /\ msg' = Head(q)
  /\ UNCHANGED <<tick, listVars, timerVars, last, left, clientVars, late, ghosts>>

\* The timer leaves its list, then prvSampleTimeNow.  The code does not ask
\* whether the timer still exists: its memory, if freed, is used as if it were
\* intact, which FreedUnused reports.
Sample ==
  /\ pc = "sample"
  /\ cur' = Without(cur, msg.timer) /\ ovf' = Without(ovf, msg.timer)
  /\ last' = tick
  /\ pc' = IF tick < last THEN "switch" ELSE "apply"
  /\ UNCHANGED <<tick, timerVars, q, msg, left, clientVars, late, ghosts>>

\* tmrCOMMAND_START, _RESET and _START_DONT_TRACE.
ApplyStart ==
  LET t      == msg.timer
      p      == period[t]
      expiry == (msg.val + p) % TickMod
      where  == prvInsertTimerInActiveList(expiry, last, msg.val, p)
      due    == p - msg.age
  IN /\ msg.cmd \in {"start", "restart"}
     /\ active' = active \cup {t}
     /\ Place(where, cur, ovf, t, expiry)
     /\ \/ /\ where # "now"
           /\ run' = run \cup {t} /\ rem' = [rem EXCEPT ![t] = due]
           /\ UNCHANGED <<q, early>>
        \/ /\ where = "now" /\ t \in auto
           /\ Fired(t, due) /\ Restart(t, expiry, msg.age - p)
           /\ rem' = [rem EXCEPT ![t] = due + p]
        \/ /\ where = "now" /\ t \notin auto
           /\ Fired(t, due) /\ run' = run \ {t}
           /\ rem' = [rem EXCEPT ![t] = 0] /\ UNCHANGED q
     /\ UNCHANGED <<period, freed>>

ApplyStop ==
  /\ msg.cmd = "stop"
  /\ active' = active \ {msg.timer}
  /\ run' = run \ {msg.timer} /\ rem' = [rem EXCEPT ![msg.timer] = 0]
  /\ UNCHANGED <<listVars, period, freed, q, early>>

\* The new period counts from now.
ApplyPeriod ==
  LET t      == msg.timer
      expiry == (last + msg.val) % TickMod
      where  == prvInsertTimerInActiveList(expiry, last, last, msg.val)
  IN /\ msg.cmd = "period"
     /\ active' = active \cup {t}
     /\ period' = [period EXCEPT ![t] = msg.val]
     /\ Place(where, cur, ovf, t, expiry)
     /\ rem' = [rem EXCEPT ![t] = msg.val - ((tick - last) % TickMod)]
     /\ run' = run \cup {t}
     /\ UNCHANGED <<freed, q, early>>

ApplyDelete ==
  /\ msg.cmd = "delete"
  /\ freed' = freed \cup {msg.timer}
  /\ run' = run \ {msg.timer} /\ rem' = [rem EXCEPT ![msg.timer] = 0]
  /\ UNCHANGED <<listVars, active, period, q, early>>

Apply ==
  /\ pc = "apply"
  /\ ApplyStart \/ ApplyStop \/ ApplyPeriod \/ ApplyDelete
  /\ pc' = "commands" /\ msg' = Null
  /\ UNCHANGED <<tick, auto, last, left, clientVars, late>>

Daemon ==
  \/ prvProcessTimerOrBlockTask \/ Wake \/ prvProcessExpiredTimer
  \/ prvSwitchTimerLists \/ SwitchDone \/ NoCommand \/ ReceiveCommand \/ Sample \/ Apply

(* --------------------------- tasks and interrupts ---------------------- *)

\* Callbacks of a wrap the daemon finds before it blocks run with the
\* scheduler suspended: no other task runs, and the ticks are held back.
Suspended == pc = "switch" /\ msg = Null

Message(c) ==
  [cmd |-> c.cmd, timer |-> c.timer, val |-> IF c.cmd = "start" THEN tick ELSE c.val, age |-> 0]

\* The macros of timers.h: the time is read before the command is sent.
Ask(c) ==
  /\ ask = Null /\ ~Suspended /\ sent < MaxCmds
  /\ c.timer \notin dead
  /\ ask' = Message(c) /\ sent' = sent + 1
  /\ dead' = IF c.cmd = "delete" THEN dead \cup {c.timer} ELSE dead
  /\ UNCHANGED <<tick, listVars, timerVars, q, pc, last, msg, left, late, ghosts>>

\* xTimerGenericCommand and xTimerPendFunctionCall: sent when there is room,
\* or given up.
xTimerGenericCommand ==
  /\ ask # Null /\ ~Suspended
  /\ IF Len(q) < QueueLength THEN q' = Append(q, ask) ELSE q' = q
  /\ ask' = Null
  /\ UNCHANGED <<tick, listVars, timerVars, pc, last, msg, left, dead, sent, late, ghosts>>

\* The FromISR forms; the interrupt does not wait.
IsrCommand(c) ==
  /\ Len(q) < QueueLength /\ sent < MaxCmds /\ c.timer \notin dead
  /\ q' = Append(q, Message(c)) /\ sent' = sent + 1
  /\ UNCHANGED <<tick, listVars, timerVars, pc, last, msg, left, ask, dead, late, ghosts>>

vTimerSetReloadMode(m) ==
  /\ ~Suspended /\ sent < MaxCmds
  /\ auto' = IF m.auto THEN auto \cup {m.timer} ELSE auto \ {m.timer}
  /\ sent' = sent + 1
  /\ UNCHANGED <<tick, listVars, active, period, freed, q, pc, last, msg, left,
                 ask, dead, late, ghosts>>

\* A tick.  The daemon has the highest priority: it is through with its work
\* before MaxLate ticks, and no command is on its way for more than MaxAge.
Busy == pc # "blocked" \/ left = 0 \/ q # <<>>
Ages(m) == m # Null /\ m.cmd \in {"start", "restart"}
Older(m) == IF Ages(m) THEN [m EXCEPT !.age = @ + 1] ELSE m

TickIrq ==
  /\ ~Suspended
  /\ Busy => late < MaxLate
  /\ \A m \in {q[i] : i \in DOMAIN q} \cup {msg, ask} : Ages(m) => m.age < MaxAge
  /\ tick' = (tick + 1) % TickMod
  /\ late' = IF Busy THEN late + 1 ELSE 0
  /\ left' = IF pc = "blocked" /\ left > 0 THEN left - 1 ELSE left
  /\ q' = [i \in DOMAIN q |-> Older(q[i])]
  /\ msg' = Older(msg) /\ ask' = Older(ask)
  /\ rem' = [t \in TimerSet |-> IF t \in run THEN rem[t] - 1 ELSE rem[t]]
  /\ UNCHANGED <<listVars, timerVars, pc, last, dead, sent, run, early>>

Next ==
  \/ Daemon \/ TickIrq
  \/ \E c \in Commands : Ask(c)
  \/ xTimerGenericCommand
  \/ \E c \in IsrCommands : IsrCommand(c)
  \/ \E m \in Modes : vTimerSetReloadMode(m)

\* The tick goes on, and so does the daemon, the task of the highest priority.
Spec == Init /\ [][Next]_vars /\ WF_vars(Daemon) /\ WF_vars(TickIrq)

(* ------------------------------ properties ---------------------------- *)

\* The types of the timers, the daemon and the commands.
TypeOK ==
  /\ tick \in Tick /\ last \in Tick
  /\ cur \in Seq(Item) /\ ovf \in Seq(Item)
  /\ active \subseteq TimerSet /\ auto \subseteq TimerSet /\ freed \subseteq TimerSet
  /\ period \in [TimerSet -> 1 .. TickMod - 1]
  /\ q \in Seq(Cmd) /\ Len(q) <= QueueLength
  /\ msg \in Cmd \cup {Null} /\ ask \in Cmd \cup {Null}
  /\ pc \in {"look", "blocked", "expire", "switch", "commands", "sample", "apply"}
  /\ left \in -1 .. TickMod /\ late \in 0 .. MaxLate

\* A wrap the daemon has not noticed yet.
Wrap == IF pc = "switch" \/ tick < last THEN TickMod ELSE 0

\* The list a timer is in and the time it carries are those it is really due
\* at, across wraps, late commands and a late daemon; the lists are sorted
\* and hold a timer once.
ListedExact ==
  /\ \A i \in DOMAIN cur : rem[cur[i].timer] = cur[i].time - tick - Wrap
  /\ \A i \in DOMAIN ovf : rem[ovf[i].timer] = ovf[i].time + TickMod - tick - Wrap
  /\ \A l \in {cur, ovf} : \A i, j \in DOMAIN l :
       i < j => l[i].time <= l[j].time /\ l[i].timer # l[j].timer
  /\ \A t \in TimerSet : ~(In(cur, t) /\ In(ovf, t))

\* No callback runs before its timer is due.
NoEarlyFire == early = {}

\* The daemon never sleeps past a timer in its lists.
NeverOversleeps ==
  ~Busy => \A t \in TimerSet :
             In(cur, t) \/ In(ovf, t) => left # Forever /\ left <= rem[t]

\* A timer that runs is in a list, or the daemon has its next start in the
\* queue or in hand.  One whose restart found the queue full no longer runs:
\* RestartKept is about that case.
Kept ==
  \A t \in run :
    \/ In(cur, t) \/ In(ovf, t)
    \/ \E i \in DOMAIN q : q[i].cmd = "restart" /\ q[i].timer = t
    \/ pc \in {"sample", "switch", "apply"} /\ msg # Null /\ msg.timer = t

\* Every timer is in the right list with the right time, or on its way there;
\* none fires early, and the daemon wakes for the first that is due.
OnTime == TypeOK /\ ListedExact /\ NoEarlyFire /\ NeverOversleeps /\ Kept

\* No command is left in the queue for a timer whose memory was freed.
FreedUnused == \A i \in DOMAIN q : q[i].cmd # "pend" => q[i].timer \notin freed

\* A timer that is due fires: it is stopped, or its restart found the queue full,
\* or its next time lies ahead.
Due(t) == t \in run /\ rem[t] <= 0
DueTimersFire == \A t \in TimerSet : Due(t) ~> ~Due(t)

\* The three configASSERT( xResult ) of timers.c: the daemon's own restart of an
\* auto-reload timer is always taken by the queue.
RestartKept ==
  [][(pc = "apply" => msg.cmd \in {"start", "restart"})
       => run \cap auto \subseteq run']_vars

\* "Stopping a timer ensures the timer is not in the active state."
StopStops ==
  [][(pc = "apply" /\ pc' # pc /\ msg.cmd = "restart") => msg.timer \in active]_vars

\* "A timer will be dormant if [...] it is an expired one-shot timer that has
\* not been restarted"; and an active one has an expiry ahead.
ActiveRuns == active \subseteq run
=============================================================================
