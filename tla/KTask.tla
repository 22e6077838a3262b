------------------------------- MODULE KTask --------------------------------
(***************************************************************************)
(* The state of the kernel and of the tasks that call it, the interrupts,  *)
(* and the calls of tasks.c: delays, suspension, priorities, deletion and  *)
(* notifications.                                                          *)
(*                                                                         *)
(* A step is a critical section, or a stretch of code with the scheduler   *)
(* suspended that no interrupt touches.  Between two steps of the running  *)
(* task the tick and the other interrupts may come in, and other tasks     *)
(* run.  A task that is in no call picks one from the menu of the workload *)
(* that Init chose.                                                        *)
(***************************************************************************)
EXTENDS Sched

CONSTANTS
  Queues,      \* queues, semaphores and mutexes
  Mutexes,     \* those of type queueQUEUE_IS_MUTEX
  Length,      \* uxLength of each
  Groups,      \* event groups
  Streams,     \* stream buffers and message buffers
  Messages,    \* those that are message buffers
  xLength,     \* cells of each, one of them never in use
  xTriggerLevelBytes, \* cells that make a send wake the reader
  Null,        \* no task
  Workloads,   \* what the tasks and the interrupts of an application do
  MaxPend,     \* bound on the ticks held back while the scheduler is suspended
  MaxLock,     \* bound on the count of a queue lock
  MaxNotify    \* bound on a notification value

ASSUME KernelAssumption ==
  /\ Mutexes \subseteq Queues /\ IsFiniteSet(Queues)
  /\ Length \in [Queues -> Nat \ {0}] /\ \A m \in Mutexes : Length[m] = 1
  /\ EventLists = (Queues \X {"send", "recv"}) \cup (Groups \X {"bits"})
  /\ Null \notin Tasks
  /\ Messages \subseteq Streams /\ xLength \in [Streams -> Nat \ {0, 1}]
  /\ xTriggerLevelBytes \in [Streams -> Nat \ {0}]

VARIABLES
  wl,        \* the workload: priorities, menus of the tasks, interrupts
  K,         \* the scheduler: see Sched
  L,         \* per task: where it is in which call, and its locals
  age,       \* ghost, per task: ticks since its call began, up to those it asked for
  msgs,      \* uxMessagesWaiting of every queue
  holder,    \* xMutexHolder
  held,      \* uxMutexesHeld of every task
  rec,       \* uxRecursiveCallCount
  tx, rx,    \* cTxLock and cRxLock
  bits,      \* uxEventBits of every event group
  sb         \* stream buffers: see KStream

queueVars == <<msgs, holder, held, rec, tx, rx>>
vars == <<wl, K, L, age, queueVars, bits, sb>>

NoCall == [op |-> "none", obj |-> Null, n |-> 0]
Free == [pc |-> "run", call |-> NoCall, wait |-> 0, tmo |-> [time |-> 0, wrapped |-> FALSE],
         set |-> FALSE, inh |-> FALSE, out |-> "none", num |-> 0, len |-> 0]

Lock == -1 .. MaxLock

\* Task t runs, is at pc, and no yield of its own is waiting to be taken.
At(t, pc) == K.cur = t /\ ~K.msip /\ L[t].pc = pc
Goto(t, pc) == L' = [L EXCEPT ![t].pc = pc] /\ UNCHANGED age
Return(t) == L' = [L EXCEPT ![t] = Free] /\ age' = [age EXCEPT ![t] = 0]

\* A call that may wait for ever; its time is of no account.
Endless(l) == l.call.n = portMAX_DELAY /\ l.call.op \notin {"delay", "until"}

\* xNumOfOverflows changed while the running calls had their time noted.
Wrapped(l, k) ==
  IF k.tick >= K.tick THEN l
  ELSE [t \in Tasks |-> [l[t] EXCEPT !.tmo.wrapped = l[t].set /\ ~Endless(l[t])]]

\* The call ends because its time is up.
Expire(t) == Goto(t, "expired")
Expired(t) ==
  /\ At(t, "expired") /\ L[t].call.op # "until"
  /\ Return(t)
  /\ UNCHANGED <<wl, K, queueVars, bits, sb>>

KInit ==
  /\ wl \in Workloads
  /\ K = Started(wl.prio, wl.created)
  /\ L = [t \in Tasks |-> Free]
  /\ age = [t \in Tasks |-> 0]

(* ------------------------------ interrupts ---------------------------- *)

\* The software interrupt of portYIELD.
SoftIrq ==
  /\ K.msip
  /\ K' = vTaskSwitchContext([K EXCEPT !.msip = FALSE])
  /\ UNCHANGED <<wl, L, age, queueVars, bits, sb>>

\* The tick interrupt; the software interrupt is taken before it.  No task is a
\* whole turn of the tick counter late for its period.
TickIrq ==
  /\ ~K.msip
  /\ \A t \in Tasks : L[t].call.op = "until" => age[t] < portMAX_DELAY
  /\ K.susp # 0 => K.pended < MaxPend
  /\ LET r == xTaskIncrementTick(K)
     IN K' = IF r.sw THEN vTaskSwitchContext(r.k) ELSE r.k
  /\ L' = Wrapped(L, K')
  /\ age' = [t \in Tasks |->
               IF Endless(L[t]) \/ (age[t] = L[t].call.n /\ L[t].call.op # "until")
               THEN age[t] ELSE age[t] + 1]
  /\ UNCHANGED <<wl, queueVars, bits, sb>>

\* portYIELD_FROM_ISR with what the call returned.
FromISR(r) == K' = YieldIf(r.k, r.higher)

IsrNotify(c) ==
  /\ c \in wl.isr /\ c.op = "notify"
  /\ K.nval[c.obj] < MaxNotify
  /\ FromISR(xTaskGenericNotifyFromISR(K, c.obj, c.act, c.n))
  /\ UNCHANGED <<wl, L, age, queueVars, bits, sb>>

IsrResume(c) ==
  /\ c \in wl.isr /\ c.op = "resume"
  /\ FromISR(xTaskResumeFromISR(K, c.obj))
  /\ UNCHANGED <<wl, L, age, queueVars, bits, sb>>

(* -------------------------------- calls ------------------------------- *)

\* What the contract of the API asks of a caller: a mutex is given by its
\* holder, is not taken twice unless it is recursive, a task that exists is
\* the object of a call and one that does not is created, and nobody deletes
\* a task that holds a mutex or is waiting in a call on one.
Exists(t) == IsReady(K, t) \/ IsDelayed(K, t) \/ t \in K.suspended
Sane(t, c) ==
  /\ c.op = "give" => holder[c.obj] = t
  /\ c.op = "take" => holder[c.obj] # t
  /\ c.op \in {"notify", "suspend", "prio"} => Exists(c.obj)
  /\ c.op = "delete" => Exists(c.obj) /\ held[c.obj] = 0
  /\ c.op = "create" => ~Exists(c.obj) /\ c.obj \notin K.term

FirstStep(op) ==
  CASE op \in {"send", "overwrite", "recv", "peek", "take", "give"} -> "try"
    [] op \in {"delay", "until", "lock", "wbits", "sync", "sbits"} -> "susp"
    [] OTHER -> op

\* A periodic task notes the time before its loop.
Call(t, c) ==
  /\ At(t, "run") /\ c \in wl.menu[t] /\ Sane(t, c)
  /\ L' = [L EXCEPT ![t] = [Free EXCEPT !.pc = FirstStep(c.op), !.call = c, !.wait = c.n,
                                    !.num = IF c.op = "until" THEN K.tick ELSE 0]]
  /\ UNCHANGED <<wl, K, age, queueVars, bits, sb>>

\* vTaskSuspendAll, the start of a delay, of a wait on an event group, of
\* the blocking part of a call on a queue, and of a stretch an application
\* runs with the scheduler suspended ("lock").
SuspendAll(t) ==
  /\ At(t, "susp")
  /\ K' = vTaskSuspendAll(K)
  /\ Goto(t, IF L[t].call.op \in {"delay", "until", "lock", "wbits", "sync", "sbits"}
             THEN L[t].call.op ELSE "qlock")
  /\ UNCHANGED <<wl, queueVars, bits, sb>>

\* vTaskDelay; a delay of 0 only yields and is not on any menu.
Delay(t) ==
  /\ At(t, "delay")
  /\ K' = prvAddCurrentTaskToDelayedList(K, L[t].wait, FALSE)
  /\ L' = [L EXCEPT ![t].pc = "resume", ![t].out = "delayed"]
  /\ UNCHANGED <<wl, age, queueVars, bits, sb>>

\* Mutants of ShouldDelay: times compared as if they did not wrap; sleep always.
StillAhead(now, prev, wake) == wake > now
NeverLate(now, prev, wake) == TRUE

\* The wake time lies ahead, whichever of the times have wrapped since prev.
ShouldDelay(now, prev, wake) ==
  \/ now < prev  /\ wake < prev /\ wake > now
  \/ now >= prev /\ (wake < prev \/ wake > now)

\* xTaskDelayUntil; num is *pxPreviousWakeTime.
DelayUntil(t) ==
  LET wake == (L[t].num + L[t].call.n) % TickMod
  IN /\ At(t, "until")
     /\ K' = IF ShouldDelay(K.tick, L[t].num, wake)
             THEN prvAddCurrentTaskToDelayedList(K, (wake - K.tick) % TickMod, FALSE)
             ELSE K
     /\ L' = [L EXCEPT ![t].pc = "resume", ![t].out = "delayed", ![t].num = wake]
     /\ UNCHANGED <<wl, age, queueVars, bits, sb>>

\* Once round the loop of a periodic task, whose age counts from the wake time.
NextPeriod(t) ==
  /\ At(t, "expired") /\ L[t].call.op = "until"
  /\ L' = [L EXCEPT ![t].pc = "susp", ![t].out = "none"]
  /\ age' = [age EXCEPT ![t] = @ - L[t].call.n]
  /\ UNCHANGED <<wl, K, queueVars, bits, sb>>

\* Where a call goes on once the scheduler runs again.
After(out) ==
  CASE out \in {"again", "blocked"} -> "try"
    [] out = "delayed" -> "expired"
    [] out = "waited" -> "woken"
    [] out = "deleted" -> "run"
    [] OTHER -> out

LockEnd(t) ==
  /\ At(t, "lock") /\ Goto(t, "resume")
  /\ UNCHANGED <<wl, K, queueVars, bits, sb>>

\* xTaskResumeAll, then what the call does with its result.
ResumeAll(t) ==
  /\ At(t, "resume")
  /\ LET r == xTaskResumeAll(K)
         o == L[t].out
         w == Wrapped(L, r.k)
     IN /\ K' = r.k
        /\ \/ /\ o = "none"
              /\ L' = [w EXCEPT ![t] = Free] /\ age' = [age EXCEPT ![t] = 0]
           \/ /\ o # "none"
              /\ L' = [w EXCEPT ![t].pc =
                        IF o \in {"blocked", "delayed", "waited"} /\ ~r.already
                        THEN "yield" ELSE After(o)]
              /\ UNCHANGED age
  /\ UNCHANGED <<wl, queueVars, bits, sb>>

\* portYIELD_WITHIN_API after a call that blocked and did not yield yet.
Yield(t) ==
  /\ At(t, "yield")
  /\ K' = portYIELD(K)
  /\ Goto(t, After(L[t].out))
  /\ UNCHANGED <<wl, queueVars, bits, sb>>

(* ---------------- suspension, priorities, life of a task -------------- *)

PrioritySet(t) ==
  /\ At(t, "prio")
  /\ K' = vTaskPrioritySet(K, L[t].call.obj, L[t].call.n)
  /\ Return(t)
  /\ UNCHANGED <<wl, queueVars, bits, sb>>

\* The ghost: a call that vTaskSuspend cuts short promises nothing.
Suspend(t) ==
  LET s == L[t].call.obj
  IN /\ At(t, "suspend")
     /\ K' = SuspendTask(K, s)
     /\ L' = [L EXCEPT ![t].pc = "suspend2"]
     /\ age' = [age EXCEPT ![s] = L[s].call.n]
     /\ UNCHANGED <<wl, queueVars, bits, sb>>

\* The second critical section, and the yield of a task that suspended itself.
SuspendEnd(t) ==
  /\ At(t, "suspend2")
  /\ K' = YieldIf(prvResetNextTaskUnblockTime(K), L[t].call.obj = t)
  /\ Return(t)
  /\ UNCHANGED <<wl, queueVars, bits, sb>>

Resume(t) ==
  /\ At(t, "resumetask")
  /\ K' = vTaskResume(K, L[t].call.obj)
  /\ Return(t)
  /\ UNCHANGED <<wl, queueVars, bits, sb>>

\* vTaskDelete of itself waits for the idle task in xTasksWaitingTermination.
Delete(t) ==
  LET d == L[t].call.obj
  IN /\ At(t, "delete")
     /\ K' = vTaskDelete(K, d)
     /\ L' = IF d = t THEN [L EXCEPT ![t].pc = "yield", ![t].out = "deleted"]
             ELSE [L EXCEPT ![t] = Free, ![d] = Free]
     /\ age' = [age EXCEPT ![t] = 0, ![d] = 0]
     /\ UNCHANGED <<wl, queueVars, bits, sb>>

\* xTaskCreate: the critical section, and after it the yield to a new task of
\* higher priority.
Create(t) ==
  LET d == L[t].call.obj
  IN /\ At(t, "create")
     /\ K' = prvAddNewTaskToReadyList(K, d, L[t].call.n)
     /\ L' = [L EXCEPT ![t].pc = "create2", ![d] = Free]
     /\ age' = [age EXCEPT ![d] = 0]
     /\ UNCHANGED <<wl, queueVars, bits, sb>>

CreateEnd(t) ==
  /\ At(t, "create2")
  /\ K' = YieldIf(K, Cur(K) < K.prio[L[t].call.obj])
  /\ Return(t)
  /\ UNCHANGED <<wl, queueVars, bits, sb>>

\* prvIdleTask: frees a deleted task, or yields to a task of priority 0.
IdleStep ==
  /\ At(Idle, "run")
  /\ \/ \E d \in K.term : K' = uxListRemoveState(K, d)
     \/ K.term = {} /\ Len(K.ready[0]) > 2 /\ K' = portYIELD(K)
  /\ UNCHANGED <<wl, L, age, queueVars, bits, sb>>

(* ----------------------------- notifications -------------------------- *)

Notify(t) ==
  LET c == L[t].call
  IN /\ At(t, "notify")
     /\ K.nval[c.obj] < MaxNotify
     /\ K' = xTaskGenericNotify(K, c.obj, c.act, c.n)
     /\ Return(t)
     /\ UNCHANGED <<wl, queueVars, bits, sb>>

\* ulTaskNotifyTake and xTaskNotifyWait: look and block, then look again.
NotifyTake(t) ==
  /\ At(t, "ntake")
  /\ K' = NotifyBlock(K, K.nval[t] = 0, L[t].wait)
  /\ Goto(t, "ntake2")
  /\ UNCHANGED <<wl, queueVars, bits, sb>>

NotifyTakeEnd(t) ==
  /\ At(t, "ntake2")
  /\ K' = NotifyTaken(K, TRUE)
  /\ IF K.nval[t] = 0 THEN Expire(t) ELSE Return(t)
  /\ UNCHANGED <<wl, queueVars, bits, sb>>

NotifyWait(t) ==
  /\ At(t, "nwait")
  /\ K' = NotifyBlock(K, K.nstate[t] # "received", L[t].wait)
  /\ Goto(t, "nwait2")
  /\ UNCHANGED <<wl, queueVars, bits, sb>>

NotifyWaitEnd(t) ==
  /\ At(t, "nwait2")
  /\ K' = [K EXCEPT !.nstate[t] = "not"]
  /\ IF K.nstate[t] # "received" THEN Expire(t) ELSE Return(t)
  /\ UNCHANGED <<wl, queueVars, bits, sb>>

TaskStep(t) ==
  \/ \E c \in wl.menu[t] : Call(t, c)
  \/ SuspendAll(t) \/ Delay(t) \/ DelayUntil(t) \/ NextPeriod(t) \/ LockEnd(t) \/ ResumeAll(t) \/ Yield(t) \/ Expired(t)
  \/ PrioritySet(t) \/ Suspend(t) \/ SuspendEnd(t) \/ Resume(t)
  \/ Delete(t) \/ Create(t) \/ CreateEnd(t)
  \/ Notify(t) \/ NotifyTake(t) \/ NotifyTakeEnd(t) \/ NotifyWait(t) \/ NotifyWaitEnd(t)
=============================================================================
