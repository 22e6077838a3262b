------------------------------- MODULE KQueue -------------------------------
(***************************************************************************)
(* Queues, semaphores and mutexes of queue.c.                              *)
(*                                                                         *)
(* A call that blocks goes round a loop: try; suspend the scheduler and    *)
(* lock the queue; look at the time; look at the queue again; put itself   *)
(* on the event list; unlock; resume.  Interrupts that use a locked queue  *)
(* leave the event lists alone and count in the lock instead.              *)
(***************************************************************************)
EXTENDS KTask

QInit ==
  /\ msgs = [q \in Queues |-> IF q \in Mutexes THEN 1 ELSE 0]
  /\ holder = [q \in Queues |-> Null]
  /\ held = [t \in Tasks |-> 0]
  /\ rec = [q \in Queues |-> 0]
  /\ tx = [q \in Queues |-> -1]
  /\ rx = [q \in Queues |-> -1]

Sends(op) == op \in {"send", "overwrite", "give"}

\* The list a call waits on.
Own(c) == <<c.obj, IF Sends(c.op) THEN "send" ELSE "recv">>

CanGo(c) == IF Sends(c.op) THEN msgs[c.obj] < Length[c.obj] \/ c.op = "overwrite"
            ELSE msgs[c.obj] > 0

(* ---------------------- the first critical section -------------------- *)

\* prvCopyDataToQueue for an item, and the receiver it wakes.
Send(t) ==
  LET c == L[t].call
      r == WakeHead(K, <<c.obj, "recv">>)
  IN /\ At(t, "try") /\ c.op \in {"send", "overwrite"} /\ CanGo(c)
     /\ msgs' = [msgs EXCEPT ![c.obj] = IF c.op = "overwrite" THEN 1 ELSE @ + 1]
     /\ K' = YieldIf(r.k, r.higher)
     /\ Return(t)
     /\ UNCHANGED <<wl, holder, held, rec, tx, rx, bits, sb>>

\* prvCopyDataToQueue for a mutex: its holder loses the priority it
\* inherited.  The yield that asks for is lost when a waiter is woken.
Give(t) ==
  LET m == L[t].call.obj
      d == xTaskPriorityDisinherit(K, t, held[t] - 1)
      r == WakeHead(d.k, <<m, "recv">>)
  IN /\ At(t, "try") /\ L[t].call.op = "give" /\ CanGo(L[t].call)
     /\ holder[m] = t
     /\ msgs' = [msgs EXCEPT ![m] = @ + 1]
     /\ holder' = [holder EXCEPT ![m] = Null]
     /\ held' = [held EXCEPT ![t] = @ - 1]
     /\ K' = YieldIf(r.k, IF K.ev[<<m, "recv">>] = <<>> THEN d.yield ELSE r.higher)
     /\ Return(t)
     /\ UNCHANGED <<wl, rec, tx, rx, bits, sb>>

\* xQueueReceive and xQueueSemaphoreTake of a semaphore, which wake a sender.
Receive(t) ==
  LET c == L[t].call
      r == WakeHead(K, <<c.obj, "send">>)
  IN /\ At(t, "try") /\ c.op \in {"recv", "take"} /\ c.obj \notin Mutexes /\ CanGo(c)
     /\ msgs' = [msgs EXCEPT ![c.obj] = @ - 1]
     /\ K' = YieldIf(r.k, r.higher)
     /\ Return(t)
     /\ UNCHANGED <<wl, holder, held, rec, tx, rx, bits, sb>>

\* Mutant of pvTaskIncrementMutexHeldCount: not counted.
NotCounted(t) == held

pvTaskIncrementMutexHeldCount(t) == [held EXCEPT ![t] = @ + 1]

\* xQueueSemaphoreTake of a mutex; rtake counts the first level as well.
Take(t) ==
  LET m == L[t].call.obj
      r == WakeHead(K, <<m, "send">>)
  IN /\ At(t, "try") /\ L[t].call.op \in {"take", "rtake"} /\ m \in Mutexes /\ CanGo(L[t].call)
     /\ msgs' = [msgs EXCEPT ![m] = @ - 1]
     /\ holder' = [holder EXCEPT ![m] = t]
     /\ held' = pvTaskIncrementMutexHeldCount(t)
     /\ rec' = [rec EXCEPT ![m] = IF L[t].call.op = "rtake" THEN @ + 1 ELSE @]
     /\ K' = YieldIf(r.k, r.higher)
     /\ Return(t)
     /\ UNCHANGED <<wl, tx, rx, bits, sb>>

\* xQueuePeek leaves the item and wakes another receiver for it.
Peek(t) ==
  LET c == L[t].call
      r == WakeHead(K, <<c.obj, "recv">>)
  IN /\ At(t, "try") /\ c.op = "peek" /\ CanGo(c)
     /\ K' = YieldIf(r.k, r.higher)
     /\ Return(t)
     /\ UNCHANGED <<wl, queueVars, bits, sb>>

\* vTaskInternalSetTimeOutState.
Now(t) == IF Endless(L[t]) THEN Free.tmo ELSE [time |-> K.tick, wrapped |-> FALSE]

\* The queue is full or empty: fail at once, or note the time on entry.
TryFail(t) ==
  /\ At(t, "try") /\ ~CanGo(L[t].call)
  /\ IF L[t].wait = 0 THEN Expire(t)
     ELSE /\ L' = [L EXCEPT ![t].pc = "susp", ![t].set = TRUE,
                            ![t].tmo = IF L[t].set THEN @ ELSE Now(t)]
          /\ UNCHANGED age
  /\ UNCHANGED <<wl, K, queueVars, bits, sb>>

(* ------------------- with the scheduler suspended --------------------- *)

prvLockQueue(t) ==
  LET q == L[t].call.obj
      Locked(n) == IF n = -1 THEN 0 ELSE n
  IN /\ At(t, "qlock")
     /\ tx' = [tx EXCEPT ![q] = Locked(@)] /\ rx' = [rx EXCEPT ![q] = Locked(@)]
     /\ Goto(t, "check")
     /\ UNCHANGED <<wl, K, msgs, holder, held, rec, bits, sb>>

\* Ticks since the time on entry, and whether they are enough.
Elapsed(tmo) == (K.tick - tmo.time) % TickMod
\* Mutant of TimedOut: any wrap of the counter counts as the end.
TimedOutOnWrap(tmo, wait) ==
  wait # portMAX_DELAY /\ (tmo.wrapped \/ Elapsed(tmo) >= wait)

TimedOut(tmo, wait) ==
  /\ wait # portMAX_DELAY
  /\ \/ tmo.wrapped /\ K.tick >= tmo.time
     \/ Elapsed(tmo) >= wait

\* What is left to wait, from now on.
xTaskCheckForTimeOut(t) ==
  LET l == L[t]
  IN IF TimedOut(l.tmo, l.wait) THEN [l EXCEPT !.wait = 0]
     ELSE IF l.wait = portMAX_DELAY THEN l
     ELSE [l EXCEPT !.wait = @ - Elapsed(l.tmo), !.tmo = Now(t)]

CheckTime(t) ==
  LET l    == xTaskCheckForTimeOut(t)
      late == IF Sends(l.call.op) THEN "expired" ELSE "recheck"
  IN /\ At(t, "check")
     /\ L' = [L EXCEPT ![t] =
          IF TimedOut(L[t].tmo, L[t].wait) THEN [l EXCEPT !.pc = "unlock tx", !.out = late]
          ELSE [l EXCEPT !.pc = "look"]]
     /\ UNCHANGED <<wl, K, age, queueVars, bits, sb>>

\* prvIsQueueFull or prvIsQueueEmpty.
Look(t) ==
  LET c == L[t].call
  IN /\ At(t, "look")
     /\ L' = IF CanGo(c) THEN [L EXCEPT ![t].pc = "unlock tx", ![t].out = "again"]
             ELSE [L EXCEPT ![t].pc = IF c.obj \in Mutexes THEN "inherit" ELSE "place"]
     /\ UNCHANGED <<wl, K, age, queueVars, bits, sb>>

Inherit(t) ==
  LET h == holder[L[t].call.obj]
      r == IF h = Null THEN [k |-> K, inherited |-> FALSE] ELSE xTaskPriorityInherit(K, h)
  IN /\ At(t, "inherit")
     /\ K' = r.k
     /\ L' = [L EXCEPT ![t].pc = "place", ![t].inh = r.inherited]
     /\ UNCHANGED <<wl, age, queueVars, bits, sb>>

Place(t) ==
  /\ At(t, "place")
  /\ K' = vTaskPlaceOnEventList(K, Own(L[t].call), L[t].wait)
  /\ L' = [L EXCEPT ![t].pc = "unlock tx", ![t].out = "blocked"]
  /\ UNCHANGED <<wl, age, queueVars, bits, sb>>

\* Mutant of Woken: the count of the lock is dropped.
NobodyWoken(k, l, n) == k

\* prvUnlockQueue: a waiter woken for every use the lock counted.
Woken(k, l, n) ==
  LET One(x, i) == WakeHead(x, l).k
  IN FoldLeft(One, k, [i \in 1 .. n |-> i])

UnlockTx(t) ==
  LET q == L[t].call.obj
  IN /\ At(t, "unlock tx")
     /\ K' = Woken(K, <<q, "recv">>, tx[q])
     /\ tx' = [tx EXCEPT ![q] = -1]
     /\ Goto(t, "unlock rx")
     /\ UNCHANGED <<wl, msgs, holder, held, rec, rx, bits, sb>>

UnlockRx(t) ==
  LET q == L[t].call.obj
  IN /\ At(t, "unlock rx")
     /\ K' = Woken(K, <<q, "send">>, rx[q])
     /\ rx' = [rx EXCEPT ![q] = -1]
     /\ Goto(t, "resume")
     /\ UNCHANGED <<wl, msgs, holder, held, rec, tx, bits, sb>>

\* A receiver out of time looks once more before it gives up.
Recheck(t) ==
  /\ At(t, "recheck")
  /\ IF CanGo(L[t].call) THEN Goto(t, "try")
     ELSE IF L[t].inh THEN Goto(t, "disinherit") ELSE Expire(t)
  /\ UNCHANGED <<wl, K, queueVars, bits, sb>>

prvGetDisinheritPriorityAfterTimeout(m) ==
  LET l == K.ev[<<m, "recv">>] IN IF l = <<>> THEN 0 ELSE MaxPriorities - K.evval[Head(l)]

Disinherit(t) ==
  LET m == L[t].call.obj
      h == holder[m]
  IN /\ At(t, "disinherit")
     /\ K' = IF h = Null THEN K
             ELSE vTaskPriorityDisinheritAfterTimeout(
                    K, h, held[h], prvGetDisinheritPriorityAfterTimeout(m))
     /\ Expire(t)
     /\ UNCHANGED <<wl, queueVars, bits, sb>>

(* --------------------------- other calls ------------------------------ *)

\* xQueueGenericReset: one sender may go on.
Reset(t) ==
  LET q == L[t].call.obj
      r == WakeHead(K, <<q, "send">>)
  IN /\ At(t, "reset")
     /\ msgs' = [msgs EXCEPT ![q] = 0]
     /\ tx' = [tx EXCEPT ![q] = -1] /\ rx' = [rx EXCEPT ![q] = -1]
     /\ K' = YieldIf(r.k, r.higher)
     /\ Return(t)
     /\ UNCHANGED <<wl, holder, held, rec, bits, sb>>

\* xQueueTakeMutexRecursive by the holder, or by another task.
TakeRecursive(t) ==
  LET m == L[t].call.obj
  IN /\ At(t, "rtake")
     /\ IF holder[m] = t THEN rec[m] < MaxLock /\ rec' = [rec EXCEPT ![m] = @ + 1] /\ Return(t)
        ELSE Goto(t, "try") /\ UNCHANGED rec
     /\ UNCHANGED <<wl, K, msgs, holder, held, tx, rx, bits, sb>>

\* Mutant of LastLevel: every level gives the mutex.
EveryLevel(m) == TRUE

LastLevel(m) == rec[m] = 1

\* xQueueGiveMutexRecursive: the last level gives the mutex.
GiveRecursive(t) ==
  LET m == L[t].call.obj
  IN /\ At(t, "rgive")
     /\ IF holder[m] # t THEN Return(t) /\ UNCHANGED rec
        ELSE /\ rec' = [rec EXCEPT ![m] = @ - 1]
             /\ IF LastLevel(m)
                THEN /\ L' = [L EXCEPT ![t].pc = "try", ![t].call.op = "give"]
                     /\ UNCHANGED age
                ELSE Return(t)
     /\ UNCHANGED <<wl, K, msgs, holder, held, tx, rx, bits, sb>>

(* ----------------------------- interrupts ----------------------------- *)

\* xQueueGenericSendFromISR and, for a semaphore, xQueueGiveFromISR.
IsrSend(c) ==
  LET q == c.obj
      r == WakeHead(K, <<q, "recv">>)
  IN /\ c \in wl.isr /\ c.op = "send" /\ msgs[q] < Length[q]
     /\ msgs' = [msgs EXCEPT ![q] = @ + 1]
     /\ \/ tx[q] = -1 /\ FromISR(r) /\ UNCHANGED tx
        \/ tx[q] \in 0 .. MaxLock - 1 /\ tx' = [tx EXCEPT ![q] = @ + 1] /\ UNCHANGED K
     /\ UNCHANGED <<wl, L, age, holder, held, rec, rx, bits, sb>>

IsrReceive(c) ==
  LET q == c.obj
      r == WakeHead(K, <<q, "send">>)
  IN /\ c \in wl.isr /\ c.op = "recv" /\ msgs[q] > 0
     /\ msgs' = [msgs EXCEPT ![q] = @ - 1]
     /\ \/ rx[q] = -1 /\ FromISR(r) /\ UNCHANGED rx
        \/ rx[q] \in 0 .. MaxLock - 1 /\ rx' = [rx EXCEPT ![q] = @ + 1] /\ UNCHANGED K
     /\ UNCHANGED <<wl, L, age, holder, held, rec, tx, bits, sb>>

QueueStep(t) ==
  \/ Send(t) \/ Give(t) \/ Receive(t) \/ Take(t) \/ Peek(t) \/ TryFail(t)
  \/ prvLockQueue(t) \/ CheckTime(t) \/ Look(t) \/ Inherit(t) \/ Place(t)
  \/ UnlockTx(t) \/ UnlockRx(t) \/ Recheck(t) \/ Disinherit(t)
  \/ Reset(t) \/ TakeRecursive(t) \/ GiveRecursive(t)
=============================================================================
