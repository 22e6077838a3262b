------------------------------- MODULE Sched --------------------------------
(***************************************************************************)
(* The scheduler of FreeRTOS as this firmware builds it: the lists of      *)
(* list.c and the functions of tasks.c that move tasks between them, as    *)
(* operators from one state of the scheduler to the next.                  *)
(*                                                                         *)
(* The state is a record K of the globals of tasks.c and the fields of the *)
(* TCBs.  An operator stands for a function that runs with interrupts      *)
(* masked, or with the scheduler suspended and no interrupt touching what  *)
(* it touches; Kernel calls them as steps.                                 *)
(*                                                                         *)
(* A ready list is the ring of its items and its end marker, turned so     *)
(* that the item pxIndex points at comes last.  pxIndex of the other lists *)
(* never leaves their end marker, so they are plain sequences.             *)
(***************************************************************************)
EXTENDS Integers, Sequences, FiniteSets, SequencesExt

CONSTANTS
  Tasks,          \* the tasks of the application and Idle
  Idle,           \* the idle task: always ready, priority 0
  End,            \* the end marker of a ready list
  EventLists,     \* event lists: two of every queue, one of an event group
  MaxPriorities,  \* configMAX_PRIORITIES
  TickMod         \* the tick counter wraps to 0 after TickMod - 1

ASSUME SchedAssumption ==
  /\ IsFiniteSet(Tasks) /\ Idle \in Tasks /\ End \notin Tasks
  /\ MaxPriorities \in Nat \ {0}
  /\ TickMod \in Nat /\ TickMod >= 3

Priorities == 0 .. MaxPriorities - 1
Tick == 0 .. TickMod - 1
portMAX_DELAY == TickMod - 1
NotInUse == [bits |-> {}, clear |-> FALSE, all |-> FALSE, set |-> FALSE, use |-> FALSE]

(* ------------------------------ list.c -------------------------------- *)

Without(s, x) == SelectSeq(s, LAMBDA y : y # x)

\* Mutant of vListInsertEnd: after the item pxIndex points at.
InsertNext(ring, t) == <<t>> \o ring

\* Before the item pxIndex points at.
vListInsertEnd(ring, t) == Front(ring) \o <<t, Last(ring)>>

\* After the items whose value is not larger.
vListInsert(list, item, Value(_)) ==
  LET after == { i \in 1 .. Len(list) : Value(list[i]) > Value(item) }
  IN IF after = {} THEN Append(list, item)
     ELSE InsertAt(list, CHOOSE i \in after : \A j \in after : i <= j, item)

\* One step of pxIndex, and another if it lands on the end marker.
listGET_OWNER_OF_NEXT_ENTRY(ring) ==
  LET Turn(r) == Append(Tail(r), Head(r))
  IN IF Last(Turn(ring)) = End THEN Turn(Turn(ring)) ELSE Turn(ring)

uxListRemoveState(K, t) ==
  [K EXCEPT !.ready = [p \in Priorities |-> Without(@[p], t)],
            !.delayed = SelectSeq(@, LAMBDA d : d.task # t),
            !.overflow = SelectSeq(@, LAMBDA d : d.task # t),
            !.suspended = @ \ {t},
            !.term = @ \ {t}]

uxListRemoveEvent(K, t) ==
  [K EXCEPT !.ev = [l \in EventLists |-> Without(@[l], t)],
            !.pending = Without(@, t)]

ListEmpty(K, p) == K.ready[p] = <<End>>
IsReady(K, t) == \E i \in DOMAIN K.ready[K.prio[t]] : K.ready[K.prio[t]][i] = t
IsDelayed(K, t) ==
  \/ \E i \in DOMAIN K.delayed : K.delayed[i].task = t
  \/ \E i \in DOMAIN K.overflow : K.overflow[i].task = t
IsPending(K, t) == \E i \in DOMAIN K.pending : K.pending[i] = t
IsWaiting(K, t, l) == \E i \in DOMAIN K.ev[l] : K.ev[l][i] = t
OnEventList(K, t) == IsPending(K, t) \/ \E l \in EventLists : IsWaiting(K, t, l)

(* -------------------- ready lists and the bit map --------------------- *)

prvAddTaskToReadyList(K, t) ==
  [K EXCEPT !.ready[K.prio[t]] = vListInsertEnd(@, t), !.bits = @ \cup {K.prio[t]}]

taskRESET_READY_PRIORITY(K, p) ==
  IF ListEmpty(K, p) THEN [K EXCEPT !.bits = @ \ {p}] ELSE K

\* Mutant of Unready: the bit stays.
UnreadyBitStays(K, t) == uxListRemoveState(K, t)

\* uxListRemove of a ready task and the reset of its bit when it was the last.
Unready(K, t) == taskRESET_READY_PRIORITY(uxListRemoveState(K, t), K.prio[t])

\* With an empty list under the highest bit, the owner of the end marker.
taskSELECT_HIGHEST_PRIORITY_TASK(K) ==
  LET top  == CHOOSE p \in K.bits : \A q \in K.bits : q <= p
      ring == listGET_OWNER_OF_NEXT_ENTRY(K.ready[top])
  IN [K EXCEPT !.ready[top] = ring, !.cur = Last(ring)]

vTaskSwitchContext(K) ==
  IF K.susp # 0 THEN [K EXCEPT !.yieldp = TRUE]
  ELSE taskSELECT_HIGHEST_PRIORITY_TASK([K EXCEPT !.yieldp = FALSE])

\* portYIELD raises the software interrupt, whose handler switches context.
portYIELD(K) == [K EXCEPT !.msip = TRUE]
YieldIf(K, c) == IF c THEN portYIELD(K) ELSE K

Cur(K) == K.prio[K.cur]

(* ---------------------- the tick and delayed tasks -------------------- *)

prvResetNextTaskUnblockTime(K) ==
  [K EXCEPT !.next = IF K.delayed = <<>> THEN portMAX_DELAY ELSE Head(K.delayed).wake]

\* Mutant of taskSWITCH_DELAYED_LISTS: xNextTaskUnblockTime is left as it was.
SwitchListsOnly(K) == [K EXCEPT !.delayed = K.overflow, !.overflow = K.delayed]

\* xNumOfOverflows is kept by those who compare it: see Wrapped in KTask.
taskSWITCH_DELAYED_LISTS(K) ==
  prvResetNextTaskUnblockTime(
    [K EXCEPT !.delayed = K.overflow, !.overflow = K.delayed])

prvAddCurrentTaskToDelayedList(K, wait, canBlockForEver) ==
  LET t    == K.cur
      wake == (K.tick + wait) % TickMod
      item == [task |-> t, wake |-> wake]
      out  == Unready(K, t)
      Wake(d) == d.wake
  IN IF wait = portMAX_DELAY /\ canBlockForEver
     THEN [out EXCEPT !.suspended = @ \cup {t}]
     ELSE IF wake < K.tick
     THEN [out EXCEPT !.overflow = vListInsert(@, item, Wake)]
     ELSE [out EXCEPT !.delayed = vListInsert(@, item, Wake),
                      !.next = IF wake < @ THEN wake ELSE @]

\* A tick; k the scheduler after it, sw whether a switch is due.
xTaskIncrementTick(K) ==
  LET now  == (K.tick + 1) % TickMod
      k1   == IF now = 0 THEN taskSWITCH_DELAYED_LISTS([K EXCEPT !.tick = now])
                         ELSE [K EXCEPT !.tick = now]
      due  == SelectSeq(k1.delayed, LAMBDA d : d.wake <= now)
      Unblock(k, d) ==
        prvAddTaskToReadyList(uxListRemoveEvent(uxListRemoveState(k, d.task), d.task), d.task)
      k2   == prvResetNextTaskUnblockTime(FoldLeft(Unblock, k1, due))
      looked == now >= k1.next
      k3   == IF looked THEN k2 ELSE k1
  IN IF K.susp # 0 THEN [k |-> [K EXCEPT !.pended = @ + 1], sw |-> FALSE]
     ELSE [k  |-> k3,
           sw |-> \/ looked /\ \E i \in DOMAIN due : K.prio[due[i].task] >= Cur(K)
                  \/ Len(k3.ready[Cur(K)]) > 2
                  \/ K.yieldp]

(* ------------------- suspending the whole scheduler ------------------- *)

vTaskSuspendAll(K) == [K EXCEPT !.susp = @ + 1]

\* Tasks readied meanwhile, then the ticks held back; already: it yielded.
xTaskResumeAll(K) ==
  LET k0 == [K EXCEPT !.susp = @ - 1]
      Ready(k, t) ==
        prvAddTaskToReadyList(uxListRemoveState(uxListRemoveEvent(k, t), t), t)
      k1 == FoldLeft(Ready, k0, K.pending)
      k2 == IF K.pending = <<>> THEN k1 ELSE prvResetNextTaskUnblockTime(k1)
      k3 == [k2 EXCEPT !.yieldp = @ \/ \E i \in DOMAIN K.pending : K.prio[K.pending[i]] >= Cur(K)]
      OneTick(k, i) ==
        LET r == xTaskIncrementTick(k) IN [r.k EXCEPT !.yieldp = @ \/ r.sw]
      k4 == [FoldLeft(OneTick, k3, [i \in 1 .. K.pended |-> i]) EXCEPT !.pended = 0]
  IN IF k0.susp # 0 THEN [k |-> k0, already |-> FALSE]
     ELSE [k |-> YieldIf(k4, k4.yieldp), already |-> k4.yieldp]

(* ----------------------------- event lists ---------------------------- *)

vTaskPlaceOnEventList(K, l, wait) ==
  LET Value(t) == K.evval[t]
  IN prvAddCurrentTaskToDelayedList(
       [K EXCEPT !.ev[l] = vListInsert(@, K.cur, Value)], wait, TRUE)

vTaskPlaceOnUnorderedEventList(K, l, value, wait) ==
  prvAddCurrentTaskToDelayedList(
    [K EXCEPT !.ev[l] = Append(@, K.cur), !.evbits[K.cur] = [value EXCEPT !.use = TRUE]],
    wait, TRUE)

\* higher: the task is of higher priority than the running one.
xTaskRemoveFromEventList(K, l) ==
  LET t  == Head(K.ev[l])
      k1 == [K EXCEPT !.ev[l] = Tail(@)]
      k2 == IF K.susp = 0 THEN prvAddTaskToReadyList(uxListRemoveState(k1, t), t)
                          ELSE [k1 EXCEPT !.pending = Append(@, t)]
      higher == K.prio[t] > Cur(K)
  IN [k |-> [k2 EXCEPT !.yieldp = @ \/ higher], higher |-> higher]

\* The head of an event list woken, if there is one.
WakeHead(K, l) ==
  IF K.ev[l] = <<>> THEN [k |-> K, higher |-> FALSE] ELSE xTaskRemoveFromEventList(K, l)

vTaskRemoveFromUnorderedEventList(K, t, value) ==
  LET k1 == [uxListRemoveEvent(K, t) EXCEPT !.evbits[t] = [value EXCEPT !.use = TRUE]]
      k2 == prvAddTaskToReadyList(uxListRemoveState(k1, t), t)
  IN [k2 EXCEPT !.yieldp = @ \/ K.prio[t] > Cur(K)]

uxTaskResetEventItemValue(K, t) ==
  [K EXCEPT !.evbits[t] = NotInUse, !.evval[t] = MaxPriorities - K.prio[t]]

(* ------------------------ priority inheritance ------------------------ *)

SetEventValue(K, t, p) ==
  IF K.evbits[t].use THEN K ELSE [K EXCEPT !.evval[t] = MaxPriorities - p]

SetPriority(K, t, p) == [K EXCEPT !.prio[t] = p]

\* Mutant of xTaskPriorityInherit: a holder that is not ready inherits nothing.
InheritIfReady(K, holder) ==
  IF K.prio[holder] < Cur(K) /\ IsReady(K, holder)
  THEN [k |-> prvAddTaskToReadyList(SetPriority(Unready(K, holder), holder, Cur(K)), holder),
        inherited |-> TRUE]
  ELSE [k |-> K, inherited |-> K.base[holder] < Cur(K)]

\* The running task is about to wait for a mutex that holder has.
xTaskPriorityInherit(K, holder) ==
  LET k1 == SetEventValue(K, holder, Cur(K))
      k2 == IF IsReady(K, holder)
            THEN prvAddTaskToReadyList(SetPriority(Unready(k1, holder), holder, Cur(K)), holder)
            ELSE SetPriority(k1, holder, Cur(K))
  IN IF K.prio[holder] < Cur(K) THEN [k |-> k2, inherited |-> TRUE]
     ELSE [k |-> K, inherited |-> K.base[holder] < Cur(K)]

\* The holder gives a mutex and keeps left of them; yield: it lost priority.
xTaskPriorityDisinherit(K, holder, left) ==
  LET k1 == SetPriority(Unready(K, holder), holder, K.base[holder])
      k2 == [k1 EXCEPT !.evval[holder] = MaxPriorities - K.base[holder]]
  IN IF K.prio[holder] # K.base[holder] /\ left = 0
     THEN [k |-> prvAddTaskToReadyList(k2, holder), yield |-> TRUE]
     ELSE [k |-> K, yield |-> FALSE]

\* The bit that is reset is that of the priority just assigned.
vTaskPriorityDisinheritAfterTimeout(K, holder, held, highest) ==
  LET use == IF K.base[holder] < highest THEN highest ELSE K.base[holder]
      k1  == SetEventValue(SetPriority(K, holder, use), holder, use)
      k2  == uxListRemoveState(k1, holder)
      k3  == IF ListEmpty(k2, K.prio[holder]) THEN [k2 EXCEPT !.bits = @ \ {use}] ELSE k2
  IN IF K.prio[holder] = use \/ held # 1 THEN K
     ELSE IF IsReady(K, holder) THEN prvAddTaskToReadyList(k3, holder) ELSE k1

(* -------------------------- tasks on their own ------------------------ *)

vTaskPrioritySet(K, t, p) ==
  LET up    == p > K.base[t]
      yield == IF up THEN t # K.cur /\ p >= Cur(K) ELSE t = K.cur
      k1    == IF IsReady(K, t) THEN Unready(K, t) ELSE K
      k2    == [k1 EXCEPT !.prio[t] = IF K.base[t] = @ THEN p ELSE @, !.base[t] = p]
      k3    == SetEventValue(k2, t, p)
      k4    == IF IsReady(K, t) THEN prvAddTaskToReadyList(k3, t) ELSE k3
  IN IF K.base[t] = p THEN K ELSE YieldIf(k4, yield)

\* The first critical section of vTaskSuspend.
SuspendTask(K, t) ==
  LET k1 == uxListRemoveEvent(Unready(K, t), t)
  IN [k1 EXCEPT !.suspended = @ \cup {t},
                !.nstate[t] = IF @ = "waiting" THEN "not" ELSE @]

prvTaskIsTaskSuspended(K, t) == t \in K.suspended /\ ~OnEventList(K, t)

\* Mutant of vTaskResume: no yield to the task it resumed.
ResumeNoYield(K, t) ==
  IF t # K.cur /\ prvTaskIsTaskSuspended(K, t)
  THEN prvAddTaskToReadyList(uxListRemoveState(K, t), t) ELSE K

vTaskResume(K, t) ==
  IF t # K.cur /\ prvTaskIsTaskSuspended(K, t)
  THEN YieldIf(prvAddTaskToReadyList(uxListRemoveState(K, t), t), K.prio[t] >= Cur(K))
  ELSE K

xTaskResumeFromISR(K, t) ==
  LET higher == K.prio[t] >= Cur(K)
      k1     == prvAddTaskToReadyList(uxListRemoveState(K, t), t)
  IN IF ~prvTaskIsTaskSuspended(K, t) THEN [k |-> K, higher |-> FALSE]
     ELSE IF K.susp = 0 THEN [k |-> [k1 EXCEPT !.yieldp = @ \/ higher], higher |-> higher]
     ELSE [k |-> [K EXCEPT !.pending = Append(@, t)], higher |-> FALSE]

\* The critical section of vTaskDelete: the caller itself waits for Idle to
\* free it, another task is freed at once.
vTaskDelete(K, t) ==
  LET k1 == uxListRemoveEvent(Unready(K, t), t)
  IN IF t = K.cur THEN [k1 EXCEPT !.term = @ \cup {t}]
     ELSE prvResetNextTaskUnblockTime(k1)

\* The critical section of prvAddNewTaskToReadyList, with the TCB as
\* prvInitialiseNewTask leaves it.
prvAddNewTaskToReadyList(K, t, p) ==
  prvAddTaskToReadyList(
    [K EXCEPT !.prio[t] = p, !.base[t] = p, !.evval[t] = MaxPriorities - p,
              !.evbits[t] = NotInUse, !.nstate[t] = "not", !.nval[t] = 0], t)

(* ------------------------- task notifications ------------------------- *)

\* The value after an eAction on a notification in state old.
NotifiedValue(value, old, action, v) ==
  CASE action = "increment" -> value + 1
    [] action = "overwrite" -> v
    [] action = "no overwrite" -> IF old = "received" THEN value ELSE v
    [] action = "none" -> value

Notified(K, t, action, v) ==
  [K EXCEPT !.nval[t] = NotifiedValue(@, K.nstate[t], action, v), !.nstate[t] = "received"]

\* Mutant of xTaskGenericNotify: looks for a waiter after it set the state.
NotifyThenLook(K, t, action, v) == Notified(K, t, action, v)

\* From a task: the notified task is readied even if the scheduler is
\* suspended.
xTaskGenericNotify(K, t, action, v) ==
  LET k1 == Notified(K, t, action, v)
      k2 == prvAddTaskToReadyList(uxListRemoveState(k1, t), t)
  IN IF K.nstate[t] # "waiting" THEN k1 ELSE YieldIf(k2, K.prio[t] > Cur(K))

\* From an interrupt, vTaskGenericNotifyGiveFromISR with "increment".
xTaskGenericNotifyFromISR(K, t, action, v) ==
  LET k1 == Notified(K, t, action, v)
      k2 == IF K.susp = 0 THEN prvAddTaskToReadyList(uxListRemoveState(k1, t), t)
                          ELSE [k1 EXCEPT !.pending = Append(@, t)]
      higher == K.prio[t] > Cur(K)
  IN IF K.nstate[t] # "waiting" THEN [k |-> k1, higher |-> FALSE]
     ELSE [k |-> [k2 EXCEPT !.yieldp = @ \/ higher], higher |-> higher]

\* The first critical sections of ulTaskGenericNotifyTake (empty: no count)
\* and xTaskGenericNotifyWait (empty: nothing received).
NotifyBlock(K, empty, wait) ==
  LET k1 == [K EXCEPT !.nstate[K.cur] = "waiting"]
  IN IF ~empty THEN K ELSE IF wait = 0 THEN k1
     ELSE portYIELD(prvAddCurrentTaskToDelayedList(k1, wait, TRUE))

\* The second critical section of ulTaskGenericNotifyTake.
NotifyTaken(K, clear) ==
  [K EXCEPT !.nval[K.cur] = IF @ = 0 \/ clear THEN 0 ELSE @ - 1, !.nstate[K.cur] = "not"]

(* --------------------- the state at vTaskStartScheduler ----------------- *)

\* Every task created and ready, the last one of the highest priority to run.
Started(prio, created) ==
  LET Of(p)  == SelectSeq(created, LAMBDA t : prio[t] = p)
      top    == CHOOSE p \in Priorities :
                  Of(p) # <<>> /\ \A q \in Priorities : Of(q) # <<>> => q <= p
  IN [cur |-> Last(Of(top)), prio |-> prio, base |-> prio,
      ready |-> [p \in Priorities |-> Append(Of(p), End)],
      bits |-> { p \in Priorities : Of(p) # <<>> },
      delayed |-> <<>>, overflow |-> <<>>, suspended |-> {}, term |-> {},
      ev |-> [l \in EventLists |-> <<>>], pending |-> <<>>,
      evval |-> [t \in Tasks |-> MaxPriorities - prio[t]],
      evbits |-> [t \in Tasks |-> NotInUse],
      tick |-> 0, next |-> portMAX_DELAY, susp |-> 0, pended |-> 0,
      yieldp |-> FALSE, msip |-> FALSE,
      nstate |-> [t \in Tasks |-> "not"], nval |-> [t \in Tasks |-> 0]]
=============================================================================
