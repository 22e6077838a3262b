------------------------------- MODULE Kernel -------------------------------
(***************************************************************************)
(* FreeRTOS as the firmware runs it: the tasks, queues and event groups of *)
(* KTask, KQueue and KEvents under the tick, the software interrupt and    *)
(* the interrupts that call the kernel; and what the kernel promises.      *)
(***************************************************************************)
EXTENDS KStream

Init == KInit /\ QInit /\ EInit /\ SInit

Step(t) == TaskStep(t) \/ QueueStep(t) \/ EventStep(t) \/ StreamStep(t)

Isr(c) == IsrNotify(c) \/ IsrResume(c) \/ IsrSend(c) \/ IsrReceive(c)
  \/ IsrStreamSend(c) \/ IsrStreamReceive(c)

Next ==
  \/ \E t \in Tasks : Step(t)
  \/ IdleStep
  \/ SoftIrq
  \/ TickIrq
  \/ \E c \in wl.isr : Isr(c)

Spec == Init /\ [][Next]_vars

(* -------------------------------- types ------------------------------- *)

Delayed == [task : Tasks, wake : Tick]

\* The types of the kernel's state and of the tasks' locals.
TypeOK ==
  /\ K.cur \in Tasks
  /\ K.ready \in [Priorities -> Seq(Tasks \cup {End})] /\ K.bits \subseteq Priorities
  /\ K.delayed \in Seq(Delayed) /\ K.overflow \in Seq(Delayed)
  /\ K.suspended \subseteq Tasks /\ K.term \subseteq Tasks
  /\ K.ev \in [EventLists -> Seq(Tasks)] /\ K.pending \in Seq(Tasks)
  /\ K.prio \in [Tasks -> Priorities] /\ K.base \in [Tasks -> Priorities]
  /\ K.evval \in [Tasks -> 1 .. MaxPriorities]
  /\ K.tick \in Tick /\ K.next \in Tick
  /\ K.susp \in 0 .. 1 /\ K.pended \in 0 .. MaxPend
  /\ K.yieldp \in BOOLEAN /\ K.msip \in BOOLEAN
  /\ K.nstate \in [Tasks -> {"not", "waiting", "received"}]
  /\ K.nval \in [Tasks -> 0 .. MaxNotify]
  /\ age \in [Tasks -> Tick]
  /\ msgs \in [Queues -> Nat] /\ \A q \in Queues : msgs[q] <= Length[q]
  /\ holder \in [Queues -> Tasks \cup {Null}]
  /\ held \in [Tasks -> 0 .. Cardinality(Mutexes)]
  /\ rec \in [Queues -> 0 .. MaxLock]
  /\ tx \in [Queues -> Lock] /\ rx \in [Queues -> Lock]
  /\ \A s \in Streams : /\ sb[s].head \in 0 .. xLength[s] - 1
                        /\ sb[s].tail \in 0 .. xLength[s] - 1
                        /\ {sb[s].rx, sb[s].tx} \subseteq Tasks \cup {Null}

(* ------------------------------ properties ---------------------------- *)

\* Where the two list items of a task are.
StatePlaces(t) ==
  UNION { { <<"ready", p, i>> : i \in { j \in DOMAIN K.ready[p] : K.ready[p][j] = t } } :
          p \in Priorities }
  \cup { <<"delayed", 0, i>> : i \in { j \in DOMAIN K.delayed : K.delayed[j].task = t } }
  \cup { <<"overflow", 0, i>> : i \in { j \in DOMAIN K.overflow : K.overflow[j].task = t } }
  \cup { <<l, 0, 0>> : l \in { x \in {"suspended", "term"} : t \in K[x] } }
EventPlaces(t) ==
  UNION { { <<l, i>> : i \in { j \in DOMAIN K.ev[l] : K.ev[l][j] = t } } : l \in EventLists }
  \cup { << <<"pending">>, i>> : i \in { j \in DOMAIN K.pending : K.pending[j] = t } }

\* Through every call, wake-up, timeout and interrupt, the state item of a
\* task is in one list and its event item in at most one, a task that waits
\* on a queue or a group is not ready, and a bit of
\* uxTopReadyPriority says that a list has tasks.
ListsExact ==
  /\ TypeOK
  /\ \A t \in Tasks :
       /\ \/ Cardinality(StatePlaces(t)) = 1
          \/ StatePlaces(t) = {} /\ t \in wl.mortal
       /\ Cardinality(EventPlaces(t)) <= 1
       /\ (\E l \in EventLists : IsWaiting(K, t, l)) => IsDelayed(K, t) \/ t \in K.suspended
  /\ K.bits = { p \in Priorities : ~ListEmpty(K, p) }

\* While the scheduler is not suspended and no yield is pending, no ready
\* task has a higher priority than the one that runs.  (xTaskCreate yields
\* after its critical section.)
HighestRuns ==
  (K.susp = 0 /\ ~K.msip /\ L[K.cur].pc # "create2") =>
    \A t \in Tasks : IsReady(K, t) => K.prio[t] <= Cur(K)

\* A delayed task is still to be woken: across the wrap of the tick counter
\* its time lies ahead in the list it is in, the lists are sorted, and the
\* tick interrupt looks at them in time.
NoOversleep ==
  /\ \A i \in DOMAIN K.delayed : K.delayed[i].wake > K.tick /\ K.next <= K.delayed[i].wake
  /\ \A i \in DOMAIN K.overflow : K.overflow[i].wake < K.tick
  /\ \A l \in {K.delayed, K.overflow} :
       \A i, j \in DOMAIN l : i < j => l[i].wake <= l[j].wake

\* Woken from the list of a queue, and not yet back at the queue.
InFlight(l) ==
  { t \in Tasks : /\ L[t].out = "blocked" /\ Own(L[t].call) = l
                  /\ L[t].pc \in {"unlock tx", "unlock rx", "resume", "yield", "try"}
                  /\ ~IsWaiting(K, t, l) }
Locked(n) == IF n = -1 THEN 0 ELSE n

\* No wake-up is lost between a failed try and the event list: while tasks
\* wait to receive, every item in the queue is accounted for by a task woken
\* for it or a count in the lock; the same for senders and free slots.
NoLostWakeup ==
  \A q \in Queues :
    /\ K.ev[<<q, "recv">>] # <<>> =>
         msgs[q] <= Cardinality(InFlight(<<q, "recv">>)) + Locked(tx[q])
    /\ K.ev[<<q, "send">>] # <<>> =>
         Length[q] - msgs[q] <= Cardinality(InFlight(<<q, "send">>)) + Locked(rx[q])

\* A mutex is free or has one holder, and uxMutexesHeld counts what a task
\* holds: the count decides when an inherited priority is given back.
MutexExact ==
  /\ \A m \in Mutexes : msgs[m] = 0 <=> holder[m] # Null
  /\ \A t \in Tasks : held[t] = Cardinality({ m \in Mutexes : holder[m] = t })

\* A recursive mutex is given at its last level and not before: levels are
\* counted only while it has a holder.
RecursionExact == \A m \in Mutexes : rec[m] # 0 => holder[m] # Null

\* Whoever waits for a mutex, its holder has at least that priority; without
\* a mutex a task has its own priority; and the waiter of the highest
\* priority comes first.
Inherits ==
  /\ \A m \in Mutexes :
       LET l == K.ev[<<m, "recv">>]
       IN \A i \in DOMAIN l :
            /\ holder[m] # Null => K.prio[holder[m]] >= K.prio[l[i]]
            /\ K.prio[l[1]] >= K.prio[l[i]]
  /\ \A t \in Tasks : held[t] = 0 => K.prio[t] = K.base[t]

\* Mutexes know their holders, levels and waiters, and holders the priority
\* they run at, through timeouts of waiters and interleaved takes and gives.
MutexesExact == MutexExact /\ RecursionExact /\ Inherits

\* No call gives up before its time, whatever happens in between: ticks held
\* back, wake-ups that found nothing, the wrap of the tick counter.
NoEarlyTimeout ==
  \A t \in Tasks : At(t, "expired") =>
    /\ age[t] >= L[t].call.n
    /\ ~Endless(L[t])

\* A periodic task does not drift: while it sleeps, what is left and what has
\* passed since the last wake time, ticks held back included, is one period,
\* however late the task came and wherever the tick counter wraps.
Punctual ==
  \A l \in {K.delayed, K.overflow} : \A i \in DOMAIN l :
    LET t == l[i].task
    IN L[t].call.op = "until" =>
         ((l[i].wake - K.tick) % TickMod) + age[t] - K.pended = L[t].call.n

\* Time is kept: a task is woken when its time is up, neither late nor early.
Timely == NoOversleep /\ NoEarlyTimeout /\ Punctual

\* A task that waits for a notification has not been notified, or is on its
\* way to the ready list.
NoLostNotify ==
  \A t \in Tasks :
    (~IsReady(K, t) /\ ~IsPending(K, t) /\ t \notin K.suspended \cup K.term) =>
      /\ L[t].pc = "ntake2" => K.nval[t] = 0
      /\ L[t].pc = "nwait2" => K.nstate[t] # "received"

\* Nobody waits for bits that are set.
BitsSeen ==
  K.susp = 0 => \A g \in Groups : \A t \in Tasks :
                  IsWaiting(K, t, <<g, "bits">>) => ~Met(t, bits[g])

\* What lies between xTail and xHead of a stream buffer is what was written
\* and not yet read, in order, whenever writer and reader interrupt each other.
Intact ==
  \A s \in Streams :
    LET b == sb[s]
    IN /\ Len(b.log) = prvBytesInBuffer(s)
       /\ \A i \in DOMAIN b.log : b.buf[Wrap(s, b.tail + i - 1)] = b.log[i]

\* A reader that has read the length of a message finds all of its data,
\* although the writer publishes the length first.
MessageWhole ==
  \A t \in Tasks :
    (L[t].pc = "sdrain" /\ L[t].call.obj \in Messages) => L[t].len <= L[t].num

\* A stream buffer gives back what went in: bytes in order, messages whole.
StreamsIntact == Intact /\ MessageWhole

\* A task that sleeps on a stream buffer has nothing to do, or the other side
\* is on its way to notify it: there is no space for what the writer waits to
\* send, and less than the trigger level for the reader.
Busy(s, op, pcs) ==
  \E t \in Tasks : L[t].call.obj = s /\ L[t].call.op = op /\ L[t].pc \in pcs
Asleep(t) == K.nstate[t] = "waiting" /\ ~IsReady(K, t)
StreamWakes ==
  \A s \in Streams : \A t \in Tasks :
    /\ (L[t].pc = "swait2" /\ L[t].call.obj = s /\ Asleep(t)) =>
         \/ xStreamBufferSpacesAvailable(s) < Required(L[t].call)
         \/ Busy(s, "srecv", {"sdrain", "srestore", "ssusp", "snotify"})
         \/ Busy(s, "snext", {"srestore"})
    /\ (L[t].pc = "rwait2" /\ L[t].call.obj = s /\ Asleep(t)) =>
         \/ prvBytesInBuffer(s) <= Header(s)
         \/ prvBytesInBuffer(s) < xTriggerLevelBytes[s]
         \/ Busy(s, "ssend", {"strig", "ssusp", "snotify"})

\* Nobody sleeps through what he waits for: items and room in a queue, a
\* notification, bits of a group, bytes and room in a stream buffer.
NothingMissed == NoLostWakeup /\ NoLostNotify /\ BitsSeen /\ StreamWakes

\* "The maximum amount of time the task should remain in the Blocked state to
\* wait for data": a receive that comes back empty has waited that long.
ReceiveWaits ==
  \A t \in Tasks :
    (At(t, "sread") /\ ~Something(L[t].call.obj, L[t].num)) => age[t] >= L[t].call.n

\* "configASSERT( xBytesAvailable == 0 )" of xStreamBufferNextMessageLengthBytes:
\* a buffer without a whole message is empty.
NoLengthAlone ==
  \A t \in Tasks :
    (At(t, "snext") /\ ~Something(L[t].call.obj, prvBytesInBuffer(L[t].call.obj))) =>
      prvBytesInBuffer(L[t].call.obj) = 0

\* Round robin: of the ready tasks of one priority none is overtaken.  Who
\* becomes ready comes behind, and every turn another takes brings a task
\* nearer to its own.  (The task pxIndex points at has had its turn.)
Ahead(k, t) ==
  LET ring == k.ready[k.prio[t]]
      at   == CHOOSE i \in DOMAIN ring : ring[i] = t
  IN Cardinality({ i \in DOMAIN ring : i < at /\ ring[i] # End })
Queued(k, t) == IsReady(k, t) /\ Last(k.ready[k.prio[t]]) # t
NotOvertaken(t) ==
  (Queued(K, t) /\ Queued(K', t) /\ K'.prio[t] = K.prio[t]) =>
    /\ Ahead(K', t) <= Ahead(K, t)
    /\ (K'.cur # K.cur /\ K'.prio[K'.cur] = K'.prio[t]) => Ahead(K', t) < Ahead(K, t)
NoOvertaking == [][\A t \in Tasks : NotOvertaken(t)]_vars
=============================================================================
