----------------------------- MODULE KickProofs -----------------------------
(***************************************************************************)
(* Proofs along the path of a kick, for every value of the parameters: the *)
(* virtqueue's protocol decides which kicks are sent (VqNotify), a kick is *)
(* a word in the mailbox, read by the handler and the polling task         *)
(* (Msgbox), and the interrupt controller delivers its interrupt (Plic).   *)
(* The three are specifications of their own; each theorem is about one.   *)
(***************************************************************************)
EXTENDS VqNotify, Msgbox, Plic, TLAPS

-----------------------------------------------------------------------------
(* VqNotify: no wake-up is lost between the two sides of a virtqueue.      *)

(* The arithmetic of free-running indices.                                 *)

\* (uint16_t)(a - b): the distance from b to a.
LEMMA DistValue ==
  ASSUME NEW a \in Indices, NEW b \in Indices
  PROVE  /\ (a - b) % IDX_MOD \in Indices
         /\ (a - b) % IDX_MOD = IF a >= b THEN a - b ELSE a - b + IDX_MOD
BY NotifyAssumption DEF Indices

\* idx++ on a uint16_t.
LEMMA IncValue ==
  ASSUME NEW a \in Indices
  PROVE  /\ (a + 1) % IDX_MOD \in Indices
         /\ (a + 1) % IDX_MOD = IF a = IDX_MOD - 1 THEN 0 ELSE a + 1
BY NotifyAssumption DEF Indices

\* A published entry lengthens the window of pending entries by one.
LEMMA DistInc ==
  ASSUME NEW a \in Indices, NEW b \in Indices, (a - b) % IDX_MOD < IDX_MOD - 1
  PROVE  (((a + 1) % IDX_MOD) - b) % IDX_MOD = ((a - b) % IDX_MOD) + 1
<1> DEFINE i == (a + 1) % IDX_MOD
<1>1. i \in Indices /\ i = IF a = IDX_MOD - 1 THEN 0 ELSE a + 1
  BY IncValue
<1>2. (i - b) % IDX_MOD = IF i >= b THEN i - b ELSE i - b + IDX_MOD
  BY <1>1, DistValue
<1>3. (a - b) % IDX_MOD = IF a >= b THEN a - b ELSE a - b + IDX_MOD
  BY DistValue
<1> HIDE DEF i
<1>4. (i - b) % IDX_MOD = ((a - b) % IDX_MOD) + 1
  BY <1>1, <1>2, <1>3, NotifyAssumption DEF Indices
<1> QED
  BY <1>4 DEF i

\* vring_need_event: the event index lies among the q entries published last,
\* 16 bits wide and across the wrap.
LEMMA NeedEventIs ==
  ASSUME NEW i \in Indices, NEW e \in Indices, NEW q \in 0..MaxBatch
  PROVE  NeedEvent(e, i, (i - q) % IDX_MOD)
           <=> (i - e) % IDX_MOD \in 1..q
<1>1. q \in Indices
  BY NotifyAssumption DEF Indices
<1> DEFINE old == (i - q) % IDX_MOD
<1>2. old \in Indices /\ old = IF i >= q THEN i - q ELSE i - q + IDX_MOD
  BY <1>1, DistValue
<1>3. (i - old) % IDX_MOD = IF i >= old THEN i - old ELSE i - old + IDX_MOD
  BY <1>2, DistValue
<1> HIDE DEF old
<1>4. (i - old) % IDX_MOD = q
  BY <1>1, <1>2, <1>3, NotifyAssumption DEF Indices
<1>5. (i - e) % IDX_MOD = IF i >= e THEN i - e ELSE i - e + IDX_MOD
  BY DistValue
<1>6. (i - e - 1) % IDX_MOD = IF i > e THEN i - e - 1 ELSE i - e - 1 + IDX_MOD
  BY NotifyAssumption DEF Indices
<1>7. (i - e - 1) % IDX_MOD < q <=> (i - e) % IDX_MOD \in 1..q
  BY <1>1, <1>5, <1>6, NotifyAssumption DEF Indices
<1> QED
  BY <1>4, <1>7 DEF NeedEvent, old

(* The invariant.                                                          *)

\* From virtqueue_enable_cb on the consumer's wish is in memory: the flag is
\* clear, or the event index is where the consumer stands.
Armed ==
  c_pc \in {"check", "wait"} =>
    IF event_idx THEN event = cons ELSE ~no_notify

\* While the consumer waits, either a notification is on its way or every
\* pending entry was published since the last kick: that one will see an event
\* index among them.
Covered ==
  (c_pc = "wait" /\ Pending > 0) =>
    \/ irq
    \/ p_pc = "notify"
    \/ vq_queued_cnt # 0 /\ (event_idx => Pending <= vq_queued_cnt)

NotifyInv == NotifyTypeOK /\ Armed /\ Covered

\* The consumer's moves with no entry published: the wish stands as the
\* invariant says, and a consumer that goes to wait leaves nothing pending.
LEMMA ConsumerInv ==
  ASSUME NotifyInv,
         Notification \/ DisableCb \/ Take \/ TakeNone \/ EnableCb \/ EnableCheck
  PROVE  NotifyInv'
<1> USE DEF NotifyInv, NotifyTypeOK, Armed, Covered, Pending, producer, consumer
<1>1. CASE Notification
  BY <1>1 DEF Notification
<1>2. CASE DisableCb
  <2>1. (cons - N - 1) % IDX_MOD \in Indices
    BY NotifyAssumption DEF Indices
  <2> QED
    BY <1>2, <2>1 DEF DisableCb
<1>3. CASE Take
  BY <1>3, IncValue DEF Take
<1>4. CASE TakeNone
  BY <1>4 DEF TakeNone
<1>5. CASE EnableCb
  BY <1>5 DEF EnableCb
<1>6. CASE EnableCheck
  BY <1>6 DEF EnableCheck
<1> QED
  BY <1>1, <1>2, <1>3, <1>4, <1>5, <1>6

\* Publishing an entry adds it to the pending ones and to those of the next kick.
LEMMA PublishInv == NotifyInv /\ Publish => NotifyInv'
<1> SUFFICES ASSUME NotifyInv, Publish PROVE NotifyInv'
  OBVIOUS
<1>1. idx \in Indices /\ cons \in Indices /\ Pending \in Indices
  BY DistValue DEF NotifyInv, NotifyTypeOK, Pending
<1>2. idx' \in Indices
  BY <1>1, IncValue DEF Publish
<1>3. Pending' = Pending + 1
  <2>1. Pending < IDX_MOD - 1
    BY <1>1, NotifyAssumption DEF Publish, Indices
  <2>2. (((idx + 1) % IDX_MOD) - cons) % IDX_MOD = ((idx - cons) % IDX_MOD) + 1
    BY <1>1, <2>1, DistInc DEF Pending
  <2> QED
    BY <2>2 DEF Publish, Pending, consumer
<1>4. vq_queued_cnt' = vq_queued_cnt + 1 /\ vq_queued_cnt' \in 0..MaxBatch
  BY NotifyAssumption DEF Publish, NotifyInv, NotifyTypeOK
<1>5. NotifyTypeOK' /\ Armed'
  BY <1>2, <1>4 DEF Publish, NotifyInv, NotifyTypeOK, Armed, consumer
<1>6. Covered'
  <2>1. CASE c_pc = "wait" /\ ~irq /\ p_pc # "notify" /\ event_idx
    BY <1>1, <1>3, <1>4, <2>1, NotifyAssumption
    DEF Publish, NotifyInv, NotifyTypeOK, Covered, consumer, Indices
  <2>2. CASE ~(c_pc = "wait" /\ ~irq /\ p_pc # "notify" /\ event_idx)
    BY <1>4, <2>2, NotifyAssumption
    DEF Publish, NotifyInv, NotifyTypeOK, Covered, consumer
  <2> QED
    BY <2>1, <2>2
<1> QED
  BY <1>5, <1>6 DEF NotifyInv

\* The kick that finds the consumer waiting for what was published notifies it.
LEMMA WaitingMustNotify ==
  ASSUME NotifyInv, c_pc = "wait", Pending > 0, ~irq, p_pc # "notify"
  PROVE  vq_queued_cnt # 0 /\ MustNotify
<1>1. vq_queued_cnt # 0 /\ (event_idx => Pending <= vq_queued_cnt)
  BY DEF NotifyInv, Covered
<1>2. CASE event_idx
  <2>1. event = cons
    BY <1>2 DEF NotifyInv, Armed
  <2>2. (idx - event) % IDX_MOD \in 1..vq_queued_cnt
    BY <1>1, <1>2, <2>1, DistValue, NotifyAssumption DEF NotifyInv, NotifyTypeOK, Pending, Indices
  <2> QED
    BY <1>1, <1>2, <2>2, NeedEventIs DEF MustNotify, NotifyInv, NotifyTypeOK
<1>3. CASE ~event_idx
  BY <1>1, <1>3 DEF MustNotify, NotifyInv, Armed
<1> QED
  BY <1>2, <1>3

LEMMA KickStepInv == NotifyInv /\ Kick => NotifyInv'
<1> SUFFICES ASSUME NotifyInv, Kick PROVE NotifyInv'
  OBVIOUS
<1>1. NotifyTypeOK' /\ Armed'
  BY NotifyAssumption DEF Kick, NotifyInv, NotifyTypeOK, Armed, consumer
<1>2. Covered'
  <2>1. CASE c_pc = "wait" /\ Pending > 0 /\ ~irq /\ p_pc # "notify"
    BY <2>1, WaitingMustNotify DEF Kick, Covered
  <2>2. CASE ~(c_pc = "wait" /\ Pending > 0 /\ ~irq /\ p_pc # "notify")
    BY <2>2 DEF Kick, Covered, Pending, consumer
  <2> QED
    BY <2>1, <2>2
<1> QED
  BY <1>1, <1>2 DEF NotifyInv

LEMMA NotifyStepInv == NotifyInv /\ Notify => NotifyInv'
BY DEF Notify, NotifyInv, NotifyTypeOK, Armed, Covered, Pending, consumer

\* The invariant holds in every reachable state, of either protocol.
THEOREM NotifyInductive == NotifySpec => []NotifyInv
<1>1. NotifyInit => NotifyInv
  <2> SUFFICES ASSUME NotifyInit PROVE NotifyInv
    OBVIOUS
  <2>1. 0 \in Indices /\ 0 \in 0..MaxBatch
    BY NotifyAssumption DEF Indices
  <2>2. NotifyTypeOK /\ Armed
    BY <2>1 DEF NotifyInit, NotifyTypeOK, Armed
  <2>3. Pending = 0
    BY NotifyAssumption DEF NotifyInit, Pending
  <2> QED
    BY <2>2, <2>3 DEF NotifyInv, Covered
<1>2. NotifyInv /\ [NotifyNext]_notifyVars => NotifyInv'
  <2> SUFFICES ASSUME NotifyInv, [NotifyNext]_notifyVars PROVE NotifyInv'
    OBVIOUS
  <2>1. CASE UNCHANGED notifyVars
    BY <2>1 DEF notifyVars, producer, consumer, NotifyInv, NotifyTypeOK, Armed, Covered, Pending
  <2>2. CASE NotifyNext
    BY <2>2, ConsumerInv, PublishInv, KickStepInv, NotifyStepInv DEF NotifyNext
  <2> QED
    BY <2>1, <2>2
<1> QED
  BY <1>1, <1>2, PTL DEF NotifySpec

\* When the consumer waits with entries in the ring it is notified, or the next
\* kick will do it, for every ring size, index width and batch, with the flag
\* and with event indices that wrap.
THEOREM WakeupNeverLost == NotifySpec => []NoLostWakeup
<1>1. NotifyInv => NoLostWakeup
  <2> SUFFICES ASSUME NotifyInv PROVE NoLostWakeup
    OBVIOUS
  <2> QED
    BY WaitingMustNotify DEF NotifyInv, NoLostWakeup
<1> QED
  BY <1>1, NotifyInductive, PTL

-----------------------------------------------------------------------------
(* Msgbox: no kick is lost between the handler and the task, provided that *)
(* every word Linux writes drains the receive ring.                        *)

\* The handler goes round only while it has rounds left.
RoundsLeft ==
  pc["isr"] \in {"check", "dummy", "read", "clear", "cb", "again"} => loops < MaxLoops

MboxTypeInv == MboxTypeOK /\ RoundsLeft
KickInv == MboxTypeInv /\ NoLostKick

\* Reading the FIFO, empty or not, gives a word and leaves words.
LEMMA FifoRead ==
  ASSUME NEW s \in Seq(Words)
  PROVE  /\ s # <<>> => /\ Head(s) \in Words /\ Tail(s) \in Seq(Words)
                        /\ Len(Tail(s)) <= Len(s)
         /\ 0 \in Words
  BY DEF Words

\* Flags stay flags.
LEMMA MboxFlagsStep ==
  ASSUME Flags, [MboxNext]_mboxVars
  PROVE  Flags'
<1> USE DEF Flags
<1>1. CASE UNCHANGED mboxVars
  BY <1>1, Zenon DEF mboxVars
<1>2. CASE LinuxPost
  BY <1>2, Zenon DEF LinuxPost
<1>3. CASE LinuxKick \/ LinuxOther
  BY <1>3, Zenon DEF LinuxKick, LinuxOther, LinuxWrite
<1>4. ASSUME NEW c \in Contexts, CheckPend(c) \/ DummyRead(c) \/ ReadFifo(c)
      PROVE  Flags'
  BY <1>4, Zenon DEF CheckPend, DummyRead, ReadFifo
<1>5. ASSUME NEW c \in Contexts, ClearPend(c)
      PROVE  Flags'
  <2>1. pend' \in BOOLEAN
    BY <1>5, MsgboxAssumption, Zenon DEF ClearPend
  <2> QED
    BY <1>5, <2>1, Zenon DEF ClearPend
<1>6. ASSUME NEW c \in Contexts, RxCb(c)
      PROVE  Flags'
  BY <1>6, Zenon DEF RxCb
<1>7. CASE TaskPoll \/ IsrEnter \/ IsrAgain \/ IsrExit
  BY <1>7, Zenon DEF TaskPoll, IsrEnter, IsrAgain, IsrExit
<1> QED
  BY <1>1, <1>2, <1>3, <1>4, <1>5, <1>6, <1>7, Zenon DEF MboxNext, Poll

\* Writing and reading the mailbox keeps the FIFO within its depth, the words,
\* the program counters and the rounds of the handler what they are
\* (msgbox_poll, msgbox_irq_handler, main_task).
LEMMA MboxTypeStep ==
  ASSUME MboxTypeInv, [MboxNext]_mboxVars
  PROVE  MboxTypeInv'
<1> USE MsgboxAssumption DEF MboxTypeInv, MboxTypeOK, RoundsLeft
<1> Flags'
  BY MboxFlagsStep
<1>1. CASE UNCHANGED mboxVars
  BY <1>1 DEF mboxVars
<1>2. CASE LinuxPost
  BY <1>2 DEF LinuxPost
<1>3. CASE LinuxKick
  <2>1. RxId \in Words
    BY DEF Words
  <2>2. Append(fifo, RxId) \in Seq(Words) /\ Len(Append(fifo, RxId)) = Len(fifo) + 1
    BY <2>1
  <2> QED
    BY <1>3, <2>2 DEF LinuxKick, LinuxWrite
<1>4. CASE LinuxOther
  <2>1. PICK w \in OtherIds : UNCHANGED owed /\ LinuxWrite(w)
    BY <1>4 DEF LinuxOther
  <2>2. w \in Words
    BY DEF Words
  <2>3. Append(fifo, w) \in Seq(Words) /\ Len(Append(fifo, w)) = Len(fifo) + 1
    BY <2>2
  <2> QED
    BY <2>1, <2>3 DEF LinuxWrite
<1>5. ASSUME NEW c \in Contexts, Poll(c)
      PROVE  MboxTypeInv'
  <2>1. CASE CheckPend(c)
    BY <2>1 DEF CheckPend
  <2>2. CASE DummyRead(c)
    BY <2>2, FifoRead DEF DummyRead
  <2>3. CASE ReadFifo(c)
    BY <2>3, FifoRead DEF ReadFifo
  <2>4. CASE ClearPend(c)
    BY <2>4 DEF ClearPend
  <2>5. CASE RxCb(c)
    BY <2>5 DEF RxCb
  <2>6. QED
    BY <1>5, <2>1, <2>2, <2>3, <2>4, <2>5 DEF Poll
<1>6. CASE TaskPoll
  BY <1>6 DEF TaskPoll, Contexts
<1>7. CASE IsrEnter
  BY <1>7 DEF IsrEnter, Contexts
<1>8. CASE IsrAgain
  BY <1>8 DEF IsrAgain, Contexts
<1>9. CASE IsrExit
  BY <1>9 DEF IsrExit, Contexts
<1>10. QED
  BY <1>1, <1>2, <1>3, <1>4, <1>5, <1>6, <1>7, <1>8, <1>9 DEF MboxNext

\* The kick is never lost in a step: a write sets the bit, the test of the bit
\* moves the promise from the bit to the context, and the callback empties the
\* ring, whichever word it was called with.
LEMMA KickStep ==
  ASSUME OtherIds \subseteq RxWords, MboxTypeOK, NoLostKick, [MboxNext]_mboxVars
  PROVE  NoLostKick'
<1> USE DEF NoLostKick, MboxTypeOK
<1>1. CASE UNCHANGED mboxVars
  BY <1>1 DEF mboxVars
<1>2. CASE LinuxPost
  BY <1>2 DEF LinuxPost
<1>3. CASE LinuxKick
  BY <1>3 DEF LinuxKick, LinuxWrite
<1>4. CASE LinuxOther
  BY <1>4 DEF LinuxOther, LinuxWrite
<1>5. ASSUME NEW c \in Contexts, Poll(c)
      PROVE  NoLostKick'
  <2>1. CASE CheckPend(c)
    BY <2>1 DEF CheckPend
  <2>2. CASE DummyRead(c)
    BY <2>2 DEF DummyRead
  <2>3. CASE ReadFifo(c)
    BY <2>3 DEF ReadFifo
  <2>4. CASE ClearPend(c)
    BY <2>4 DEF ClearPend
  <2>5. CASE RxCb(c)
    <3>1. data[c] \in RxWords
      BY DEF Words, RxWords
    <3>2. ~ring'
      BY <2>5, <3>1 DEF RxCb
    <3>3. QED
      BY <3>2
  <2>6. QED
    BY <1>5, <2>1, <2>2, <2>3, <2>4, <2>5 DEF Poll
<1>6. CASE TaskPoll
  BY <1>6 DEF TaskPoll, Contexts
<1>7. CASE IsrEnter
  BY <1>7 DEF IsrEnter, Contexts
<1>8. CASE IsrAgain
  BY <1>8 DEF IsrAgain, Contexts
<1>9. CASE IsrExit
  BY <1>9 DEF IsrExit, Contexts
<1>10. QED
  BY <1>1, <1>2, <1>3, <1>4, <1>5, <1>6, <1>7, <1>8, <1>9 DEF MboxNext

\* The initial state.
LEMMA KickInit == MboxInit => KickInv
<1> SUFFICES ASSUME MboxInit PROVE KickInv
  OBVIOUS
<1>1. fifo \in Seq(Words) /\ Len(fifo) = 0 /\ 0 \in Words
  BY DEF MboxInit, Words
<1>2. Flags
  BY Zenon DEF MboxInit, Flags
<1> QED
  BY <1>1, <1>2, MsgboxAssumption
  DEF MboxInit, KickInv, MboxTypeInv, MboxTypeOK, RoundsLeft, NoLostKick, Contexts

\* The FIFO never holds more than its depth, and the handler never runs more
\* rounds than msgbox_irq_handler allows, whatever Linux writes.
THEOREM MboxTypeCorrect == MboxSpec => []MboxTypeOK
<1>1. MboxInit => MboxTypeInv
  BY KickInit DEF KickInv
<1>2. MboxTypeInv /\ [MboxNext]_mboxVars => MboxTypeInv'
  BY MboxTypeStep
<1>3. MboxTypeInv => MboxTypeOK
  BY DEF MboxTypeInv
<1> QED
  BY <1>1, <1>2, <1>3, PTL DEF MboxSpec

\* No kick of Linux is lost between the mailbox, the interrupt handler and the
\* polling task, if every word Linux writes addresses the receive vring, as
\* its id and the word 0 do.
THEOREM KickNeverLost ==
  ASSUME OtherIds \subseteq RxWords
  PROVE  MboxSpec => []NoLostKick
<1>1. MboxInit => KickInv
  BY KickInit
<1>2. KickInv /\ [MboxNext]_mboxVars => KickInv'
  BY MboxTypeStep, KickStep DEF KickInv, MboxTypeInv
<1>3. KickInv => NoLostKick
  BY DEF KickInv
<1>4. QED
  BY <1>1, <1>2, <1>3, PTL DEF MboxSpec

-----------------------------------------------------------------------------
(* Plic: what is switched off stays off, and entries are complete.         *)

Accesses == {"handler", "param", "mie", "priority", "load", "store",
             "recload", "recstore", "clear"}

TaskType == task \in [op : Ops \union {"none"}, irq : Lines \union {0},
                      at : Accesses \union {"done"}]

\* What an access does to the task: it stays in its call and goes on with the
\* access that follows last, or the call returns.
LEMMA DoesNext ==
  ASSUME TaskType, NEW step \in Accesses, NEW last \in Accesses, Does(step, last)
  PROVE  /\ TaskType'
         /\ task.at = step
         /\ task'.at = After(task.op, last)
         /\ task'.at # "done" => task'.op = task.op /\ task'.irq = task.irq
         /\ task'.at = "done" => task' = Idle
<1>1. After(task.op, last) \in Accesses \union {"done"}
  BY DEF After, Accesses
<1> QED
  BY <1>1 DEF Does, TaskType, Idle, After

\* A line whose priority and enable bit are set is on; and what the task is
\* about to write into the word of enable bits adds no line that is not.
OffInv ==
  /\ TaskType
  /\ priority \intersect enable \subseteq on
  /\ task.at \in {"load", "store"} /\ Up /\ task.irq \in priority => task.irq \in on
  /\ task.at = "store" => priority \intersect SetBit(word, task.irq, Up) \subseteq on

\* A handler switches priority, enable bit and history together.
LEMMA SwitchOff ==
  ASSUME OffInv, NEW i, NEW up \in BOOLEAN, Switch(i, up), UNCHANGED <<task, word>>
  PROVE  OffInv'
  BY DEF OffInv, Switch, SetBit, Up, TaskType

\* The steps of the task's calls.
LEMMA TaskOff ==
  ASSUME OffInv, TaskStep
  PROVE  OffInv'
<1>1. CASE StoreHandler
  <2>1. TaskType' /\ task'.at = "param"
    BY <1>1, DoesNext DEF StoreHandler, At, OffInv, After, Accesses
  <2> QED
    BY <1>1, <2>1 DEF StoreHandler, OffInv
<1>2. CASE StoreParam
  <2>1. TaskType' /\ task'.at = "mie"
    BY <1>2, DoesNext DEF StoreParam, At, OffInv, After, Accesses
  <2> QED
    BY <1>2, <2>1 DEF StoreParam, OffInv
<1>3. CASE AllowExternal
  <2>1. TaskType' /\ task'.at = "priority"
    BY <1>3, DoesNext DEF AllowExternal, At, OffInv, After, Accesses
  <2> QED
    BY <1>3, <2>1 DEF AllowExternal, OffInv
<1>4. CASE WritePriority
  <2>1. TaskType' /\ task'.at = "load" /\ task'.op = task.op /\ task'.irq = task.irq
    BY <1>4, DoesNext DEF WritePriority, At, OffInv, After, Accesses
  <2> QED
    BY <1>4, <2>1 DEF WritePriority, OffInv, SetBit, Up
<1>5. CASE ReadEnable
  <2>1. TaskType' /\ task.at = "load" /\ task'.at = "store"
        /\ task'.op = task.op /\ task'.irq = task.irq
    BY <1>5, DoesNext DEF ReadEnable, At, OffInv, After, Accesses
  <2> QED
    BY <1>5, <2>1 DEF ReadEnable, OffInv, SetBit, Up
<1>6. CASE WriteEnable
  <2>1. TaskType' /\ task.at = "store" /\ task'.at = "recload"
    BY <1>6, DoesNext DEF WriteEnable, At, OffInv, After, Accesses
  <2> QED
    BY <1>6, <2>1 DEF WriteEnable, OffInv, SetBit
<1>7. CASE ReadRecord
  <2>1. TaskType' /\ task'.at \in {"recstore", "clear", "done"}
    <3>1. PICK last \in {"recload", "recstore"} : Does("recload", last)
      BY <1>7 DEF ReadRecord
    <3>2. TaskType' /\ task'.at = After(task.op, last)
      BY <3>1, DoesNext DEF OffInv, Accesses
    <3> QED
      BY <3>1, <3>2 DEF After
  <2> QED
    BY <1>7, <2>1 DEF ReadRecord, OffInv
<1>8. CASE WriteRecord
  <2>1. TaskType' /\ task'.at \in {"clear", "done"}
    BY <1>8, DoesNext DEF WriteRecord, At, OffInv, After, Accesses
  <2> QED
    BY <1>8, <2>1 DEF WriteRecord, OffInv
<1>9. CASE ClearEntry
  <2>1. TaskType' /\ task'.at = "done"
    BY <1>9, DoesNext DEF ClearEntry, At, OffInv, After, Accesses
  <2> QED
    BY <1>9, <2>1 DEF ClearEntry, OffInv
<1> QED
  BY <1>1, <1>2, <1>3, <1>4, <1>5, <1>6, <1>7, <1>8, <1>9 DEF TaskStep

LEMMA StepOff ==
  ASSUME OffInv, [PlicNext]_plicVars
  PROVE  OffInv'
<1> USE DEF taskv, plic, irqc, isrv, device
<1>1. CASE UNCHANGED plicVars
  BY <1>1 DEF plicVars, OffInv, TaskType, Up
<1>2. CASE TaskStep
  BY <1>2, TaskOff
<1>3. ASSUME NEW i \in Lines, Raise(i) \/ Gateway(i)
      PROVE  OffInv'
  BY <1>3 DEF Raise, Gateway, OffInv, TaskType, Up
<1>4. ASSUME NEW op \in Ops, NEW i \in Lines, Call(op, i)
      PROVE  OffInv'
  <2>1. TaskType' /\ task'.at \in {"handler", "priority"}
    BY <1>4 DEF Call, After, TaskType, Accesses
  <2> QED
    BY <1>4, <2>1 DEF Call, OffInv
<1>5. CASE Interrupt \/ Claim \/ ClaimNone \/ Unhandled \/ Eoi
  BY <1>5 DEF Interrupt, Claim, ClaimNone, Unhandled, Eoi, OffInv, TaskType, Up
<1>6. CASE Handle
  <2>1. UNCHANGED <<task, word>>
    BY <1>6 DEF Handle
  <2>2. CASE UNCHANGED <<enable, priority, plic_irq_rec, on>>
    BY <2>1, <2>2 DEF OffInv, TaskType, Up
  <2>3. CASE \E i \in Lines \union {cur}, up \in BOOLEAN : Switch(i, up)
    BY <2>1, <2>3, SwitchOff
  <2>4. CASE \E i \in handler, up \in BOOLEAN : Switch(i, up)
    BY <2>1, <2>4, SwitchOff
  <2> QED
    BY <1>6, <2>2, <2>3, <2>4 DEF Handle, HandlerCall
<1> QED
  BY <1>1, <1>2, <1>3, <1>4, <1>5, <1>6 DEF PlicNext, Isr

\* What is delivered is on: a line that irq_disable or irq_free has switched
\* off is not delivered, though its enable bit may have come back.
THEOREM OffIsOff == PlicSpec => []OffStaysOff
<1>1. PlicInit => OffInv
  BY DEF PlicInit, OffInv, TaskType, Idle, Up
<1>2. OffInv /\ [PlicNext]_plicVars => OffInv'
  BY StepOff
<1>3. OffInv => OffStaysOff
  BY DEF OffInv, OffStaysOff, Deliverable
<1> QED
  BY <1>1, <1>2, <1>3, PTL DEF PlicSpec

\* A call in progress has a line.
PlicTypeInv == PlicTypeOK /\ TaskType /\ (task.at # "done" => task.irq \in Lines)

LEMMA TaskTypes ==
  ASSUME PlicTypeInv, TaskStep
  PROVE  PlicTypeInv'
<1>1. PICK step \in Accesses, last \in Accesses : Does(step, last)
  BY DEF TaskStep, StoreHandler, StoreParam, AllowExternal, WritePriority, ReadEnable,
         WriteEnable, ReadRecord, WriteRecord, ClearEntry, At, Accesses
<1>2. /\ TaskType' /\ task.irq \in Lines
      /\ task'.at # "done" => task'.irq \in Lines
  BY <1>1, DoesNext DEF PlicTypeInv, Accesses
<1>3. UNCHANGED <<use, device, pending, claimed, isrv>>
  BY <1>1 DEF Does
<1>4. /\ enable' \subseteq Lines /\ priority' \subseteq Lines /\ plic_irq_rec' \subseteq Lines
      /\ handler' \subseteq Lines /\ param' \subseteq Lines
      /\ on' \subseteq Lines /\ word' \subseteq Lines
  BY <1>2 DEF PlicTypeInv, PlicTypeOK, SetBit, irqc, TaskStep, StoreHandler, StoreParam,
         AllowExternal, WritePriority, ReadEnable, WriteEnable, ReadRecord, WriteRecord,
         ClearEntry
<1>5. mie' \in BOOLEAN
  BY Zenon DEF PlicTypeInv, PlicTypeOK, TaskStep, StoreHandler, StoreParam, AllowExternal,
         WritePriority, ReadEnable, WriteEnable, ReadRecord, WriteRecord, ClearEntry
<1> QED
  BY <1>2, <1>3, <1>4, <1>5 DEF PlicTypeInv, PlicTypeOK, TaskType, device, isrv

LEMMA PlicTypeStep ==
  ASSUME PlicTypeInv, [PlicNext]_plicVars
  PROVE  PlicTypeInv'
<1> USE DEF taskv, plic, irqc, isrv, device
<1>1. CASE UNCHANGED plicVars
  BY <1>1 DEF plicVars, PlicTypeInv, PlicTypeOK, TaskType
<1>2. CASE TaskStep
  BY <1>2, TaskTypes
<1>3. ASSUME NEW i \in Lines, Raise(i) \/ Gateway(i)
      PROVE  PlicTypeInv'
  BY <1>3 DEF Raise, Gateway, PlicTypeInv, PlicTypeOK, TaskType
<1>4. ASSUME NEW op \in Ops, NEW i \in Lines, Call(op, i)
      PROVE  PlicTypeInv'
  <2>1. task' = [op |-> op, irq |-> i, at |-> After(op, "call")]
    BY <1>4 DEF Call
  <2>2. After(op, "call") \in Accesses
    BY DEF After, Accesses
  <2>3. TaskType' /\ task'.irq \in Lines
    BY <2>1, <2>2 DEF TaskType
  <2> QED
    BY <1>4, <2>3 DEF Call, PlicTypeInv, PlicTypeOK, TaskType
<1>5. CASE Interrupt \/ ClaimNone \/ Unhandled \/ Eoi
  BY <1>5 DEF Interrupt, ClaimNone, Unhandled, Eoi, PlicTypeInv, PlicTypeOK, TaskType
<1>6. CASE Claim
  BY <1>6 DEF Claim, Deliverable, PlicTypeInv, PlicTypeOK, TaskType
<1>7. CASE Handle
  <2> DEFINE Within == /\ enable' \subseteq Lines /\ priority' \subseteq Lines
                       /\ plic_irq_rec' \subseteq Lines /\ on' \subseteq Lines
  <2>1. Within
    <3>1. CASE UNCHANGED <<enable, priority, plic_irq_rec, on>>
      BY <3>1 DEF PlicTypeInv, PlicTypeOK
    <3>2. ASSUME NEW i, NEW up \in BOOLEAN, Switch(i, up), i \in Lines \/ ~up
          PROVE  Within
      BY <3>2 DEF Switch, SetBit, PlicTypeInv, PlicTypeOK
    <3>3. handler \subseteq Lines
      BY DEF PlicTypeInv, PlicTypeOK
    <3> HIDE DEF Within
    <3> QED
      BY <1>7, <3>1, <3>2, <3>3 DEF Handle, HandlerCall
  <2> QED
    BY <1>7, <2>1 DEF Handle, PlicTypeInv, PlicTypeOK, TaskType
<1> QED
  BY <1>1, <1>2, <1>3, <1>4, <1>5, <1>6, <1>7 DEF PlicNext, Isr

\* Every write keeps to the lines there are, though words are read in one step
\* and written back in another.
THEOREM PlicTypeCorrect == PlicSpec => []PlicTypeOK
<1>1. ASSUME PlicInit PROVE PlicTypeInv
  <2>1. mie \in BOOLEAN
    BY <1>1, Zenon DEF PlicInit
  <2> QED
    BY <1>1, <2>1 DEF PlicInit, PlicTypeInv, PlicTypeOK, TaskType, Idle
<1>2. PlicTypeInv /\ [PlicNext]_plicVars => PlicTypeInv'
  BY PlicTypeStep
<1>3. PlicTypeInv => PlicTypeOK
  BY DEF PlicTypeInv
<1> QED
  BY <1>1, <1>2, <1>3, PTL DEF PlicSpec

\* Where a call stands, what it has stored in irq_table or cleared from the
\* priorities.  A line with a priority has its entry.
WholeInv ==
  /\ TaskType /\ Disciplined
  /\ priority \subseteq handler \intersect param
  /\ task.at \in {"handler", "param", "mie"} => task.op = "request"
  /\ task.at = "clear" => task.op = "free"
  /\ IF task.at = "param" THEN handler = param \union {task.irq} ELSE handler = param
  /\ task.op = "enable" => task.irq \in handler
  /\ task.op = "request" /\ task.at # "handler" => task.irq \in handler
  /\ task.op = "free" /\ task.at # "priority" => task.irq \notin priority
  /\ isr = "handle" => cur \in handler \intersect param

\* The steps of the task's calls.
LEMMA TaskWhole ==
  ASSUME WholeInv, TaskStep
  PROVE  WholeInv'
<1> USE DEF device, isrv
<1> Disciplined'
  <2>1. UNCHANGED use
    BY DEF TaskStep, StoreHandler, StoreParam, AllowExternal, WritePriority, ReadEnable,
           WriteEnable, ReadRecord, WriteRecord, ClearEntry, At, Does
  <2> QED
    BY <2>1 DEF WholeInv, Disciplined
<1>0. isr = "off" /\ isr' = "off"
  BY DEF TaskStep, StoreHandler, StoreParam, AllowExternal, WritePriority, ReadEnable,
         WriteEnable, ReadRecord, WriteRecord, ClearEntry, At, Does
<1>1. CASE StoreHandler
  <2>1. /\ TaskType' /\ task.at = "handler" /\ task'.at = "param"
        /\ task'.op = task.op /\ task'.irq = task.irq
    BY <1>1, DoesNext DEF StoreHandler, At, WholeInv, After, Accesses
  <2> QED
    BY <1>0, <1>1, <2>1 DEF StoreHandler, WholeInv
<1>2. CASE StoreParam
  <2>1. /\ TaskType' /\ task.at = "param" /\ task'.at = "mie"
        /\ task'.op = task.op /\ task'.irq = task.irq
    BY <1>2, DoesNext DEF StoreParam, At, WholeInv, After, Accesses
  <2> QED
    BY <1>0, <1>2, <2>1 DEF StoreParam, WholeInv
<1>3. CASE AllowExternal
  <2>1. /\ TaskType' /\ task.at = "mie" /\ task'.at = "priority"
        /\ task'.op = task.op /\ task'.irq = task.irq
    BY <1>3, DoesNext DEF AllowExternal, At, WholeInv, After, Accesses
  <2> QED
    BY <1>0, <1>3, <2>1 DEF AllowExternal, WholeInv, irqc
<1>4. CASE WritePriority
  <2>1. /\ TaskType' /\ task.at = "priority" /\ task'.at = "load"
        /\ task'.op = task.op /\ task'.irq = task.irq
    BY <1>4, DoesNext DEF WritePriority, At, WholeInv, After, Accesses
  <2> QED
    BY <1>0, <1>4, <2>1 DEF WritePriority, WholeInv, SetBit, Up, irqc
<1>5. CASE ReadEnable
  <2>1. /\ TaskType' /\ task.at = "load" /\ task'.at = "store"
        /\ task'.op = task.op /\ task'.irq = task.irq
    BY <1>5, DoesNext DEF ReadEnable, At, WholeInv, After, Accesses
  <2> QED
    BY <1>0, <1>5, <2>1 DEF ReadEnable, WholeInv, irqc
<1>6. CASE WriteEnable
  <2>1. /\ TaskType' /\ task.at = "store" /\ task'.at = "recload"
        /\ task'.op = task.op /\ task'.irq = task.irq
    BY <1>6, DoesNext DEF WriteEnable, At, WholeInv, After, Accesses
  <2> QED
    BY <1>0, <1>6, <2>1 DEF WriteEnable, WholeInv, irqc
<1>7. CASE ReadRecord \/ WriteRecord
  <2>1. PICK last \in {"recload", "recstore"} : Does("recload", last) \/ Does("recstore", last)
    BY <1>7 DEF ReadRecord, WriteRecord, At
  <2>2. /\ TaskType' /\ task.at \in {"recload", "recstore"}
        /\ task'.at = After(task.op, last)
        /\ task'.at # "done" => task'.op = task.op /\ task'.irq = task.irq
        /\ task'.at = "done" => task' = Idle
    BY <2>1, DoesNext DEF WholeInv, Accesses
  <2>3. /\ task'.at \in {"recstore", "clear", "done"}
        /\ task'.at = "clear" => task.op = "free"
    BY <2>1, <2>2 DEF After
  <2>4. UNCHANGED <<priority, handler, param>>
    BY <1>7 DEF ReadRecord, WriteRecord, irqc
  <2>5. CASE task'.at = "done"
    BY <1>0, <2>2, <2>4, <2>5 DEF WholeInv, Idle
  <2>6. CASE task'.at # "done"
    BY <1>0, <2>2, <2>3, <2>4, <2>6 DEF WholeInv
  <2> QED
    BY <2>5, <2>6
<1>8. CASE ClearEntry
  <2>1. TaskType' /\ task.at = "clear" /\ task' = Idle
    BY <1>8, DoesNext DEF ClearEntry, At, WholeInv, After, Accesses
  <2> QED
    BY <1>0, <1>8, <2>1 DEF ClearEntry, WholeInv, Idle
<1> QED
  BY <1>1, <1>2, <1>3, <1>4, <1>5, <1>6, <1>7, <1>8 DEF TaskStep

LEMMA StepWhole ==
  ASSUME WholeInv, [PlicNext]_plicVars
  PROVE  WholeInv'
<1> USE DEF taskv, plic, irqc, isrv, device, Disciplined
<1>1. CASE UNCHANGED plicVars
  BY <1>1 DEF plicVars, WholeInv, TaskType
<1>2. CASE TaskStep
  BY <1>2, TaskWhole
<1>3. ASSUME NEW i \in Lines, Raise(i) \/ Gateway(i)
      PROVE  WholeInv'
  BY <1>3 DEF Raise, Gateway, WholeInv, TaskType
<1>4. ASSUME NEW op \in Ops, NEW i \in Lines, Call(op, i)
      PROVE  WholeInv'
  <2>1. /\ task' = [op |-> op, irq |-> i,
                    at |-> IF op = "request" THEN "handler" ELSE "priority"]
        /\ TaskType' /\ task.at = "done"
    BY <1>4 DEF Call, After, TaskType, Accesses, Idle
  <2>2. op # "request" => i \in handler
    BY <1>4 DEF Call, WholeInv, Ops
  <2>3. UNCHANGED <<use, priority, handler, param, isr, cur>>
    BY <1>4 DEF Call
  <2>4. handler = param
    BY <2>1 DEF WholeInv
  <2>5. /\ task'.op = op /\ task'.irq = i
        /\ task'.at = IF op = "request" THEN "handler" ELSE "priority"
    BY <2>1
  <2>6. op \in {"request", "free", "enable", "disable"}
    BY DEF Ops
  <2> QED
    BY <2>1, <2>2, <2>3, <2>4, <2>5, <2>6 DEF WholeInv
<1>5. CASE Interrupt \/ ClaimNone \/ Unhandled \/ Eoi
  BY <1>5 DEF Interrupt, ClaimNone, Unhandled, Eoi, WholeInv, TaskType
<1>6. CASE Claim
  BY <1>6 DEF Claim, Deliverable, WholeInv, TaskType
<1>7. CASE Handle
  <2>1. priority' \subseteq priority
    BY <1>7 DEF Handle, HandlerCall, Switch, SetBit, WholeInv
  <2> QED
    BY <1>7, <2>1 DEF Handle, WholeInv, TaskType
<1> QED
  BY <1>1, <1>2, <1>3, <1>4, <1>5, <1>6, <1>7 DEF PlicNext, Isr

\* When only requested lines are enabled and handlers do no more than disable
\* other lines, generic_handle_irq finds the entry of the interrupt complete.
THEOREM EntryComplete == PlicSpec => []EntryWhole
<1>1. PlicInit /\ Disciplined => WholeInv
  BY DEF PlicInit, WholeInv, TaskType, Idle
<1>2. WholeInv /\ [PlicNext]_plicVars => WholeInv'
  BY StepWhole
<1>3. PlicInit /\ ~Disciplined => ~Disciplined
  OBVIOUS
<1>4. ~Disciplined /\ [PlicNext]_plicVars => ~Disciplined'
  <2>1. [PlicNext]_plicVars => UNCHANGED use
    BY DEF PlicNext, plicVars, Isr, Raise, Gateway, Call, TaskStep, StoreHandler, StoreParam,
           AllowExternal, WritePriority, ReadEnable, WriteEnable, ReadRecord,
           WriteRecord, ClearEntry, At, Does, Interrupt, Claim, ClaimNone, Handle,
           Unhandled, Eoi
  <2> QED
    BY <2>1 DEF Disciplined
<1>5. WholeInv => EntryWhole
  BY DEF WholeInv, EntryWhole
<1>6. ~Disciplined => EntryWhole
  BY DEF EntryWhole
<1> QED
  BY <1>1, <1>2, <1>4, <1>5, <1>6, PTL DEF PlicSpec

=============================================================================
