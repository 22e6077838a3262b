------------------------------- MODULE Msgbox -------------------------------
(***************************************************************************)
(* The mailbox through which Linux kicks the firmware: msgbox_poll and     *)
(* msgbox_irq_handler of openamp/platform/ipi.c, run by the OpenAMP task   *)
(* (core/main.c, at least every 20 ms) and by the interrupt handler, which *)
(* preempts the task between any two register accesses.                    *)
(*                                                                         *)
(* The mailbox itself is external: a FIFO of words, and a pending bit that *)
(* a write of a word sets and that is cleared by writing 1 to it.  A read  *)
(* of the empty FIFO gives 0.  Whether the bit stays set while words are   *)
(* left is the parameter Relatch.  What the words are about, the receive   *)
(* ring, is abstracted to whether it holds messages: the callback for a    *)
(* word of RxWords drains it (rproc_virtio_notified,                       *)
(* rpmsg_virtio_rx_callback), the one for any other word does not.         *)
(***************************************************************************)
EXTENDS Naturals, Sequences

CONSTANTS
  RxId,       \* notify id of the receive vring
  OtherIds,   \* further words Linux writes
  FifoDepth,  \* mb->fifo_depth
  MaxLoops,   \* 32, the bound of the loop in msgbox_irq_handler
  Relatch     \* the values the pending bit may take when it is cleared while
              \* the FIFO holds words

ASSUME MsgboxAssumption ==
  /\ RxId \in Nat /\ OtherIds \subseteq Nat
  /\ FifoDepth \in Nat \ {0} /\ MaxLoops \in Nat \ {0}
  /\ Relatch \subseteq BOOLEAN /\ Relatch # {}

Words == {0, RxId} \cup OtherIds

\* rproc_virtio_notified: its own id, and 0 which stands for every vring.
RxWords == {0, RxId}

Contexts == {"task", "isr"}

VARIABLES
  fifo, pend,    \* the mailbox
  ring,          \* the receive ring holds messages
  owed,          \* Linux has posted a message and not yet written its word
  irq_registered,
  pc, data,      \* of each context
  loops,         \* of msgbox_irq_handler
  notified       \* the task's notification, given by the interrupt handler

mboxVars == <<fifo, pend, ring, owed, irq_registered, pc, data, loops, notified>>

\* After msgbox_init.  irq_request may have failed.
MboxInit ==
  /\ fifo = <<>>
  /\ pend = FALSE
  /\ ring = FALSE
  /\ owed = FALSE
  /\ irq_registered \in BOOLEAN
  /\ pc = [c \in Contexts |-> "idle"]
  /\ data = [c \in Contexts |-> 0]
  /\ loops = 0
  /\ notified = FALSE

-----------------------------------------------------------------------------
(* Linux (external).                                                       *)

LinuxPost ==
  /\ ~owed
  /\ ring' = TRUE
  /\ owed' = TRUE
  /\ UNCHANGED <<fifo, pend, irq_registered, pc, data, loops, notified>>

LinuxWrite(w) ==
  /\ Len(fifo) < FifoDepth
  /\ fifo' = Append(fifo, w)
  /\ pend' = TRUE
  /\ UNCHANGED <<ring, irq_registered, pc, data, loops, notified>>

LinuxKick == owed /\ owed' = FALSE /\ LinuxWrite(RxId)

LinuxOther == \E w \in OtherIds : UNCHANGED owed /\ LinuxWrite(w)

-----------------------------------------------------------------------------
(* msgbox_poll in context c.                                               *)

\* There is one core: the task runs while the handler does not.
Runs(c) == c = "isr" \/ pc["isr"] = "idle"

\* The loop reads the pending bit...
CheckPend(c) ==
  /\ Runs(c)
  /\ pc[c] = "check"
  /\ pc' = [pc EXCEPT ![c] = IF pend THEN "read" ELSE "dummy"]
  /\ UNCHANGED <<fifo, pend, ring, owed, irq_registered, data, loops, notified>>

\* ... without it, reads the FIFO once all the same, drops the word and ends...
DummyRead(c) ==
  /\ Runs(c)
  /\ pc[c] = "dummy"
  /\ fifo' = IF fifo = <<>> THEN fifo ELSE Tail(fifo)
  /\ pc' = [pc EXCEPT ![c] = IF c = "task" THEN "idle" ELSE "again"]
  /\ UNCHANGED <<pend, ring, owed, irq_registered, data, loops, notified>>

\* ... with it, takes a word...
ReadFifo(c) ==
  /\ Runs(c)
  /\ pc[c] = "read"
  /\ data' = [data EXCEPT ![c] = IF fifo = <<>> THEN 0 ELSE Head(fifo)]
  /\ fifo' = IF fifo = <<>> THEN fifo ELSE Tail(fifo)
  /\ pc' = [pc EXCEPT ![c] = "clear"]
  /\ UNCHANGED <<pend, ring, owed, irq_registered, loops, notified>>

\* ... clears the bit...
ClearPend(c) ==
  /\ Runs(c)
  /\ pc[c] = "clear"
  /\ IF fifo = <<>> THEN pend' = FALSE ELSE pend' \in Relatch
  /\ pc' = [pc EXCEPT ![c] = "cb"]
  /\ UNCHANGED <<fifo, ring, owed, irq_registered, data, loops, notified>>

\* Mutant: 0 is taken for "no message".
RxCbNotZero(c) ==
  /\ Runs(c)
  /\ pc[c] = "cb"
  /\ ring' = (ring /\ data[c] # RxId)
  /\ pc' = [pc EXCEPT ![c] = "check"]
  /\ UNCHANGED <<fifo, pend, owed, irq_registered, data, loops, notified>>

\* ... and calls msgbox_rx, which drains the receive ring if it is for it.
RxCb(c) ==
  /\ Runs(c)
  /\ pc[c] = "cb"
  /\ ring' = (ring /\ data[c] \notin RxWords)
  /\ pc' = [pc EXCEPT ![c] = "check"]
  /\ UNCHANGED <<fifo, pend, owed, irq_registered, data, loops, notified>>

-----------------------------------------------------------------------------
(* The two callers.                                                        *)

\* Mutant: the task waits for the handler's notification without a timeout.
TaskPollWaits ==
  /\ Runs("task")
  /\ pc["task"] = "idle"
  /\ notified
  /\ notified' = FALSE
  /\ pc' = [pc EXCEPT !["task"] = "check"]
  /\ UNCHANGED <<fifo, pend, ring, owed, irq_registered, data, loops>>

\* main_task: ulTaskNotifyTake returns, with a notification or after 20 ms.
TaskPoll ==
  /\ Runs("task")
  /\ pc["task"] = "idle"
  /\ notified' = FALSE
  /\ pc' = [pc EXCEPT !["task"] = "check"]
  /\ UNCHANGED <<fifo, pend, ring, owed, irq_registered, data, loops>>

\* The interrupt: its line follows the pending bit.
IsrEnter ==
  /\ irq_registered
  /\ pend
  /\ pc["isr"] = "idle"
  /\ pc' = [pc EXCEPT !["isr"] = "check"]
  /\ loops' = 0
  /\ UNCHANGED <<fifo, pend, ring, owed, irq_registered, data, notified>>

\* msgbox_irq_handler: polls again while the bit is set, at most MaxLoops times.
IsrAgain ==
  /\ pc["isr"] = "again"
  /\ loops' = loops + 1
  /\ pc' = [pc EXCEPT !["isr"] = IF pend /\ loops + 1 < MaxLoops THEN "check"
                                                               ELSE "exit"]
  /\ UNCHANGED <<fifo, pend, ring, owed, irq_registered, data, notified>>

\* The end of the handler notifies the task.
IsrExit ==
  /\ pc["isr"] = "exit"
  /\ notified' = TRUE
  /\ pc' = [pc EXCEPT !["isr"] = "idle"]
  /\ UNCHANGED <<fifo, pend, ring, owed, irq_registered, data, loops>>

-----------------------------------------------------------------------------

Poll(c) ==
  \/ CheckPend(c) \/ DummyRead(c) \/ ReadFifo(c) \/ ClearPend(c) \/ RxCb(c)

MboxNext ==
  \/ LinuxPost
  \/ LinuxKick
  \/ LinuxOther
  \/ \E c \in Contexts : Poll(c)
  \/ TaskPoll
  \/ IsrEnter
  \/ IsrAgain
  \/ IsrExit

\* The task's 20 ms timeout and the processor's progress; Linux writes the word
\* it owes when there is room.
MboxFairness ==
  /\ WF_mboxVars(TaskPoll)
  /\ \A c \in Contexts : WF_mboxVars(Poll(c))
  /\ WF_mboxVars(IsrEnter) /\ WF_mboxVars(IsrAgain) /\ WF_mboxVars(IsrExit)
  /\ SF_mboxVars(LinuxKick)

MboxSpec == MboxInit /\ [][MboxNext]_mboxVars /\ MboxFairness

-----------------------------------------------------------------------------
(* Properties.                                                             *)

Flags == /\ pend \in BOOLEAN /\ ring \in BOOLEAN /\ owed \in BOOLEAN
         /\ irq_registered \in BOOLEAN /\ notified \in BOOLEAN

\* The type of the state: the FIFO has its depth and the handler its rounds.
MboxTypeOK ==
  /\ fifo \in Seq(Words) /\ Len(fifo) <= FifoDepth
  /\ Flags
  /\ pc \in [Contexts -> {"idle", "check", "dummy", "read", "clear", "cb",
                          "again", "exit"}]
  /\ data \in [Contexts -> Words]
  /\ loops \in 0..MaxLoops

\* No kick is lost: while the receive ring holds a message whose word Linux
\* has written, the pending bit is set or a context is on its way to the
\* callback, although words are dropped by the read without pending bit, the
\* bit is cleared for several words at once, and the handler may run between
\* any two accesses of the task.
NoLostKick ==
  ring /\ ~owed =>
    pend \/ \E c \in Contexts : pc[c] \in {"read", "clear", "cb"}

\* A message that Linux posts is received in the end, with the interrupt
\* registered or with polling alone ("fallback to polling").
MessageReceived == ring ~> ~ring

=============================================================================
