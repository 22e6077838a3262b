------------------------------- MODULE RpmsgRx -------------------------------
(***************************************************************************)
(* The receive path of openamp/open-amp/rpmsg/rpmsg_virtio.c on the        *)
(* firmware: rpmsg_virtio_rx_callback with the echo callback of            *)
(* openamp/platform/platform.c, run by the OpenAMP task and, when the      *)
(* mailbox interrupt is registered, by its handler, which preempts the     *)
(* task; and an application task that releases the buffers a callback      *)
(* held (rpmsg_hold_rx_buffer, rpmsg_release_rx_buffer).                   *)
(*                                                                         *)
(* Contexts exclude each other by rdev->lock, a FreeRTOS mutex; each       *)
(* critical section is two steps, so that a context can be preempted while *)
(* it owns the lock.  The rings are the queues of VringFifo.  Linux is     *)
(* external: it posts numbered messages, takes its buffers back and reads  *)
(* the echoes.                                                             *)
(***************************************************************************)
EXTENDS Naturals, Sequences, FiniteSets

CONSTANTS
  Bufs,          \* the buffers of the receive ring
  TxBufs,        \* number of buffers of the transmit ring
  Contexts,      \* who runs rpmsg_virtio_rx_callback: "task", "isr"
  NULL,
  EarlyRelease,  \* a held buffer may be released before the callback's caller
                 \* has seen that it is held
  TICKS,         \* RPMSG_TICK_COUNT / RPMSG_TICKS_PER_INTERVAL
  MaxMsgs        \* bound on the messages Linux posts

ASSUME RxAssumption ==
  /\ Contexts \subseteq {"task", "isr"}
  /\ IsFiniteSet(Bufs) /\ NULL \notin Bufs
  /\ TxBufs \in Nat /\ TICKS \in Nat /\ MaxMsgs \in Nat
  /\ EarlyRelease \in BOOLEAN

VARIABLES
  avail, used, linux,  \* the receive ring: to the firmware, back, at Linux
  msg, held,           \* of each buffer: its message, RPMSG_BUF_HELD
  txFree, txOut,       \* the transmit ring: free buffers, echoes for Linux
  posted,              \* messages posted by Linux
  lock,                \* the owner of rdev->lock
  pc, cur, ticks,      \* of each context
  kept, app,           \* buffers the application keeps, the one it releases
  delivered, echoed    \* history: messages given to the callback, read by Linux

vring == <<avail, used, linux, msg, held>>
tx    == <<txFree, txOut, echoed>>
keep  == <<kept, app>>
vars  == <<vring, tx, posted, lock, pc, cur, ticks, keep, delivered>>

Init ==
  /\ avail = <<>> /\ used = <<>> /\ linux = Bufs
  /\ msg = [b \in Bufs |-> 0]
  /\ held = [b \in Bufs |-> FALSE]
  /\ txFree = TxBufs /\ txOut = <<>>
  /\ posted = 0
  /\ lock = NULL
  /\ pc = [c \in Contexts |-> "idle"]
  /\ cur = [c \in Contexts |-> NULL]
  /\ ticks = [c \in Contexts |-> 0]
  /\ kept = {} /\ app = NULL
  /\ delivered = <<>> /\ echoed = <<>>

-----------------------------------------------------------------------------
(* Linux (external).  Posting writes the whole header of the buffer.       *)

LinuxPost(b) ==
  /\ posted < MaxMsgs
  /\ b \in linux
  /\ posted' = posted + 1
  /\ msg' = [msg EXCEPT ![b] = posted']
  /\ held' = [held EXCEPT ![b] = FALSE]
  /\ linux' = linux \ {b}
  /\ avail' = Append(avail, b)
  /\ UNCHANGED <<used, tx, lock, pc, cur, ticks, keep, delivered>>

LinuxReap ==
  /\ used # <<>>
  /\ linux' = linux \cup {Head(used)}
  /\ used' = Tail(used)
  /\ UNCHANGED <<avail, msg, held, tx, posted, lock, pc, cur, ticks, keep,
                 delivered>>

LinuxReadEcho ==
  /\ txOut # <<>>
  /\ echoed' = Append(echoed, Head(txOut))
  /\ txOut' = Tail(txOut)
  /\ txFree' = txFree + 1
  /\ UNCHANGED <<vring, posted, lock, pc, cur, ticks, keep, delivered>>

-----------------------------------------------------------------------------
(* rpmsg_virtio_rx_callback in context c.                                  *)

\* One core: tasks run while the interrupt handler does not.
Runs(c) == c = "isr" \/ \A d \in Contexts \cap {"isr"} : pc[d] = "idle"

\* The critical sections: where each is entered from.
Section == [get |-> "wantGet", find |-> "wantFind", tx |-> "wantTx",
            send |-> "wantSend", ret |-> "wantRet"]

\* virtqueue_notification calls back, for a kick or a poll.
Callback(c) ==
  /\ Runs(c)
  /\ pc[c] = "idle"
  /\ pc' = [pc EXCEPT ![c] = "wantGet"]
  /\ UNCHANGED <<vring, tx, posted, lock, cur, ticks, keep, delivered>>

\* metal_mutex_acquire: xSemaphoreTake without timeout.
Acquire(c) ==
  /\ Runs(c)
  /\ lock = NULL
  /\ \E s \in DOMAIN Section : /\ pc[c] = Section[s]
                               /\ pc' = [pc EXCEPT ![c] = s]
  /\ lock' = c
  /\ UNCHANGED <<vring, tx, posted, cur, ticks, keep, delivered>>

\* Mutant: the newest buffer is taken first.
NextBufferLast(c) ==
  IF avail = <<>>
  THEN /\ cur' = [cur EXCEPT ![c] = NULL]
       /\ pc' = [pc EXCEPT ![c] = "idle"]
       /\ UNCHANGED avail
  ELSE /\ cur' = [cur EXCEPT ![c] = avail[Len(avail)]]
       /\ pc' = [pc EXCEPT ![c] = "wantFind"]
       /\ avail' = SubSeq(avail, 1, Len(avail) - 1)

\* rpmsg_virtio_get_rx_buffer takes the next buffer, if there is one; without
\* one the callback is over.
NextBuffer(c) ==
  IF avail = <<>>
  THEN /\ cur' = [cur EXCEPT ![c] = NULL]
       /\ pc' = [pc EXCEPT ![c] = "idle"]
       /\ UNCHANGED avail
  ELSE /\ cur' = [cur EXCEPT ![c] = Head(avail)]
       /\ pc' = [pc EXCEPT ![c] = "wantFind"]
       /\ avail' = Tail(avail)

\* The first buffer.
Get(c) ==
  /\ Runs(c)
  /\ pc[c] = "get"
  /\ NextBuffer(c)
  /\ lock' = NULL
  /\ held' = [b \in Bufs |-> held[b] /\ b # cur'[c]]
  /\ UNCHANGED <<used, linux, msg, tx, posted, ticks, keep, delivered>>

\* The endpoint is looked up: there is one, the echo service, which Linux knows
\* of only after it is in the list (NothingDropped of module Startup).
Find(c) ==
  /\ Runs(c)
  /\ pc[c] = "find"
  /\ pc' = [pc EXCEPT ![c] = "cb"]
  /\ lock' = NULL
  /\ UNCHANGED <<vring, tx, posted, cur, ticks, keep, delivered>>

\* The endpoint's callback begins; it may hold the buffer, for the application.
\* The echo service calls rpmsg_send, with wait, which fails at once unless
\* Linux' driver is OK.
EptCb(c, hold, ok) ==
  /\ Runs(c)
  /\ pc[c] = "cb"
  /\ delivered' = Append(delivered, msg[cur[c]])
  /\ held' = [held EXCEPT ![cur[c]] = @ \/ hold]
  /\ kept' = IF hold THEN kept \cup {cur[c]} ELSE kept
  /\ ticks' = [ticks EXCEPT ![c] = TICKS]
  /\ pc' = [pc EXCEPT ![c] = IF ok THEN "wantTx" ELSE "wantRet"]
  /\ UNCHANGED <<avail, used, linux, msg, tx, posted, lock, cur, app>>

\* rpmsg_virtio_get_tx_payload_buffer: a buffer, or another try after 1 ms, or
\* RPMSG_ERR_NO_BUFF, which the echo callback only logs.
GetTx(c) ==
  /\ Runs(c)
  /\ pc[c] = "tx"
  /\ lock' = NULL
  /\ \/ /\ txFree > 0
        /\ txFree' = txFree - 1
        /\ pc' = [pc EXCEPT ![c] = "wantSend"]
        /\ UNCHANGED ticks
     \/ /\ txFree = 0
        /\ ticks[c] > 0
        /\ ticks' = [ticks EXCEPT ![c] = @ - 1]
        /\ pc' = [pc EXCEPT ![c] = "wantTx"]
        /\ UNCHANGED txFree
     \/ /\ txFree = 0
        /\ ticks[c] = 0
        /\ pc' = [pc EXCEPT ![c] = "wantRet"]
        /\ UNCHANGED <<txFree, ticks>>
  /\ UNCHANGED <<vring, txOut, echoed, posted, cur, keep, delivered>>

\* rpmsg_virtio_send_offchannel_nocopy enqueues the echo.
Send(c) ==
  /\ Runs(c)
  /\ pc[c] = "send"
  /\ lock' = NULL
  /\ txOut' = Append(txOut, msg[cur[c]])
  /\ pc' = [pc EXCEPT ![c] = "wantRet"]
  /\ UNCHANGED <<vring, txFree, echoed, posted, cur, ticks, keep, delivered>>

\* Mutant: the buffer goes back although it is held.
ReturnAlways(c) ==
  /\ Runs(c)
  /\ pc[c] = "ret"
  /\ used' = Append(used, cur[c])
  /\ NextBuffer(c)
  /\ lock' = NULL
  /\ held' = [b \in Bufs |-> held[b] /\ b # cur'[c]]
  /\ UNCHANGED <<linux, msg, tx, posted, ticks, keep, delivered>>

\* Mutant: the buffer does not go back.
ReturnNever(c) ==
  /\ Runs(c)
  /\ pc[c] = "ret"
  /\ NextBuffer(c)
  /\ lock' = NULL
  /\ held' = [b \in Bufs |-> held[b] /\ b # cur'[c]]
  /\ UNCHANGED <<used, linux, msg, tx, posted, ticks, keep, delivered>>

\* The buffer goes back unless its header says that it is held, and the next
\* one is taken in the same critical section.  rp_hdr->reserved = idx clears
\* RPMSG_BUF_HELD.
Return(c) ==
  /\ Runs(c)
  /\ pc[c] = "ret"
  /\ used' = IF held[cur[c]] THEN used ELSE Append(used, cur[c])
  /\ NextBuffer(c)
  /\ lock' = NULL
  /\ held' = [b \in Bufs |-> held[b] /\ b # cur'[c]]
  /\ UNCHANGED <<linux, msg, tx, posted, ticks, keep, delivered>>

-----------------------------------------------------------------------------
(* The application's task: rpmsg_release_rx_buffer.                        *)

Busy == {cur[c] : c \in Contexts}

AppAcquire(b) ==
  /\ Runs("app")
  /\ app = NULL
  /\ b \in kept
  /\ EarlyRelease \/ b \notin Busy
  /\ lock = NULL
  /\ lock' = "app"
  /\ app' = b
  /\ UNCHANGED <<vring, tx, posted, pc, cur, ticks, kept, delivered>>

AppRelease ==
  /\ Runs("app")
  /\ app # NULL
  /\ used' = Append(used, app)
  /\ kept' = kept \ {app}
  /\ app' = NULL
  /\ lock' = NULL
  /\ UNCHANGED <<avail, linux, msg, held, tx, posted, pc, cur, ticks, delivered>>

-----------------------------------------------------------------------------

Rx(c) ==
  \/ Acquire(c) \/ Get(c) \/ Find(c)
  \/ (\E hold, ok \in BOOLEAN : EptCb(c, hold, ok))
  \/ GetTx(c) \/ Send(c) \/ Return(c)

Next ==
  \/ \E b \in Bufs : LinuxPost(b)
  \/ LinuxReap
  \/ LinuxReadEcho
  \/ \E c \in Contexts : Callback(c)
  \/ \E c \in Contexts : Rx(c)
  \/ \E b \in Bufs : AppAcquire(b)
  \/ AppRelease

\* Polling every 20 ms calls back again and again (module Msgbox); a task that
\* waits for the lock gets it in the end, as it is the highest priority task
\* or the others sleep; the application releases what it keeps; Linux takes
\* what it is given.
Fairness ==
  /\ \A c \in Contexts : WF_vars(Callback(c)) /\ SF_vars(Rx(c))
  /\ \A b \in Bufs : SF_vars(AppAcquire(b))
  /\ WF_vars(AppRelease)
  /\ WF_vars(LinuxReap) /\ WF_vars(LinuxReadEcho)

Spec == Init /\ [][Next]_vars /\ Fairness

-----------------------------------------------------------------------------
(* Properties.                                                             *)

InSeq(s) == {s[i] : i \in DOMAIN s}

\* The type of the state.
TypeOK ==
  /\ avail \in Seq(Bufs) /\ used \in Seq(Bufs) /\ linux \subseteq Bufs
  /\ msg \in [Bufs -> 0..MaxMsgs] /\ held \in [Bufs -> BOOLEAN]
  /\ txFree \in 0..TxBufs
  /\ posted \in 0..MaxMsgs
  /\ lock \in Contexts \cup {"app", NULL}
  /\ \A c \in Contexts :
       pc[c] \in {"idle", "cb"} \cup DOMAIN Section
                   \cup {Section[s] : s \in DOMAIN Section}
  /\ cur \in [Contexts -> Bufs \cup {NULL}]
  /\ kept \subseteq Bufs /\ app \in Bufs \cup {NULL}

\* The buffers a context of the firmware is working on, or has held.
AtFirmware == (Busy \cup kept) \ {NULL}

\* A receive buffer has one owner: it is at Linux, on one of the two rings once,
\* or at the firmware, and no two contexts work on the same one.  Broken if a
\* buffer is returned twice, or returned while the application keeps it.
OneOwner ==
  /\ TypeOK
  /\ Len(avail) + Len(used) + Cardinality(linux) + Cardinality(AtFirmware)
       = Cardinality(Bufs)
  /\ InSeq(avail) \cup InSeq(used) \cup linux \cup AtFirmware = Bufs
  /\ \A c, d \in Contexts : cur[c] = cur[d] /\ cur[c] # NULL => c = d

\* rpmsg.h offers rpmsg_release_rx_buffer "at process context when the message
\* in rx buffer is processed": a buffer that is on its way back to Linux is
\* neither a second time on that way, nor offered to the firmware, nor already
\* at Linux.
ReturnedOnce ==
  /\ InSeq(used) \cap (InSeq(avail) \cup linux) = {}
  /\ Cardinality(InSeq(used)) = Len(used)

\* The endpoint gets every message once, in the order in which Linux posted
\* them, and Linux reads the echoes in that order, whatever the transmit ring
\* had to drop after 15 s without a buffer.
InOrder ==
  /\ \A i \in DOMAIN delivered : delivered[i] = i
  /\ \A i, j \in DOMAIN echoed : i < j => echoed[i] < echoed[j]
  /\ \A i, j \in DOMAIN txOut : i < j => txOut[i] < txOut[j]

\* A critical section of the interrupt handler never waits for the task it has
\* interrupted, which cannot run before the handler is done.
IsrNeverWaits ==
  \A c \in Contexts : c = "isr" /\ pc[c] \in {Section[s] : s \in DOMAIN Section}
    => lock = NULL

\* Every buffer that Linux posts comes back to it.
BufferReturns ==
  \A b \in Bufs : (b \in InSeq(avail)) ~> (b \in linux)

=============================================================================
