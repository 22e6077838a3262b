------------------------------ MODULE Startup ------------------------------
(***************************************************************************)
(* The start of the firmware: main_task, platform_rproc_init and           *)
(* setup_rpmsg (core/main.c, openamp/platform/platform.c) with what they   *)
(* call in remoteproc.c, remoteproc_virtio.c, rpmsg_virtio.c and rpmsg.c,  *)
(* against Linux, which brings its virtio driver up at the same time, and  *)
(* against the mailbox interrupt, which msgbox_init registers before       *)
(* anything its handler uses exists.                                       *)
(*                                                                         *)
(* A step of the task is one call that makes something visible to the      *)
(* handler or to Linux, or reads what Linux writes.  The handler preempts  *)
(* the task and runs to its end, so it is one step.  All words of the      *)
(* mailbox stand for the receive vring (module Msgbox).                    *)
(***************************************************************************)
EXTENDS Naturals

CONSTANTS
  IrqResults,   \* the results of irq_request: TRUE when the handler is registered
  EarlyKicks,   \* Linux kicks before the service is announced
  WAIT_LOOPS,   \* 500, the bound of rpmsg_virtio_wait_remote_ready
  FifoDepth,    \* mb->fifo_depth
  MaxMsgs,      \* bound on the messages Linux posts
  MaxResets     \* bound on the times Linux resets the device

ASSUME StartupAssumption ==
  /\ IrqResults \subseteq BOOLEAN /\ IrqResults # {}
  /\ EarlyKicks \in BOOLEAN
  /\ {WAIT_LOOPS, FifoDepth, MaxMsgs, MaxResets} \subseteq Nat

\* The task's calls in their order; after an error, or a trap, it halts.
Phases == <<"mbox", "irq", "rproc", "table", "run", "create", "waitOk", "add",
            "vrings", "shm", "waitReady", "features", "vqCallback", "vqRing",
            "eptList", "register", "announce", "loop">>

VARIABLES
  pc,              \* the call the task is about to make, "halt" after an error
  loops,           \* of rpmsg_virtio_wait_remote_ready
  irq_registered,
  vdev_list,       \* rproc->vdevs: "none" before metal_list_init, "empty", "vdev"
  callback,        \* vq->callback of the receive virtqueue is set
  vring,           \* its vq->vq_ring is set
  endpoints,       \* rdev->endpoints: "none", "empty", "service"
  support_ns,
  announced,       \* the name service CREATE has been sent
  status,          \* of the vdev in the resource table
  gfeatures,       \* Linux' answer in the resource table: VIRTIO_RPMSG_F_NS
  accepts,         \* the answer that Linux' driver will give
  resets,
  channel,         \* Linux has a channel for the service
  words,           \* words in the mailbox
  posted, ring,    \* messages Linux has posted, and how many are in the ring
  dropped,         \* history: messages for which there was no endpoint
  fault            \* history: the handler used what is not initialised

firmware == <<pc, loops, irq_registered, vdev_list, callback, vring, endpoints,
              support_ns, announced>>
linux    == <<status, gfeatures, accepts, resets, channel, posted>>
mailbox  == <<words, ring, dropped, fault>>
vars     == <<firmware, linux, mailbox>>

\* The memory of a fresh boot; platform_rproc_init clears struct
\* openamp_platform.
Init ==
  /\ pc = "mbox"
  /\ loops = 0
  /\ irq_registered = FALSE
  /\ vdev_list = "none"
  /\ callback = FALSE /\ vring = FALSE
  /\ endpoints = "none"
  /\ support_ns = FALSE
  /\ announced = FALSE
  /\ status = "reset"
  /\ gfeatures = FALSE
  /\ accepts \in BOOLEAN
  /\ resets = 0
  /\ channel = FALSE
  /\ words = 0 /\ posted = 0 /\ ring = 0 /\ dropped = 0
  /\ fault = FALSE

-----------------------------------------------------------------------------
(* The task.  An error of a call ends in main_task's halt loop.            *)

\* msgbox_init drains the mailbox without a callback...
MsgboxInit ==
  /\ pc = "mbox"
  /\ words' = 0
  /\ pc' = "irq"
  /\ UNCHANGED <<loops, irq_registered, vdev_list, callback, vring, endpoints,
                 support_ns, announced, linux, ring, dropped, fault>>

\* ... and registers the handler; without it the task polls.
RequestIrq ==
  /\ pc = "irq"
  /\ irq_registered' \in IrqResults
  /\ pc' = "rproc"
  /\ UNCHANGED <<loops, vdev_list, callback, vring, endpoints, support_ns,
                 announced, linux, mailbox>>

\* remoteproc_init clears the structure and initialises its lists.
RemoteprocInit ==
  /\ pc = "rproc"
  /\ vdev_list' = "empty"
  /\ pc' = "table"
  /\ UNCHANGED <<loops, irq_registered, callback, vring, endpoints, support_ns,
                 announced, linux, mailbox>>

\* remoteproc_mmap and remoteproc_set_rsc_table, which map the table and the
\* shared memory, and may find no memory.
InstallTable(ok) ==
  /\ pc = "table"
  /\ pc' = IF ok THEN "run" ELSE "halt"
  /\ UNCHANGED <<loops, irq_registered, vdev_list, callback, vring, endpoints,
                 support_ns, announced, linux, mailbox>>

\* remoteproc_config and remoteproc_start, which succeed: the state is OFFLINE
\* after remoteproc_init and the platform's operations return 0.
ConfigStart ==
  /\ pc = "run"
  /\ pc' = "create"
  /\ UNCHANGED <<loops, irq_registered, vdev_list, callback, vring, endpoints,
                 support_ns, announced, linux, mailbox>>

\* rproc_virtio_create_vdev.
CreateVdev(ok) ==
  /\ pc = "create"
  /\ pc' = IF ok THEN "waitOk" ELSE "halt"
  /\ UNCHANGED <<loops, irq_registered, vdev_list, callback, vring, endpoints,
                 support_ns, announced, linux, mailbox>>

\* Mutant: the wait ends whatever the status is.
WaitOkNot ==
  /\ pc = "waitOk"
  /\ pc' = "add"
  /\ UNCHANGED <<loops, irq_registered, vdev_list, callback, vring, endpoints,
                 support_ns, announced, linux, mailbox>>

\* rproc_virtio_wait_remote_ready polls the status without a bound.
WaitOk ==
  /\ pc = "waitOk"
  /\ status = "ok"
  /\ pc' = "add"
  /\ UNCHANGED <<loops, irq_registered, vdev_list, callback, vring, endpoints,
                 support_ns, announced, linux, mailbox>>

\* remoteproc_create_virtio lists the device; its virtqueues have no callback.
AddVdev ==
  /\ pc = "add"
  /\ vdev_list' = "vdev"
  /\ pc' = "vrings"
  /\ UNCHANGED <<loops, irq_registered, callback, vring, endpoints, support_ns,
                 announced, linux, mailbox>>

\* The rest of remoteproc_create_virtio maps the vrings, or removes the device.
InitVrings(ok) ==
  /\ pc = "vrings"
  /\ vdev_list' = IF ok THEN vdev_list ELSE "empty"
  /\ pc' = IF ok THEN "shm" ELSE "halt"
  /\ UNCHANGED <<loops, irq_registered, callback, vring, endpoints, support_ns,
                 announced, linux, mailbox>>

\* remoteproc_get_io_with_da stores the offset through the NULL pointer that
\* setup_rpmsg passes: the store to address 0 has no effect, or it traps.
GetShmIo(ok) ==
  /\ pc = "shm"
  /\ pc' = IF ok THEN "waitReady" ELSE "halt"
  /\ UNCHANGED <<loops, irq_registered, vdev_list, callback, vring, endpoints,
                 support_ns, announced, linux, mailbox>>

\* Mutant: the wait has no bound.
WaitReadyForever ==
  /\ pc = "waitReady"
  /\ loops' = loops
  /\ status' = IF status = "needs_reset" THEN "reset" ELSE status
  /\ pc' = IF status = "ok" THEN "features" ELSE "waitReady"
  /\ UNCHANGED <<irq_registered, vdev_list, callback, vring, endpoints, support_ns,
                 announced, gfeatures, accepts, resets, channel, posted, mailbox>>

\* One round of rpmsg_virtio_wait_remote_ready, whose result rpmsg_init_vdev
\* ignores.
WaitReady ==
  /\ pc = "waitReady"
  /\ loops' = loops + 1
  /\ status' = IF status = "needs_reset" THEN "reset" ELSE status
  /\ pc' = IF status = "ok" \/ loops' > WAIT_LOOPS THEN "features" ELSE "waitReady"
  /\ UNCHANGED <<irq_registered, vdev_list, callback, vring, endpoints, support_ns,
                 announced, gfeatures, accepts, resets, channel, posted, mailbox>>

\* rpmsg_virtio_get_features: the device offers the name service.
ReadFeatures ==
  /\ pc = "features"
  /\ support_ns' = gfeatures
  /\ pc' = "vqCallback"
  /\ UNCHANGED <<loops, irq_registered, vdev_list, callback, vring, endpoints,
                 announced, linux, mailbox>>

\* virtqueue_create, for the receive virtqueue, sets the callback first...
VqCallback ==
  /\ pc = "vqCallback"
  /\ callback' = TRUE
  /\ pc' = "vqRing"
  /\ UNCHANGED <<loops, irq_registered, vdev_list, vring, endpoints, support_ns,
                 announced, linux, mailbox>>

\* ... and then the ring.
VqRing ==
  /\ pc = "vqRing"
  /\ vring' = TRUE
  /\ pc' = "eptList"
  /\ UNCHANGED <<loops, irq_registered, vdev_list, callback, endpoints, support_ns,
                 announced, linux, mailbox>>

\* rpmsg_init_vdev ends with the list of endpoints.
EptList ==
  /\ pc = "eptList"
  /\ endpoints' = "empty"
  /\ pc' = "register"
  /\ UNCHANGED <<loops, irq_registered, vdev_list, callback, vring, support_ns,
                 announced, linux, mailbox>>

\* Mutant: the endpoint is not put into the list.
RegisterNot ==
  /\ pc = "register"
  /\ pc' = "announce"
  /\ UNCHANGED <<loops, irq_registered, vdev_list, callback, vring, endpoints,
                 support_ns, announced, linux, mailbox>>

\* rpmsg_create_ept registers the service...
Register ==
  /\ pc = "register"
  /\ endpoints' = "service"
  /\ pc' = "announce"
  /\ UNCHANGED <<loops, irq_registered, vdev_list, callback, vring, support_ns,
                 announced, linux, mailbox>>

\* ... and announces it if Linux wants that.  When the send fails, because the
\* driver is not OK or gives no buffer, the endpoint is unregistered.
Announce(ok) ==
  /\ pc = "announce"
  /\ ok => ~support_ns \/ status = "ok"
  /\ ~support_ns => ok
  /\ announced' = (support_ns /\ ok)
  /\ endpoints' = IF ok THEN endpoints ELSE "empty"
  /\ pc' = IF ok THEN "loop" ELSE "halt"
  /\ UNCHANGED <<loops, irq_registered, vdev_list, callback, vring, support_ns,
                 linux, mailbox>>

-----------------------------------------------------------------------------
(* A notification: msgbox_rx, remoteproc_get_notification,                 *)
(* rproc_virtio_notified, virtqueue_notification, rpmsg_virtio_rx_callback.*)

\* The lists and the ring are walked as they are: before metal_list_init a list
\* is a NULL pointer.
Walks ==
  \/ vdev_list = "none"
  \/ vdev_list = "vdev" /\ callback /\ ~vring
  \/ vdev_list = "vdev" /\ callback /\ vring /\ ring > 0 /\ endpoints = "none"

\* The callback empties the ring; a message without endpoint is dropped.
Notified ==
  /\ words' = 0
  /\ fault' = (fault \/ Walks)
  /\ IF vdev_list = "vdev" /\ callback /\ ~Walks
     THEN /\ ring' = 0
          /\ dropped' = IF endpoints = "service" THEN dropped ELSE dropped + ring
     ELSE UNCHANGED <<ring, dropped>>

\* msgbox_irq_handler, at any moment.
Isr ==
  /\ irq_registered
  /\ words > 0
  /\ Notified
  /\ UNCHANGED <<firmware, linux>>

\* Mutant: the task waits for the interrupt without a timeout.
TaskPollWaits ==
  /\ pc = "loop"
  /\ irq_registered
  /\ words > 0
  /\ Notified
  /\ UNCHANGED <<firmware, linux>>

\* The task's loop: at the latest after 20 ms.
TaskPoll ==
  /\ pc = "loop"
  /\ words > 0
  /\ Notified
  /\ UNCHANGED <<firmware, linux>>

-----------------------------------------------------------------------------
(* Linux (external).                                                       *)

LinuxDriver ==
  /\ status = "reset"
  /\ status' = "driver"
  /\ gfeatures' = accepts
  /\ UNCHANGED <<firmware, accepts, resets, channel, posted, mailbox>>

LinuxReady ==
  /\ status = "driver"
  /\ status' = "ok"
  /\ UNCHANGED <<firmware, gfeatures, accepts, resets, channel, posted, mailbox>>

\* The driver is unbound, or asks for a reset.
LinuxReset ==
  /\ ~announced
  /\ resets < MaxResets
  /\ status' \in {"reset", "needs_reset"} \ {status}
  /\ resets' = resets + 1
  /\ UNCHANGED <<firmware, gfeatures, accepts, channel, posted, mailbox>>

\* Linux' probe kicks for the buffers it offers as soon as its driver is OK.
LinuxKick ==
  /\ channel \/ (EarlyKicks /\ status = "ok")
  /\ words < FifoDepth
  /\ words' = words + 1
  /\ UNCHANGED <<firmware, linux, ring, dropped, fault>>

LinuxAnnounced ==
  /\ announced
  /\ channel' = TRUE
  /\ UNCHANGED <<firmware, status, gfeatures, accepts, resets, posted, mailbox>>

LinuxPost ==
  /\ channel
  /\ posted < MaxMsgs
  /\ words < FifoDepth
  /\ posted' = posted + 1
  /\ ring' = ring + 1
  /\ words' = words + 1
  /\ UNCHANGED <<firmware, status, gfeatures, accepts, resets, channel, dropped,
                 fault>>

-----------------------------------------------------------------------------

Task ==
  \/ MsgboxInit \/ RequestIrq \/ RemoteprocInit
  \/ \E ok \in BOOLEAN : InstallTable(ok) \/ CreateVdev(ok) \/ InitVrings(ok)
                       \/ GetShmIo(ok)
  \/ ConfigStart \/ WaitOk \/ AddVdev \/ WaitReady \/ ReadFeatures
  \/ VqCallback \/ VqRing \/ EptList \/ Register
  \/ \E ok \in BOOLEAN : Announce(ok)

Next ==
  \/ Task \/ Isr \/ TaskPoll
  \/ LinuxDriver \/ LinuxReady \/ LinuxReset
  \/ LinuxKick \/ LinuxAnnounced \/ LinuxPost

\* The task is the only one of its priority; its loop ends every wait after
\* 20 ms.  Linux is not required to do anything.
Fairness == WF_vars(Task) /\ WF_vars(TaskPoll) /\ WF_vars(Isr)

Spec == Init /\ [][Next]_vars /\ Fairness

-----------------------------------------------------------------------------
(* Properties.                                                             *)

PhaseSet == {Phases[i] : i \in DOMAIN Phases}

\* The task has made the call.
Past(phase) ==
  \E i, j \in DOMAIN Phases : i < j /\ Phases[i] = phase /\ pc = Phases[j]

\* The type of the state.
TypeOK ==
  /\ pc \in PhaseSet \cup {"halt"}
  /\ loops \in 0..(WAIT_LOOPS + 1)
  /\ {irq_registered, callback, vring, support_ns, announced, gfeatures, accepts,
      channel, fault} \subseteq BOOLEAN
  /\ vdev_list \in {"none", "empty", "vdev"}
  /\ endpoints \in {"none", "empty", "service"}
  /\ status \in {"reset", "driver", "ok", "needs_reset"}
  /\ resets \in 0..MaxResets /\ words \in 0..FifoDepth
  /\ posted \in 0..MaxMsgs /\ ring \in 0..MaxMsgs /\ dropped \in 0..MaxMsgs

\* The features the firmware works with are the ones Linux' driver accepts,
\* although they are read once, the second wait may time out, and Linux may
\* reset the device between the waits and the read.
FeaturesAgree == TypeOK /\ (Past("features") => support_ns = accepts)

\* No message is lost in the start: when Linux learns of the service, the
\* virtqueue has its callback and the endpoint is in the list.
NothingDropped ==
  /\ dropped = 0
  /\ channel => callback /\ vring /\ endpoints = "service"

\* Once Linux' driver has been seen to be OK, the start ends, in the loop or
\* halted, whatever Linux does: the second wait and the send are bounded.
StartEnds == Past("waitOk") ~> pc \in {"loop", "halt"}

\* A message posted as soon as Linux has the channel is received, by the
\* handler or by the loop, which the task may not have reached yet.
MessageReceived == (ring > 0) ~> (ring = 0)

\* The start comes to an end, and in the loop as well as before it what Linux
\* sends is received.
StartServes == StartEnds /\ MessageReceived

\* ipi.c drains "without invoking callbacks (rproc not ready yet)": a callback
\* never walks a list or a ring that is not initialised.
CallbacksWait == ~fault

=============================================================================
