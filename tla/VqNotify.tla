------------------------------ MODULE VqNotify ------------------------------
(***************************************************************************)
(* The notification half of openamp/open-amp/virtio/virtqueue.c: when does *)
(* virtqueue_kick interrupt the other side, and can a side that waits for  *)
(* the interrupt be left with work in the ring?                            *)
(*                                                                         *)
(* The protocol is the same in both directions of a virtqueue.  The        *)
(* producer is the side that publishes entries (the master on the          *)
(* available ring, the slave on the used ring) and kicks; the consumer is  *)
(* the other one, which takes entries and switches its callback on and     *)
(* off.  They share the ring's index and either a flag or, when            *)
(* VIRTIO_RING_F_EVENT_IDX is negotiated, an event index.  What an entry   *)
(* holds is the module Virtqueue.                                          *)
(***************************************************************************)
EXTENDS Integers

CONSTANTS
  N,         \* vq_nentries
  IDX_MOD,   \* number of values of a free-running uint16_t index (2^16)
  MaxBatch   \* entries published between two kicks, less than IDX_MOD

ASSUME NotifyAssumption ==
  /\ N \in Nat \ {0}
  /\ IDX_MOD \in Nat
  /\ IDX_MOD > N + 1
  /\ MaxBatch \in 1..(IDX_MOD - 1)

Indices == 0..(IDX_MOD - 1)

VARIABLES
  event_idx,   \* VIRTIO_RING_F_EVENT_IDX is in vq_dev->features
  idx,         \* avail->idx, or used->idx
  event,       \* vring_avail_event, or vring_used_event
  no_notify,   \* VRING_USED_F_NO_NOTIFY, or VRING_AVAIL_F_NO_INTERRUPT
  irq,         \* a notification has not been handled
  vq_queued_cnt, p_pc,   \* the producer's
  cons, c_pc             \* the consumer's: vq_available_idx, or vq_used_cons_idx

producer == <<vq_queued_cnt, p_pc>>
consumer == <<cons, c_pc>>
notifyVars == <<event_idx, idx, event, no_notify, irq, producer, consumer>>

Pending == (idx - cons) % IDX_MOD

NotifyInit ==
  /\ event_idx \in BOOLEAN
  /\ idx = 0
  /\ event = 0
  /\ no_notify = FALSE
  /\ irq = FALSE
  /\ vq_queued_cnt = 0
  /\ p_pc = "idle"
  /\ cons = 0
  /\ c_pc = "wait"

-----------------------------------------------------------------------------
(* The producer.                                                           *)

\* The index is published and counted: the ends of vq_ring_update_avail and of
\* virtqueue_add_consumed_buffer.
Publish ==
  /\ p_pc = "idle"
  /\ Pending < N
  /\ vq_queued_cnt < MaxBatch
  /\ idx' = (idx + 1) % IDX_MOD
  /\ vq_queued_cnt' = vq_queued_cnt + 1
  /\ UNCHANGED <<event_idx, event, no_notify, irq, p_pc, consumer>>

\* vring_need_event, in uint16_t arithmetic.
NeedEvent(event_i, new, old) ==
  (new - event_i - 1) % IDX_MOD < (new - old) % IDX_MOD

\* vq_ring_must_notify.
MustNotify ==
  IF event_idx THEN NeedEvent(event, idx, (idx - vq_queued_cnt) % IDX_MOD)
               ELSE ~no_notify

\* Mutant: the pending count is cleared before it is used.
KickForget ==
  /\ p_pc = "idle"
  /\ p_pc' = IF event_idx /\ ~NeedEvent(event, idx, idx) THEN "idle" ELSE "notify"
  /\ vq_queued_cnt' = 0
  /\ UNCHANGED <<event_idx, idx, event, no_notify, irq, consumer>>

\* virtqueue_kick reads what the consumer wants, clears its count...
Kick ==
  /\ p_pc = "idle"
  /\ p_pc' = IF MustNotify THEN "notify" ELSE "idle"
  /\ vq_queued_cnt' = 0
  /\ UNCHANGED <<event_idx, idx, event, no_notify, irq, consumer>>

\* ... and notifies it, by vq_ring_notify.  The count is private to the
\* producer, so it makes no difference that the code clears it last.
Notify ==
  /\ p_pc = "notify"
  /\ irq' = TRUE
  /\ p_pc' = "idle"
  /\ UNCHANGED <<event_idx, idx, event, no_notify, vq_queued_cnt, consumer>>

-----------------------------------------------------------------------------
(* The consumer: virtqueue_notification calls it; it may switch further    *)
(* callbacks off while it takes entries, and before it waits again it      *)
(* switches them on and looks once more.                                   *)

\* virtqueue_notification.
Notification ==
  /\ c_pc = "wait"
  /\ irq
  /\ irq' = FALSE
  /\ c_pc' = "drain"
  /\ UNCHANGED <<event_idx, idx, event, no_notify, producer, cons>>

\* virtqueue_disable_cb.
DisableCb ==
  /\ c_pc = "drain"
  /\ IF event_idx
     THEN event' = (cons - N - 1) % IDX_MOD /\ UNCHANGED no_notify
     ELSE no_notify' = TRUE /\ UNCHANGED event
  /\ UNCHANGED <<event_idx, idx, irq, producer, consumer>>

\* virtqueue_get_available_buffer, or virtqueue_get_buffer, takes an entry...
Take ==
  /\ c_pc = "drain"
  /\ cons # idx
  /\ cons' = (cons + 1) % IDX_MOD
  /\ UNCHANGED <<event_idx, idx, event, no_notify, irq, producer, c_pc>>

\* ... or finds none.
TakeNone ==
  /\ c_pc = "drain"
  /\ cons = idx
  /\ c_pc' = "enable"
  /\ UNCHANGED <<event_idx, idx, event, no_notify, irq, producer, cons>>

\* The first half of virtqueue_enable_cb writes the flag or the event index.
EnableCb ==
  /\ c_pc = "enable"
  /\ IF event_idx
     THEN event' = cons /\ UNCHANGED no_notify
     ELSE no_notify' = FALSE /\ UNCHANGED event
  /\ c_pc' = "check"
  /\ UNCHANGED <<event_idx, idx, irq, producer, cons>>

\* Mutant: the ring is not looked at again.
EnableCheckNone ==
  /\ c_pc = "check"
  /\ c_pc' = "wait"
  /\ UNCHANGED <<event_idx, idx, event, no_notify, irq, producer, cons>>

\* The second half of vq_ring_enable_interrupt: entries published meanwhile
\* are reported to the caller, which goes on.
EnableCheck ==
  /\ c_pc = "check"
  /\ c_pc' = IF Pending > 0 THEN "drain" ELSE "wait"
  /\ UNCHANGED <<event_idx, idx, event, no_notify, irq, producer, cons>>

-----------------------------------------------------------------------------

NotifyNext ==
  \/ Publish \/ Kick \/ Notify
  \/ Notification \/ DisableCb \/ Take \/ TakeNone \/ EnableCb \/ EnableCheck

\* Both sides finish what they begin, and what was published gets its kick:
\* in rpmsg_virtio.c one follows in the same critical section, or once the
\* receive ring is empty.
NotifyFairness ==
  /\ WF_notifyVars(vq_queued_cnt # 0 /\ Kick)
  /\ WF_notifyVars(Notify)
  /\ WF_notifyVars(Notification)
  /\ WF_notifyVars(Take)
  /\ WF_notifyVars(TakeNone)
  /\ WF_notifyVars(EnableCb)
  /\ WF_notifyVars(EnableCheck)

NotifySpec == NotifyInit /\ [][NotifyNext]_notifyVars /\ NotifyFairness

-----------------------------------------------------------------------------
(* Properties.                                                             *)

\* The type of the state.
NotifyTypeOK ==
  /\ event_idx \in BOOLEAN /\ no_notify \in BOOLEAN /\ irq \in BOOLEAN
  /\ idx \in Indices /\ event \in Indices /\ cons \in Indices
  /\ vq_queued_cnt \in 0..MaxBatch
  /\ p_pc \in {"idle", "notify"}
  /\ c_pc \in {"wait", "drain", "enable", "check"}

\* No wake-up is lost: when the consumer waits with entries in the ring, a
\* notification is on its way, or the kick that will decide on one is still to
\* come.  It rests on the order of the two sides' accesses (publish, then read
\* the event; write the event, then look at the ring) and on the window
\* arithmetic of vring_need_event across the wrap of the indices.
NoLostWakeup ==
  /\ NotifyTypeOK
  /\ (c_pc = "wait" /\ Pending > 0) =>
       irq \/ p_pc = "notify" \/ (vq_queued_cnt # 0 /\ MustNotify)

\* Every published entry is taken in the end.
EveryEntryTaken == \A k \in Indices : (idx = k) ~> (cons = k)

=============================================================================
