----------------------------- MODULE Virtqueue -----------------------------
(***************************************************************************)
(* One split vring of openamp/open-amp/virtio/virtqueue.c, shared by two   *)
(* processors: the master, which owns the descriptor table and offers      *)
(* buffers (virtqueue_add_buffer, virtqueue_get_buffer), and the slave,    *)
(* which consumes them (virtqueue_get_available_buffer,                    *)
(* virtqueue_add_consumed_buffer).                                         *)
(*                                                                         *)
(* The two sides run on different cores and take no common lock, so every  *)
(* access to memory the other side also touches is a step of its own.      *)
(* Within one side calls are serialised (by rdev->lock in rpmsg_virtio.c): *)
(* m_pc and s_pc are the program counters of the call in progress, and a   *)
(* side whose counter is not "idle" has vq_inuse set.                      *)
(*                                                                         *)
(* All callers in the repository pass chains of one descriptor (readable + *)
(* writable = 1), so ndescs is always 1 and VRING_DESC_F_NEXT never set.   *)
(* Kicks, flags, event indices and vq_queued_cnt, the notification half of *)
(* the same functions, are the module VqNotify.                            *)
(***************************************************************************)
EXTENDS Integers, FiniteSets

CONSTANTS
  N,        \* vq_nentries, the number of descriptors
  IDX_MOD,  \* number of values of a free-running uint16_t index (2^16)
  Bufs,     \* the buffers the master exchanges (the cookies)
  NULL

\* The value that ends the free chain (virtqueue.h).
VQ_RING_DESC_CHAIN_END == 32768

\* virtqueue_create accepts a non-zero power of two; all that the ring
\* arithmetic needs of it is that the index space is a whole number, at
\* least two, of laps of the ring.
ASSUME VqAssumption ==
  /\ N \in 1..VQ_RING_DESC_CHAIN_END
  /\ IDX_MOD \in Nat
  /\ \E laps \in 2..IDX_MOD : IDX_MOD = laps * N
  /\ NULL \notin Bufs

Descs == 0..(N - 1)

Indices == 0..(IDX_MOD - 1)

\* Where a descriptor is in its life cycle.
Places == {"free", "adding", "avail", "reading",
           "held", "returning", "used", "reaping"}

VARIABLES
  \* Memory shared by the two sides.
  desc,              \* desc[i].addr
  avail_ring, avail_idx,
  used_ring, used_idx,
  \* The master's struct virtqueue, and the local of the call in progress.
  next,              \* desc[i].next, only used by the master
  vq_desc_head_idx, vq_free_cnt,
  cookie,            \* vq_descx[i].cookie
  vq_used_cons_idx,
  m_pc, m_idx,
  \* The slave's struct virtqueue, the local of the call in progress, and the
  \* buffers it has taken and not yet returned, by descriptor.
  vq_available_idx,
  s_pc, s_idx,
  held,
  \* History: the place of each descriptor, and the height of a free
  \* descriptor above the end of the free chain.
  owner, rank

shared == <<desc, avail_ring, avail_idx, used_ring, used_idx>>
master == <<next, vq_desc_head_idx, vq_free_cnt, cookie, vq_used_cons_idx,
            m_pc, m_idx>>
slave  == <<vq_available_idx, s_pc, s_idx, held>>
vars   == <<shared, master, slave, owner, rank>>

-----------------------------------------------------------------------------
(* Ring arithmetic.                                                        *)

\* Mutant: the index is clamped to the ring instead of masked.
SlotClamp(i) == IF i < N THEN i ELSE N - 1

\* idx & (vq_nentries - 1); vq_nentries is a power of two.
Slot(i) == i % N

\* idx++ on a uint16_t.
Inc(i) == (i + 1) % IDX_MOD

\* (uint16_t)(avail_idx - vq->vq_available_idx), virtqueue_navail.
NAvail == (avail_idx - vq_available_idx) % IDX_MOD

\* (uint16_t)(used_idx - vq->vq_used_cons_idx), virtqueue_nused.
NUsed == (used_idx - vq_used_cons_idx) % IDX_MOD

-----------------------------------------------------------------------------
(* virtqueue_create on the master: every descriptor is on the free chain.  *)

\* vq_ring_init: each descriptor links to the one after it.
InitNext == [i \in Descs |-> IF i = N - 1 THEN VQ_RING_DESC_CHAIN_END ELSE i + 1]

Init ==
  /\ desc = [i \in Descs |-> NULL]
  /\ avail_ring = [i \in Descs |-> 0]
  /\ avail_idx = 0
  /\ used_ring = [i \in Descs |-> 0]
  /\ used_idx = 0
  /\ next = InitNext
  /\ vq_desc_head_idx = 0
  /\ vq_free_cnt = N
  /\ cookie = [i \in Descs |-> NULL]
  /\ vq_used_cons_idx = 0
  /\ m_pc = "idle"
  /\ m_idx = 0
  /\ vq_available_idx = 0
  /\ s_pc = "idle"
  /\ s_idx = 0
  /\ held = [i \in Descs |-> NULL]
  /\ owner = [i \in Descs |-> "free"]
  /\ rank = [i \in Descs |-> N - i]

-----------------------------------------------------------------------------
(* The master.                                                             *)

\* virtqueue_add_buffer up to vq_ring_update_avail: the head of the free chain
\* takes the buffer, its cookie and its address.  The caller offers a buffer
\* that is not in flight.
AddBuffer(b) ==
  LET d == vq_desc_head_idx
  IN  /\ m_pc = "idle"
      /\ vq_free_cnt # 0
      /\ \A i \in Descs : cookie[i] # b
      /\ cookie' = [cookie EXCEPT ![d] = b]
      /\ desc' = [desc EXCEPT ![d] = b]
      /\ vq_desc_head_idx' = next[d]
      /\ vq_free_cnt' = vq_free_cnt - 1
      /\ m_idx' = d
      /\ m_pc' = "slot"
      /\ owner' = [owner EXCEPT ![d] = "adding"]
      /\ UNCHANGED <<avail_ring, avail_idx, used_ring, used_idx, next,
                     vq_used_cons_idx, slave, rank>>

\* Mutant: the index is published before the slot is written.
AvailSlotLate ==
  /\ m_pc = "slot"
  /\ avail_idx' = Inc(avail_idx)
  /\ m_pc' = "publish"
  /\ UNCHANGED <<desc, avail_ring, used_ring, used_idx, next,
                 vq_desc_head_idx, vq_free_cnt, cookie, vq_used_cons_idx,
                 m_idx, slave, owner, rank>>

\* vq_ring_update_avail: the descriptor goes into the next slot of the ring...
AvailSlot ==
  /\ m_pc = "slot"
  /\ avail_ring' = [avail_ring EXCEPT ![Slot(avail_idx)] = m_idx]
  /\ m_pc' = "publish"
  /\ UNCHANGED <<desc, avail_idx, used_ring, used_idx, next,
                 vq_desc_head_idx, vq_free_cnt, cookie, vq_used_cons_idx,
                 m_idx, slave, owner, rank>>

\* ... and, after the fence, the index makes it visible to the slave.
AvailPublish ==
  /\ m_pc = "publish"
  /\ avail_idx' = Inc(avail_idx)
  /\ m_pc' = "idle"
  /\ owner' = [owner EXCEPT ![m_idx] = "avail"]
  /\ UNCHANGED <<desc, avail_ring, used_ring, used_idx, next,
                 vq_desc_head_idx, vq_free_cnt, cookie, vq_used_cons_idx,
                 m_idx, slave, rank>>

\* virtqueue_get_buffer: something is used; its slot is claimed...
GetUsed ==
  /\ m_pc = "idle"
  /\ vq_used_cons_idx # used_idx
  /\ m_idx' = Slot(vq_used_cons_idx)
  /\ vq_used_cons_idx' = Inc(vq_used_cons_idx)
  /\ m_pc' = "reap"
  /\ owner' = [owner EXCEPT ![used_ring[Slot(vq_used_cons_idx)]] = "reaping"]
  /\ UNCHANGED <<shared, next, vq_desc_head_idx, vq_free_cnt, cookie, slave,
                 rank>>

\* ... the slot is read and vq_ring_free_chain puts the descriptor at the head
\* of the free chain; the caller gets the cookie.
FreeChain ==
  LET d == used_ring[m_idx]
  IN  /\ m_pc = "reap"
      /\ vq_free_cnt' = vq_free_cnt + 1
      /\ next' = [next EXCEPT ![d] = vq_desc_head_idx]
      /\ vq_desc_head_idx' = d
      /\ cookie' = [cookie EXCEPT ![d] = NULL]
      /\ m_pc' = "idle"
      /\ owner' = [owner EXCEPT ![d] = "free"]
      /\ rank' = [rank EXCEPT ![d] = vq_free_cnt + 1]
      /\ UNCHANGED <<shared, vq_used_cons_idx, m_idx, slave>>

-----------------------------------------------------------------------------
(* The slave.                                                              *)

\* virtqueue_get_available_buffer: something is available; its slot is
\* claimed...
GetAvail ==
  /\ s_pc = "idle"
  /\ vq_available_idx # avail_idx
  /\ s_idx' = Slot(vq_available_idx)
  /\ vq_available_idx' = Inc(vq_available_idx)
  /\ s_pc' = "slot"
  /\ owner' = [owner EXCEPT ![avail_ring[Slot(vq_available_idx)]] = "reading"]
  /\ UNCHANGED <<shared, master, held, rank>>

\* Mutant: the slot number is taken for the descriptor.
ReadSlotRaw ==
  /\ s_pc = "slot"
  /\ s_pc' = "desc"
  /\ UNCHANGED <<shared, master, vq_available_idx, s_idx, held, owner, rank>>

\* ... the slot is read into *avail_idx ...
ReadSlot ==
  /\ s_pc = "slot"
  /\ s_idx' = avail_ring[s_idx]
  /\ s_pc' = "desc"
  /\ UNCHANGED <<shared, master, vq_available_idx, held, owner, rank>>

\* ... and the buffer's address from the descriptor.
ReadDesc ==
  /\ s_pc = "desc"
  /\ held' = [held EXCEPT ![s_idx] = desc[s_idx]]
  /\ s_pc' = "idle"
  /\ owner' = [owner EXCEPT ![s_idx] = "held"]
  /\ UNCHANGED <<shared, master, vq_available_idx, s_idx, rank>>

\* virtqueue_add_consumed_buffer(head_idx): any buffer the slave holds, in any
\* order, goes into the next slot of the used ring.  An index above vq_nentries is
\* refused, one equal to it is not; the slave returns what it holds.
AddConsumed(head_idx) ==
  /\ s_pc = "idle"
  /\ head_idx <= N
  /\ held[head_idx] # NULL
  /\ used_ring' = [used_ring EXCEPT ![Slot(used_idx)] = head_idx]
  /\ held' = [held EXCEPT ![head_idx] = NULL]
  /\ s_idx' = head_idx
  /\ s_pc' = "publish"
  /\ owner' = [owner EXCEPT ![head_idx] = "returning"]
  /\ UNCHANGED <<desc, avail_ring, avail_idx, used_idx, master,
                 vq_available_idx, rank>>

\* After the fence the index makes it visible to the master.
UsedPublish ==
  /\ s_pc = "publish"
  /\ used_idx' = Inc(used_idx)
  /\ s_pc' = "idle"
  /\ owner' = [owner EXCEPT ![s_idx] = "used"]
  /\ UNCHANGED <<desc, avail_ring, avail_idx, used_ring, master,
                 vq_available_idx, s_idx, held, rank>>

-----------------------------------------------------------------------------

Next ==
  \/ \E b \in Bufs : AddBuffer(b)
  \/ AvailSlot
  \/ AvailPublish
  \/ GetUsed
  \/ FreeChain
  \/ GetAvail
  \/ ReadSlot
  \/ ReadDesc
  \/ \E d \in Descs : AddConsumed(d)
  \/ UsedPublish

Spec == Init /\ [][Next]_vars

-----------------------------------------------------------------------------
(* The two queues of the ring, as windows of the rings' memory.            *)

AvailAt(k) == avail_ring[(vq_available_idx + k) % N]

UsedAt(k) == used_ring[(vq_used_cons_idx + k) % N]

AvailSet == {AvailAt(k) : k \in 0..(NAvail - 1)}

UsedSet == {UsedAt(k) : k \in 0..(NUsed - 1)}

HeldSet == {d \in Descs : held[d] # NULL}

-----------------------------------------------------------------------------
(* Properties.                                                             *)

\* The type of the state.
TypeOK ==
  /\ desc \in [Descs -> Bufs \cup {NULL}]
  /\ avail_ring \in [Descs -> Descs]
  /\ used_ring \in [Descs -> Descs]
  /\ avail_idx \in Indices /\ vq_available_idx \in Indices
  /\ used_idx \in Indices /\ vq_used_cons_idx \in Indices
  /\ next \in [Descs -> Descs \cup {VQ_RING_DESC_CHAIN_END}]
  /\ vq_desc_head_idx \in Descs \cup {VQ_RING_DESC_CHAIN_END}
  /\ vq_free_cnt \in 0..N
  /\ cookie \in [Descs -> Bufs \cup {NULL}]
  /\ m_pc \in {"idle", "slot", "publish", "reap"}
  /\ s_pc \in {"idle", "slot", "desc", "publish"}
  /\ m_idx \in Descs /\ s_idx \in Descs
  /\ held \in [Descs -> Bufs \cup {NULL}]
  /\ owner \in [Descs -> Places]
  /\ rank \in [Descs -> 1..N]

\* A descriptor is in one place at a time: neither ring holds more entries
\* than descriptors (the assertions of virtqueue_navail and virtqueue_nused),
\* no descriptor is pending twice, and what is pending on one ring is not
\* pending on the other, not held by the slave and not on the free chain.
\* Broken if a slot is reused before it was read or an index wraps wrongly.
Exclusive ==
  /\ NAvail <= N /\ NUsed <= N
  /\ \A j, k \in 0..(NAvail - 1) : AvailAt(j) = AvailAt(k) => j = k
  /\ \A j, k \in 0..(NUsed - 1) : UsedAt(j) = UsedAt(k) => j = k
  /\ AvailSet \cap UsedSet = {}
  /\ HeldSet \cap (AvailSet \cup UsedSet) = {}
  /\ \A d \in AvailSet \cup UsedSet \cup HeldSet : cookie[d] # NULL

\* While the slave works on a buffer, the descriptor it came from still
\* carries that buffer and the master still has its cookie: nothing the master
\* does in the meantime (virtqueue_add_buffer rewriting desc[], a lap of the
\* index) hands the buffer out again.
SlaveOwnsBuffer ==
  \A d \in HeldSet : held[d] = desc[d] /\ held[d] = cookie[d]

\* The assertions the debug build compiles in: the head of the free chain is a
\* descriptor without a cookie (VQ_RING_ASSERT_VALID_IDX, "cookie already
\* exists for index"), or ends the chain exactly when no descriptor is free
\* (VQ_RING_ASSERT_CHAIN_TERM); and what virtqueue_get_buffer takes from the
\* used ring is a descriptor that carries a cookie.
AssertsHold ==
  /\ IF vq_free_cnt = 0
     THEN vq_desc_head_idx = VQ_RING_DESC_CHAIN_END
     ELSE vq_desc_head_idx \in Descs /\ cookie[vq_desc_head_idx] = NULL
  /\ m_pc = "reap" => cookie[used_ring[m_idx]] # NULL

-----------------------------------------------------------------------------
(* The inductive invariant behind Exclusive, SlaveOwnsBuffer, AssertsHold. *)

\* The free chain: its members have the ranks 1..vq_free_cnt, each links to
\* the one below it, and the head is the one on top.
ChainInv ==
  /\ \A d \in Descs : owner[d] = "free" =>
       /\ rank[d] <= vq_free_cnt
       /\ IF rank[d] = 1
          THEN next[d] = VQ_RING_DESC_CHAIN_END
          ELSE /\ next[d] \in Descs
               /\ owner[next[d]] = "free"
               /\ rank[next[d]] = rank[d] - 1
  /\ \A d, e \in Descs :
       owner[d] = "free" /\ owner[e] = "free" /\ rank[d] = rank[e] => d = e
  /\ \A k \in 1..vq_free_cnt : \E d \in Descs : owner[d] = "free" /\ rank[d] = k
  /\ IF vq_free_cnt = 0
     THEN vq_desc_head_idx = VQ_RING_DESC_CHAIN_END
     ELSE /\ vq_desc_head_idx \in Descs
          /\ owner[vq_desc_head_idx] = "free"
          /\ rank[vq_desc_head_idx] = vq_free_cnt

\* The available ring: the pending window names distinct available
\* descriptors, and the slots in use by the two calls in progress hold what
\* these calls rely on.
AvailInv ==
  /\ \A k \in 0..(NAvail - 1) : owner[AvailAt(k)] = "avail"
  /\ \A j, k \in 0..(NAvail - 1) : AvailAt(j) = AvailAt(k) => j = k
  /\ NAvail <= N
  /\ m_pc \in {"slot", "publish"} => owner[m_idx] = "adding"
  /\ m_pc = "publish" => avail_ring[Slot(avail_idx)] = m_idx
  /\ s_pc = "slot" => /\ owner[avail_ring[s_idx]] = "reading"
                      /\ Slot(s_idx + 1) = Slot(vq_available_idx)
  /\ s_pc = "desc" => owner[s_idx] = "reading"

\* The used ring, likewise.
UsedInv ==
  /\ \A k \in 0..(NUsed - 1) : owner[UsedAt(k)] = "used"
  /\ \A j, k \in 0..(NUsed - 1) : UsedAt(j) = UsedAt(k) => j = k
  /\ NUsed <= N
  /\ s_pc = "publish" => /\ owner[s_idx] = "returning"
                         /\ used_ring[Slot(used_idx)] = s_idx
  /\ m_pc = "reap" => /\ owner[used_ring[m_idx]] = "reaping"
                      /\ Slot(m_idx + 1) = Slot(vq_used_cons_idx)

\* The buffers: a descriptor carries a buffer, in the table and as a cookie,
\* exactly while it is not free, and the slave has it exactly while it holds it.
BufInv ==
  \A d \in Descs :
    /\ owner[d] = "free" <=> cookie[d] = NULL
    /\ owner[d] # "free" => desc[d] = cookie[d]
    /\ owner[d] = "held" <=> held[d] # NULL
    /\ held[d] # NULL => held[d] = cookie[d]

IInv == TypeOK /\ ChainInv /\ AvailInv /\ UsedInv /\ BufInv

-----------------------------------------------------------------------------
(* What the ring implements.                                               *)

\* Buffers in transit through a call of the slave, which are still at the
\* slave: it has claimed the slot, or not yet published the used entry.
SlaveInCall ==
  CASE s_pc = "slot"    -> {desc[avail_ring[s_idx]]}
    [] s_pc = "desc"    -> {desc[s_idx]}
    [] s_pc = "publish" -> {cookie[s_idx]}
    [] OTHER            -> {}

Fifo == INSTANCE VringFifo WITH
  Capacity <- N,
  toSlave  <- [k \in 1..NAvail |-> desc[AvailAt(k - 1)]],
  atSlave  <- {held[d] : d \in HeldSet} \cup SlaveInCall,
  toMaster <- [k \in 1..NUsed |-> cookie[UsedAt(k - 1)]]

\* The ring is a FIFO of buffers in each direction, with one owner per buffer:
\* publishing the index offers or returns a buffer, claiming the slot takes or
\* reclaims it, and every other step of the code is invisible to the other
\* side.
ImplementsFifo == Fifo!FifoSpec

=============================================================================
