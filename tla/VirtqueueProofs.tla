-------------------------- MODULE VirtqueueProofs --------------------------
(***************************************************************************)
(* Proofs about Virtqueue for every ring size, index width and set of      *)
(* buffers.  The argument: IInv is inductive; the facts about the rings it *)
(* needs are that the index space is a whole number of laps (so a slot     *)
(* survives the wrap of the index) and that fewer than N descriptors are   *)
(* pending whenever a slot is written (because the pending ones and the    *)
(* one being written are distinct members of Descs).  RingIsFifo is the    *)
(* refinement: under IInv each step of the code is a step of VringFifo or  *)
(* leaves its queues alone.                                                *)
(***************************************************************************)
EXTENDS Virtqueue, FiniteSetTheorems, FunctionTheorems, SequenceTheorems, TLAPS

-----------------------------------------------------------------------------
(* Ring arithmetic.                                                        *)

\* The constants are natural numbers and there is room for a full ring
\* between two indices.
LEMMA Sizes ==
  /\ N \in Nat /\ N >= 1 /\ N <= VQ_RING_DESC_CHAIN_END
  /\ IDX_MOD \in Nat /\ IDX_MOD > N
<1>1. PICK laps \in 2..IDX_MOD : IDX_MOD = laps * N
  BY VqAssumption
<1>2. laps * N >= 2 * N
  BY <1>1, VqAssumption DEF VQ_RING_DESC_CHAIN_END
<1>3. QED
  BY <1>1, <1>2, VqAssumption DEF VQ_RING_DESC_CHAIN_END

\* The remainder of a number given by its quotient and remainder (index masks).
LEMMA ModUnique ==
  \A q, r \in Int : 0 <= r /\ r < N => (N * q + r) % N = r
BY Sizes

\* Quotient and remainder of a ring index.
LEMMA DivMod ==
  \A x \in Int : /\ x \div N \in Int
                 /\ x % N \in Descs
                 /\ x = N * (x \div N) + (x % N)
BY Sizes DEF Descs

\* One wrap of the 16-bit index does not move the slot.
LEMMA LapPeriod == \A x \in Int : (x + IDX_MOD) % N = x % N
<1> SUFFICES ASSUME NEW x \in Int PROVE (x + IDX_MOD) % N = x % N
  OBVIOUS
<1>1. PICK laps \in 2..IDX_MOD : IDX_MOD = laps * N
  BY VqAssumption
<1> DEFINE q == x \div N
           r == x % N
<1>2. q \in Int /\ r \in Int /\ 0 <= r /\ r < N /\ x = N * q + r
  BY DivMod, Sizes DEF Descs
<1>3. x + IDX_MOD = N * (q + laps) + r
  BY <1>1, <1>2, Sizes
<1>4. (N * (q + laps) + r) % N = r
  BY <1>1, <1>2, ModUnique
<1>5. QED
  BY <1>3, <1>4

\* Two different positions less than a lap apart are different slots.
LEMMA SlotInjective ==
  ASSUME NEW c \in Int, NEW j \in Int, NEW k \in Int,
         j < k, k - j < N
  PROVE  (c + j) % N # (c + k) % N
<1> SUFFICES ASSUME (c + j) % N = (c + k) % N PROVE FALSE
  OBVIOUS
<1> DEFINE p == (c + j) \div N
           q == (c + k) \div N
<1>1. /\ p \in Int /\ q \in Int
      /\ c + j = N * p + ((c + j) % N)
      /\ c + k = N * q + ((c + k) % N)
      /\ (c + j) % N \in Int /\ (c + k) % N \in Int
  BY DivMod, Sizes DEF Descs
<1> HIDE DEF p, q
<1>2. k - j = N * (q - p)
  BY <1>1, Sizes
<1>3. q - p >= 1
  BY <1>1, <1>2, Sizes
<1>4. N * (q - p) >= N
  BY <1>1, <1>3, Sizes
<1>5. QED
  BY <1>2, <1>4, Sizes, <1>1

\* The increment of a free-running index (uint16_t idx++).
LEMMA IncValue ==
  ASSUME NEW i \in Indices
  PROVE  /\ Inc(i) \in Indices
         /\ Inc(i) = IF i = IDX_MOD - 1 THEN 0 ELSE i + 1
BY Sizes DEF Inc, Indices

\* The distance of two free-running indices, (uint16_t)(a - b).
LEMMA DistValue ==
  ASSUME NEW a \in Indices, NEW b \in Indices
  PROVE  /\ (a - b) % IDX_MOD \in Indices
         /\ (a - b) % IDX_MOD = IF a >= b THEN a - b ELSE a - b + IDX_MOD
BY Sizes DEF Indices

\* Advancing the producer's index lengthens the window, advancing the
\* consumer's index shortens it.
LEMMA DistStep ==
  ASSUME NEW a \in Indices, NEW b \in Indices
  PROVE  /\ (a - b) % IDX_MOD < IDX_MOD - 1
              => (Inc(a) - b) % IDX_MOD = ((a - b) % IDX_MOD) + 1
         /\ a # b => /\ (a - b) % IDX_MOD >= 1
                     /\ (a - Inc(b)) % IDX_MOD = ((a - b) % IDX_MOD) - 1
<1>1. Inc(a) \in Indices /\ Inc(b) \in Indices
  BY IncValue
<1>2. /\ (a - b) % IDX_MOD = IF a >= b THEN a - b ELSE a - b + IDX_MOD
      /\ (Inc(a) - b) % IDX_MOD = IF Inc(a) >= b THEN Inc(a) - b
                                                 ELSE Inc(a) - b + IDX_MOD
      /\ (a - Inc(b)) % IDX_MOD = IF a >= Inc(b) THEN a - Inc(b)
                                                 ELSE a - Inc(b) + IDX_MOD
  BY <1>1, DistValue
<1>3. QED
  BY <1>1, <1>2, IncValue, Sizes DEF Indices

\* A position counted from the advanced index is the next position counted
\* from the index before.
LEMMA IncSlot ==
  ASSUME NEW i \in Indices, NEW k \in Int
  PROVE  (Inc(i) + k) % N = (i + (k + 1)) % N
<1>1. CASE i = IDX_MOD - 1
  <2>1. (k + IDX_MOD) % N = k % N
    BY LapPeriod
  <2>2. Inc(i) + k = k /\ i + (k + 1) = k + IDX_MOD
    BY <1>1, IncValue, Sizes
  <2>3. QED
    BY <2>1, <2>2
<1>2. CASE i # IDX_MOD - 1
  <2>1. Inc(i) + k = i + (k + 1)
    BY <1>2, IncValue, Sizes DEF Indices
  <2>2. QED
    BY <2>1
<1>3. QED
  BY <1>1, <1>2

\* The producer's slot is the end of the window that starts at the consumer.
LEMMA EndSlot ==
  ASSUME NEW a \in Indices, NEW b \in Indices
  PROVE  a % N = (b + ((a - b) % IDX_MOD)) % N
<1>1. CASE a >= b
  <2>1. b + ((a - b) % IDX_MOD) = a
    BY <1>1, DistValue, Sizes DEF Indices
  <2>2. QED
    BY <2>1
<1>2. CASE a < b
  <2>1. b + ((a - b) % IDX_MOD) = a + IDX_MOD
    BY <1>2, DistValue, Sizes DEF Indices
  <2>2. (a + IDX_MOD) % N = a % N
    BY LapPeriod DEF Indices
  <2>3. QED
    BY <2>1, <2>2
<1>3. QED
  BY <1>1, <1>2, Sizes DEF Indices

\* The slot after a position's slot is the slot of the next position.
LEMMA ModSucc == \A x \in Int : ((x % N) + 1) % N = (x + 1) % N
<1> SUFFICES ASSUME NEW x \in Int PROVE ((x % N) + 1) % N = (x + 1) % N
  OBVIOUS
<1> DEFINE q == x \div N
           r == x % N
<1>1. q \in Int /\ r \in Int /\ 0 <= r /\ r < N /\ x = N * q + r
  BY DivMod, Sizes DEF Descs
<1> HIDE DEF q, r
<1>2. CASE r + 1 < N
  <2>1. x + 1 = N * q + (r + 1) /\ r + 1 = N * 0 + (r + 1)
    BY <1>1, Sizes
  <2>2. (N * q + (r + 1)) % N = r + 1 /\ (N * 0 + (r + 1)) % N = r + 1
    BY <1>1, <1>2, ModUnique
  <2>3. QED
    BY <2>1, <2>2 DEF r
<1>3. CASE r + 1 = N
  <2>1. x + 1 = N * (q + 1) + 0 /\ r + 1 = N * 1 + 0
    BY <1>1, <1>3, Sizes
  <2>2. (N * (q + 1) + 0) % N = 0 /\ (N * 1 + 0) % N = 0
    BY <1>1, ModUnique, Sizes
  <2>3. QED
    BY <2>1, <2>2 DEF r
<1>4. QED
  BY <1>1, <1>2, <1>3, Sizes

-----------------------------------------------------------------------------
(* Windows of a ring: the positions b, b+1, ... up to a.                   *)

\* Writing the producer's slot leaves the pending window alone while it is
\* shorter than the ring.
LEMMA WindowWrite ==
  ASSUME NEW ring \in [Descs -> Descs], NEW a \in Indices, NEW b \in Indices,
         NEW d \in Descs, (a - b) % IDX_MOD < N,
         NEW k \in 0..(((a - b) % IDX_MOD) - 1)
  PROVE  [ring EXCEPT ![Slot(a)] = d][(b + k) % N] = ring[(b + k) % N]
<1> DEFINE n == (a - b) % IDX_MOD
<1>1. n \in Int /\ b \in Int /\ k \in Int /\ k < n /\ n - k < N /\ n >= 0
  BY DistValue, Sizes DEF Indices
<1>2. a % N = (b + n) % N
  BY EndSlot
<1> HIDE DEF n
<1>3. (b + k) % N # (b + n) % N
  BY <1>1, SlotInjective
<1>4. (b + k) % N \in Descs
  BY <1>1, DivMod
<1>5. QED
  BY <1>2, <1>3, <1>4 DEF Slot

\* The producer's slot is not the slot the consumer has just claimed while
\* the window and that slot leave room.
LEMMA ClaimedSlot ==
  ASSUME NEW a \in Indices, NEW b \in Indices, NEW s \in Descs,
         Slot(s + 1) = Slot(b), ((a - b) % IDX_MOD) + 2 <= N
  PROVE  Slot(a) # s
<1> SUFFICES ASSUME a % N = s PROVE FALSE
  BY DEF Slot
<1> DEFINE n == (a - b) % IDX_MOD
<1>1. n \in Int /\ n >= 0 /\ n + 2 <= N /\ b \in Int /\ a \in Int
  BY DistValue, Sizes DEF Indices
<1>2. a % N = (b + n) % N
  BY EndSlot
<1> HIDE DEF n
<1>3. (s + 1) % N = (b + n + 1) % N
  BY <1>1, <1>2, ModSucc
<1>4. (b + 0) % N # (b + (n + 1)) % N
  <2>1. 0 \in Int /\ n + 1 \in Int /\ 0 < n + 1 /\ (n + 1) - 0 < N
    BY <1>1, Sizes
  <2>2. QED
    BY <1>1, <2>1, SlotInjective
<1>5. b + 0 = b /\ b + (n + 1) = b + n + 1
  BY <1>1
<1>6. QED
  BY <1>3, <1>4, <1>5 DEF Slot

\* As many distinct descriptors as positions fit in the table.
LEMMA Fit ==
  ASSUME NEW n \in Nat, NEW f \in [0..(n - 1) -> Descs],
         \A j, k \in 0..(n - 1) : f[j] = f[k] => j = k
  PROVE  n <= N
<1>1. IsFiniteSet(0..(n - 1)) /\ Cardinality(0..(n - 1)) = n
  <2>1. 0 \in Int /\ n - 1 \in Int
    OBVIOUS
  <2>2. QED
    BY <2>1, FS_Interval
<1>2. IsFiniteSet(Descs) /\ Cardinality(Descs) = N
  <2>1. 0 \in Int /\ N - 1 \in Int /\ N - 1 >= 0
    BY Sizes
  <2>2. QED
    BY <2>1, FS_Interval, Sizes DEF Descs
<1>3. CASE N < n
  <2>1. \E j, k \in 0..(n - 1) : j # k /\ f[j] = f[k]
    BY <1>1, <1>2, <1>3, FS_PigeonHole
  <2>2. QED
    BY <2>1
<1>4. QED
  BY <1>3, Sizes
-----------------------------------------------------------------------------
(* Room: what is in flight never exceeds the table.                        *)

\* The lengths of the two windows.
LEMMA Lengths ==
  ASSUME TypeOK
  PROVE  NAvail \in Nat /\ NUsed \in Nat
BY DistValue DEF TypeOK, NAvail, NUsed, Indices

\* Every position of a ring names a descriptor.
LEMMA Entries ==
  ASSUME TypeOK
  PROVE  \A k \in Int : AvailAt(k) \in Descs /\ UsedAt(k) \in Descs
<1>1. \A k \in Int : /\ (vq_available_idx + k) % N \in Descs
                     /\ (vq_used_cons_idx + k) % N \in Descs
  BY DivMod DEF TypeOK, Indices
<1>2. QED
  BY <1>1 DEF TypeOK, AvailAt, UsedAt

\* While virtqueue_add_buffer holds a descriptor, the available ring has a slot
\* for it, next to the one the slave may be reading.
LEMMA AvailRoom ==
  ASSUME TypeOK, AvailInv, m_pc \in {"slot", "publish"}
  PROVE  /\ NAvail + 1 <= N
         /\ s_pc = "slot" => NAvail + 2 <= N
<1> DEFINE n == NAvail
           f == [k \in 0..n |-> IF k < n THEN AvailAt(k) ELSE m_idx]
           g == [k \in 0..(n + 1) |-> IF k < n THEN AvailAt(k)
                                      ELSE IF k = n THEN m_idx
                                      ELSE avail_ring[s_idx]]
<1>1. n \in Nat
  BY Lengths
<1>2. \A k \in 0..(n - 1) : AvailAt(k) \in Descs /\ owner[AvailAt(k)] = "avail"
  BY <1>1, Entries DEF AvailInv
<1>3. m_idx \in Descs /\ owner[m_idx] = "adding"
  BY DEF TypeOK, AvailInv
<1>4. \A j, k \in 0..(n - 1) : AvailAt(j) = AvailAt(k) => j = k
  BY DEF AvailInv
<1> HIDE DEF n
<1>5. n + 1 <= N
  <2>1. f \in [0..((n + 1) - 1) -> Descs]
    BY <1>1, <1>2, <1>3
  <2>2. \A j, k \in 0..((n + 1) - 1) : f[j] = f[k] => j = k
    BY <1>1, <1>2, <1>3, <1>4
  <2> HIDE DEF f
  <2>3. n + 1 \in Nat
    BY <1>1
  <2>4. QED
    BY <2>1, <2>2, <2>3, Fit
<1>6. ASSUME s_pc = "slot" PROVE n + 2 <= N
  <2>1. avail_ring[s_idx] \in Descs /\ owner[avail_ring[s_idx]] = "reading"
    BY <1>6 DEF TypeOK, AvailInv
  <2>2. g \in [0..((n + 2) - 1) -> Descs]
    BY <1>1, <1>2, <1>3, <2>1
  <2>3. \A j, k \in 0..((n + 2) - 1) : g[j] = g[k] => j = k
    BY <1>1, <1>2, <1>3, <1>4, <2>1
  <2> HIDE DEF g
  <2>4. n + 2 \in Nat
    BY <1>1
  <2>5. QED
    BY <2>2, <2>3, <2>4, Fit
<1>7. QED
  BY <1>5, <1>6 DEF n

\* While the slave returns descriptor d, the used ring has a slot for it, next
\* to the one the master may be reading.
LEMMA UsedRoom ==
  ASSUME TypeOK, UsedInv, NEW d \in Descs, owner[d] \in {"held", "returning"}
  PROVE  /\ NUsed + 1 <= N
         /\ m_pc = "reap" => NUsed + 2 <= N
<1> DEFINE n == NUsed
           f == [k \in 0..n |-> IF k < n THEN UsedAt(k) ELSE d]
           g == [k \in 0..(n + 1) |-> IF k < n THEN UsedAt(k)
                                      ELSE IF k = n THEN d
                                      ELSE used_ring[m_idx]]
<1>1. n \in Nat
  BY Lengths
<1>2. \A k \in 0..(n - 1) : UsedAt(k) \in Descs /\ owner[UsedAt(k)] = "used"
  BY <1>1, Entries DEF UsedInv
<1>4. \A j, k \in 0..(n - 1) : UsedAt(j) = UsedAt(k) => j = k
  BY DEF UsedInv
<1> HIDE DEF n
<1>5. n + 1 <= N
  <2>1. f \in [0..((n + 1) - 1) -> Descs]
    BY <1>1, <1>2
  <2>2. \A j, k \in 0..((n + 1) - 1) : f[j] = f[k] => j = k
    BY <1>1, <1>2, <1>4
  <2> HIDE DEF f
  <2>3. n + 1 \in Nat
    BY <1>1
  <2>4. QED
    BY <2>1, <2>2, <2>3, Fit
<1>6. ASSUME m_pc = "reap" PROVE n + 2 <= N
  <2>1. used_ring[m_idx] \in Descs /\ owner[used_ring[m_idx]] = "reaping"
    BY <1>6 DEF TypeOK, UsedInv
  <2>2. g \in [0..((n + 2) - 1) -> Descs]
    BY <1>1, <1>2, <2>1
  <2>3. \A j, k \in 0..((n + 2) - 1) : g[j] = g[k] => j = k
    BY <1>1, <1>2, <1>4, <2>1
  <2> HIDE DEF g
  <2>4. n + 2 \in Nat
    BY <1>1
  <2>5. QED
    BY <2>2, <2>3, <2>4, Fit
<1>7. QED
  BY <1>5, <1>6 DEF n

\* While virtqueue_get_buffer frees a descriptor, the free count is below N.
LEMMA FreeRoom ==
  ASSUME TypeOK, ChainInv, NEW d \in Descs, owner[d] # "free"
  PROVE  vq_free_cnt + 1 <= N
<1> DEFINE n == vq_free_cnt
           f == [k \in 0..n |-> IF k < n
                                THEN CHOOSE e \in Descs : /\ owner[e] = "free"
                                                          /\ rank[e] = k + 1
                                ELSE d]
<1>1. n \in Nat
  BY DEF TypeOK
<1>2. ASSUME NEW k \in 0..(n - 1)
      PROVE  f[k] \in Descs /\ owner[f[k]] = "free" /\ rank[f[k]] = k + 1
  <2>1. k + 1 \in 1..n /\ k \in 0..n /\ k < n
    BY <1>1
  <2>2. \E e \in Descs : owner[e] = "free" /\ rank[e] = k + 1
    BY <2>1 DEF ChainInv
  <2>3. f[k] = CHOOSE e \in Descs : owner[e] = "free" /\ rank[e] = k + 1
    BY <2>1
  <2> HIDE DEF f
  <2>4. QED
    BY <2>2, <2>3
<1>3. f[n] = d
  BY <1>1
<1>4. f = [k \in 0..n |-> f[k]]
  OBVIOUS
<1> HIDE DEF n, f
<1>5. f \in [0..((n + 1) - 1) -> Descs]
  <2>1. (n + 1) - 1 = n
    BY <1>1
  <2>2. \A k \in 0..n : k \in 0..(n - 1) \/ k = n
    BY <1>1
  <2>3. \A k \in 0..n : f[k] \in Descs
    BY <1>2, <1>3, <2>2
  <2>4. [k \in 0..n |-> f[k]] \in [0..n -> Descs]
    BY <2>3
  <2>5. QED
    BY <1>4, <2>1, <2>4
<1>6. ASSUME NEW j \in 0..((n + 1) - 1), NEW k \in 0..((n + 1) - 1), f[j] = f[k]
      PROVE  j = k
  BY <1>1, <1>2, <1>3, <1>6
<1>7. n + 1 \in Nat
  BY <1>1
<1>8. QED
  BY <1>5, <1>6, <1>7, Fit DEF n

-----------------------------------------------------------------------------
(* The invariant holds initially and every action preserves it.            *)

\* virtqueue_create establishes the invariant: the free chain has every
\* descriptor, and both rings are empty.
LEMMA InitInv == Init => IInv
<1> SUFFICES ASSUME Init PROVE IInv
  OBVIOUS
<1> USE Sizes
<1>1. NAvail = 0 /\ NUsed = 0
  BY DEF Init, NAvail, NUsed
<1>2. TypeOK
  <2>1. 0 \in Descs /\ 0 \in Indices /\ N \in 0..N
    BY DEF Descs, Indices
  <2>2. \A i \in Descs : N - i \in 1..N /\ (i # N - 1 => i + 1 \in Descs)
    BY DEF Descs
  <2>3. /\ next \in [Descs -> Descs \cup {VQ_RING_DESC_CHAIN_END}]
        /\ rank \in [Descs -> 1..N]
    BY <2>2 DEF Init, InitNext
  <2>4. QED
    BY <2>1, <2>3 DEF Init, TypeOK, Places
<1>3. ChainInv
  <2>1. \A k \in 1..vq_free_cnt : \E d \in Descs : owner[d] = "free" /\ rank[d] = k
    <3> SUFFICES ASSUME NEW k \in 1..vq_free_cnt
                 PROVE  \E d \in Descs : owner[d] = "free" /\ rank[d] = k
      OBVIOUS
    <3>1. N - k \in Descs /\ N - (N - k) = k
      BY DEF Init, Descs
    <3>2. owner[N - k] = "free" /\ rank[N - k] = k
      BY <3>1 DEF Init
    <3>3. QED
      BY <3>1, <3>2
  <2>2. QED
    BY <2>1 DEF Init, InitNext, ChainInv, Descs
<1>4. AvailInv /\ UsedInv
  BY <1>1 DEF Init, AvailInv, UsedInv
<1>5. BufInv
  BY DEF Init, BufInv
<1>6. QED
  BY <1>2, <1>3, <1>4, <1>5 DEF IInv

\* The window of the available ring does not depend on the other variables.
LEMMA AvailSame ==
  ASSUME UNCHANGED <<avail_ring, avail_idx, vq_available_idx>>
  PROVE  /\ NAvail' = NAvail
         /\ \A k \in Int : AvailAt(k)' = AvailAt(k)
BY DEF NAvail, AvailAt

\* The window of the used ring does not depend on the other variables.
LEMMA UsedSame ==
  ASSUME UNCHANGED <<used_ring, used_idx, vq_used_cons_idx>>
  PROVE  /\ NUsed' = NUsed
         /\ \A k \in Int : UsedAt(k)' = UsedAt(k)
BY DEF NUsed, UsedAt

\* virtqueue_add_buffer, before the ring is touched.
LEMMA AddBufferInv ==
  ASSUME IInv, NEW b \in Bufs, AddBuffer(b)
  PROVE  IInv'
<1> DEFINE d == vq_desc_head_idx
<1> USE DEF IInv
<1>1. /\ d \in Descs /\ owner[d] = "free" /\ rank[d] = vq_free_cnt
      /\ vq_free_cnt \in 1..N /\ b # NULL
  BY VqAssumption, Sizes DEF ChainInv, AddBuffer, TypeOK
<1>2. /\ NAvail' = NAvail /\ NUsed' = NUsed
      /\ \A k \in Int : AvailAt(k)' = AvailAt(k) /\ UsedAt(k)' = UsedAt(k)
  BY AvailSame, UsedSame DEF AddBuffer, slave
<1>3. owner' = [owner EXCEPT ![d] = "adding"]
  BY DEF AddBuffer
<1>4. TypeOK'
  <2>1. vq_free_cnt - 1 \in 0..N
    BY <1>1, Sizes
  <2>2. next[d] \in Descs \cup {VQ_RING_DESC_CHAIN_END}
    BY <1>1 DEF TypeOK
  <2>3. QED
    BY <1>1, <2>1, <2>2 DEF AddBuffer, TypeOK, Places, slave
<1>5. ChainInv'
  <2>1. \A e \in Descs : owner'[e] = "free" <=> owner[e] = "free" /\ e # d
    BY <1>1, <1>3 DEF TypeOK
  <2>2. /\ vq_free_cnt' = vq_free_cnt - 1 /\ vq_desc_head_idx' = next[d]
        /\ rank' = rank /\ next' = next
    BY DEF AddBuffer
  <2>3. \A e \in Descs : owner'[e] = "free" => rank[e] <= vq_free_cnt - 1
    BY <1>1, <2>1 DEF ChainInv, TypeOK
  <2>4. \A e \in Descs : owner'[e] = "free" /\ rank[e] # 1
                           => next[e] # d
    BY <1>1, <2>1, <2>3 DEF ChainInv, TypeOK
  <2>5. \A e \in Descs : owner'[e] = "free" =>
          IF rank[e] = 1
          THEN next[e] = VQ_RING_DESC_CHAIN_END
          ELSE /\ next[e] \in Descs
               /\ owner'[next[e]] = "free"
               /\ rank[next[e]] = rank[e] - 1
    BY <2>1, <2>4 DEF ChainInv
  <2>6. \A k \in 1..(vq_free_cnt - 1) :
          \E e \in Descs : owner'[e] = "free" /\ rank[e] = k
    <3> SUFFICES ASSUME NEW k \in 1..(vq_free_cnt - 1)
                 PROVE  \E e \in Descs : owner'[e] = "free" /\ rank[e] = k
      OBVIOUS
    <3>1. k \in 1..vq_free_cnt /\ k # vq_free_cnt
      BY <1>1
    <3>2. PICK e \in Descs : owner[e] = "free" /\ rank[e] = k
      BY <3>1 DEF ChainInv
    <3>3. QED
      BY <1>1, <2>1, <3>1, <3>2
  <2>7. IF vq_free_cnt - 1 = 0
        THEN next[d] = VQ_RING_DESC_CHAIN_END
        ELSE /\ next[d] \in Descs
             /\ owner'[next[d]] = "free"
             /\ rank[next[d]] = vq_free_cnt - 1
    <3>1. CASE vq_free_cnt = 1
      BY <1>1, <3>1 DEF ChainInv
    <3>2. CASE vq_free_cnt # 1
      <4>1. /\ next[d] \in Descs /\ owner[next[d]] = "free"
            /\ rank[next[d]] = vq_free_cnt - 1
        BY <1>1, <3>2 DEF ChainInv
      <4>2. next[d] # d
        BY <1>1, <4>1
      <4>3. QED
        BY <1>1, <2>1, <3>2, <4>1, <4>2
    <3>3. QED
      BY <3>1, <3>2
  <2>8. QED
    BY <2>1, <2>2, <2>3, <2>5, <2>6, <2>7 DEF ChainInv
<1>6. AvailInv'
  <2>1. \A e \in Descs : owner[e] \in {"avail", "reading"} => owner'[e] = owner[e]
    BY <1>1, <1>3 DEF TypeOK
  <2>2. \A k \in 0..(NAvail - 1) : AvailAt(k) \in Descs
    BY Entries, Lengths
  <2>3. m_pc' = "slot" /\ m_idx' = d /\ owner'[d] = "adding"
    BY <1>1, <1>3 DEF AddBuffer, TypeOK
  <2>4. s_pc' = s_pc /\ s_idx' = s_idx /\ s_idx \in Descs
        /\ vq_available_idx' = vq_available_idx /\ avail_ring' = avail_ring
        /\ avail_ring[s_idx] \in Descs
    BY DEF AddBuffer, slave, TypeOK
  <2>5. QED
    BY <1>2, <2>1, <2>2, <2>3, <2>4, Lengths DEF AvailInv
<1>7. UsedInv'
  <2>1. \A e \in Descs : owner[e] \in {"used", "returning"} => owner'[e] = owner[e]
    BY <1>1, <1>3 DEF TypeOK
  <2>2. \A k \in 0..(NUsed - 1) : UsedAt(k) \in Descs
    BY Entries, Lengths
  <2>3. m_pc' = "slot" /\ s_pc' = s_pc /\ s_idx' = s_idx /\ s_idx \in Descs
        /\ used_ring' = used_ring /\ used_idx' = used_idx
    BY DEF AddBuffer, slave, TypeOK
  <2>4. QED
    BY <1>2, <2>1, <2>2, <2>3, Lengths DEF UsedInv
<1>8. BufInv'
  BY <1>1, <1>3 DEF BufInv, AddBuffer, TypeOK, slave
<1>9. QED
  BY <1>4, <1>5, <1>6, <1>7, <1>8

\* The free chain only depends on the master's links and on who is free.
LEMMA ChainSame ==
  ASSUME TypeOK, ChainInv, UNCHANGED <<next, vq_desc_head_idx, vq_free_cnt, rank>>,
         \A e \in Descs : owner'[e] = "free" <=> owner[e] = "free"
  PROVE  ChainInv'
BY DEF ChainInv, TypeOK

\* vq_ring_update_avail writes a slot that neither the pending window nor the
\* slave's read uses.
LEMMA AvailSlotInv ==
  ASSUME IInv, AvailSlot
  PROVE  IInv'
<1> USE DEF IInv
<1>1. /\ NAvail + 1 <= N /\ NAvail \in Nat
      /\ s_pc = "slot" => NAvail + 2 <= N
  BY AvailRoom, Lengths DEF AvailSlot
<1>2. /\ avail_idx \in Indices /\ vq_available_idx \in Indices
      /\ avail_ring \in [Descs -> Descs] /\ m_idx \in Descs /\ s_idx \in Descs
      /\ Slot(avail_idx) \in Descs
  BY DivMod DEF TypeOK, Slot, Indices
<1>3. NUsed' = NUsed /\ \A k \in Int : UsedAt(k)' = UsedAt(k)
  BY UsedSame DEF AvailSlot
<1>4. NAvail' = NAvail
  BY DEF NAvail, AvailSlot, slave
<1>5. ASSUME NEW k \in 0..(NAvail - 1) PROVE AvailAt(k)' = AvailAt(k)
  <2>1. /\ (avail_idx - vq_available_idx) % IDX_MOD < N
        /\ k \in 0..(((avail_idx - vq_available_idx) % IDX_MOD) - 1)
    BY <1>1, Sizes DEF NAvail
  <2>2. [avail_ring EXCEPT ![Slot(avail_idx)] = m_idx][(vq_available_idx + k) % N]
          = avail_ring[(vq_available_idx + k) % N]
    BY <1>2, <2>1, WindowWrite
  <2>3. QED
    BY <2>2 DEF AvailAt, AvailSlot, slave
<1>6. s_pc = "slot" => avail_ring'[s_idx] = avail_ring[s_idx]
  <2> SUFFICES ASSUME s_pc = "slot" PROVE avail_ring'[s_idx] = avail_ring[s_idx]
    OBVIOUS
  <2>1. ((avail_idx - vq_available_idx) % IDX_MOD) + 2 <= N
    BY <1>1 DEF NAvail
  <2>2. Slot(s_idx + 1) = Slot(vq_available_idx)
    BY DEF AvailInv
  <2>3. Slot(avail_idx) # s_idx
    BY <1>2, <2>1, <2>2, ClaimedSlot
  <2>4. QED
    BY <1>2, <2>3 DEF AvailSlot
<1>7. avail_ring'[Slot(avail_idx)] = m_idx
  BY <1>2 DEF AvailSlot
<1>8. TypeOK'
  BY <1>2 DEF AvailSlot, TypeOK, slave
<1>9. ChainInv'
  BY ChainSame DEF AvailSlot
<1>10. AvailInv'
  BY <1>4, <1>5, <1>6, <1>7 DEF AvailInv, AvailSlot, slave
<1>11. UsedInv'
  BY <1>1, <1>3, Lengths DEF UsedInv, AvailSlot, slave
<1>12. BufInv'
  BY DEF BufInv, AvailSlot, slave
<1>13. QED
  BY <1>8, <1>9, <1>10, <1>11, <1>12

\* Publishing avail->idx appends the descriptor to the window.
LEMMA AvailPublishInv ==
  ASSUME IInv, AvailPublish
  PROVE  IInv'
<1> USE DEF IInv
<1>1. NAvail + 1 <= N /\ NAvail \in Nat
  BY AvailRoom, Lengths DEF AvailPublish
<1>2. /\ avail_idx \in Indices /\ vq_available_idx \in Indices
      /\ m_idx \in Descs /\ owner[m_idx] = "adding" /\ m_pc = "publish"
      /\ owner' = [owner EXCEPT ![m_idx] = "avail"] /\ owner'[m_idx] = "avail"
  BY DEF TypeOK, AvailInv, AvailPublish
<1>3. NUsed' = NUsed /\ \A k \in Int : UsedAt(k)' = UsedAt(k)
  BY UsedSame DEF AvailPublish
<1>4. NAvail' = NAvail + 1
  <2>1. (avail_idx - vq_available_idx) % IDX_MOD < IDX_MOD - 1
    BY <1>1, Sizes DEF NAvail
  <2>2. QED
    BY <1>2, <2>1, DistStep DEF NAvail, AvailPublish, slave
<1>5. \A k \in Int : AvailAt(k)' = AvailAt(k)
  BY DEF AvailAt, AvailPublish, slave
<1>6. AvailAt(NAvail) = m_idx
  <2>1. avail_idx % N = (vq_available_idx + NAvail) % N
    BY <1>2, EndSlot DEF NAvail
  <2>2. QED
    BY <1>2, <2>1 DEF AvailAt, AvailInv, Slot
<1>7. TypeOK'
  BY <1>2, IncValue DEF AvailPublish, TypeOK, slave, Places
<1>8. ChainInv'
  BY <1>2, ChainSame DEF AvailPublish, TypeOK
<1>9. AvailInv'
  <2>1. \A e \in Descs : owner[e] \in {"avail", "reading"} => owner'[e] = owner[e]
    BY <1>2 DEF TypeOK
  <2>2. \A k \in 0..(NAvail - 1) : /\ AvailAt(k) \in Descs
                                   /\ owner[AvailAt(k)] = "avail"
                                   /\ AvailAt(k) # m_idx
    BY <1>1, <1>2, Entries DEF AvailInv
  <2>3. \A k \in 0..(NAvail' - 1) : k \in 0..(NAvail - 1) \/ k = NAvail
    BY <1>1, <1>4
  <2>4. \A k \in 0..(NAvail' - 1) : owner'[AvailAt(k)'] = "avail"
    BY <1>1, <1>2, <1>5, <1>6, <2>1, <2>2, <2>3
  <2>5. \A j, k \in 0..(NAvail' - 1) : AvailAt(j)' = AvailAt(k)' => j = k
    BY <1>1, <1>5, <1>6, <2>2, <2>3 DEF AvailInv
  <2>6. m_pc' = "idle" /\ s_pc' = s_pc /\ s_idx' = s_idx /\ s_idx \in Descs
        /\ vq_available_idx' = vq_available_idx /\ avail_ring' = avail_ring
        /\ avail_ring[s_idx] \in Descs
    BY DEF AvailPublish, slave, TypeOK
  <2>7. QED
    BY <1>1, <1>4, <2>1, <2>4, <2>5, <2>6 DEF AvailInv
<1>10. UsedInv'
  <2>1. \A e \in Descs : owner[e] \in {"used", "returning"} => owner'[e] = owner[e]
    BY <1>2 DEF TypeOK
  <2>2. \A k \in 0..(NUsed - 1) : UsedAt(k) \in Descs
    BY Entries, Lengths
  <2>3. m_pc' = "idle" /\ s_pc' = s_pc /\ s_idx' = s_idx /\ s_idx \in Descs
        /\ used_ring' = used_ring /\ used_idx' = used_idx
    BY DEF AvailPublish, slave, TypeOK
  <2>4. QED
    BY <1>3, <2>1, <2>2, <2>3, Lengths DEF UsedInv
<1>11. BufInv'
  BY <1>2 DEF BufInv, AvailPublish, slave, TypeOK
<1>12. QED
  BY <1>7, <1>8, <1>9, <1>10, <1>11

\* Claiming a used slot removes the oldest entry of the window.
LEMMA GetUsedInv ==
  ASSUME IInv, GetUsed
  PROVE  IInv'
<1> USE DEF IInv
<1> DEFINE c == vq_used_cons_idx
           d == used_ring[Slot(c)]
<1>1. c \in Indices /\ used_idx \in Indices /\ c # used_idx /\ c \in Int
  BY DEF TypeOK, GetUsed, Indices
<1>2. NUsed >= 1 /\ NUsed' = NUsed - 1 /\ NUsed \in Nat
  BY <1>1, DistStep, Lengths DEF NUsed, GetUsed, shared
<1>3. \A k \in Int : UsedAt(k)' = UsedAt(k + 1)
  BY <1>1, IncSlot DEF UsedAt, GetUsed, shared
<1>4. UsedAt(0) = d /\ d \in Descs /\ owner[d] = "used"
  <2>1. c + 0 = c
    BY <1>1
  <2>2. UsedAt(0) = d
    BY <2>1 DEF UsedAt, Slot
  <2>3. QED
    BY <1>2, <2>2, Entries DEF UsedInv
<1>5. NAvail' = NAvail /\ \A k \in Int : AvailAt(k)' = AvailAt(k)
  BY AvailSame DEF GetUsed, shared, slave
<1>6. owner' = [owner EXCEPT ![d] = "reaping"] /\ owner'[d] = "reaping"
  BY <1>4 DEF GetUsed, TypeOK
<1>7. Slot(c) \in Descs /\ Slot(Slot(c) + 1) = Slot(Inc(c))
  <2>1. ((c % N) + 1) % N = (c + 1) % N
    BY <1>1, ModSucc
  <2>2. (Inc(c) + 0) % N = (c + (0 + 1)) % N
    BY <1>1, IncSlot
  <2>3. Inc(c) + 0 = Inc(c) /\ c + (0 + 1) = c + 1
    BY <1>1, IncValue DEF Indices
  <2>4. QED
    BY <1>1, <2>1, <2>2, <2>3, DivMod DEF Slot
<1>8. TypeOK'
  BY <1>1, <1>4, <1>6, <1>7, IncValue DEF GetUsed, TypeOK, shared, slave, Places
<1>9. ChainInv'
  BY <1>4, <1>6, ChainSame DEF GetUsed, TypeOK
<1>10. AvailInv'
  <2>1. \A e \in Descs : owner[e] \in {"avail", "reading"} => owner'[e] = owner[e]
    BY <1>4, <1>6 DEF TypeOK
  <2>2. \A k \in 0..(NAvail - 1) : AvailAt(k) \in Descs
    BY Entries, Lengths
  <2>3. m_pc' = "reap" /\ s_pc' = s_pc /\ s_idx' = s_idx /\ s_idx \in Descs
        /\ vq_available_idx' = vq_available_idx /\ avail_ring' = avail_ring
        /\ avail_ring[s_idx] \in Descs
    BY DEF GetUsed, slave, shared, TypeOK
  <2>4. QED
    BY <1>5, <2>1, <2>2, <2>3, Lengths DEF AvailInv
<1>11. UsedInv'
  <2>1. \A e \in Descs : e # d => owner'[e] = owner[e]
    BY <1>4, <1>6 DEF TypeOK
  <2>2. \A k \in 0..(NUsed' - 1) :
          /\ k + 1 \in 0..(NUsed - 1) /\ k \in Int /\ k + 1 # 0
    BY <1>2
  <2>3. \A k \in 0..(NUsed' - 1) : UsedAt(k + 1) # d /\ UsedAt(k + 1) \in Descs
    BY <1>2, <1>4, <2>2, Entries DEF UsedInv
  <2>4. \A k \in 0..(NUsed' - 1) : owner'[UsedAt(k)'] = "used"
    BY <1>3, <2>1, <2>2, <2>3 DEF UsedInv
  <2>5. \A j, k \in 0..(NUsed' - 1) : UsedAt(j)' = UsedAt(k)' => j = k
    BY <1>3, <2>2 DEF UsedInv
  <2>6. /\ m_pc' = "reap" /\ m_idx' = Slot(c) /\ vq_used_cons_idx' = Inc(c)
        /\ s_pc' = s_pc /\ s_idx' = s_idx /\ s_idx \in Descs
        /\ used_ring' = used_ring /\ used_idx' = used_idx
    BY DEF GetUsed, slave, shared, TypeOK
  <2>7. s_pc = "publish" => s_idx # d
    BY <1>4 DEF UsedInv
  <2>8. owner'[used_ring'[m_idx']] = "reaping"
    BY <1>6, <2>6
  <2>9. Slot(m_idx' + 1) = Slot(vq_used_cons_idx')
    BY <1>7, <2>6
  <2>10. s_pc' = "publish" => /\ owner'[s_idx'] = "returning"
                              /\ used_ring'[Slot(used_idx')] = s_idx'
    BY <2>1, <2>6, <2>7 DEF UsedInv
  <2>11. NUsed' <= N
    BY <1>2, Sizes DEF UsedInv
  <2>12. QED
    BY <2>4, <2>5, <2>8, <2>9, <2>10, <2>11 DEF UsedInv
<1>12. BufInv'
  BY <1>4, <1>6 DEF BufInv, GetUsed, slave, shared, TypeOK
<1>13. QED
  BY <1>8, <1>9, <1>10, <1>11, <1>12

\* vq_ring_free_chain pushes the descriptor on the free chain.
LEMMA FreeChainInv ==
  ASSUME IInv, FreeChain
  PROVE  IInv'
<1> USE DEF IInv
<1> DEFINE d == used_ring[m_idx]
<1>1. d \in Descs /\ owner[d] = "reaping" /\ m_pc = "reap"
  BY DEF TypeOK, UsedInv, FreeChain
<1>2. vq_free_cnt + 1 <= N /\ vq_free_cnt \in 0..N
  BY <1>1, FreeRoom DEF TypeOK
<1>3. /\ NAvail' = NAvail /\ NUsed' = NUsed
      /\ \A k \in Int : AvailAt(k)' = AvailAt(k) /\ UsedAt(k)' = UsedAt(k)
  BY AvailSame, UsedSame DEF FreeChain, shared, slave
<1>4. /\ owner' = [owner EXCEPT ![d] = "free"] /\ owner'[d] = "free"
      /\ \A e \in Descs : e # d => owner'[e] = owner[e]
  BY <1>1 DEF FreeChain, TypeOK
<1>5. TypeOK'
  <2>1. vq_free_cnt + 1 \in 0..N /\ vq_free_cnt + 1 \in 1..N
    BY <1>2, Sizes
  <2>2. QED
    BY <1>1, <2>1 DEF FreeChain, TypeOK, Places, shared, slave
<1>6. ChainInv'
  <2>1. /\ vq_free_cnt' = vq_free_cnt + 1 /\ vq_desc_head_idx' = d
        /\ rank'[d] = vq_free_cnt + 1 /\ next'[d] = vq_desc_head_idx
        /\ \A e \in Descs : e # d => rank'[e] = rank[e] /\ next'[e] = next[e]
    BY <1>1 DEF FreeChain, TypeOK
  <2>2. \A e \in Descs : owner'[e] = "free" /\ e # d
                           => owner[e] = "free" /\ rank[e] <= vq_free_cnt
    BY <1>4 DEF ChainInv
  <2>3. ASSUME NEW e \in Descs, owner'[e] = "free"
        PROVE  /\ rank'[e] <= vq_free_cnt'
               /\ IF rank'[e] = 1
                  THEN next'[e] = VQ_RING_DESC_CHAIN_END
                  ELSE /\ next'[e] \in Descs
                       /\ owner'[next'[e]] = "free"
                       /\ rank'[next'[e]] = rank'[e] - 1
    <3>1. CASE e = d
      <4>1. CASE vq_free_cnt = 0
        BY <1>2, <2>1, <3>1, <4>1 DEF ChainInv
      <4>2. CASE vq_free_cnt # 0
        <5>1. /\ vq_desc_head_idx \in Descs /\ owner[vq_desc_head_idx] = "free"
              /\ rank[vq_desc_head_idx] = vq_free_cnt /\ vq_desc_head_idx # d
          BY <1>1, <4>2 DEF ChainInv
        <5>2. QED
          BY <1>2, <1>4, <2>1, <3>1, <4>2, <5>1
      <4>3. QED
        BY <4>1, <4>2
    <3>2. CASE e # d
      <4>1. owner[e] = "free" /\ rank[e] <= vq_free_cnt /\ rank[e] \in 1..N
        BY <2>2, <2>3, <3>2 DEF TypeOK
      <4>2. rank[e] # 1 => next[e] # d
        BY <1>1, <4>1 DEF ChainInv
      <4>3. IF rank[e] = 1
            THEN next[e] = VQ_RING_DESC_CHAIN_END
            ELSE /\ next[e] \in Descs
                 /\ owner[next[e]] = "free"
                 /\ rank[next[e]] = rank[e] - 1
        BY <4>1 DEF ChainInv
      <4>4. QED
        BY <1>2, <1>4, <2>1, <3>2, <4>1, <4>2, <4>3
    <3>3. QED
      BY <3>1, <3>2
  <2>4. ASSUME NEW e \in Descs, NEW f \in Descs,
               owner'[e] = "free", owner'[f] = "free", rank'[e] = rank'[f]
        PROVE  e = f
    BY <1>2, <2>1, <2>2, <2>4 DEF ChainInv, TypeOK
  <2>5. ASSUME NEW k \in 1..vq_free_cnt'
        PROVE  \E e \in Descs : owner'[e] = "free" /\ rank'[e] = k
    <3>1. CASE k = vq_free_cnt + 1
      BY <1>1, <1>4, <2>1, <3>1
    <3>2. CASE k # vq_free_cnt + 1
      <4>1. k \in 1..vq_free_cnt
        BY <1>2, <2>1, <3>2
      <4>2. PICK e \in Descs : owner[e] = "free" /\ rank[e] = k
        BY <4>1 DEF ChainInv
      <4>3. QED
        BY <1>1, <1>4, <2>1, <4>2
    <3>3. QED
      BY <3>1, <3>2
  <2>6. vq_free_cnt' # 0
    BY <1>2, <2>1
  <2>7. QED
    BY <1>1, <1>4, <2>1, <2>3, <2>4, <2>5, <2>6 DEF ChainInv
<1>7. AvailInv'
  <2>1. \A k \in 0..(NAvail - 1) : AvailAt(k) \in Descs
    BY Entries, Lengths
  <2>2. m_pc' = "idle" /\ s_pc' = s_pc /\ s_idx' = s_idx /\ s_idx \in Descs
        /\ vq_available_idx' = vq_available_idx /\ avail_ring' = avail_ring
        /\ avail_ring[s_idx] \in Descs
    BY DEF FreeChain, slave, shared, TypeOK
  <2>3. QED
    BY <1>1, <1>3, <1>4, <2>1, <2>2, Lengths DEF AvailInv
<1>8. UsedInv'
  <2>1. \A k \in 0..(NUsed - 1) : UsedAt(k) \in Descs
    BY Entries, Lengths
  <2>2. m_pc' = "idle" /\ s_pc' = s_pc /\ s_idx' = s_idx /\ s_idx \in Descs
        /\ used_ring' = used_ring /\ used_idx' = used_idx
    BY DEF FreeChain, slave, shared, TypeOK
  <2>3. QED
    BY <1>1, <1>3, <1>4, <2>1, <2>2, Lengths DEF UsedInv
<1>9. BufInv'
  BY <1>1, <1>4 DEF BufInv, FreeChain, slave, shared, TypeOK
<1>10. QED
  BY <1>5, <1>6, <1>7, <1>8, <1>9

\* Claiming an available slot removes the oldest entry of the window.
LEMMA GetAvailInv ==
  ASSUME IInv, GetAvail
  PROVE  IInv'
<1> USE DEF IInv
<1> DEFINE c == vq_available_idx
           d == avail_ring[Slot(c)]
<1>1. c \in Indices /\ avail_idx \in Indices /\ c # avail_idx /\ c \in Int
  BY DEF TypeOK, GetAvail, Indices
<1>2. NAvail >= 1 /\ NAvail' = NAvail - 1 /\ NAvail \in Nat
  BY <1>1, DistStep, Lengths DEF NAvail, GetAvail, shared
<1>3. \A k \in Int : AvailAt(k)' = AvailAt(k + 1)
  BY <1>1, IncSlot DEF AvailAt, GetAvail, shared
<1>4. AvailAt(0) = d /\ d \in Descs /\ owner[d] = "avail"
  <2>1. c + 0 = c
    BY <1>1
  <2>2. AvailAt(0) = d
    BY <2>1 DEF AvailAt, Slot
  <2>3. QED
    BY <1>2, <2>2, Entries DEF AvailInv
<1>5. NUsed' = NUsed /\ \A k \in Int : UsedAt(k)' = UsedAt(k)
  BY UsedSame DEF GetAvail, shared, master
<1>6. /\ owner' = [owner EXCEPT ![d] = "reading"] /\ owner'[d] = "reading"
      /\ \A e \in Descs : e # d => owner'[e] = owner[e]
  BY <1>4 DEF GetAvail, TypeOK
<1>7. Slot(c) \in Descs /\ Slot(Slot(c) + 1) = Slot(Inc(c))
  <2>1. ((c % N) + 1) % N = (c + 1) % N
    BY <1>1, ModSucc
  <2>2. (Inc(c) + 0) % N = (c + (0 + 1)) % N
    BY <1>1, IncSlot
  <2>3. Inc(c) + 0 = Inc(c) /\ c + (0 + 1) = c + 1
    BY <1>1, IncValue DEF Indices
  <2>4. QED
    BY <1>1, <2>1, <2>2, <2>3, DivMod DEF Slot
<1>8. TypeOK'
  BY <1>1, <1>4, <1>6, <1>7, IncValue DEF GetAvail, TypeOK, shared, master, Places
<1>9. ChainInv'
  BY <1>4, <1>6, ChainSame DEF GetAvail, master
<1>10. UsedInv'
  <2>1. \A k \in 0..(NUsed - 1) : UsedAt(k) \in Descs
    BY Entries, Lengths
  <2>2. m_pc' = m_pc /\ m_idx' = m_idx /\ m_idx \in Descs /\ s_pc' = "slot"
        /\ used_ring' = used_ring /\ used_ring[m_idx] \in Descs
        /\ vq_used_cons_idx' = vq_used_cons_idx
    BY DEF GetAvail, master, shared, TypeOK
  <2>3. QED
    BY <1>4, <1>5, <1>6, <2>1, <2>2, Lengths DEF UsedInv
<1>11. AvailInv'
  <2>1. \A k \in 0..(NAvail' - 1) :
          /\ k + 1 \in 0..(NAvail - 1) /\ k \in Int /\ k + 1 # 0
    BY <1>2
  <2>2. \A k \in 0..(NAvail' - 1) : AvailAt(k + 1) # d /\ AvailAt(k + 1) \in Descs
    BY <1>2, <1>4, <2>1, Entries DEF AvailInv
  <2>3. \A k \in 0..(NAvail' - 1) : owner'[AvailAt(k)'] = "avail"
    BY <1>3, <1>6, <2>1, <2>2 DEF AvailInv
  <2>4. \A j, k \in 0..(NAvail' - 1) : AvailAt(j)' = AvailAt(k)' => j = k
    BY <1>3, <2>1 DEF AvailInv
  <2>5. /\ s_pc' = "slot" /\ s_idx' = Slot(c) /\ vq_available_idx' = Inc(c)
        /\ m_pc' = m_pc /\ m_idx' = m_idx /\ m_idx \in Descs
        /\ avail_ring' = avail_ring /\ avail_idx' = avail_idx
    BY DEF GetAvail, master, shared, TypeOK
  <2>6. owner'[avail_ring'[s_idx']] = "reading"
    BY <1>6, <2>5
  <2>7. Slot(s_idx' + 1) = Slot(vq_available_idx')
    BY <1>7, <2>5
  <2>8. /\ m_pc' \in {"slot", "publish"} => owner'[m_idx'] = "adding"
        /\ m_pc' = "publish" => avail_ring'[Slot(avail_idx')] = m_idx'
    BY <1>4, <1>6, <2>5 DEF AvailInv
  <2>9. NAvail' <= N
    BY <1>2, Sizes DEF AvailInv
  <2>10. QED
    BY <2>3, <2>4, <2>5, <2>6, <2>7, <2>8, <2>9 DEF AvailInv
<1>12. BufInv'
  BY <1>4, <1>6 DEF BufInv, GetAvail, master, shared, TypeOK
<1>13. QED
  BY <1>8, <1>9, <1>10, <1>11, <1>12

\* The slot the slave reads still names the descriptor it claimed.
LEMMA ReadSlotInv ==
  ASSUME IInv, ReadSlot
  PROVE  IInv'
<1> USE DEF IInv
<1>1. /\ avail_ring[s_idx] \in Descs /\ owner[avail_ring[s_idx]] = "reading"
  BY DEF TypeOK, AvailInv, ReadSlot
<1>2. /\ NAvail' = NAvail /\ NUsed' = NUsed
      /\ \A k \in Int : AvailAt(k)' = AvailAt(k) /\ UsedAt(k)' = UsedAt(k)
  BY AvailSame, UsedSame DEF ReadSlot, shared, master
<1>3. TypeOK'
  BY <1>1 DEF ReadSlot, TypeOK, shared, master
<1>4. ChainInv'
  BY ChainSame DEF ReadSlot, master
<1>5. AvailInv'
  BY <1>1, <1>2, Lengths DEF AvailInv, ReadSlot, shared, master
<1>6. UsedInv'
  BY <1>2, Lengths DEF UsedInv, ReadSlot, shared, master
<1>7. BufInv'
  BY DEF BufInv, ReadSlot, shared, master
<1>8. QED
  BY <1>3, <1>4, <1>5, <1>6, <1>7

\* The descriptor the slave reads still carries the buffer offered with it.
LEMMA ReadDescInv ==
  ASSUME IInv, ReadDesc
  PROVE  IInv'
<1> USE DEF IInv
<1>1. s_idx \in Descs /\ owner[s_idx] = "reading"
  BY DEF TypeOK, AvailInv, ReadDesc
<1>2. /\ NAvail' = NAvail /\ NUsed' = NUsed
      /\ \A k \in Int : AvailAt(k)' = AvailAt(k) /\ UsedAt(k)' = UsedAt(k)
  BY AvailSame, UsedSame DEF ReadDesc, shared, master
<1>3. /\ owner' = [owner EXCEPT ![s_idx] = "held"] /\ owner'[s_idx] = "held"
      /\ \A e \in Descs : e # s_idx => owner'[e] = owner[e]
  BY <1>1 DEF ReadDesc, TypeOK
<1>4. TypeOK'
  BY <1>1, <1>3 DEF ReadDesc, TypeOK, Places, shared, master
<1>5. ChainInv'
  BY <1>1, <1>3, ChainSame DEF ReadDesc, master
<1>6. AvailInv'
  <2>1. \A k \in 0..(NAvail - 1) : AvailAt(k) \in Descs
    BY Entries, Lengths
  <2>2. s_pc' = "idle" /\ m_pc' = m_pc /\ m_idx' = m_idx /\ m_idx \in Descs
        /\ avail_ring' = avail_ring /\ avail_idx' = avail_idx
    BY DEF ReadDesc, master, shared, TypeOK
  <2>3. QED
    BY <1>1, <1>2, <1>3, <2>1, <2>2, Lengths DEF AvailInv
<1>7. UsedInv'
  <2>1. \A k \in 0..(NUsed - 1) : UsedAt(k) \in Descs
    BY Entries, Lengths
  <2>2. m_pc' = m_pc /\ m_idx' = m_idx /\ m_idx \in Descs /\ s_pc' = "idle"
        /\ used_ring' = used_ring /\ used_ring[m_idx] \in Descs
        /\ vq_used_cons_idx' = vq_used_cons_idx
    BY DEF ReadDesc, master, shared, TypeOK
  <2>3. QED
    BY <1>1, <1>2, <1>3, <2>1, <2>2, Lengths DEF UsedInv
<1>8. BufInv'
  BY <1>1, <1>3 DEF BufInv, ReadDesc, master, shared, TypeOK
<1>9. QED
  BY <1>4, <1>5, <1>6, <1>7, <1>8

\* virtqueue_add_consumed_buffer writes a slot that neither the pending window
\* nor the master's read uses.
LEMMA AddConsumedInv ==
  ASSUME IInv, NEW d \in Descs, AddConsumed(d)
  PROVE  IInv'
<1> USE DEF IInv
<1>1. owner[d] = "held" /\ s_pc = "idle"
  BY DEF BufInv, AddConsumed
<1>2. /\ NUsed + 1 <= N /\ NUsed \in Nat
      /\ m_pc = "reap" => NUsed + 2 <= N
  BY <1>1, UsedRoom, Lengths
<1>3. /\ used_idx \in Indices /\ vq_used_cons_idx \in Indices
      /\ used_ring \in [Descs -> Descs] /\ m_idx \in Descs
      /\ Slot(used_idx) \in Descs
  BY DivMod DEF TypeOK, Slot, Indices
<1>4. NAvail' = NAvail /\ \A k \in Int : AvailAt(k)' = AvailAt(k)
  BY AvailSame DEF AddConsumed
<1>5. NUsed' = NUsed
  BY DEF NUsed, AddConsumed, master
<1>6. ASSUME NEW k \in 0..(NUsed - 1) PROVE UsedAt(k)' = UsedAt(k)
  <2>1. /\ (used_idx - vq_used_cons_idx) % IDX_MOD < N
        /\ k \in 0..(((used_idx - vq_used_cons_idx) % IDX_MOD) - 1)
    BY <1>2, Sizes DEF NUsed
  <2>2. [used_ring EXCEPT ![Slot(used_idx)] = d][(vq_used_cons_idx + k) % N]
          = used_ring[(vq_used_cons_idx + k) % N]
    BY <1>3, <2>1, WindowWrite
  <2>3. QED
    BY <2>2 DEF UsedAt, AddConsumed, master
<1>7. m_pc = "reap" => used_ring'[m_idx] = used_ring[m_idx]
  <2> SUFFICES ASSUME m_pc = "reap" PROVE used_ring'[m_idx] = used_ring[m_idx]
    OBVIOUS
  <2>1. ((used_idx - vq_used_cons_idx) % IDX_MOD) + 2 <= N
    BY <1>2 DEF NUsed
  <2>2. Slot(m_idx + 1) = Slot(vq_used_cons_idx)
    BY DEF UsedInv
  <2>3. Slot(used_idx) # m_idx
    BY <1>3, <2>1, <2>2, ClaimedSlot
  <2>4. QED
    BY <1>3, <2>3 DEF AddConsumed
<1>8. /\ owner' = [owner EXCEPT ![d] = "returning"] /\ owner'[d] = "returning"
      /\ \A e \in Descs : e # d => owner'[e] = owner[e]
  BY DEF AddConsumed, TypeOK
<1>9. TypeOK'
  BY <1>3, <1>8 DEF AddConsumed, TypeOK, Places, master
<1>10. ChainInv'
  BY <1>1, <1>8, ChainSame DEF AddConsumed, master
<1>11. AvailInv'
  <2>1. \A k \in 0..(NAvail - 1) : AvailAt(k) \in Descs
    BY Entries, Lengths
  <2>2. s_pc' = "publish" /\ m_pc' = m_pc /\ m_idx' = m_idx /\ m_idx \in Descs
        /\ avail_ring' = avail_ring /\ avail_idx' = avail_idx
    BY DEF AddConsumed, master, TypeOK
  <2>3. QED
    BY <1>1, <1>4, <1>8, <2>1, <2>2, Lengths DEF AvailInv
<1>12. UsedInv'
  <2>1. \A k \in 0..(NUsed - 1) : UsedAt(k) \in Descs
    BY Entries, Lengths
  <2>2. /\ m_pc' = m_pc /\ m_idx' = m_idx /\ used_ring[m_idx] \in Descs
        /\ s_pc' = "publish" /\ s_idx' = d
        /\ vq_used_cons_idx' = vq_used_cons_idx /\ used_idx' = used_idx
        /\ used_ring'[Slot(used_idx)] = d
    BY <1>3 DEF AddConsumed, master
  <2>3. QED
    BY <1>1, <1>5, <1>6, <1>7, <1>8, <2>1, <2>2 DEF UsedInv
<1>13. BufInv'
  BY <1>1, <1>8 DEF BufInv, AddConsumed, master, TypeOK
<1>14. QED
  BY <1>9, <1>10, <1>11, <1>12, <1>13

\* Publishing used->idx appends the descriptor to the window.
LEMMA UsedPublishInv ==
  ASSUME IInv, UsedPublish
  PROVE  IInv'
<1> USE DEF IInv
<1>1. /\ s_idx \in Descs /\ owner[s_idx] = "returning" /\ s_pc = "publish"
      /\ used_ring[Slot(used_idx)] = s_idx
      /\ used_idx \in Indices /\ vq_used_cons_idx \in Indices
  BY DEF TypeOK, UsedInv, UsedPublish
<1>2. NUsed + 1 <= N /\ NUsed \in Nat
  BY <1>1, UsedRoom, Lengths
<1>3. NAvail' = NAvail /\ \A k \in Int : AvailAt(k)' = AvailAt(k)
  BY AvailSame DEF UsedPublish
<1>4. NUsed' = NUsed + 1
  <2>1. (used_idx - vq_used_cons_idx) % IDX_MOD < IDX_MOD - 1
    BY <1>2, Sizes DEF NUsed
  <2>2. QED
    BY <1>1, <2>1, DistStep DEF NUsed, UsedPublish, master
<1>5. \A k \in Int : UsedAt(k)' = UsedAt(k)
  BY DEF UsedAt, UsedPublish, master
<1>6. UsedAt(NUsed) = s_idx
  <2>1. used_idx % N = (vq_used_cons_idx + NUsed) % N
    BY <1>1, EndSlot DEF NUsed
  <2>2. QED
    BY <1>1, <2>1 DEF UsedAt, Slot
<1>7. /\ owner' = [owner EXCEPT ![s_idx] = "used"] /\ owner'[s_idx] = "used"
      /\ \A e \in Descs : e # s_idx => owner'[e] = owner[e]
  BY <1>1 DEF UsedPublish, TypeOK
<1>8. TypeOK'
  BY <1>1, <1>7, IncValue DEF UsedPublish, TypeOK, master, Places
<1>9. ChainInv'
  BY <1>1, <1>7, ChainSame DEF UsedPublish, master
<1>10. AvailInv'
  <2>1. \A k \in 0..(NAvail - 1) : AvailAt(k) \in Descs
    BY Entries, Lengths
  <2>2. s_pc' = "idle" /\ m_pc' = m_pc /\ m_idx' = m_idx /\ m_idx \in Descs
        /\ avail_ring' = avail_ring /\ avail_idx' = avail_idx
    BY DEF UsedPublish, master, TypeOK
  <2>3. QED
    BY <1>1, <1>3, <1>7, <2>1, <2>2, Lengths DEF AvailInv
<1>11. UsedInv'
  <2>1. \A k \in 0..(NUsed - 1) : /\ UsedAt(k) \in Descs
                                  /\ owner[UsedAt(k)] = "used"
                                  /\ UsedAt(k) # s_idx
    BY <1>1, <1>2, Entries DEF UsedInv
  <2>2. \A k \in 0..(NUsed' - 1) : k \in 0..(NUsed - 1) \/ k = NUsed
    BY <1>2, <1>4
  <2>3. \A k \in 0..(NUsed' - 1) : owner'[UsedAt(k)'] = "used"
    BY <1>2, <1>5, <1>6, <1>7, <2>1, <2>2
  <2>4. \A j, k \in 0..(NUsed' - 1) : UsedAt(j)' = UsedAt(k)' => j = k
    BY <1>2, <1>5, <1>6, <2>1, <2>2 DEF UsedInv
  <2>5. /\ s_pc' = "idle" /\ m_pc' = m_pc /\ m_idx' = m_idx /\ m_idx \in Descs
        /\ used_ring' = used_ring /\ used_ring[m_idx] \in Descs
        /\ vq_used_cons_idx' = vq_used_cons_idx
    BY DEF UsedPublish, master, TypeOK
  <2>6. QED
    BY <1>1, <1>2, <1>4, <1>7, <2>3, <2>4, <2>5 DEF UsedInv
<1>12. BufInv'
  BY <1>1, <1>7 DEF BufInv, UsedPublish, master, TypeOK
<1>13. QED
  BY <1>8, <1>9, <1>10, <1>11, <1>12

\* A step that changes nothing.
LEMMA StutterInv ==
  ASSUME IInv, UNCHANGED vars
  PROVE  IInv'
<1> USE DEF IInv, vars, shared, master, slave
<1>1. TypeOK' /\ ChainInv' /\ BufInv'
  BY DEF TypeOK, ChainInv, BufInv
<1>2. AvailInv' /\ UsedInv'
  BY DEF AvailInv, UsedInv, NAvail, NUsed, AvailAt, UsedAt
<1>3. QED
  BY <1>1, <1>2

-----------------------------------------------------------------------------
(* Theorems.                                                               *)

\* IInv is an invariant of the ring, for every ring size, index width and set
\* of buffers.
THEOREM InductiveInvariant == Spec => []IInv
<1>1. Init => IInv
  BY InitInv
<1>2. IInv /\ [Next]_vars => IInv'
  <2> SUFFICES ASSUME IInv, [Next]_vars PROVE IInv'
    OBVIOUS
  <2>1. ASSUME NEW b \in Bufs, AddBuffer(b) PROVE IInv'
    BY <2>1, AddBufferInv
  <2>2. CASE AvailSlot
    BY <2>2, AvailSlotInv
  <2>3. CASE AvailPublish
    BY <2>3, AvailPublishInv
  <2>4. CASE GetUsed
    BY <2>4, GetUsedInv
  <2>5. CASE FreeChain
    BY <2>5, FreeChainInv
  <2>6. CASE GetAvail
    BY <2>6, GetAvailInv
  <2>7. CASE ReadSlot
    BY <2>7, ReadSlotInv
  <2>8. CASE ReadDesc
    BY <2>8, ReadDescInv
  <2>9. ASSUME NEW d \in Descs, AddConsumed(d) PROVE IInv'
    BY <2>9, AddConsumedInv
  <2>10. CASE UsedPublish
    BY <2>10, UsedPublishInv
  <2>11. CASE UNCHANGED vars
    BY <2>11, StutterInv
  <2>12. QED
    BY <2>1, <2>2, <2>3, <2>4, <2>5, <2>6, <2>7, <2>8, <2>9, <2>10, <2>11
    DEF Next
<1>3. QED
  BY <1>1, <1>2, PTL DEF Spec

\* The state of the ring stays within its types: indices within their width,
\* descriptors within the table, the free count at most N.
THEOREM TypeCorrect == Spec => []TypeOK
<1>1. IInv => TypeOK
  BY DEF IInv
<1>2. QED
  BY <1>1, InductiveInvariant, PTL

\* Between master and slave a descriptor is in one place at a time, and the
\* rings never hold more entries than descriptors.
THEOREM ExclusiveOwnership == Spec => []Exclusive
<1>1. IInv => Exclusive
  <2> SUFFICES ASSUME IInv PROVE Exclusive
    OBVIOUS
  <2>1. NAvail \in Nat /\ NUsed \in Nat
    BY Lengths DEF IInv
  <2>2. \A d \in AvailSet : d \in Descs /\ owner[d] = "avail"
    BY <2>1, Entries DEF AvailSet, IInv, AvailInv
  <2>3. \A d \in UsedSet : d \in Descs /\ owner[d] = "used"
    BY <2>1, Entries DEF UsedSet, IInv, UsedInv
  <2>4. \A d \in HeldSet : d \in Descs /\ owner[d] = "held"
    BY DEF HeldSet, IInv, BufInv
  <2>5. AvailSet \cap UsedSet = {}
    BY <2>2, <2>3
  <2>6. HeldSet \cap (AvailSet \cup UsedSet) = {}
    BY <2>2, <2>3, <2>4
  <2>7. \A d \in AvailSet \cup UsedSet \cup HeldSet : cookie[d] # NULL
    BY <2>2, <2>3, <2>4 DEF IInv, BufInv
  <2>8. QED
    BY <2>5, <2>6, <2>7 DEF Exclusive, IInv, AvailInv, UsedInv
<1>2. QED
  BY <1>1, InductiveInvariant, PTL

\* The buffer the slave works on stays the one its descriptor and the master's
\* cookie name until the slave returns it.
THEOREM SlaveBufferStable == Spec => []SlaveOwnsBuffer
<1>1. IInv => SlaveOwnsBuffer
  BY DEF IInv, SlaveOwnsBuffer, HeldSet, BufInv
<1>2. QED
  BY <1>1, InductiveInvariant, PTL

\* None of the debug build's assertions on the free chain and the cookies can
\* fail.
THEOREM AssertionsNeverFail == Spec => []AssertsHold
<1>1. IInv => AssertsHold
  <2> SUFFICES ASSUME IInv PROVE AssertsHold
    OBVIOUS
  <2>1. IF vq_free_cnt = 0
        THEN vq_desc_head_idx = VQ_RING_DESC_CHAIN_END
        ELSE vq_desc_head_idx \in Descs /\ cookie[vq_desc_head_idx] = NULL
    BY DEF IInv, ChainInv, BufInv
  <2>2. m_pc = "reap" => cookie[used_ring[m_idx]] # NULL
    BY DEF IInv, TypeOK, UsedInv, BufInv
  <2>3. QED
    BY <2>1, <2>2 DEF AssertsHold
<1>2. QED
  BY <1>1, InductiveInvariant, PTL

-----------------------------------------------------------------------------
(* The ring implements VringFifo.                                          *)

\* The refinement mapping of Fifo, by name.
ToSlave  == [k \in 1..NAvail |-> desc[AvailAt(k - 1)]]
AtSlave  == {held[d] : d \in HeldSet} \cup SlaveInCall
ToMaster == [k \in 1..NUsed |-> cookie[UsedAt(k - 1)]]

\* No buffer is in flight twice: virtqueue_add_buffer is only called with a
\* buffer that is not.
Distinct ==
  \A d, e \in Descs : cookie[d] # NULL /\ cookie[d] = cookie[e] => d = e

\* A sequence that is another one with an element behind it.
LEMMA AppendIs ==
  ASSUME NEW S, NEW n \in Nat, NEW f \in [1..n -> S], NEW g \in [1..(n + 1) -> S],
         \A k \in 1..n : g[k] = f[k]
  PROVE  g = Append(f, g[n + 1])
<1>1. f \in Seq(S) /\ g \in Seq(S) /\ Len(f) = n /\ Len(g) = n + 1
  BY SeqDef
<1>2. n + 1 \in 1..(n + 1)
  OBVIOUS
<1>3. g[n + 1] \in S
  BY <1>2
<1>4. /\ Append(f, g[n + 1]) \in Seq(S)
      /\ Len(Append(f, g[n + 1])) = n + 1
      /\ \A k \in 1..n : Append(f, g[n + 1])[k] = f[k]
      /\ Append(f, g[n + 1])[n + 1] = g[n + 1]
  BY <1>1, <1>3
<1>5. \A k \in 1..(n + 1) : k \in 1..n \/ k = n + 1
  OBVIOUS
<1>6. \A k \in 1..(n + 1) : g[k] = Append(f, g[n + 1])[k]
  BY <1>4, <1>5
<1> QED
  BY <1>1, <1>4, <1>6, SeqEqual

\* A sequence that is another one without its head.
LEMMA TailIs ==
  ASSUME NEW S, NEW n \in Nat, n >= 1, NEW f \in [1..n -> S],
         NEW g \in [1..(n - 1) -> S], \A k \in 1..(n - 1) : g[k] = f[k + 1]
  PROVE  g = Tail(f) /\ Head(f) = f[1] /\ f # <<>>
<1>1. n - 1 \in Nat
  OBVIOUS
<1>2. f \in Seq(S) /\ g \in Seq(S) /\ Len(f) = n /\ Len(g) = n - 1
  BY <1>1, SeqDef
<1>3. f # <<>>
  BY <1>2
<1>4. /\ Tail(f) \in Seq(S)
      /\ Len(Tail(f)) = n - 1
      /\ \A k \in 1..(n - 1) : Tail(f)[k] = f[k + 1]
  BY <1>2, <1>3
<1>5. \A k \in 1..(n - 1) : g[k] = Tail(f)[k]
  BY <1>4
<1>6. g = Tail(f)
  BY <1>2, <1>4, <1>5, SeqEqual
<1> QED
  BY <1>2, <1>3, <1>6

\* The buffer of a call of the slave, by its program counter.
LEMMA InCallIs ==
  ASSUME TypeOK
  PROVE  /\ s_pc = "idle" => SlaveInCall = {}
         /\ s_pc = "slot" => SlaveInCall = {desc[avail_ring[s_idx]]}
         /\ s_pc = "desc" => SlaveInCall = {desc[s_idx]}
         /\ s_pc = "publish" => SlaveInCall = {cookie[s_idx]}
<1>1. CASE s_pc = "idle"
  BY <1>1 DEF SlaveInCall
<1>2. CASE s_pc = "slot"
  BY <1>2 DEF SlaveInCall
<1>3. CASE s_pc = "desc"
  BY <1>3 DEF SlaveInCall
<1>4. CASE s_pc = "publish"
  BY <1>4 DEF SlaveInCall
<1> QED
  BY <1>1, <1>2, <1>3, <1>4

\* The three parts of the mapping, and whose buffers they hold.
LEMMA MappingType ==
  ASSUME IInv
  PROVE  /\ ToSlave \in [1..NAvail -> Bufs \cup {NULL}]
         /\ ToMaster \in [1..NUsed -> Bufs \cup {NULL}]
         /\ NAvail \in Nat /\ NUsed \in Nat
         /\ \A k \in 1..NAvail : \E d \in Descs : owner[d] = "avail" /\ ToSlave[k] = cookie[d]
         /\ \A k \in 1..NUsed : \E d \in Descs : owner[d] = "used" /\ ToMaster[k] = cookie[d]
         /\ \A b \in AtSlave : \E d \in Descs :
              owner[d] \in {"held", "reading", "returning"} /\ b = cookie[d]
<1>1. TypeOK /\ NAvail \in Nat /\ NUsed \in Nat
  BY Lengths DEF IInv
<1>2. \A k \in 1..NAvail : k - 1 \in 0..(NAvail - 1) /\ k - 1 \in Int
  BY <1>1
<1>3. \A k \in 1..NUsed : k - 1 \in 0..(NUsed - 1) /\ k - 1 \in Int
  BY <1>1
<1>4. \A k \in 1..NAvail : /\ AvailAt(k - 1) \in Descs
                           /\ owner[AvailAt(k - 1)] = "avail"
                           /\ desc[AvailAt(k - 1)] = cookie[AvailAt(k - 1)]
                           /\ desc[AvailAt(k - 1)] \in Bufs \cup {NULL}
  <2> SUFFICES ASSUME NEW k \in 1..NAvail
               PROVE  /\ AvailAt(k - 1) \in Descs
                      /\ owner[AvailAt(k - 1)] = "avail"
                      /\ desc[AvailAt(k - 1)] = cookie[AvailAt(k - 1)]
                      /\ desc[AvailAt(k - 1)] \in Bufs \cup {NULL}
    OBVIOUS
  <2>1. AvailAt(k - 1) \in Descs /\ owner[AvailAt(k - 1)] = "avail"
    BY <1>1, <1>2, Entries DEF IInv, AvailInv
  <2> QED
    BY <1>1, <2>1 DEF IInv, BufInv, TypeOK
<1>5. \A k \in 1..NUsed : /\ UsedAt(k - 1) \in Descs
                          /\ owner[UsedAt(k - 1)] = "used"
                          /\ cookie[UsedAt(k - 1)] \in Bufs \cup {NULL}
  <2> SUFFICES ASSUME NEW k \in 1..NUsed
               PROVE  /\ UsedAt(k - 1) \in Descs
                      /\ owner[UsedAt(k - 1)] = "used"
                      /\ cookie[UsedAt(k - 1)] \in Bufs \cup {NULL}
    OBVIOUS
  <2>1. UsedAt(k - 1) \in Descs /\ owner[UsedAt(k - 1)] = "used"
    BY <1>1, <1>3, Entries DEF IInv, UsedInv
  <2> QED
    BY <1>1, <2>1 DEF TypeOK
<1>6. ASSUME NEW b \in AtSlave
      PROVE  \E d \in Descs :
               owner[d] \in {"held", "reading", "returning"} /\ b = cookie[d]
  <2>1. CASE b \in {held[d] : d \in HeldSet}
    BY <2>1 DEF IInv, BufInv, HeldSet
  <2>2. CASE b \in SlaveInCall
    <3>1. s_pc \in {"idle", "slot", "desc", "publish"} /\ s_idx \in Descs
          /\ avail_ring[s_idx] \in Descs
      BY <1>1 DEF TypeOK
    <3>2. CASE s_pc = "slot"
      <4>1. owner[avail_ring[s_idx]] = "reading" /\ b = desc[avail_ring[s_idx]]
        BY <1>1, <2>2, <3>2, InCallIs DEF IInv, AvailInv
      <4> QED
        BY <3>1, <4>1 DEF IInv, BufInv
    <3>3. CASE s_pc = "desc"
      <4>1. owner[s_idx] = "reading" /\ b = desc[s_idx]
        BY <1>1, <2>2, <3>3, InCallIs DEF IInv, AvailInv
      <4> QED
        BY <3>1, <4>1 DEF IInv, BufInv
    <3>4. CASE s_pc = "publish"
      <4>1. owner[s_idx] = "returning" /\ b = cookie[s_idx]
        BY <1>1, <2>2, <3>4, InCallIs DEF IInv, UsedInv
      <4> QED
        BY <3>1, <4>1
    <3> QED
      BY <1>1, <2>2, <3>1, <3>2, <3>3, <3>4, InCallIs
  <2> QED
    BY <2>1, <2>2 DEF AtSlave
<1> QED
  BY <1>1, <1>4, <1>5, <1>6 DEF ToSlave, ToMaster

\* Distinct is an invariant: a buffer is offered when no descriptor has it.
LEMMA DistinctInvariant == Spec => []Distinct
<1>1. Init => Distinct
  BY DEF Init, Distinct
<1>2. IInv /\ Distinct /\ [Next]_vars => Distinct'
  <2> SUFFICES ASSUME IInv, Distinct, [Next]_vars PROVE Distinct'
    OBVIOUS
  <2>1. cookie \in [Descs -> Bufs \cup {NULL}]
    BY DEF IInv, TypeOK
  <2>2. ASSUME NEW b \in Bufs, AddBuffer(b) PROVE Distinct'
    <3>1. \A i \in Descs : cookie[i] # b
      BY <2>2 DEF AddBuffer
    <3>2. cookie' = [cookie EXCEPT ![vq_desc_head_idx] = b]
      BY <2>2 DEF AddBuffer
    <3> QED
      BY <2>1, <3>1, <3>2 DEF Distinct
  <2>3. CASE FreeChain
    <3>1. cookie' = [cookie EXCEPT ![used_ring[m_idx]] = NULL]
      BY <2>3 DEF FreeChain
    <3> QED
      BY <2>1, <3>1 DEF Distinct
  <2>4. CASE cookie' = cookie
    BY <2>4 DEF Distinct
  <2> QED
    BY <2>2, <2>3, <2>4
    DEF Next, AvailSlot, AvailPublish, GetUsed, GetAvail, ReadSlot, ReadDesc,
        AddConsumed, UsedPublish, vars, master
<1> QED
  BY <1>1, <1>2, InductiveInvariant, PTL DEF Spec

\* The queues depend on the windows and on the buffers of what is in them.
LEMMA ToSlaveSame ==
  ASSUME IInv, NAvail' = NAvail,
         \A k \in 0..(NAvail - 1) :
           AvailAt(k)' = AvailAt(k) /\ desc'[AvailAt(k)] = desc[AvailAt(k)]
  PROVE  ToSlave' = ToSlave
<1>1. NAvail \in Nat
  BY Lengths DEF IInv
<1>2. \A k \in 1..NAvail : k - 1 \in 0..(NAvail - 1)
  BY <1>1
<1>3. \A k \in 1..NAvail : desc'[AvailAt(k - 1)'] = desc[AvailAt(k - 1)]
  BY <1>2
<1> QED
  BY <1>3 DEF ToSlave

\* Likewise for the queue back to the master.
LEMMA ToMasterSame ==
  ASSUME IInv, NUsed' = NUsed,
         \A k \in 0..(NUsed - 1) :
           UsedAt(k)' = UsedAt(k) /\ cookie'[UsedAt(k)] = cookie[UsedAt(k)]
  PROVE  ToMaster' = ToMaster
<1>1. NUsed \in Nat
  BY Lengths DEF IInv
<1>2. \A k \in 1..NUsed : k - 1 \in 0..(NUsed - 1)
  BY <1>1
<1>3. \A k \in 1..NUsed : cookie'[UsedAt(k - 1)'] = cookie[UsedAt(k - 1)]
  BY <1>2
<1> QED
  BY <1>3 DEF ToMaster

\* virtqueue_add_buffer fills a free descriptor: nobody sees it yet.
LEMMA AddBufferHidden ==
  ASSUME IInv, NEW b \in Bufs, AddBuffer(b)
  PROVE  ToSlave' = ToSlave /\ AtSlave' = AtSlave /\ ToMaster' = ToMaster
<1> DEFINE d == vq_desc_head_idx
<1>1. /\ d \in Descs /\ owner[d] = "free" /\ TypeOK
  BY DEF IInv, ChainInv, AddBuffer
<1>2. /\ cookie' = [cookie EXCEPT ![d] = b] /\ desc' = [desc EXCEPT ![d] = b]
      /\ UNCHANGED <<avail_ring, avail_idx, used_ring, used_idx,
                     vq_used_cons_idx, vq_available_idx, s_pc, s_idx, held>>
  BY DEF AddBuffer, slave
<1>3. \A e \in Descs : owner[e] # "free" => desc'[e] = desc[e] /\ cookie'[e] = cookie[e]
  BY <1>1, <1>2 DEF TypeOK
<1>4. NAvail \in Nat /\ NUsed \in Nat
  BY <1>1, Lengths
<1>5. /\ NAvail' = NAvail /\ NUsed' = NUsed
      /\ \A k \in Int : AvailAt(k)' = AvailAt(k) /\ UsedAt(k)' = UsedAt(k)
  BY <1>2, AvailSame, UsedSame
<1>6. \A k \in 0..(NAvail - 1) : AvailAt(k) \in Descs /\ owner[AvailAt(k)] # "free"
  BY <1>1, <1>4, Entries DEF IInv, AvailInv
<1>7. \A k \in 0..(NUsed - 1) : UsedAt(k) \in Descs /\ owner[UsedAt(k)] # "free"
  BY <1>1, <1>4, Entries DEF IInv, UsedInv
<1>8. ToSlave' = ToSlave
  <2>1. \A k \in 0..(NAvail - 1) :
          AvailAt(k)' = AvailAt(k) /\ desc'[AvailAt(k)] = desc[AvailAt(k)]
    BY <1>3, <1>4, <1>5, <1>6
  <2> QED
    BY <1>5, <2>1, ToSlaveSame
<1>9. ToMaster' = ToMaster
  <2>1. \A k \in 0..(NUsed - 1) :
          UsedAt(k)' = UsedAt(k) /\ cookie'[UsedAt(k)] = cookie[UsedAt(k)]
    BY <1>3, <1>4, <1>5, <1>7
  <2> QED
    BY <1>5, <2>1, ToMasterSame
<1>10. SlaveInCall' = SlaveInCall
  <2>1. s_idx \in Descs /\ avail_ring[s_idx] \in Descs
    BY <1>1 DEF TypeOK
  <2>2. s_pc = "slot" => desc'[avail_ring[s_idx]] = desc[avail_ring[s_idx]]
    BY <1>3, <2>1 DEF IInv, AvailInv
  <2>3. s_pc = "desc" => desc'[s_idx] = desc[s_idx]
    BY <1>3, <2>1 DEF IInv, AvailInv
  <2>4. s_pc = "publish" => cookie'[s_idx] = cookie[s_idx]
    BY <1>3, <2>1 DEF IInv, UsedInv
  <2> QED
    BY <1>2, <2>2, <2>3, <2>4 DEF SlaveInCall
<1> QED
  BY <1>2, <1>8, <1>9, <1>10 DEF AtSlave, HeldSet

\* Writing the next slot of the available ring is not seen before the index.
LEMMA AvailSlotHidden ==
  ASSUME IInv, AvailSlot
  PROVE  ToSlave' = ToSlave /\ AtSlave' = AtSlave /\ ToMaster' = ToMaster
<1>1. /\ TypeOK /\ NAvail \in Nat /\ NUsed \in Nat
      /\ NAvail + 1 <= N /\ (s_pc = "slot" => NAvail + 2 <= N)
  BY AvailRoom, Lengths DEF IInv, AvailSlot
<1>2. /\ avail_ring' = [avail_ring EXCEPT ![Slot(avail_idx)] = m_idx]
      /\ UNCHANGED <<desc, cookie, avail_idx, used_ring, used_idx,
                     vq_used_cons_idx, vq_available_idx, s_pc, s_idx, held>>
  BY DEF AvailSlot, slave
<1>3. /\ avail_idx \in Indices /\ vq_available_idx \in Indices
      /\ m_idx \in Descs /\ s_idx \in Descs
      /\ avail_ring \in [Descs -> Descs]
  BY <1>1 DEF TypeOK
<1>4. NAvail' = NAvail
  BY <1>2 DEF NAvail
<1>5. NAvail < N /\ N \in Nat
  BY <1>1, Sizes
<1>6. \A k \in 0..(NAvail - 1) : AvailAt(k)' = AvailAt(k)
  BY <1>2, <1>3, <1>5, WindowWrite DEF AvailAt, NAvail
<1>7. ToSlave' = ToSlave
  BY <1>2, <1>4, <1>6, ToSlaveSame
<1>8. ToMaster' = ToMaster
  BY <1>2 DEF ToMaster, NUsed, UsedAt
<1>9. s_pc = "slot" => avail_ring'[s_idx] = avail_ring[s_idx]
  <2> SUFFICES ASSUME s_pc = "slot" PROVE avail_ring'[s_idx] = avail_ring[s_idx]
    OBVIOUS
  <2>1. Slot(s_idx + 1) = Slot(vq_available_idx)
    BY DEF IInv, AvailInv
  <2>2. Slot(avail_idx) # s_idx
    BY <1>1, <1>3, <2>1, ClaimedSlot DEF NAvail
  <2> QED
    BY <1>2, <1>3, <2>2
<1>10. SlaveInCall' = SlaveInCall
  BY <1>2, <1>9 DEF SlaveInCall
<1> QED
  BY <1>2, <1>7, <1>8, <1>10 DEF AtSlave, HeldSet

\* vq_ring_free_chain forgets the cookie of what the caller already has.
LEMMA FreeChainHidden ==
  ASSUME IInv, FreeChain
  PROVE  ToSlave' = ToSlave /\ AtSlave' = AtSlave /\ ToMaster' = ToMaster
<1> DEFINE d == used_ring[m_idx]
<1>1. d \in Descs /\ owner[d] = "reaping" /\ TypeOK
  BY DEF IInv, TypeOK, UsedInv, FreeChain
<1>2. /\ cookie' = [cookie EXCEPT ![d] = NULL]
      /\ UNCHANGED <<desc, avail_ring, avail_idx, used_ring, used_idx,
                     vq_used_cons_idx, vq_available_idx, s_pc, s_idx, held>>
  BY DEF FreeChain, slave, shared
<1>3. \A e \in Descs : owner[e] # "reaping" => cookie'[e] = cookie[e]
  BY <1>1, <1>2 DEF TypeOK
<1>4. NUsed \in Nat
  BY <1>1, Lengths
<1>5. NUsed' = NUsed /\ \A k \in Int : UsedAt(k)' = UsedAt(k)
  BY <1>2, UsedSame
<1>6. \A k \in 0..(NUsed - 1) : UsedAt(k) \in Descs /\ owner[UsedAt(k)] # "reaping"
  BY <1>1, <1>4, Entries DEF IInv, UsedInv
<1>7. ToMaster' = ToMaster
  <2>1. \A k \in 0..(NUsed - 1) :
          UsedAt(k)' = UsedAt(k) /\ cookie'[UsedAt(k)] = cookie[UsedAt(k)]
    BY <1>3, <1>4, <1>5, <1>6
  <2> QED
    BY <1>5, <2>1, ToMasterSame
<1>8. ToSlave' = ToSlave
  BY <1>2 DEF ToSlave, NAvail, AvailAt
<1>9. SlaveInCall' = SlaveInCall
  <2>1. s_pc = "publish" => cookie'[s_idx] = cookie[s_idx]
    BY <1>1, <1>3 DEF IInv, UsedInv, TypeOK
  <2> QED
    BY <1>2, <2>1 DEF SlaveInCall
<1> QED
  BY <1>2, <1>7, <1>8, <1>9 DEF AtSlave, HeldSet

\* virtqueue_get_available_buffer reading the slot: the buffer stays in the call.
LEMMA ReadSlotHidden ==
  ASSUME IInv, ReadSlot
  PROVE  ToSlave' = ToSlave /\ AtSlave' = AtSlave /\ ToMaster' = ToMaster
<1>1. /\ s_pc = "slot" /\ s_pc' = "desc" /\ s_idx' = avail_ring[s_idx]
      /\ UNCHANGED <<shared, cookie, vq_used_cons_idx, vq_available_idx, held>>
  BY DEF ReadSlot, master
<1>2. ToSlave' = ToSlave /\ ToMaster' = ToMaster
  BY <1>1 DEF ToSlave, ToMaster, NAvail, NUsed, AvailAt, UsedAt, shared
<1>3. SlaveInCall' = SlaveInCall
  BY <1>1 DEF SlaveInCall, shared
<1> QED
  BY <1>1, <1>2, <1>3 DEF AtSlave, HeldSet

\* Reading the descriptor moves the buffer from the call to what is held.
LEMMA ReadDescHidden ==
  ASSUME IInv, ReadDesc
  PROVE  ToSlave' = ToSlave /\ AtSlave' = AtSlave /\ ToMaster' = ToMaster
<1>1. /\ s_pc = "desc" /\ s_pc' = "idle" /\ held' = [held EXCEPT ![s_idx] = desc[s_idx]]
      /\ UNCHANGED <<shared, cookie, vq_used_cons_idx, vq_available_idx>>
  BY DEF ReadDesc, master
<1>2. ToSlave' = ToSlave /\ ToMaster' = ToMaster
  BY <1>1 DEF ToSlave, ToMaster, NAvail, NUsed, AvailAt, UsedAt, shared
<1>3. /\ s_idx \in Descs /\ owner[s_idx] = "reading"
      /\ held \in [Descs -> Bufs \cup {NULL}]
  BY <1>1 DEF IInv, TypeOK, AvailInv
<1>4. held[s_idx] = NULL /\ desc[s_idx] # NULL
  BY <1>3 DEF IInv, BufInv
<1>5. SlaveInCall = {desc[s_idx]} /\ SlaveInCall' = {}
  BY <1>1 DEF SlaveInCall
<1>6. /\ \A e \in Descs \ {s_idx} : held'[e] = held[e]
      /\ held'[s_idx] = desc[s_idx]
  BY <1>1, <1>3
<1>7. {held'[e] : e \in HeldSet'} = {held[e] : e \in HeldSet} \cup {desc[s_idx]}
  BY <1>3, <1>4, <1>6 DEF HeldSet
<1> QED
  BY <1>2, <1>5, <1>7 DEF AtSlave

\* virtqueue_add_consumed_buffer before the index is published: the slot it
\* writes is outside the window, and the buffer is still the slave's.
LEMMA AddConsumedHidden ==
  ASSUME IInv, NEW d \in Descs, AddConsumed(d)
  PROVE  ToSlave' = ToSlave /\ AtSlave' = AtSlave /\ ToMaster' = ToMaster
<1>1. /\ s_pc = "idle" /\ s_pc' = "publish" /\ s_idx' = d
      /\ held[d] # NULL /\ held' = [held EXCEPT ![d] = NULL]
      /\ used_ring' = [used_ring EXCEPT ![Slot(used_idx)] = d]
      /\ UNCHANGED <<desc, avail_ring, avail_idx, used_idx, cookie,
                     vq_used_cons_idx, vq_available_idx>>
  BY DEF AddConsumed, master
<1>2. /\ owner[d] = "held" /\ held[d] = cookie[d] /\ TypeOK
      /\ held \in [Descs -> Bufs \cup {NULL}]
  BY <1>1 DEF IInv, BufInv, TypeOK
<1>3. NUsed < N /\ NUsed \in Nat /\ N \in Nat
  BY <1>2, UsedRoom, Lengths, Sizes DEF IInv
<1>4. ToSlave' = ToSlave
  BY <1>1 DEF ToSlave, NAvail, AvailAt
<1>5. ToMaster' = ToMaster
  <2>1. /\ used_idx \in Indices /\ vq_used_cons_idx \in Indices
        /\ used_ring \in [Descs -> Descs]
    BY <1>2 DEF TypeOK
  <2>2. NUsed' = NUsed
    BY <1>1 DEF NUsed
  <2>3. \A k \in 0..(NUsed - 1) : UsedAt(k)' = UsedAt(k)
    BY <1>1, <1>3, <2>1, WindowWrite DEF UsedAt, NUsed
  <2> QED
    BY <1>1, <2>2, <2>3, ToMasterSame
<1>6. SlaveInCall = {} /\ SlaveInCall' = {cookie[d]}
  BY <1>1 DEF SlaveInCall
<1>7. /\ \A e \in Descs \ {d} : held'[e] = held[e]
      /\ held'[d] = NULL
  BY <1>1, <1>2
<1>8. {held[e] : e \in HeldSet} = {held'[e] : e \in HeldSet'} \cup {cookie[d]}
  BY <1>1, <1>2, <1>7 DEF HeldSet
<1> QED
  BY <1>4, <1>5, <1>6, <1>8 DEF AtSlave

\* Publishing the index of the available ring offers a buffer that was nowhere.
LEMMA PublishOffers ==
  ASSUME IInv, Distinct, AvailPublish
  PROVE  \E b \in Bufs : Fifo!Offer(b)
<1> DEFINE b == cookie[m_idx]
           n == NAvail
           X == Bufs \cup {NULL}
<1>1. /\ m_pc = "publish" /\ avail_idx' = Inc(avail_idx)
      /\ UNCHANGED <<desc, avail_ring, used_ring, used_idx, cookie,
                     vq_used_cons_idx, slave>>
  BY DEF AvailPublish
<1>2. /\ TypeOK /\ n \in Nat /\ n + 1 <= N
      /\ m_idx \in Descs /\ owner[m_idx] = "adding"
      /\ avail_ring[Slot(avail_idx)] = m_idx
  BY <1>1, AvailRoom, Lengths DEF IInv, TypeOK, AvailInv
<1>3. b \in Bufs /\ b # NULL /\ desc[m_idx] = b
  BY <1>2 DEF IInv, BufInv, TypeOK
<1>4. avail_idx \in Indices /\ vq_available_idx \in Indices
  BY <1>2 DEF TypeOK
<1>5. NAvail' = n + 1
  BY <1>1, <1>2, <1>4, DistStep, Sizes DEF NAvail, slave
<1>6. \A k \in Int : AvailAt(k)' = AvailAt(k)
  BY <1>1 DEF AvailAt, slave
<1>7. AvailAt(n) = m_idx
  BY <1>2, <1>4, EndSlot DEF AvailAt, Slot, NAvail
<1>8. ToSlave \in [1..n -> X]
  BY MappingType
<1>9. /\ ToSlave' \in [1..(n + 1) -> X]
      /\ \A k \in 1..n : ToSlave'[k] = ToSlave[k]
      /\ ToSlave'[n + 1] = b
  <2>1. ToSlave' = [k \in 1..(n + 1) |-> desc[AvailAt(k - 1)]]
    BY <1>1, <1>2, <1>5, <1>6 DEF ToSlave
  <2>2. ToSlave = [k \in 1..n |-> desc[AvailAt(k - 1)]]
    BY DEF ToSlave
  <2>3. \A k \in 1..n : k \in 1..(n + 1)
    BY <1>2
  <2>4. n + 1 \in 1..(n + 1) /\ (n + 1) - 1 = n
    BY <1>2
  <2>5. \A k \in 1..n : ToSlave'[k] = ToSlave[k]
    BY <2>1, <2>2, <2>3
  <2>6. ToSlave'[n + 1] = b
    BY <1>3, <1>7, <2>1, <2>4
  <2>7. ToSlave' \in [1..(n + 1) -> X]
    <3>1. \A k \in 1..(n + 1) : k \in 1..n \/ k = n + 1
      BY <1>2
    <3>2. \A k \in 1..(n + 1) : ToSlave'[k] \in X
      BY <1>3, <1>8, <2>5, <2>6, <3>1
    <3> QED
      BY <2>1, <3>2
  <2> QED
    BY <2>5, <2>6, <2>7
<1> HIDE DEF n, X
<1>10. ToSlave' = Append(ToSlave, b)
  BY <1>2, <1>8, <1>9, AppendIs
<1>11. AtSlave' = AtSlave /\ ToMaster' = ToMaster
  BY <1>1 DEF AtSlave, HeldSet, SlaveInCall, ToMaster, NUsed, UsedAt, slave
<1> DEFINE Others == Descs \ {m_idx}
           Carried == {cookie[d] : d \in Others}
           out == {ToSlave[k] : k \in DOMAIN ToSlave} \cup AtSlave
                    \cup {ToMaster[k] : k \in DOMAIN ToMaster}
<1>12. out \subseteq Carried
  <2>1. \A k \in DOMAIN ToSlave : \E d \in Others : ToSlave[k] = cookie[d]
    BY <1>2, MappingType
  <2>2. \A k \in DOMAIN ToMaster : \E d \in Others : ToMaster[k] = cookie[d]
    BY <1>2, MappingType
  <2>3. \A x \in AtSlave : \E d \in Others : x = cookie[d]
    BY <1>2, MappingType
  <2> QED
    BY <2>1, <2>2, <2>3
<1>13. b \notin Carried
  BY <1>2, <1>3 DEF Distinct
<1>14. IsFiniteSet(Carried) /\ Cardinality(Carried) < N
  <2>1. IsFiniteSet(Descs) /\ Cardinality(Descs) = N
    <3>1. 0 \in Int /\ N - 1 \in Int
      BY Sizes
    <3>2. /\ IsFiniteSet(0..(N - 1))
          /\ Cardinality(0..(N - 1)) = IF 0 > N - 1 THEN 0 ELSE (N - 1) - 0 + 1
      BY <3>1, FS_Interval, Zenon
    <3> QED
      BY <3>2, Sizes DEF Descs
  <2>2. IsFiniteSet(Others) /\ Cardinality(Others) = N - 1
    BY <1>2, <2>1, FS_RemoveElement
  <2>3. [d \in Others |-> cookie[d]] \in Surjection(Others, Carried)
    BY DEF Surjection
  <2>4. IsFiniteSet(Carried) /\ Cardinality(Carried) <= Cardinality(Others)
    BY <2>2, <2>3, FS_Surjection, Zenon
  <2>5. Cardinality(Carried) \in Nat
    BY <2>4, FS_CardinalityType
  <2> QED
    BY <2>2, <2>4, <2>5, Sizes
<1> HIDE DEF Carried, out, b
<1>15. b \notin out /\ Cardinality(out) < N
  <2>1. IsFiniteSet(out) /\ Cardinality(out) <= Cardinality(Carried)
    BY <1>12, <1>14, FS_Subset
  <2>2. Cardinality(out) \in Nat /\ Cardinality(Carried) \in Nat
    BY <1>14, <2>1, FS_CardinalityType
  <2> QED
    BY <1>12, <1>13, <1>14, <2>1, <2>2, Sizes
<1>16. Fifo!Out = out
  BY DEF Fifo!Out, Fifo!InSeq, out, ToSlave, AtSlave, ToMaster
<1>17. Fifo!Cardinality(out) = Cardinality(out)
  BY DEF Fifo!Cardinality, Cardinality
<1>18. Fifo!Offer(b)
  BY <1>10, <1>11, <1>15, <1>16, <1>17, Zenon
  DEF Fifo!Offer, ToSlave, AtSlave, ToMaster
<1> QED
  BY <1>3, <1>18

\* Claiming a slot of the available ring takes the oldest buffer offered.
LEMMA ClaimTakes ==
  ASSUME IInv, GetAvail
  PROVE  Fifo!Take
<1> DEFINE n == NAvail
           X == Bufs \cup {NULL}
           c == vq_available_idx
<1>1. /\ s_pc = "idle" /\ s_pc' = "slot" /\ c # avail_idx
      /\ s_idx' = Slot(c) /\ c' = Inc(c)
      /\ UNCHANGED <<shared, cookie, vq_used_cons_idx, held>>
  BY DEF GetAvail, master
<1>2. TypeOK /\ n \in Nat /\ c \in Indices /\ avail_idx \in Indices /\ c \in Int
  BY Lengths DEF IInv, TypeOK, Indices
<1>3. n >= 1 /\ NAvail' = n - 1
  BY <1>1, <1>2, DistStep DEF NAvail, shared
<1>4. \A k \in Int : AvailAt(k)' = AvailAt(k + 1)
  BY <1>1, <1>2, IncSlot DEF AvailAt, shared
<1>5. ToSlave \in [1..n -> X]
  BY MappingType
<1>6. /\ ToSlave' \in [1..(n - 1) -> X]
      /\ \A k \in 1..(n - 1) : ToSlave'[k] = ToSlave[k + 1]
  <2>1. ToSlave' = [k \in 1..(n - 1) |-> desc[AvailAt(k - 1)']]
    BY <1>1, <1>3 DEF ToSlave, shared
  <2>2. ToSlave = [k \in 1..n |-> desc[AvailAt(k - 1)]]
    BY DEF ToSlave
  <2>3. \A k \in 1..(n - 1) : /\ k + 1 \in 1..n /\ k - 1 \in Int
                             /\ (k - 1) + 1 = k /\ (k + 1) - 1 = k
    BY <1>2
  <2>4. \A k \in 1..(n - 1) : ToSlave'[k] = ToSlave[k + 1]
    BY <1>4, <2>1, <2>2, <2>3
  <2> QED
    BY <1>5, <2>1, <2>3, <2>4
<1>7. 1 \in 1..n /\ 1 - 1 = 0
  BY <1>2, <1>3
<1>8. ToSlave[1] = desc[avail_ring[Slot(c)]]
  <2>1. ToSlave[1] = desc[AvailAt(0)]
    BY <1>7 DEF ToSlave
  <2>2. AvailAt(0) = avail_ring[Slot(c)]
    BY <1>2 DEF AvailAt, Slot
  <2> QED
    BY <2>1, <2>2
<1> HIDE DEF n, X, c
<1>9. ToSlave' = Tail(ToSlave) /\ Head(ToSlave) = ToSlave[1] /\ ToSlave # <<>>
  BY <1>2, <1>3, <1>5, <1>6, TailIs
<1>10. SlaveInCall = {} /\ SlaveInCall' = {desc[avail_ring[Slot(c)]]}
  BY <1>1 DEF SlaveInCall, shared
<1>11. AtSlave' = AtSlave \cup {Head(ToSlave)}
  <2>1. {held[d] : d \in HeldSet}' = {held[d] : d \in HeldSet}
    BY <1>1 DEF HeldSet
  <2> QED
    BY <1>8, <1>9, <1>10, <2>1 DEF AtSlave
<1>12. ToMaster' = ToMaster
  BY <1>1 DEF ToMaster, NUsed, UsedAt, shared
<1> QED
  BY <1>9, <1>11, <1>12, Zenon DEF Fifo!Take, ToSlave, AtSlave, ToMaster

\* Publishing the index of the used ring returns the buffer of the call.
LEMMA PublishReturns ==
  ASSUME IInv, Distinct, UsedPublish
  PROVE  \E b \in Bufs : Fifo!Return(b)
<1> DEFINE b == cookie[s_idx]
           n == NUsed
           X == Bufs \cup {NULL}
<1>1. /\ s_pc = "publish" /\ s_pc' = "idle" /\ used_idx' = Inc(used_idx)
      /\ UNCHANGED <<desc, avail_ring, avail_idx, used_ring, cookie,
                     vq_used_cons_idx, vq_available_idx, s_idx, held>>
  BY DEF UsedPublish, master
<1>2. /\ TypeOK /\ s_idx \in Descs /\ owner[s_idx] = "returning"
      /\ used_ring[Slot(used_idx)] = s_idx
      /\ used_idx \in Indices /\ vq_used_cons_idx \in Indices
  BY <1>1 DEF IInv, TypeOK, UsedInv
<1>3. n \in Nat /\ n + 1 <= N
  BY <1>2, UsedRoom, Lengths DEF IInv
<1>4. b \in Bufs /\ b # NULL
  BY <1>2 DEF IInv, BufInv, TypeOK
<1>5. NUsed' = n + 1
  BY <1>1, <1>2, <1>3, DistStep, Sizes DEF NUsed
<1>6. \A k \in Int : UsedAt(k)' = UsedAt(k)
  BY <1>1 DEF UsedAt
<1>7. UsedAt(n) = s_idx
  BY <1>2, EndSlot DEF UsedAt, Slot, NUsed
<1>8. ToMaster \in [1..n -> X]
  BY MappingType
<1>9. /\ ToMaster' \in [1..(n + 1) -> X]
      /\ \A k \in 1..n : ToMaster'[k] = ToMaster[k]
      /\ ToMaster'[n + 1] = b
  <2>1. ToMaster' = [k \in 1..(n + 1) |-> cookie[UsedAt(k - 1)]]
    BY <1>1, <1>3, <1>5, <1>6 DEF ToMaster
  <2>2. ToMaster = [k \in 1..n |-> cookie[UsedAt(k - 1)]]
    BY DEF ToMaster
  <2>3. \A k \in 1..n : k \in 1..(n + 1)
    BY <1>3
  <2>4. n + 1 \in 1..(n + 1) /\ (n + 1) - 1 = n
    BY <1>3
  <2>5. \A k \in 1..n : ToMaster'[k] = ToMaster[k]
    BY <2>1, <2>2, <2>3
  <2>6. ToMaster'[n + 1] = b
    BY <1>7, <2>1, <2>4
  <2>7. ToMaster' \in [1..(n + 1) -> X]
    <3>1. \A k \in 1..(n + 1) : k \in 1..n \/ k = n + 1
      BY <1>3
    <3>2. \A k \in 1..(n + 1) : ToMaster'[k] \in X
      BY <1>4, <1>8, <2>5, <2>6, <3>1
    <3> QED
      BY <2>1, <3>2
  <2> QED
    BY <2>5, <2>6, <2>7
<1> HIDE DEF n, X
<1>10. ToMaster' = Append(ToMaster, b)
  BY <1>3, <1>8, <1>9, AppendIs
<1>11. ToSlave' = ToSlave
  BY <1>1 DEF ToSlave, NAvail, AvailAt
<1>12. SlaveInCall = {b} /\ SlaveInCall' = {}
  BY <1>1 DEF SlaveInCall
<1>13. b \notin {held[d] : d \in HeldSet}
  <2>1. \A d \in HeldSet : d \in Descs /\ d # s_idx /\ held[d] = cookie[d]
    BY <1>2 DEF IInv, BufInv, HeldSet
  <2> QED
    BY <1>2, <1>4, <2>1 DEF Distinct
<1>14. {held[d] : d \in HeldSet}' = {held[d] : d \in HeldSet}
  BY <1>1 DEF HeldSet
<1>15. b \in AtSlave /\ AtSlave' = AtSlave \ {b}
  BY <1>12, <1>13, <1>14 DEF AtSlave
<1> HIDE DEF b
<1>16. PICK x \in Bufs : x = b
  BY <1>4
<1>17. Fifo!Return(x)
  BY <1>10, <1>11, <1>15, <1>16, Zenon DEF Fifo!Return, ToSlave, AtSlave, ToMaster
<1> QED
  BY <1>17, Zenon

\* Claiming a slot of the used ring reclaims the oldest buffer returned.
LEMMA ClaimReclaims ==
  ASSUME IInv, GetUsed
  PROVE  Fifo!Reclaim
<1> DEFINE n == NUsed
           X == Bufs \cup {NULL}
           c == vq_used_cons_idx
<1>1. /\ c # used_idx /\ c' = Inc(c)
      /\ UNCHANGED <<shared, cookie, slave>>
  BY DEF GetUsed
<1>2. TypeOK /\ n \in Nat /\ c \in Indices /\ used_idx \in Indices /\ c \in Int
  BY Lengths DEF IInv, TypeOK, Indices
<1>3. n >= 1 /\ NUsed' = n - 1
  BY <1>1, <1>2, DistStep DEF NUsed, shared
<1>4. \A k \in Int : UsedAt(k)' = UsedAt(k + 1)
  BY <1>1, <1>2, IncSlot DEF UsedAt, shared
<1>5. ToMaster \in [1..n -> X]
  BY MappingType
<1>6. /\ ToMaster' \in [1..(n - 1) -> X]
      /\ \A k \in 1..(n - 1) : ToMaster'[k] = ToMaster[k + 1]
  <2>1. ToMaster' = [k \in 1..(n - 1) |-> cookie[UsedAt(k - 1)']]
    BY <1>1, <1>3 DEF ToMaster
  <2>2. ToMaster = [k \in 1..n |-> cookie[UsedAt(k - 1)]]
    BY DEF ToMaster
  <2>3. \A k \in 1..(n - 1) : /\ k + 1 \in 1..n /\ k - 1 \in Int
                             /\ (k - 1) + 1 = k /\ (k + 1) - 1 = k
    BY <1>2
  <2>4. \A k \in 1..(n - 1) : ToMaster'[k] = ToMaster[k + 1]
    BY <1>4, <2>1, <2>2, <2>3
  <2> QED
    BY <1>5, <2>1, <2>3, <2>4
<1> HIDE DEF n, X, c
<1>7. ToMaster' = Tail(ToMaster) /\ ToMaster # <<>>
  BY <1>2, <1>3, <1>5, <1>6, TailIs
<1>8. ToSlave' = ToSlave
  BY <1>1 DEF ToSlave, NAvail, AvailAt, shared, slave
<1>9. AtSlave' = AtSlave
  BY <1>1 DEF AtSlave, HeldSet, SlaveInCall, shared, slave
<1> QED
  BY <1>7, <1>8, <1>9, Zenon DEF Fifo!Reclaim, ToSlave, AtSlave, ToMaster

\* A step that changes neither queue nor what the slave has is a stutter.
LEMMA HiddenStutters ==
  ASSUME ToSlave' = ToSlave, AtSlave' = AtSlave, ToMaster' = ToMaster
  PROVE  UNCHANGED Fifo!fifoVars
BY Zenon DEF Fifo!fifoVars, ToSlave, AtSlave, ToMaster

\* The lock-free exchange of the two cores, with every access to shared memory
\* a step of its own and 16-bit indices that wrap, is a pair of FIFO queues with
\* one owner per buffer, for every size of ring.
THEOREM RingIsFifo == Spec => ImplementsFifo
<1>1. Init => Fifo!FifoInit
  <2> SUFFICES ASSUME Init PROVE Fifo!FifoInit
    OBVIOUS
  <2>1. NAvail = 0 /\ NUsed = 0
    BY Sizes DEF Init, NAvail, NUsed
  <2>2. 1..0 = {}
    OBVIOUS
  <2>3. ToSlave = <<>> /\ ToMaster = <<>>
    BY <2>1, <2>2 DEF ToSlave, ToMaster
  <2>4. HeldSet = {} /\ SlaveInCall = {}
    BY DEF Init, HeldSet, SlaveInCall
  <2>5. AtSlave = {}
    BY <2>4 DEF AtSlave
  <2> QED
    BY <2>3, <2>5, Zenon DEF Fifo!FifoInit, ToSlave, AtSlave, ToMaster
<1>2. IInv /\ Distinct /\ [Next]_vars => [Fifo!FifoNext]_(Fifo!fifoVars)
  <2> SUFFICES ASSUME IInv, Distinct, [Next]_vars
               PROVE  Fifo!FifoNext \/ UNCHANGED Fifo!fifoVars
    OBVIOUS
  <2>1. ASSUME NEW b \in Bufs, AddBuffer(b) PROVE UNCHANGED Fifo!fifoVars
    BY <2>1, AddBufferHidden, HiddenStutters
  <2>2. CASE AvailSlot
    BY <2>2, AvailSlotHidden, HiddenStutters
  <2>3. CASE AvailPublish
    BY <2>3, PublishOffers, Zenon DEF Fifo!FifoNext
  <2>4. CASE GetUsed
    BY <2>4, ClaimReclaims, Zenon DEF Fifo!FifoNext
  <2>5. CASE FreeChain
    BY <2>5, FreeChainHidden, HiddenStutters
  <2>6. CASE GetAvail
    BY <2>6, ClaimTakes, Zenon DEF Fifo!FifoNext
  <2>7. CASE ReadSlot
    BY <2>7, ReadSlotHidden, HiddenStutters
  <2>8. CASE ReadDesc
    BY <2>8, ReadDescHidden, HiddenStutters
  <2>9. ASSUME NEW d \in Descs, AddConsumed(d) PROVE UNCHANGED Fifo!fifoVars
    BY <2>9, AddConsumedHidden, HiddenStutters
  <2>10. CASE UsedPublish
    BY <2>10, PublishReturns, Zenon DEF Fifo!FifoNext
  <2>11. CASE UNCHANGED vars
    <3>1. ToSlave' = ToSlave /\ ToMaster' = ToMaster
      BY <2>11
      DEF ToSlave, ToMaster, NAvail, NUsed, AvailAt, UsedAt, vars, shared,
          master, slave
    <3>2. AtSlave' = AtSlave
      BY <2>11 DEF AtSlave, HeldSet, SlaveInCall, vars, shared, master, slave
    <3> QED
      BY <3>1, <3>2, HiddenStutters
  <2> QED
    BY <2>1, <2>2, <2>3, <2>4, <2>5, <2>6, <2>7, <2>8, <2>9, <2>10, <2>11
    DEF Next
<1> QED
  BY <1>1, <1>2, InductiveInvariant, DistinctInvariant, PTL
  DEF Spec, ImplementsFifo, Fifo!FifoSpec

=============================================================================
