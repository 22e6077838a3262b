----------------------------- MODULE HeapProofs -----------------------------
(***************************************************************************)
(* Proofs about Heap for every size of heap, alignment, request and number *)
(* of callers: the free list is ordered and joined, the blocks tile the    *)
(* heap, the count of free bytes is right, and callers own what they get.  *)
(*                                                                         *)
(* The list is argued about as a pair of functions, so that the lemmas on  *)
(* unlinking and inserting serve malloc, which does both, and free.        *)
(***************************************************************************)
EXTENDS Heap, WellFoundedInduction, TLAPS

\* The end of block b, and the free blocks of a list.
Ends(sz, b) == b + sz[b]
Members(nxt) == DOMAIN nxt \ {xStart}

InHeap(b, n) == b \in Int /\ n \in Nat /\ n > 0 /\ heapStart <= b /\ b + n <= heapEnd

\* ListExact, Coalesced and the types, of any list.
Ordered(nxt, sz) ==
  /\ xStart \in DOMAIN nxt /\ DOMAIN sz = DOMAIN nxt /\ sz[xStart] = 0
  /\ \A b \in Members(nxt) : InHeap(b, sz[b])
  /\ \A b \in DOMAIN nxt : nxt[b] \in Members(nxt) \cup {heapEnd}
  /\ \A b \in DOMAIN nxt : b < nxt[b]
  /\ \A b \in DOMAIN nxt : \A f \in Members(nxt) : ~(b < f /\ f < nxt[b])
  /\ \A b \in Members(nxt) : Ends(sz, b) < nxt[b] \/ nxt[b] = heapEnd

\* An interval that touches no free block; an address in one.
Apart(p, q, r, s) == p + q <= r \/ r + s <= p
Away(nxt, sz, p, q) == \A f \in Members(nxt) : Apart(f, sz[f], p, q)
Covers(nxt, sz, a) == \E f \in Members(nxt) : f <= a /\ a < Ends(sz, f)

LEMMA Bounds == heapStart \in Nat /\ heapEnd \in Nat /\ heapStart < heapEnd /\ xStart = -1
BY HeapAssumption DEF xStart

\* The loop over the list stops: some block, or xStart, is the last before b.
LEMMA BeforeIs ==
  ASSUME NEW nxt, NEW sz, Ordered(nxt, sz), NEW b \in Int, heapStart <= b, b < heapEnd
  PROVE  /\ Before(nxt, b) \in DOMAIN nxt
         /\ Before(nxt, b) < b
         /\ nxt[Before(nxt, b)] >= b
<1> DEFINE S == { i \in DOMAIN nxt : i < b }
           T == { heapEnd - i : i \in S }
<1>1. \A i \in DOMAIN nxt : i \in Int
  BY Bounds DEF Ordered, Members, InHeap
<1>2. T \subseteq Nat
  BY <1>1, Bounds
<1>3. T # {}
  <2>1. xStart \in S
    BY Bounds DEF Ordered
  <2> QED
    BY <2>1
<1>4. PICK x \in T : \A y \in T : ~(<<y, x>> \in OpToRel(<, Nat))
  <2> HIDE DEF T
  <2> QED
    BY <1>2, <1>3, NatLessThanWellFounded, WFMin
<1>5. \A y \in T : ~(y < x)
  BY <1>4, <1>2 DEF OpToRel
<1>6. PICK i \in S : x = heapEnd - i
  OBVIOUS
<1>7. \A j \in S : j <= i
  <2> TAKE j \in S
  <2>1. heapEnd - j \in T
    OBVIOUS
  <2>2. ~(heapEnd - j < heapEnd - i)
    BY <2>1, <1>5, <1>6
  <2> QED
    BY <2>2, <1>1, Bounds
<1>8. nxt[i] >= b
  <2> SUFFICES ASSUME ~(nxt[i] >= b) PROVE FALSE
    OBVIOUS
  <2>1. nxt[i] \in Members(nxt) \cup {heapEnd} /\ i < nxt[i]
    BY DEF Ordered
  <2>2. nxt[i] \in Int
    BY <2>1, <1>1, Bounds DEF Members
  <2>3. nxt[i] < b /\ nxt[i] \in DOMAIN nxt
    BY <2>1, <2>2, Bounds DEF Members
  <2>4. nxt[i] \in S
    BY <2>3
  <2> QED
    BY <2>4, <1>7, <2>1, <2>2, <1>1
<1>9. i \in DOMAIN nxt /\ i < b /\ nxt[i] >= b
  BY <1>8
<1> QED
  BY <1>9 DEF Before

\* Of two free blocks the lower ends before the higher begins.
LEMMA InOrder ==
  ASSUME NEW nxt, NEW sz, Ordered(nxt, sz),
         NEW a \in Members(nxt), NEW b \in Members(nxt), a < b
  PROVE  Ends(sz, a) <= nxt[a] /\ nxt[a] <= b
<1>1. InHeap(a, sz[a]) /\ InHeap(b, sz[b]) /\ a \in DOMAIN nxt
  BY DEF Ordered, Members
<1>2. nxt[a] \in Members(nxt) \cup {heapEnd} /\ ~(a < b /\ b < nxt[a])
  BY <1>1 DEF Ordered
<1>3. nxt[a] \in Int
  BY <1>2, Bounds DEF Ordered, InHeap
<1>4. nxt[a] <= b
  BY <1>1, <1>2, <1>3 DEF InHeap
<1>5. Ends(sz, a) < nxt[a] \/ nxt[a] = heapEnd
  BY DEF Ordered
<1> QED
  BY <1>1, <1>3, <1>4, <1>5, Bounds DEF InHeap, Ends

\* A block taken out leaves a list in order, away from where the block was.
LEMMA UnlinkIs ==
  ASSUME Ordered(next, size), NEW b \in Members(next)
  PROVE  LET out == Unlinked(b)
         IN /\ Ordered(out.next, out.size)
            /\ Members(out.next) = Members(next) \ {b}
            /\ \A f \in Members(out.next) : out.size[f] = size[f]
            /\ Away(out.next, out.size, b, size[b])
<1> DEFINE dom == DOMAIN next \ {b}
           N == [x \in dom |-> IF next[x] = b THEN next[b] ELSE next[x]]
           Z == [x \in dom |-> size[x]]
<1>1. Unlinked(b).next = N /\ Unlinked(b).size = Z
  BY DEF Unlinked
<1>2. \A x \in DOMAIN next : x \in Int /\ next[x] \in Int
  BY Bounds DEF Ordered, Members, InHeap
<1>3. b \in DOMAIN next /\ b # xStart /\ b < next[b] /\ next[b] # b
  BY <1>2 DEF Ordered, Members
<1>4. Members(N) = Members(next) \ {b} /\ DOMAIN N = dom /\ DOMAIN Z = dom
  BY DEF Members
<1>5. xStart \in dom /\ Z[xStart] = 0
  BY <1>3 DEF Ordered
<1>6. \A x \in Members(N) : InHeap(x, Z[x]) /\ Z[x] = size[x]
  BY <1>4 DEF Ordered, Members
<1>7. \A x \in DOMAIN N : N[x] \in Members(N) \cup {heapEnd}
  BY <1>3, <1>4 DEF Ordered
<1>8. \A x \in DOMAIN N : x < N[x]
  BY <1>2, <1>3, <1>4 DEF Ordered
<1>9. ASSUME NEW x \in DOMAIN N, NEW f \in Members(N), x < f, f < N[x]
      PROVE  FALSE
  <2>1. x \in DOMAIN next /\ f \in Members(next) /\ f # b /\ f \in Int
    BY <1>2, <1>4 DEF Members
  <2>2. ~(x < f /\ f < next[x]) /\ ~(b < f /\ f < next[b])
    BY <2>1, <1>3 DEF Ordered
  <2> QED
    BY <1>9, <2>1, <2>2, <1>2, <1>3
<1>10. \A x \in Members(N) : Ends(Z, x) < N[x] \/ N[x] = heapEnd
  <2> TAKE x \in Members(N)
  <2>1. x \in Members(next) /\ x \in DOMAIN N /\ InHeap(x, size[x]) /\ Z[x] = size[x]
    BY <1>4, <1>6 DEF Members
  <2>2. Ends(size, x) < next[x] \/ next[x] = heapEnd
    BY <2>1 DEF Ordered
  <2>3. b < heapEnd
    BY Bounds DEF Ordered, InHeap
  <2> QED
    BY <2>1, <2>2, <2>3, <1>2, <1>3, Bounds DEF Ends, InHeap, Members
<1>11. Ordered(N, Z)
  BY <1>4, <1>5, <1>6, <1>7, <1>8, <1>9, <1>10 DEF Ordered
<1>12. Away(N, Z, b, size[b])
  <2> SUFFICES ASSUME NEW f \in Members(N) PROVE Apart(f, Z[f], b, size[b])
    BY DEF Away
  <2>1. f \in Members(next) /\ f # b /\ Z[f] = size[f] /\ InHeap(f, size[f]) /\ InHeap(b, size[b])
    BY <1>4, <1>6 DEF Ordered
  <2>2. f \in Int /\ b \in Int /\ next[f] \in Int /\ next[b] \in Int
    BY <1>2, <2>1 DEF Members
  <2>3. CASE f < b
    BY <2>1, <2>2, <2>3, InOrder DEF Apart, Ends, InHeap
  <2>4. CASE b < f
    BY <2>1, <2>2, <2>4, InOrder DEF Apart, Ends, InHeap
  <2> QED
    BY <2>1, <2>2, <2>3, <2>4
<1> QED
  BY <1>1, <1>4, <1>6, <1>11, <1>12

\* A block put back leaves a list in order, which covers what it covered and
\* the block, and stays away from what it and the block were away from.
LEMMA InsertIs ==
  ASSUME NEW nxt, NEW sz, Ordered(nxt, sz),
         NEW b, NEW n, InHeap(b, n), Away(nxt, sz, b, n)
  PROVE  LET r == prvInsertBlockIntoFreeList(nxt, sz, b, n)
         IN /\ Ordered(r.next, r.size)
            /\ \A p, q \in Int : (q > 0 /\ Away(nxt, sz, p, q) /\ Apart(b, n, p, q)) =>
                  Away(r.next, r.size, p, q)
            /\ \A a \in Int : (Covers(nxt, sz, a) \/ (b <= a /\ a < b + n)) =>
                  Covers(r.next, r.size, a)
<1> DEFINE it   == Before(nxt, b)
           at   == Into(it, sz, b)
           len  == IF at = b THEN n ELSE sz[it] + n
           succ == nxt[it]
           join == at + len = succ /\ succ # heapEnd
           dom  == (DOMAIN nxt \ (IF join THEN {succ} ELSE {})) \cup {at}
           nn   == IF join THEN nxt[succ] ELSE succ
           zz   == IF join THEN len + sz[succ] ELSE len
           N    == [x \in dom |-> IF x = at THEN nn ELSE IF x = it THEN at ELSE nxt[x]]
           Z    == [x \in dom |-> IF x = at THEN zz ELSE sz[x]]
<1>1. /\ prvInsertBlockIntoFreeList(nxt, sz, b, n).next = N
      /\ prvInsertBlockIntoFreeList(nxt, sz, b, n).size = Z
  BY DEF prvInsertBlockIntoFreeList, Past, With
<1>2. b \in Int /\ n \in Nat /\ n > 0 /\ heapStart <= b /\ b + n <= heapEnd /\ b < heapEnd
  BY Bounds DEF InHeap
<1>3. it \in DOMAIN nxt /\ it < b /\ succ >= b
  BY <1>2, BeforeIs
<1>4. \A x \in DOMAIN nxt : x \in Int /\ nxt[x] \in Int /\ sz[x] \in Nat
  BY Bounds DEF Ordered, Members, InHeap
<1>5. succ \in Members(nxt) \cup {heapEnd} /\ b + n <= succ
  <2>1. succ \in Members(nxt) \cup {heapEnd}
    BY <1>3 DEF Ordered
  <2>2. CASE succ = heapEnd
    BY <2>2, <1>2
  <2>3. CASE succ \in Members(nxt)
    <3>1. Apart(succ, sz[succ], b, n) /\ InHeap(succ, sz[succ])
      BY <2>3 DEF Away, Ordered
    <3> HIDE DEF succ
    <3> QED
      BY <2>3, <3>1, <1>2, <1>3 DEF Apart, InHeap
  <2> QED
    BY <2>1, <2>2, <2>3
<1>6. it = xStart \/ Ends(sz, it) <= b
  <2> SUFFICES ASSUME it # xStart PROVE Ends(sz, it) <= b
    OBVIOUS
  <2>1. it \in Members(nxt)
    BY <1>3 DEF Members
  <2>2. Apart(it, sz[it], b, n) /\ InHeap(it, sz[it])
    BY <2>1 DEF Away, Ordered
  <2> HIDE DEF it
  <2> QED
    BY <2>2, <1>2, <1>3 DEF Apart, InHeap, Ends
<1>7. \/ at = b /\ len = n /\ (it = xStart \/ Ends(sz, it) < b)
      \/ at = it /\ it # xStart /\ len = sz[it] + n /\ Ends(sz, it) = b /\ at # b
  <2>1. sz[xStart] = 0
    BY DEF Ordered
  <2> HIDE DEF it
  <2> QED
    BY <1>2, <1>3, <1>4, <1>6, <2>1, Bounds DEF Into, Ends
<1>8. InHeap(at, len) /\ at + len = b + n /\ at <= b
  <2>1. it # xStart => InHeap(it, sz[it])
    BY <1>3 DEF Ordered, Members
  <2> HIDE DEF it, at, len
  <2> QED
    BY <1>2, <1>3, <1>7, <2>1 DEF InHeap, Ends
\* The block that follows, and where the new block ends if it takes it in.
<1>9. join => /\ succ \in Members(nxt) /\ succ \in DOMAIN nxt /\ succ = b + n
              /\ sz[succ] \in Nat /\ succ + sz[succ] <= heapEnd
              /\ zz = len + sz[succ] /\ nn = nxt[succ] /\ succ < nn
              /\ nn \in Members(nxt) \cup {heapEnd}
              /\ (succ + sz[succ] < nn \/ nn = heapEnd)
  <2> SUFFICES ASSUME join PROVE
              /\ succ \in Members(nxt) /\ succ \in DOMAIN nxt /\ succ = b + n
              /\ sz[succ] \in Nat /\ succ + sz[succ] <= heapEnd
              /\ zz = len + sz[succ] /\ nn = nxt[succ] /\ succ < nn
              /\ nn \in Members(nxt) \cup {heapEnd}
              /\ (succ + sz[succ] < nn \/ nn = heapEnd)
    OBVIOUS
  <2>1. succ \in Members(nxt) /\ succ = b + n
    BY <1>5, <1>8
  <2>2. succ \in DOMAIN nxt /\ InHeap(succ, sz[succ])
    BY <2>1 DEF Members, Ordered
  <2>3. zz = len + sz[succ] /\ nn = nxt[succ]
    OBVIOUS
  <2>4. /\ succ < nxt[succ] /\ nxt[succ] \in Members(nxt) \cup {heapEnd}
        /\ (Ends(sz, succ) < nxt[succ] \/ nxt[succ] = heapEnd)
    BY <2>1, <2>2 DEF Ordered
  <2> QED
    BY <2>1, <2>2, <2>3, <2>4 DEF InHeap, Ends
<1>10. ~join => zz = len /\ nn = succ /\ (b + n < succ \/ succ = heapEnd)
  <2> SUFFICES ASSUME ~join PROVE zz = len /\ nn = succ /\ (b + n < succ \/ succ = heapEnd)
    OBVIOUS
  <2>1. zz = len /\ nn = succ
    OBVIOUS
  <2>2. at + len # succ \/ succ = heapEnd
    OBVIOUS
  <2>3. succ \in Int
    BY <1>3, <1>4
  <2> HIDE DEF succ, at, len
  <2> QED
    BY <2>1, <2>2, <2>3, <1>2, <1>5, <1>8
<1>11. /\ at \in Int /\ zz \in Nat /\ InHeap(at, zz) /\ b + n <= at + zz
       /\ nn \in Members(nxt) \cup {heapEnd} /\ nn \in Int /\ at < nn /\ succ <= nn
       /\ (at + zz < nn \/ nn = heapEnd)
  <2>1. succ \in Int /\ it \in Int
    BY <1>3, <1>4
  <2>2. nn \in Members(nxt) \cup {heapEnd}
    BY <1>5, <1>9, <1>10
  <2>3. nn \in Int
    BY <2>2, <1>4, Bounds DEF Members
  <2> HIDE DEF succ, it, at, len, nn, zz, join
  <2> QED
    BY <2>1, <2>2, <2>3, <1>2, <1>5, <1>8, <1>9, <1>10 DEF InHeap
<1>12. /\ DOMAIN N = dom /\ DOMAIN Z = dom
       /\ Members(N) = (Members(nxt) \ (IF join THEN {succ} ELSE {})) \cup {at}
       /\ at # xStart /\ at \in DOMAIN N
  <2>1. at # xStart
    BY <1>8, Bounds DEF InHeap
  <2> QED
    BY <2>1 DEF Members
\* Only it points at succ, and no block lies between the two.
<1>13. \A x \in DOMAIN nxt : x # it => nxt[x] # succ /\ (x < it \/ succ <= x)
  <2> SUFFICES ASSUME NEW x \in DOMAIN nxt, x # it
               PROVE  nxt[x] # succ /\ (x < it \/ succ <= x)
    OBVIOUS
  <2>1. x \in Int /\ it \in Int /\ succ \in Int /\ nxt[x] \in Int /\ x < nxt[x]
    BY <1>3, <1>4 DEF Ordered
  <2>2. x > it => x \in Members(nxt)
    BY <2>1, <1>3, Bounds DEF Members, Ordered, InHeap
  <2>3. x < it => it \in Members(nxt)
    BY <2>1, <1>3, Bounds DEF Members, Ordered, InHeap
  <2>4. x > it => ~(it < x /\ x < succ)
    BY <2>2, <1>3 DEF Ordered
  <2>5. x < it => ~(x < it /\ it < nxt[x])
    BY <2>3 DEF Ordered
  <2>6. it < succ
    BY <1>3 DEF Ordered
  <2> HIDE DEF it, succ
  <2> QED
    BY <2>1, <2>4, <2>5, <2>6
<1>14. xStart \in dom /\ Z[xStart] = 0
  <2>1. xStart \in DOMAIN nxt /\ sz[xStart] = 0
    BY DEF Ordered
  <2>2. join => succ # xStart
    BY <1>9 DEF Members
  <2> QED
    BY <2>1, <2>2, <1>12
<1>15. \A x \in Members(N) : InHeap(x, Z[x])
  <2> TAKE x \in Members(N)
  <2>1. CASE x = at
    BY <2>1, <1>11, <1>12
  <2>2. CASE x # at
    <3>1. x \in Members(nxt) /\ Z[x] = sz[x]
      BY <2>2, <1>12 DEF Members
    <3> QED
      BY <3>1 DEF Ordered
  <2> QED
    BY <2>1, <2>2
<1>16. /\ N[at] = nn /\ Z[at] = zz
       /\ (it # at => it \in DOMAIN N /\ N[it] = at /\ at = b)
       /\ \A x \in DOMAIN N : (x # at /\ x # it) =>
            /\ x \in DOMAIN nxt /\ N[x] = nxt[x]
            /\ (join => x # succ)
       /\ \A f \in Members(N) : f # at => f \in Members(nxt) /\ Z[f] = sz[f] /\ (join => f # succ)
  <2>1. it # succ
    BY <1>3, <1>4 DEF Ordered
  <2>2. it # at => at = b /\ it \in dom
    BY <2>1, <1>3, <1>7
  <2> QED
    BY <2>2, <1>12 DEF Members
<1>17. \A x \in DOMAIN N : N[x] \in Members(N) \cup {heapEnd} /\ x < N[x]
  <2> TAKE x \in DOMAIN N
  <2>1. CASE x = at
    <3>1. nn \in Members(N) \cup {heapEnd}
      <4>1. join => nn # succ
        BY <1>9, <1>3, <1>4
      <4> HIDE DEF nn, N, at, succ, join
      <4> QED
        BY <4>1, <1>11, <1>12
    <3> QED
      BY <2>1, <3>1, <1>11, <1>16
  <2>2. CASE x # at /\ x = it
    BY <2>2, <1>3, <1>12, <1>16 DEF Members
  <2>3. CASE x # at /\ x # it
    <3>1. x \in DOMAIN nxt /\ N[x] = nxt[x]
      BY <2>3, <1>16
    <3>2. nxt[x] \in Members(nxt) \cup {heapEnd} /\ x < nxt[x] /\ nxt[x] # succ
      BY <3>1, <2>3, <1>13 DEF Ordered
    <3> HIDE DEF N, at, it, succ, join
    <3> QED
      BY <3>1, <3>2, <1>12
  <2> QED
    BY <2>1, <2>2, <2>3
<1>18. ASSUME NEW x \in DOMAIN N, NEW f \in Members(N), x < f, f < N[x]
       PROVE  FALSE
  <2>1. /\ it \in Int /\ succ \in Int /\ at \in Int /\ nn \in Int /\ b \in Int /\ it <= at
        /\ it < b /\ b <= succ
    BY <1>2, <1>3, <1>4, <1>7, <1>11
  <2>2. f # at => /\ f \in Members(nxt) /\ f \in DOMAIN nxt /\ f \in Int
                  /\ ~(it < f /\ f < succ)
                  /\ (join => f # succ /\ ~(succ < f /\ f < nn))
    <3> SUFFICES ASSUME f # at PROVE
                  /\ f \in Members(nxt) /\ f \in DOMAIN nxt /\ f \in Int
                  /\ ~(it < f /\ f < succ)
                  /\ (join => f # succ /\ ~(succ < f /\ f < nn))
      OBVIOUS
    <3>1. f \in Members(nxt) /\ (join => f # succ) /\ f \in DOMAIN nxt /\ f \in Int
      BY <1>16, <1>4 DEF Members
    <3>2. ~(it < f /\ f < succ)
      BY <3>1, <1>3 DEF Ordered
    <3>3. join => ~(succ < f /\ f < nn)
      BY <3>1, <1>9 DEF Ordered
    <3> QED
      BY <3>1, <3>2, <3>3
  <2>3. CASE x = at
    <3>1. f # at /\ f < nn /\ at < f
      BY <2>3, <1>16, <1>18, <2>1
    <3> HIDE DEF N, Z, dom, at, it, succ, join, nn, zz, len
    <3> QED
      BY <3>1, <2>1, <2>2, <1>10
  <2>4. CASE x # at /\ x = it
    <3>1. N[x] = at /\ at = b
      BY <2>4, <1>16
    <3> HIDE DEF N, Z, dom, at, it, succ, join, nn, zz, len
    <3> QED
      BY <3>1, <2>4, <2>1, <2>2, <1>18
  <2>5. CASE x # at /\ x # it
    <3>1. x \in DOMAIN nxt /\ N[x] = nxt[x] /\ x \in Int /\ nxt[x] \in Int
      BY <2>5, <1>16, <1>4
    <3>2. CASE f # at
      BY <3>1, <3>2, <2>2, <1>18 DEF Ordered
    <3>3. CASE f = at /\ at = it
      <4>1. it \in Members(nxt)
        BY <3>3, <1>3, <1>12 DEF Members
      <4> QED
        BY <4>1, <3>1, <3>3, <1>18 DEF Ordered
    <3>4. CASE f = at /\ at # it
      <4>1. f = b /\ x < b /\ b < nxt[x]
        BY <3>1, <3>4, <1>16, <1>18
      <4>2. x < it
        BY <4>1, <3>1, <2>1, <2>5, <1>13
      <4>3. it \in Members(nxt)
        BY <4>2, <3>1, <2>1, <1>3, Bounds DEF Members, Ordered, InHeap
      <4>4. ~(x < it /\ it < nxt[x])
        BY <4>3, <3>1 DEF Ordered
      <4> HIDE DEF N, Z, dom, at, it, succ, join, nn, zz, len
      <4> QED
        BY <4>1, <4>2, <4>4, <3>1, <2>1
    <3> QED
      BY <3>2, <3>3, <3>4
  <2> QED
    BY <2>3, <2>4, <2>5
<1>19. \A x \in Members(N) : Ends(Z, x) < N[x] \/ N[x] = heapEnd
  <2> TAKE x \in Members(N)
  <2>1. CASE x = at
    BY <2>1, <1>11, <1>16 DEF Ends
  <2>2. CASE x # at
    <3>1. x \in Members(nxt) /\ Z[x] = sz[x] /\ x \in DOMAIN N
      BY <2>2, <1>16 DEF Members
    <3>2. CASE x = it
      <4>1. N[x] = b /\ it # xStart /\ Ends(sz, it) < b
        BY <2>2, <3>1, <3>2, <1>7, <1>16 DEF Members
      <4> QED
        BY <4>1, <3>1, <3>2 DEF Ends
    <3>3. CASE x # it
      <4>1. N[x] = nxt[x]
        BY <2>2, <3>1, <3>3, <1>16
      <4> QED
        BY <3>1, <4>1 DEF Ordered, Ends
    <3> QED
      BY <3>2, <3>3
  <2> QED
    BY <2>1, <2>2
<1>20. Ordered(N, Z)
  BY <1>12, <1>14, <1>15, <1>17, <1>18, <1>19 DEF Ordered
<1>21. ASSUME NEW p \in Int, NEW q \in Int, q > 0, Away(nxt, sz, p, q), Apart(b, n, p, q)
       PROVE  Away(N, Z, p, q)
  <2> SUFFICES ASSUME NEW f \in Members(N) PROVE Apart(f, Z[f], p, q)
    BY DEF Away
  <2>1. CASE f # at
    BY <2>1, <1>16, <1>21 DEF Away
  <2>2. CASE f = at
    <3>1. at = it => it \in Members(nxt)
      BY <1>3, <1>12 DEF Members
    <3>2. at # b => Apart(it, sz[it], p, q) /\ at = it /\ Ends(sz, it) = b
      BY <3>1, <1>7, <1>21 DEF Away
    <3>3. join => Apart(succ, sz[succ], p, q)
      BY <1>9, <1>21 DEF Away
    <3>4. Z[f] = zz /\ sz[it] \in Nat /\ it \in Int /\ len \in Nat
      BY <2>2, <1>3, <1>4, <1>8, <1>16 DEF InHeap
    <3> HIDE DEF N, Z, dom, at, it, succ, join, nn, zz, len
    <3>5. Apart(at, len, p, q)
      BY <3>2, <3>4, <1>2, <1>8, <1>21 DEF Apart, Ends, InHeap
    <3>6. CASE ~join
      BY <3>4, <3>5, <3>6, <2>2, <1>10
    <3>7. CASE join
      <4>1. succ \in Int /\ sz[succ] \in Nat /\ succ = at + len /\ zz = len + sz[succ] /\ len > 0
        BY <3>7, <1>8, <1>9, <1>2 DEF InHeap
      <4>2. at \in Int
        BY <1>11
      <4> QED
        BY <4>1, <4>2, <3>3, <3>4, <3>5, <3>7, <2>2, <1>21 DEF Apart
    <3> QED
      BY <3>6, <3>7
  <2> QED
    BY <2>1, <2>2
<1>22. ASSUME NEW a \in Int, Covers(nxt, sz, a) \/ (b <= a /\ a < b + n)
       PROVE  Covers(N, Z, a)
  <2>1. at \in Members(N) /\ Z[at] = zz
    BY <1>12, <1>16
  <2>2. (at <= a /\ a < at + zz) => Covers(N, Z, a)
    BY <2>1 DEF Covers, Ends
  <2>3. CASE b <= a /\ a < b + n
    <3> HIDE DEF N, Z, dom, at, it, succ, join, nn, zz, len
    <3> QED
      BY <2>2, <2>3, <1>2, <1>8, <1>11
  <2>4. CASE Covers(nxt, sz, a)
    <3>1. PICK f \in Members(nxt) : f <= a /\ a < f + sz[f]
      BY <2>4 DEF Covers, Ends
    <3>2. f \in DOMAIN nxt /\ f \in Int /\ sz[f] \in Nat
      BY <1>4 DEF Members
    <3>3. CASE f = at
      <4>1. at = it /\ at # b
        <5>1. f = b => FALSE
          BY <3>2, <1>2 DEF Away, Apart, Ordered, InHeap
        <5> QED
          BY <5>1, <3>3, <1>7
      <4>2. len = sz[f] + n /\ zz >= len
        <5>1. len = sz[it] + n
          BY <4>1
        <5>2. zz >= len
          BY <5>1, <1>2, <1>4, <1>3, <1>9, <1>10
        <5> QED
          BY <5>1, <5>2, <4>1, <3>3
      <4> HIDE DEF N, Z, dom, at, it, succ, join, nn, zz, len
      <4> QED
        BY <4>2, <3>1, <3>2, <3>3, <2>2, <1>2, <1>11
    <3>4. CASE f # at /\ join /\ f = succ
      <4>1. zz = len + sz[f] /\ f = b + n /\ at + len = b + n
        BY <3>4, <1>8, <1>9
      <4>2. len \in Nat /\ at \in Int
        BY <1>8 DEF InHeap
      <4> HIDE DEF N, Z, dom, at, it, succ, join, nn, zz, len
      <4> QED
        BY <4>1, <4>2, <3>1, <3>2, <2>2, <1>2, <1>8
    <3>5. CASE f # at /\ ~(join /\ f = succ)
      <4>1. f \in Members(N)
        BY <3>5, <1>12
      <4>2. Z[f] = sz[f]
        BY <4>1, <3>5, <1>16
      <4> QED
        BY <4>1, <4>2, <3>1 DEF Covers, Ends
    <3> QED
      BY <3>3, <3>4, <3>5
  <2> QED
    BY <1>22, <2>3, <2>4
<1> HIDE DEF N, Z
<1> QED
  BY <1>1, <1>20, <1>21, <1>22

\* An address in an allocated block, and in one on its way back.
UsedCovers(a) == \E b \in DOMAIN used : b <= a /\ a < b + used[b].size
LimboCovers(a) == \E c \in Limbo : loc[c].at <= a /\ a < loc[c].at + loc[c].size

Copying(c) == loc[c].pc = "copy"
UsedApart(p, q) == \A b \in DOMAIN used : Apart(b, used[b].size, p, q)

(***************************************************************************)
(* The inductive invariant.  The order of the list is what lets malloc and *)
(* free find the right place; that an allocated block, or one on its way   *)
(* back, is away from the list is what lets free insert it; and that two   *)
(* reallocs never work on the same block keeps what they refer to          *)
(* allocated.                                                              *)
(***************************************************************************)
LocOK ==
  /\ loc = [c \in Callers |-> loc[c]]
  /\ \A c \in Callers : loc[c].pc \in {"idle", "copy", "insert"}
UsedOK ==
  /\ \A b \in DOMAIN used : InHeap(b, used[b].size) /\ Away(next, size, b, used[b].size)
  /\ \A a, b \in DOMAIN used : a # b => Apart(a, used[a].size, b, used[b].size)
LimboOK ==
  /\ \A c \in Limbo : /\ InHeap(loc[c].at, loc[c].size)
                      /\ Away(next, size, loc[c].at, loc[c].size)
                      /\ UsedApart(loc[c].at, loc[c].size)
  /\ \A c, d \in Limbo : c # d => Apart(loc[c].at, loc[c].size, loc[d].at, loc[d].size)
CopyOK ==
  \A c \in Callers : Copying(c) =>
    /\ loc[c].at \in DOMAIN used /\ loc[c].to \in DOMAIN used /\ loc[c].at # loc[c].to
    /\ \A d \in Callers : (Copying(d) /\ d # c) =>
         loc[d].at \notin {loc[c].at, loc[c].to} /\ loc[d].to \notin {loc[c].at, loc[c].to}
CoverOK ==
  \A a \in heapStart .. heapEnd - 1 : Covers(next, size, a) \/ UsedCovers(a) \/ LimboCovers(a)

HInv ==
  /\ Ordered(next, size) /\ freeBytes \in Int
  /\ LocOK /\ UsedOK /\ LimboOK /\ CopyOK /\ CoverOK

LEMMA WantedNat == ASSUME NEW n \in Int PROVE Wanted(n) \in Nat
BY HeapAssumption DEF Wanted

\* What an allocation does: block b leaves the list, all of it or its front.
LEMMA AllocateIs ==
  ASSUME Ordered(next, size), freeBytes \in Int,
         NEW n \in Int, NEW b \in FreeBlocks, NEW ptr, NEW len, NEW al,
         Allocate(n, b, ptr, len, al)
  PROVE  \E got \in Nat :
           /\ InHeap(b, got) /\ InHeap(b, size[b]) /\ got <= size[b]
           /\ Ordered(next', size') /\ freeBytes' \in Int
           /\ Away(next', size', b, got)
           /\ DOMAIN used' = DOMAIN used \cup {b} /\ used'[b].size = got
           /\ \A x \in DOMAIN used : x # b => used'[x] = used[x]
           /\ \A p, q \in Int : (q > 0 /\ Away(next, size, p, q)) =>
                Away(next', size', p, q) /\ Apart(b, got, p, q)
           /\ \A a \in Int : Covers(next, size, a) =>
                Covers(next', size', a) \/ (b <= a /\ a < b + got)
<1> DEFINE want == Wanted(n)
           cut  == size[b] - want > heapMINIMUM_BLOCK_SIZE
           got  == IF cut THEN want ELSE size[b]
           out  == Unlinked(b)
           ins  == prvInsertBlockIntoFreeList(out.next, out.size, b + want, size[b] - want)
           left == IF cut THEN ins ELSE out
<1>1. /\ want > 0 /\ FirstFit(b, want)
      /\ next' = left.next /\ size' = left.size
      /\ freeBytes' = freeBytes - got
      /\ used' = Put(used, b, [size |-> got, ptr |-> ptr, len |-> len, align |-> al])
  BY DEF Allocate, Charged
<1>2. b \in Members(next) /\ InHeap(b, size[b]) /\ want \in Nat /\ size[b] >= want
  BY <1>1, WantedNat DEF FreeBlocks, Members, Ordered, FirstFit
<1>3. /\ Ordered(out.next, out.size)
      /\ Members(out.next) = Members(next) \ {b}
      /\ \A f \in Members(out.next) : out.size[f] = size[f]
      /\ Away(out.next, out.size, b, size[b])
  BY <1>2, UnlinkIs
<1>4. heapMINIMUM_BLOCK_SIZE \in Nat
  BY HeapAssumption DEF heapMINIMUM_BLOCK_SIZE
<1>5. got \in Nat /\ InHeap(b, got) /\ got <= size[b]
  <2>1. got = want \/ got = size[b]
    OBVIOUS
  <2>2. want > 0
    BY <1>1
  <2> HIDE DEF got, want
  <2> QED
    BY <2>1, <2>2, <1>2, Bounds DEF InHeap
<1>6. \A p, q \in Int : Away(next, size, p, q) => Away(out.next, out.size, p, q)
  BY <1>3 DEF Away
<1>7. \A p, q \in Int : Away(next, size, p, q) => Apart(b, size[b], p, q)
  BY <1>2 DEF Away
<1>8. \A p, q \in Int : Apart(b, size[b], p, q) =>
        Apart(b, got, p, q) /\ (cut => Apart(b + want, size[b] - want, p, q))
  <2> SUFFICES ASSUME NEW p \in Int, NEW q \in Int, Apart(b, size[b], p, q)
               PROVE  Apart(b, got, p, q) /\ (cut => Apart(b + want, size[b] - want, p, q))
    OBVIOUS
  <2> HIDE DEF want
  <2> QED
    BY <1>2, <1>5 DEF Apart, InHeap
<1>9. \A a \in Int : Covers(next, size, a) =>
        Covers(out.next, out.size, a) \/ (b <= a /\ a < b + size[b])
  BY <1>3 DEF Covers, Ends
<1>10. /\ DOMAIN used' = DOMAIN used \cup {b} /\ used'[b].size = got
       /\ \A x \in DOMAIN used : x # b => used'[x] = used[x]
  BY <1>1 DEF Put
<1>11. freeBytes' \in Int
  BY <1>1, <1>5
<1>12. CASE ~cut
  <2>1. next' = out.next /\ size' = out.size /\ got = size[b]
    BY <1>1, <1>12
  <2> HIDE DEF out, got, want, cut
  <2>2. /\ Ordered(next', size') /\ Away(next', size', b, got)
        /\ \A p, q \in Int : (q > 0 /\ Away(next, size, p, q)) =>
             Away(next', size', p, q) /\ Apart(b, got, p, q)
        /\ \A a \in Int : Covers(next, size, a) =>
             Covers(next', size', a) \/ (b <= a /\ a < b + got)
    BY <2>1, <1>3, <1>6, <1>7, <1>9
  <2> QED
    BY <2>2, <1>2, <1>5, <1>10, <1>11
<1>13. CASE cut
  <2>1. next' = ins.next /\ size' = ins.size /\ got = want
    BY <1>1, <1>13
  <2>2. InHeap(b + want, size[b] - want)
    <3>1. want > 0 /\ size[b] - want > heapMINIMUM_BLOCK_SIZE
      BY <1>1, <1>13
    <3> HIDE DEF want
    <3> QED
      BY <3>1, <1>2, <1>4, Bounds DEF InHeap
  <2>3. Away(out.next, out.size, b + want, size[b] - want)
    <3> SUFFICES ASSUME NEW f \in Members(out.next)
                 PROVE  Apart(f, out.size[f], b + want, size[b] - want)
      BY DEF Away
    <3>1. Apart(f, out.size[f], b, size[b]) /\ InHeap(f, out.size[f])
      BY <1>3 DEF Away, Ordered
    <3> HIDE DEF want, out
    <3> QED
      BY <3>1, <1>2, <2>2 DEF Apart, InHeap
  <2>4. /\ Ordered(ins.next, ins.size)
        /\ \A p, q \in Int :
             (q > 0 /\ Away(out.next, out.size, p, q) /\ Apart(b + want, size[b] - want, p, q)) =>
                Away(ins.next, ins.size, p, q)
        /\ \A a \in Int :
             (Covers(out.next, out.size, a)
               \/ (b + want <= a /\ a < b + want + (size[b] - want))) =>
                Covers(ins.next, ins.size, a)
    <3> HIDE DEF want, out
    <3> QED
      BY <1>3, <2>2, <2>3, InsertIs
  <2>5. Away(out.next, out.size, b, want) /\ Apart(b + want, size[b] - want, b, want)
    <3>1. Apart(b + want, size[b] - want, b, want)
      BY <1>2 DEF Apart, InHeap
    <3>2. ASSUME NEW f \in Members(out.next) PROVE Apart(f, out.size[f], b, want)
      <4>1. Apart(f, out.size[f], b, size[b]) /\ InHeap(f, out.size[f])
        BY <1>3 DEF Away, Ordered
      <4> HIDE DEF want, out
      <4> QED
        BY <4>1, <1>2 DEF Apart, InHeap
    <3> QED
      BY <3>1, <3>2 DEF Away
  <2>6. want \in Int /\ want > 0 /\ b \in Int /\ size[b] \in Int
    BY <1>1, <1>2 DEF InHeap
  <2>7. Away(ins.next, ins.size, b, want)
    BY <2>4, <2>5, <2>6
  <2>8. \A p, q \in Int : (q > 0 /\ Away(next, size, p, q)) =>
             Away(next', size', p, q) /\ Apart(b, got, p, q)
    <3> SUFFICES ASSUME NEW p \in Int, NEW q \in Int, q > 0, Away(next, size, p, q)
                 PROVE  Away(next', size', p, q) /\ Apart(b, got, p, q)
      OBVIOUS
    <3>1. Apart(b, got, p, q) /\ Apart(b + want, size[b] - want, p, q)
      BY <1>7, <1>8, <1>13
    <3>2. Away(out.next, out.size, p, q)
      BY <1>6
    <3> HIDE DEF ins, out, want, got
    <3> QED
      BY <3>1, <3>2, <2>1, <2>4
  <2>9. \A a \in Int : Covers(next, size, a) =>
             Covers(next', size', a) \/ (b <= a /\ a < b + got)
    <3> SUFFICES ASSUME NEW a \in Int, Covers(next, size, a)
                 PROVE  Covers(next', size', a) \/ (b <= a /\ a < b + got)
      OBVIOUS
    <3>1. Covers(out.next, out.size, a) \/ (b <= a /\ a < b + size[b])
      BY <1>9
    <3> HIDE DEF ins, out, want, got
    <3> QED
      BY <3>1, <2>1, <2>4, <2>6
  <2> HIDE DEF ins, out, want, got, cut
  <2> QED
    BY <2>1, <2>4, <2>7, <2>8, <2>9, <1>2, <1>5, <1>10, <1>11
<1> QED
  BY <1>12, <1>13

\* An allocation keeps every part of the invariant, if the callers that free
\* a block are where they were.
LEMMA AllocateKeeps ==
  ASSUME HInv, NEW n \in Int, NEW b \in FreeBlocks, NEW ptr, NEW len, NEW al,
         Allocate(n, b, ptr, len, al),
         Limbo' = Limbo, \A c \in Limbo : loc'[c] = loc[c]
  PROVE  /\ Ordered(next, size)' /\ (freeBytes \in Int)' /\ UsedOK' /\ LimboOK' /\ CoverOK'
         /\ DOMAIN used' = DOMAIN used \cup {b} /\ b \notin DOMAIN used
<1>1. PICK got \in Nat :
           /\ InHeap(b, got) /\ InHeap(b, size[b]) /\ got <= size[b]
           /\ Ordered(next', size') /\ freeBytes' \in Int
           /\ Away(next', size', b, got)
           /\ DOMAIN used' = DOMAIN used \cup {b} /\ used'[b].size = got
           /\ \A x \in DOMAIN used : x # b => used'[x] = used[x]
           /\ \A p, q \in Int : (q > 0 /\ Away(next, size, p, q)) =>
                Away(next', size', p, q) /\ Apart(b, got, p, q)
           /\ \A a \in Int : Covers(next, size, a) =>
                Covers(next', size', a) \/ (b <= a /\ a < b + got)
  BY AllocateIs DEF HInv
<1>2. \A x \in DOMAIN used : InHeap(x, used[x].size) /\ Away(next, size, x, used[x].size)
  BY DEF HInv, UsedOK
<1>3. b \notin DOMAIN used
  <2> SUFFICES ASSUME b \in DOMAIN used PROVE FALSE
    OBVIOUS
  <2>1. Apart(b, size[b], b, used[b].size) /\ InHeap(b, used[b].size)
    BY <1>2 DEF Away, Members, FreeBlocks
  <2> QED
    BY <2>1, <1>1 DEF Apart, InHeap
<1>4. \A x \in DOMAIN used :
        /\ used'[x] = used[x] /\ Away(next', size', x, used[x].size)
        /\ Apart(b, got, x, used[x].size)
  BY <1>1, <1>2, <1>3 DEF InHeap
<1>5. UsedOK'
  <2>1. \A x \in DOMAIN used' : InHeap(x, used'[x].size) /\ Away(next', size', x, used'[x].size)
    BY <1>1, <1>2, <1>4
  <2>2. ASSUME NEW x \in DOMAIN used', NEW y \in DOMAIN used', x # y
        PROVE  Apart(x, used'[x].size, y, used'[y].size)
    <3>1. CASE x # b /\ y # b
      BY <3>1, <2>2, <1>1, <1>4 DEF HInv, UsedOK
    <3>2. CASE x = b
      BY <3>2, <2>2, <1>1, <1>4
    <3>3. CASE y = b
      BY <3>3, <2>2, <1>1, <1>4 DEF Apart
    <3> QED
      BY <3>1, <3>2, <3>3
  <2> QED
    BY <2>1, <2>2 DEF UsedOK
<1>6. \A c \in Limbo : /\ InHeap(loc[c].at, loc[c].size)
                       /\ Away(next, size, loc[c].at, loc[c].size)
                       /\ UsedApart(loc[c].at, loc[c].size)
  BY DEF HInv, LimboOK
<1>7. LimboOK'
  <2>1. ASSUME NEW c \in Limbo
        PROVE  /\ InHeap(loc[c].at, loc[c].size)
               /\ Away(next', size', loc[c].at, loc[c].size)
               /\ UsedApart(loc[c].at, loc[c].size)'
    <3>1. Away(next', size', loc[c].at, loc[c].size) /\ Apart(b, got, loc[c].at, loc[c].size)
      BY <1>1, <1>6 DEF InHeap
    <3>2. \A x \in DOMAIN used' : Apart(x, used'[x].size, loc[c].at, loc[c].size)
      BY <3>1, <1>1, <1>4, <1>6 DEF UsedApart
    <3>3. loc'[c] = loc[c]
      OBVIOUS
    <3> QED
      BY <3>1, <3>2, <3>3, <1>6 DEF UsedApart
  <2>2. \A c, d \in Limbo : c # d => Apart(loc[c].at, loc[c].size, loc[d].at, loc[d].size)
    BY DEF HInv, LimboOK
  <2> QED
    BY <2>1, <2>2 DEF LimboOK, UsedApart
<1>8. CoverOK'
  <2> SUFFICES ASSUME NEW a \in heapStart .. heapEnd - 1
               PROVE  Covers(next', size', a) \/ UsedCovers(a)' \/ LimboCovers(a)'
    BY DEF CoverOK, heapStart, heapEnd
  <2>1. Covers(next, size, a) \/ UsedCovers(a) \/ LimboCovers(a)
    BY DEF HInv, CoverOK
  <2>2. CASE Covers(next, size, a)
    <3>1. a \in Int
      BY Bounds
    <3>2. Covers(next', size', a) \/ (b <= a /\ a < b + got)
      BY <2>2, <3>1, <1>1
    <3> QED
      BY <3>2, <1>1 DEF UsedCovers
  <2>3. CASE UsedCovers(a)
    BY <2>3, <1>1, <1>4 DEF UsedCovers
  <2>4. CASE LimboCovers(a)
    BY <2>4 DEF LimboCovers
  <2> QED
    BY <2>1, <2>2, <2>3, <2>4
<1> QED
  BY <1>1, <1>3, <1>5, <1>7, <1>8

\* A block that its owner frees: it is not allocated any more, and not yet in
\* the list.
LEMMA FreeingKeeps ==
  ASSUME HInv, NEW c \in Callers, loc[c].pc # "insert", NEW b \in DOMAIN used,
         \A d \in Callers : (Copying(d) /\ d # c) => b \notin {loc[d].at, loc[d].to},
         Freeing(c, b), UNCHANGED <<next, size, freeBytes>>
  PROVE  HInv'
<1>1. /\ loc' = [loc EXCEPT ![c] = [pc |-> "insert", at |-> b, size |-> used[b].size]]
      /\ used' = Drop(used, b) /\ next' = next /\ size' = size /\ freeBytes' = freeBytes
  BY DEF Freeing
<1>2. /\ DOMAIN used' = DOMAIN used \ {b}
      /\ \A x \in DOMAIN used' : used'[x] = used[x]
  BY <1>1 DEF Drop
<1>3. /\ loc'[c].pc = "insert" /\ loc'[c].at = b /\ loc'[c].size = used[b].size
      /\ \A d \in Callers : d # c => loc'[d] = loc[d]
      /\ DOMAIN loc' = Callers
  BY <1>1 DEF HInv, LocOK
<1>4. LocOK'
  <2>1. loc' = [d \in Callers |-> loc'[d]]
    BY <1>1, <1>3
  <2>2. \A d \in Callers : loc'[d].pc \in {"idle", "copy", "insert"}
    BY <1>3 DEF HInv, LocOK
  <2> QED
    BY <2>1, <2>2 DEF LocOK
<1>5. Limbo' = Limbo \cup {c} /\ c \notin Limbo
  BY <1>3 DEF Limbo
<1>6. UsedOK'
  BY <1>1, <1>2 DEF HInv, UsedOK
<1>7. /\ InHeap(b, used[b].size) /\ Away(next, size, b, used[b].size)
      /\ \A x \in DOMAIN used' : Apart(x, used[x].size, b, used[b].size)
  BY <1>2 DEF HInv, UsedOK
<1>8. LimboOK'
  <2>1. ASSUME NEW d \in Limbo'
        PROVE  /\ InHeap(loc'[d].at, loc'[d].size)
               /\ Away(next', size', loc'[d].at, loc'[d].size)
               /\ \A x \in DOMAIN used' : Apart(x, used'[x].size, loc'[d].at, loc'[d].size)
    <3>1. CASE d = c
      BY <3>1, <1>1, <1>2, <1>3, <1>7
    <3>2. CASE d # c
      <4>1. d \in Limbo /\ loc'[d] = loc[d]
        BY <3>2, <1>3, <1>5 DEF Limbo
      <4> QED
        BY <4>1, <1>1, <1>2 DEF HInv, LimboOK, UsedApart
    <3> QED
      BY <3>1, <3>2
  <2>2. ASSUME NEW d \in Limbo', NEW e \in Limbo', d # e
        PROVE  Apart(loc'[d].at, loc'[d].size, loc'[e].at, loc'[e].size)
    <3>1. \A f \in Limbo' : f # c => f \in Limbo /\ loc'[f] = loc[f]
      BY <1>3, <1>5 DEF Limbo
    <3>2. \A f \in Limbo : Apart(b, used[b].size, loc[f].at, loc[f].size)
      BY DEF HInv, LimboOK, UsedApart
    <3>3. CASE d = c
      BY <2>2, <3>1, <3>2, <3>3, <1>3
    <3>4. CASE e = c
      BY <2>2, <3>1, <3>2, <3>4, <1>3 DEF Apart
    <3>5. CASE d # c /\ e # c
      BY <2>2, <3>1, <3>5 DEF HInv, LimboOK
    <3> QED
      BY <3>3, <3>4, <3>5
  <2> QED
    BY <2>1, <2>2 DEF LimboOK, UsedApart
<1>9. CopyOK'
  <2>1. \A d \in Callers : Copying(d)' => Copying(d) /\ d # c /\ loc'[d] = loc[d]
    BY <1>3 DEF Copying
  <2>2. \A d \in Callers : Copying(d)' => loc[d].at # b /\ loc[d].to # b
    BY <2>1
  <2> QED
    BY <2>1, <2>2, <1>2 DEF HInv, CopyOK
<1>10. CoverOK'
  <2> SUFFICES ASSUME NEW a \in heapStart .. heapEnd - 1
               PROVE  Covers(next', size', a) \/ UsedCovers(a)' \/ LimboCovers(a)'
    BY DEF CoverOK, heapStart, heapEnd
  <2>1. Covers(next, size, a) \/ UsedCovers(a) \/ LimboCovers(a)
    BY DEF HInv, CoverOK
  <2>2. CASE UsedCovers(a)
    <3>1. PICK x \in DOMAIN used : x <= a /\ a < x + used[x].size
      BY <2>2 DEF UsedCovers
    <3>2. CASE x = b
      BY <3>1, <3>2, <1>3, <1>5 DEF LimboCovers
    <3>3. CASE x # b
      BY <3>1, <3>3, <1>2 DEF UsedCovers
    <3> QED
      BY <3>2, <3>3
  <2>3. CASE LimboCovers(a)
    BY <2>3, <1>3, <1>5 DEF LimboCovers, Limbo
  <2> QED
    BY <2>1, <2>2, <2>3, <1>1
<1> QED
  BY <1>1, <1>4, <1>6, <1>8, <1>9, <1>10 DEF HInv

\* A block put back by its caller.
LEMMA FreeInsertKeeps ==
  ASSUME HInv, NEW c \in Callers, FreeInsert(c)
  PROVE  HInv'
<1> DEFINE b == loc[c].at
           n == loc[c].size
           r == prvInsertBlockIntoFreeList(next, size, b, n)
<1>1. /\ c \in Limbo /\ next' = r.next /\ size' = r.size /\ freeBytes' = freeBytes + n
      /\ loc' = [loc EXCEPT ![c] = [pc |-> "idle"]] /\ used' = used
  BY DEF FreeInsert, Limbo
<1>2. InHeap(b, n) /\ Away(next, size, b, n) /\ UsedApart(b, n)
  BY <1>1 DEF HInv, LimboOK
<1>3. /\ loc'[c].pc = "idle" /\ DOMAIN loc' = Callers
      /\ \A d \in Callers : d # c => loc'[d] = loc[d]
      /\ Limbo' = Limbo \ {c}
  BY <1>1 DEF HInv, LocOK, Limbo
<1> HIDE DEF r
<1>4. /\ Ordered(r.next, r.size)
      /\ \A p, q \in Int : (q > 0 /\ Away(next, size, p, q) /\ Apart(b, n, p, q)) =>
            Away(r.next, r.size, p, q)
      /\ \A a \in Int : (Covers(next, size, a) \/ (b <= a /\ a < b + n)) =>
            Covers(r.next, r.size, a)
  BY <1>2, InsertIs DEF HInv, r
<1> HIDE DEF b, n
<1>5. LocOK'
  <2>1. loc' = [d \in Callers |-> loc'[d]]
    BY <1>1, <1>3
  <2> QED
    BY <2>1, <1>3 DEF LocOK, HInv
<1>6. UsedOK'
  <2>1. ASSUME NEW x \in DOMAIN used
        PROVE  InHeap(x, used[x].size) /\ Away(r.next, r.size, x, used[x].size)
    <3>1. InHeap(x, used[x].size) /\ Away(next, size, x, used[x].size)
      BY DEF HInv, UsedOK
    <3>2. Apart(b, n, x, used[x].size)
      BY <1>2 DEF UsedApart, Apart
    <3> QED
      BY <3>1, <3>2, <1>4 DEF InHeap
  <2> QED
    BY <2>1, <1>1 DEF HInv, UsedOK
<1>7. LimboOK'
  <2>1. ASSUME NEW d \in Limbo'
        PROVE  /\ loc'[d] = loc[d] /\ d \in Limbo
               /\ InHeap(loc[d].at, loc[d].size)
               /\ Away(r.next, r.size, loc[d].at, loc[d].size)
               /\ UsedApart(loc[d].at, loc[d].size)
    <3>1. d \in Limbo /\ d # c /\ loc'[d] = loc[d]
      BY <1>3 DEF Limbo
    <3>2. /\ InHeap(loc[d].at, loc[d].size) /\ Away(next, size, loc[d].at, loc[d].size)
          /\ UsedApart(loc[d].at, loc[d].size)
      BY <3>1 DEF HInv, LimboOK
    <3>3. Apart(b, n, loc[d].at, loc[d].size)
      BY <3>1, <1>1 DEF HInv, LimboOK, b, n
    <3> QED
      BY <3>1, <3>2, <3>3, <1>4 DEF InHeap
  <2>2. \A d, e \in Limbo : d # e => Apart(loc[d].at, loc[d].size, loc[e].at, loc[e].size)
    BY DEF HInv, LimboOK
  <2> QED
    BY <2>1, <2>2, <1>1 DEF LimboOK, UsedApart
<1>8. CopyOK'
  <2>1. \A d \in Callers : Copying(d)' => Copying(d) /\ loc'[d] = loc[d]
    BY <1>3 DEF Copying
  <2> QED
    BY <2>1, <1>1 DEF HInv, CopyOK
<1>9. CoverOK'
  <2> SUFFICES ASSUME NEW a \in heapStart .. heapEnd - 1
               PROVE  Covers(next', size', a) \/ UsedCovers(a)' \/ LimboCovers(a)'
    BY DEF CoverOK, heapStart, heapEnd
  <2>1. Covers(next, size, a) \/ UsedCovers(a) \/ LimboCovers(a)
    BY DEF HInv, CoverOK
  <2>2. a \in Int
    BY Bounds
  <2>3. CASE Covers(next, size, a)
    BY <2>2, <2>3, <1>1, <1>4
  <2>4. CASE UsedCovers(a)
    BY <2>4, <1>1 DEF UsedCovers
  <2>5. CASE LimboCovers(a)
    <3>1. PICK d \in Limbo : loc[d].at <= a /\ a < loc[d].at + loc[d].size
      BY <2>5 DEF LimboCovers
    <3>2. CASE d = c
      BY <2>2, <3>1, <3>2, <1>1, <1>4 DEF b, n
    <3>3. CASE d # c
      BY <3>1, <3>3, <1>3 DEF LimboCovers, Limbo
    <3> QED
      BY <3>2, <3>3
  <2> QED
    BY <2>1, <2>3, <2>4, <2>5
<1>10. (freeBytes \in Int)'
  BY <1>1, <1>2 DEF HInv, InHeap
<1>11. Ordered(next, size)'
  BY <1>1, <1>4
<1> QED
  BY <1>5, <1>6, <1>7, <1>8, <1>9, <1>10, <1>11 DEF HInv

LEMMA HInit == Init => HInv
<1> SUFFICES ASSUME Init PROVE HInv
  OBVIOUS
<1>1. Members(next) = {heapStart} /\ DOMAIN used = {} /\ Limbo = {}
  BY Bounds DEF Init, Members, Limbo
<1>2. /\ next[xStart] = heapStart /\ next[heapStart] = heapEnd
      /\ size[xStart] = 0 /\ size[heapStart] = heapEnd - heapStart
      /\ DOMAIN next = {xStart, heapStart} /\ DOMAIN size = {xStart, heapStart}
  BY Bounds DEF Init
<1>3. Ordered(next, size)
  BY <1>1, <1>2, Bounds DEF Ordered, InHeap, Ends
<1>4. freeBytes \in Int
  BY Bounds DEF Init
<1>5. LocOK /\ CopyOK
  BY DEF Init, LocOK, CopyOK, Copying
<1>6. UsedOK /\ LimboOK
  BY <1>1 DEF UsedOK, LimboOK
<1>7. CoverOK
  BY <1>1, <1>2, Bounds DEF CoverOK, Covers, Ends
<1> QED
  BY <1>3, <1>4, <1>5, <1>6, <1>7 DEF HInv

LEMMA HNext == HInv /\ [Next]_vars => HInv'
<1> SUFFICES ASSUME HInv, [Next]_vars PROVE HInv'
  OBVIOUS
<1>1. ASSUME NEW c \in Callers, NEW n \in Int, NEW b \in FreeBlocks, NEW ptr, NEW len, NEW al,
             Allocate(n, b, ptr, len, al), UNCHANGED loc
      PROVE  HInv'
  <2>1. Limbo' = Limbo /\ \A d \in Limbo : loc'[d] = loc[d]
    BY <1>1 DEF Limbo
  <2>2. /\ Ordered(next, size)' /\ (freeBytes \in Int)' /\ UsedOK' /\ LimboOK' /\ CoverOK'
        /\ DOMAIN used' = DOMAIN used \cup {b}
    BY <1>1, <2>1, AllocateKeeps
  <2>3. LocOK' /\ CopyOK'
    BY <1>1, <2>2 DEF HInv, LocOK, CopyOK, Copying
  <2> QED
    BY <2>2, <2>3 DEF HInv
<1>2. \A n \in Requests : n \in Int
  BY HeapAssumption
<1>3. ASSUME NEW c \in Callers, NEW n \in Requests, Malloc(c, n) PROVE HInv'
  BY <1>1, <1>2, <1>3 DEF Malloc
<1>4. ASSUME NEW c \in Callers, NEW n \in Requests, NEW a \in Aligns, MallocAlign(c, n, a)
      PROVE  HInv'
  <2>1. (Up(n, Pointer) + Up(a, Pointer)) % Word \in Int
    <3>1. Up(n, Pointer) \in Int /\ Up(a, Pointer) \in Int
      BY HeapAssumption DEF Up
    <3> QED
      BY <3>1, HeapAssumption
  <2> QED
    BY <2>1, <1>1, <1>4 DEF MallocAlign
<1>5. ASSUME NEW c \in Callers, NEW b \in DOMAIN used, Free(c, b) PROVE HInv'
  <2>1. loc[c].pc # "insert" /\ Freeing(c, b) /\ UNCHANGED <<next, size, freeBytes>>
    BY <1>5 DEF Free, Idle
  <2>2. \A d \in Callers : (Copying(d) /\ d # c) => b \notin {loc[d].at, loc[d].to}
    BY <1>5 DEF Free, Untouched, Copying
  <2> QED
    BY <2>1, <2>2, FreeingKeeps
<1>6. ASSUME NEW c \in Callers, NEW b \in DOMAIN used, NEW n \in Requests, Realloc(c, b, n)
      PROVE  HInv'
  <2>1. PICK d \in FreeBlocks :
          /\ Allocate(n, d, d + xHeapStructSize, n, Align)
          /\ loc' = [loc EXCEPT ![c] = [pc |-> "copy", at |-> b, to |-> d]]
    BY <1>6 DEF Realloc
  <2>2. /\ loc'[c].pc = "copy" /\ loc'[c].at = b /\ loc'[c].to = d
        /\ \A e \in Callers : e # c => loc'[e] = loc[e]
        /\ DOMAIN loc' = Callers /\ loc[c].pc = "idle"
    BY <2>1, <1>6 DEF HInv, LocOK, Realloc, Idle
  <2>3. Limbo' = Limbo /\ \A e \in Limbo : loc'[e] = loc[e]
    BY <2>2 DEF Limbo
  <2>4. /\ Ordered(next, size)' /\ (freeBytes \in Int)' /\ UsedOK' /\ LimboOK' /\ CoverOK'
        /\ DOMAIN used' = DOMAIN used \cup {d} /\ d \notin DOMAIN used
    BY <2>1, <2>3, <1>2, AllocateKeeps
  <2>5. LocOK'
    <3>1. loc' = [e \in Callers |-> loc'[e]]
      BY <2>1, <2>2
    <3> QED
      BY <3>1, <2>2 DEF HInv, LocOK
  <2>6. CopyOK'
    <3>1. \A e \in Callers : (Copying(e) /\ e # c) => b \notin {loc[e].at, loc[e].to}
      BY <1>6 DEF Realloc, Untouched, Copying
    <3>2. \A e \in Callers : Copying(e) => d \notin {loc[e].at, loc[e].to}
      BY <2>4 DEF HInv, CopyOK
    <3>3. \A e \in Callers : (Copying(e)' /\ e # c) => Copying(e) /\ loc'[e] = loc[e]
      BY <2>2 DEF Copying
    <3>4. d # b
      BY <2>4
    <3> QED
      BY <3>1, <3>2, <3>3, <3>4, <2>2, <2>4 DEF HInv, CopyOK
  <2> QED
    BY <2>4, <2>5, <2>6 DEF HInv
<1>7. ASSUME NEW c \in Callers, FreeInsert(c) PROVE HInv'
  BY <1>7, FreeInsertKeeps
<1>8. ASSUME NEW c \in Callers, ReallocFree(c) PROVE HInv'
  <2>1. /\ loc[c].pc # "insert" /\ Copying(c) /\ Freeing(c, loc[c].at)
        /\ UNCHANGED <<next, size, freeBytes>>
    BY <1>8 DEF ReallocFree, Copying
  <2>2. /\ loc[c].at \in DOMAIN used
        /\ \A d \in Callers : (Copying(d) /\ d # c) => loc[c].at \notin {loc[d].at, loc[d].to}
    BY <2>1 DEF HInv, CopyOK
  <2> QED
    BY <2>1, <2>2, FreeingKeeps
<1>9. CASE UNCHANGED vars
  BY <1>9 DEF vars, HInv, LocOK, UsedOK, LimboOK, CopyOK, CoverOK, Limbo, Copying, UsedApart,
              UsedCovers, LimboCovers
<1> QED
  BY <1>3, <1>4, <1>5, <1>6, <1>7, <1>8, <1>9 DEF Next

LEMMA HInductive == Spec => []HInv
BY HInit, HNext, PTL DEF Spec

\* The three kinds of blocks, and that none of them leaves the heap.
LEMMA BlockIs ==
  ASSUME HInv, NEW x \in Blocks
  PROVE  /\ \/ \E b \in FreeBlocks : x = <<b, b + size[b]>>
            \/ \E b \in DOMAIN used : x = <<b, b + used[b].size>>
            \/ \E c \in Limbo : x = <<loc[c].at, loc[c].at + loc[c].size>>
         /\ x[1] \in Int /\ x[2] \in Int
         /\ heapStart <= x[1] /\ x[1] < x[2] /\ x[2] <= heapEnd
<1>1. \/ \E b \in FreeBlocks : x = <<b, b + size[b]>>
      \/ \E b \in DOMAIN used : x = <<b, b + used[b].size>>
      \/ \E c \in Limbo : x = <<loc[c].at, loc[c].at + loc[c].size>>
  BY DEF Blocks
<1>2. \E b, n : x = <<b, b + n>> /\ InHeap(b, n)
  <2>1. \A b \in FreeBlocks : InHeap(b, size[b])
    BY DEF HInv, Ordered, FreeBlocks, Members
  <2>2. \A b \in DOMAIN used : InHeap(b, used[b].size)
    BY DEF HInv, UsedOK
  <2>3. \A c \in Limbo : InHeap(loc[c].at, loc[c].size)
    BY DEF HInv, LimboOK
  <2> QED
    BY <1>1, <2>1, <2>2, <2>3
<1> QED
  BY <1>1, <1>2, Bounds DEF InHeap

LEMMA BlocksApart ==
  ASSUME HInv, NEW x \in Blocks, NEW y \in Blocks
  PROVE  x = y \/ x[2] <= y[1] \/ y[2] <= x[1]
<1>1. \A a, b \in FreeBlocks : a = b \/ Apart(a, size[a], b, size[b])
  <2> SUFFICES ASSUME NEW a \in FreeBlocks, NEW b \in FreeBlocks, a # b
               PROVE  Apart(a, size[a], b, size[b])
    OBVIOUS
  <2>1. /\ Ordered(next, size) /\ a \in Members(next) /\ b \in Members(next)
        /\ InHeap(a, size[a]) /\ InHeap(b, size[b])
    BY DEF HInv, Ordered, FreeBlocks, Members
  <2>2. \A f \in Members(next) : next[f] \in Int
    BY <2>1, Bounds DEF Ordered, Members, InHeap
  <2>3. CASE a < b
    BY <2>1, <2>2, <2>3, InOrder DEF Apart, Ends, InHeap
  <2>4. CASE b < a
    BY <2>1, <2>2, <2>4, InOrder DEF Apart, Ends, InHeap
  <2> QED
    BY <2>1, <2>3, <2>4 DEF InHeap
<1>2. \A a \in FreeBlocks, b \in DOMAIN used : Apart(a, size[a], b, used[b].size)
  BY DEF HInv, UsedOK, Away, FreeBlocks, Members
<1>3. \A a \in FreeBlocks, c \in Limbo : Apart(a, size[a], loc[c].at, loc[c].size)
  BY DEF HInv, LimboOK, Away, FreeBlocks, Members
<1>4. \A a, b \in DOMAIN used : a = b \/ Apart(a, used[a].size, b, used[b].size)
  BY DEF HInv, UsedOK
<1>5. \A a \in DOMAIN used, c \in Limbo : Apart(a, used[a].size, loc[c].at, loc[c].size)
  BY DEF HInv, LimboOK, UsedApart
<1>6. \A c, d \in Limbo : c = d \/ Apart(loc[c].at, loc[c].size, loc[d].at, loc[d].size)
  BY DEF HInv, LimboOK
<1>7. CASE \E b \in FreeBlocks : x = <<b, b + size[b]>>
  BY <1>1, <1>2, <1>3, <1>7, BlockIs DEF Apart
<1>8. CASE \E b \in DOMAIN used : x = <<b, b + used[b].size>>
  BY <1>2, <1>4, <1>5, <1>8, BlockIs DEF Apart
<1>9. CASE \E c \in Limbo : x = <<loc[c].at, loc[c].at + loc[c].size>>
  BY <1>3, <1>5, <1>6, <1>9, BlockIs DEF Apart
<1> QED
  BY <1>7, <1>8, <1>9, BlockIs

LEMMA HType == HInv => TypeOK
<1> SUFFICES ASSUME HInv PROVE TypeOK
  OBVIOUS
<1>1. \A b \in FreeBlocks : InHeap(b, size[b])
  BY DEF HInv, Ordered, FreeBlocks, Members
<1>2. \A b \in DOMAIN used : InHeap(b, used[b].size)
  BY DEF HInv, UsedOK
<1>3. FreeBlocks \subseteq heapStart .. heapEnd - 1 /\ DOMAIN used \subseteq heapStart .. heapEnd - 1
  BY <1>1, <1>2, Bounds DEF InHeap
<1>4. \A b \in DOMAIN next : next[b] \in FreeBlocks \cup {heapEnd} /\ size[b] \in Nat
  BY <1>1 DEF HInv, Ordered, FreeBlocks, Members, InHeap
<1>5. \A b \in DOMAIN used : used[b].size \in Nat
  BY <1>2 DEF InHeap
<1>6. DOMAIN size = DOMAIN next /\ xStart \in DOMAIN next /\ freeBytes \in Int
  BY DEF HInv, Ordered
<1>7. \A c \in Callers :
        /\ loc[c].pc \in {"idle", "copy", "insert"}
        /\ loc[c].pc = "copy" => {loc[c].at, loc[c].to} \subseteq DOMAIN used
  BY DEF HInv, LocOK, CopyOK, Copying
<1> QED
  BY <1>3, <1>4, <1>5, <1>6, <1>7 DEF TypeOK

\* However memory is cut, freed by interleaved callers and joined again, the
\* lists and the callers refer to blocks of the heap (__internal_malloc,
\* vPortFree, prvInsertBlockIntoFreeList).
THEOREM TypeCorrect == Spec => []TypeOK
BY HInductive, HType, PTL

\* The list of free blocks goes up in address and misses none, which is what
\* the loops of malloc and free trust.
THEOREM ListAlwaysExact == Spec => []ListExact
<1>1. HInv => ListExact
  BY DEF HInv, Ordered, ListExact, FreeBlocks, Members
<1> QED
  BY <1>1, HInductive, PTL

\* Two free blocks never touch: prvInsertBlockIntoFreeList joins them.
THEOREM AlwaysCoalesced == Spec => []Coalesced
<1>1. HInv => Coalesced
  BY DEF HInv, Ordered, Coalesced, FreeBlocks, Members, Ends
<1> QED
  BY <1>1, HInductive, PTL

\* No two blocks overlap, none leaves the heap and none is in two places at
\* once, also while a block is marked free and not yet in the list.
THEOREM AlwaysDisjoint == Spec => []Disjoint
<1>1. ASSUME HInv PROVE Disjoint
  <2>1. \A b \in FreeBlocks : InHeap(b, size[b])
    BY <1>1 DEF HInv, Ordered, FreeBlocks, Members
  <2>2. \A b \in DOMAIN used : InHeap(b, used[b].size) /\ Away(next, size, b, used[b].size)
    BY <1>1 DEF HInv, UsedOK
  <2>3. /\ \A c \in Limbo : /\ InHeap(loc[c].at, loc[c].size)
                            /\ Away(next, size, loc[c].at, loc[c].size)
                            /\ UsedApart(loc[c].at, loc[c].size)
        /\ \A c, d \in Limbo : c # d => Apart(loc[c].at, loc[c].size, loc[d].at, loc[d].size)
    BY <1>1 DEF HInv, LimboOK
  <2>4. FreeBlocks \cap DOMAIN used = {}
    BY <2>1, <2>2 DEF Away, FreeBlocks, Members, Apart, InHeap
  <2>5. \A c \in Limbo : loc[c].at \notin FreeBlocks \cup DOMAIN used
    BY <2>1, <2>2, <2>3 DEF Away, UsedApart, FreeBlocks, Members, Apart, InHeap
  <2>6. \A c, d \in Limbo : loc[c].at = loc[d].at => c = d
    BY <2>3 DEF Apart, InHeap
  <2>7. \A x \in Blocks : heapStart <= x[1] /\ x[1] < x[2] /\ x[2] <= heapEnd
    BY <1>1, BlockIs
  <2>8. \A x, y \in Blocks : x = y \/ x[2] <= y[1] \/ y[2] <= x[1]
    BY <1>1, BlocksApart
  <2> QED
    BY <2>4, <2>5, <2>6, <2>7, <2>8 DEF Disjoint
<1> QED
  BY <1>1, HInductive, PTL

\* No byte is lost: where a block ends the next one begins, from the start of
\* the heap to pxEnd.
THEOREM NeverGap == Spec => []NoGap
<1>1. ASSUME HInv PROVE NoGap
  <2>1. ASSUME NEW a \in heapStart .. heapEnd - 1
        PROVE  \E y \in Blocks : y[1] <= a /\ a < y[2]
    <3>1. Covers(next, size, a) \/ UsedCovers(a) \/ LimboCovers(a)
      BY <1>1 DEF HInv, CoverOK
    <3>2. CASE Covers(next, size, a)
      <4>1. PICK b \in FreeBlocks : b <= a /\ a < b + size[b]
        BY <3>2 DEF Covers, Ends, Members, FreeBlocks
      <4>2. <<b, b + size[b]>> \in Blocks
        BY DEF Blocks
      <4> QED
        BY <4>1, <4>2
    <3>3. CASE UsedCovers(a)
      <4>1. PICK b \in DOMAIN used : b <= a /\ a < b + used[b].size
        BY <3>3 DEF UsedCovers
      <4>2. <<b, b + used[b].size>> \in Blocks
        BY DEF Blocks
      <4> QED
        BY <4>1, <4>2
    <3>4. CASE LimboCovers(a)
      <4>1. PICK c \in Limbo : loc[c].at <= a /\ a < loc[c].at + loc[c].size
        BY <3>4 DEF LimboCovers
      <4>2. <<loc[c].at, loc[c].at + loc[c].size>> \in Blocks
        BY DEF Blocks
      <4> QED
        BY <4>1, <4>2
    <3> QED
      BY <3>1, <3>2, <3>3, <3>4
  <2>2. \E x \in Blocks : x[1] = heapStart
    <3>1. PICK y \in Blocks : y[1] <= heapStart /\ heapStart < y[2]
      BY <2>1, Bounds
    <3> QED
      BY <3>1, <1>1, BlockIs, Bounds
  <2>3. ASSUME NEW x \in Blocks, x[2] # heapEnd
        PROVE  \E y \in Blocks : y[1] = x[2]
    <3>1. /\ x[1] \in Int /\ x[2] \in Int /\ x[1] < x[2]
          /\ x[2] \in heapStart .. heapEnd - 1
      BY <1>1, <2>3, BlockIs, Bounds
    <3>2. PICK y \in Blocks : y[1] <= x[2] /\ x[2] < y[2]
      BY <3>1, <2>1
    <3>3. y[1] \in Int /\ y[2] \in Int
      BY <1>1, BlockIs
    <3>4. x = y \/ x[2] <= y[1] \/ y[2] <= x[1]
      BY <1>1, BlocksApart
    <3> QED
      BY <3>1, <3>2, <3>3, <3>4
  <2> QED
    BY <2>2, <2>3 DEF NoGap
<1> QED
  BY <1>1, HInductive, PTL

\* The list of free blocks is in order of address, complete and joined.
THEOREM FreeListAlwaysExact == Spec => []FreeListExact
<1>1. TypeOK /\ ListExact /\ Coalesced => FreeListExact
  BY DEF FreeListExact
<1> QED
  BY <1>1, TypeCorrect, ListAlwaysExact, AlwaysCoalesced, PTL

\* The blocks tile the heap at every moment, a block that vPortFree has marked
\* and not yet put into the list included.
THEOREM AlwaysTiled == Spec => []Tiled
<1>1. Disjoint /\ NoGap => Tiled
  BY DEF Tiled
<1> QED
  BY <1>1, AlwaysDisjoint, NeverGap, PTL

(* ------------------- what callers get: alignment, room ---------------- *)

Multiple(x, a) == \E k \in Int : x = k * a

LEMMA DivMod ==
  ASSUME NEW x \in Int, NEW a \in Nat \ {0}
  PROVE  x \div a \in Int /\ x % a \in 0 .. a - 1 /\ x = (x \div a) * a + (x % a)
OBVIOUS

\* A multiple of a is what % a leaves nothing of.
LEMMA MultipleMod ==
  ASSUME NEW x \in Int, NEW a \in Nat \ {0}
  PROVE  Multiple(x, a) <=> x % a = 0
<1> DEFINE q == x \div a
           r == x % a
<1>1. q \in Int /\ r \in 0 .. a - 1 /\ x = q * a + r
  BY DivMod
<1> HIDE DEF q, r
<1>2. ASSUME Multiple(x, a) PROVE r = 0
  <2>1. PICK k \in Int : x = k * a
    BY <1>2 DEF Multiple
  <2>2. (k - q) * a = r
    BY <2>1, <1>1
  <2>3. CASE k - q >= 1
    <3>1. (k - q) * a >= 1 * a
      BY <1>1, <2>3
    <3> QED
      BY <3>1, <2>2, <1>1
  <2>4. CASE q - k >= 1
    <3>1. (q - k) * a >= 1 * a /\ (q - k) * a = -((k - q) * a)
      BY <1>1, <2>4
    <3> QED
      BY <3>1, <2>2, <1>1
  <2>5. CASE k - q = 0
    BY <2>2, <2>5, <1>1
  <2> QED
    BY <1>1, <2>3, <2>4, <2>5
<1>3. ASSUME r = 0 PROVE Multiple(x, a)
  <2>1. x = q * a
    BY <1>1, <1>3
  <2> QED
    BY <2>1, <1>1 DEF Multiple
<1> QED
  BY <1>2, <1>3 DEF r

LEMMA MultipleAdd ==
  ASSUME NEW x \in Int, NEW y \in Int, NEW a \in Nat \ {0}, Multiple(x, a), Multiple(y, a)
  PROVE  Multiple(x + y, a) /\ Multiple(x - y, a)
<1>1. PICK k \in Int : x = k * a
  BY DEF Multiple
<1>2. PICK j \in Int : y = j * a
  BY DEF Multiple
<1>3. x + y = (k + j) * a /\ x - y = (k - j) * a
  BY <1>1, <1>2
<1>4. k + j \in Int /\ k - j \in Int
  OBVIOUS
<1> QED
  BY <1>3, <1>4 DEF Multiple

LEMMA MultipleOf ==
  ASSUME NEW x \in Int, NEW a \in Nat \ {0}, NEW b \in Nat \ {0}, Multiple(x, a), Multiple(a, b)
  PROVE  Multiple(x, b)
<1>1. PICK k \in Int : x = k * a
  BY DEF Multiple
<1>2. PICK j \in Int : a = j * b
  BY DEF Multiple
<1>3. x = (k * j) * b /\ k * j \in Int
  BY <1>1, <1>2
<1> QED
  BY <1>3 DEF Multiple

\* A positive multiple of a is at least a.
LEMMA MultipleLeast ==
  ASSUME NEW x \in Int, NEW a \in Nat \ {0}, Multiple(x, a), x > 0
  PROVE  x >= a
<1>1. PICK k \in Int : x = k * a
  BY DEF Multiple
<1>2. ASSUME k <= 0 PROVE FALSE
  <2>1. k * a <= 0
    BY <1>2
  <2> QED
    BY <2>1, <1>1
<1>3. k * a >= 1 * a
  BY <1>2
<1> QED
  BY <1>1, <1>3

LEMMA UpIs ==
  ASSUME NEW x \in Int, NEW a \in Nat \ {0}
  PROVE  Up(x, a) \in Int /\ Multiple(Up(x, a), a) /\ x <= Up(x, a) /\ Up(x, a) < x + a
<1> DEFINE q == (x + a - 1) \div a
           r == (x + a - 1) % a
<1>1. x + a - 1 \in Int
  OBVIOUS
<1>2. q \in Int /\ r \in 0 .. a - 1 /\ x + a - 1 = q * a + r
  BY <1>1, DivMod
<1>3. Up(x, a) = q * a
  BY DEF Up
<1> HIDE DEF q, r
<1>4. q * a \in Int
  BY <1>2
<1> QED
  BY <1>2, <1>3, <1>4 DEF Multiple

\* A sum in size_t that did not shrink has not wrapped, which is what the
\* checks of __internal_malloc test.
LEMMA NoWrap ==
  ASSUME NEW x \in Nat, NEW y \in Nat, NEW w \in Nat \ {0},
         \/ y <= w /\ (x + y) % w > x
         \/ y < w /\ (x + y) % w >= x
  PROVE  (x + y) % w = x + y
<1> DEFINE q == (x + y) \div w
           r == (x + y) % w
<1>1. x + y \in Int
  OBVIOUS
<1>2. q \in Int /\ r \in 0 .. w - 1 /\ x + y = q * w + r
  BY <1>1, DivMod
<1>3. (y <= w /\ r > x) \/ (y < w /\ r >= x)
  OBVIOUS
<1> HIDE DEF q, r
<1>4. CASE q >= 1
  <2>1. q * w >= 1 * w
    BY <1>2, <1>4
  <2> QED
    BY <2>1, <1>2, <1>3
<1>5. CASE q <= -1
  <2>1. q * w <= -1 * w
    BY <1>2, <1>5
  <2> QED
    BY <2>1, <1>2
<1>6. CASE q = 0
  BY <1>2, <1>6 DEF r
<1> QED
  BY <1>2, <1>4, <1>5, <1>6

\* What a request is rounded to: room for it and the header, aligned.
LEMMA WantedIs ==
  ASSUME NEW n \in Nat, Wanted(n) > 0
  PROVE  Wanted(n) \in Nat /\ Wanted(n) >= n + xHeapStructSize /\ Multiple(Wanted(n), Align)
<1> DEFINE w == (n + xHeapStructSize) % Word
           r == w % Align
           pad == IF r = 0 THEN 0 ELSE Align - r
           a == (w + pad) % Word
<1>1. /\ xHeapStructSize \in Nat /\ Align \in Nat \ {0} /\ Word \in Nat \ {0}
      /\ Align <= Word /\ xHeapStructSize <= Word
  BY HeapAssumption, AlignAssumption
<1>2. Wanted(n) = a /\ w > n /\ a >= w
  <2>1. w \in Int
    BY <1>1
  <2>2. r \in Int
    BY <2>1, <1>1
  <2>3. a \in Int
    BY <2>1, <2>2, <1>1
  <2>4. Wanted(n) = IF n >= xBlockAllocatedBit \/ n = 0 \/ w <= n \/ a < w THEN 0 ELSE a
    BY DEF Wanted
  <2> HIDE DEF w, r, a
  <2> QED
    BY <2>1, <2>3, <2>4
<1>3. w = n + xHeapStructSize
  BY <1>1, <1>2, NoWrap
<1>4. w \in Nat
  BY <1>1, <1>3
<1> HIDE DEF w
<1>5. r \in 0 .. Align - 1 /\ w = (w \div Align) * Align + r /\ w \div Align \in Int
  BY <1>1, <1>4, DivMod
<1>6. pad \in Nat /\ pad < Align /\ Multiple(w + pad, Align)
  <2> DEFINE k == w \div Align
  <2> HIDE DEF r, k
  <2>0. k \in Int /\ w = k * Align + r
    BY <1>5 DEF k
  <2>1. CASE r = 0
    <3>1. w + pad = k * Align
      BY <2>0, <2>1, <1>1, <1>4, <1>5
    <3> QED
      BY <3>1, <2>0, <2>1, <1>1 DEF Multiple
  <2>2. CASE r # 0
    <3>1. w + pad = (k + 1) * Align /\ k + 1 \in Int
      BY <2>0, <2>2, <1>1, <1>4, <1>5
    <3>2. pad \in Nat /\ pad < Align
      BY <2>2, <1>1, <1>5
    <3> QED
      BY <3>1, <3>2 DEF Multiple
  <2> QED
    BY <2>1, <2>2
<1> HIDE DEF pad
<1>7. a = w + pad
  <2>1. pad < Word /\ a >= w
    BY <1>1, <1>2, <1>6
  <2> QED
    BY <2>1, <1>1, <1>4, <1>6, NoWrap
<1> HIDE DEF a
<1> QED
  BY <1>1, <1>2, <1>3, <1>4, <1>6, <1>7

\* The pointer pvPortMallocAlign returns: aligned as asked for, with room for
\* the pointer in front of it, and not further than the alignment.
LEMMA AlignedIs ==
  ASSUME NEW p \in Int, NEW al \in Aligns, Multiple(p, Pointer)
  PROVE  LET a == Up(al, Pointer)
             q == AlignedPointer(p, a)
         IN q \in Int /\ q % al = 0 /\ q >= p + Pointer /\ q <= p + a
<1> DEFINE a == Up(al, Pointer)
           q == AlignedPointer(p, a)
<1>1. Pointer \in Nat \ {0} /\ al \in Nat \ {0} /\ (al % Pointer = 0 \/ Pointer % al = 0)
  BY HeapAssumption, AlignAssumption
<1>2. a \in Nat \ {0} /\ Multiple(a, Pointer) /\ al <= a /\ a < al + Pointer
  <2>1. a \in Int /\ Multiple(a, Pointer) /\ al <= a /\ a < al + Pointer
    BY <1>1, UpIs
  <2> HIDE DEF a
  <2> QED
    BY <2>1, <1>1
<1>3. Multiple(a, al)
  <2>1. CASE al % Pointer = 0
    <3>1. Multiple(al, Pointer)
      BY <1>1, <2>1, MultipleMod
    <3>2. Multiple(a - al, Pointer)
      BY <1>1, <1>2, <3>1, MultipleAdd
    <3>3. a = al
      <4> HIDE DEF a
      <4>1. a - al \in Int
        BY <1>1, <1>2
      <4> QED
        BY <4>1, <1>1, <1>2, <3>2, MultipleLeast
    <3>4. a = 1 * al
      BY <3>3, <1>1
    <3> QED
      BY <3>4 DEF Multiple
  <2>2. CASE Pointer % al = 0
    <3>1. Multiple(Pointer, al)
      BY <1>1, <2>2, MultipleMod
    <3> QED
      BY <1>1, <1>2, <3>1, MultipleOf
  <2> QED
    BY <1>1, <2>1, <2>2
<1> HIDE DEF a
<1>4. q \in Int /\ Multiple(q, a) /\ q > p /\ q <= p + a
  <2>1. CASE p % a = 0
    <3>1. q = p + a
      BY <2>1 DEF AlignedPointer
    <3>2. Multiple(p, a) /\ Multiple(a, a)
      <4>1. a = 1 * a
        BY <1>2
      <4>2. Multiple(a, a)
        BY <4>1 DEF Multiple
      <4> QED
        BY <4>2, <1>2, <2>1, MultipleMod
    <3>3. Multiple(p + a, a)
      BY <3>2, <1>2, MultipleAdd
    <3> HIDE DEF q
    <3> QED
      BY <3>1, <3>3, <1>2
  <2>2. CASE p % a # 0
    <3>1. q = Up(p, a)
      BY <2>2 DEF AlignedPointer
    <3>2. ~Multiple(p, a)
      BY <2>2, <1>2, MultipleMod
    <3>3. Up(p, a) \in Int /\ Multiple(Up(p, a), a) /\ p <= Up(p, a) /\ Up(p, a) < p + a
      BY <1>2, UpIs
    <3>4. p # Up(p, a)
      BY <3>2, <3>3
    <3> HIDE DEF q
    <3> QED
      BY <3>1, <3>3, <3>4, <1>2
  <2> QED
    BY <2>1, <2>2
<1> HIDE DEF q
<1>5. q % al = 0
  <2>1. Multiple(q, al)
    BY <1>1, <1>2, <1>3, <1>4, MultipleOf
  <2> QED
    BY <2>1, <1>1, <1>4, MultipleMod
<1>6. q >= p + Pointer
  <2>1. Multiple(q, Pointer)
    BY <1>1, <1>2, <1>4, MultipleOf
  <2>2. Multiple(q - p, Pointer)
    BY <2>1, <1>1, <1>4, MultipleAdd
  <2>3. q - p \in Int /\ q - p > 0
    BY <1>4
  <2>4. q - p >= Pointer
    BY <2>2, <2>3, <1>1, MultipleLeast
  <2> QED
    BY <2>4, <1>1, <1>4
<1> QED
  BY <1>4, <1>5, <1>6 DEF q, a

\* A block put back adds at most its own address to the list.
LEMMA InsertPlaces ==
  ASSUME NEW nxt, NEW sz, Ordered(nxt, sz), NEW b, NEW n, InHeap(b, n)
  PROVE  Members(prvInsertBlockIntoFreeList(nxt, sz, b, n).next) \subseteq Members(nxt) \cup {b}
<1>1. Before(nxt, b) \in DOMAIN nxt
  <2>1. b \in Int /\ heapStart <= b /\ b < heapEnd
    BY Bounds DEF InHeap
  <2> QED
    BY <2>1, BeforeIs
<1>2. Into(Before(nxt, b), sz, b) \in {Before(nxt, b), b}
  BY DEF Into
<1>3. DOMAIN prvInsertBlockIntoFreeList(nxt, sz, b, n).next
        \subseteq DOMAIN nxt \cup {Into(Before(nxt, b), sz, b)}
  BY DEF prvInsertBlockIntoFreeList
<1> QED
  BY <1>1, <1>2, <1>3 DEF Members

\* Every block starts at an aligned address: free, allocated or on its way
\* back.
AlignedOK ==
  /\ \A b \in Members(next) : Multiple(b, Align)
  /\ \A b \in DOMAIN used : Multiple(b, Align)
  /\ \A c \in Limbo : Multiple(loc[c].at, Align)

MInv == HInv /\ AlignedOK /\ CallerMemory

\* The sum pvPortMallocAlign passes to malloc does not wrap.
NoOverflow ==
  \A n \in Requests, a \in Aligns : Up(n, Pointer) + Up(a, Pointer) < Word

\* What an allocation of n bytes for a caller that gets len bytes at ptr does
\* to places and callers' memory.
LEMMA AllocateServes ==
  ASSUME MInv, NEW n \in Nat, NEW b \in FreeBlocks, NEW ptr \in Int, NEW len \in Nat, NEW al,
         Allocate(n, b, ptr, len, al),
         ptr % al = 0,
         ptr = b + xHeapStructSize \/ ptr - Pointer >= b + xHeapStructSize,
         ptr + len <= b + xHeapStructSize + n
  PROVE  /\ \A x \in Members(next') : Multiple(x, Align)
         /\ \A x \in DOMAIN used' : Multiple(x, Align)
         /\ CallerMemory'
<1> DEFINE want == Wanted(n)
           cut  == size[b] - want > heapMINIMUM_BLOCK_SIZE
           got  == IF cut THEN want ELSE size[b]
           out  == Unlinked(b)
           ins  == prvInsertBlockIntoFreeList(out.next, out.size, b + want, size[b] - want)
<1>1. /\ want > 0 /\ FirstFit(b, want)
      /\ next' = IF cut THEN ins.next ELSE out.next
      /\ used' = Put(used, b, [size |-> got, ptr |-> ptr, len |-> len, align |-> al])
  BY DEF Allocate
<1>2. /\ want \in Nat /\ want >= n + xHeapStructSize /\ Multiple(want, Align)
      /\ Align \in Nat \ {0} /\ xHeapStructSize \in Nat
  BY <1>1, WantedIs, HeapAssumption
<1>3. /\ b \in Members(next) /\ InHeap(b, size[b]) /\ size[b] >= want /\ b \in Int
      /\ size[b] \in Int /\ Multiple(b, Align)
  BY <1>1 DEF MInv, HInv, AlignedOK, FreeBlocks, Members, Ordered, FirstFit, InHeap
<1>4. Ordered(out.next, out.size) /\ Members(out.next) = Members(next) \ {b}
  BY <1>3, UnlinkIs DEF MInv, HInv
<1>5. \A x \in Members(next') : Multiple(x, Align)
  <2>1. \A x \in Members(next) : Multiple(x, Align)
    BY DEF MInv, AlignedOK
  <2>2. CASE ~cut
    BY <2>1, <2>2, <1>1, <1>4
  <2>3. CASE cut
    <3>1. Multiple(b + want, Align)
      BY <1>2, <1>3, MultipleAdd
    <3>2. InHeap(b + want, size[b] - want)
      <4>1. heapMINIMUM_BLOCK_SIZE \in Nat
        BY HeapAssumption DEF heapMINIMUM_BLOCK_SIZE
      <4>2. size[b] - want > 0
        <5> HIDE DEF want
        <5> QED
          BY <2>3, <4>1, <1>2, <1>3
      <4> HIDE DEF want
      <4> QED
        BY <4>2, <1>2, <1>3, Bounds DEF InHeap
    <3>3. Members(ins.next) \subseteq Members(out.next) \cup {b + want}
      BY <3>2, <1>4, InsertPlaces
    <3>4. next' = ins.next
      BY <1>1, <2>3
    <3> QED
      BY <2>1, <3>1, <3>3, <3>4, <1>4
  <2> QED
    BY <2>2, <2>3
<1>6. got >= want /\ got \in Int
  <2>1. got = want \/ got = size[b]
    OBVIOUS
  <2> HIDE DEF got, want
  <2> QED
    BY <2>1, <1>2, <1>3
<1> HIDE DEF want, got
<1>7. /\ DOMAIN used' = DOMAIN used \cup {b}
      /\ used'[b] = [size |-> got, ptr |-> ptr, len |-> len, align |-> al]
      /\ \A x \in DOMAIN used : x # b => used'[x] = used[x]
  BY <1>1 DEF Put
<1>8. \A x \in DOMAIN used' : Multiple(x, Align)
  BY <1>3, <1>7 DEF MInv, AlignedOK
<1>9. CallerMemory'
  <2> SUFFICES ASSUME NEW x \in DOMAIN used'
               PROVE  /\ used'[x].ptr % used'[x].align = 0
                      /\ \/ used'[x].ptr = x + xHeapStructSize
                         \/ used'[x].ptr - Pointer >= x + xHeapStructSize
                      /\ used'[x].ptr + used'[x].len <= x + used'[x].size
    BY DEF CallerMemory
  <2>1. CASE x = b
    <3>1. ptr + len <= b + got
      BY <1>2, <1>3, <1>6
    <3> QED
      BY <2>1, <3>1, <1>7
  <2>2. CASE x # b
    BY <2>2, <1>7 DEF MInv, CallerMemory
  <2> QED
    BY <2>1, <2>2
<1> QED
  BY <1>5, <1>8, <1>9

\* The pointer behind the header of a free block is aligned.
LEMMA BehindHeader ==
  ASSUME MInv, NEW b \in FreeBlocks
  PROVE  /\ b + xHeapStructSize \in Int
         /\ (b + xHeapStructSize) % Align = 0
         /\ Multiple(b + xHeapStructSize, Pointer)
<1>1. /\ Align \in Nat \ {0} /\ xHeapStructSize \in Nat /\ Pointer \in Nat \ {0}
      /\ xHeapStructSize % Align = 0 /\ Align % Pointer = 0
  BY HeapAssumption, AlignAssumption
<1>2. b \in Int /\ Multiple(b, Align)
  BY DEF MInv, HInv, AlignedOK, FreeBlocks, Members, Ordered, InHeap
<1>3. Multiple(xHeapStructSize, Align) /\ Multiple(Align, Pointer)
  BY <1>1, MultipleMod
<1>4. b + xHeapStructSize \in Int /\ Multiple(b + xHeapStructSize, Align)
  BY <1>1, <1>2, <1>3, MultipleAdd
<1> QED
  BY <1>1, <1>3, <1>4, MultipleMod, MultipleOf

\* A block that is marked free keeps its address.
LEMMA FreeingServes ==
  ASSUME MInv, NEW c \in Callers, NEW b \in DOMAIN used, Freeing(c, b), UNCHANGED next
  PROVE  AlignedOK' /\ CallerMemory'
<1>1. /\ DOMAIN used' = DOMAIN used \ {b} /\ \A x \in DOMAIN used' : used'[x] = used[x]
  BY DEF Freeing, Drop
<1>2. /\ \A d \in Limbo' : d \in Callers
      /\ loc'[c].at = b /\ \A d \in Callers : d # c => loc'[d] = loc[d]
  BY DEF Freeing, Limbo, MInv, HInv, LocOK
<1>3. \A d \in Limbo' : d # c => d \in Limbo /\ loc'[d].at = loc[d].at
  BY <1>2 DEF Limbo
<1>4. AlignedOK'
  BY <1>1, <1>2, <1>3 DEF MInv, AlignedOK
<1>5. CallerMemory'
  BY <1>1 DEF MInv, CallerMemory
<1> QED
  BY <1>4, <1>5

LEMMA MInit == Init => MInv
<1> SUFFICES ASSUME Init PROVE AlignedOK /\ CallerMemory
  BY HInit DEF MInv
<1>1. Members(next) = {heapStart} /\ DOMAIN used = {} /\ Limbo = {}
  BY Bounds DEF Init, Members, Limbo
<1>2. Multiple(heapStart, Align)
  BY UpIs, HeapAssumption, AlignAssumption DEF heapStart
<1> QED
  BY <1>1, <1>2 DEF AlignedOK, CallerMemory

LEMMA MNext ==
  ASSUME NoOverflow
  PROVE  MInv /\ [Next]_vars => MInv'
<1> SUFFICES ASSUME MInv, [Next]_vars PROVE AlignedOK' /\ CallerMemory'
  BY HNext DEF MInv
<1>1. /\ xHeapStructSize \in Nat /\ Pointer \in Nat \ {0} /\ Word \in Nat \ {0}
      /\ Requests \subseteq Nat /\ Aligns \subseteq Nat \ {0}
  BY HeapAssumption
\* Malloc and the first step of realloc leave who is freeing alone.
<1>2. ASSUME NEW n \in Requests, NEW b \in FreeBlocks,
             Allocate(n, b, b + xHeapStructSize, n, Align),
             Limbo' = Limbo, \A d \in Limbo : loc'[d] = loc[d]
      PROVE  AlignedOK' /\ CallerMemory'
  <2>1. b + xHeapStructSize \in Int /\ (b + xHeapStructSize) % Align = 0 /\ n \in Nat
    BY BehindHeader, <1>1
  <2>2. /\ \A x \in Members(next') : Multiple(x, Align)
        /\ \A x \in DOMAIN used' : Multiple(x, Align)
        /\ CallerMemory'
    BY <2>1, <1>2, AllocateServes
  <2> QED
    BY <2>2, <1>2 DEF MInv, AlignedOK
<1>3. ASSUME NEW c \in Callers, NEW n \in Requests, Malloc(c, n)
      PROVE  AlignedOK' /\ CallerMemory'
  <2>1. PICK b \in FreeBlocks : Allocate(n, b, b + xHeapStructSize, n, Align)
    BY <1>3 DEF Malloc
  <2>2. Limbo' = Limbo /\ \A d \in Limbo : loc'[d] = loc[d]
    BY <1>3 DEF Malloc, Limbo
  <2> QED
    BY <2>1, <2>2, <1>2
<1>4. ASSUME NEW c \in Callers, NEW n \in Requests, NEW al \in Aligns, MallocAlign(c, n, al)
      PROVE  AlignedOK' /\ CallerMemory'
  <2> DEFINE a == Up(al, Pointer)
             m == Up(n, Pointer)
  <2>1. a \in Int /\ al <= a /\ m \in Int /\ n <= m /\ n \in Nat /\ al \in Nat
    <3>1. n \in Int /\ n \in Nat /\ al \in Int /\ al \in Nat
      BY <1>1
    <3> QED
      BY <3>1, <1>1, UpIs
  <2>2. m + a < Word
    BY DEF NoOverflow
  <2>3. (m + a) % Word = m + a /\ m + a \in Nat
    <3> HIDE DEF m, a
    <3> QED
      BY <2>1, <2>2, <1>1
  <2>4. PICK b \in FreeBlocks :
          Allocate((m + a) % Word, b, AlignedPointer(b + xHeapStructSize, a), n, al)
    BY <1>4 DEF MallocAlign
  <2> DEFINE h == b + xHeapStructSize
             q == AlignedPointer(h, a)
  <2>5. h \in Int /\ Multiple(h, Pointer)
    BY BehindHeader
  <2>6. q \in Int /\ q % al = 0 /\ q >= h + Pointer /\ q <= h + a
    BY <2>5, AlignedIs
  <2>7. Allocate(m + a, b, q, n, al)
    BY <2>3, <2>4
  <2>8. q - Pointer >= h /\ q + n <= h + (m + a)
    <3> HIDE DEF q, h, a, m
    <3> QED
      BY <2>1, <2>5, <2>6, <1>1
  <2>9. /\ \A x \in Members(next') : Multiple(x, Align)
        /\ \A x \in DOMAIN used' : Multiple(x, Align)
        /\ CallerMemory'
    <3> HIDE DEF q, a, m
    <3> QED
      BY <2>1, <2>3, <2>6, <2>7, <2>8, AllocateServes
  <2>10. Limbo' = Limbo /\ \A d \in Limbo : loc'[d] = loc[d]
    BY <1>4 DEF MallocAlign, Limbo
  <2> QED
    BY <2>9, <2>10 DEF MInv, AlignedOK
<1>5. ASSUME NEW c \in Callers, NEW b \in DOMAIN used, Free(c, b)
      PROVE  AlignedOK' /\ CallerMemory'
  BY <1>5, FreeingServes DEF Free
<1>6. ASSUME NEW c \in Callers, NEW b \in DOMAIN used, NEW n \in Requests, Realloc(c, b, n)
      PROVE  AlignedOK' /\ CallerMemory'
  <2>1. PICK d \in FreeBlocks :
          /\ Allocate(n, d, d + xHeapStructSize, n, Align)
          /\ loc' = [loc EXCEPT ![c] = [pc |-> "copy", at |-> b, to |-> d]]
    BY <1>6 DEF Realloc
  <2>2. loc[c].pc = "idle" /\ loc'[c].pc = "copy" /\ \A e \in Callers : e # c => loc'[e] = loc[e]
    BY <2>1, <1>6 DEF MInv, HInv, LocOK, Realloc, Idle
  <2>3. Limbo' = Limbo /\ \A e \in Limbo : loc'[e] = loc[e]
    BY <2>2 DEF Limbo
  <2> QED
    BY <2>1, <2>3, <1>2
<1>7. ASSUME NEW c \in Callers, FreeInsert(c) PROVE AlignedOK' /\ CallerMemory'
  <2>1. /\ c \in Limbo /\ UNCHANGED used
        /\ next' = prvInsertBlockIntoFreeList(next, size, loc[c].at, loc[c].size).next
        /\ loc' = [loc EXCEPT ![c] = [pc |-> "idle"]]
    BY <1>7 DEF FreeInsert, Limbo
  <2>2. InHeap(loc[c].at, loc[c].size) /\ Ordered(next, size) /\ Multiple(loc[c].at, Align)
    BY <2>1 DEF MInv, HInv, LimboOK, AlignedOK
  <2>3. Members(next') \subseteq Members(next) \cup {loc[c].at}
    BY <2>1, <2>2, InsertPlaces
  <2>4. \A d \in Limbo' : d \in Limbo /\ loc'[d] = loc[d]
    BY <2>1 DEF Limbo, MInv, HInv, LocOK
  <2>5. AlignedOK'
    BY <2>1, <2>2, <2>3, <2>4 DEF MInv, AlignedOK
  <2>6. CallerMemory'
    BY <2>1 DEF MInv, CallerMemory
  <2> QED
    BY <2>5, <2>6
<1>8. ASSUME NEW c \in Callers, ReallocFree(c) PROVE AlignedOK' /\ CallerMemory'
  <2>1. loc[c].at \in DOMAIN used
    BY <1>8 DEF ReallocFree, MInv, HInv, CopyOK, Copying
  <2> QED
    BY <2>1, <1>8, FreeingServes DEF ReallocFree
<1>9. CASE UNCHANGED vars
  BY <1>9 DEF vars, MInv, AlignedOK, CallerMemory, Limbo
<1> QED
  BY <1>3, <1>4, <1>5, <1>6, <1>7, <1>8, <1>9 DEF Next

\* What a caller gets lies in its own block behind the header and is aligned,
\* whoever else allocates, frees and reallocates (__internal_malloc,
\* pvPortMallocAlign), as long as the sum pvPortMallocAlign computes without
\* a check fits size_t.
THEOREM CallersOwnTheirMemory == NoOverflow => (Spec => []CallerMemory)
<1> SUFFICES ASSUME NoOverflow PROVE Spec => []CallerMemory
  OBVIOUS
<1>1. MInv /\ [Next]_vars => MInv'
  BY MNext
<1>2. MInv => CallerMemory
  BY DEF MInv
<1> QED
  BY <1>1, <1>2, MInit, PTL DEF Spec

(* ----------------- xFreeBytesRemaining, as the list is walked ---------- *)

\* acc is what a walk along the list has added up when it comes to an address:
\* nothing at xStart, and all of it at pxEnd.
Adds(nxt, sz, total, acc) ==
  /\ acc \in [Int -> Int] /\ acc[xStart] = 0 /\ acc[heapEnd] = total
  /\ \A b \in DOMAIN nxt : acc[nxt[b]] = acc[b] + sz[b]
Counted(nxt, sz, total) == \E acc : Adds(nxt, sz, total, acc)

\* The count without the fold: a walk along the list adds up to it.
FreeBytesWalked == Counted(next, size, freeBytes)

\* The place of a block that is put back: between two neighbours in the list,
\* with every other pair of neighbours on one side of it.
LEMMA Neighbours ==
  ASSUME NEW nxt, NEW sz, Ordered(nxt, sz),
         NEW b, NEW n, InHeap(b, n), Away(nxt, sz, b, n)
  PROVE  LET it == Before(nxt, b)
         IN /\ it \in DOMAIN nxt /\ it \in Int /\ it < b
            /\ nxt[it] \in Int /\ b < nxt[it] /\ nxt[it] \in Members(nxt) \cup {heapEnd}
            /\ \A x \in DOMAIN nxt : x # it => x # b /\ (nxt[x] <= it \/ nxt[it] <= x)
<1> DEFINE it == Before(nxt, b)
           succ == nxt[it]
<1>1. b \in Int /\ n \in Nat /\ n > 0 /\ heapStart <= b /\ b + n <= heapEnd /\ b < heapEnd
  BY Bounds DEF InHeap
<1>2. it \in DOMAIN nxt /\ it < b /\ succ >= b
  BY <1>1, BeforeIs
<1>3. \A x \in DOMAIN nxt : x \in Int /\ nxt[x] \in Int /\ sz[x] \in Nat
  BY Bounds DEF Ordered, Members, InHeap
<1>4. \A x \in Members(nxt) : x # b
  <2> SUFFICES ASSUME NEW x \in Members(nxt), x = b PROVE FALSE
    OBVIOUS
  <2>1. Apart(x, sz[x], b, n) /\ InHeap(x, sz[x])
    BY DEF Away, Ordered
  <2> QED
    BY <2>1, <1>1 DEF Apart, InHeap
<1>5. succ \in Members(nxt) \cup {heapEnd}
  BY <1>2 DEF Ordered
<1>6. succ # b /\ succ \in Int /\ it \in Int
  BY <1>1, <1>2, <1>3, <1>4, <1>5
<1>7. ASSUME NEW x \in DOMAIN nxt, x # it PROVE x # b /\ (nxt[x] <= it \/ succ <= x)
  <2>1. x \in Int /\ nxt[x] \in Int /\ (x = xStart \/ x \in Members(nxt))
    BY <1>3 DEF Members
  <2>2. x # b
    BY <2>1, <1>1, <1>4, Bounds
  <2>3. CASE x < it
    <3>1. it \in Members(nxt)
      BY <2>1, <2>3, <1>2, <1>6, Bounds DEF Members, Ordered, InHeap
    <3>2. ~(x < it /\ it < nxt[x])
      BY <3>1 DEF Ordered
    <3> HIDE DEF it, succ
    <3> QED
      BY <2>1, <2>2, <2>3, <3>2, <1>6
  <2>4. CASE it < x
    <3>1. x \in Members(nxt)
      BY <2>1, <2>4, <1>2, <1>6, Bounds DEF Members, Ordered, InHeap
    <3>2. ~(it < x /\ x < succ)
      BY <3>1, <1>2 DEF Ordered
    <3> HIDE DEF it, succ
    <3> QED
      BY <2>1, <2>2, <2>4, <3>2, <1>6
  <2> HIDE DEF it, succ
  <2> QED
    BY <2>1, <2>3, <2>4, <1>6, <1>7
<1> HIDE DEF it, succ
<1>8. b < succ
  BY <1>1, <1>2, <1>6
<1> QED
  BY <1>2, <1>5, <1>6, <1>7, <1>8 DEF it, succ

\* A block put back, joined with its neighbours or not, adds its bytes.
LEMMA CountInserted ==
  ASSUME NEW nxt, NEW sz, Ordered(nxt, sz),
         NEW b, NEW n, InHeap(b, n), Away(nxt, sz, b, n),
         NEW t \in Int, Counted(nxt, sz, t)
  PROVE  LET r == prvInsertBlockIntoFreeList(nxt, sz, b, n)
         IN Counted(r.next, r.size, t + n)
<1> DEFINE it   == Before(nxt, b)
           at   == Into(it, sz, b)
           len  == IF at = b THEN n ELSE sz[it] + n
           succ == nxt[it]
           join == at + len = succ /\ succ # heapEnd
           dom  == (DOMAIN nxt \ (IF join THEN {succ} ELSE {})) \cup {at}
           nn   == IF join THEN nxt[succ] ELSE succ
           zz   == IF join THEN len + sz[succ] ELSE len
           N    == [x \in dom |-> IF x = at THEN nn ELSE IF x = it THEN at ELSE nxt[x]]
           Z    == [x \in dom |-> IF x = at THEN zz ELSE sz[x]]
<1>1. /\ prvInsertBlockIntoFreeList(nxt, sz, b, n).next = N
      /\ prvInsertBlockIntoFreeList(nxt, sz, b, n).size = Z
  BY DEF prvInsertBlockIntoFreeList, Past, With
<1>2. PICK acc : Adds(nxt, sz, t, acc)
  BY DEF Counted
<1>3. /\ it \in DOMAIN nxt /\ it \in Int /\ it < b
      /\ succ \in Int /\ b < succ /\ succ \in Members(nxt) \cup {heapEnd}
      /\ \A x \in DOMAIN nxt : x # it => x # b /\ (nxt[x] <= it \/ succ <= x)
  BY Neighbours
<1>4. \A x \in DOMAIN nxt : x \in Int /\ nxt[x] \in Int /\ sz[x] \in Nat /\ x < nxt[x]
  BY Bounds DEF Ordered, Members, InHeap
<1>5. b \in Int /\ n \in Nat /\ b < heapEnd /\ xStart < b
  BY Bounds DEF InHeap
<1>6. \/ at = b /\ len = n
      \/ at = it /\ at # b /\ len = sz[it] + n
  BY <1>3, <1>4, <1>5 DEF Into
<1>7. join => succ \in DOMAIN nxt
  BY <1>3 DEF Members
<1> HIDE DEF it, at, len, succ
<1> DEFINE new == [x \in Int |-> IF x = b THEN acc[succ] ELSE IF x > b THEN acc[x] + n ELSE acc[x]]
<1>8. acc \in [Int -> Int] /\ acc[xStart] = 0 /\ acc[heapEnd] = t
  BY <1>2 DEF Adds
<1>9. \A x \in DOMAIN nxt : acc[nxt[x]] = acc[x] + sz[x]
  BY <1>2 DEF Adds
<1>10. acc[succ] = acc[it] + sz[it]
  BY <1>3, <1>9 DEF succ
<1>11. \A x \in Int : acc[x] \in Int
  BY <1>8
<1>12. new \in [Int -> Int]
  BY <1>3, <1>5, <1>11
<1>13. new[xStart] = 0 /\ new[heapEnd] = t + n
  BY <1>5, <1>8, Bounds
<1>14. /\ new[b] = acc[succ] /\ new[succ] = acc[succ] + n /\ new[it] = acc[it]
       /\ \A x \in Int : (x > b => new[x] = acc[x] + n) /\ (x < b => new[x] = acc[x])
  BY <1>3, <1>5
<1> HIDE DEF new
\* The walk over the block itself, over the step to it, and over the rest.
<1>15. new[nn] = new[at] + zz
  <2>1. CASE join
    <3>1. /\ nn = nxt[succ] /\ zz = len + sz[succ] /\ succ < nn /\ nn \in Int
          /\ acc[nn] = acc[succ] + sz[succ] /\ sz[succ] \in Nat
      BY <2>1, <1>4, <1>7, <1>9
    <3>2. new[nn] = acc[succ] + sz[succ] + n
      <4> HIDE DEF nn
      <4>1. nn > b
        BY <3>1, <1>3, <1>5
      <4> QED
        BY <3>1, <4>1, <1>14
    <3> HIDE DEF nn, zz
    <3> QED
      BY <3>1, <3>2, <1>3, <1>4, <1>5, <1>6, <1>10, <1>11, <1>14
  <2>2. CASE ~join
    <3>1. nn = succ /\ zz = len
      BY <2>2
    <3> HIDE DEF nn, zz
    <3> QED
      BY <3>1, <1>3, <1>4, <1>5, <1>6, <1>10, <1>11, <1>14
  <2> QED
    BY <2>1, <2>2
<1>16. at # it => new[at] = new[it] + sz[it]
  BY <1>6, <1>10, <1>14
<1>17. ASSUME NEW x \in DOMAIN nxt, x # it, ~join \/ x # succ
       PROVE  new[nxt[x]] = new[x] + sz[x]
  <2>1. x \in Int /\ nxt[x] \in Int /\ sz[x] \in Nat /\ x < nxt[x] /\ acc[nxt[x]] = acc[x] + sz[x]
    BY <1>4, <1>9
  <2>2. nxt[x] <= it \/ succ <= x
    BY <1>3, <1>17
  <2>3. CASE nxt[x] <= it
    <3>1. nxt[x] < b /\ x < b
      BY <2>1, <2>3, <1>3, <1>5
    <3> QED
      BY <2>1, <3>1, <1>14
  <2>4. CASE succ <= x
    <3>1. nxt[x] > b /\ x > b
      BY <2>1, <2>4, <1>3, <1>5
    <3> QED
      BY <2>1, <3>1, <1>11, <1>14, <1>5
  <2> QED
    BY <2>2, <2>3, <2>4
<1>18. ASSUME NEW x \in DOMAIN N PROVE new[N[x]] = new[x] + Z[x]
  <2> HIDE DEF join, nn, zz
  <2>1. x \in dom
    OBVIOUS
  <2>2. CASE x = at
    BY <2>1, <2>2, <1>15
  <2>3. CASE x # at /\ x = it
    BY <2>1, <2>3, <1>16
  <2>4. CASE x # at /\ x # it
    <3>1. x \in DOMAIN nxt /\ (~join \/ x # succ) /\ N[x] = nxt[x] /\ Z[x] = sz[x]
      BY <2>1, <2>4
    <3> QED
      BY <3>1, <2>4, <1>17
  <2> QED
    BY <2>2, <2>3, <2>4
<1>19. Adds(N, Z, t + n, new)
  <2> HIDE DEF N, Z
  <2> QED
    BY <1>12, <1>13, <1>18 DEF Adds
<1> QED
  BY <1>1, <1>19 DEF Counted

\* A block taken out takes its bytes with it.
LEMMA CountUnlinked ==
  ASSUME Ordered(next, size), NEW b \in Members(next), NEW t \in Int, Counted(next, size, t)
  PROVE  Counted(Unlinked(b).next, Unlinked(b).size, t - size[b])
<1> DEFINE dom == DOMAIN next \ {b}
           N == [x \in dom |-> IF next[x] = b THEN next[b] ELSE next[x]]
           Z == [x \in dom |-> size[x]]
<1>1. Unlinked(b).next = N /\ Unlinked(b).size = Z
  BY DEF Unlinked
<1>2. PICK acc : Adds(next, size, t, acc)
  BY DEF Counted
<1>3. \A x \in DOMAIN next : x \in Int /\ next[x] \in Int /\ size[x] \in Nat /\ x < next[x]
  BY Bounds DEF Ordered, Members, InHeap
<1>4. b \in DOMAIN next /\ b # xStart /\ xStart < b /\ b < heapEnd
  BY Bounds DEF Ordered, Members, InHeap
<1>5. acc \in [Int -> Int] /\ acc[xStart] = 0 /\ acc[heapEnd] = t
  BY <1>2 DEF Adds
<1>6. \A x \in DOMAIN next : acc[next[x]] = acc[x] + size[x]
  BY <1>2 DEF Adds
<1>7. \A x \in Int : acc[x] \in Int
  BY <1>5
<1> DEFINE new == [x \in Int |-> IF x > b THEN acc[x] - size[b] ELSE acc[x]]
<1>8. new \in [Int -> Int]
  BY <1>3, <1>4, <1>7
<1>9. new[xStart] = 0 /\ new[heapEnd] = t - size[b]
  BY <1>3, <1>4, <1>5, Bounds
<1>10. \A x \in Int : (x > b => new[x] = acc[x] - size[b]) /\ (x <= b => new[x] = acc[x])
  BY <1>3, <1>4
<1> HIDE DEF new
<1>11. ASSUME NEW x \in DOMAIN N PROVE new[N[x]] = new[x] + Z[x]
  <2>1. x \in DOMAIN next /\ x # b /\ Z[x] = size[x] /\ N[x] = IF next[x] = b THEN next[b] ELSE next[x]
    OBVIOUS
  <2> HIDE DEF N, Z
  <2>2. /\ x \in Int /\ next[x] \in Int /\ size[x] \in Int /\ x < next[x] /\ acc[next[x]] = acc[x] + size[x]
        /\ b \in Int /\ next[b] \in Int /\ size[b] \in Int /\ b < next[b] /\ acc[next[b]] = acc[b] + size[b]
    BY <2>1, <1>3, <1>4, <1>6
  <2>3. acc[x] \in Int /\ acc[b] \in Int
    BY <2>2, <1>7
  <2>4. CASE next[x] = b
    <3>1. new[next[b]] = acc[b] /\ new[x] = acc[x]
      BY <2>2, <2>3, <2>4, <1>10
    <3> QED
      BY <3>1, <2>1, <2>2, <2>4
  <2>5. CASE next[x] # b /\ next[x] > b
    <3>1. x > b
      <4>1. ~(x < b /\ b < next[x])
        BY <2>1 DEF Ordered
      <4> QED
        BY <4>1, <2>1, <2>2, <2>5
    <3> QED
      BY <3>1, <2>1, <2>2, <2>3, <2>5, <1>10
  <2>6. CASE next[x] < b
    BY <2>1, <2>2, <2>6, <1>10
  <2> QED
    BY <2>2, <2>4, <2>5, <2>6
<1>12. Adds(N, Z, t - size[b], new)
  <2> HIDE DEF N, Z
  <2> QED
    BY <1>8, <1>9, <1>11 DEF Adds
<1> QED
  BY <1>1, <1>12 DEF Counted

\* malloc charges what it takes from the list, cut or not.
LEMMA CountAllocated ==
  ASSUME HInv, FreeBytesWalked, NEW n \in Int, NEW b \in FreeBlocks, NEW ptr, NEW len, NEW al,
         Allocate(n, b, ptr, len, al)
  PROVE  FreeBytesWalked'
<1> DEFINE want == Wanted(n)
           cut  == size[b] - want > heapMINIMUM_BLOCK_SIZE
           got  == IF cut THEN want ELSE size[b]
           out  == Unlinked(b)
           ins  == prvInsertBlockIntoFreeList(out.next, out.size, b + want, size[b] - want)
<1>1. /\ want > 0 /\ FirstFit(b, want)
      /\ next' = (IF cut THEN ins ELSE out).next /\ size' = (IF cut THEN ins ELSE out).size
      /\ freeBytes' = freeBytes - got
  BY DEF Allocate, Charged
<1>2. /\ b \in Members(next) /\ InHeap(b, size[b]) /\ want \in Nat /\ size[b] >= want
      /\ Ordered(next, size) /\ freeBytes \in Int /\ b \in Int /\ size[b] \in Nat
  BY <1>1, WantedNat DEF HInv, FreeBlocks, Members, Ordered, FirstFit, InHeap
<1>3. Counted(out.next, out.size, freeBytes - size[b])
  BY <1>2, CountUnlinked DEF FreeBytesWalked
<1>4. CASE ~cut
  <2>1. next' = out.next /\ size' = out.size /\ freeBytes' = freeBytes - size[b]
    BY <1>1, <1>4
  <2> QED
    BY <2>1, <1>3 DEF FreeBytesWalked
<1>5. CASE cut
  <2>1. next' = ins.next /\ size' = ins.size /\ freeBytes' = freeBytes - want
    BY <1>1, <1>5
  <2>2. Ordered(out.next, out.size) /\ Away(out.next, out.size, b, size[b])
    BY <1>2, UnlinkIs
  <2>3. size[b] - want > 0
    <3>1. heapMINIMUM_BLOCK_SIZE \in Nat
      BY HeapAssumption DEF heapMINIMUM_BLOCK_SIZE
    <3> HIDE DEF want
    <3> QED
      BY <3>1, <1>2, <1>5
  <2>4. InHeap(b + want, size[b] - want)
    <3> HIDE DEF want
    <3> QED
      BY <2>3, <1>2, Bounds DEF InHeap
  <2>5. Away(out.next, out.size, b + want, size[b] - want)
    <3> SUFFICES ASSUME NEW f \in Members(out.next)
                 PROVE  Apart(f, out.size[f], b + want, size[b] - want)
      BY DEF Away
    <3>1. Apart(f, out.size[f], b, size[b]) /\ InHeap(f, out.size[f])
      BY <2>2 DEF Away, Ordered
    <3> HIDE DEF want, out
    <3> QED
      BY <3>1, <1>2 DEF Apart, InHeap
  <2>6. freeBytes - size[b] \in Int
    BY <1>2
  <2>7. Counted(ins.next, ins.size, (freeBytes - size[b]) + (size[b] - want))
    BY <2>2, <2>4, <2>5, <2>6, <1>3, CountInserted
  <2>8. (freeBytes - size[b]) + (size[b] - want) = freeBytes - want
    <3> HIDE DEF want
    <3> QED
      BY <1>2
  <2> QED
    BY <2>1, <2>7, <2>8 DEF FreeBytesWalked
<1> QED
  BY <1>4, <1>5

\* xFreeBytesRemaining, which lets malloc give up before it searches, is what
\* a walk along the list adds up to, however callers interleave
\* (__internal_malloc charges, vPortFree credits).
THEOREM CountAlwaysWalked == Spec => []FreeBytesWalked
<1>1. Init => FreeBytesWalked
  <2> SUFFICES ASSUME Init PROVE FreeBytesWalked
    OBVIOUS
  <2> DEFINE acc == [x \in Int |-> IF x = heapEnd THEN heapEnd - heapStart ELSE 0]
  <2>1. acc \in [Int -> Int] /\ acc[xStart] = 0 /\ acc[heapStart] = 0
        /\ acc[heapEnd] = heapEnd - heapStart
    BY Bounds
  <2> HIDE DEF acc
  <2>2. /\ DOMAIN next = {xStart, heapStart} /\ next[xStart] = heapStart /\ next[heapStart] = heapEnd
        /\ size[xStart] = 0 /\ size[heapStart] = heapEnd - heapStart
        /\ freeBytes = heapEnd - heapStart
    BY Bounds DEF Init
  <2>3. \A b \in DOMAIN next : acc[next[b]] = acc[b] + size[b]
    BY <2>1, <2>2, Bounds
  <2> QED
    BY <2>1, <2>2, <2>3 DEF FreeBytesWalked, Counted, Adds
<1>2. HInv /\ FreeBytesWalked /\ [Next]_vars => FreeBytesWalked'
  <2> SUFFICES ASSUME HInv, FreeBytesWalked, [Next]_vars PROVE FreeBytesWalked'
    OBVIOUS
  <2>1. \A n \in Requests : n \in Int
    BY HeapAssumption
  <2>2. ASSUME NEW c \in Callers, NEW n \in Requests, Malloc(c, n) PROVE FreeBytesWalked'
    BY <2>1, <2>2, CountAllocated DEF Malloc
  <2>3. ASSUME NEW c \in Callers, NEW n \in Requests, NEW a \in Aligns, MallocAlign(c, n, a)
        PROVE  FreeBytesWalked'
    <3>1. Up(n, Pointer) \in Int /\ Up(a, Pointer) \in Int
      BY HeapAssumption DEF Up
    <3>2. (Up(n, Pointer) + Up(a, Pointer)) % Word \in Int
      BY <3>1, HeapAssumption
    <3> QED
      BY <2>3, <3>2, CountAllocated DEF MallocAlign
  <2>4. ASSUME NEW c \in Callers, NEW b \in DOMAIN used, NEW n \in Requests, Realloc(c, b, n)
        PROVE  FreeBytesWalked'
    BY <2>1, <2>4, CountAllocated DEF Realloc
  <2>5. ASSUME NEW c \in Callers, FreeInsert(c) PROVE FreeBytesWalked'
    <3>1. /\ InHeap(loc[c].at, loc[c].size) /\ Away(next, size, loc[c].at, loc[c].size)
          /\ Ordered(next, size) /\ freeBytes \in Int
      BY <2>5 DEF HInv, LimboOK, Limbo, FreeInsert
    <3> DEFINE r == prvInsertBlockIntoFreeList(next, size, loc[c].at, loc[c].size)
    <3>2. Counted(r.next, r.size, freeBytes + loc[c].size)
      BY <3>1, CountInserted DEF FreeBytesWalked
    <3> QED
      BY <3>2, <2>5 DEF FreeBytesWalked, FreeInsert
  <2>6. CASE UNCHANGED <<next, size, freeBytes>>
    BY <2>6 DEF FreeBytesWalked
  <2>7. ASSUME NEW c \in Callers, ReallocFree(c) \/ \E b \in DOMAIN used : Free(c, b)
        PROVE  UNCHANGED <<next, size, freeBytes>>
    BY <2>7 DEF ReallocFree, Free
  <2>8. CASE UNCHANGED vars
    BY <2>6, <2>8 DEF vars
  <2> QED
    BY <2>2, <2>3, <2>4, <2>5, <2>6, <2>7, <2>8 DEF Next
<1> QED
  BY <1>1, <1>2, HInductive, PTL DEF Spec
=============================================================================
