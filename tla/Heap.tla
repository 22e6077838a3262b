-------------------------------- MODULE Heap --------------------------------
(***************************************************************************)
(* The heap of heap_4.c as this firmware changed it: first fit over a list *)
(* of free blocks linked by address, neighbours joined when a block is     *)
(* freed, aligned blocks and realloc on top, interrupts masked where       *)
(* FreeRTOS suspends the scheduler.                                        *)
(*                                                                         *)
(* Addresses and sizes are bytes.  A block is named by the address of its  *)
(* header.  Only the headers that are alive are kept: next and size hold   *)
(* those of the free blocks and of xStart, used those with                 *)
(* xBlockAllocatedBit set, with what the caller asked for as a ghost.      *)
(* pxEnd is the address heapEnd.                                           *)
(***************************************************************************)
EXTENDS Integers, FiniteSets, FiniteSetsExt

CONSTANTS
  Callers,          \* the tasks and interrupt handlers that call the heap
  ucHeap,           \* the address of the array
  xTotalHeapSize,   \* configTOTAL_HEAP_SIZE
  Align,            \* portBYTE_ALIGNMENT
  xHeapStructSize,  \* sizeof( BlockLink_t ), aligned
  Pointer,          \* sizeof( void * )
  Word,             \* a size_t wraps to 0 after Word - 1
  Requests,         \* the sizes callers ask for
  Aligns            \* the alignments callers ask for: powers of two

VARIABLES
  next,       \* pxNextFreeBlock of xStart and of every free block
  size,       \* xBlockSize of the same
  used,       \* the allocated blocks: size; the pointer, length and alignment for the caller
  freeBytes,  \* xFreeBytesRemaining
  loc         \* per caller: where it is in a call, and the block it works on

vars == <<next, size, used, freeBytes, loc>>

Up(n, a) == ((n + a - 1) \div a) * a

\* prvHeapInit: the array from its first aligned address to the end marker.
heapStart == Up(ucHeap, Align)
heapEnd == ((ucHeap + xTotalHeapSize - xHeapStructSize) \div Align) * Align
xStart == -1

ASSUME HeapAssumption ==
  /\ Align \in Nat \ {0} /\ xHeapStructSize \in Nat \ {0} /\ Pointer \in Nat \ {0}
  /\ Word \in Nat \ {0} /\ Requests \subseteq Nat /\ Aligns \subseteq Nat \ {0}
  /\ heapStart \in Nat /\ heapEnd \in Nat /\ heapStart < heapEnd

\* What the port fixes: the header is aligned, an aligned address can hold a
\* pointer, and alignments are powers of two, like the size of a pointer.
ASSUME AlignAssumption ==
  /\ ucHeap \in Nat /\ xHeapStructSize % Align = 0 /\ Align % Pointer = 0
  /\ Align <= Word /\ xHeapStructSize <= Word
  /\ \A a \in Aligns : a % Pointer = 0 \/ Pointer % a = 0

xBlockAllocatedBit == Word \div 2
heapMINIMUM_BLOCK_SIZE == 2 * xHeapStructSize

FreeBlocks == DOMAIN next \ {xStart}

Init ==
  /\ next = [b \in {xStart, heapStart} |-> IF b = xStart THEN heapStart ELSE heapEnd]
  /\ size = [b \in {xStart, heapStart} |-> IF b = xStart THEN 0 ELSE heapEnd - heapStart]
  /\ used = [b \in {} |-> 0]
  /\ freeBytes = heapEnd - heapStart
  /\ loc = [c \in Callers |-> [pc |-> "idle"]]

(* ------------------------- the list of free blocks -------------------- *)

\* Mutant of Before: always at the front.
AtFront(nxt, b) == xStart

\* Where the loops of prvInsertBlockIntoFreeList and __internal_malloc stop,
\* in a list that ListExact says is ordered.
Before(nxt, b) == CHOOSE i \in DOMAIN nxt : i < b /\ nxt[i] >= b
FirstFit(b, want) ==
  /\ b \in FreeBlocks /\ size[b] >= want
  /\ \A f \in FreeBlocks : size[f] >= want => b <= f

\* Mutants of Into: never a part of the block before, or always.
IntoItself(it, sz, b) == b
IntoAny(it, sz, b) == IF it = xStart THEN b ELSE it

\* The block a freed block becomes a part of: the one before it, or itself.
Into(it, sz, b) == IF it + sz[it] = b THEN it ELSE b

\* Mutant of With: the block taken in is lost.
WithNothing(len, sz, succ) == len

Past(nxt, succ) == nxt[succ]
With(len, sz, succ) == len + sz[succ]

\* Block b of n bytes goes behind it, or becomes a part of it, and takes in
\* the block that follows if they touch.
prvInsertBlockIntoFreeList(nxt, sz, b, n) ==
  LET it   == Before(nxt, b)
      at   == Into(it, sz, b)
      len  == IF at = b THEN n ELSE sz[it] + n
      succ == nxt[it]
      join == at + len = succ /\ succ # heapEnd
      dom  == (DOMAIN nxt \ (IF join THEN {succ} ELSE {})) \cup {at}
  IN [next |-> [x \in dom |-> IF x = at THEN IF join THEN Past(nxt, succ) ELSE succ
                              ELSE IF x = it THEN at ELSE nxt[x]],
      size |-> [x \in dom |-> IF x = at THEN IF join THEN With(len, sz, succ) ELSE len
                              ELSE sz[x]]]

\* A free block leaves the list: pxPreviousBlock points past it.
Unlinked(b) ==
  LET dom == DOMAIN next \ {b}
  IN [next |-> [x \in dom |-> IF next[x] = b THEN next[b] ELSE next[x]],
      size |-> [x \in dom |-> size[x]]]

(* ------------------------------ malloc -------------------------------- *)

\* Mutant of Wanted: without room for the header.
WantedBare(n) == IF n >= xBlockAllocatedBit THEN 0 ELSE Up(n, Align)

\* xWantedSize with the header and aligned; 0 for a request that is refused.
Wanted(n) ==
  LET w == (n + xHeapStructSize) % Word
      r == w % Align
      a == (w + (IF r = 0 THEN 0 ELSE Align - r)) % Word
  IN IF n >= xBlockAllocatedBit \/ n = 0 \/ w <= n \/ a < w THEN 0 ELSE a

Put(f, b, v) == [x \in DOMAIN f \cup {b} |-> IF x = b THEN v ELSE f[x]]
Drop(f, b) == [x \in DOMAIN f \ {b} |-> f[x]]

\* Mutant of Charged: what was asked for, not what the block has.
ChargedWanted(want, got) == freeBytes - want

Charged(want, got) == freeBytes - got

\* Block b for n bytes, cut in two if what is left over is worth it; the
\* caller gets len bytes at ptr.
Allocate(n, b, ptr, len, al) ==
  LET want == Wanted(n)
      cut  == size[b] - want > heapMINIMUM_BLOCK_SIZE
      got  == IF cut THEN want ELSE size[b]
      out  == Unlinked(b)
      left == IF cut THEN prvInsertBlockIntoFreeList(out.next, out.size, b + want, size[b] - want)
              ELSE out
  IN /\ want > 0 /\ want <= freeBytes /\ FirstFit(b, want)
     /\ next' = left.next /\ size' = left.size
     /\ freeBytes' = Charged(want, got)
     /\ used' = Put(used, b, [size |-> got, ptr |-> ptr, len |-> len, align |-> al])

Idle(c) == loc[c].pc = "idle"

Malloc(c, n) ==
  /\ Idle(c)
  /\ \E b \in FreeBlocks : Allocate(n, b, b + xHeapStructSize, n, Align)
  /\ UNCHANGED loc

\* pvPortMallocAlign: room for the alignment, and in front of the pointer
\* that is returned the one to free.
AlignedPointer(p, a) == IF p % a = 0 THEN p + a ELSE Up(p, a)

MallocAlign(c, n, align) ==
  LET a == Up(align, Pointer)
  IN /\ Idle(c)
     /\ \E b \in FreeBlocks :
          Allocate((Up(n, Pointer) + a) % Word, b, AlignedPointer(b + xHeapStructSize, a), n, align)
     /\ UNCHANGED loc

(* ------------------------------- free --------------------------------- *)

\* A caller frees or reallocates blocks nobody else works on.
Untouched(b) ==
  b \in DOMAIN used /\ \A c \in Callers : loc[c].pc = "copy" => b \notin {loc[c].at, loc[c].to}

\* The header is marked free before interrupts are masked.
Freeing(c, b) ==
  /\ used' = Drop(used, b)
  /\ loc' = [loc EXCEPT ![c] = [pc |-> "insert", at |-> b, size |-> used[b].size]]

Free(c, b) ==
  /\ Idle(c) /\ Untouched(b)
  /\ Freeing(c, b)
  /\ UNCHANGED <<next, size, freeBytes>>

FreeInsert(c) ==
  LET list == prvInsertBlockIntoFreeList(next, size, loc[c].at, loc[c].size)
  IN /\ loc[c].pc = "insert"
     /\ next' = list.next /\ size' = list.size
     /\ freeBytes' = freeBytes + loc[c].size
     /\ loc' = [loc EXCEPT ![c] = [pc |-> "idle"]]
     /\ UNCHANGED used

\* pvPortRealloc: another block, what both have room for copied, the old
\* block freed.  (A new size of 0 is Free.)
Realloc(c, b, n) ==
  /\ Idle(c) /\ Untouched(b) /\ n # 0
  /\ used[b].ptr = b + xHeapStructSize
  /\ \E d \in FreeBlocks :
       /\ Allocate(n, d, d + xHeapStructSize, n, Align)
       /\ loc' = [loc EXCEPT ![c] = [pc |-> "copy", at |-> b, to |-> d]]

\* The bytes memcpy moves: xBlockSize is read with xBlockAllocatedBit in it.
Copied(c) ==
  LET old == (xBlockAllocatedBit + used[loc[c].at].size - xHeapStructSize) % Word
  IN Min({used[loc[c].to].len, old})

ReallocFree(c) ==
  /\ loc[c].pc = "copy"
  /\ Freeing(c, loc[c].at)
  /\ UNCHANGED <<next, size, freeBytes>>

Next ==
  \E c \in Callers :
    \/ \E n \in Requests : Malloc(c, n)
    \/ \E n \in Requests, a \in Aligns : MallocAlign(c, n, a)
    \/ \E b \in DOMAIN used : Free(c, b)
    \/ \E b \in DOMAIN used, n \in Requests : Realloc(c, b, n)
    \/ FreeInsert(c)
    \/ ReallocFree(c)

Spec == Init /\ [][Next]_vars

(* ----------------------------- properties ----------------------------- *)

Limbo == { c \in Callers : loc[c].pc = "insert" }

TypeOK ==
  /\ DOMAIN size = DOMAIN next /\ xStart \in DOMAIN next
  /\ FreeBlocks \subseteq heapStart .. heapEnd - 1
  /\ \A b \in DOMAIN next : next[b] \in FreeBlocks \cup {heapEnd} /\ size[b] \in Nat
  /\ DOMAIN used \subseteq heapStart .. heapEnd - 1
  /\ \A b \in DOMAIN used : used[b].size \in Nat
  /\ freeBytes \in Int
  /\ \A c \in Callers :
       /\ loc[c].pc \in {"idle", "copy", "insert"}
       /\ loc[c].pc = "copy" => {loc[c].at, loc[c].to} \subseteq DOMAIN used

\* The list of free blocks goes up in address and misses none, so that the
\* loops of malloc and free, which trust the order, stop where they should.
ListExact ==
  \A b \in DOMAIN next :
    b < next[b] /\ \A f \in FreeBlocks : ~(b < f /\ f < next[b])

\* A block as an interval: free, allocated, or on its way back.
Blocks ==
  { <<b, b + size[b]>> : b \in FreeBlocks }
  \cup { <<b, b + used[b].size>> : b \in DOMAIN used }
  \cup { <<loc[c].at, loc[c].at + loc[c].size>> : c \in Limbo }

\* However often memory is cut, freed by interleaved callers and joined again,
\* no two blocks overlap, none leaves the heap and none is counted twice.
Disjoint ==
  /\ \A x \in Blocks : heapStart <= x[1] /\ x[1] < x[2] /\ x[2] <= heapEnd
  /\ \A x, y \in Blocks : x = y \/ x[2] <= y[1] \/ y[2] <= x[1]
  /\ FreeBlocks \cap DOMAIN used = {}
  /\ \A c \in Limbo : loc[c].at \notin FreeBlocks \cup DOMAIN used
  /\ \A c, d \in Limbo : loc[c].at = loc[d].at => c = d

\* No byte is lost: the blocks cover the heap from its start to the end marker.
NoGap ==
  /\ \E x \in Blocks : x[1] = heapStart
  /\ \A x \in Blocks : x[2] = heapEnd \/ \E y \in Blocks : y[1] = x[2]

\* xFreeBytesRemaining, which lets malloc give up early, is what the free
\* blocks add up to.
FreeBytesExact == freeBytes = FoldSet(LAMBDA b, n : n + size[b], 0, FreeBlocks)

\* Free memory does not fragment by itself: two free blocks never touch, so a
\* request is refused only if no stretch of free memory can hold it.
Coalesced == \A b \in FreeBlocks : b + size[b] < next[b] \/ next[b] = heapEnd

\* The list of free blocks is what malloc and free take it for: every block
\* once, in order of address, and joined.
FreeListExact == TypeOK /\ ListExact /\ Coalesced

\* The blocks tile the heap: each byte between its ends is in exactly one.
Tiled == Disjoint /\ NoGap

\* What a caller gets lies in its own block behind the header (and behind the
\* pointer that pvPortMallocAlign leaves there), is aligned, and is as long as
\* it asked for.
CallerMemory ==
  \A b \in DOMAIN used :
    LET u == used[b]
        h == b + xHeapStructSize
    IN /\ u.ptr % u.align = 0
       /\ u.ptr = h \/ u.ptr - Pointer >= h
       /\ u.ptr + u.len <= b + u.size

\* memcpy of realloc stays inside of the block it copies from.
CopyInside ==
  \A c \in Callers :
    loc[c].pc = "copy" => Copied(c) <= used[loc[c].at].size - xHeapStructSize

\* vPortGetHeapStats walks "until the last block is reached": with a first
\* block to start from.
StatsReachEnd == next[xStart] # heapEnd
=============================================================================
