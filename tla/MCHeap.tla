------------------------------- MODULE MCHeap -------------------------------
(***************************************************************************)
(* Heap with two callers and ten units of 16 bytes, the alignment and the *)
(* header of the 64-bit build; a size_t of ten bits.  The requests need    *)
(* two, three and four units, one of them in the top half of size_t.       *)
(***************************************************************************)
EXTENDS Heap

CONSTANTS c1, c2

MCCallers == {c1, c2}
MCRequests == {0, 1, 16, 17, 33, 600}
MCAligns == {8, 32}
=============================================================================
