--------------------------- MODULE MCVirtqueue ---------------------------
(***************************************************************************)
(* Virtqueue on a ring of 2 descriptors whose indices wrap after two laps, *)
(* with one buffer more than descriptors: the ring runs full and empty,    *)
(* both indices wrap, and buffers are returned out of order.               *)
(***************************************************************************)
EXTENDS Virtqueue
=============================================================================
