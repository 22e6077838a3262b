---------------------------- MODULE MCVqNotify ----------------------------
(***************************************************************************)
(* VqNotify on a ring of 3 entries with indices of 3 bits: the indices     *)
(* wrap, the ring fills up, and several entries share a kick.              *)
(***************************************************************************)
EXTENDS VqNotify
=============================================================================
