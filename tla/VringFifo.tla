----------------------------- MODULE VringFifo -----------------------------
(***************************************************************************)
(* What a virtqueue promises its users: buffers leave the master in order, *)
(* the slave takes them in that order, returns them in any order, and the  *)
(* master gets them back in the order in which they were returned.  A      *)
(* buffer is in one place at a time, and at most Capacity buffers are out. *)
(***************************************************************************)
EXTENDS Naturals, Sequences, FiniteSets

CONSTANTS Bufs, Capacity

VARIABLES
  toSlave,    \* buffers offered and not yet taken
  atSlave,    \* buffers the slave works on
  toMaster    \* buffers returned and not yet reclaimed

fifoVars == <<toSlave, atSlave, toMaster>>

InSeq(s) == {s[k] : k \in DOMAIN s}

Out == InSeq(toSlave) \cup atSlave \cup InSeq(toMaster)

FifoInit == toSlave = <<>> /\ atSlave = {} /\ toMaster = <<>>

Offer(b) ==
  /\ b \notin Out
  /\ Cardinality(Out) < Capacity
  /\ toSlave' = Append(toSlave, b)
  /\ UNCHANGED <<atSlave, toMaster>>

Take ==
  /\ toSlave # <<>>
  /\ atSlave' = atSlave \cup {Head(toSlave)}
  /\ toSlave' = Tail(toSlave)
  /\ UNCHANGED toMaster

Return(b) ==
  /\ b \in atSlave
  /\ atSlave' = atSlave \ {b}
  /\ toMaster' = Append(toMaster, b)
  /\ UNCHANGED toSlave

Reclaim ==
  /\ toMaster # <<>>
  /\ toMaster' = Tail(toMaster)
  /\ UNCHANGED <<toSlave, atSlave>>

FifoNext ==
  \/ \E b \in Bufs : Offer(b) \/ Return(b)
  \/ Take
  \/ Reclaim

FifoSpec == FifoInit /\ [][FifoNext]_fifoVars

=============================================================================
