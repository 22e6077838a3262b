----------------------------- MODULE MCMsgbox -----------------------------
(***************************************************************************)
(* Msgbox with a FIFO of three words and a handler that loops twice: the   *)
(* FIFO fills up, several words share one pending bit, and the handler     *)
(* leaves with the bit set.                                                *)
(***************************************************************************)
EXTENDS Msgbox
=============================================================================
