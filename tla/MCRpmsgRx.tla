---------------------------- MODULE MCRpmsgRx ----------------------------
(***************************************************************************)
(* RpmsgRx with two receive buffers, one transmit buffer and one retry, so *)
(* that buffers are reused while a callback runs, echoes wait for Linux    *)
(* and are dropped.                                                        *)
(***************************************************************************)
EXTENDS RpmsgRx
=============================================================================
