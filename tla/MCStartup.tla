---------------------------- MODULE MCStartup ----------------------------
(***************************************************************************)
(* Startup with two rounds of waiting, a mailbox of two words, two         *)
(* messages and two resets: Linux is faster or slower than the firmware,   *)
(* goes away between the two waits and comes back, or stays away.          *)
(***************************************************************************)
EXTENDS Startup
=============================================================================
