------------------------- MODULE MCRpmsgEndpoint -------------------------
(***************************************************************************)
(* RpmsgEndpoint with two endpoints that may share a name and an address,  *)
(* one predefined address and one in the bitmap: addresses run out and are *)
(* reused at once, and an announcement may be under way while another      *)
(* endpoint takes the address.                                             *)
(***************************************************************************)
EXTENDS RpmsgEndpoint, TLC

Symmetry == Permutations(Epts) \cup Permutations(RemoteAddrs)
=============================================================================
