------------------------------ MODULE MC_ObiCtx ------------------------------
(* Instantiates ObiCtx for TLC: two CPUs, so that one can copy out of a  *)
(* node while the other updates; two contexts, so that a node can pass   *)
(* from one key's context to another's; three keys and two nodes standing *)
(* for the 1 << 14 entries, so that the map fills and an update finds a  *)
(* free node or has to evict a live key.                                  *)
EXTENDS ObiCtx
=============================================================================
