--------------------------- MODULE MCPrevRandao ---------------------------
(***************************************************************************)
(* Two slots after genesis, so that requests for three slots can overlap,  *)
(* with those for a slot that is never reached.                            *)
(***************************************************************************)
EXTENDS PrevRandao
=============================================================================
