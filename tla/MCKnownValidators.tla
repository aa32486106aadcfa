------------------------- MODULE MCKnownValidators -------------------------
(***************************************************************************)
(* Two beacon nodes that can change places, the caller that fetches        *)
(* validators and another one; one validator is there from the start, one  *)
(* is in the beacon state of the first slot.                               *)
(***************************************************************************)
EXTENDS KnownValidators, TLC

CONSTANTS v1, v2

MCActivation == (v1 :> 0) @@ (v2 :> 1)
=============================================================================
