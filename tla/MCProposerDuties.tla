-------------------------- MODULE MCProposerDuties --------------------------
(***************************************************************************)
(* Epochs of eight slots; the intervals have the proportions of the code.  *)
(* Every proposer is registered, so that no gap in the duties is hidden.   *)
(***************************************************************************)
EXTENDS ProposerDuties

MCRegistered == 0..(MaxSlot + 2 * SlotsPerEpoch)
=============================================================================
