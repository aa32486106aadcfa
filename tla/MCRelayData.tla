---------------------------- MODULE MCRelayData ----------------------------
(***************************************************************************)
(* RelayData with four blocks in three slots, two of them in the same one, *)
(* whose order by value is not that by slot.  The website sees three of    *)
(* them and has pages of two rows, the data API answers with up to three.  *)
(***************************************************************************)
EXTENDS RelayData, TLC

CONSTANTS b1, b2, b3, b4, i1, i2

MCSlot == (b1 :> 1) @@ (b2 :> 1) @@ (b3 :> 2) @@ (b4 :> 3)
MCValue == (b1 :> 3) @@ (b2 :> 1) @@ (b3 :> 2) @@ (b4 :> 1)
MCInRedis ==
    ("website" :> {b2, b3, b4}) @@ ("client" :> Blocks) @@ ("bids" :> {}) @@ ("archive" :> {})
MCBuilder == (b1 :> i1) @@ (b2 :> i2) @@ (b3 :> i1) @@ (b4 :> i2)
=============================================================================
