--------------------------- MODULE AuctionPromise ---------------------------
(***************************************************************************)
(* What the relay promises a proposer about the auction of its slot, apart *)
(* from how submissions are handled: a header is only announced once the   *)
(* block behind it can be delivered, it is only promised after it was      *)
(* announced, only acceptable bids are announced, and a block that can be  *)
(* delivered stays deliverable.                                            *)
(***************************************************************************)
CONSTANTS
    Blocks,
    Acceptable,     \* the bids that may win: records with a field block
    NoBid

VARIABLES
    deliverable,    \* the blocks that getPayload can deliver
    best,           \* the bid getHeader answers with at present
    promised        \* the bids it answered with so far

vars == <<deliverable, best, promised>>

Init ==
    /\ deliverable = {}
    /\ best = NoBid
    /\ promised = {}

Store(x) ==
    /\ deliverable' = deliverable \cup {x}
    /\ UNCHANGED <<best, promised>>

Announce(bid) ==
    /\ bid.block \in deliverable
    /\ best' = bid
    /\ UNCHANGED <<deliverable, promised>>

Promise ==
    /\ best # NoBid
    /\ promised' = promised \cup {best}
    /\ UNCHANGED <<deliverable, best>>

Next ==
    \/ \E x \in Blocks : Store(x)
    \/ \E bid \in Acceptable : Announce(bid)
    \/ Promise

Spec == Init /\ [][Next]_vars
=============================================================================
