----------------------------- MODULE MCAuction -----------------------------
(***************************************************************************)
(* Instances of Auction for TLC.  Builder b1 has collateral 2: it may bid  *)
(* 1 optimistically, a bid of 2 is simulated.  The blocks in Valid pass    *)
(* the simulation.  A block may be offered more than once.                 *)
(***************************************************************************)
EXTENDS Auction, TLC

CONSTANTS b1, b2, x1, x2, x3, x4

Offer(b, v, x) == [builder |-> b, value |-> v, block |-> x]

\* Three requests at a time, also of one builder; a Redis command fails, and one
\* block is offered twice.
Concurrent ==
    [offers |-> {Offer(b1, 1, x3), Offer(b1, 2, x3), Offer(b2, 2, x2)},
     maxTime |-> 1, maxFaults |-> 1, maxInFlight |-> 3]

\* Two requests of one builder, between which time may pass.
Overlap ==
    [offers |-> {Offer(b1, 1, x1), Offer(b1, 3, x2)},
     maxTime |-> 2, maxFaults |-> 0, maxInFlight |-> 2]

\* Two requests, of two builders.
Race == [Overlap EXCEPT !.offers = {Offer(b1, 1, x1), Offer(b2, 2, x4)}, !.maxTime = 1]

MCOffers == Concurrent.offers \cup Overlap.offers \cup Race.offers
MCLoads == {Concurrent, Overlap}
MCRace == {Race}
MCOverlap == {Overlap}

MCCollateral == (b1 :> 2) @@ (b2 :> 0)

\* The handlers are interchangeable.
SubmissionSymmetry == Permutations(Submissions)
=============================================================================
