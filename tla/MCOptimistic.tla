---------------------------- MODULE MCOptimistic ----------------------------
(***************************************************************************)
(* Instances of Optimistic for TLC.  Builders b1 and b2 share the          *)
(* collateral with ID id1, and every block is worth less than it.  The     *)
(* operator can give a builder collateral of its own, worth more than a    *)
(* block or, too little to be accepted optimistically, as much as one.     *)
(***************************************************************************)
EXTENDS Optimistic, TLC

CONSTANTS b1, b2, s1, s2, id1

MCRow(coll, i) == [demoted |-> FALSE, blacklisted |-> FALSE, collateral |-> coll, id |-> i]

MCInitialRow == (b1 :> MCRow(2, id1)) @@ (b2 :> MCRow(2, id1))

MCCollaterals == {[id |-> NoID, collateral |-> n] : n \in {1, 2}}

R(b, slot, value) == [builder |-> b, slot |-> slot, value |-> value]

\* the same builder in two slots, and the operator at work or a failing call
TwoSlots(heads, winners, operations, failures) ==
    [request |-> (s1 :> R(b1, 1, 1)) @@ (s2 :> R(b1, 2, 1)), heads |-> heads, winners |-> winners,
     maxOps |-> operations, maxFaults |-> failures, recycle |-> FALSE]

\* two builders in the first slot that submit again and again
Busy ==
    [request |-> (s1 :> R(b1, 1, 1)) @@ (s2 :> R(b2, 1, 1)), heads |-> {1}, winners |-> {},
     maxOps |-> 0, maxFaults |-> 0, recycle |-> TRUE]

MCLoads ==
    {TwoSlots({1}, {}, 1, 1), TwoSlots({1, 2}, {}, 0, 0), TwoSlots({1}, {s1}, 0, 1), Busy}
MCRefund == {TwoSlots({1}, {s1}, 0, 0)}
MCOnce == {[Busy EXCEPT !.recycle = FALSE]}
=============================================================================
