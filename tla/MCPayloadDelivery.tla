------------------------- MODULE MCPayloadDelivery -------------------------
(***************************************************************************)
(* Instances of PayloadDelivery for TLC: one block of slot 1, two of       *)
(* slot 2, by two builders, and two calls, for blocks of both slots or     *)
(* twice for the same block.                                               *)
(***************************************************************************)
EXTENDS PayloadDelivery, TLC

CONSTANTS b1, b2, b3, c1, c2, i1, i2

MCSlot == (b1 :> 1) @@ (b2 :> 2) @@ (b3 :> 2)
MCBuilder == (b1 :> i1) @@ (b2 :> i2) @@ (b3 :> i1)

Both == (c1 :> b1) @@ (c2 :> b2)
Twice == (c1 :> b1) @@ (c2 :> b1)

\* all blocks, stored until the end, without failures; one block that expires,
\* through a failing call and a stop; and the same block asked for twice, with
\* either of them
Stored == [submitted |-> {b1, b2, b3}, expiring |-> {}, blockOf |-> Both,
           maxFaults |-> 0, maxRestarts |-> 0]
Fragile(calls, f, r) == [submitted |-> {b1}, expiring |-> {b1}, blockOf |-> calls,
                         maxFaults |-> f, maxRestarts |-> r]

MCStored == {Stored}
MCLoads == {Stored, Fragile(Both, 1, 1), Fragile(Twice, 1, 0), Fragile(Twice, 0, 1)}
=============================================================================
