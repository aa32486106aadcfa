----------------------- MODULE MCValidatorRegistration -----------------------
(***************************************************************************)
(* Instances of ValidatorRegistration for TLC.                             *)
(***************************************************************************)
EXTENDS ValidatorRegistration, TLC

CONSTANTS v1, v2, h1, h2

Reg(v, t, p, k) == [validator |-> v, timestamp |-> t, prefs |-> p, kind |-> k]

\* The first request holds an unsigned registration before a good one and ends
\* at one that cannot be decoded; the second one has a newer registration of
\* the same validator and ends at a validator that is not known.
MCRequest ==
    (h1 :> <<Reg(v1, 3, 1, "unsigned"), Reg(v1, 1, 1, "good"), Reg(v1, 3, 1, "undecodable")>>)
    @@ (h2 :> <<Reg(v1, 2, 2, "good"), Reg(v2, 1, 1, "good")>>)

MCNoRows == [v \in Validators |-> {}]

\* The validator is registered with preferences 1, changes them to 2 and then
\* back to 1.
MCChangeBack ==
    (h1 :> <<Reg(v1, 2, 2, "good")>>) @@ (h2 :> <<Reg(v1, 3, 1, "good")>>)

MCOneRow == [v \in Validators |-> IF v = v1 THEN {[timestamp |-> 1, prefs |-> 1]} ELSE {}]
=============================================================================
