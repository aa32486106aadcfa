----------------------- MODULE MCBlockSimRateLimiter -----------------------
(***************************************************************************)
(* Four calls of send() compete for two places.                            *)
(***************************************************************************)
EXTENDS BlockSimRateLimiter
=============================================================================
