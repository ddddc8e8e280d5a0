--------------------------- MODULE MCRateLimiter ---------------------------
(***************************************************************************)
(* RateLimiter on a small instance: requests are interchangeable.          *)
(***************************************************************************)
EXTENDS RateLimiter, TLC

MCSymmetry == Permutations(Requests)
=============================================================================
