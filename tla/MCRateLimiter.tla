--------------------------- MODULE MCRateLimiter ---------------------------
(***************************************************************************)
(* Model-checking instance of RateLimiter: interchangeable keys.           *)
(***************************************************************************)
EXTENDS RateLimiter, TLC

KeySymmetry == Permutations(Keys)
=============================================================================
