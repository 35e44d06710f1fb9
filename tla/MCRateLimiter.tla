--------------------------- MODULE MCRateLimiter ---------------------------
(* A small instance of RateLimiter.                                        *)
EXTENDS RateLimiter, TLC

MCSymmetry == Permutations(Keys)
=============================================================================
