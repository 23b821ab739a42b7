---------------------------- MODULE MCRateLimiter ----------------------------
(* A small instance of RateLimiter for TLC. *)
EXTENDS RateLimiter, TLC

LimiterSymmetry == Permutations(Keys) \cup Permutations(Calls)
=============================================================================
