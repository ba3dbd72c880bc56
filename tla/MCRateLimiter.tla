---------------------------- MODULE MCRateLimiter ----------------------------
(***************************************************************************)
(* Instances of RateLimiter for TLC, with the real ratio of cleanup to     *)
(* window and a limit of two instead of five.                              *)
(***************************************************************************)
EXTENDS RateLimiter, TLC

Symmetry == Permutations(Requests) \cup Permutations(IPs)
=============================================================================
