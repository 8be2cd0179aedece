------------------------------- MODULE MCRate -------------------------------
(* RateLimiter with one or two replicas, two calls per window of three ticks, *)
(* over more than two windows, so that the key expires.                       *)
EXTENDS RateLimiter, TLC

CONSTANTS a, b

Symmetry == Permutations(Replicas)
=============================================================================
