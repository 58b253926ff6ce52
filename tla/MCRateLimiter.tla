---------------------------- MODULE MCRateLimiter ----------------------------
(* Constant values for model checking RateLimiter.                         *)
EXTENDS RateLimiter, TLC

CONSTANTS c1, c2

\* Clients are interchangeable, and only safety is checked.
Symmetry == Permutations(Clients)

=============================================================================
