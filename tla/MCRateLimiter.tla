---------------------------- MODULE MCRateLimiter ----------------------------
(* Instances of RateLimiter for TLC. *)
EXTENDS RateLimiter, TLC

CONSTANTS alice, bob, r1, r2, r3, r4

\* Three requests of one client and one of another.
MCClientOf == [r \in {r1, r2, r3, r4} |-> IF r = r4 THEN bob ELSE alice]

Symmetry == Permutations({r1, r2, r3})
=============================================================================
