---------------------------- MODULE MCRateLimit ----------------------------
(* Instances of RateLimit for TLC: the requests of a client are alike.       *)
EXTENDS RateLimit, TLC

Symmetry == Permutations(Reqs)

=============================================================================
