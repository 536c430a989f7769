---------------------------- MODULE MCRateLimit ----------------------------
(* RateLimit with the symmetry of its goroutines and of its clients.       *)
EXTENDS RateLimit, TLC

Symmetry == Permutations(Req) \cup Permutations(Client)
=============================================================================
