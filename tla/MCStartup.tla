----------------------------- MODULE MCStartup -----------------------------
(* Startup with the symmetry of its starts.                                *)
EXTENDS Startup, TLC

Symmetry == Permutations(Start)
=============================================================================
