------------------------------- MODULE MCOpds -------------------------------
(* Opds where, during one walk, either the shelf or the settings change.   *)
EXTENDS Opds, TLC

Symmetry == Permutations(Book)

OneOf == setting'.at = 0 \/ added' + slipped' = 0

WalkSpec == Init /\ [][Next /\ OneOf]_vars
=============================================================================
