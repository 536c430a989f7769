--------------------------- MODULE MCRestoreScript ---------------------------
(* RestoreScript with the symmetry of its runs: one archive is as good as *)
(* another.                                                                *)
EXTENDS RestoreScript, TLC

RunSymmetry == Permutations(Run)
=============================================================================
