------------------------------ MODULE MCBackups ------------------------------
(* Backups with the symmetry of its requests and of its backups; any       *)
(* requests may overlap.                                                   *)
EXTENDS Backups, TLC

Everything == {AllOps}

Symmetry == Permutations(Req) \cup Permutations(Backup)
=============================================================================
