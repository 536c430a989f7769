----------------------------- MODULE MCLibrary -----------------------------
(* Library with the symmetry of its requests, which are told apart by     *)
(* what they ask for alone, and with what may overlap in each run.         *)
EXTENDS Library, TLC

ReqSymmetry == Permutations(Req)

Everything == {AllOps}

\* What may overlap and still leave the catalogue and the disk in agreement.
Harmless ==
    {{"create", "upload", "delete_file", "update"},
     {"create", "import", "update"},
     {"delete", "update"},
     {"create", "restore", "update"}}

\* And where no more fails than a request takes back undisturbed.
CalmSpec == Init /\ [][Next /\ Calm]_vars
=============================================================================
