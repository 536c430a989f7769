----------------------------- MODULE MCScanner -----------------------------
(* Scanner with every overlap of two requests, but of two imports; one of  *)
(* the two may have a call that fails.                                     *)
EXTENDS Scanner, TLC

ReqSymmetry == Permutations(Req)

Everything == {AllOps}

OneFailure == Cardinality({r \in Req : faults'[r] > 0}) <= 1

OneImport  == Cardinality({r \in Req : arg'[r].op = "import"}) <= 1

ScanSpec == SInit /\ [][SNext /\ OneFailure /\ OneImport]_scanVars
=============================================================================
