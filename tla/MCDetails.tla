----------------------------- MODULE MCDetails -----------------------------
(* Details with the symmetry of its requests, and two files to import.     *)
EXTENDS Details, TLC

CONSTANTS n1, n2, jpg, png

ReqSymmetry == Permutations(Req)

Names      == {n1, n2}
Extensions == {jpg, png}
Files      == {[name |-> n2, ext |-> jpg], [name |-> None, ext |-> None]}

\* A call fails only of a request that runs alone, and no other starts then.
FailsAlone ==
    /\ faults' > faults => Cardinality(InFlight) = 1
    /\ faults > 0 => \A r \in Req : pc[r] = "idle" => pc'[r] = "idle"

\* Two requests make a book only where the third is about authors and tags,
\* which is all that books share.
MakesApart ==
    LET makers == {r \in Req : arg'[r].op \in {"create", "import"}}
    IN \/ Cardinality(makers) <= 1
       \/ /\ Cardinality(makers) = 2
          /\ \A r \in Req \ makers : arg'[r].op \in {None} \cup TermOps

DetailsSpec == Init /\ [][Next /\ FailsAlone /\ MakesApart]_vars
=============================================================================
