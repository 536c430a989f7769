----------------------------- MODULE MCAccounts -----------------------------
(* The OPDS settings that clients of the models send, and the symmetry.    *)
EXTENDS Accounts, TLC

CONSTANTS p1

\* Enabled with a password, opened to plain HTTP with and without the
\* confirmation, both without a password, and disabled.
MCInputs ==
    {[enabled |-> TRUE,  mode |-> "https_only",     confirm |-> FALSE, password |-> p1],
     [enabled |-> TRUE,  mode |-> "http_and_https", confirm |-> TRUE,  password |-> None],
     [enabled |-> TRUE,  mode |-> "http_and_https", confirm |-> FALSE, password |-> None],
     [enabled |-> FALSE, mode |-> "https_only",     confirm |-> FALSE, password |-> None]}

RequestSymmetry == Permutations(Req)
=============================================================================
