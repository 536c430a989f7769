----------------------------- MODULE OneSecret -----------------------------
(***************************************************************************)
(* What config.ResolveSessionSecret promises to the servers that find no   *)
(* SESSION_SECRET in their environment: one secret is chosen, it is the    *)
(* secret each of them runs with, and while the power stays on it is the   *)
(* secret of every server to come.                                         *)
(***************************************************************************)
CONSTANTS Start, File, None

VARIABLES
    secret,    \* the file that holds the secret, None before there is one
    given      \* given[s]: the secret server s runs with, None when it has none

Init ==
    /\ secret \in File \cup {None}
    /\ given = [s \in Start |-> None]

Choose(s) ==
    /\ secret = None
    /\ secret' = s
    /\ UNCHANGED given

Give(s) ==
    /\ secret # None
    /\ given[s] = None
    /\ given' = [given EXCEPT ![s] = secret]
    /\ UNCHANGED secret

Stop(s) ==
    /\ given' = [given EXCEPT ![s] = None]
    /\ UNCHANGED secret

\* Only now may the secret be forgotten, since nobody runs with it any more.
PowerLoss ==
    /\ given' = [s \in Start |-> None]
    /\ secret' \in {secret, None}

Next == PowerLoss \/ \E s \in Start : Choose(s) \/ Give(s) \/ Stop(s)

Spec == Init /\ [][Next]_<<secret, given>>
=============================================================================
