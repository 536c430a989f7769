--------------------------- MODULE SessionSecret ---------------------------
(***************************************************************************)
(* config.ResolveSessionSecret: where a start of the server gets its       *)
(* session secret from.  Starts may overlap ("a secret that a concurrent   *)
(* process may have created first"), a process may be killed at any point, *)
(* and the power may fail.                                                 *)
(*                                                                         *)
(* A secret is random and is named after the file that first held it: the  *)
(* temporary file of the start that generated it, or Old, a file that was  *)
(* there before (valid, or damaged as in session_secret_test.go).          *)
(*                                                                         *)
(* Of the file system: a name or a byte that has not been synced may be    *)
(* lost when the power fails, and may as well not be; what has been synced *)
(* stays.  Syncing config/ keeps config/ itself, as journaling file        *)
(* systems do.                                                             *)
(***************************************************************************)
EXTENDS Naturals

CONSTANTS
    Start,           \* starts of the server
    Old,             \* a secret file from before
    None,            \* no file
    MaxPowerLosses   \* times the power fails

File == Start \cup {Old}

ASSUME OldIsNoStart == Old \notin Start
ASSUME NoneIsNoFile == None \notin File
ASSUME LossesAreNat == MaxPowerLosses \in Nat

VARIABLES
    pc,        \* pc[s]: the next step of start s
    data,      \* data[f]: what file f holds
    synced,    \* the files whose bytes are on the disk
    temps,     \* starts whose temporary file still has its own name
    entry,     \* the file config/session_secret names, or None
    kept,      \* that name is on the disk
    got,       \* got[s]: the secret of start s
    source,    \* source[s]: the SessionSecretSource it returned with it
    losses     \* times the power has failed

vars == <<pc, data, synced, temps, entry, kept, got, source, losses>>

Resolving == {"env", "load", "temp", "write", "sync", "link", "again", "dirsync"}
Alive     == Resolving \cup {"serving"}
Label     == Alive \cup {"idle", "refused", "dead"}
Sources   == {"environment", "loaded", "created"}

-----------------------------------------------------------------------------
Go(s, l) ==
    /\ pc' = [pc EXCEPT ![s] = l]
    /\ UNCHANGED <<got, source, losses>>

\* Returning removes the temporary file (the deferred os.Remove).
Serve(s, f, from) ==
    /\ pc' = [pc EXCEPT ![s] = "serving"]
    /\ got' = [got EXCEPT ![s] = f]
    /\ source' = [source EXCEPT ![s] = from]
    /\ temps' = temps \ {s}
    /\ UNCHANGED <<data, synced, entry, losses>>

\* An error, and main exits.
Refuse(s) ==
    /\ Go(s, "refused")
    /\ temps' = temps \ {s}
    /\ UNCHANGED <<data, synced, entry, kept>>

Begin(s) ==
    /\ pc[s] = "idle"
    /\ Go(s, "env")
    /\ UNCHANGED <<data, synced, temps, entry, kept>>

\* SESSION_SECRET is unset, long enough, or too short.
Environment(s) ==
    /\ pc[s] = "env"
    /\ \/ Go(s, "load") /\ UNCHANGED <<data, synced, temps, entry, kept>>
       \/ Serve(s, None, "environment") /\ UNCHANGED kept
       \/ Refuse(s)

\* loadSessionSecret: a file that is there must hold a whole secret.
LoadFound(s) ==
    \/ /\ entry # None
       /\ data[entry] = "secret"
       /\ Serve(s, entry, "loaded")
       /\ UNCHANGED kept
    \/ Refuse(s)

Load(s) ==
    /\ pc[s] = "load"
    /\ \/ /\ entry = None
          /\ Go(s, "temp")
          /\ UNCHANGED <<data, synced, temps, entry, kept>>
       \/ LoadFound(s)

CreateTemp(s) ==
    /\ pc[s] = "temp"
    /\ \/ /\ temps' = temps \cup {s}
          /\ data' = [data EXCEPT ![s] = "nothing"]
          /\ Go(s, "write")
          /\ UNCHANGED <<synced, entry, kept>>
       \/ Refuse(s)

Write(s) ==
    /\ pc[s] = "write"
    /\ \/ /\ data' = [data EXCEPT ![s] = "secret"]
          /\ Go(s, "sync")
          /\ UNCHANGED <<synced, temps, entry, kept>>
       \/ Refuse(s)

\* Mutant: the temporary file is not synced.
SyncSkipped(s) ==
    /\ pc[s] = "sync"
    /\ Go(s, "link")
    /\ UNCHANGED <<data, synced, temps, entry, kept>>

Sync(s) ==
    /\ pc[s] = "sync"
    /\ \/ /\ synced' = synced \cup {s}
          /\ Go(s, "link")
          /\ UNCHANGED <<data, temps, entry, kept>>
       \/ Refuse(s)

\* Mutant: os.Rename in the place of os.Link.
LinkReplaces(s) ==
    /\ pc[s] = "link"
    /\ entry' = s
    /\ kept' = FALSE
    /\ Go(s, "dirsync")
    /\ UNCHANGED <<data, synced, temps>>

\* os.Link: ErrExist when another start was faster.
Link(s) ==
    /\ pc[s] = "link"
    /\ \/ /\ entry = None
          /\ entry' = s
          /\ kept' = FALSE
          /\ Go(s, "dirsync")
          /\ UNCHANGED <<data, synced, temps>>
       \/ /\ entry # None
          /\ Go(s, "again")
          /\ UNCHANGED <<data, synced, temps, entry, kept>>
       \/ Refuse(s)

\* Mutant: the loser of the race keeps the secret it generated.
AgainOwn(s) == pc[s] = "again" /\ Serve(s, s, "created") /\ UNCHANGED kept

Again(s) == pc[s] = "again" /\ LoadFound(s)

\* Mutant: config/ is not synced.
SyncDirSkipped(s) ==
    pc[s] = "dirsync" /\ Serve(s, s, "created") /\ UNCHANGED kept

SyncDir(s) ==
    /\ pc[s] = "dirsync"
    /\ \/ Serve(s, s, "created") /\ kept' = TRUE
       \/ Refuse(s)

Resolve(s) ==
    \/ Begin(s) \/ Environment(s) \/ Load(s) \/ CreateTemp(s) \/ Write(s)
    \/ Sync(s) \/ Link(s) \/ Again(s) \/ SyncDir(s)

Kill(s) ==
    /\ pc[s] \in Alive
    /\ Go(s, "dead")
    /\ UNCHANGED <<data, synced, temps, entry, kept>>

PowerLoss ==
    /\ losses < MaxPowerLosses
    /\ losses' = losses + 1
    /\ pc' = [s \in Start |-> IF pc[s] \in Alive THEN "dead" ELSE pc[s]]
    /\ \E lost \in SUBSET (File \ synced) :
          data' = [f \in File |->
                     IF f \in lost /\ data[f] = "secret" THEN "nothing" ELSE data[f]]
    /\ synced' = File
    /\ temps' \in SUBSET temps
    /\ entry' \in IF kept THEN {entry} ELSE {entry, None}
    /\ kept' = TRUE
    /\ UNCHANGED <<got, source>>

Init ==
    /\ pc = [s \in Start |-> "idle"]
    /\ \E old \in {"nothing", "secret"} :
          data = [f \in File |-> IF f = Old THEN old ELSE "nothing"]
    /\ synced = {Old}
    /\ temps = {}
    /\ entry \in {None, Old}
    /\ kept = TRUE
    /\ got = [s \in Start |-> None]
    /\ source = [s \in Start |-> "none"]
    /\ losses = 0

Next == PowerLoss \/ \E s \in Start : Resolve(s) \/ Kill(s)

Spec == Init /\ [][Next]_vars

-----------------------------------------------------------------------------
\* Every variable has its type; only whole secrets are ever written to files.
TypeOK ==
    /\ pc \in [Start -> Label]
    /\ data \in [File -> {"nothing", "secret"}]
    /\ synced \subseteq File
    /\ temps \subseteq Start
    /\ entry \in File \cup {None}
    /\ kept \in BOOLEAN
    /\ got \in [Start -> File \cup {None}]
    /\ source \in [Start -> Sources \cup {"none"}]
    /\ losses \in 0..MaxPowerLosses

FromDisk(s) == source[s] \in {"loaded", "created"}

\* While the power stays on, starts that find no SESSION_SECRET get the same
\* secret, whether they race for it, die on the way or come later; it is the
\* one in config/session_secret.
Agreement ==
    losses = 0 => \A s, t \in Start :
        FromDisk(s) /\ FromDisk(t) => got[s] = got[t] /\ got[s] = entry

\* A start that said it created the secret has made it last: not even a power
\* failure takes it away from the starts to come.
CreatedLasts ==
    \A s \in Start : source[s] = "created" => entry = s /\ got[s] = s /\ kept

\* config/session_secret never names a secret half written: a start is only
\* turned away by a damaged file that was there before, power failures or not.
NeverTorn == entry \in Start => data[entry] = "secret"

-----------------------------------------------------------------------------
(* The inductive invariant.                                                *)

\* Nobody writes to a file that has been linked.
Unlinked == {"idle", "env", "load", "temp", "write", "sync", "link"}
LinkedWhole ==
    /\ entry \in Start => data[entry] = "secret" /\ entry \in synced
    /\ \A s \in Start : pc[s] \in Unlinked => entry # s

Progress ==
    \A s \in Start :
        /\ pc[s] \in {"sync", "link"} => data[s] = "secret"
        /\ pc[s] = "link" => s \in synced
        /\ pc[s] = "dirsync" => entry = s
        /\ pc[s] \in Resolving \cup {"idle"} => source[s] = "none"

Sourced ==
    \A s \in Start :
        /\ source[s] \in {"none", "environment"} <=> got[s] = None
        /\ losses = 0 /\ FromDisk(s) => got[s] = entry

\* The whole of it: what each step of ResolveSessionSecret relies on.
IInv == TypeOK /\ LinkedWhole /\ Progress /\ Sourced /\ CreatedLasts

\* What OneSecret calls the secret, and what the servers run with.
Running == [s \in Start |-> IF pc[s] = "serving" THEN got[s] ELSE None]
Promise == INSTANCE OneSecret WITH secret <- entry, given <- Running

\* ResolveSessionSecret keeps the promise of OneSecret, kills and power failures
\* included: each step chooses the one secret, hands it to one server, stops
\* servers, or changes neither.
PromiseKept == Promise!Spec
=============================================================================
