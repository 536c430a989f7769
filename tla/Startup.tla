------------------------------ MODULE Startup ------------------------------
(***************************************************************************)
(* A start of the server (cmd/server/main.go): it resolves the session     *)
(* secret, opens the database and migrates it (internal/database), and     *)
(* listens.  Several starts may do so at once, and any may be killed.      *)
(*                                                                         *)
(* Of SQLite: a transaction reads a snapshot until it writes; it writes    *)
(* only when nobody else does and the snapshot is the last state, or fails *)
(* (at once, or when the busy timeout is over).  What is committed stays.  *)
(* EnsureExistingInstall, which follows, is in Accounts.                   *)
(***************************************************************************)
EXTENDS SessionSecret

VARIABLES
    at,         \* at[s]: where start s is with the database
    version,    \* version[s]: the migration it has come to
    snapshot,   \* snapshot[s]: the versions its transaction sees
    writer,     \* the start that holds the write lock, or None
    tables,     \* tables and columns that are there
    recorded    \* rows of schema_migrations

database == <<at, version, snapshot, writer, tables, recorded>>
allVars == <<vars, database>>

Versions == 1..4

\* What each version brought, and what AutoMigrate adds with it today: the
\* models are the present ones, so that version 1 adds all of their columns.
Brought == <<{"library"}, {"book_columns"}, {"file_columns"}, {"settings"}>>

Adds(v) == IF v = 1 THEN Brought[1] \cup Brought[2] \cup Brought[3] ELSE Brought[v]

Schema == "schema_migrations"

-----------------------------------------------------------------------------
Moves(s, from, to) ==
    /\ pc[s] = "serving" /\ at[s] = from
    /\ at' = [at EXCEPT ![s] = to]
    /\ UNCHANGED vars

\* An error: what the transaction did is rolled back, and main exits.
Rollback(s, to) ==
    /\ at' = [at EXCEPT ![s] = to]
    /\ version' = [version EXCEPT ![s] = 1]
    /\ snapshot' = [snapshot EXCEPT ![s] = {}]
    /\ writer' = IF writer = s THEN None ELSE writer
    /\ UNCHANGED <<tables, recorded>>

Fail(s) ==
    /\ pc[s] = "serving"
    /\ pc' = [pc EXCEPT ![s] = "refused"]
    /\ Rollback(s, "failed")
    /\ UNCHANGED <<data, synced, temps, entry, kept, got, source, losses>>

\* AutoMigrate(&schemaMigration{}) looks for the table and then creates it.
Open(s) ==
    /\ Moves(s, "closed", IF Schema \in tables THEN "count" ELSE "create")
    /\ UNCHANGED <<version, snapshot, writer, tables, recorded>>

CreateSchema(s) ==
    \/ /\ Moves(s, "create", "count")
       /\ writer = None /\ Schema \notin tables
       /\ tables' = tables \cup {Schema}
       /\ UNCHANGED <<version, snapshot, writer, recorded>>
    \/ /\ at[s] = "create" /\ (writer # None \/ Schema \in tables)
       /\ Fail(s)

\* One version is recorded: on to the next, or listen.
Past(s, from) ==
    /\ Moves(s, from, IF version[s] = 4 THEN "listening" ELSE "count")
    /\ version' = [version EXCEPT ![s] = IF version[s] = 4 THEN 1 ELSE version[s] + 1]

\* Mutant: a version above it is taken for the version itself.
CountAny(s) ==
    \/ /\ recorded # {}
       /\ Past(s, "count")
       /\ UNCHANGED <<snapshot, writer, tables, recorded>>
    \/ /\ recorded = {}
       /\ Moves(s, "count", "begin")
       /\ UNCHANGED <<version, snapshot, writer, tables, recorded>>

Count(s) ==
    \/ /\ version[s] \in recorded
       /\ Past(s, "count")
       /\ UNCHANGED <<snapshot, writer, tables, recorded>>
    \/ /\ version[s] \notin recorded
       /\ Moves(s, "count", "begin")
       /\ UNCHANGED <<version, snapshot, writer, tables, recorded>>

\* The transaction begins with AutoMigrate reading the schema.
BeginTx(s) ==
    /\ Moves(s, "begin", "write")
    /\ snapshot' = [snapshot EXCEPT ![s] = recorded]
    /\ UNCHANGED <<version, writer, tables, recorded>>

\* Mutant: the row of the version is committed on its own.
InsertCommitted(s) ==
    /\ Moves(s, "write", "commit")
    /\ writer = None /\ snapshot[s] = recorded
    /\ writer' = s
    /\ recorded' = recorded \cup {version[s]}
    /\ UNCHANGED <<version, snapshot, tables>>

\* Its first write takes the lock; the row of the version is a primary key.
Insert(s) ==
    \/ /\ Moves(s, "write", "commit")
       /\ writer = None /\ snapshot[s] = recorded /\ version[s] \notin recorded
       /\ writer' = s
       /\ UNCHANGED <<version, snapshot, tables, recorded>>
    \/ /\ at[s] = "write"
       /\ writer # None \/ snapshot[s] # recorded \/ version[s] \in recorded
       /\ Fail(s)

\* Mutant: the write lock is not released.
CommitOpen(s) ==
    /\ Past(s, "commit")
    /\ tables' = tables \cup Adds(version[s])
    /\ recorded' = recorded \cup {version[s]}
    /\ UNCHANGED <<snapshot, writer>>

Commit(s) ==
    /\ Past(s, "commit")
    /\ tables' = tables \cup Adds(version[s])
    /\ recorded' = recorded \cup {version[s]}
    /\ writer' = None
    /\ snapshot' = [snapshot EXCEPT ![s] = {}]

Migrate(s) ==
    \/ Open(s) \/ CreateSchema(s) \/ Count(s) \/ BeginTx(s) \/ Insert(s) \/ Commit(s)

-----------------------------------------------------------------------------
DInit ==
    /\ Init
    /\ at = [s \in Start |-> "closed"]
    /\ version = [s \in Start |-> 1]
    /\ snapshot = [s \in Start |-> {}]
    /\ writer = None
    /\ \E n \in 0..4 :  \* the release that ran before, if any, knew n versions
          /\ recorded = 1..n
          /\ tables = UNION {Brought[v] : v \in 1..n} \cup {Schema : v \in 1..n}

DPowerLoss ==
    /\ PowerLoss
    /\ at' = [s \in Start |-> IF pc[s] \in Alive THEN "closed" ELSE at[s]]
    /\ version' = [s \in Start |-> 1]
    /\ snapshot' = [s \in Start |-> {}]
    /\ writer' = None
    /\ UNCHANGED <<tables, recorded>>

DNext ==
    \/ DPowerLoss
    \/ \E s \in Start : \/ Resolve(s) /\ UNCHANGED database
                        \/ Kill(s) /\ Rollback(s, "closed")
                        \/ Migrate(s)

DSpec == DInit /\ [][DNext]_allVars

-----------------------------------------------------------------------------
\* The versions on record are the first ones, and what each adds is there,
\* whenever starts race or die: a crash between two migrations, or in one, is
\* made good by the next start.
Recorded ==
    /\ \E n \in 0..4 : recorded = 1..n
    /\ \A v \in recorded : Brought[v] \subseteq tables

\* A server listens only on a database with every version.
Ready ==
    \A s \in Start : at[s] = "listening" =>
        recorded = Versions /\ UNION {Adds(v) : v \in Versions} \subseteq tables

\* Starts that migrate at once do not all fail: one that fails leaves one that
\* goes on, listens, or was killed.
OneGoesOn ==
    (\E s \in Start : at[s] = "failed") =>
        \E s \in Start : at[s] # "failed" /\ pc[s] \in {"serving", "dead"}

-----------------------------------------------------------------------------
(* The inductive invariant, beside that of SessionSecret.                  *)

Place == {"closed", "create", "count", "begin", "write", "commit", "listening", "failed"}

DTypeOK ==
    /\ at \in [Start -> Place]
    /\ version \in [Start -> Versions]
    /\ snapshot \in [Start -> SUBSET Versions]
    /\ writer \in Start \cup {None}

\* Only servers that have their secret are at the database.
Placed ==
    \A s \in Start :
        /\ at[s] \notin {"closed", "failed"} => pc[s] = "serving"
        /\ at[s] = "failed" => pc[s] = "refused"

\* The write lock is held from Insert to Commit, on the last state.
Locked ==
    \A s \in Start :
        /\ writer = s <=> at[s] = "commit"
        /\ at[s] = "commit" => snapshot[s] = recorded /\ version[s] \notin recorded

\* Versions are taken in their order.
Come ==
    \A s \in Start :
        /\ 1..(version[s] - 1) \subseteq recorded
        /\ at[s] = "listening" => recorded = Versions

\* What a start has seen is no longer so, and it will fail.
Stale(s) ==
    \/ at[s] = "create" /\ Schema \in tables
    \/ at[s] = "begin" /\ version[s] \in recorded
    \/ at[s] = "write" /\ (snapshot[s] # recorded \/ version[s] \in recorded)

\* Whoever made it so goes on, until it listens or is killed.
Goes(s) ==
    \/ pc[s] = "dead"
    \/ at[s] \in {"count", "commit", "listening"}
    \/ at[s] \in {"begin", "write"} /\ ~Stale(s)

OneLeads == (\E s \in Start : at[s] = "failed" \/ Stale(s)) => \E s \in Start : Goes(s)

DInv == DTypeOK /\ Placed /\ Locked /\ Come /\ Recorded /\ OneLeads
=============================================================================
