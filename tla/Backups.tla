------------------------------- MODULE Backups -------------------------------
(***************************************************************************)
(* Online backups (internal/backup) beside the requests of the library:    *)
(* a snapshot of the database, a walk over books/ that packs what it finds *)
(* there, the checksum, the sidecar file, the backup_records row, and the  *)
(* removal of the backups that are too old.  Nothing orders two backups,   *)
(* or a backup and the requests.                                           *)
(*                                                                         *)
(* An archive is named after the second it was begun in.  What is written  *)
(* goes to the file that was opened, whatever its name has become, and     *)
(* what is read is the file that has the name then.                        *)
(***************************************************************************)
EXTENDS Library

CONSTANTS
    Backup,           \* requests for a backup, each handled once
    MaxClock,         \* the last second
    Retention,        \* seconds a backup is kept (BACKUP_RETENTION_DAYS)
    FaultsPerBackup   \* calls that fail in one backup

ASSUME BackupAssumption ==
    /\ None \notin Backup \cup 0..MaxClock
    /\ {MaxClock, Retention, FaultsPerBackup} \subseteq Nat

VARIABLES
    clock,
    bpc,        \* bpc[k]: the next step of backup k, or how it ended
    snap,       \* snap[k]: the files of active books, in its snapshot
    name,       \* name[k]: the second its archive is named after
    left,       \* left[k]: the books, or old backups, it has not come to
    cur,        \* cur[k]: the book or old backup it has come to
    queue,      \* queue[k]: the files of that book that are not packed yet
    packed,     \* packed[k]: the files packed in the archive it wrote
    closed,     \* the backups whose archive is complete
    entry,      \* entry[n]: the backup that wrote the archive with name n
    sum,        \* sum[k]: the checksum it computed
    sidecar,    \* sidecar[n]: the checksum in the .sha256 file of name n
    record,     \* record[k]: its row of backup_records
    bfaults     \* bfaults[k]: calls of it that have failed

archives == <<packed, closed, entry, sidecar>>
walk     == <<left, cur, queue>>
own      == <<snap, name, walk, sum>>
bvars    == <<clock, bpc, own, archives, record, bfaults>>
allVars  == <<vars, bvars>>

Second   == 0..MaxClock
BRunning == {"b_snap", "b_open", "b_list", "b_dir", "b_pack", "b_remove",
             "b_sum", "b_side", "b_stat", "b_record", "b_drop", "b_old",
             "b_files", "b_row"}
Busy     == {k \in Backup : bpc[k] \in BRunning}

Hash(k) == [of |-> k, packed |-> packed[k], closed |-> k \in closed]
Expired(k) == record[k].made + Retention < clock

-----------------------------------------------------------------------------
BAt(k, l) == bpc[k] = l
BGo(k, l) == bpc' = [bpc EXCEPT ![k] = l] /\ UNCHANGED <<clock, bfaults>>
BStep(k, l) == BGo(k, l) /\ UNCHANGED <<vars, own, archives, record>>

BFail(k, l) ==
    /\ bfaults[k] < FaultsPerBackup
    /\ bfaults' = [bfaults EXCEPT ![k] = @ + 1]
    /\ bpc' = [bpc EXCEPT ![k] = l]
    /\ UNCHANGED <<vars, clock, own, archives, record>>

BStart(k) == BAt(k, "idle") /\ BStep(k, "b_snap")

ActiveFiles == {f \in rows : Active(Home(f))}

\* VACUUM INTO reads what is committed; then the archive gets its name.
BSnap(k) ==
    /\ BAt(k, "b_snap")
    /\ \/ /\ snap' = [snap EXCEPT ![k] = ActiveFiles]
          /\ name' = [name EXCEPT ![k] = clock]
          /\ BGo(k, "b_open")
          /\ UNCHANGED <<vars, walk, sum, archives, record>>
       \/ BFail(k, "error")

\* O_EXCL; the caller removes the file whose name it could not have.
BOpen(k) ==
    /\ BAt(k, "b_open")
    /\ \/ /\ entry[name[k]] = None
          /\ entry' = [entry EXCEPT ![name[k]] = k]
          /\ BGo(k, "b_list")
          /\ UNCHANGED <<vars, own, packed, closed, sidecar, record>>
       \/ entry[name[k]] # None /\ BStep(k, "b_remove")
       \/ BFail(k, "b_remove")

BList(k) ==
    /\ BAt(k, "b_list")
    /\ \/ /\ left' = [left EXCEPT ![k] = {b \in Id : Live(b) \in dirs}]
          /\ BGo(k, "b_dir")
          /\ UNCHANGED <<vars, snap, name, cur, queue, sum, archives, record>>
       \/ BFail(k, "b_remove")

\* The next book, or the end of the archive; a directory that is gone fails it.
BDir(k) ==
    /\ BAt(k, "b_dir")
    /\ \/ \E b \in left[k] :
            /\ Live(b) \in dirs
            /\ left' = [left EXCEPT ![k] = @ \ {b}]
            /\ cur' = [cur EXCEPT ![k] = b]
            /\ queue' = [queue EXCEPT ![k] = {f \in Id : at[f] = Live(b)}]
            /\ BGo(k, "b_pack")
            /\ UNCHANGED <<vars, snap, name, sum, archives, record>>
       \/ (\E b \in left[k] : Live(b) \notin dirs) /\ BStep(k, "b_remove")
       \/ /\ left[k] = {}
          /\ closed' = closed \cup {k}
          /\ BGo(k, "b_sum")
          /\ UNCHANGED <<vars, own, packed, entry, sidecar, record>>
       \/ BFail(k, "b_remove")

BPack(k) ==
    /\ BAt(k, "b_pack")
    /\ \/ \E f \in queue[k] :
            /\ at[f] = Live(cur[k])
            /\ queue' = [queue EXCEPT ![k] = @ \ {f}]
            /\ packed' = [packed EXCEPT ![k] = @ \cup {f}]
            /\ BGo(k, "b_pack")
            /\ UNCHANGED <<vars, snap, name, left, cur, sum, closed, entry,
                           sidecar, record>>
       \/ (\E f \in queue[k] : at[f] # Live(cur[k])) /\ BStep(k, "b_remove")
       \/ queue[k] = {} /\ BStep(k, "b_dir")
       \/ BFail(k, "b_remove")

\* By its name, whoever wrote it.
BRemove(k) ==
    /\ BAt(k, "b_remove")
    /\ \/ /\ entry' = [entry EXCEPT ![name[k]] = None]
          /\ BGo(k, "error")
          /\ UNCHANGED <<vars, own, packed, closed, sidecar, record>>
       \/ BFail(k, "error")

BSum(k) ==
    /\ BAt(k, "b_sum")
    /\ \/ /\ entry[name[k]] # None
          /\ sum' = [sum EXCEPT ![k] = Hash(entry[name[k]])]
          /\ BGo(k, "b_side")
          /\ UNCHANGED <<vars, snap, name, walk, archives, record>>
       \/ entry[name[k]] = None /\ BStep(k, "error")
       \/ BFail(k, "error")

BSide(k) ==
    /\ BAt(k, "b_side")
    /\ \/ /\ sidecar' = [sidecar EXCEPT ![name[k]] = sum[k]]
          /\ BGo(k, "b_stat")
          /\ UNCHANGED <<vars, own, packed, closed, entry, record>>
       \/ BFail(k, "b_remove")

BStat(k) ==
    /\ BAt(k, "b_stat")
    /\ \/ entry[name[k]] # None /\ BStep(k, "b_record")
       \/ entry[name[k]] = None /\ BStep(k, "error")
       \/ BFail(k, "error")

BRecord(k) ==
    /\ BAt(k, "b_record")
    /\ \/ /\ Free
          /\ record' = [record EXCEPT ![k] =
                          [name |-> name[k], sum |-> sum[k], made |-> clock]]
          /\ BGo(k, "b_old")
          /\ UNCHANGED <<vars, own, archives>>
       \/ BFail(k, "b_drop")

RemoveFiles(k, n, l) ==
    /\ entry' = [entry EXCEPT ![n] = None]
    /\ sidecar' = [sidecar EXCEPT ![n] = None]
    /\ BGo(k, l)
    /\ UNCHANGED <<vars, snap, name, sum, packed, closed, record>>

BDrop(k) ==
    /\ BAt(k, "b_drop")
    /\ \/ RemoveFiles(k, name[k], "error") /\ UNCHANGED walk
       \/ BFail(k, "error")

-----------------------------------------------------------------------------
(* prune: every error is ignored.  Removing the files of an old backup is  *)
(* taken to succeed.                                                       *)

\* Mutant: what is kept and what is removed are mixed up.
BOldYoung(k) ==
    /\ BAt(k, "b_old")
    /\ left' = [left EXCEPT ![k] =
                  {q \in Backup : record[q] # None /\ ~Expired(q)}]
    /\ BGo(k, "b_files")
    /\ UNCHANGED <<vars, snap, name, cur, queue, sum, archives, record>>

BOld(k) ==
    /\ BAt(k, "b_old")
    /\ \/ /\ left' = [left EXCEPT ![k] =
                        {q \in Backup : record[q] # None /\ Expired(q)}]
          /\ BGo(k, "b_files")
          /\ UNCHANGED <<vars, snap, name, cur, queue, sum, archives, record>>
       \/ BFail(k, "ok")

BFiles(k) ==
    /\ BAt(k, "b_files")
    /\ \/ \E q \in left[k] :
            /\ left' = [left EXCEPT ![k] = @ \ {q}]
            /\ cur' = [cur EXCEPT ![k] = q]
            /\ UNCHANGED queue
            /\ RemoveFiles(k, name[q], "b_row")
       \/ left[k] = {} /\ BStep(k, "ok")

BRow(k) ==
    /\ BAt(k, "b_row")
    /\ \/ /\ Free
          /\ record' = [record EXCEPT ![cur[k]] = None]
          /\ BGo(k, "b_files")
          /\ UNCHANGED <<vars, own, archives>>
       \/ BFail(k, "b_files")

-----------------------------------------------------------------------------
Tick ==
    /\ clock < MaxClock
    /\ clock' = clock + 1
    /\ UNCHANGED <<vars, bpc, own, archives, record, bfaults>>

\* The process stops: requests and backups are lost, the files stay.
Stop ==
    /\ Busy # {} \/ ~Settled
    /\ IF Settled
       THEN /\ crashes < MaxCrashes
            /\ crashes' = crashes + 1
            /\ UNCHANGED <<disk, pc, arg, seen, faults, database>>
       ELSE Crash
    /\ bpc' = [k \in Backup |-> IF k \in Busy THEN "lost" ELSE bpc[k]]
    /\ UNCHANGED <<clock, own, archives, record, bfaults>>

Request == (\E r \in Req : Start(r) \/ Work(r)) /\ UNCHANGED bvars

BWork(k) ==
    \/ BSnap(k) \/ BOpen(k) \/ BList(k) \/ BDir(k) \/ BPack(k) \/ BRemove(k)
    \/ BSum(k) \/ BSide(k) \/ BStat(k) \/ BRecord(k) \/ BDrop(k)
    \/ BOld(k) \/ BFiles(k) \/ BRow(k)

BInit ==
    /\ Init
    /\ clock = 0
    /\ bpc = [k \in Backup |-> "idle"]
    /\ snap = [k \in Backup |-> {}]
    /\ name = [k \in Backup |-> None]
    /\ left = [k \in Backup |-> {}]
    /\ cur = [k \in Backup |-> None]
    /\ queue = [k \in Backup |-> {}]
    /\ packed = [k \in Backup |-> {}]
    /\ closed = {}
    /\ entry = [n \in Second |-> None]
    /\ sum = [k \in Backup |-> None]
    /\ sidecar = [n \in Second |-> None]
    /\ record = [k \in Backup |-> None]
    /\ bfaults = [k \in Backup |-> 0]

BNext ==
    \/ Request \/ Stop \/ Tick
    \/ \E k \in Backup : BStart(k) \/ BWork(k)

BSpec == BInit /\ [][BNext]_allVars

-----------------------------------------------------------------------------
Sum == [of : Backup, packed : SUBSET Id, closed : BOOLEAN]

\* Every variable has its type; a backup on record has a checksum.
BTypeOK ==
    /\ clock \in Second
    /\ bpc \in [Backup -> BRunning \cup Ended \cup {"idle"}]
    /\ snap \in [Backup -> SUBSET Id]
    /\ name \in [Backup -> Second \cup {None}]
    /\ left \in [Backup -> SUBSET (Id \cup Backup)]
    /\ cur \in [Backup -> Id \cup Backup \cup {None}]
    /\ queue \in [Backup -> SUBSET Id]
    /\ packed \in [Backup -> SUBSET Id]
    /\ closed \subseteq Backup
    /\ entry \in [Second -> Backup \cup {None}]
    /\ sum \in [Backup -> Sum \cup {None}]
    /\ sidecar \in [Second -> Sum \cup {None}]
    /\ record \in [Backup ->
                     [name : Second, sum : Sum, made : Second] \cup {None}]
    /\ bfaults \in [Backup -> 0..FaultsPerBackup]

\* Service.Validate of backup k, and the check of restore.sh of the sidecar.
Validates(k) ==
    LET n == record[k].name IN
    /\ entry[n] # None
    /\ Hash(entry[n]) = record[k].sum
    /\ sidecar[n] = record[k].sum

\* Another backup got its archive's name in the same second.  One of the two
\* cannot create the file, and removes it then: it may be that of the other.
Namesake(k) == \E q \in Backup \ {k} : name[q] # None /\ name[q] = name[k]

\* A backup on record that is not too old validates, whatever other backups
\* begin, fail and prune meanwhile, as long as none has its name.
Retained ==
    \A k \in Backup :
        record[k] # None /\ ~Expired(k) /\ ~Namesake(k) => Validates(k)

\* An archive on record holds the file of every row that its own snapshot of
\* the database has in an active book: restored, no row is without its file.
\* What a backup puts on record beside a namesake may be the other's archive.
SnapshotArchived ==
    \A k \in Backup : record[k] # None /\ ~Namesake(k) =>
        \A f \in snap[k] : Accepted(Home(f)) => f \in record[k].sum.packed

-----------------------------------------------------------------------------
(* The inductive invariants behind BTypeOK and Retained.                   *)

\* What a backup has when it comes to a step.
BShapes ==
    \A k \in Backup :
        /\ bpc[k] \in BRunning \ {"b_snap"} => name[k] \in Second
        /\ bpc[k] \in {"b_side", "b_stat", "b_record"} => sum[k] \in Sum
        /\ bpc[k] \in {"b_files", "b_row"} => left[k] \subseteq Backup

\* A backup has no name before its snapshot is taken.
Unnamed == \A k \in Backup : bpc[k] \in {"idle", "b_snap"} => name[k] = None

\* An archive has the name of the backup that wrote it.
EntriesOwned ==
    \A n \in Second : entry[n] # None => name[entry[n]] = n

\* What a backup without a namesake knows of its archive before it records it.
Summed ==
    \A k \in Backup : ~Namesake(k) =>
        /\ bpc[k] \in {"b_side", "b_stat", "b_record"} => sum[k] = Hash(k)
        /\ bpc[k] \in {"b_stat", "b_record"} => sidecar[name[k]] = sum[k]
        /\ bpc[k] = "b_record" => entry[name[k]] = k

\* What a row says, and that its archive is there or may be removed.
Past == {"b_old", "b_files", "b_row", "ok", "lost"}
RecordsTrue ==
    \A k \in Backup : record[k] # None =>
        /\ bpc[k] \in Past
        /\ record[k].name = name[k]
        /\ ~Namesake(k) =>
              /\ record[k].sum = Hash(k)
              /\ Expired(k) \/ (entry[name[k]] = k /\ sidecar[name[k]] = Hash(k))

\* What is being pruned was on record and is too old.
OldOnly ==
    \A k \in Backup : bpc[k] \in {"b_files", "b_row"} =>
        \A q \in left[k] : bpc[q] \in Past /\ (record[q] = None \/ Expired(q))

RetainInv ==
    /\ BTypeOK /\ BShapes /\ Unnamed /\ EntriesOwned
    /\ Summed /\ RecordsTrue /\ OldOnly

-----------------------------------------------------------------------------
(* Beside them, the inductive invariant behind SnapshotArchived, where no  *)
(* client deletes.                                                         *)

NothingDeleted ==
    \A r \in Req : arg[r].op \notin {"delete", "delete_file"}

\* A book whose request has failed or been lost, or is undoing it.
Undoing   == {"c_unrow", "c_rmdir", "p_files", "p_book", "p_dir", "j_failed"}
Doomed(b) == b \in Req /\ pc[b] \in Undoing \cup {"error", "lost"}

\* The file of a row, and of one about to be committed, is in its book.
InBook(f) == at[f] = Live(Home(f)) /\ Live(Home(f)) \in dirs
InPlace ==
    \A f \in Id :
        f \in rows \/ (f \in Req /\ pc[f] = "u_commit") =>
            Doomed(Home(f)) \/ InBook(f)

\* What a snapshot has is still there.
SnapKept ==
    \A k \in Backup : \A f \in snap[k] :
        /\ f \in rows \/ Doomed(Home(f))
        /\ f \in Req => pc[f] # "idle"

\* What the walk has not packed, it comes to.
WalkCovers ==
    \A k \in Backup : \A f \in snap[k] : ~Doomed(Home(f)) =>
        /\ bpc[k] = "b_dir" => f \in packed[k] \/ Home(f) \in left[k]
        /\ bpc[k] = "b_pack" =>
              \/ f \in packed[k] \/ Home(f) \in left[k]
              \/ Home(f) = cur[k] /\ f \in queue[k]
        /\ bpc[k] \in {"b_sum", "b_side", "b_stat", "b_record"} \/ record[k] # None =>
              f \in packed[k]

ArchiveInv == NothingDeleted /\ InPlace /\ SnapKept /\ WalkCovers
=============================================================================
