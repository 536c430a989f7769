------------------------------ MODULE Library ------------------------------
(***************************************************************************)
(* The book service (internal/book): every HTTP request that creates,      *)
(* uploads, deletes, restores, updates or imports runs in a goroutine of   *)
(* its own over one SQLite database and one data directory, and nothing    *)
(* but SQLite orders them.  A request is a program counter; a step is one  *)
(* SQL statement, one transaction, or one file system call, together with  *)
(* the pure code around it.                                                *)
(*                                                                         *)
(* Any database or file system call may fail (FaultsPerReq bounds how many *)
(* do in one request), and the process may stop at any point, because it   *)
(* is killed or because the ten seconds main.go gives running handlers on  *)
(* shutdown are over.                                                      *)
(***************************************************************************)
EXTENDS Storage, Naturals, FiniteSets

CONSTANTS
    Content,       \* what a file may contain, as told apart by SHA-256
    Ops,           \* the operations clients use
    Overlap,       \* sets of operations whose requests may run at once
    MaxInFlight,   \* requests that run at once
    FaultsPerReq,  \* calls that fail in one request
    MaxCrashes,    \* times the process stops
    None           \* no request, no argument

AllOps ==
    {"create", "upload", "delete", "restore", "delete_file", "update", "import"}

ASSUME SeededContent == Seeded \subseteq Content
ASSUME OpsAssumption == Ops \subseteq AllOps
ASSUME OverlapAssumption == \A together \in Overlap : together \subseteq AllOps
ASSUME BoundsAreNat ==
    /\ MaxInFlight \in Nat
    /\ FaultsPerReq \in Nat
    /\ MaxCrashes \in Nat
ASSUME NoneIsNoValue == None \notin Req \cup Seeded \cup Content \cup AllOps

VARIABLES
    pc,         \* pc[r]: the next step of request r, or how it ended
    arg,        \* arg[r]: what the request asks for
    seen,       \* seen[r]: the trash_path a Restore read
    faults,     \* faults[r]: calls of request r that have failed
    crashes,    \* times the process has stopped
    status,     \* status[b]: the books table, deleted_at folded in
    trashPath,  \* trashPath[b]: books.trash_path
    rows,       \* the committed rows of book_files, by file
    writer,     \* the request that holds SQLite's write lock
    job         \* job[r]: the import_jobs row of request r

control   == <<arg, seen, crashes>>
catalogue == <<status, trashPath, rows>>
database  == <<catalogue, writer, job>>
vars      == <<disk, pc, faults, control, database>>

-----------------------------------------------------------------------------
CreateSteps  == {"c_dir", "c_tx", "c_meta", "c_get", "c_unrow", "c_rmdir"}
UploadSteps  == {"u_check", "u_temp", "u_dup", "u_insert", "u_mkdir",
                 "u_rename", "u_commit", "u_drop", "u_unplace"}
DeleteSteps  == {"d_check", "d_move", "d_mark", "d_undo"}
RestoreSteps == {"r_check", "r_move", "r_mark", "r_undo"}
FileSteps    == {"f_check", "f_move", "f_unrow", "f_mkdir", "f_back"}
UpdateSteps  == {"e_check", "e_tx", "e_meta"}
ImportSteps  == {"j_new", "i_parse", "i_finish", "p_files", "p_book", "p_dir",
                 "j_ok", "j_failed"}

Running == CreateSteps \cup UploadSteps \cup DeleteSteps \cup RestoreSteps
             \cup FileSteps \cup UpdateSteps \cup ImportSteps
Ended   == {"ok", "error", "lost"}
Label   == Running \cup Ended \cup {"idle"}

InFlight == {r \in Req : pc[r] \in Running}
Settled  == InFlight = {}

FirstStep ==
    [o \in AllOps |->
        CASE o = "create"      -> "c_dir"
          [] o = "upload"      -> "u_check"
          [] o = "delete"      -> "d_check"
          [] o = "restore"     -> "r_check"
          [] o = "delete_file" -> "f_check"
          [] o = "update"      -> "e_check"
          [] o = "import"      -> "j_new"]

\* What a request carries.  A create or an import mints a book, an upload or
\* an import mints a file, and each takes the name of its request.
NoArg == [op |-> None, book |-> None, file |-> None, content |-> None]
Arg   == [op : AllOps \cup {None}, book : Id \cup {None},
          file : Id \cup {None}, content : Content \cup {None}]

\* book_files.book_id and book_files.sha256 never change once written.
Home(f)      == IF f \in Seeded THEN f ELSE arg[f].book
ContentOf(f) == IF f \in Seeded THEN f ELSE arg[f].content

Active(b)  == status[b] = "active"
Trashed(b) == status[b] = "trashed"

-----------------------------------------------------------------------------
(***************************************************************************)
(* Steps.  At begins one, Go ends it; Fail is the call that did not work.  *)
(* Free is the write lock: a statement that writes waits for it, or times  *)
(* out, which is a Fail.                                                   *)
(***************************************************************************)
At(r, l) == pc[r] = l

Go(r, l) ==
    /\ pc' = [pc EXCEPT ![r] = l]
    /\ UNCHANGED <<faults, control>>

Step(r, l) == Go(r, l) /\ UNCHANGED <<disk, database>>

Fail(r, l) ==
    /\ faults[r] < FaultsPerReq
    /\ faults' = [faults EXCEPT ![r] = @ + 1]
    /\ pc' = [pc EXCEPT ![r] = l]
    /\ UNCHANGED <<control, disk, database>>

Free == writer = None

\* A query or a call that decides how the request goes on.
Test(r, l, holds, yes, no) ==
    /\ At(r, l)
    /\ \/ holds /\ Step(r, yes)
       \/ ~holds /\ Step(r, no)
       \/ Fail(r, no)

\* The file system calls of one step.
MakeDir(r, l, d, next, failed) ==
    /\ At(r, l)
    /\ \/ EnsureDir(d) /\ Go(r, next) /\ UNCHANGED database
       \/ Fail(r, failed)

MoveBook(r, l, d, e, next, failed) ==
    /\ At(r, l)
    /\ \/ /\ CanMoveDir(d, e)
          /\ MoveDir(d, e)
          /\ Go(r, next)
          /\ UNCHANGED database
       \/ ~CanMoveDir(d, e) /\ Step(r, failed)
       \/ Fail(r, failed)

MoveFile(r, l, possible, f, p, next, failed) ==
    /\ At(r, l)
    /\ \/ possible /\ PutFile(f, p) /\ Go(r, next) /\ UNCHANGED database
       \/ ~possible /\ Step(r, failed)
       \/ Fail(r, failed)

\* The statements on books: an UPDATE by primary key, which neither asks again
\* what state the book is in nor minds that its row is gone; and a DELETE.
MarkBook(r, l, state, path, next, failed) ==
    LET b == arg[r].book IN
    /\ At(r, l)
    /\ \/ /\ Free
          /\ IF status[b] = "absent"
             THEN UNCHANGED <<status, trashPath>>
             ELSE /\ status' = [status EXCEPT ![b] = state]
                  /\ trashPath' = [trashPath EXCEPT ![b] = path]
          /\ Go(r, next)
          /\ UNCHANGED <<disk, rows, writer, job>>
       \/ Fail(r, failed)

\* Compensations ignore every error, their own too.
ForgetBook(r, l, next) ==
    /\ At(r, l)
    /\ \/ /\ Free
          /\ status' = [status EXCEPT ![r] = "absent"]
          /\ trashPath' = [trashPath EXCEPT ![r] = Nowhere]
          /\ Go(r, next)
          /\ UNCHANGED <<disk, rows, writer, job>>
       \/ Fail(r, next)

RemoveBook(r, l, next) ==
    /\ At(r, l)
    /\ \/ RemoveDir(Live(r)) /\ Go(r, next) /\ UNCHANGED database
       \/ Fail(r, next)

\* Import calls Create, AddFile and Update: where it goes on when they return.
Importing(r) == arg[r].op = "import"
Created(r)   == IF Importing(r) THEN "u_check"  ELSE "ok"
NotMade(r)   == IF Importing(r) THEN "j_failed" ELSE "error"
Uploaded(r)  == IF Importing(r) THEN "i_parse"  ELSE "ok"
Updated(r)   == IF Importing(r) THEN "i_finish" ELSE "ok"

\* Mutant: the import that fails forgets to purge.
RefusedUnpurged(r) == IF Importing(r) THEN "j_failed" ELSE "error"

Refused(r)   == IF Importing(r) THEN "p_files"  ELSE "error"

\* writeMetadata reads the row back and writes into the book's directory.
CanWriteMetadata(b) == status[b] # "absent" /\ Live(b) \in dirs

-----------------------------------------------------------------------------
(* Service.Create.                                                         *)

CDir(r) == MakeDir(r, "c_dir", Live(r), "c_tx", NotMade(r))

CTx(r) ==
    /\ At(r, "c_tx")
    /\ \/ /\ Free
          /\ status' = [status EXCEPT ![r] = "active"]
          /\ Go(r, "c_meta")
          /\ UNCHANGED <<disk, trashPath, rows, writer, job>>
       \/ Fail(r, "c_rmdir")

CMeta(r)  == Test(r, "c_meta", CanWriteMetadata(r), "c_get", "c_unrow")
CGet(r)   == Test(r, "c_get", Active(r), Created(r), NotMade(r))
CUnrow(r) == ForgetBook(r, "c_unrow", "c_rmdir")
CRmdir(r) == RemoveBook(r, "c_rmdir", NotMade(r))

Create(r) == CDir(r) \/ CTx(r) \/ CMeta(r) \/ CGet(r) \/ CUnrow(r) \/ CRmdir(r)

-----------------------------------------------------------------------------
(* Service.AddFile.  The bytes go to imports/, the row is inserted in a    *)
(* transaction, the file is moved into the book's directory while that     *)
(* transaction holds SQLite's write lock, and then it commits.             *)

UCheck(r) == Test(r, "u_check", Active(arg[r].book), "u_temp", Refused(r))

\* The copy may turn out too long, or its header not that of its format.
UTemp(r) ==
    \E l \in {"u_dup", "u_drop"} :
        MoveFile(r, "u_temp", TRUE, r, Imports, l, Refused(r))

Catalogued(c) == \E f \in rows : ContentOf(f) = c

UDup(r) == Test(r, "u_dup", ~Catalogued(arg[r].content), "u_insert", "u_drop")

\* Mutant: the table has no unique index on sha256.
UInsertUnindexed(r) ==
    /\ At(r, "u_insert")
    /\ \/ /\ Free
          /\ writer' = r
          /\ Go(r, "u_mkdir")
          /\ UNCHANGED <<disk, catalogue, job>>
       \/ Fail(r, "u_drop")

\* Mutant: the row is inserted outside the transaction.
UInsertCommitted(r) ==
    /\ At(r, "u_insert")
    /\ Free
    /\ ~Catalogued(arg[r].content)
    /\ rows' = rows \cup {r}
    /\ Go(r, "u_mkdir")
    /\ UNCHANGED <<disk, status, trashPath, writer, job>>

\* The unique index on sha256 refuses what was committed since the count.
UInsert(r) ==
    /\ At(r, "u_insert")
    /\ \/ /\ Free
          /\ ~Catalogued(arg[r].content)
          /\ writer' = r
          /\ Go(r, "u_mkdir")
          /\ UNCHANGED <<disk, catalogue, job>>
       \/ Free /\ Catalogued(arg[r].content) /\ Step(r, "u_drop")
       \/ Fail(r, "u_drop")

\* Move first makes the parent of its destination, then renames.
UMkdir(r) == MakeDir(r, "u_mkdir", Live(arg[r].book), "u_rename", "u_drop")

\* Mutant: the error of the move is ignored.
URenameUnchecked(r) ==
    LET d == Live(arg[r].book) IN
    MoveFile(r, "u_rename", d \in dirs, r, d, "u_commit", "u_commit")

URename(r) ==
    LET d == Live(arg[r].book) IN
    MoveFile(r, "u_rename", d \in dirs, r, d, "u_commit", "u_drop")

\* Whether it commits or not, the transaction is over.
UCommit(r) ==
    /\ At(r, "u_commit")
    /\ writer' = None
    /\ UNCHANGED <<disk, control, status, trashPath, job>>
    /\ \/ /\ rows' = rows \cup {r}
          /\ pc' = [pc EXCEPT ![r] = Uploaded(r)]
          /\ UNCHANGED faults
       \/ /\ faults[r] < FaultsPerReq
          /\ faults' = [faults EXCEPT ![r] = @ + 1]
          /\ pc' = [pc EXCEPT ![r] = "u_unplace"]
          /\ UNCHANGED rows

\* Mutant: the temporary file is removed, the transaction left open.
UDropOpen(r) == MoveFile(r, "u_drop", TRUE, r, Nowhere, Refused(r), Refused(r))

\* Mutant: the temporary file is left behind.
UDropUnremoved(r) ==
    /\ At(r, "u_drop")
    /\ writer' = IF writer = r THEN None ELSE writer
    /\ Go(r, Refused(r))
    /\ UNCHANGED <<disk, catalogue, job>>

\* Rollback and removal of the temporary file.
UDrop(r) ==
    /\ At(r, "u_drop")
    /\ PutFile(r, Nowhere)
    /\ writer' = IF writer = r THEN None ELSE writer
    /\ Go(r, Refused(r))
    /\ UNCHANGED <<catalogue, job>>

\* By its path: a file whose directory has been moved since is not removed.
UUnplace(r) ==
    MoveFile(r, "u_unplace", at[r] = Live(arg[r].book), r, Nowhere,
             Refused(r), Refused(r))

Upload(r) ==
    \/ UCheck(r) \/ UTemp(r) \/ UDup(r) \/ UInsert(r) \/ UMkdir(r)
    \/ URename(r) \/ UCommit(r) \/ UDrop(r) \/ UUnplace(r)

-----------------------------------------------------------------------------
(* Service.Delete and Service.Restore.  The directory moves first, the row *)
(* follows, and a row that cannot be written moves the directory back.     *)

DCheck(r) == Test(r, "d_check", Active(arg[r].book), "d_move", "error")

DMove(r) == MoveBook(r, "d_move", Live(arg[r].book), Slot(r), "d_mark", "error")

\* Mutant: a Delete whose row cannot be written leaves the directory moved.
DMarkNoUndo(r) == MarkBook(r, "d_mark", "trashed", Slot(r), "ok", "error")

DMark(r) == MarkBook(r, "d_mark", "trashed", Slot(r), "ok", "d_undo")
DUndo(r) == MoveBook(r, "d_undo", Slot(r), Live(arg[r].book), "error", "error")

Delete(r) == DCheck(r) \/ DMove(r) \/ DMark(r) \/ DUndo(r)

RCheck(r) ==
    /\ At(r, "r_check")
    /\ \/ /\ Trashed(arg[r].book)
          /\ trashPath[arg[r].book] # Nowhere
          /\ seen' = [seen EXCEPT ![r] = trashPath[arg[r].book]]
          /\ pc' = [pc EXCEPT ![r] = "r_move"]
          /\ UNCHANGED <<faults, arg, crashes, disk, database>>
       \/ ~Trashed(arg[r].book) /\ Step(r, "error")
       \/ trashPath[arg[r].book] = Nowhere /\ Step(r, "error")
       \/ Fail(r, "error")

RMove(r) == MoveBook(r, "r_move", seen[r], Live(arg[r].book), "r_mark", "error")
RMark(r) == MarkBook(r, "r_mark", "active", Nowhere, "ok", "r_undo")
RUndo(r) == MoveBook(r, "r_undo", Live(arg[r].book), seen[r], "error", "error")

Restore(r) == RCheck(r) \/ RMove(r) \/ RMark(r) \/ RUndo(r)

-----------------------------------------------------------------------------
(* Service.DeleteFile.  It does not ask whether the book is in the trash;  *)
(* then the file is not where its row says, and the move fails.  Moving it *)
(* back makes the book's directory when it is gone.                        *)

FCheck(r) == Test(r, "f_check", arg[r].file \in rows, "f_move", "error")

FMove(r) ==
    MoveFile(r, "f_move", at[arg[r].file] = Live(arg[r].book),
             arg[r].file, TrashFiles, "f_unrow", "error")

DropRows(r, l, gone, next, failed) ==
    /\ At(r, l)
    /\ \/ /\ Free
          /\ rows' = rows \ gone
          /\ Go(r, next)
          /\ UNCHANGED <<disk, status, trashPath, writer, job>>
       \/ Fail(r, failed)

FilesOf(b) == {f \in rows : Home(f) = b}

\* Mutant: the rows are deleted by book_id.
FUnrowByBook(r) == DropRows(r, "f_unrow", FilesOf(arg[r].book), "ok", "f_mkdir")

FUnrow(r) == DropRows(r, "f_unrow", {arg[r].file}, "ok", "f_mkdir")
FMkdir(r) == MakeDir(r, "f_mkdir", Live(arg[r].book), "f_back", "error")

FBack(r) ==
    LET d == Live(arg[r].book) IN
    MoveFile(r, "f_back", d \in dirs, arg[r].file, d, "error", "error")

DeleteFile(r) == FCheck(r) \/ FMove(r) \/ FUnrow(r) \/ FMkdir(r) \/ FBack(r)

-----------------------------------------------------------------------------
(* Service.Update: what it writes is bibliographic and not modelled, when  *)
(* it refuses is, because Import purges the book then.                     *)

ECheck(r) == Test(r, "e_check", Active(arg[r].book), "e_tx", Refused(r))

ETx(r) ==
    /\ At(r, "e_tx")
    /\ \/ Free /\ Step(r, "e_meta")
       \/ Fail(r, Refused(r))

EMeta(r) ==
    Test(r, "e_meta", Active(arg[r].book) /\ CanWriteMetadata(arg[r].book),
         Updated(r), Refused(r))

Update(r) == ECheck(r) \/ ETx(r) \/ EMeta(r)

-----------------------------------------------------------------------------
(* Handler.Import and Service.Import: a job row, then Create, AddFile, the *)
(* parser, Update, the cover, and a purge of the new book when one of them *)
(* after Create fails.                                                     *)

WriteJob(r, l, result, next, failed) ==
    /\ At(r, l)
    /\ \/ /\ Free
          /\ job' = [job EXCEPT ![r] = result]
          /\ Go(r, next)
          /\ UNCHANGED <<disk, catalogue, writer>>
       \/ Fail(r, failed)

JNew(r) == WriteJob(r, "j_new", "processing", "c_dir", "error")

\* The parser may not understand the file.
IParse(r) ==
    /\ At(r, "i_parse")
    /\ \E l \in {"e_check", "p_files"} : Step(r, l)

\* page_count and the cover, when the file has them; the cover goes into the
\* book's directory.  The last Get has no purge.
IFinish(r) ==
    /\ At(r, "i_finish")
    /\ \/ Active(r) /\ Step(r, "j_ok")
       \/ ~Active(r) /\ Step(r, "j_failed")
       \/ Live(r) \notin dirs /\ Step(r, "p_files")
       \/ \E l \in {"p_files", "j_failed"} : Fail(r, l)

\* purgeImport deletes by book, not by file.
PFiles(r) == DropRows(r, "p_files", FilesOf(r), "p_book", "p_book")
PBook(r)  == ForgetBook(r, "p_book", "p_dir")

PDir(r)   == RemoveBook(r, "p_dir", "j_failed")

\* The client is answered whether or not the job row could be written.
JOk(r)     == WriteJob(r, "j_ok", "success", "ok", "ok")
JFailed(r) == WriteJob(r, "j_failed", "failed", "error", "error")

Import(r) ==
    \/ JNew(r) \/ IParse(r) \/ IFinish(r) \/ PFiles(r) \/ PBook(r) \/ PDir(r)
    \/ JOk(r) \/ JFailed(r)

-----------------------------------------------------------------------------
(* Clients name the books and files a listing has shown them.              *)

Known == {b \in Id : status[b] # "absent"}

Asks(r, o) ==
    CASE o = "create" ->
            {[op |-> o, book |-> r, file |-> None, content |-> None]}
      [] o = "import" ->
            {[op |-> o, book |-> r, file |-> r, content |-> c] : c \in Content}
      [] o = "upload" ->
            {[op |-> o, book |-> b, file |-> r, content |-> c] :
                b \in Known, c \in Content}
      [] o = "delete_file" ->
            {[op |-> o, book |-> Home(f), file |-> f, content |-> None] :
                f \in rows}
      [] OTHER ->
            {[op |-> o, book |-> b, file |-> None, content |-> None] :
                b \in Known}

\* The bound on what clients do at the same time.
MayJoin(o) ==
    \/ InFlight = {}
    \/ \E together \in Overlap : {o} \cup {arg[q].op : q \in InFlight} \subseteq together

Start(r) ==
    /\ pc[r] = "idle"
    /\ Cardinality(InFlight) < MaxInFlight
    /\ \E o \in Ops : \E a \in Asks(r, o) :
          /\ MayJoin(o)
          /\ arg' = [arg EXCEPT ![r] = a]
          /\ pc' = [pc EXCEPT ![r] = FirstStep[o]]
    /\ UNCHANGED <<seen, faults, crashes, disk, database>>

\* The process stops and starts again: every running request is lost, SQLite
\* rolls an open transaction back, and nothing looks at what is left.
Crash ==
    /\ crashes < MaxCrashes
    /\ ~Settled
    /\ crashes' = crashes + 1
    /\ pc' = [r \in Req |-> IF r \in InFlight THEN "lost" ELSE pc[r]]
    /\ writer' = None
    /\ UNCHANGED <<faults, arg, seen, disk, catalogue, job>>

Work(r) ==
    \/ Create(r) \/ Upload(r) \/ Delete(r) \/ Restore(r)
    \/ DeleteFile(r) \/ Update(r) \/ Import(r)

Init ==
    /\ dirs = {Live(b) : b \in Seeded}
    /\ at = [f \in Id |-> IF f \in Seeded THEN Live(f) ELSE Nowhere]
    /\ pc = [r \in Req |-> "idle"]
    /\ arg = [r \in Req |-> NoArg]
    /\ seen = [r \in Req |-> Nowhere]
    /\ faults = [r \in Req |-> 0]
    /\ crashes = 0
    /\ status = [b \in Id |-> IF b \in Seeded THEN "active" ELSE "absent"]
    /\ trashPath = [b \in Id |-> Nowhere]
    /\ rows = Seeded
    /\ writer = None
    /\ job = [r \in Req |-> "none"]

Next == Crash \/ \E r \in Req : Start(r) \/ Work(r)

Spec == Init /\ [][Next]_vars

\* Goroutines are scheduled, and a writer that waits is served in the end;
\* nobody has to send a request, and the process need not stop.
FairSpec == Spec /\ \A r \in Req : WF_vars(Work(r))

-----------------------------------------------------------------------------
ControlTypeOK ==
    /\ pc \in [Req -> Label]
    /\ arg \in [Req -> Arg]
    /\ seen \in [Req -> Slots \cup {Nowhere}]
    /\ faults \in [Req -> 0..FaultsPerReq]
    /\ crashes \in 0..MaxCrashes

DatabaseTypeOK ==
    /\ status \in [Id -> {"absent", "active", "trashed"}]
    /\ trashPath \in [Id -> Slots \cup {Nowhere}]
    /\ rows \subseteq Id
    /\ writer \in Req \cup {None}
    /\ job \in [Req -> {"none", "processing", "success", "failed"}]

\* Every variable has its type: no step leaves a row, a path or a program
\* counter with a value the code cannot give it.
TypeOK == StorageTypeOK /\ ControlTypeOK /\ DatabaseTypeOK

\* No two rows of book_files hold the same content, however uploads race
\* between the count of AddFile and its insert (models.go, uniqueIndex).
UniqueContent ==
    \A f, g \in rows : ContentOf(f) = ContentOf(g) => f = g

\* A book nobody undoes any more: it was there, or its request was answered.
Accepted(b) == b \in Seeded \/ pc[b] = "ok"

\* p is a slot of the trash that a Delete of book b made.
SlotOf(p, b) ==
    \E s \in Req : p = Slot(s) /\ arg[s].op = "delete" /\ arg[s].book = b

Located(f) ==
    \/ at[f] \in {Live(Home(f)), TrashFiles}
    \/ SlotOf(at[f], Home(f))

\* The bytes of every catalogued file of an accepted book are on disk: in the
\* book's directory, in a slot of the trash that a Delete of this very book
\* made, or in trash/files/ while a DeleteFile is about it.  Holds whatever
\* runs at the same time, fails or crashes.
FilesKept ==
    \A f \in rows : Accepted(Home(f)) => Located(f)

\* What clients have asked to be deleted.
DeletedBook(b) == \E d \in Req : arg[d].op = "delete" /\ arg[d].book = b
DeletedFile(f) == \E d \in Req : arg[d].op = "delete_file" /\ arg[d].file = f

\* An import that failed takes its book away, with all that is in it.
FailedImport(b) ==
    /\ b \in Req
    /\ arg[b].op = "import"
    /\ pc[b] \in {"p_book", "p_dir", "j_failed", "error", "lost"}

\* So does a Create that could not write its metadata: the book has been
\* visible since its row was committed, and others may have uploaded to it.
\* Here it is any Create that was not answered with success.
Makers == {"create", "import"}
FailedCreate(b) ==
    /\ b \in Req
    /\ arg[b].op \in Makers
    /\ pc[b] \in {"c_rmdir", "j_failed", "error", "lost"}

\* What an answered upload promised is kept until a client deletes the file: its
\* row, the row of its book, and the bytes, in one of the places of FilesKept.
\* Two undos take it from another client all the same: the purge of an import
\* that fails (purgeImport, service.go:434-440) the rows and the directory, a
\* Create that is taken back (service.go:84-87) the row of the book and the
\* directory, which leaves a row of book_files that leads nowhere.  Nothing else
\* does, whatever overlaps, fails or crashes.
UploadKept ==
    \A r \in Req :
        LET b == arg[r].book IN
        arg[r].op = "upload" /\ pc[r] = "ok" /\ ~DeletedFile(r) =>
            /\ r \in rows \/ FailedImport(b)
            /\ \/ status[b] # "absent" /\ Located(r)
               \/ FailedImport(b)
               \/ FailedCreate(b)

\* When nothing runs, the catalogue says what is on the disk: an active book
\* has its directory, a trashed one the slot its row names and no directory
\* in the way of Restore; every row's file is there, and no file, temporary
\* or moved, is left that no row leads to.
BookOnDisk(b) ==
    /\ Live(b) \in dirs <=> Active(b)
    /\ Trashed(b) => trashPath[b] \in dirs

SlotsOwned ==
    \A s \in Slots \cap dirs : \E b \in Id : Trashed(b) /\ trashPath[b] = s

FileOnDisk(f) ==
    IF f \in rows
    THEN \/ Active(Home(f)) /\ at[f] = Live(Home(f))
         \/ Trashed(Home(f)) /\ at[f] = trashPath[Home(f)]
    ELSE at[f] \in {Nowhere, TrashFiles}

Consistent ==
    Settled => /\ \A b \in Id : BookOnDisk(b)
               /\ SlotsOwned
               /\ \A f \in Id : FileOnDisk(f)

\* An import job that has ended tells what became of its import: the book and
\* its file are there unless a client deleted them since, and a failed import
\* leaves nothing behind.
JobsTruthful ==
    Settled => \A r \in Req :
        /\ job[r] # "processing"
        /\ job[r] = "success" =>
              /\ Active(r) \/ (Trashed(r) /\ DeletedBook(r))
              /\ r \in rows \/ DeletedFile(r)
        /\ job[r] = "failed" =>
              /\ ~Active(r) /\ ~Trashed(r)
              /\ r \notin rows /\ at[r] = Nowhere
              /\ Live(r) \notin dirs

-----------------------------------------------------------------------------
(* The inductive invariant behind UniqueContent, FilesKept and UploadKept. *)

\* What a request carries fits the steps it takes.
Shape(r) ==
    /\ arg[r].op \in AllOps
    /\ arg[r].book \in Id
    /\ arg[r].op \in {"create", "import"} => arg[r].book = r
    /\ arg[r].op \in {"upload", "import"} =>
          arg[r].file = r /\ arg[r].content \in Content
    /\ arg[r].op = "delete_file" =>
          /\ arg[r].file \in Id \ {q \in Req : q = r \/ pc[q] = "idle"}
          /\ arg[r].book = Home(arg[r].file)
    /\ pc[r] \in CreateSteps  => arg[r].op \in {"create", "import"}
    /\ pc[r] \in UploadSteps  => arg[r].op \in {"upload", "import"}
    /\ pc[r] \in UpdateSteps  => arg[r].op \in {"update", "import"}
    /\ pc[r] \in ImportSteps  => arg[r].op = "import"
    /\ pc[r] \in DeleteSteps  => arg[r].op = "delete"
    /\ pc[r] \in RestoreSteps => arg[r].op = "restore"
    /\ pc[r] \in FileSteps    => arg[r].op = "delete_file"

Shapes ==
    \A r \in Req : IF pc[r] = "idle" THEN arg[r] = NoArg ELSE Shape(r)

\* A file gets its row at the commit of its upload and not before.
BeforeCommit == {"idle", "j_new"} \cup CreateSteps \cup UploadSteps
NoEarlyRow   == \A r \in Req : r \in rows => pc[r] \notin BeforeCommit

\* While a transaction of AddFile is open it has the write lock, and nobody
\* else catalogues its content.
Inserting == {"u_mkdir", "u_rename", "u_commit"}
InsertsAlone ==
    \A r \in Req : pc[r] \in Inserting =>
        writer = r /\ ~Catalogued(arg[r].content)

\* A slot of the trash is only ever used for the book it was made for.
SlotsFit ==
    /\ \A b \in Id : trashPath[b] # Nowhere => SlotOf(trashPath[b], b)
    /\ \A r \in Req :
          pc[r] \in {"r_move", "r_mark", "r_undo"} => SlotOf(seen[r], arg[r].book)

\* FilesKept, of the books whose directory nobody has removed, and of the file
\* a transaction is about to commit.
Undone(b) == b \in Req /\ pc[b] \in {"j_failed", "error", "lost"}
FilesLocated ==
    /\ \A f \in rows : ~Undone(Home(f)) => Located(f)
    /\ \A r \in Req : pc[r] = "u_commit" /\ ~Undone(Home(r)) => Located(r)

\* The whole of it: what each step of a handler in internal/book relies on.
IInv ==
    /\ TypeOK
    /\ Shapes
    /\ NoEarlyRow
    /\ InsertsAlone
    /\ UniqueContent
    /\ SlotsFit
    /\ FilesLocated

-----------------------------------------------------------------------------
(* More of what the handlers rely on, for the readers of the library.      *)

\* A book has no row before its Create writes it, clients name books that
\* have or had one, and a file has a row by AddFile alone.
Unborn(b) ==
    b \in Req /\ (arg[b].op \notin Makers \/ pc[b] \in {"j_new", "c_dir", "c_tx"})
Births ==
    /\ \A b \in Id : Unborn(b) => status[b] = "absent"
    /\ \A r \in Req :
          pc[r] # "idle" /\ arg[r].op \notin Makers => ~Unborn(arg[r].book)
    /\ \A f \in rows \cap Req : arg[f].op \in {"upload", "import"}

\* A file is in the directory of its own book, or in a slot made for it, and
\* what holds a file is there.
Housed ==
    \A f \in Id :
        /\ at[f] \in Dir =>
              at[f] \in dirs /\ (at[f] = Live(Home(f)) \/ SlotOf(at[f], Home(f)))
        /\ f \in Req /\ pc[f] = "idle" => at[f] = Nowhere

\* The directory of a new book is there when its row is written.
DirFirst == \A r \in Req : pc[r] = "c_tx" => Live(r) \in dirs

\* A DeleteFile is about a file that has been committed, and it is alone with
\* it in trash/files/.
Away(g) == pc[g] \in {"f_unrow", "f_mkdir", "f_back"}
FilesAway ==
    \A g \in Req :
        /\ Away(g) \/ pc[g] = "f_move" =>
              arg[g].file \in Seeded \/ pc[arg[g].file] \notin BeforeCommit
        /\ Away(g) =>
              /\ at[arg[g].file] = TrashFiles
              /\ \A h \in Req : Away(h) /\ arg[h].file = arg[g].file => h = g

\* A book without a row is not yet there, or has been taken back or away.
Lasting ==
    \A b \in Id :
        status[b] = "absent" => Unborn(b) \/ FailedCreate(b) \/ FailedImport(b)

-----------------------------------------------------------------------------
(* And where a Delete overlaps no request that may make the directory of   *)
(* its book again, and a Restore no DeleteFile.                            *)

DeletesApart ==
    \A together \in Overlap :
        /\ "delete" \in together => together \subseteq {"delete", "update"}
        /\ ~({"restore", "delete_file"} \subseteq together)

Apart ==
    \A p, q \in InFlight :
        /\ arg[p].op = "delete" => arg[q].op \in {"delete", "update"}
        /\ arg[p].op = "restore" => arg[q].op # "delete_file"

\* Only a book whose request has ended is in the trash.
TrashedLate == \A b \in Id : Trashed(b) => b \in Seeded \/ pc[b] \in Ended

\* A Delete that has moved the directory is alone with the book.
Moved(d) == pc[d] \in {"d_mark", "d_undo"}
DeletesAlone ==
    \A d \in Req : Moved(d) =>
        /\ Live(arg[d].book) \notin dirs
        /\ \A e \in Req : Moved(e) /\ arg[e].book = arg[d].book => e = d

\* So is a Restore; one that comes too late finds its slot gone.
Back(r) == pc[r] \in {"r_mark", "r_undo"}
RestoresAlone ==
    \A r \in Req :
        LET b == arg[r].book IN
        /\ pc[r] = "r_move" =>
              seen[r] \notin dirs \/ (Trashed(b) /\ trashPath[b] = seen[r])
        /\ Back(r) =>
              /\ Trashed(b) /\ trashPath[b] = seen[r]
              /\ seen[r] \notin dirs /\ Live(b) \in dirs
              /\ \A e \in Req : Back(e) /\ arg[e].book = b => e = r

Orderly == Births /\ Housed /\ DirFirst /\ FilesAway
Ordered == Apart /\ TrashedLate /\ DeletesAlone /\ RestoresAlone

-----------------------------------------------------------------------------
(* And where only what can stand each other overlaps, and no more fails   *)
(* than a request takes back undisturbed.                                 *)

\* What may run beside an operation and leave the catalogue and the disk in
\* agreement.
Beside ==
    [o \in AllOps |->
        CASE o = "delete"  -> {"delete", "update"}
          [] o = "restore" -> {"create", "restore", "update"}
          [] o = "import"  -> {"create", "import", "update"}
          [] o = "create"  -> AllOps \ {"delete"}
          [] o = "update"  -> AllOps
          [] OTHER         -> {"create", "upload", "delete_file", "update"}]

Agreeable == \A together \in Overlap : \A o, p \in together : p \in Beside[o]

\* The process does not stop; one call fails in a request and none in an import
\* and its purge; and nobody asks for a book whose Create is taking it back.
Calm ==
    /\ UNCHANGED crashes
    /\ \A r \in Req : faults'[r] # faults[r] =>
          /\ faults[r] = 0 /\ arg[r].op # "import"
          /\ arg[r].op = "create" => \A q \in Req \ {r} : arg[q].book # r
    /\ \A q \in Req : pc[q] = "idle" /\ pc'[q] # "idle" =>
          ~(arg'[q].book \in InFlight /\ faults[arg'[q].book] > 0)

Company == \A p, q \in InFlight : arg[q].op \in Beside[arg[p].op]

\* A request takes something back because a call has failed, and a Create does
\* so while its book is its own.
Retreats == {"c_unrow", "c_rmdir", "d_undo", "r_undo", "f_mkdir", "f_back", "u_unplace"}
Quiet ==
    \A r \in Req :
        /\ faults[r] \in {0, 1}
        /\ pc[r] \in Retreats => faults[r] = 1
        /\ pc[r] = "idle" \/ arg[r].op = "import" => faults[r] = 0
        /\ pc[r] \in CreateSteps /\ faults[r] = 1 =>
              \A q \in Req \ {r} : arg[q].book # r

\* The book a request works on stays active.
ImportRest == UpdateSteps \cup {"i_parse", "i_finish", "j_ok"}
Writing(r) ==
    \/ pc[r] \in {"c_meta", "c_get", "c_unrow"} \cup (UploadSteps \ {"u_check"})
    \/ Away(r) \/ Moved(r)
    \/ Importing(r) /\ pc[r] \in ImportRest \cup {"u_check", "p_files", "p_book"}
Held == \A r \in Req : Writing(r) => Active(arg[r].book)

\* A book directory is there for a row, or for a request that works on it.
Building(b) == b \in Req /\ pc[b] \in {"c_tx", "c_rmdir", "p_dir"}
Leaving(b)  == \E d \in Req : Moved(d) /\ arg[d].book = b
Coming(b)   == \E r \in Req : Back(r) /\ arg[r].book = b
Shelved ==
    \A b \in Id :
        /\ Live(b) \in dirs <=> (Active(b) /\ ~Leaving(b)) \/ Building(b) \/ Coming(b)
        /\ Building(b) => status[b] = "absent"

\* So is a slot of the trash.
Binned ==
    /\ \A b \in Id : Trashed(b) => trashPath[b] \in dirs \/ Coming(b)
    /\ \A s \in Req : Moved(s) => Slot(s) \in dirs
    /\ \A s \in Req : Slot(s) \in dirs =>
          Moved(s) \/ \E b \in Id : Trashed(b) /\ trashPath[b] = Slot(s)

\* A file with a row is in a book directory or its DeleteFile is about it, and
\* one without is on its way in or out.
Transit == {"u_dup", "u_insert", "u_mkdir", "u_rename", "u_commit", "u_drop", "u_unplace"}
Purging(b) == b \in Req /\ pc[b] \in {"p_book", "p_dir"}
Filed ==
    /\ \A f \in rows : at[f] \in Dir \/ \E g \in Req : Away(g) /\ arg[g].file = f
    /\ \A f \in Id \ rows :
          \/ at[f] \in {Nowhere, TrashFiles}
          \/ f \in Req /\ pc[f] \in Transit
          \/ Purging(Home(f)) /\ at[f] = Live(Home(f))
    /\ \A g \in Req : Away(g) => arg[g].file \in rows
    /\ \A r \in Req :
          /\ pc[r] \in {"u_commit", "u_unplace"} => at[r] = Live(arg[r].book)
          /\ Purging(r) => FilesOf(r) = {}
          /\ Importing(r) /\ r \in InFlight => at[r] # TrashFiles
          /\ Importing(r) /\ pc[r] \in ImportRest => r \in rows

\* The job row of an import, and what is left of one that fails.
Gone(r) ==
    status[r] = "absent" /\ r \notin rows /\ at[r] = Nowhere /\ Live(r) \notin dirs
Recorded ==
    \A r \in Req :
        /\ job[r] = "processing" => r \in InFlight /\ arg[r].op = "import"
        /\ job[r] = "success" =>
              /\ pc[r] = "ok" /\ arg[r].op = "import" /\ status[r] # "absent"
              /\ r \in rows \/ DeletedFile(r)
        /\ job[r] = "failed" => pc[r] = "error" /\ arg[r].op = "import"
        /\ job[r] = "failed" \/ pc[r] = "j_failed" => Gone(r)

Settling == Company /\ Quiet /\ Held /\ Shelved /\ Binned /\ Filed /\ Recorded

-----------------------------------------------------------------------------
\* Every request is answered, whoever waits for whom, unless the process stops:
\* no path of AddFile leaves the transaction that holds the write lock open.
Answered == \A r \in Req : (pc[r] # "idle") ~> (pc[r] \in Ended)
=============================================================================
