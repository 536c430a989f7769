------------------------------ MODULE Scanner ------------------------------
(***************************************************************************)
(* The library scan (internal/scanner) beside the requests of the library. *)
(* Scan reads the active books, looks for what each should have on disk,   *)
(* reads the rows of their files, looks for each file, and at last walks   *)
(* over books/ for what no row accounts for.  Nothing stops uploads,       *)
(* deletions and imports meanwhile.                                        *)
(*                                                                         *)
(* What the walk finds and knows no row of is an untracked file, whether   *)
(* it is a book file or a metadata.json: the two are told apart here,      *)
(* because what holds of their alarms differs.  Content never changes in   *)
(* place, so checksum_mismatch is left out, and covers are modelled in     *)
(* Details.                                                                *)
(***************************************************************************)
EXTENDS Library

VARIABLES
    described,  \* the directories that hold a metadata.json
    spc,        \* the next step of the scan, or how it ended
    last,       \* the status GET /system/scan/status answers with
    todo,       \* the books, files or directories it has not come to
    books,      \* the books it read as active
    known,      \* the files whose rows it read
    found,      \* the issues of its report
    ever,       \* history: what has been wrong at some moment of the scan
    always      \* history: what has been wrong at every moment of the scan

scan     == <<spc, last, todo, books, known, found>>
history  == <<ever, always>>
scanVars == <<vars, described, scan, history>>

Issue ==
    {"metadata_missing", "file_missing", "orphan_directory", "untracked_file",
     "untracked_metadata"} \X Id

-----------------------------------------------------------------------------
(* What is wrong, by the rules of the scan, in one state of the library.   *)

Wrong ==
    {<<"metadata_missing", b>> : b \in {b \in Id : Active(b) /\ Live(b) \notin described}}
    \cup {<<"file_missing", f>> :
            f \in {f \in rows : Active(Home(f)) /\ at[f] # Live(Home(f))}}
    \cup {<<"orphan_directory", b>> : b \in {b \in Id : ~Active(b) /\ Live(b) \in dirs}}
    \cup {<<"untracked_file", f>> :
            f \in {f \in Id : /\ at[f] \in LiveDirs
                              /\ ~(f \in rows /\ Active(Home(f)))}}
    \cup {<<"untracked_metadata", b>> :
            b \in {b \in Id : Live(b) \in described /\ ~Active(b)}}

-----------------------------------------------------------------------------
(* The steps of Service.Scan.                                              *)

SGo(from, to) == spc = from /\ spc' = to /\ UNCHANGED vars

Look(issue, holds) == found' = IF holds THEN found \cup {issue} ELSE found

\* Mutant: the books in the trash are read too.
SBooksOfAll ==
    /\ SGo("idle", "metadata")
    /\ last' = "running"
    /\ books' = Known
    /\ todo' = {b \in Id : Active(b)}
    /\ UNCHANGED <<known, found>>

SBooks ==
    /\ SGo("idle", "metadata")
    /\ last' = "running"
    /\ books' = {b \in Id : Active(b)}
    /\ todo' = books'
    /\ UNCHANGED <<known, found>>

SMetadata(b) ==
    /\ SGo("metadata", "metadata")
    /\ b \in todo
    /\ todo' = todo \ {b}
    /\ Look(<<"metadata_missing", b>>, Live(b) \notin described)
    /\ UNCHANGED <<last, books, known>>

\* Mutant: the rows of files are read whatever their book.
SRowsOfAll ==
    /\ SGo("metadata", "files")
    /\ todo = {}
    /\ known' = rows
    /\ todo' = known'
    /\ UNCHANGED <<last, books, found>>

SRows ==
    /\ SGo("metadata", "files")
    /\ todo = {}
    /\ known' = {f \in rows : Active(Home(f))}
    /\ todo' = known'
    /\ UNCHANGED <<last, books, found>>

SFile(f) ==
    /\ SGo("files", "files")
    /\ f \in todo
    /\ todo' = todo \ {f}
    /\ Look(<<"file_missing", f>>, at[f] # Live(Home(f)))
    /\ UNCHANGED <<last, books, known>>

\* WalkDir lists books/, then enters one directory after the other; one that
\* is gone by then is passed over, but has been judged by its name.
SList ==
    /\ SGo("files", "walk")
    /\ todo = {}
    /\ todo' = {b \in Id : Live(b) \in dirs}
    /\ found' = found \cup {<<"orphan_directory", b>> : b \in todo' \ books}
    /\ UNCHANGED <<last, books, known>>

\* Known are the files whose rows were read, and the metadata.json of the books
\* that were read as active.
SEnter(b) ==
    /\ SGo("walk", "walk")
    /\ b \in todo
    /\ todo' = todo \ {b}
    /\ found' = found
          \cup {<<"untracked_file", f>> : f \in {f \in Id : at[f] = Live(b)} \ known}
          \cup {<<"untracked_metadata", c>> :
                  c \in {c \in {b} \ books : Live(c) \in described}}
    /\ UNCHANGED <<last, books, known>>

SEnd ==
    /\ SGo("walk", "completed")
    /\ todo = {}
    /\ last' = "completed"
    /\ UNCHANGED <<todo, books, known, found>>

\* A query fails, or a file cannot be read: the report is not set, and the
\* status stays the "running" that the scan began with.
SFail ==
    /\ \/ SGo("idle", "failed")
       \/ SGo("metadata", "failed") /\ todo = {}
       \/ SGo("files", "failed") /\ todo # {}
    /\ last' = "running"
    /\ UNCHANGED <<todo, books, known, found>>

Scan ==
    \/ SBooks \/ SRows \/ SList \/ SEnd \/ SFail
    \/ \E i \in Id : SMetadata(i) \/ SFile(i) \/ SEnter(i)

-----------------------------------------------------------------------------
(* The library's steps: metadata.json is written by Create, Update and, if *)
(* the book is still active, AddFile, and goes where its directory goes.   *)
(* A write that fails may leave the file or not; that of AddFile is not    *)
(* even looked at.                                                         *)

Writes(r) ==
    \/ pc[r] = "c_meta" /\ pc'[r] = "c_get"
    \/ pc[r] = "e_meta" /\ pc'[r] = Updated(r)

MayWrite(r) ==
    /\ \/ pc[r] = "c_meta" /\ pc'[r] = "c_unrow"
       \/ pc[r] = "e_meta" /\ pc'[r] = Refused(r) /\ Active(arg[r].book)
       \/ pc[r] = "u_commit" /\ r \in rows' /\ Active(arg[r].book)
    /\ CanWriteMetadata(arg[r].book)

Described(R) == {Live(arg'[r].book) : r \in R}

Carried ==
    LET gone == dirs \ dirs' IN
    (described \ gone) \cup (IF gone \cap described = {} THEN {} ELSE dirs' \ dirs)

\* What happens once the scan is over does not change its report.
SRequest ==
    /\ spc \notin {"completed", "failed"}
    /\ \E r \in Req : Start(r) \/ Work(r)
    /\ \E R \in SUBSET {q \in Req : MayWrite(q)} :
          described' = Carried \cup Described({q \in Req : Writes(q)} \cup R)
    /\ UNCHANGED scan

Observed ==
    IF spc' \in {"idle", "completed", "failed"}
    THEN UNCHANGED history
    ELSE IF spc = "idle"
         THEN ever' = Wrong' /\ always' = Wrong'
         ELSE ever' = ever \cup Wrong' /\ always' = always \cap Wrong'

SInit ==
    /\ Init
    /\ described = {Live(b) : b \in Seeded}
    /\ spc = "idle"
    /\ last = "idle"
    /\ todo = {} /\ books = {} /\ known = {} /\ found = {}
    /\ ever = {} /\ always = {}

SNext == (SRequest \/ (Scan /\ UNCHANGED described)) /\ Observed

SSpec == SInit /\ [][SNext]_scanVars

-----------------------------------------------------------------------------
\* Every variable of the scan has its type.
STypeOK ==
    /\ described \subseteq Dir
    /\ spc \in {"idle", "metadata", "files", "walk", "completed", "failed"}
    /\ last \in {"idle", "running", "completed"}
    /\ todo \subseteq Id /\ books \subseteq Id /\ known \subseteq Id
    /\ found \subseteq Issue /\ ever \subseteq Issue /\ always \subseteq Issue

Over == spc = "completed"

\* The books whose Create or Import has been undone: rows first, then files.
Withdrawn(b) ==
    \/ FailedImport(b)
    \/ b \in Req /\ pc[b] \in {"c_rmdir", "error"} /\ status[b] = "absent"
\* The books a failed Delete has put back from the trash, with what an upload
\* put into the directory and committed on the way.
PutBack(b) ==
    \E d \in Req : arg[d].op = "delete" /\ arg[d].book = b /\ faults[d] > 0

About(i) == IF i[1] \in {"file_missing", "untracked_file"} THEN Home(i[2]) ELSE i[2]

\* No false alarm: whatever a scan reports was so at some moment of the scan,
\* although it reads books, rows and directories one after the other while
\* requests run.  It rests on the order in which the handlers work: Create,
\* AddFile and Restore put the directory or the file first and the row after,
\* Delete and DeleteFile take it away before the row.
\* Three alarms may be false.  What undoes a Create or an Import takes the row
\* first (Withdrawn); a Delete that is undone brings files back under rows that
\* were there all the time (PutBack); and the metadata.json of a book that came
\* while the scan ran is reported untracked although it never was, because
\* Create writes it after the row and the scan knows only that of the books it
\* read at first (scanner/service.go:57, 65-66, 116-118).  Of such a book the
\* directory was orphaned at some moment of the scan, and of no other.
NoFalseAlarm ==
    \A i \in found :
        \/ i \in ever
        \/ Withdrawn(About(i))
        \/ i[1] = "untracked_file" /\ PutBack(About(i))
        \/ i[1] = "untracked_metadata" /\ <<"orphan_directory", i[2]>> \in ever

\* Nothing missed: what was wrong all the time of a scan is in its report,
\* whatever requests ran meanwhile.
NothingMissed == Over => always \subseteq found
-----------------------------------------------------------------------------
(* The inductive invariants behind the two.                                *)

Scanning == spc \in {"metadata", "files", "walk"}
Begun(f) == f \in Seeded \/ pc[f] # "idle"

\* What the scan has in hand, and what the history of it says.
Reads ==
    /\ described \subseteq dirs
    /\ \A d \in Req : pc[d] = "d_undo" => faults[d] > 0
    /\ spc = "idle" => found = {}
    /\ spc = "metadata" => todo \subseteq books
    /\ spc = "files" => todo \subseteq known
    /\ \A f \in known : Begun(f)
    /\ \A i \in found : i[1] \in {"file_missing", "untracked_file"} => Begun(i[2])
    /\ Scanning => Wrong \subseteq ever /\ always \subseteq Wrong

\* Whatever is no longer as the scan read it was wrong when it became so.
Explained ==
    /\ Scanning =>
          /\ \A b \in books :
                Active(b) \/ <<"metadata_missing", b>> \in ever \/ Withdrawn(b)
          /\ \A b \in Id \ books :
                Active(b) => <<"orphan_directory", b>> \in ever \/ Withdrawn(b)
    /\ spc \in {"files", "walk"} =>
          /\ \A f \in known :
                \/ f \in rows /\ Active(Home(f))
                \/ <<"file_missing", f>> \in ever
                \/ Withdrawn(Home(f))
          /\ \A f \in Id \ known :
                /\ f \in rows /\ Active(Home(f))
                /\ at[f] \in LiveDirs \/ \E g \in Req : Away(g) /\ arg[g].file = f
                => \/ <<"untracked_file", f>> \in ever
                   \/ Withdrawn(Home(f)) \/ PutBack(Home(f))

\* What has been wrong all the time is in the report, or the scan comes to it.
Sought ==
    /\ \A b \in Id : <<"metadata_missing", b>> \in always =>
          \/ <<"metadata_missing", b>> \in found
          \/ spc = "metadata" /\ b \in todo
          \/ spc = "failed"
    /\ \A f \in Id : <<"file_missing", f>> \in always =>
          \/ <<"file_missing", f>> \in found
          \/ spc = "files" /\ f \in todo
          \/ spc \in {"metadata", "failed"}
    /\ \A b \in Id : <<"orphan_directory", b>> \in always =>
          \/ <<"orphan_directory", b>> \in found
          \/ spc \in {"metadata", "files"} /\ b \notin books
          \/ spc = "failed"
    /\ \A b \in Id : <<"untracked_metadata", b>> \in always =>
          \/ <<"untracked_metadata", b>> \in found
          \/ spc = "walk" /\ b \notin books /\ b \in todo
          \/ spc \in {"metadata", "files"} /\ b \notin books
          \/ spc = "failed"
    /\ \A f \in Id : <<"untracked_file", f>> \in always =>
          \/ <<"untracked_file", f>> \in found
          \/ spc = "walk" /\ f \notin known /\ Home(f) \in todo
          \/ spc = "files" /\ f \notin known
          \/ spc \in {"metadata", "failed"}
=============================================================================
