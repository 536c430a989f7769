------------------------------ MODULE Storage ------------------------------
(***************************************************************************)
(* The data directory of Bookshelf, as internal/storage/storage.go sees    *)
(* it: which directories exist and where the bytes of each book file are.  *)
(*                                                                         *)
(* A uuid is named after the request that mints it, so the books and the   *)
(* files that may ever exist are those the library started with (Seeded)   *)
(* and one per request (Req).                                              *)
(***************************************************************************)
CONSTANTS
    Seeded,   \* books that exist when the model starts, each with one file
    Req       \* client requests, each handled once

ASSUME SeededNotReq == Seeded \cap Req = {}

Id == Seeded \cup Req

-----------------------------------------------------------------------------
(***************************************************************************)
(* Paths.  books/<id>/ holds the files of one book; trash/<id>-<time>/ is  *)
(* a slot that one Delete request made for itself; imports/ and            *)
(* trash/files/ are flat and always there.  Nowhere is both the place of a *)
(* file that does not exist and the empty trash_path.                      *)
(***************************************************************************)
Live(b)    == <<"books", b>>
Slot(r)    == <<"trash", r>>
Imports    == <<"imports">>
TrashFiles == <<"trash_files">>
Nowhere    == << >>

LiveDirs == {Live(b) : b \in Id}
Slots    == {Slot(r) : r \in Req}
Dir      == LiveDirs \cup Slots
Place    == Dir \cup {Imports, TrashFiles, Nowhere}

VARIABLES
    dirs,     \* the book directories and trash slots that exist
    at        \* at[f]: the directory that holds the bytes of file f

disk == <<dirs, at>>

StorageTypeOK ==
    /\ dirs \subseteq Dir
    /\ at \in [Id -> Place]

-----------------------------------------------------------------------------
EnsureDir(d) ==
    /\ dirs' = dirs \cup {d}
    /\ UNCHANGED at

\* Move of a directory: the source must exist, and the destination must not
\* (the Stat), also when it appears after the Stat: a book directory is never
\* empty, and rename does not replace a directory that is not empty.
CanMoveDir(d, e) == d \in dirs /\ e \notin dirs

MoveDir(d, e) ==
    /\ dirs' = (dirs \ {d}) \cup {e}
    /\ at' = [f \in Id |-> IF at[f] = d THEN e ELSE at[f]]

\* os.RemoveAll of a book directory, taken as one step.
RemoveDir(d) ==
    /\ dirs' = dirs \ {d}
    /\ at' = [f \in Id |-> IF at[f] = d THEN Nowhere ELSE at[f]]

\* Move, or Remove, of one file.
PutFile(f, p) ==
    /\ at' = [at EXCEPT ![f] = p]
    /\ UNCHANGED dirs
=============================================================================
