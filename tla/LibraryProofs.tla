--------------------------- MODULE LibraryProofs ---------------------------
(***************************************************************************)
(* What Library keeps for any number of books, requests, contents, failing *)
(* calls and crashes.  IInv is inductive: the initial state has it, and    *)
(* every step of every handler, Start and Crash keep it, conjunct by       *)
(* conjunct.  UniqueContent and FilesKept follow from it, and UploadKept   *)
(* is inductive beside it.  So is Orderly, Ordered where deletes run apart *)
(* (DeletesApart), and Settling, behind Consistent and JobsTruthful, where *)
(* only what is Agreeable overlaps and every step is Calm.                 *)
(***************************************************************************)
EXTENDS Library, TLAPS

\* The places of Storage are places, slots are directories.
LEMMA Paths ==
    /\ Nowhere \in Place /\ Imports \in Place /\ TrashFiles \in Place
    /\ Dir \subseteq Place /\ Slots \subseteq Dir
    /\ \A b \in Id : Live(b) \in Dir
    /\ \A r \in Req : Slot(r) \in Slots
BY DEF Place, Dir, LiveDirs, Slots

\* The initial state has its types.
LEMMA TypeInit == Init => TypeOK
<1> SUFFICES ASSUME Init PROVE TypeOK  OBVIOUS
<1>1. StorageTypeOK BY Paths DEF Init, StorageTypeOK, Id
<1>2. ControlTypeOK BY BoundsAreNat DEF Init, ControlTypeOK, Label, NoArg, Arg
<1>3. DatabaseTypeOK BY DEF Init, DatabaseTypeOK, Id
<1>4. QED BY <1>1, <1>2, <1>3 DEF TypeOK

\* Steps that leave the disk alone keep its types.
LEMMA StorageSame == StorageTypeOK /\ UNCHANGED disk => StorageTypeOK'
BY DEF StorageTypeOK, disk

\* Steps that leave the database alone keep its types.
LEMMA DatabaseSame == DatabaseTypeOK /\ UNCHANGED database => DatabaseTypeOK'
BY DEF DatabaseTypeOK, database, catalogue

\* Going on to a label keeps the types of control.
LEMMA GoType ==
    ASSUME ControlTypeOK, NEW r \in Req, NEW l \in Label, Go(r, l)
    PROVE  ControlTypeOK'
BY DEF ControlTypeOK, Go, control

\* So does a step that changes nothing else.
LEMMA StepType ==
    ASSUME TypeOK, NEW r \in Req, NEW l \in Label, Step(r, l)
    PROVE  TypeOK'
BY GoType, StorageSame, DatabaseSame DEF TypeOK, Step

\* So does a call that fails, within its bound.
LEMMA FailType ==
    ASSUME TypeOK, NEW r \in Req, NEW l \in Label, Fail(r, l)
    PROVE  TypeOK'
<1>1. ControlTypeOK'
  BY BoundsAreNat DEF TypeOK, ControlTypeOK, Fail, control
<1>2. QED BY <1>1, StorageSame, DatabaseSame DEF TypeOK, Fail

\* Making a directory keeps the types of the disk.
LEMMA EnsureDirType ==
    ASSUME StorageTypeOK, NEW d \in Dir, EnsureDir(d) PROVE StorageTypeOK'
BY DEF StorageTypeOK, EnsureDir

\* So does moving one.
LEMMA MoveDirType ==
    ASSUME StorageTypeOK, NEW d \in Dir, NEW e \in Dir, MoveDir(d, e)
    PROVE  StorageTypeOK'
BY Paths DEF StorageTypeOK, MoveDir

\* So does removing one.
LEMMA RemoveDirType ==
    ASSUME StorageTypeOK, NEW d \in Dir, RemoveDir(d) PROVE StorageTypeOK'
BY Paths DEF StorageTypeOK, RemoveDir

\* So does moving or removing a file.
LEMMA PutFileType ==
    ASSUME StorageTypeOK, NEW f \in Id, NEW p \in Place, PutFile(f, p)
    PROVE  StorageTypeOK'
BY DEF StorageTypeOK, PutFile

\* The labels of each handler are labels.
LEMMA Labels ==
    /\ CreateSteps \cup UploadSteps \cup DeleteSteps \cup RestoreSteps
         \cup FileSteps \cup UpdateSteps \cup ImportSteps \cup Ended \subseteq Label
    /\ \A r : {Created(r), NotMade(r), Uploaded(r), Updated(r), Refused(r)} \subseteq Label
BY DEF Label, Running, Ended, CreateSteps, UploadSteps, DeleteSteps, RestoreSteps, FileSteps, UpdateSteps, ImportSteps, Created, NotMade, Uploaded, Updated, Refused

\* Every step of Create keeps the types.
LEMMA TypeCreate ==
    ASSUME TypeOK, NEW r \in Req, Create(r) PROVE TypeOK'
<1>0. /\ r \in Id /\ Live(r) \in Dir
      /\ CreateSteps \cup {Created(r), NotMade(r)} \subseteq Label
  BY Paths, Labels DEF Id
<1> USE DEF CreateSteps
<1>1. CASE CDir(r)
  BY <1>0, <1>1, GoType, FailType, EnsureDirType, DatabaseSame DEF CDir, TypeOK, MakeDir
<1>2. CASE CTx(r)
  BY <1>0, <1>2, GoType, FailType, StorageSame DEF CTx, TypeOK, DatabaseTypeOK
<1>3. CASE CMeta(r)
  BY <1>0, <1>3, StepType, FailType DEF CMeta, Test
<1>4. CASE CGet(r)
  BY <1>0, <1>4, StepType, FailType DEF CGet, Test
<1>5. CASE CUnrow(r)
  BY <1>0, <1>5, GoType, FailType, StorageSame DEF CUnrow, TypeOK, DatabaseTypeOK, ForgetBook
<1>6. CASE CRmdir(r)
  BY <1>0, <1>6, GoType, FailType, RemoveDirType, DatabaseSame DEF CRmdir, TypeOK, RemoveBook
<1>7. QED
  BY <1>1, <1>2, <1>3, <1>4, <1>5, <1>6 DEF Create

\* Every step of AddFile does.
LEMMA TypeUpload ==
    ASSUME TypeOK, NEW r \in Req, arg[r].book \in Id, Upload(r) PROVE TypeOK'
<1>0. /\ r \in Id /\ Live(arg[r].book) \in Dir /\ Live(arg[r].book) \in Place
      /\ UploadSteps \cup {Uploaded(r), Refused(r)} \subseteq Label
  BY Paths, Labels DEF Id
<1> USE DEF UploadSteps
<1>1. CASE UCheck(r)
  BY <1>0, <1>1, StepType, FailType DEF UCheck, Test
<1>2. CASE UTemp(r)
  BY <1>0, <1>2, GoType, FailType, PutFileType, DatabaseSame, Paths DEF UTemp, TypeOK, MoveFile
<1>3. CASE UDup(r)
  BY <1>0, <1>3, StepType, FailType DEF UDup, Test
<1>4. CASE UInsert(r)
  BY <1>0, <1>4, GoType, StepType, FailType, StorageSame
  DEF UInsert, TypeOK, DatabaseTypeOK, catalogue
<1>5. CASE UMkdir(r)
  BY <1>0, <1>5, GoType, FailType, EnsureDirType, DatabaseSame DEF UMkdir, TypeOK, MakeDir
<1>6. CASE URename(r)
  BY <1>0, <1>6, GoType, StepType, FailType, PutFileType, DatabaseSame DEF URename, TypeOK, MoveFile
<1>7. CASE UCommit(r)
  <2>1. StorageTypeOK'
    BY <1>7, StorageSame DEF UCommit, TypeOK
  <2>2. DatabaseTypeOK'
    BY <1>0, <1>7 DEF UCommit, TypeOK, DatabaseTypeOK
  <2>3. ControlTypeOK'
    BY <1>0, <1>7, BoundsAreNat DEF UCommit, TypeOK, ControlTypeOK, control
  <2>4. QED BY <2>1, <2>2, <2>3 DEF TypeOK
<1>8. CASE UDrop(r)
  BY <1>0, <1>8, GoType, PutFileType, Paths DEF UDrop, TypeOK, DatabaseTypeOK, catalogue
<1>9. CASE UUnplace(r)
  BY <1>0, <1>9, GoType, StepType, FailType, PutFileType, DatabaseSame, Paths
  DEF UUnplace, TypeOK, MoveFile
<1>10. QED
  BY <1>1, <1>2, <1>3, <1>4, <1>5, <1>6, <1>7, <1>8, <1>9 DEF Upload

\* Every step of Delete does.
LEMMA TypeDelete ==
    ASSUME TypeOK, NEW r \in Req, arg[r].book \in Id, Delete(r) PROVE TypeOK'
<1>0. /\ Live(arg[r].book) \in Dir /\ Slot(r) \in Slots /\ Slot(r) \in Dir
      /\ DeleteSteps \cup Ended \subseteq Label
  BY Paths, Labels
<1> USE DEF DeleteSteps, Ended
<1>1. CASE DCheck(r)
  BY <1>0, <1>1, StepType, FailType DEF DCheck, Test
<1>2. CASE DMove(r)
  BY <1>0, <1>2, GoType, StepType, FailType, MoveDirType, DatabaseSame DEF DMove, TypeOK, MoveBook
<1>3. CASE DMark(r)
  BY <1>0, <1>3, GoType, FailType, StorageSame DEF DMark, TypeOK, DatabaseTypeOK, MarkBook
<1>4. CASE DUndo(r)
  BY <1>0, <1>4, GoType, StepType, FailType, MoveDirType, DatabaseSame DEF DUndo, TypeOK, MoveBook
<1>5. QED BY <1>1, <1>2, <1>3, <1>4 DEF Delete

\* Every step of Restore does.
LEMMA TypeRestore ==
    ASSUME TypeOK, NEW r \in Req, arg[r].book \in Id, Restore(r),
           pc[r] \in {"r_move", "r_undo"} => seen[r] \in Dir
    PROVE  TypeOK'
<1>0. /\ Live(arg[r].book) \in Dir /\ Nowhere \in Slots \cup {Nowhere}
      /\ RestoreSteps \cup Ended \subseteq Label
  BY Paths, Labels
<1> USE DEF RestoreSteps, Ended, At
<1>1. CASE RCheck(r)
  <2>1. CASE UNCHANGED <<faults, arg, crashes, disk, database>>
    <3>1. CASE Step(r, "error") BY <1>0, <3>1, StepType
    <3>2. CASE Fail(r, "error") BY <1>0, <3>2, FailType
    <3>3. CASE /\ seen' = [seen EXCEPT ![r] = trashPath[arg[r].book]]
               /\ pc' = [pc EXCEPT ![r] = "r_move"]
      <4>1. ControlTypeOK'
        BY <1>0, <2>1, <3>3 DEF TypeOK, ControlTypeOK, DatabaseTypeOK
      <4>2. QED BY <2>1, <4>1, StorageSame, DatabaseSame DEF TypeOK
    <3>4. QED BY <1>1, <3>1, <3>2, <3>3 DEF RCheck
  <2>2. QED BY <1>0, <1>1, <2>1, StepType, FailType DEF RCheck
<1>2. CASE RMove(r)
  BY <1>0, <1>2, GoType, StepType, FailType, MoveDirType, DatabaseSame DEF RMove, TypeOK, MoveBook
<1>3. CASE RMark(r)
  BY <1>0, <1>3, GoType, FailType, StorageSame DEF RMark, TypeOK, DatabaseTypeOK, MarkBook
<1>4. CASE RUndo(r)
  BY <1>0, <1>4, GoType, StepType, FailType, MoveDirType, DatabaseSame DEF RUndo, TypeOK, MoveBook
<1>5. QED BY <1>1, <1>2, <1>3, <1>4 DEF Restore

\* Every step of DeleteFile does.
LEMMA TypeDeleteFile ==
    ASSUME TypeOK, NEW r \in Req, arg[r].book \in Id, arg[r].file \in Id, DeleteFile(r)
    PROVE  TypeOK'
<1>0. /\ Live(arg[r].book) \in Dir /\ Live(arg[r].book) \in Place /\ TrashFiles \in Place
      /\ FileSteps \cup Ended \subseteq Label
  BY Paths, Labels
<1> USE DEF FileSteps, Ended
<1>1. CASE FCheck(r)
  BY <1>0, <1>1, StepType, FailType DEF FCheck, Test
<1>2. CASE FMove(r)
  BY <1>0, <1>2, GoType, StepType, FailType, PutFileType, DatabaseSame DEF FMove, TypeOK, MoveFile
<1>3. CASE FUnrow(r)
  BY <1>0, <1>3, GoType, FailType, StorageSame DEF FUnrow, TypeOK, DatabaseTypeOK, DropRows
<1>4. CASE FMkdir(r)
  BY <1>0, <1>4, GoType, FailType, EnsureDirType, DatabaseSame DEF FMkdir, TypeOK, MakeDir
<1>5. CASE FBack(r)
  BY <1>0, <1>5, GoType, StepType, FailType, PutFileType, DatabaseSame DEF FBack, TypeOK, MoveFile
<1>6. QED BY <1>1, <1>2, <1>3, <1>4, <1>5 DEF DeleteFile

\* Every step of Update does.
LEMMA TypeUpdate ==
    ASSUME TypeOK, NEW r \in Req, Update(r) PROVE TypeOK'
BY Labels, StepType, FailType DEF Update, ECheck, ETx, EMeta, UpdateSteps, Test

\* Every step of Import does.
LEMMA TypeImport ==
    ASSUME TypeOK, NEW r \in Req, Import(r) PROVE TypeOK'
<1>0. /\ r \in Id /\ Live(r) \in Dir
      /\ ImportSteps \cup CreateSteps \cup UpdateSteps \cup Ended \subseteq Label
  BY Paths, Labels DEF Id
<1> USE DEF ImportSteps, CreateSteps, UpdateSteps, Ended
<1>1. CASE JNew(r)
  BY <1>0, <1>1, GoType, FailType, StorageSame DEF JNew, TypeOK, DatabaseTypeOK, catalogue, WriteJob
<1>2. CASE IParse(r)
  BY <1>0, <1>2, StepType DEF IParse
<1>3. CASE IFinish(r)
  BY <1>0, <1>3, StepType, FailType DEF IFinish
<1>4. CASE PFiles(r)
  BY <1>0, <1>4, GoType, FailType, StorageSame DEF PFiles, TypeOK, DatabaseTypeOK, DropRows, FilesOf
<1>5. CASE PBook(r)
  BY <1>0, <1>5, GoType, FailType, StorageSame DEF PBook, TypeOK, DatabaseTypeOK, ForgetBook
<1>6. CASE PDir(r)
  BY <1>0, <1>6, GoType, FailType, RemoveDirType, DatabaseSame DEF PDir, TypeOK, RemoveBook
<1>7. CASE JOk(r) \/ JFailed(r)
  BY <1>0, <1>7, GoType, FailType, StorageSame
  DEF JOk, JFailed, TypeOK, DatabaseTypeOK, catalogue, WriteJob
<1>8. QED BY <1>1, <1>2, <1>3, <1>4, <1>5, <1>6, <1>7 DEF Import

-----------------------------------------------------------------------------
(* What one step of each operation does to the variables IInv is about.   *)

Moves(r, S) ==
    /\ pc' = [pc EXCEPT ![r] = pc'[r]]
    /\ pc'[r] \in S
    /\ arg' = arg

\* What a step of Create may change, by where it goes on.
LEMMA CreateEffect ==
    ASSUME TypeOK, NEW r \in Req, Create(r)
    PROVE  /\ pc[r] \in CreateSteps
           /\ Moves(r, CreateSteps \cup {Created(r), NotMade(r)})
           /\ UNCHANGED <<seen, rows, writer>>
           /\ \/ UNCHANGED trashPath
              \/ trashPath' = [trashPath EXCEPT ![r] = Nowhere]
           /\ \/ UNCHANGED at
              \/ RemoveDir(Live(r)) /\ pc'[r] = NotMade(r)
<1> USE DEF CreateSteps, Moves, At, Go, Step, Fail, control, disk, database, catalogue, TypeOK, ControlTypeOK
<1>1. CASE CDir(r) BY <1>1 DEF CDir, EnsureDir, MakeDir
<1>2. CASE CTx(r) BY <1>2 DEF CTx
<1>3. CASE CMeta(r) BY <1>3 DEF CMeta, Test
<1>4. CASE CGet(r) BY <1>4 DEF CGet, Test
<1>5. CASE CUnrow(r) BY <1>5 DEF CUnrow, ForgetBook
<1>6. CASE CRmdir(r) BY <1>6 DEF CRmdir, RemoveBook
<1>7. QED BY <1>1, <1>2, <1>3, <1>4, <1>5, <1>6 DEF Create

\* What a step of AddFile may change: rows only at its commit.
LEMMA UploadEffect ==
    ASSUME TypeOK, NEW r \in Req, arg[r].book \in Id, Upload(r)
    PROVE  /\ pc[r] \in UploadSteps
           /\ Moves(r, UploadSteps \cup {Uploaded(r), Refused(r)})
           /\ UNCHANGED <<seen, trashPath>>
           /\ \/ UNCHANGED rows
              \/ /\ pc[r] = "u_commit" /\ pc'[r] = Uploaded(r)
                 /\ rows' = rows \cup {r} /\ UNCHANGED at
           /\ pc'[r] = Uploaded(r) => r \in rows'
           /\ \/ UNCHANGED writer
              \/ writer = None /\ writer' = r
              \/ writer' = None /\ (pc[r] = "u_commit" \/ writer = r)
           /\ pc'[r] \in Inserting =>
                \/ /\ pc[r] = "u_insert" /\ writer' = r
                   /\ ~Catalogued(arg[r].content)
                \/ pc[r] \in Inserting /\ UNCHANGED writer
           /\ \/ UNCHANGED at
              \/ \E p \in Place : PutFile(r, p)
           /\ pc'[r] = "u_commit" => PutFile(r, Live(arg[r].book))
<1> USE DEF UploadSteps, Moves, At, Go, Step, Fail, Free, control, disk, database, catalogue, TypeOK, ControlTypeOK
<1>0. /\ Uploaded(r) \notin UploadSteps /\ Refused(r) \notin UploadSteps
      /\ Uploaded(r) # Refused(r)
      /\ Inserting \subseteq UploadSteps
  BY DEF Uploaded, Refused, Inserting
<1>1. CASE UCheck(r) BY <1>0, <1>1 DEF UCheck, Inserting, Test
<1>2. CASE UTemp(r)
  <2>1. \/ PutFile(r, Imports) /\ UNCHANGED <<rows, writer, trashPath>>
        \/ UNCHANGED <<at, rows, writer, trashPath>>
    BY <1>2 DEF UTemp, MoveFile
  <2>2. pc' = [pc EXCEPT ![r] = pc'[r]] /\ pc'[r] \in {"u_dup", "u_drop", Refused(r)}
    BY <1>2 DEF UTemp, MoveFile
  <2>3. UNCHANGED <<arg, seen>> /\ pc[r] = "u_temp"
    BY <1>2 DEF UTemp, MoveFile
  <2>4. QED BY <1>0, <2>1, <2>2, <2>3, Paths DEF Inserting
<1>3. CASE UDup(r) BY <1>0, <1>3 DEF UDup, Inserting, Test
<1>4. CASE UInsert(r) BY <1>0, <1>4 DEF UInsert, Inserting
<1>5. CASE UMkdir(r) BY <1>0, <1>5 DEF UMkdir, EnsureDir, Inserting, MakeDir
<1>6. CASE URename(r)
  <2>1. \/ PutFile(r, Live(arg[r].book)) /\ pc' = [pc EXCEPT ![r] = "u_commit"]
        \/ UNCHANGED at /\ pc' = [pc EXCEPT ![r] = "u_drop"]
    BY <1>6 DEF URename, MoveFile
  <2>2. UNCHANGED <<arg, seen, rows, writer, trashPath>> /\ pc[r] = "u_rename"
    BY <1>6 DEF URename, MoveFile
  <2>3. QED BY <1>0, <2>1, <2>2, Paths DEF Inserting
<1>7. CASE UCommit(r) BY <1>0, <1>7 DEF UCommit, Inserting
<1>8. CASE UDrop(r) BY <1>0, <1>8, Paths DEF UDrop, Inserting
<1>9. CASE UUnplace(r)
  <2>1. UNCHANGED at \/ \E p \in Place : PutFile(r, p)
    BY <1>9, Paths DEF UUnplace, StorageTypeOK, Id, MoveFile
  <2>2. UNCHANGED <<arg, seen, rows, writer, trashPath>> /\ pc[r] = "u_unplace"
    BY <1>9 DEF UUnplace, MoveFile
  <2>3. pc' = [pc EXCEPT ![r] = Refused(r)]
    BY <1>9 DEF UUnplace, MoveFile
  <2>4. QED BY <1>0, <2>1, <2>2, <2>3 DEF Inserting
<1>10. QED
  BY <1>1, <1>2, <1>3, <1>4, <1>5, <1>6, <1>7, <1>8, <1>9 DEF Upload

\* What a step of Delete may change: no row of book_files.
LEMMA DeleteEffect ==
    ASSUME TypeOK, NEW r \in Req, Delete(r)
    PROVE  /\ pc[r] \in DeleteSteps
           /\ Moves(r, DeleteSteps \cup {"ok", "error"})
           /\ UNCHANGED <<seen, rows, writer>>
           /\ \/ UNCHANGED trashPath
              \/ trashPath' = [trashPath EXCEPT ![arg[r].book] = Slot(r)]
           /\ \/ UNCHANGED at
              \/ MoveDir(Live(arg[r].book), Slot(r))
              \/ MoveDir(Slot(r), Live(arg[r].book))
<1> USE DEF DeleteSteps, Moves, At, Go, Step, Fail, control, disk, database, catalogue, TypeOK, ControlTypeOK
<1>1. CASE DCheck(r) BY <1>1 DEF DCheck, Test
<1>2. CASE DMove(r) BY <1>2 DEF DMove, MoveBook
<1>3. CASE DMark(r) BY <1>3 DEF DMark, MarkBook
<1>4. CASE DUndo(r) BY <1>4 DEF DUndo, MoveBook
<1>5. QED BY <1>1, <1>2, <1>3, <1>4 DEF Delete

Restoring == {"r_move", "r_mark", "r_undo"}

\* What a step of Restore may change: the slot it read, first of all.
LEMMA RestoreEffect ==
    ASSUME TypeOK, NEW r \in Req, Restore(r)
    PROVE  /\ pc[r] \in RestoreSteps
           /\ Moves(r, RestoreSteps \cup {"ok", "error"})
           /\ UNCHANGED <<rows, writer>>
           /\ \/ UNCHANGED trashPath
              \/ trashPath' = [trashPath EXCEPT ![arg[r].book] = Nowhere]
           /\ \/ UNCHANGED seen /\ (pc'[r] \in Restoring => pc[r] \in Restoring)
              \/ /\ seen' = [seen EXCEPT ![r] = trashPath[arg[r].book]]
                 /\ trashPath[arg[r].book] # Nowhere
                 /\ UNCHANGED <<trashPath, at>>
           /\ \/ UNCHANGED at
              \/ /\ pc[r] \in Restoring
                 /\ \/ MoveDir(seen[r], Live(arg[r].book))
                    \/ MoveDir(Live(arg[r].book), seen[r])
<1> USE DEF RestoreSteps, Restoring, Moves, At, Go, Step, Fail, control, disk, database, catalogue, TypeOK, ControlTypeOK
<1>1. CASE RCheck(r) BY <1>1 DEF RCheck
<1>2. CASE RMove(r) BY <1>2 DEF RMove, MoveBook
<1>3. CASE RMark(r) BY <1>3 DEF RMark, MarkBook
<1>4. CASE RUndo(r) BY <1>4 DEF RUndo, MoveBook
<1>5. QED BY <1>1, <1>2, <1>3, <1>4 DEF Restore

\* What a step of DeleteFile may change: at most its own row.
LEMMA DeleteFileEffect ==
    ASSUME TypeOK, NEW r \in Req, DeleteFile(r)
    PROVE  /\ pc[r] \in FileSteps
           /\ Moves(r, FileSteps \cup {"ok", "error"})
           /\ UNCHANGED <<seen, writer, trashPath>>
           /\ UNCHANGED rows \/ rows' = rows \ {arg[r].file}
           /\ \/ UNCHANGED at
              \/ PutFile(arg[r].file, TrashFiles)
              \/ PutFile(arg[r].file, Live(arg[r].book))
<1> USE DEF FileSteps, Moves, At, Go, Step, Fail, control, disk, database, catalogue, TypeOK, ControlTypeOK
<1>1. CASE FCheck(r) BY <1>1 DEF FCheck, Test
<1>2. CASE FMove(r) BY <1>2 DEF FMove, MoveFile
<1>3. CASE FUnrow(r) BY <1>3 DEF FUnrow, DropRows
<1>4. CASE FMkdir(r) BY <1>4 DEF FMkdir, EnsureDir, MakeDir
<1>5. CASE FBack(r) BY <1>5 DEF FBack, MoveFile
<1>6. QED BY <1>1, <1>2, <1>3, <1>4, <1>5 DEF DeleteFile

\* A step of Update changes nothing of the library.
LEMMA UpdateEffect ==
    ASSUME TypeOK, NEW r \in Req, Update(r)
    PROVE  /\ pc[r] \in UpdateSteps
           /\ Moves(r, UpdateSteps \cup {Updated(r), Refused(r)})
           /\ UNCHANGED <<seen, rows, writer, trashPath, at>>
BY DEF Update, ECheck, ETx, EMeta, UpdateSteps, Moves, At, Step, Go, Fail, control, disk, database, catalogue, TypeOK, ControlTypeOK, Test

\* What a step of Import and of its purge may change.
LEMMA ImportEffect ==
    ASSUME TypeOK, NEW r \in Req, Import(r)
    PROVE  /\ pc[r] \in ImportSteps
           /\ Moves(r, (ImportSteps \ {"j_new"}) \cup {"c_dir", "e_check", "ok", "error"})
           /\ pc'[r] = "c_dir" => pc[r] = "j_new"
           /\ pc[r] = "j_failed" => pc'[r] = "error"
           /\ UNCHANGED <<seen, writer>>
           /\ rows' \subseteq rows
           /\ rows' = rows \/ (rows' = rows \ FilesOf(r) /\ pc'[r] = "p_book")
           /\ pc[r] \in {"p_book", "p_dir"} => pc'[r] \in {"p_dir", "j_failed"}
           /\ \/ UNCHANGED trashPath
              \/ trashPath' = [trashPath EXCEPT ![r] = Nowhere]
           /\ \/ UNCHANGED at
              \/ RemoveDir(Live(r)) /\ pc'[r] = "j_failed"
<1> USE DEF ImportSteps, Moves, At, Go, Step, Fail, control, disk, database, catalogue, TypeOK, ControlTypeOK
<1>1. CASE JNew(r) BY <1>1 DEF JNew, WriteJob
<1>2. CASE IParse(r) BY <1>2 DEF IParse
<1>3. CASE IFinish(r) BY <1>3 DEF IFinish
<1>4. CASE PFiles(r) BY <1>4 DEF PFiles, DropRows, FilesOf
<1>5. CASE PBook(r) BY <1>5 DEF PBook, ForgetBook
<1>6. CASE PDir(r) BY <1>6 DEF PDir, RemoveBook
<1>7. CASE JOk(r) BY <1>7 DEF JOk, WriteJob
<1>8. CASE JFailed(r) BY <1>8 DEF JFailed, WriteJob
<1>9. QED BY <1>1, <1>2, <1>3, <1>4, <1>5, <1>6, <1>7, <1>8 DEF Import

\* A request that starts changes its argument and its label only.
LEMMA StartEffect ==
    ASSUME TypeOK, NEW r \in Req, Start(r)
    PROVE  \E o \in Ops \cap AllOps : \E a \in Asks(r, o) :
              /\ pc[r] = "idle"
              /\ arg' = [arg EXCEPT ![r] = a]
              /\ pc' = [pc EXCEPT ![r] = FirstStep[o]]
              /\ UNCHANGED <<seen, faults, crashes, disk, database>>
BY OpsAssumption DEF Start

-----------------------------------------------------------------------------
(* Type correctness of the remaining steps, and the shapes of requests.   *)

\* Every catalogued file has a book.
LEMMA HomeType ==
    ASSUME TypeOK, Shapes, NoEarlyRow, NEW f \in rows PROVE Home(f) \in Id
BY DEF TypeOK, DatabaseTypeOK, Shapes, Shape, NoEarlyRow, BeforeCommit, Home, Id

\* What clients ask for fits the first step of its operation.
LEMMA AsksShape ==
    ASSUME TypeOK, Shapes, NoEarlyRow, NEW r \in Req, pc[r] = "idle",
           NEW o \in AllOps, NEW a \in Asks(r, o)
    PROVE  /\ a \in Arg
           /\ a.op = o /\ a.book \in Id
           /\ o \in {"create", "import"} => a.book = r
           /\ o \in {"upload", "import"} => a.file = r /\ a.content \in Content
           /\ o = "delete_file" =>
                 a.file \in rows /\ a.file # r /\ a.book = Home(a.file)
<1>0. r \in Id BY DEF Id
<1>1. r \notin rows BY DEF NoEarlyRow, BeforeCommit
<1>2. Known \subseteq Id BY DEF Known
<1>3. CASE o = "create" BY <1>0, <1>3 DEF Asks, Arg
<1>4. CASE o = "import" BY <1>0, <1>4 DEF Asks, Arg
<1>5. CASE o = "upload" BY <1>0, <1>2, <1>5 DEF Asks, Arg
<1>6. CASE o = "delete_file"
  BY <1>1, <1>6, HomeType DEF Asks, Arg, TypeOK, DatabaseTypeOK
<1>7. CASE o \in {"delete", "restore", "update"} BY <1>2, <1>7 DEF Asks, Arg
<1>8. QED BY <1>3, <1>4, <1>5, <1>6, <1>7 DEF AllOps

\* A request that starts keeps the types.
LEMMA TypeStart ==
    ASSUME TypeOK, Shapes, NoEarlyRow, NEW r \in Req, Start(r) PROVE TypeOK'
<1>1. PICK o \in Ops \cap AllOps : \E a \in Asks(r, o) :
              /\ pc[r] = "idle"
              /\ arg' = [arg EXCEPT ![r] = a]
              /\ pc' = [pc EXCEPT ![r] = FirstStep[o]]
              /\ UNCHANGED <<seen, faults, crashes, disk, database>>
  BY StartEffect
<1>2. FirstStep[o] \in Label
  BY DEF FirstStep, AllOps, Label, Running, CreateSteps, UploadSteps, DeleteSteps, RestoreSteps, FileSteps, UpdateSteps, ImportSteps
<1>3. ControlTypeOK'
  BY <1>1, <1>2, AsksShape DEF TypeOK, ControlTypeOK
<1>4. QED BY <1>1, <1>3, StorageSame, DatabaseSame DEF TypeOK

\* So does the end of the process.
LEMMA TypeCrash == ASSUME TypeOK, Crash PROVE TypeOK'
<1>1. ControlTypeOK'
  BY BoundsAreNat DEF Crash, TypeOK, ControlTypeOK, Label, Ended
<1>2. DatabaseTypeOK'
  BY DEF Crash, TypeOK, DatabaseTypeOK, catalogue
<1>3. QED BY <1>1, <1>2, StorageSame DEF Crash, TypeOK

\* A step of a handler moves its own request within its own operation.
LEMMA WorkMoves ==
    ASSUME TypeOK, Shapes, NEW r \in Req, Work(r)
    PROVE  Shape(r) /\ Moves(r, Label) /\ pc[r] \in Running
<1>1. pc[r] # "idle" => Shape(r)
  BY DEF Shapes
<1>2. CASE Create(r)
  BY <1>1, <1>2, CreateEffect, Labels DEF Moves, CreateSteps, Running
<1>3. CASE Upload(r)
  <2>1. pc[r] \in UploadSteps
    BY <1>3 DEF Upload, UCheck, UTemp, UDup, UInsert, UMkdir, URename, UCommit, UDrop, UUnplace, At, UploadSteps, Test, MoveFile, MakeDir
  <2>2. Shape(r)
    BY <1>1, <2>1 DEF UploadSteps
  <2>3. QED
    BY <1>3, <2>1, <2>2, UploadEffect, Labels DEF Moves, Shape, Running
<1>4. CASE Delete(r)
  BY <1>1, <1>4, DeleteEffect, Labels DEF Moves, DeleteSteps, Running, Ended
<1>5. CASE Restore(r)
  BY <1>1, <1>5, RestoreEffect, Labels DEF Moves, RestoreSteps, Running, Ended
<1>6. CASE DeleteFile(r)
  BY <1>1, <1>6, DeleteFileEffect, Labels DEF Moves, FileSteps, Running, Ended
<1>7. CASE Update(r)
  BY <1>1, <1>7, UpdateEffect, Labels DEF Moves, UpdateSteps, Running
<1>8. CASE Import(r)
  BY <1>1, <1>8, ImportEffect, Labels DEF Moves, ImportSteps, CreateSteps, UpdateSteps, Running, Ended
<1>9. QED
  BY <1>2, <1>3, <1>4, <1>5, <1>6, <1>7, <1>8 DEF Work

\* Every step of every handler keeps the types.
LEMMA TypeWork ==
    ASSUME TypeOK, Shapes, SlotsFit, NEW r \in Req, Work(r) PROVE TypeOK'
<1>1. Shape(r)
  BY WorkMoves
<1>2. arg[r].book \in Id
  BY <1>1 DEF Shape
<1>3. ASSUME DeleteFile(r) PROVE arg[r].file \in Id
  BY <1>1, <1>3, DeleteFileEffect DEF Shape
<1>4. ASSUME pc[r] \in {"r_move", "r_undo"} PROVE seen[r] \in Dir
  BY <1>4, Paths DEF SlotsFit, SlotOf
<1>5. QED
  BY <1>2, <1>3, <1>4, TypeCreate, TypeUpload, TypeDelete, TypeRestore, TypeDeleteFile,
     TypeUpdate, TypeImport DEF Work

-----------------------------------------------------------------------------
(* Shapes.                                                                 *)

\* Where a request and its argument stay, what they name stays.
LEMMA ArgSame ==
    ASSUME arg' = arg
    PROVE  /\ \A f : Home(f)' = Home(f) /\ ContentOf(f)' = ContentOf(f)
           /\ \A p, b : SlotOf(p, b)' <=> SlotOf(p, b)
           /\ \A r : Created(r)' = Created(r)
BY DEF Home, ContentOf, SlotOf, Created, Importing

\* Steps keep the shape of their request, and of the others.
LEMMA ShapesWork ==
    ASSUME TypeOK, Shapes, NEW r \in Req, Work(r) PROVE Shapes'
<1>1. /\ Shape(r) /\ Moves(r, Label) /\ pc[r] \in Running
      /\ arg' = arg
  BY WorkMoves DEF Moves
<1>2. /\ pc'[r] # "idle"
      /\ pc'[r] \in CreateSteps  => arg[r].op \in {"create", "import"}
      /\ pc'[r] \in UploadSteps  => arg[r].op \in {"upload", "import"}
      /\ pc'[r] \in UpdateSteps  => arg[r].op \in {"update", "import"}
      /\ pc'[r] \in ImportSteps  => arg[r].op = "import"
      /\ pc'[r] \in DeleteSteps  => arg[r].op = "delete"
      /\ pc'[r] \in RestoreSteps => arg[r].op = "restore"
      /\ pc'[r] \in FileSteps    => arg[r].op = "delete_file"
  <2> USE DEF CreateSteps, UploadSteps, DeleteSteps, RestoreSteps, FileSteps, UpdateSteps, ImportSteps
  <2>2. CASE Create(r)
    BY <1>1, <2>2, CreateEffect DEF Moves, Shape, Created, NotMade, Importing
  <2>3. CASE Upload(r)
    BY <1>1, <2>3, UploadEffect DEF Moves, Shape, Uploaded, Refused, Importing
  <2>4. CASE Delete(r)
    BY <1>1, <2>4, DeleteEffect DEF Moves, Shape
  <2>5. CASE Restore(r)
    BY <1>1, <2>5, RestoreEffect DEF Moves, Shape
  <2>6. CASE DeleteFile(r)
    BY <1>1, <2>6, DeleteFileEffect DEF Moves, Shape
  <2>7. CASE Update(r)
    BY <1>1, <2>7, UpdateEffect DEF Moves, Shape, Updated, Refused, Importing
  <2>8. CASE Import(r)
    BY <1>1, <2>8, ImportEffect DEF Moves, Shape
  <2>9. QED BY <2>2, <2>3, <2>4, <2>5, <2>6, <2>7, <2>8 DEF Work
<1>3. \A q \in Req : pc'[q] = "idle" <=> pc[q] = "idle"
  BY <1>1, <1>2 DEF Moves, TypeOK, ControlTypeOK, Running, CreateSteps, UploadSteps, DeleteSteps, RestoreSteps, FileSteps, UpdateSteps, ImportSteps
<1>4. Shape(r)'
  BY <1>1, <1>2, <1>3 DEF Shape, Home
<1>5. ASSUME NEW q \in Req, q # r, pc[q] # "idle" PROVE Shape(q)'
  <2>1. Shape(q) /\ pc'[q] = pc[q]
    BY <1>1, <1>5 DEF Shapes, Moves, TypeOK, ControlTypeOK
  <2>2. QED BY <1>1, <1>3, <2>1 DEF Shape, Home
<1>6. QED BY <1>1, <1>2, <1>3, <1>4, <1>5 DEF Shapes

\* So does a request that starts.
LEMMA ShapesStart ==
    ASSUME TypeOK, Shapes, NoEarlyRow, NEW r \in Req, Start(r) PROVE Shapes'
<1>1. PICK o \in Ops \cap AllOps : \E a \in Asks(r, o) :
              /\ pc[r] = "idle"
              /\ arg' = [arg EXCEPT ![r] = a]
              /\ pc' = [pc EXCEPT ![r] = FirstStep[o]]
              /\ UNCHANGED <<seen, faults, crashes, disk, database>>
  BY StartEffect
<1>2. PICK a \in Asks(r, o) :
              /\ pc[r] = "idle"
              /\ arg' = [arg EXCEPT ![r] = a]
              /\ pc' = [pc EXCEPT ![r] = FirstStep[o]]
  BY <1>1
<1>3. \A f \in Id : f # r => Home(f)' = Home(f)
  BY <1>2, SeededNotReq DEF Home, Id, TypeOK, ControlTypeOK
<1>4. ASSUME NEW q \in Req, q # r
      PROVE  (IF pc[q] = "idle" THEN arg[q] = NoArg ELSE Shape(q))'
  <2>1. pc'[q] = pc[q] /\ arg'[q] = arg[q]
    BY <1>2, <1>4 DEF TypeOK, ControlTypeOK
  <2>2. CASE pc[q] = "idle"
    BY <2>1, <2>2 DEF Shapes
  <2>3. CASE pc[q] # "idle"
    <3>1. Shape(q)
      BY <2>3 DEF Shapes
    <3>2. ASSUME arg[q].op = "delete_file"
          PROVE  Home(arg[q].file)' = Home(arg[q].file)
      BY <1>2, <2>1, <3>1, <3>2, SeededNotReq DEF Shape, Home, Id, TypeOK, ControlTypeOK
    <3>3. \A p \in Req : pc'[p] = "idle" => pc[p] = "idle"
      BY <1>2 DEF TypeOK, ControlTypeOK
    <3>4. Shape(q)'
      BY <2>1, <3>1, <3>2, <3>3 DEF Shape
    <3>5. QED BY <2>1, <2>3, <3>4
  <2>4. QED BY <2>2, <2>3
<1>5. Shape(r)' /\ pc'[r] # "idle"
  <2>1. /\ a.op = o /\ a.book \in Id
        /\ o \in {"create", "import"} => a.book = r
        /\ o \in {"upload", "import"} => a.file = r /\ a.content \in Content
        /\ o = "delete_file" => a.file \in rows /\ a.file # r /\ a.book = Home(a.file)
    BY <1>2, AsksShape
  <2>2. pc'[r] = FirstStep[o] /\ arg'[r] = a
    BY <1>2 DEF TypeOK, ControlTypeOK
  <2>3. o = "delete_file" =>
            /\ a.file \in Id \ {q \in Req : q = r \/ pc'[q] = "idle"}
            /\ a.book = Home(a.file)'
    BY <1>2, <1>3, <2>1 DEF TypeOK, ControlTypeOK, DatabaseTypeOK, NoEarlyRow, BeforeCommit
  <2>4. QED
    BY <2>1, <2>2, <2>3 DEF Shape, FirstStep, AllOps, CreateSteps, UploadSteps, DeleteSteps, RestoreSteps, FileSteps, UpdateSteps, ImportSteps
<1>6. QED BY <1>4, <1>5 DEF Shapes

\* So does the end of the process.
LEMMA ShapesCrash == ASSUME TypeOK, Shapes, Crash PROVE Shapes'
<1>1. arg' = arg
  BY DEF Crash
<1>2. ASSUME NEW q \in Req
      PROVE  (IF pc[q] = "idle" THEN arg[q] = NoArg ELSE Shape(q))'
  BY <1>1, <1>2, ArgSame DEF Shapes, Shape, Crash, InFlight, Running, CreateSteps, UploadSteps, DeleteSteps, RestoreSteps, FileSteps, UpdateSteps, ImportSteps
<1>3. QED BY <1>2 DEF Shapes

-----------------------------------------------------------------------------
(* Rows, content and the write lock.                                       *)

\* No step gives a row to a file whose upload has not committed.
LEMMA RowsWork ==
    ASSUME TypeOK, Shapes, NEW r \in Req, Work(r)
    PROVE  /\ \/ rows' \subseteq rows
              \/ pc[r] = "u_commit" /\ pc'[r] = Uploaded(r) /\ rows' = rows \cup {r}
           /\ pc'[r] \in BeforeCommit => pc[r] \in BeforeCommit
           /\ \/ UNCHANGED writer
              \/ writer = None /\ writer' = r
              \/ writer' = None /\ (pc[r] = "u_commit" \/ writer = r)
           /\ pc'[r] \in Inserting =>
                \/ /\ pc[r] = "u_insert" /\ writer' = r
                   /\ ~Catalogued(arg[r].content)
                \/ pc[r] \in Inserting /\ UNCHANGED writer
<1> USE DEF Moves, CreateSteps, UploadSteps, DeleteSteps, RestoreSteps, FileSteps, UpdateSteps, ImportSteps, BeforeCommit, Inserting
<1>1. Shape(r)
  BY WorkMoves
<1>2. CASE Create(r)
  BY <1>2, CreateEffect DEF Created, NotMade
<1>3. CASE Upload(r)
  BY <1>1, <1>3, UploadEffect DEF Uploaded, Refused, Shape
<1>4. CASE Delete(r)
  BY <1>4, DeleteEffect
<1>5. CASE Restore(r)
  BY <1>5, RestoreEffect
<1>6. CASE DeleteFile(r)
  BY <1>6, DeleteFileEffect
<1>7. CASE Update(r)
  BY <1>7, UpdateEffect DEF Updated, Refused
<1>8. CASE Import(r)
  BY <1>8, ImportEffect
<1>9. QED
  BY <1>2, <1>3, <1>4, <1>5, <1>6, <1>7, <1>8 DEF Work

\* Inserting alone, a commit adds a content that no row holds.
LEMMA UniqueWork ==
    ASSUME TypeOK, Shapes, NoEarlyRow, InsertsAlone, UniqueContent, NEW r \in Req, Work(r)
    PROVE  NoEarlyRow' /\ InsertsAlone' /\ UniqueContent'
<1>1. /\ arg' = arg
      /\ \A q \in Req : q # r => pc'[q] = pc[q]
      /\ \A f : ContentOf(f)' = ContentOf(f)
  BY WorkMoves, ArgSame DEF Moves, TypeOK, ControlTypeOK
<1>2. Uploaded(r) \notin BeforeCommit /\ Inserting \subseteq BeforeCommit
  BY DEF Uploaded, BeforeCommit, CreateSteps, UploadSteps, Inserting
<1>3. NoEarlyRow'
  BY <1>1, <1>2, RowsWork DEF NoEarlyRow
<1>4. pc[r] = "u_commit" => writer = r /\ ~Catalogued(arg[r].content)
  BY DEF InsertsAlone, Inserting
<1>5. InsertsAlone'
  <2>1. ASSUME NEW q \in Req, q # r, pc'[q] \in Inserting
        PROVE  writer' = q /\ ~Catalogued(arg[q].content)'
    <3>1. writer = q /\ ~Catalogued(arg[q].content)
      BY <1>1, <2>1 DEF InsertsAlone
    <3>2. rows' \subseteq rows
      BY <1>4, <2>1, <3>1, RowsWork
    <3>3. writer' = q
      BY <1>4, <2>1, <3>1, RowsWork, NoneIsNoValue
    <3>4. QED BY <1>1, <3>1, <3>2, <3>3 DEF Catalogued
  <2>2. ASSUME pc'[r] \in Inserting
        PROVE  writer' = r /\ ~Catalogued(arg[r].content)'
    <3>1. rows' \subseteq rows
      BY <1>2, <2>2, RowsWork
    <3>2. writer' = r /\ ~Catalogued(arg[r].content)
      BY <2>2, RowsWork DEF InsertsAlone
    <3>3. QED BY <1>1, <3>1, <3>2 DEF Catalogued
  <2>3. QED BY <2>1, <2>2 DEF InsertsAlone
<1>6. UniqueContent'
  <2>1. CASE rows' \subseteq rows
    BY <1>1, <2>1 DEF UniqueContent
  <2>2. CASE pc[r] = "u_commit" /\ rows' = rows \cup {r}
    <3>1. ContentOf(r) = arg[r].content
      BY SeededNotReq DEF ContentOf
    <3>2. QED BY <1>1, <1>4, <2>2, <3>1 DEF UniqueContent, Catalogued
  <2>3. QED BY <2>1, <2>2, RowsWork
<1>7. QED BY <1>3, <1>5, <1>6

-----------------------------------------------------------------------------
(* Slots of the trash.                                                     *)

\* Delete writes its own slot, Restore reads a slot of its book.
LEMMA SlotsWork ==
    ASSUME TypeOK, Shapes, SlotsFit, NEW r \in Req, Work(r) PROVE SlotsFit'
<1>1. /\ Shape(r)
      /\ arg' = arg
      /\ \A q \in Req : q # r => pc'[q] = pc[q]
      /\ \A p, b : SlotOf(p, b)' <=> SlotOf(p, b)
      /\ r \in Id
  BY WorkMoves, ArgSame DEF Moves, TypeOK, ControlTypeOK, Id
<1>2. SUFFICES /\ \A b \in Id : trashPath'[b] # Nowhere => SlotOf(trashPath'[b], b)
               /\ \A q \in Req : pc'[q] \in Restoring => SlotOf(seen'[q], arg[q].book)
  BY <1>1 DEF SlotsFit, Restoring, SlotOf
<1>3. /\ \A b \in Id : trashPath[b] # Nowhere => SlotOf(trashPath[b], b)
      /\ \A q \in Req : pc[q] \in Restoring => SlotOf(seen[q], arg[q].book)
  BY DEF SlotsFit, Restoring
<1> USE DEF Moves, CreateSteps, UploadSteps, DeleteSteps, RestoreSteps, FileSteps, UpdateSteps, ImportSteps, Restoring, TypeOK, DatabaseTypeOK, ControlTypeOK
<1>4. CASE Create(r)
  BY <1>1, <1>3, <1>4, CreateEffect DEF Created, NotMade
<1>5. CASE Upload(r)
  BY <1>1, <1>3, <1>5, UploadEffect DEF Uploaded, Refused, Shape
<1>6. CASE Delete(r)
  <2>1. SlotOf(Slot(r), arg[r].book)
    BY <1>1, <1>6, DeleteEffect DEF SlotOf, Shape
  <2>2. QED BY <1>1, <1>3, <1>6, <2>1, DeleteEffect
<1>7. CASE Restore(r)
  BY <1>1, <1>3, <1>7, RestoreEffect DEF Shape
<1>8. CASE DeleteFile(r)
  BY <1>1, <1>3, <1>8, DeleteFileEffect
<1>9. CASE Update(r)
  BY <1>1, <1>3, <1>9, UpdateEffect DEF Updated, Refused
<1>10. CASE Import(r)
  BY <1>1, <1>3, <1>10, ImportEffect
<1>11. QED
  BY <1>4, <1>5, <1>6, <1>7, <1>8, <1>9, <1>10 DEF Work

-----------------------------------------------------------------------------
(* Where the files are: each way a directory or a file moves keeps the     *)
(* files of every other book where they belong.                            *)

\* Places of different kinds, or of different books, differ.
LEMMA PathsDiffer ==
    /\ \A b, c : Live(b) = Live(c) => b = c
    /\ \A r, s : Slot(r) = Slot(s) => r = s
    /\ \A b, r : Live(b) # Slot(r) /\ Live(b) # TrashFiles /\ Slot(r) # TrashFiles
    /\ \A b, r : Live(b) # Nowhere /\ Slot(r) # Nowhere
BY DEF Live, Slot, TrashFiles, Nowhere

\* A file is located as long as its place and its request stay.
LEMMA LocatedSame ==
    ASSUME arg' = arg, NEW f, Located(f), at'[f] = at[f] PROVE Located(f)'
BY DEF Located, SlotOf, Home

\* A file moved with its directory, or to its book, is located.
LEMMA LocatedTo ==
    ASSUME arg' = arg, NEW f, NEW b, Home(f) = b,
           at'[f] \in {Live(b), TrashFiles} \/ SlotOf(at'[f], b)
    PROVE  Located(f)'
BY DEF Located, SlotOf, Home

\* A directory moves between the place of a book and one of its slots.
LEMMA LocatedMove ==
    ASSUME TypeOK, arg' = arg, NEW f \in Id, Located(f), NEW b, NEW p, SlotOf(p, b),
           MoveDir(Live(b), p) \/ MoveDir(p, Live(b))
    PROVE  Located(f)'
<1>1. CASE at[f] \notin {Live(b), p}
  BY <1>1, LocatedSame DEF MoveDir
<1>2. CASE at[f] \in {Live(b), p}
  <2>1. Home(f) = b
    BY <1>2, PathsDiffer DEF Located, SlotOf
  <2>2. at'[f] \in {Live(b), p}
    BY <1>2 DEF MoveDir
  <2>3. QED BY <2>1, <2>2, LocatedTo
<1>3. QED BY <1>1, <1>2

\* Removing the directory of one book takes no file of another.
LEMMA LocatedRemove ==
    ASSUME TypeOK, arg' = arg, NEW f \in Id, Located(f), NEW b, Home(f) # b,
           RemoveDir(Live(b))
    PROVE  Located(f)'
<1>1. at[f] # Live(b)
  BY PathsDiffer DEF Located, SlotOf
<1>2. QED BY <1>1, LocatedSame DEF RemoveDir

\* Moving one file takes no other.
LEMMA LocatedPut ==
    ASSUME TypeOK, arg' = arg, NEW f \in Id, Located(f), NEW g \in Id,
           PutFile(g, TrashFiles) \/ PutFile(g, Live(Home(g)))
    PROVE  Located(f)'
<1>1. CASE f = g
  BY <1>1, LocatedTo DEF PutFile, TypeOK, StorageTypeOK
<1>2. CASE f # g
  BY <1>2, LocatedSame DEF PutFile, TypeOK, StorageTypeOK
<1>3. QED BY <1>1, <1>2

\* What is undone stays undone.
LEMMA UndoneStays ==
    ASSUME TypeOK, Shapes, NEW r \in Req, Work(r)
    PROVE  \A f : Undone(Home(f)) => Undone(Home(f))'
<1>1. /\ arg' = arg
      /\ pc' = [pc EXCEPT ![r] = pc'[r]]
  BY WorkMoves DEF Moves
<1>2. pc[r] \in {"j_failed", "error", "lost"} => pc'[r] = "error"
  <2>1. ASSUME pc[r] \in {"j_failed", "error", "lost"} PROVE Import(r)
    <3> USE DEF CreateSteps, UploadSteps, DeleteSteps, RestoreSteps, FileSteps, UpdateSteps
    <3>1. pc[r] = "j_failed" /\ Shape(r)
      BY <2>1, WorkMoves DEF Running, ImportSteps
    <3>2. QED
      BY <3>1, CreateEffect, UploadEffect, DeleteEffect, RestoreEffect, DeleteFileEffect,
         UpdateEffect DEF Work, Shape
  <2>2. QED BY <2>1, ImportEffect DEF ImportSteps
<1>3. QED BY <1>1, <1>2 DEF Undone, Home, TypeOK, ControlTypeOK

\* A step that leaves every file of a book not undone where it belongs, and
\* catalogues no other file.
LEMMA LocatedKept ==
    ASSUME TypeOK, Shapes, FilesLocated, NEW r \in Req, Work(r),
           rows' \subseteq rows,
           pc'[r] # "u_commit",
           \A f \in Id : Located(f) /\ ~Undone(Home(f))' => Located(f)'
    PROVE  FilesLocated'
<1>1. \A q \in Req : pc'[q] = "u_commit" => pc[q] = "u_commit"
  BY WorkMoves DEF Moves, TypeOK, ControlTypeOK
<1>2. QED
  BY <1>1, UndoneStays DEF FilesLocated, Id, TypeOK, DatabaseTypeOK

\* No step of a handler loses a catalogued file of a book nobody undoes.
LEMMA LocatedWork ==
    ASSUME TypeOK, Shapes, NoEarlyRow, SlotsFit, FilesLocated, NEW r \in Req, Work(r)
    PROVE  FilesLocated'
<1>1. /\ Shape(r) /\ r \in Id
      /\ arg' = arg /\ pc' = [pc EXCEPT ![r] = pc'[r]]
      /\ \A f : Home(f)' = Home(f)
  BY WorkMoves, ArgSame DEF Moves, Id
<1>2. ASSUME UNCHANGED at, NEW f \in Id, Located(f) PROVE Located(f)'
  BY <1>1, <1>2, LocatedSame
<1> USE DEF Moves, CreateSteps, UploadSteps, DeleteSteps, RestoreSteps, FileSteps, UpdateSteps, ImportSteps
<1>3. ASSUME RemoveDir(Live(r)), pc'[r] \in {"j_failed", "error"},
             NEW f \in Id, Located(f), ~Undone(Home(f))'
      PROVE  Located(f)'
  <2>1. Home(f) # r
    BY <1>1, <1>3 DEF Undone, TypeOK, ControlTypeOK
  <2>2. QED BY <1>1, <1>3, <2>1, LocatedRemove
<1>4. CASE Create(r)
  <2>1. pc'[r] # "u_commit" /\ rows' \subseteq rows
    BY <1>4, CreateEffect DEF Created, NotMade
  <2>2. ASSUME NEW f \in Id, Located(f), ~Undone(Home(f))' PROVE Located(f)'
    BY <1>2, <1>3, <1>4, <2>2, CreateEffect DEF NotMade
  <2>3. QED BY <2>1, <2>2, LocatedKept
<1>5. CASE Upload(r)
  <2>1. /\ pc[r] \in UploadSteps /\ r \notin rows /\ Home(r) = arg[r].book
        /\ arg[r].book \in Id
    BY <1>1, <1>5, UploadEffect, SeededNotReq DEF NoEarlyRow, BeforeCommit, Home, Shape
  <2>2. ASSUME NEW f \in Id, f # r, Located(f) PROVE Located(f)'
    <3>1. at'[f] = at[f]
      BY <1>5, <2>1, <2>2, UploadEffect DEF PutFile, TypeOK, StorageTypeOK
    <3>2. QED BY <1>1, <2>2, <3>1, LocatedSame
  <2>3. ASSUME NEW f \in rows', ~Undone(Home(f))' PROVE Located(f)'
    <3>1. CASE f \in rows
      BY <1>1, <2>1, <2>2, <2>3, <3>1, UndoneStays DEF FilesLocated, TypeOK, DatabaseTypeOK
    <3>2. CASE f = r /\ pc[r] = "u_commit"
      <4>1. Located(r)
        BY <2>3, <3>2, UndoneStays DEF FilesLocated
      <4>2. UNCHANGED at
        BY <1>5, <2>1, <2>3, <3>2, UploadEffect
      <4>3. QED BY <1>1, <1>2, <3>2, <4>1, <4>2
    <3>3. QED BY <1>5, <2>1, <2>3, <3>1, <3>2, UploadEffect
  <2>4. ASSUME NEW q \in Req, pc'[q] = "u_commit", ~Undone(Home(q))' PROVE Located(q)'
    <3>1. CASE q = r
      <4>1. at'[r] = Live(arg[r].book)
        BY <1>1, <1>5, <2>1, <2>4, <3>1, UploadEffect DEF PutFile, TypeOK, StorageTypeOK
      <4>2. QED BY <1>1, <2>1, <3>1, <4>1, LocatedTo
    <3>2. CASE q # r
      <4>1. pc[q] = "u_commit" /\ q \in Id
        BY <1>1, <2>4, <3>2 DEF TypeOK, ControlTypeOK, Id
      <4>2. QED BY <2>2, <2>4, <3>2, <4>1, UndoneStays DEF FilesLocated
    <3>3. QED BY <3>1, <3>2
  <2>5. QED BY <2>3, <2>4 DEF FilesLocated
<1>6. CASE Delete(r)
  <2>1. pc'[r] # "u_commit" /\ rows' \subseteq rows
    BY <1>6, DeleteEffect
  <2>2. SlotOf(Slot(r), arg[r].book)
    BY <1>1, <1>6, DeleteEffect DEF Shape, SlotOf
  <2>3. ASSUME NEW f \in Id, Located(f) PROVE Located(f)'
    BY <1>1, <1>2, <1>6, <2>2, <2>3, DeleteEffect, LocatedMove
  <2>4. QED BY <2>1, <2>3, LocatedKept
<1>7. CASE Restore(r)
  <2>1. pc'[r] # "u_commit" /\ rows' \subseteq rows
    BY <1>7, RestoreEffect
  <2>2. pc[r] \in Restoring => SlotOf(seen[r], arg[r].book)
    BY DEF SlotsFit, Restoring
  <2>3. ASSUME NEW f \in Id, Located(f) PROVE Located(f)'
    BY <1>1, <1>2, <1>7, <2>2, <2>3, RestoreEffect, LocatedMove
  <2>4. QED BY <2>1, <2>3, LocatedKept
<1>8. CASE DeleteFile(r)
  <2>1. pc'[r] # "u_commit" /\ rows' \subseteq rows
    BY <1>8, DeleteFileEffect
  <2>2. arg[r].file \in Id /\ arg[r].book = Home(arg[r].file)
    BY <1>1, <1>8, DeleteFileEffect DEF Shape
  <2>3. ASSUME NEW f \in Id, Located(f) PROVE Located(f)'
    BY <1>1, <1>2, <1>8, <2>2, <2>3, DeleteFileEffect, LocatedPut
  <2>4. QED BY <2>1, <2>3, LocatedKept
<1>9. CASE Update(r)
  <2>1. pc'[r] # "u_commit" /\ rows' \subseteq rows /\ UNCHANGED at
    BY <1>9, UpdateEffect DEF Updated, Refused
  <2>2. QED BY <1>2, <2>1, LocatedKept
<1>10. CASE Import(r)
  <2>1. pc'[r] # "u_commit" /\ rows' \subseteq rows
    BY <1>10, ImportEffect
  <2>2. ASSUME NEW f \in Id, Located(f), ~Undone(Home(f))' PROVE Located(f)'
    BY <1>2, <1>3, <1>10, <2>2, ImportEffect
  <2>3. QED BY <2>1, <2>2, LocatedKept
<1>11. QED
  BY <1>4, <1>5, <1>6, <1>7, <1>8, <1>9, <1>10 DEF Work

-----------------------------------------------------------------------------
(* The invariant.                                                          *)

\* The invariant holds initially.
LEMMA InvInit == Init => IInv
<1> SUFFICES ASSUME Init PROVE IInv  OBVIOUS
<1>1. TypeOK
  BY TypeInit
<1>2. \A f \in Seeded : f \in Id /\ f \notin Req
  BY SeededNotReq DEF Id
<1>3. Shapes /\ InsertsAlone
  BY DEF Init, Shapes, InsertsAlone, Inserting
<1>4. NoEarlyRow
  BY <1>2 DEF Init, NoEarlyRow
<1>5. UniqueContent
  BY DEF Init, UniqueContent, ContentOf
<1>6. SlotsFit
  BY DEF Init, SlotsFit
<1>7. FilesLocated
  BY <1>2 DEF Init, FilesLocated, Located, Home
<1>8. QED BY <1>1, <1>3, <1>4, <1>5, <1>6, <1>7 DEF IInv

\* A step of a handler keeps it.
LEMMA InvWork == ASSUME IInv, NEW r \in Req, Work(r) PROVE IInv'
BY TypeWork, ShapesWork, UniqueWork, SlotsWork, LocatedWork DEF IInv

\* A request that starts keeps it.
LEMMA InvStart == ASSUME IInv, NEW r \in Req, Start(r) PROVE IInv'
<1> USE DEF IInv
<1>1. PICK o \in Ops \cap AllOps : \E a \in Asks(r, o) :
              /\ pc[r] = "idle"
              /\ arg' = [arg EXCEPT ![r] = a]
              /\ pc' = [pc EXCEPT ![r] = FirstStep[o]]
              /\ UNCHANGED <<seen, faults, crashes, disk, database>>
  BY StartEffect
<1>2. /\ pc[r] = "idle" /\ arg[r] = NoArg /\ r \notin rows
      /\ \A q \in Req : q # r => arg'[q] = arg[q] /\ pc'[q] = pc[q]
      /\ pc'[r] = FirstStep[o]
      /\ UNCHANGED <<seen, at, trashPath, rows, writer>>
  BY <1>1 DEF Shapes, NoEarlyRow, BeforeCommit, TypeOK, ControlTypeOK, disk, database, catalogue
<1>3. FirstStep[o] \notin Inserting \cup Restoring
  BY DEF FirstStep, AllOps, Inserting, Restoring
<1>4. \A f \in Id : f # r => Home(f)' = Home(f) /\ ContentOf(f)' = ContentOf(f)
  BY <1>2 DEF Home, ContentOf, Id
<1>5. \A p, b : SlotOf(p, b) => SlotOf(p, b)'
  BY <1>2, NoneIsNoValue DEF SlotOf, NoArg, AllOps
<1>6. TypeOK' /\ Shapes'
  BY TypeStart, ShapesStart
<1>7. NoEarlyRow'
  BY <1>2 DEF NoEarlyRow
<1>8. UniqueContent'
  BY <1>2, <1>4 DEF UniqueContent, TypeOK, DatabaseTypeOK
<1>9. InsertsAlone'
  <2>1. ASSUME NEW q \in Req, pc'[q] \in Inserting
        PROVE  writer' = q /\ ~Catalogued(arg[q].content)'
    <3>1. q # r /\ writer = q /\ ~Catalogued(arg[q].content)
      BY <1>2, <1>3, <2>1 DEF InsertsAlone
    <3>2. QED
      BY <1>2, <1>4, <3>1 DEF Catalogued, TypeOK, DatabaseTypeOK
  <2>2. QED BY <2>1 DEF InsertsAlone, Catalogued
<1>10. SlotsFit'
  <2>1. ASSUME NEW q \in Req, pc'[q] \in Restoring PROVE SlotOf(seen[q], arg[q].book)'
    <3>1. q # r /\ SlotOf(seen[q], arg[q].book)
      BY <1>2, <1>3, <2>1 DEF SlotsFit, Restoring
    <3>2. seen'[q] = seen[q] /\ arg'[q] = arg[q]
      BY <1>2, <3>1
    <3>3. QED BY <1>5, <3>1, <3>2 DEF SlotOf
  <2>2. QED BY <1>2, <1>5, <2>1 DEF SlotsFit, SlotOf, Restoring
<1>11. FilesLocated'
  <2>1. \A f \in Id : f # r /\ ~Undone(Home(f))' => ~Undone(Home(f))
    BY <1>2, <1>4 DEF Undone
  <2>2. \A f \in Id : f # r /\ Located(f) => Located(f)'
    BY <1>2, <1>4, <1>5 DEF Located, SlotOf
  <2>3. rows \subseteq Id \ {r}
    BY <1>2 DEF TypeOK, DatabaseTypeOK
  <2>4. \A q \in Req : pc'[q] = "u_commit" => pc[q] = "u_commit" /\ q \in Id \ {r}
    BY <1>2, <1>3 DEF Id, Inserting
  <2>5. QED BY <1>2, <2>1, <2>2, <2>3, <2>4 DEF FilesLocated
<1>12. QED BY <1>6, <1>7, <1>8, <1>9, <1>10, <1>11

\* The end of the process keeps it.
LEMMA InvCrash == ASSUME IInv, Crash PROVE IInv'
<1> USE DEF IInv
<1>1. /\ UNCHANGED <<arg, seen, at, trashPath, rows>>
      /\ \A q \in Req : pc'[q] = pc[q] \/ (pc[q] \in Running /\ pc'[q] = "lost")
      /\ \A q \in Req : pc'[q] \notin Running
  BY DEF Crash, InFlight, disk, catalogue, TypeOK, ControlTypeOK, Running, CreateSteps, UploadSteps, DeleteSteps, RestoreSteps, FileSteps, UpdateSteps, ImportSteps
<1>2. /\ Inserting \subseteq Running /\ Restoring \subseteq Running
      /\ "lost" \notin BeforeCommit
  BY DEF Inserting, Restoring, Running, BeforeCommit, CreateSteps, UploadSteps, RestoreSteps
<1>3. /\ \A f : Home(f)' = Home(f) /\ ContentOf(f)' = ContentOf(f)
      /\ \A p, b : SlotOf(p, b)' <=> SlotOf(p, b)
  BY <1>1, ArgSame
<1>4. TypeOK' /\ Shapes'
  BY TypeCrash, ShapesCrash
<1>5. NoEarlyRow' /\ InsertsAlone'
  BY <1>1, <1>2 DEF NoEarlyRow, InsertsAlone
<1>6. UniqueContent'
  BY <1>1, <1>3 DEF UniqueContent
<1>7. SlotsFit'
  BY <1>1, <1>2, <1>3 DEF SlotsFit, SlotOf, Restoring
<1>8. FilesLocated'
  <2>1. \A f : Undone(Home(f)) => Undone(Home(f))'
    BY <1>1, <1>3 DEF Undone, Running, CreateSteps, UploadSteps, DeleteSteps, RestoreSteps, FileSteps, UpdateSteps, ImportSteps
  <2>2. \A f : Located(f) => Located(f)'
    BY <1>1, <1>3 DEF Located, SlotOf
  <2>3. \A q \in Req : pc'[q] # "u_commit"
    BY <1>1, <1>2 DEF Inserting
  <2>4. QED BY <1>1, <2>1, <2>2, <2>3 DEF FilesLocated
<1>9. QED BY <1>4, <1>5, <1>6, <1>7, <1>8

\* A step that changes nothing keeps it.
LEMMA InvStutter == ASSUME IInv, UNCHANGED vars PROVE IInv'
<1>1. UNCHANGED <<pc, arg, seen, faults, crashes, disk, dirs, at, database, status, trashPath,
                  rows, writer, job>>
  BY DEF vars, disk, control, database, catalogue
<1>2. TypeOK'
  BY <1>1, StorageSame, DatabaseSame DEF IInv, TypeOK, ControlTypeOK
<1>3. QED
  BY <1>1, <1>2 DEF IInv, Shapes, Shape, NoEarlyRow, InsertsAlone, Catalogued, UniqueContent, SlotsFit, SlotOf, FilesLocated, Undone, Located, Home, ContentOf

(***************************************************************************)
(* The invariant holds, for any number of books, requests, contents,       *)
(* failing calls and crashes.                                              *)
(***************************************************************************)
THEOREM Invariance == Spec => []IInv
<1>1. IInv /\ [Next]_vars => IInv'
  BY InvWork, InvStart, InvCrash, InvStutter DEF Next
<1>2. QED BY InvInit, <1>1, PTL DEF Spec

(***************************************************************************)
(* Every variable keeps its type.                                          *)
(***************************************************************************)
THEOREM TypeCorrect == Spec => []TypeOK
<1>1. IInv => TypeOK BY DEF IInv
<1>2. QED BY <1>1, Invariance, PTL

(***************************************************************************)
(* However uploads and imports race between the count of AddFile and its   *)
(* insert, no two rows of book_files hold the same content.                *)
(***************************************************************************)
THEOREM ContentIsUnique == Spec => []UniqueContent
<1>1. IInv => UniqueContent BY DEF IInv
<1>2. QED BY <1>1, Invariance, PTL

(***************************************************************************)
(* The bytes of a catalogued file of an accepted book are never lost: they *)
(* are in its directory, in a trash slot of that book, or in trash/files/. *)
(***************************************************************************)
THEOREM FilesAreKept == Spec => []FilesKept
<1>1. IInv => FilesKept
  BY SeededNotReq DEF IInv, FilesKept, Accepted, FilesLocated, Undone
<1>2. QED BY <1>1, Invariance, PTL

-----------------------------------------------------------------------------
(* Nothing but a DeleteFile that names it, or the purge of the import that  *)
(* made its book, takes the row of an acknowledged upload away again.       *)

\* An import that has failed does not come back.
LEMMA FailedStays ==
    ASSUME IInv, NEW r \in Req, Work(r), NEW b, FailedImport(b)
    PROVE  FailedImport(b)'
<1>1. /\ Shape(r) /\ arg' = arg /\ pc[r] \in Running
      /\ \A q \in Req : q # r => pc'[q] = pc[q]
  BY WorkMoves DEF Moves, IInv, TypeOK, ControlTypeOK
<1>2. CASE b # r BY <1>1, <1>2 DEF FailedImport
<1>3. CASE b = r
  <2> USE DEF IInv, FailedImport
  <2>1. pc[r] \in {"p_book", "p_dir", "j_failed"}
    BY <1>1, <1>3 DEF Running, CreateSteps, UploadSteps, DeleteSteps, RestoreSteps, FileSteps,
                      UpdateSteps, ImportSteps
  <2>2. Import(r)
    <3>1. ~Create(r) /\ ~Delete(r)
      BY <2>1, CreateEffect, DeleteEffect DEF CreateSteps, DeleteSteps
    <3>2. ~Upload(r)
      BY <1>1, <2>1, UploadEffect DEF UploadSteps, Shape
    <3>3. ~Restore(r) /\ ~DeleteFile(r) /\ ~Update(r)
      BY <2>1, RestoreEffect, DeleteFileEffect, UpdateEffect DEF RestoreSteps, FileSteps, UpdateSteps
    <3>4. QED BY <3>1, <3>2, <3>3 DEF Work
  <2>3. QED BY <1>1, <1>3, <2>1, <2>2, ImportEffect
<1>4. QED BY <1>2, <1>3

\* A step takes away no row but those it was asked for or purges.
LEMMA RowStays ==
    ASSUME IInv, NEW r \in Req, Work(r), NEW q \in Req, q \in rows,
           pc[q] = "ok", arg[q].op = "upload", ~DeletedFile(q)
    PROVE  q \in rows' \/ FailedImport(arg[q].book)'
<1>1. Shape(r) /\ arg' = arg
  BY WorkMoves DEF Moves, IInv, TypeOK, ControlTypeOK
<1> USE DEF IInv
<1>2. CASE DeleteFile(r)
  <2>1. arg[r].file # q BY <1>1, <1>2, DeleteFileEffect DEF DeletedFile, Shape
  <2>2. QED BY <1>2, <2>1, DeleteFileEffect
<1>3. CASE Import(r)
  <2>1. CASE rows' = rows BY <2>1
  <2>2. CASE rows' = rows \ FilesOf(r) /\ pc'[r] = "p_book"
    <3>1. Home(q) = arg[q].book BY SeededNotReq DEF Home
    <3>2. arg[r].op = "import" BY <1>1, <1>3, ImportEffect DEF Shape
    <3>3. QED BY <1>1, <2>2, <3>1, <3>2 DEF FilesOf, FailedImport
  <2>3. QED BY <1>3, <2>1, <2>2, ImportEffect
<1>4. CASE Upload(r) BY <1>1, <1>4, UploadEffect DEF Shape
<1>5. CASE Create(r) BY <1>5, CreateEffect
<1>6. CASE Delete(r) BY <1>6, DeleteEffect
<1>7. CASE Restore(r) BY <1>7, RestoreEffect
<1>8. CASE Update(r) BY <1>8, UpdateEffect
<1>9. QED BY <1>2, <1>3, <1>4, <1>5, <1>6, <1>7, <1>8 DEF Work

\* An upload that is answered with success has its row.
LEMMA RowComes ==
    ASSUME IInv, NEW r \in Req, Work(r), arg[r].op = "upload", pc'[r] = "ok"
    PROVE  r \in rows'
<1>1. Shape(r) /\ pc[r] \in Running
  BY WorkMoves DEF IInv, TypeOK, ControlTypeOK
<1> USE DEF IInv, Shape
<1>2. Uploaded(r) = "ok" /\ Refused(r) = "error"
  BY DEF Uploaded, Refused, Importing
<1>3. CASE Upload(r) BY <1>1, <1>2, <1>3, UploadEffect DEF Moves, UploadSteps
<1>4. ~Create(r) /\ ~Delete(r) /\ ~Restore(r) /\ ~DeleteFile(r) /\ ~Update(r) /\ ~Import(r)
  BY <1>1, CreateEffect, DeleteEffect, RestoreEffect, DeleteFileEffect, UpdateEffect,
     ImportEffect
<1>5. QED BY <1>3, <1>4 DEF Work

-----------------------------------------------------------------------------
(***************************************************************************)
(* What the readers of the library rely on.  A step of a handler either    *)
(* leaves directories, files and catalogue alone, or is of one of the      *)
(* kinds below, each a call with what it needs and where it goes on.       *)
(***************************************************************************)
stored == <<dirs, at, status, trashPath, rows>>

Turns(r, l, m) == pc[r] = l /\ pc' = [pc EXCEPT ![r] = m]

\* Only control moves on: what the label it comes to says of where it was.
Rests(r) ==
    /\ UNCHANGED stored
    /\ pc'[r] \notin {"idle", "j_new", "c_tx", "c_meta", "u_rename", "u_commit", "d_mark",
                      "r_mark", "f_unrow", "f_back"}
    /\ pc'[r] = "c_dir" => pc[r] = "j_new"
    /\ pc[r] = "c_meta" /\ pc'[r] = "c_get" => CanWriteMetadata(r)
    /\ pc[r] = "c_rmdir" => pc'[r] = NotMade(r)
    /\ pc[r] = "p_dir" => pc'[r] = "j_failed"
    /\ pc[r] = "j_failed" => pc'[r] = "error"
    /\ pc[r] = "p_book" => pc'[r] = "p_dir"
    /\ pc[r] = "e_meta" /\ pc'[r] = Updated(r) => Live(arg[r].book) \in dirs
    /\ pc'[r] = "d_undo" => pc[r] = "d_mark" /\ faults'[r] > 0
    /\ pc'[r] = "r_undo" => pc[r] = "r_mark"
    /\ pc'[r] = "r_move" =>
          /\ pc[r] = "r_check" /\ Trashed(arg[r].book)
          /\ seen'[r] = trashPath[arg[r].book]
    /\ pc'[r] = "f_move" => arg[r].file \in rows
    /\ pc'[r] = "f_mkdir" => pc[r] = "f_unrow"

Keeps == UNCHANGED <<status, trashPath, rows>>

MakesBook(r)  == Turns(r, "c_dir", "c_tx") /\ EnsureDir(Live(r)) /\ Keeps
MakesAgain(r) ==
    /\ Turns(r, "u_mkdir", "u_rename") \/ Turns(r, "f_mkdir", "f_back")
    /\ EnsureDir(Live(arg[r].book)) /\ Keeps
WritesBook(r) ==
    /\ Turns(r, "c_tx", "c_meta")
    /\ status' = [status EXCEPT ![r] = "active"]
    /\ UNCHANGED <<disk, trashPath, rows>>
Forgets(r) ==
    /\ Turns(r, "c_unrow", "c_rmdir") \/ Turns(r, "p_book", "p_dir")
    /\ status' = [status EXCEPT ![r] = "absent"]
    /\ trashPath' = [trashPath EXCEPT ![r] = Nowhere]
    /\ UNCHANGED <<disk, rows>>
Removes(r) ==
    /\ Turns(r, "c_rmdir", NotMade(r)) \/ Turns(r, "p_dir", "j_failed")
    /\ RemoveDir(Live(r)) /\ Keeps
Puts(r) ==
    \E p \in {Imports, Nowhere, Live(arg[r].book)} :
        /\ PutFile(r, p) /\ Keeps
        /\ pc[r] \in {"u_temp", "u_rename", "u_drop", "u_unplace"}
        /\ pc' = [pc EXCEPT ![r] = pc'[r]]
        /\ pc'[r] \in {"u_dup", "u_drop", "u_commit", Refused(r)}
        /\ pc'[r] = "u_commit" \/ p = Live(arg[r].book) =>
              p = Live(arg[r].book) /\ p \in dirs /\ pc'[r] = "u_commit"
        /\ pc'[r] = Refused(r) => p = Nowhere
Commits(r) ==
    /\ Turns(r, "u_commit", Uploaded(r))
    /\ rows' = rows \cup {r}
    /\ UNCHANGED <<disk, status, trashPath>>
MovesOut(r) ==
    /\ Turns(r, "d_move", "d_mark")
    /\ CanMoveDir(Live(arg[r].book), Slot(r))
    /\ MoveDir(Live(arg[r].book), Slot(r)) /\ Keeps
PutsBack(r) ==
    /\ Turns(r, "d_undo", "error")
    /\ CanMoveDir(Slot(r), Live(arg[r].book))
    /\ MoveDir(Slot(r), Live(arg[r].book)) /\ Keeps
Marks(r, state, path) ==
    /\ IF status[arg[r].book] = "absent"
       THEN UNCHANGED <<status, trashPath>>
       ELSE /\ status' = [status EXCEPT ![arg[r].book] = state]
            /\ trashPath' = [trashPath EXCEPT ![arg[r].book] = path]
    /\ UNCHANGED <<disk, rows>>
Trashes(r) == Turns(r, "d_mark", "ok") /\ Marks(r, "trashed", Slot(r))
Revives(r) == Turns(r, "r_mark", "ok") /\ Marks(r, "active", Nowhere)
MovesIn(r) ==
    /\ Turns(r, "r_move", "r_mark")
    /\ CanMoveDir(seen[r], Live(arg[r].book))
    /\ MoveDir(seen[r], Live(arg[r].book)) /\ Keeps
MovesOff(r) ==
    /\ Turns(r, "r_undo", "error")
    /\ CanMoveDir(Live(arg[r].book), seen[r])
    /\ MoveDir(Live(arg[r].book), seen[r]) /\ Keeps
TakesFile(r) ==
    /\ Turns(r, "f_move", "f_unrow")
    /\ at[arg[r].file] = Live(arg[r].book)
    /\ PutFile(arg[r].file, TrashFiles) /\ Keeps
ReturnsFile(r) ==
    /\ Turns(r, "f_back", "error")
    /\ Live(arg[r].book) \in dirs
    /\ PutFile(arg[r].file, Live(arg[r].book)) /\ Keeps
DropsRow(r) ==
    /\ Turns(r, "f_unrow", "ok")
    /\ rows' = rows \ {arg[r].file}
    /\ UNCHANGED <<disk, status, trashPath>>
Purges(r) ==
    /\ Turns(r, "p_files", "p_book")
    /\ rows' = rows \ FilesOf(r)
    /\ UNCHANGED <<disk, status, trashPath>>

\* A step of Create is of one of these kinds.
LEMMA CreateKinds ==
    ASSUME IInv, NEW r \in Req, Create(r)
    PROVE  Rests(r) \/ MakesBook(r) \/ WritesBook(r) \/ Forgets(r) \/ Removes(r)
<1> USE DEF Rests, Turns, Keeps, stored, disk, At, Go, Step, Fail, control, disk, database,
            catalogue, IInv, TypeOK, ControlTypeOK
<1>0. NotMade(r) \in {"j_failed", "error"} /\ Created(r) \in {"u_check", "ok"}
  BY DEF NotMade, Created
<1>1. CASE CDir(r) BY <1>0, <1>1 DEF CDir, MakeDir, MakesBook
<1>2. CASE CTx(r) BY <1>0, <1>2 DEF CTx, WritesBook
<1>3. CASE CMeta(r) BY <1>0, <1>3 DEF CMeta, Test
<1>4. CASE CGet(r) BY <1>0, <1>4 DEF CGet, Test
<1>5. CASE CUnrow(r) BY <1>0, <1>5 DEF CUnrow, ForgetBook, Forgets
<1>6. CASE CRmdir(r) BY <1>0, <1>6 DEF CRmdir, RemoveBook, Removes
<1>7. QED BY <1>1, <1>2, <1>3, <1>4, <1>5, <1>6 DEF Create

\* So is one of AddFile.
LEMMA UploadKinds ==
    ASSUME IInv, NEW r \in Req, Upload(r)
    PROVE  Rests(r) \/ MakesAgain(r) \/ Puts(r) \/ Commits(r)
<1> USE DEF Rests, Turns, Keeps, stored, disk, At, Go, Step, Fail, control, disk, database,
            catalogue, IInv, TypeOK, ControlTypeOK
<1>0. Refused(r) \in {"p_files", "error"} BY DEF Refused
<1>1. CASE UCheck(r) BY <1>0, <1>1 DEF UCheck, Test
<1>2. CASE UTemp(r)
  <2>1. PICK l \in {"u_dup", "u_drop"} :
            MoveFile(r, "u_temp", TRUE, r, Imports, l, Refused(r))
    BY <1>2 DEF UTemp
  <2>2. CASE PutFile(r, Imports) /\ Go(r, l) /\ UNCHANGED database
    <3>1. Imports # Live(arg[r].book) BY DEF Imports, Live
    <3>2. pc[r] = "u_temp" BY <2>1 DEF MoveFile
    <3>3. QED BY <1>0, <2>2, <3>1, <3>2 DEF Puts
  <2>3. CASE Fail(r, Refused(r)) BY <1>0, <2>1, <2>3 DEF MoveFile
  <2>4. QED BY <2>1, <2>2, <2>3 DEF MoveFile
<1>3. CASE UDup(r) BY <1>3 DEF UDup, Test
<1>4. CASE UInsert(r) BY <1>4 DEF UInsert
<1>5. CASE UMkdir(r) BY <1>5 DEF UMkdir, MakeDir, MakesAgain
<1>6. CASE URename(r) BY <1>0, <1>6 DEF URename, MoveFile, Puts
<1>7. CASE UCommit(r) BY <1>7 DEF UCommit, Commits
<1>8. CASE UDrop(r)
  <2>1. Nowhere # Live(arg[r].book) BY DEF Nowhere, Live
  <2>2. QED BY <1>0, <1>8, <2>1 DEF UDrop, Puts
<1>9. CASE UUnplace(r)
  <2>1. Nowhere # Live(arg[r].book) BY DEF Nowhere, Live
  <2>2. QED BY <1>0, <1>9, <2>1 DEF UUnplace, MoveFile, Puts
<1>10. QED BY <1>1, <1>2, <1>3, <1>4, <1>5, <1>6, <1>7, <1>8, <1>9 DEF Upload

\* So is one of Delete or Restore.
LEMMA DeleteKinds ==
    ASSUME IInv, NEW r \in Req, Delete(r)
    PROVE  Rests(r) \/ MovesOut(r) \/ PutsBack(r) \/ Trashes(r)
<1> USE DEF Rests, Turns, Keeps, stored, disk, At, Go, Step, Fail, control, disk, database,
            catalogue, IInv, TypeOK, ControlTypeOK
<1>1. CASE DCheck(r) BY <1>1 DEF DCheck, Test
<1>2. CASE DMove(r) BY <1>2 DEF DMove, MoveBook, MovesOut
<1>3. CASE DMark(r)
  <2>1. CASE Fail(r, "d_undo")
    <3>1. faults'[r] > 0 BY <2>1, BoundsAreNat
    <3>2. QED BY <1>3, <2>1, <3>1 DEF DMark, MarkBook
  <2>2. CASE ~Fail(r, "d_undo")
    BY <1>3, <2>2 DEF DMark, MarkBook, Trashes, Marks
  <2>3. QED BY <2>1, <2>2
<1>4. CASE DUndo(r) BY <1>4 DEF DUndo, MoveBook, PutsBack
<1>5. QED BY <1>1, <1>2, <1>3, <1>4 DEF Delete

LEMMA RestoreKinds ==
    ASSUME IInv, NEW r \in Req, Restore(r)
    PROVE  Rests(r) \/ MovesIn(r) \/ MovesOff(r) \/ Revives(r)
<1> USE DEF Rests, Turns, Keeps, stored, disk, At, Go, Step, Fail, control, disk, database,
            catalogue, IInv, TypeOK, ControlTypeOK
<1>1. CASE RCheck(r) BY <1>1 DEF RCheck
<1>2. CASE RMove(r) BY <1>2 DEF RMove, MoveBook, MovesIn
<1>3. CASE RMark(r) BY <1>3 DEF RMark, MarkBook, Revives, Marks
<1>4. CASE RUndo(r) BY <1>4 DEF RUndo, MoveBook, MovesOff
<1>5. QED BY <1>1, <1>2, <1>3, <1>4 DEF Restore

\* So is one of DeleteFile or Update.
LEMMA DeleteFileKinds ==
    ASSUME IInv, NEW r \in Req, DeleteFile(r)
    PROVE  Rests(r) \/ MakesAgain(r) \/ TakesFile(r) \/ ReturnsFile(r) \/ DropsRow(r)
<1> USE DEF Rests, Turns, Keeps, stored, disk, At, Go, Step, Fail, control, disk, database,
            catalogue, IInv, TypeOK, ControlTypeOK
<1>1. CASE FCheck(r) BY <1>1 DEF FCheck, Test
<1>2. CASE FMove(r) BY <1>2 DEF FMove, MoveFile, TakesFile
<1>3. CASE FUnrow(r) BY <1>3 DEF FUnrow, DropRows, DropsRow
<1>4. CASE FMkdir(r) BY <1>4 DEF FMkdir, MakeDir, MakesAgain
<1>5. CASE FBack(r) BY <1>5 DEF FBack, MoveFile, ReturnsFile
<1>6. QED BY <1>1, <1>2, <1>3, <1>4, <1>5 DEF DeleteFile

LEMMA UpdateKinds == ASSUME IInv, NEW r \in Req, Update(r) PROVE Rests(r)
<1>1. Updated(r) \in {"i_finish", "ok"} /\ Refused(r) \in {"p_files", "error"}
  BY DEF Updated, Refused, Importing
<1>2. Updated(r) # Refused(r) BY <1>1
<1>3. QED
  BY <1>1, <1>2 DEF Update, ECheck, ETx, EMeta, Test, CanWriteMetadata, Rests, stored, disk, At,
     Go, Step, Fail, control, database, catalogue, IInv, TypeOK, ControlTypeOK

\* So is one of Import or of its purge.
LEMMA ImportKinds ==
    ASSUME IInv, NEW r \in Req, Import(r)
    PROVE  Rests(r) \/ Purges(r) \/ Forgets(r) \/ Removes(r)
<1> USE DEF Rests, Turns, Keeps, stored, disk, At, Go, Step, Fail, control, disk, database,
            catalogue, IInv, TypeOK, ControlTypeOK
<1>1. CASE JNew(r) BY <1>1 DEF JNew, WriteJob
<1>2. CASE IParse(r) BY <1>2 DEF IParse
<1>3. CASE IFinish(r) BY <1>3 DEF IFinish
<1>4. CASE PFiles(r) BY <1>4 DEF PFiles, DropRows, Purges
<1>5. CASE PBook(r) BY <1>5 DEF PBook, ForgetBook, Forgets
<1>6. CASE PDir(r) BY <1>6 DEF PDir, RemoveBook, Removes
<1>7. CASE JOk(r) BY <1>7 DEF JOk, WriteJob
<1>8. CASE JFailed(r) BY <1>8 DEF JFailed, WriteJob
<1>9. QED BY <1>1, <1>2, <1>3, <1>4, <1>5, <1>6, <1>7, <1>8 DEF Import

\* What a step of a handler is, and what it keeps.
Kinds(r) ==
    \/ Rests(r) \/ MakesBook(r) \/ MakesAgain(r) \/ WritesBook(r) \/ Forgets(r)
    \/ Removes(r) \/ Puts(r) \/ Commits(r) \/ MovesOut(r) \/ PutsBack(r)
    \/ Trashes(r) \/ Revives(r) \/ MovesIn(r) \/ MovesOff(r) \/ TakesFile(r)
    \/ ReturnsFile(r) \/ DropsRow(r) \/ Purges(r)

LEMMA WorkKinds ==
    ASSUME IInv, NEW r \in Req, Work(r)
    PROVE  Kinds(r)
BY CreateKinds, UploadKinds, DeleteKinds, RestoreKinds, DeleteFileKinds, UpdateKinds,
   ImportKinds DEF Work, Kinds

\* The rest of a step: one request moves on, from a step of its operation.
LEMMA WorkKeeps ==
    ASSUME IInv, NEW r \in Req, Work(r)
    PROVE  /\ Shape(r) /\ pc[r] \in Running /\ pc'[r] \in Label \ {"idle"}
           /\ pc' = [pc EXCEPT ![r] = pc'[r]] /\ pc \in [Req -> Label]
           /\ arg' = arg
           /\ \A f : Home(f)' = Home(f)
           /\ \A p, b : SlotOf(p, b)' <=> SlotOf(p, b)
           /\ \A q \in Req : q # r => pc'[q] = pc[q] /\ seen'[q] = seen[q]
           /\ seen' = seen \/ pc'[r] = "r_move"
           /\ pc'[r] \in BeforeCommit => pc[r] \in BeforeCommit
           /\ pc[r] = "c_dir" => pc'[r] \in {"c_tx", "j_failed", "error"}
           /\ pc'[r] \in {"r_mark", "r_undo"} => UNCHANGED seen
<1> USE DEF IInv
<1>1. Shape(r) /\ Moves(r, Label) /\ pc[r] \in Running BY WorkMoves
<1>2. pc \in [Req -> Label] /\ seen \in [Req -> Slots \cup {Nowhere}]
  BY DEF TypeOK, ControlTypeOK
<1>3. pc'[r] # "idle"
  <2>1. Shapes' BY ShapesWork
  <2>2. arg'[r] = arg[r] /\ arg[r] # NoArg
    BY <1>1, NoneIsNoValue DEF Moves, Shape, NoArg
  <2>3. QED BY <2>1, <2>2 DEF Shapes
<1>4. \/ seen' = seen
      \/ pc'[r] = "r_move" /\ \A q \in Req : q # r => seen'[q] = seen[q]
  <2>1. arg[r].book \in Id BY <1>1 DEF Shape
  <2>2. CASE ~Restore(r)
    BY <2>1, <2>2, CreateEffect, UploadEffect, DeleteEffect, DeleteFileEffect, UpdateEffect,
       ImportEffect DEF Work
  <2>3. CASE Restore(r)
    BY <1>2, <2>3
    DEF Restore, RCheck, RMove, RMark, RUndo, MoveBook, MarkBook, Go, Step, Fail, control
  <2>4. QED BY <2>2, <2>3
<1>5. pc'[r] \in BeforeCommit => pc[r] \in BeforeCommit BY RowsWork
<1>6. pc[r] = "c_dir" => pc'[r] \in {"c_tx", "j_failed", "error"}
  <2>1. ASSUME pc[r] = "c_dir" PROVE Create(r)
    BY <1>1, <2>1, UploadEffect, DeleteEffect, RestoreEffect, DeleteFileEffect, UpdateEffect,
       ImportEffect
    DEF Work, Shape, CreateSteps, UploadSteps, DeleteSteps, RestoreSteps, FileSteps, UpdateSteps,
        ImportSteps
  <2>2. QED
    BY <1>2, <2>1
    DEF Create, CDir, CTx, CMeta, CGet, CUnrow, CRmdir, MakeDir, Test, ForgetBook, RemoveBook,
        At, Go, Fail, NotMade
<1>7. QED BY <1>1, <1>2, <1>3, <1>4, <1>5, <1>6, ArgSame DEF Moves

\* A book that is born stays so.
LEMMA BornStays ==
    ASSUME IInv, NEW r \in Req, Work(r), NEW b, Unborn(b)' PROVE Unborn(b)
<1>1. /\ arg' = arg /\ pc' = [pc EXCEPT ![r] = pc'[r]] /\ pc \in [Req -> Label] /\ Shape(r)
      /\ pc'[r] # "idle"
  BY WorkKeeps
<1>2. pc'[r] \in {"j_new", "c_dir", "c_tx"} => pc[r] \in {"j_new", "c_dir"}
  <2>1. CASE Rests(r) BY <2>1 DEF Rests
  <2>2. CASE MakesBook(r) BY <1>1, <2>2 DEF MakesBook, Turns
  <2>3. CASE Puts(r) BY <2>3 DEF Puts, Refused
  <2>4. CASE ~(Rests(r) \/ MakesBook(r) \/ Puts(r))
    BY <1>1, <2>4, WorkKinds
    DEF Kinds, MakesAgain, WritesBook, Forgets, Removes, Commits, MovesOut, PutsBack, Trashes,
        Revives, MovesIn, MovesOff, TakesFile, ReturnsFile, DropsRow, Purges, Turns, NotMade,
        Uploaded
  <2>5. QED BY <2>1, <2>2, <2>3, <2>4
<1>3. QED BY <1>1, <1>2 DEF Unborn

\* A request that has not made its book makes it, or gives up.
LEMMA BornGoes ==
    ASSUME IInv, NEW r \in Req, Work(r), pc[r] \in {"j_new", "c_dir", "c_tx"}
    PROVE  \/ pc'[r] \in {"c_dir", "c_tx", "c_rmdir", "j_failed", "error"}
           \/ WritesBook(r)
<1>1. pc \in [Req -> Label] BY DEF IInv, TypeOK, ControlTypeOK
<1>2. CASE Create(r)
  BY <1>1, <1>2
  DEF Create, CDir, CTx, CMeta, CGet, CUnrow, CRmdir, MakeDir, Test, ForgetBook, RemoveBook,
      At, Go, Fail, NotMade, WritesBook, Turns
<1>3. CASE Import(r)
  BY <1>1, <1>3
  DEF Import, JNew, IParse, IFinish, PFiles, PBook, PDir, JOk, JFailed, WriteJob, DropRows,
      ForgetBook, RemoveBook, At, Go, Step, Fail
<1>4. ~Upload(r) /\ ~Delete(r) /\ ~Restore(r) /\ ~DeleteFile(r) /\ ~Update(r)
  <2>1. Shape(r) BY WorkKeeps
  <2>2. QED
    BY <2>1, UploadEffect, DeleteEffect, RestoreEffect, DeleteFileEffect, UpdateEffect
    DEF IInv, Shape, UploadSteps, DeleteSteps, RestoreSteps, FileSteps, UpdateSteps
<1>5. QED BY <1>2, <1>3, <1>4 DEF Work

\* How a step may change the books table.
LEMMA StatusWork ==
    ASSUME IInv, NEW r \in Req, Work(r), NEW b \in Id
    PROVE  \/ status'[b] = status[b]
           \/ b = r /\ WritesBook(r) /\ status'[b] = "active"
           \/ b = r /\ Forgets(r) /\ status'[b] = "absent"
           \/ b = arg[r].book /\ Trashes(r) /\ status[b] # "absent" /\ status'[b] = "trashed"
           \/ b = arg[r].book /\ Revives(r) /\ status[b] # "absent" /\ status'[b] = "active"
<1>1. status \in [Id -> {"absent", "active", "trashed"}] BY DEF IInv, TypeOK, DatabaseTypeOK
<1>2. Shape(r) /\ r \in Id BY WorkKeeps DEF Id
<1>3. CASE WritesBook(r) BY <1>1, <1>3 DEF WritesBook
<1>4. CASE Forgets(r) BY <1>1, <1>4 DEF Forgets
<1>5. CASE Trashes(r) BY <1>1, <1>2, <1>5 DEF Trashes, Marks, Shape
<1>6. CASE Revives(r) BY <1>1, <1>2, <1>6 DEF Revives, Marks, Shape
<1>7. CASE ~(WritesBook(r) \/ Forgets(r) \/ Trashes(r) \/ Revives(r))
  BY <1>7, WorkKinds
  DEF Kinds, Rests, stored, MakesBook, MakesAgain, Removes, Puts, Commits, MovesOut, PutsBack,
      MovesIn, MovesOff, TakesFile, ReturnsFile, DropsRow, Purges, Keeps
<1>8. QED BY <1>3, <1>4, <1>5, <1>6, <1>7

\* Rows, clients and files know only books that are born.
LEMMA BirthsWork ==
    ASSUME IInv, Births, NEW r \in Req, Work(r) PROVE Births'
<1>1. /\ arg' = arg /\ pc' = [pc EXCEPT ![r] = pc'[r]] /\ pc \in [Req -> Label] /\ Shape(r)
      /\ pc[r] \in Running /\ pc'[r] # "idle" /\ \A q \in Req : q # r => pc'[q] = pc[q]
  BY WorkKeeps
<1>2. ASSUME NEW b \in Id, Unborn(b)' PROVE status'[b] = "absent"
  <2>1. Unborn(b) /\ status[b] = "absent" BY <1>2, BornStays DEF Births
  <2>2. ~(b = r /\ WritesBook(r))
    <3>1. ASSUME b = r, WritesBook(r) PROVE FALSE
      <4>1. pc[r] = "c_tx" /\ pc'[r] = "c_meta" BY <1>1, <3>1 DEF WritesBook, Turns
      <4>2. arg'[r].op \in Makers BY <1>1, <4>1 DEF Shape, CreateSteps, Makers
      <4>3. QED BY <1>2, <3>1, <4>1, <4>2 DEF Unborn
    <3>2. QED BY <3>1
  <2>3. QED BY <2>1, <2>2, StatusWork
<1>3. \A q \in Req : pc'[q] # "idle" => pc[q] # "idle"
  BY <1>1 DEF Running, CreateSteps, UploadSteps, DeleteSteps, RestoreSteps, FileSteps,
              UpdateSteps, ImportSteps
<1>4. ASSUME NEW q \in Req, pc'[q] # "idle", arg'[q].op \notin Makers
      PROVE  ~Unborn(arg[q].book)'
  <2>1. ~Unborn(arg[q].book) BY <1>1, <1>3, <1>4 DEF Births
  <2>2. QED BY <2>1, BornStays, <1>1 DEF Unborn
<1>5. ASSUME NEW f \in rows' \cap Req PROVE arg'[f].op \in {"upload", "import"}
  <2>1. f \in rows \/ (f = r /\ pc[r] = "u_commit") BY <1>5, RowsWork DEF IInv
  <2>2. QED BY <1>1, <1>5, <2>1 DEF Births, Shape, UploadSteps
<1>6. QED BY <1>2, <1>4, <1>5 DEF Births

\* How a step may change the disk: the directory of a book comes, goes, or moves
\* to or from a slot that was made for the book; or one file moves.
LEMMA DiskKinds ==
    ASSUME IInv, NEW r \in Req, Work(r)
    PROVE  \/ /\ UNCHANGED at
              /\ \/ UNCHANGED dirs
                 \/ /\ MakesBook(r) \/ MakesAgain(r)
                    /\ dirs' = dirs \cup {Live(arg[r].book)}
           \/ Removes(r) /\ arg[r].book = r
           \/ Puts(r)
           \/ \E p \in Slots : /\ SlotOf(p, arg[r].book)
                               /\ \/ /\ MovesOut(r) \/ MovesOff(r)
                                     /\ CanMoveDir(Live(arg[r].book), p)
                                     /\ MoveDir(Live(arg[r].book), p)
                                  \/ /\ MovesIn(r) \/ PutsBack(r)
                                     /\ CanMoveDir(p, Live(arg[r].book))
                                     /\ MoveDir(p, Live(arg[r].book))
           \/ TakesFile(r) \/ ReturnsFile(r)
<1>1. Shape(r) /\ arg[r].book \in Id BY WorkKeeps DEF Shape
<1>2. CASE Rests(r) \/ WritesBook(r) \/ Forgets(r) \/ Commits(r) \/ Trashes(r) \/ Revives(r)
             \/ DropsRow(r) \/ Purges(r)
  BY <1>2 DEF Rests, WritesBook, Forgets, Commits, Trashes, Revives, DropsRow, Purges, Marks,
              stored, disk
<1>3. CASE MakesBook(r)
  BY <1>1, <1>3 DEF MakesBook, Turns, EnsureDir, Shape, CreateSteps
<1>4. CASE MakesAgain(r) BY <1>4 DEF MakesAgain, EnsureDir
<1>5. CASE Removes(r)
  BY <1>1, <1>5 DEF Removes, Turns, Shape, CreateSteps, ImportSteps
<1>6. CASE MovesOut(r) \/ PutsBack(r)
  <2>1. Slot(r) \in Slots /\ arg[r].op = "delete"
    BY <1>1, <1>6 DEF Slots, MovesOut, PutsBack, Turns, Shape, DeleteSteps
  <2>2. SlotOf(Slot(r), arg[r].book) BY <2>1 DEF SlotOf
  <2>3. QED BY <1>6, <2>1, <2>2 DEF MovesOut, PutsBack
<1>7. CASE MovesIn(r) \/ MovesOff(r)
  <2>1. SlotOf(seen[r], arg[r].book)
    BY <1>7 DEF IInv, SlotsFit, MovesIn, MovesOff, Turns
  <2>2. seen[r] \in Slots BY <2>1 DEF SlotOf, Slots
  <2>3. QED BY <1>7, <2>1, <2>2 DEF MovesIn, MovesOff
<1>8. CASE Puts(r) \/ TakesFile(r) \/ ReturnsFile(r) BY <1>8
<1>9. QED BY <1>2, <1>3, <1>4, <1>5, <1>6, <1>7, <1>8, WorkKinds DEF Kinds

\* Files keep to the directories of their books.
LEMMA HousedWork ==
    ASSUME IInv, Housed, NEW r \in Req, Work(r) PROVE Housed'
<1>1. /\ Shape(r) /\ \A f : Home(f)' = Home(f)
      /\ \A p, b : SlotOf(p, b)' <=> SlotOf(p, b)
      /\ pc' = [pc EXCEPT ![r] = pc'[r]] /\ pc \in [Req -> Label] /\ pc'[r] # "idle"
  BY WorkKeeps
<1>2. r \in Id /\ at \in [Id -> Place] BY DEF Id, IInv, TypeOK, StorageTypeOK
<1>3. SUFFICES ASSUME NEW f \in Id
               PROVE  /\ at'[f] \in Dir =>
                            /\ at'[f] \in dirs'
                            /\ at'[f] = Live(Home(f)) \/ SlotOf(at'[f], Home(f))
                      /\ f \in Req /\ pc[f] = "idle" /\ f # r => at'[f] = Nowhere
  BY <1>1 DEF Housed
<1>4. /\ at[f] \in Dir =>
            /\ at[f] \in dirs
            /\ at[f] = Live(Home(f)) \/ SlotOf(at[f], Home(f))
      /\ f \in Req /\ pc[f] = "idle" => at[f] = Nowhere
  BY DEF Housed
<1>5. CASE UNCHANGED at /\ (UNCHANGED dirs \/ dirs' = dirs \cup {Live(arg[r].book)})
  BY <1>4, <1>5
<1>6. CASE Removes(r)
  <2>1. Nowhere \notin Dir BY PathsDiffer DEF Dir, LiveDirs, Slots
  <2>2. QED BY <1>4, <1>6, <2>1 DEF Removes, RemoveDir
<1>7. CASE Puts(r)
  <2>1. PICK p \in {Imports, Nowhere, Live(arg[r].book)} :
            PutFile(r, p) /\ (p = Live(arg[r].book) => p \in dirs)
    BY <1>7 DEF Puts
  <2>2. Nowhere \notin Dir /\ Imports \notin Dir
    BY DEF Dir, LiveDirs, Slots, Live, Slot, Nowhere, Imports
  <2>3. Home(r) = arg[r].book BY SeededNotReq DEF Home
  <2>4. CASE f = r BY <1>2, <2>1, <2>2, <2>3, <2>4 DEF PutFile
  <2>5. CASE f # r BY <1>2, <1>4, <2>1, <2>5 DEF PutFile
  <2>6. QED BY <2>4, <2>5
<1>8. ASSUME NEW p \in Slots, SlotOf(p, arg[r].book),
             \/ CanMoveDir(Live(arg[r].book), p) /\ MoveDir(Live(arg[r].book), p)
             \/ CanMoveDir(p, Live(arg[r].book)) /\ MoveDir(p, Live(arg[r].book))
      PROVE  /\ at'[f] \in Dir =>
                  /\ at'[f] \in dirs'
                  /\ at'[f] = Live(Home(f)) \/ SlotOf(at'[f], Home(f))
             /\ f \in Req /\ pc[f] = "idle" /\ f # r => at'[f] = Nowhere
  <2> DEFINE d == Live(arg[r].book)
  <2>1. p # Nowhere /\ d # Nowhere /\ p # d /\ p \in Dir /\ d \in Dir
    BY <1>1, PathsDiffer, Paths DEF Slots, Shape
  <2>2. CASE at[f] \in {p, d}
    <3>1. Home(f) = arg[r].book
      BY <1>4, <1>8, <2>1, <2>2, PathsDiffer DEF SlotOf
    <3>2. at'[f] \in {p, d} /\ at'[f] \in dirs' BY <1>8, <2>1, <2>2 DEF MoveDir
    <3>3. QED BY <1>4, <1>8, <2>1, <2>2, <3>1, <3>2
  <2>3. CASE at[f] \notin {p, d}
    BY <1>4, <1>8, <2>3 DEF MoveDir
  <2>4. QED BY <2>2, <2>3
<1>9. CASE TakesFile(r) \/ ReturnsFile(r)
  <2>1. /\ arg[r].file \in Id /\ arg[r].book = Home(arg[r].file)
        /\ ~(arg[r].file \in Req /\ pc[arg[r].file] = "idle")
    BY <1>1, <1>9 DEF TakesFile, ReturnsFile, Turns, Shape, FileSteps
  <2>2. TrashFiles \notin Dir BY PathsDiffer DEF Dir, LiveDirs, Slots
  <2>3. CASE f = arg[r].file
    BY <1>2, <1>9, <2>1, <2>2, <2>3 DEF TakesFile, ReturnsFile, PutFile
  <2>4. CASE f # arg[r].file
    BY <1>2, <1>4, <1>9, <2>1, <2>4 DEF TakesFile, ReturnsFile, PutFile
  <2>5. QED BY <2>3, <2>4
<1>10. QED BY <1>5, <1>6, <1>7, <1>8, <1>9, DiskKinds

\* The directory of a new book stays until its row is written: nobody else
\* knows the book.
LEMMA DirFirstWork ==
    ASSUME IInv, Births, DirFirst, NEW r \in Req, Work(r) PROVE DirFirst'
<1>1. /\ Shape(r) /\ arg' = arg /\ pc[r] \in Running
      /\ pc' = [pc EXCEPT ![r] = pc'[r]] /\ pc \in [Req -> Label]
  BY WorkKeeps
<1>2. SUFFICES ASSUME NEW q \in Req, pc'[q] = "c_tx" PROVE Live(q) \in dirs'
  BY DEF DirFirst
<1>3. CASE q = r
  <2>1. CASE MakesBook(r) BY <1>3, <2>1 DEF MakesBook, EnsureDir
  <2>2. pc'[r] # "c_tx" \/ MakesBook(r)
    <3>1. CASE Puts(r) BY <3>1 DEF Puts, Refused
    <3>2. CASE ~Puts(r)
      BY <1>1, <3>2, WorkKinds
      DEF Kinds, Rests, MakesAgain, WritesBook, Forgets, Removes, Commits, MovesOut, PutsBack,
          Trashes, Revives, MovesIn, MovesOff, TakesFile, ReturnsFile, DropsRow, Purges, Turns,
          NotMade, Uploaded
    <3>3. QED BY <3>1, <3>2
  <2>3. QED BY <1>2, <1>3, <2>1, <2>2
<1>4. CASE q # r
  <2>1. pc[q] = "c_tx" /\ Live(q) \in dirs BY <1>1, <1>2, <1>4 DEF DirFirst
  <2>2. arg[r].book # q
    BY <1>1, <1>4, <2>1, SeededNotReq
    DEF Births, Unborn, Makers, Shape, Running, CreateSteps, UploadSteps, DeleteSteps,
        RestoreSteps, FileSteps, UpdateSteps, ImportSteps
  <2>3. Live(q) # Live(arg[r].book) /\ Live(q) # Live(r) /\ Live(q) \notin Slots
    BY <1>4, <2>2, PathsDiffer DEF Slots
  <2>4. QED
    BY <2>1, <2>3, DiskKinds
    DEF Removes, RemoveDir, Puts, PutFile, MoveDir, TakesFile, ReturnsFile
<1>5. QED BY <1>3, <1>4

\* A file in trash/files/ stays there until its DeleteFile puts it back.
LEMMA FilesAwayWork ==
    ASSUME IInv, FilesAway, NEW r \in Req, Work(r) PROVE FilesAway'
<1>1. /\ Shape(r) /\ arg' = arg /\ pc[r] \in Running
      /\ pc' = [pc EXCEPT ![r] = pc'[r]] /\ pc \in [Req -> Label]
      /\ pc'[r] \in BeforeCommit => pc[r] \in BeforeCommit
      /\ \A q \in Req : q # r => pc'[q] = pc[q]
  BY WorkKeeps
<1>2. /\ Away(r)' => Away(r) \/ TakesFile(r)
      /\ pc'[r] = "f_move" => arg[r].file \in rows
  <2>1. CASE Rests(r) BY <2>1 DEF Rests, Away
  <2>2. CASE TakesFile(r) BY <1>1, <2>2 DEF TakesFile, Turns
  <2>3. CASE Puts(r) BY <2>3 DEF Puts, Refused, Away
  <2>4. CASE ~(Rests(r) \/ TakesFile(r) \/ Puts(r))
    BY <1>1, <2>4, WorkKinds
    DEF Kinds, MakesBook, MakesAgain, WritesBook, Forgets, Removes, Commits, MovesOut, PutsBack,
        Trashes, Revives, MovesIn, MovesOff, ReturnsFile, DropsRow, Purges, Turns,
        NotMade, Uploaded, Away
  <2>5. QED BY <2>1, <2>2, <2>3, <2>4
<1>3. ASSUME NEW g \in Req, Away(g)' \/ pc'[g] = "f_move"
      PROVE  /\ arg[g].file \in Id
             /\ arg[g].file \in Seeded \/ pc[arg[g].file] \notin BeforeCommit
             /\ arg[g].file \in Seeded \/ pc'[arg[g].file] \notin BeforeCommit
  <2>1. arg[g].file \in Id
    <3>1. CASE g = r
      <4>1. pc[r] \in FileSteps \/ arg[r].file \in rows
        BY <1>2, <1>3, <3>1 DEF Away, FileSteps, TakesFile, Turns
      <4>2. QED BY <1>1, <3>1, <4>1 DEF Shape, IInv, TypeOK, DatabaseTypeOK
    <3>2. CASE g # r
      <4>1. pc[g] \in FileSteps /\ pc[g] # "idle" BY <1>1, <1>3, <3>2 DEF Away, FileSteps
      <4>2. Shape(g) BY <4>1 DEF IInv, Shapes
      <4>3. QED BY <4>1, <4>2 DEF Shape
    <3>3. QED BY <3>1, <3>2
  <2>2. Away(g) \/ pc[g] = "f_move" \/ arg[g].file \in rows
    BY <1>1, <1>2, <1>3 DEF TakesFile, Turns, Away
  <2>3. arg[g].file \in Seeded \/ pc[arg[g].file] \notin BeforeCommit
    BY <2>1, <2>2 DEF FilesAway, IInv, NoEarlyRow, Id
  <2>4. QED BY <1>1, <2>1, <2>3 DEF Id
<1>4. ASSUME NEW g \in Req, Away(g)'
      PROVE  /\ at'[arg[g].file] = TrashFiles
             /\ \A h \in Req : Away(h)' /\ arg[h].file = arg[g].file => h = g
  <2>1. arg[g].file \in Id /\ at \in [Id -> Place] /\ r \in Id
    BY <1>3, <1>4 DEF IInv, TypeOK, StorageTypeOK, Id
  <2>2. \A d, b : TrashFiles # Live(b) /\ TrashFiles # Slot(d) BY PathsDiffer
  <2>3. CASE TakesFile(r)
    <3>1. at[arg[r].file] = Live(arg[r].book) /\ at' = [at EXCEPT ![arg[r].file] = TrashFiles]
      BY <2>3 DEF TakesFile, PutFile
    <3>2. \A h \in Req : Away(h) => arg[h].file # arg[r].file
      BY <2>2, <3>1 DEF FilesAway
    <3>3. \A h \in Req : h # r /\ Away(h)' => Away(h) BY <1>1 DEF Away
    <3>4. CASE g = r BY <2>1, <3>1, <3>2, <3>3, <3>4
    <3>5. CASE g # r BY <1>4, <2>1, <3>1, <3>2, <3>3, <3>5 DEF FilesAway
    <3>6. QED BY <3>4, <3>5
  <2>4. CASE ~TakesFile(r)
    <3>1. \A h \in Req : Away(h)' => Away(h) BY <1>1, <1>2, <2>4 DEF Away
    <3>2. Away(g) /\ at[arg[g].file] = TrashFiles BY <1>4, <3>1 DEF FilesAway
    <3>3. at'[arg[g].file] = TrashFiles
      <4>1. CASE Puts(r)
        <5>1. arg[g].file # r
          BY <1>3, <1>4, <4>1, SeededNotReq DEF Puts, BeforeCommit, UploadSteps
        <5>2. QED BY <2>1, <3>2, <4>1, <5>1 DEF Puts, PutFile
      <4>2. CASE ReturnsFile(r)
        <5>1. pc[r] = "f_back" /\ pc'[r] = "error" BY <1>1, <4>2 DEF ReturnsFile, Turns
        <5>2. arg[r].file # arg[g].file BY <1>4, <3>2, <5>1 DEF Away, FilesAway
        <5>3. QED BY <2>1, <3>2, <4>2, <5>2 DEF ReturnsFile, PutFile
      <4>3. CASE ~(Puts(r) \/ ReturnsFile(r))
        <5>1. \A p \in Slots : p # TrashFiles BY <2>2 DEF Slots
        <5>2. QED
          BY <2>1, <2>2, <2>4, <3>2, <4>3, <5>1, DiskKinds DEF Removes, RemoveDir, MoveDir
      <4>4. QED BY <4>1, <4>2, <4>3
    <3>4. QED BY <3>1, <3>2, <3>3 DEF FilesAway
  <2>5. QED BY <2>3, <2>4
<1>5. QED BY <1>1, <1>3, <1>4 DEF FilesAway

\* What a request that starts changes, and that it knows its book.
LEMMA StartKeeps ==
    ASSUME IInv, Births, NEW r \in Req, Start(r)
    PROVE  /\ pc[r] = "idle" /\ r \in Id /\ pc \in [Req -> Label]
           /\ pc' = [pc EXCEPT ![r] = pc'[r]]
           /\ pc'[r] \in {"c_dir", "u_check", "d_check", "r_check", "f_check", "e_check", "j_new"}
           /\ pc'[r] \in {"c_dir", "j_new"} => arg'[r].op \in Makers
           /\ arg'[r].op \in Makers => arg'[r].book = r
           /\ arg'[r].op \notin Makers => arg'[r].book # r /\ ~Unborn(arg'[r].book)
           /\ \A q \in Req : q # r => pc'[q] = pc[q] /\ arg'[q] = arg[q]
           /\ \A f \in Id : f # r => Home(f)' = Home(f)
           /\ \A p, b : SlotOf(p, b) => SlotOf(p, b)'
           /\ UNCHANGED <<stored, seen, faults>>
           /\ r \notin rows
<1> USE DEF IInv
<1>1. PICK o \in Ops \cap AllOps : \E a \in Asks(r, o) :
              /\ pc[r] = "idle"
              /\ arg' = [arg EXCEPT ![r] = a]
              /\ pc' = [pc EXCEPT ![r] = FirstStep[o]]
              /\ UNCHANGED <<seen, faults, crashes, disk, database>>
  BY StartEffect
<1>2. PICK a \in Asks(r, o) : arg' = [arg EXCEPT ![r] = a] BY <1>1
<1>3. /\ pc[r] = "idle" /\ arg[r] = NoArg /\ r \notin rows
      /\ \A q \in Req : q # r => arg'[q] = arg[q] /\ pc'[q] = pc[q]
      /\ pc'[r] = FirstStep[o] /\ arg'[r] = a /\ pc \in [Req -> Label]
      /\ UNCHANGED <<stored, seen, faults>>
  BY <1>1, <1>2 DEF Shapes, NoEarlyRow, BeforeCommit, TypeOK, ControlTypeOK, disk, database,
                    catalogue, stored
<1>4. /\ FirstStep[o] \in {"c_dir", "u_check", "d_check", "r_check", "f_check", "e_check", "j_new"}
      /\ FirstStep[o] \in {"c_dir", "j_new"} => o \in Makers
  BY DEF FirstStep, AllOps, Makers
<1>5. a.op = o /\ (o \in Makers => a.book = r) /\ (o = "delete_file" => a.book = Home(a.file))
  BY <1>3, AsksShape DEF Makers
<1>6. \A f \in Id : f # r => Home(f)' = Home(f) BY <1>3 DEF Home, Id
<1>7. \A p, b : SlotOf(p, b) => SlotOf(p, b)'
  BY <1>3, NoneIsNoValue DEF SlotOf, NoArg, AllOps
<1>8. Unborn(r) BY <1>3, NoneIsNoValue DEF Unborn, NoArg, Makers, AllOps
<1>9. ASSUME o \notin Makers PROVE ~Unborn(a.book)
  <2>1. CASE o = "delete_file"
    <3>1. a.file \in rows /\ a.book = Home(a.file) BY <1>3, <2>1, AsksShape
    <3>2. CASE a.file \in Seeded BY <3>1, <3>2, SeededNotReq DEF Unborn, Home
    <3>3. CASE a.file \notin Seeded
      <4>1. a.file \in Req /\ pc[a.file] \notin BeforeCommit /\ a.book = arg[a.file].book
        BY <3>1, <3>3 DEF TypeOK, DatabaseTypeOK, Id, NoEarlyRow, Home
      <4>2. arg[a.file].op \in {"upload", "import"} /\ Shape(a.file)
        BY <3>1, <4>1 DEF Births, Shapes, BeforeCommit
      <4>3. CASE arg[a.file].op = "upload"
        BY <4>1, <4>3 DEF Births, BeforeCommit, Makers
      <4>4. CASE arg[a.file].op = "import"
        BY <4>1, <4>2, <4>4 DEF Shape, Unborn, BeforeCommit, CreateSteps, Makers
      <4>5. QED BY <4>2, <4>3, <4>4
    <3>4. QED BY <3>2, <3>3
  <2>2. CASE o # "delete_file"
    <3>1. a.book \in Known BY <1>9, <2>2 DEF Asks, Makers, AllOps
    <3>2. QED BY <3>1 DEF Known, Births
  <2>3. QED BY <2>1, <2>2
<1>10. r \in Id BY DEF Id
<1>11. pc' = [pc EXCEPT ![r] = pc'[r]] BY <1>1, <1>3
<1>12. ASSUME o \notin Makers
       PROVE  a.book # r /\ ~(a.book \in Req /\ (arg'[a.book].op \notin Makers \/ pc'[a.book] \in {"j_new", "c_dir", "c_tx"}))
  BY <1>3, <1>8, <1>9, <1>12 DEF Unborn
<1>13. QED BY <1>3, <1>4, <1>5, <1>6, <1>7, <1>9, <1>10, <1>11, <1>12 DEF Unborn

\* A request that starts keeps all of it.
LEMMA OrderlyStart ==
    ASSUME IInv, Orderly, NEW r \in Req, Start(r) PROVE Orderly'
<1> USE DEF Orderly
<1>1. /\ pc[r] = "idle" /\ r \in Id /\ pc \in [Req -> Label]
      /\ pc' = [pc EXCEPT ![r] = pc'[r]]
      /\ pc'[r] \in {"c_dir", "u_check", "d_check", "r_check", "f_check", "e_check", "j_new"}
      /\ pc'[r] \in {"c_dir", "j_new"} => arg'[r].op \in Makers
      /\ arg'[r].op \in Makers => arg'[r].book = r
      /\ arg'[r].op \notin Makers => arg'[r].book # r /\ ~Unborn(arg'[r].book)
      /\ \A q \in Req : q # r => pc'[q] = pc[q] /\ arg'[q] = arg[q]
      /\ \A f \in Id : f # r => Home(f)' = Home(f)
      /\ \A p, b : SlotOf(p, b) => SlotOf(p, b)'
      /\ UNCHANGED <<dirs, at, status, trashPath, rows>>
      /\ r \notin rows
  BY StartKeeps DEF stored
<1>2. Unborn(r)
  BY <1>1, NoneIsNoValue DEF Unborn, NoArg, Makers, AllOps, IInv, Shapes
<1>3. \A b : Unborn(b)' => Unborn(b)
  BY <1>1, <1>2 DEF Unborn
<1>4. Births'
  <2>1. \A b \in Id : Unborn(b)' => status'[b] = "absent" BY <1>1, <1>3 DEF Births
  <2>2. ASSUME NEW q \in Req, pc'[q] # "idle", arg'[q].op \notin Makers
        PROVE  (~Unborn(arg[q].book))'
    <3>1. PICK b : b = arg'[q].book  OBVIOUS
    <3>2. ~Unborn(b)
      <4>1. CASE q = r BY <1>1, <2>2, <3>1, <4>1
      <4>2. CASE q # r BY <1>1, <2>2, <3>1, <4>2 DEF Births
      <4>3. QED BY <4>1, <4>2
    <3>3. ~Unborn(b)' BY <1>3, <3>2
    <3>4. QED BY <3>1, <3>3 DEF Unborn
  <2>3. \A f \in rows' \cap Req : arg'[f].op \in {"upload", "import"} BY <1>1 DEF Births
  <2>4. QED BY <2>1, <2>2, <2>3 DEF Births
<1>5. Housed'
  <2>1. ASSUME NEW f \in Id
        PROVE  (/\ at[f] \in Dir =>
                      at[f] \in dirs /\ (at[f] = Live(Home(f)) \/ SlotOf(at[f], Home(f)))
                /\ f \in Req /\ pc[f] = "idle" => at[f] = Nowhere)'
    <3>1. CASE f = r
      <4>1. at[f] = Nowhere /\ Nowhere \notin Dir
        BY <1>1, <3>1, PathsDiffer DEF Housed, Dir, LiveDirs, Slots
      <4>2. QED BY <1>1, <4>1
    <3>2. CASE f # r
      <4>1. Home(f)' = Home(f) BY <1>1, <3>2
      <4>2. SlotOf(at[f], Home(f)) => SlotOf(at[f], Home(f))'
        BY <1>1, <4>1 DEF SlotOf
      <4>3. f \in Req => pc'[f] = pc[f] BY <1>1, <3>2
      <4>4. QED BY <1>1, <4>1, <4>2, <4>3 DEF Housed
    <3>3. QED BY <3>1, <3>2
  <2>2. QED BY <2>1 DEF Housed
<1>6. DirFirst' BY <1>1 DEF DirFirst
<1>7. FilesAway'
  <2>1. \A g \in Req : Away(g)' \/ pc'[g] = "f_move" =>
            g # r /\ pc'[g] = pc[g] /\ arg'[g] = arg[g] /\ (Away(g)' <=> Away(g))
    BY <1>1 DEF Away
  <2>2. \A q \in Req : pc'[q] \in BeforeCommit => pc[q] \in BeforeCommit
    BY <1>1 DEF BeforeCommit
  <2>3. ASSUME NEW g \in Req, Away(g)' \/ pc'[g] = "f_move"
        PROVE  arg'[g].file \in Seeded \/ pc'[arg'[g].file] \notin BeforeCommit
    <3>1. arg[g].file \in Id
      BY <1>1, <2>1, <2>3 DEF IInv, Shapes, Shape, Away, FileSteps
    <3>2. arg[g].file \in Seeded \/ pc[arg[g].file] \notin BeforeCommit
      BY <2>1, <2>3 DEF FilesAway, Away
    <3>3. QED BY <2>1, <2>2, <2>3, <3>1, <3>2 DEF Id
  <2>4. QED BY <1>1, <2>1, <2>3 DEF FilesAway
<1>8. QED BY <1>4, <1>5, <1>6, <1>7

\* So does a step of a handler, the end of the process, and none.
LEMMA OrderlyWork == ASSUME IInv, Orderly, NEW r \in Req, Work(r) PROVE Orderly'
BY BirthsWork, HousedWork, DirFirstWork, FilesAwayWork DEF Orderly

LEMMA OrderlyCrash == ASSUME IInv, Orderly, Crash PROVE Orderly'
<1>1. /\ UNCHANGED <<arg, dirs, at, status, rows>>
      /\ pc' = [q \in Req |-> IF q \in InFlight THEN "lost" ELSE pc[q]]
      /\ pc \in [Req -> Label]
  BY DEF Crash, disk, catalogue, IInv, TypeOK, ControlTypeOK
<1>2. \A q \in Req : pc'[q] = pc[q] \/ (pc'[q] = "lost" /\ pc[q] # "idle")
  BY <1>1 DEF InFlight, Running, CreateSteps, UploadSteps, DeleteSteps, RestoreSteps,
              FileSteps, UpdateSteps, ImportSteps
<1>3. /\ Births'
  <2>1. \A b : Unborn(b)' => Unborn(b) BY <1>1, <1>2 DEF Unborn
  <2>2. ASSUME NEW q \in Req, pc'[q] # "idle", arg'[q].op \notin Makers
        PROVE  (~Unborn(arg[q].book))'
    <3>1. ~Unborn(arg[q].book) BY <1>1, <1>2, <2>2 DEF Orderly, Births
    <3>2. PICK b : b = arg[q].book  OBVIOUS
    <3>3. ~Unborn(b)' BY <2>1, <3>1, <3>2
    <3>4. QED BY <1>1, <3>2, <3>3 DEF Unborn
  <2>3. QED BY <1>1, <2>1, <2>2 DEF Orderly, Births
<1>4. Housed' BY <1>1, <1>2, ArgSame DEF Orderly, Housed
<1>5. DirFirst' BY <1>1, <1>2 DEF Orderly, DirFirst
<1>6. FilesAway'
  <2>1. \A g \in Req : Away(g)' \/ pc'[g] = "f_move" =>
            (Away(g)' <=> Away(g)) /\ pc'[g] = pc[g] /\ arg[g].file \in Id
    BY <1>1, <1>2 DEF Away, IInv, Shapes, Shape, FileSteps
  <2>2. \A q \in Req : pc'[q] \in BeforeCommit => pc'[q] = pc[q]
    BY <1>2 DEF BeforeCommit, CreateSteps, UploadSteps
  <2>3. ASSUME NEW g \in Req, Away(g)' \/ pc'[g] = "f_move"
        PROVE  arg[g].file \in Seeded \/ pc'[arg[g].file] \notin BeforeCommit
    BY <2>1, <2>2, <2>3 DEF Orderly, FilesAway, Id, Away
  <2>4. QED BY <1>1, <2>1, <2>3 DEF Orderly, FilesAway
<1>7. QED BY <1>3, <1>4, <1>5, <1>6 DEF Orderly

LEMMA OrderlyStutter == ASSUME Orderly, UNCHANGED vars PROVE Orderly'
<1>1. UNCHANGED <<pc, arg, dirs, at, status, rows>>
  BY DEF vars, disk, control, database, catalogue
<1>2. QED
  BY <1>1 DEF Orderly, Births, Unborn, Housed, SlotOf, Home, DirFirst, FilesAway, Away

LEMMA OrderlyInit == Init => Orderly
<1> SUFFICES ASSUME Init PROVE Orderly  OBVIOUS
<1>1. Births
  BY NoneIsNoValue, SeededNotReq DEF Init, Births, Unborn, Makers, NoArg, AllOps, Id
<1>2. Housed
  <2>1. Nowhere \notin Dir BY PathsDiffer DEF Dir, LiveDirs, Slots
  <2>2. QED BY <2>1, SeededNotReq DEF Init, Housed, Home, Id
<1>3. DirFirst /\ FilesAway BY DEF Init, DirFirst, FilesAway, Away
<1>4. QED BY <1>1, <1>2, <1>3 DEF Orderly

(***************************************************************************)
(* Whatever overlaps, fails or crashes, rows and requests know only books  *)
(* that are born, and a file is in the directory of its own book, in a     *)
(* slot that a Delete of the book made, or in no book directory at all.    *)
(***************************************************************************)
THEOREM FilesKeepToTheirBooks == Spec => []Orderly
<1>1. IInv /\ [Next]_vars => IInv'
  BY InvWork, InvStart, InvCrash, InvStutter DEF Next
<1>2. IInv /\ Orderly /\ [Next]_vars => Orderly'
  BY OrderlyWork, OrderlyStart, OrderlyCrash, OrderlyStutter DEF Next
<1>3. QED BY InvInit, OrderlyInit, <1>1, <1>2, PTL DEF Spec

-----------------------------------------------------------------------------
(* What an answered upload was promised, and who takes it all the same.     *)

\* The first half of UploadKept: the row of the file.
RowKept ==
    \A r \in Req :
        arg[r].op = "upload" /\ pc[r] = "ok" /\ ~DeletedFile(r) =>
            r \in rows \/ FailedImport(arg[r].book)

\* A step of a handler keeps the rows of uploads.
LEMMA KeptWork ==
    ASSUME IInv, RowKept, NEW r \in Req, Work(r) PROVE RowKept'
<1>1. /\ arg' = arg /\ \A q \in Req : q # r => pc'[q] = pc[q]
      /\ pc[r] \in Running
  BY WorkMoves DEF Moves, IInv, TypeOK, ControlTypeOK
<1>2. ASSUME NEW q \in Req, arg[q].op = "upload", pc'[q] = "ok",
             ~FailedImport(arg[q].book)', ~DeletedFile(q)
      PROVE  q \in rows'
  <2>1. CASE q = r BY <1>2, <2>1, RowComes
  <2>2. CASE q # r
    <3>1. q \in rows BY <1>1, <1>2, <2>2, FailedStays DEF RowKept
    <3>2. QED BY <1>1, <1>2, <2>2, <3>1, RowStays
  <2>3. QED BY <2>1, <2>2
<1>3. QED BY <1>1, <1>2 DEF RowKept, DeletedFile

\* A request that starts takes no row, and is no failed import yet.
LEMMA KeptStart ==
    ASSUME IInv, RowKept, NEW r \in Req, Start(r) PROVE RowKept'
<1>1. PICK o \in Ops \cap AllOps : \E a \in Asks(r, o) :
              /\ pc[r] = "idle"
              /\ arg' = [arg EXCEPT ![r] = a]
              /\ pc' = [pc EXCEPT ![r] = FirstStep[o]]
              /\ UNCHANGED <<seen, faults, crashes, disk, database>>
  BY StartEffect DEF IInv
<1>2. /\ arg[r] = NoArg /\ rows' = rows /\ pc'[r] # "ok"
      /\ \A q \in Req : q # r => arg'[q] = arg[q] /\ pc'[q] = pc[q]
  BY <1>1 DEF IInv, Shapes, TypeOK, ControlTypeOK, FirstStep, AllOps, database, catalogue
<1>3. arg[r].op \notin AllOps
  BY <1>2, NoneIsNoValue DEF NoArg
<1>4. \A b : FailedImport(b) => FailedImport(b)'
  BY <1>2, <1>3 DEF FailedImport, AllOps
<1>5. \A f : DeletedFile(f) => DeletedFile(f)'
  BY <1>2, <1>3 DEF DeletedFile, AllOps
<1>6. QED BY <1>2, <1>4, <1>5 DEF RowKept

\* A crash takes no row, and undoes no failure.
LEMMA KeptCrash == ASSUME IInv, RowKept, Crash PROVE RowKept'
<1>1. /\ UNCHANGED <<arg, rows>>
      /\ \A q \in Req : pc'[q] \in {pc[q], "lost"}
  BY DEF Crash, catalogue, IInv, TypeOK, ControlTypeOK
<1>2. \A b : FailedImport(b) => FailedImport(b)'
  BY <1>1 DEF FailedImport
<1>3. QED BY <1>1, <1>2 DEF RowKept, DeletedFile

\* A Create that has failed stays so.
LEMMA FailedCreateStays ==
    ASSUME IInv, NEW r \in Req, Work(r), NEW b, FailedCreate(b) PROVE FailedCreate(b)'
<1>1. /\ arg' = arg /\ pc' = [pc EXCEPT ![r] = pc'[r]] /\ pc \in [Req -> Label]
      /\ pc[r] \in Running /\ \A q \in Req : q # r => pc'[q] = pc[q]
  BY WorkKeeps
<1>2. CASE b # r BY <1>1, <1>2 DEF FailedCreate
<1>3. CASE b = r
  <2>1. pc[r] \in {"c_rmdir", "j_failed"}
    BY <1>1, <1>3
    DEF FailedCreate, Running, CreateSteps, UploadSteps, DeleteSteps, RestoreSteps, FileSteps,
        UpdateSteps, ImportSteps
  <2>2. pc'[r] \in {"j_failed", "error"}
    BY <1>1, <2>1, WorkKinds
    DEF Kinds, Rests, MakesBook, MakesAgain, WritesBook, Forgets, Removes, Puts, Commits,
        MovesOut, PutsBack, Trashes, Revives, MovesIn, MovesOff, TakesFile, ReturnsFile,
        DropsRow, Purges, Turns, NotMade
  <2>3. QED BY <1>1, <1>3, <2>2 DEF FailedCreate
<1>4. QED BY <1>2, <1>3

\* Who takes the row of a book: its Create and its purge, which fail.
LEMMA LastingWork ==
    ASSUME IInv, Births, Lasting, NEW r \in Req, Work(r) PROVE Lasting'
<1>1. /\ arg' = arg /\ pc' = [pc EXCEPT ![r] = pc'[r]] /\ pc \in [Req -> Label] /\ Shape(r)
      /\ pc[r] \in Running /\ \A q \in Req : q # r => pc'[q] = pc[q]
  BY WorkKeeps
<1>2. ASSUME NEW b \in Id, status'[b] = "absent"
      PROVE  Unborn(b)' \/ FailedCreate(b)' \/ FailedImport(b)'
  <2>1. CASE b = r /\ Forgets(r)
    <3>1. arg[r].op \in Makers /\ (pc[r] = "p_book" => arg[r].op = "import")
      BY <1>1, <2>1 DEF Forgets, Turns, Shape, CreateSteps, ImportSteps, Makers
    <3>2. \/ pc'[r] = "c_rmdir"
          \/ pc[r] = "p_book" /\ pc'[r] = "p_dir"
      BY <1>1, <2>1 DEF Forgets, Turns
    <3>3. QED BY <1>1, <2>1, <3>1, <3>2 DEF FailedCreate, FailedImport
  <2>2. CASE ~(b = r /\ Forgets(r))
    <3>0. status \in [Id -> {"absent", "active", "trashed"}]
      BY DEF IInv, TypeOK, DatabaseTypeOK
    <3>1. status[b] = "absent" /\ ~(b = r /\ WritesBook(r))
      BY <1>2, <2>2, <3>0, StatusWork DEF WritesBook
    <3>2. CASE FailedCreate(b) BY <3>2, FailedCreateStays
    <3>3. CASE FailedImport(b) BY <3>3, FailedStays
    <3>4. CASE Unborn(b) /\ b # r BY <1>1, <3>4 DEF Unborn
    <3>5. CASE Unborn(b) /\ b = r /\ arg[r].op \notin Makers BY <1>1, <3>5 DEF Unborn
    <3>6. CASE b = r /\ pc[r] \in {"j_new", "c_dir", "c_tx"} /\ arg[r].op \in Makers
      <4>1. pc'[r] \in {"c_dir", "c_tx", "c_rmdir", "j_failed", "error"}
        BY <3>1, <3>6, BornGoes
      <4>2. QED BY <1>1, <3>6, <4>1 DEF FailedCreate, Unborn
    <3>7. QED BY <3>1, <3>2, <3>3, <3>4, <3>5, <3>6 DEF Lasting, Unborn
  <2>3. QED BY <2>1, <2>2
<1>3. QED BY <1>2 DEF Lasting

\* A request that starts, the end of the process, and no step take none.
LEMMA LastingStart ==
    ASSUME IInv, Births, Lasting, NEW r \in Req, Start(r) PROVE Lasting'
<1>1. /\ pc[r] = "idle" /\ UNCHANGED status /\ arg[r].op \notin Makers
      /\ \A q \in Req : q # r => pc'[q] = pc[q] /\ arg'[q] = arg[q]
      /\ pc'[r] \in {"c_dir", "j_new"} \/ arg'[r].op \notin Makers
  <2>1. arg[r] = NoArg BY StartKeeps DEF IInv, Shapes
  <2>2. \A o \in AllOps : FirstStep[o] \in {"c_dir", "j_new"} <=> o \in Makers
    BY DEF FirstStep, AllOps, Makers
  <2>3. PICK o \in Ops \cap AllOps : \E a \in Asks(r, o) :
                /\ arg' = [arg EXCEPT ![r] = a]
                /\ pc' = [pc EXCEPT ![r] = FirstStep[o]]
    BY StartEffect DEF IInv
  <2>4. PICK a \in Asks(r, o) : arg'[r] = a /\ pc'[r] = FirstStep[o]
    BY <2>3 DEF IInv, TypeOK, ControlTypeOK
  <2>5. a.op = o BY <2>3, <2>4, StartKeeps, AsksShape DEF IInv
  <2>6. QED BY <2>1, <2>2, <2>4, <2>5, StartKeeps, NoneIsNoValue DEF stored, NoArg, Makers, AllOps
<1>2. ASSUME NEW b \in Id, status[b] = "absent"
      PROVE  Unborn(b)' \/ FailedCreate(b)' \/ FailedImport(b)'
  <2>1. Unborn(b) \/ FailedCreate(b) \/ FailedImport(b) BY <1>2 DEF Lasting
  <2>2. CASE b # r BY <1>1, <2>1, <2>2 DEF Unborn, FailedCreate, FailedImport
  <2>3. CASE b = r BY <1>1, <2>3 DEF Unborn
  <2>4. QED BY <2>2, <2>3
<1>3. QED BY <1>1, <1>2 DEF Lasting

LEMMA LastingCrash == ASSUME IInv, Lasting, Crash PROVE Lasting'
<1>1. /\ UNCHANGED <<arg, status>>
      /\ pc' = [q \in Req |-> IF q \in InFlight THEN "lost" ELSE pc[q]]
  BY DEF Crash, catalogue
<1>2. \A q \in Req : pc'[q] \in {pc[q], "lost"} BY <1>1
<1>3. \A b : FailedImport(b) => FailedImport(b)' BY <1>1, <1>2 DEF FailedImport
<1>4. \A b : FailedCreate(b) => FailedCreate(b)' BY <1>1, <1>2 DEF FailedCreate
<1>5. \A b : Unborn(b) => Unborn(b)' \/ FailedCreate(b)'
  BY <1>1, <1>2 DEF Unborn, FailedCreate
<1>6. QED BY <1>1, <1>3, <1>4, <1>5 DEF Lasting

(***************************************************************************)
(* A file whose upload was answered with success keeps its row, its book   *)
(* and its bytes until a client deletes it; the purge of an import and a   *)
(* Create that is taken back are the only ones that take it all the same.  *)
(***************************************************************************)
THEOREM UploadsAreKept == Spec => []UploadKept
<1>1. Init => RowKept /\ Lasting
  <2> SUFFICES ASSUME Init PROVE RowKept /\ Lasting  OBVIOUS
  <2>1. \A r \in Req : arg[r] = NoArg /\ NoArg.op \notin AllOps
    BY NoneIsNoValue DEF Init, NoArg
  <2>2. RowKept BY <2>1 DEF RowKept, AllOps
  <2>3. Lasting BY <2>1 DEF Init, Lasting, Unborn, Makers, AllOps, Id
  <2>4. QED BY <2>2, <2>3
<1>2. IInv /\ Births /\ RowKept /\ Lasting /\ [Next]_vars => RowKept' /\ Lasting'
  <2>1. ASSUME RowKept, Lasting, UNCHANGED vars PROVE RowKept' /\ Lasting'
    BY <2>1 DEF vars, RowKept, Lasting, FailedImport, FailedCreate, Unborn, DeletedFile,
                control, database, catalogue
  <2>2. QED
    BY <2>1, KeptWork, KeptStart, KeptCrash, LastingWork, LastingStart, LastingCrash DEF Next
<1>3. IInv /\ Births /\ RowKept /\ Lasting => UploadKept
  <2> SUFFICES ASSUME IInv, Births, RowKept, Lasting, NEW r \in Req,
                      arg[r].op = "upload", pc[r] = "ok", ~DeletedFile(r),
                      ~FailedImport(arg[r].book)
               PROVE  /\ r \in rows
                      /\ \/ status[arg[r].book] # "absent" /\ Located(r)
                         \/ FailedCreate(arg[r].book)
    BY DEF UploadKept
  <2>1. r \in rows /\ Home(r) = arg[r].book BY SeededNotReq DEF RowKept, Home
  <2>2. arg[r].book \in Id /\ ~Unborn(arg[r].book)
    BY DEF IInv, Shapes, Shape, Births, Makers
  <2>3. status[arg[r].book] # "absent" \/ FailedCreate(arg[r].book)
    BY <2>2 DEF Lasting
  <2>4. Undone(arg[r].book) => FailedCreate(arg[r].book)
    BY <2>2 DEF Undone, FailedCreate, Unborn
  <2>5. QED BY <2>1, <2>3, <2>4 DEF IInv, FilesLocated
<1>4. [](IInv /\ Births) /\ Spec => [](RowKept /\ Lasting)
  BY <1>1, <1>2, PTL DEF Spec
<1>5. Spec => []Births
  BY FilesKeepToTheirBooks, PTL DEF Orderly
<1>6. QED BY <1>3, <1>4, <1>5, Invariance, PTL

-----------------------------------------------------------------------------
(* Where deletes run apart.                                                *)

\* Who joins is asked what may overlap.
LEMMA ApartStart ==
    ASSUME DeletesApart, IInv, Apart, NEW r \in Req, Start(r) PROVE Apart'
<1>0. PICK o \in Ops : \E a \in Asks(r, o) :
            /\ MayJoin(o) /\ pc[r] = "idle"
            /\ arg' = [arg EXCEPT ![r] = a]
            /\ pc' = [pc EXCEPT ![r] = FirstStep[o]]
  BY DEF Start
<1>1. PICK a \in Asks(r, o) :
            /\ MayJoin(o) /\ pc[r] = "idle"
            /\ arg' = [arg EXCEPT ![r] = a]
            /\ pc' = [pc EXCEPT ![r] = FirstStep[o]]
  BY <1>0
<1>2. /\ a.op = o
      /\ arg'[r] = a /\ \A q \in Req : q # r => arg'[q] = arg[q] /\ pc'[q] = pc[q]
  BY <1>1, AsksShape, OpsAssumption DEF IInv, TypeOK, ControlTypeOK
<1>3. InFlight' \subseteq InFlight \cup {r} BY <1>2 DEF InFlight
<1>4. r \notin InFlight
  BY <1>1 DEF InFlight, Running, CreateSteps, UploadSteps, DeleteSteps, RestoreSteps,
              FileSteps, UpdateSteps, ImportSteps
<1>5. ASSUME NEW p \in InFlight', NEW q \in InFlight'
      PROVE  /\ arg'[p].op = "delete" => arg'[q].op \in {"delete", "update"}
             /\ arg'[p].op = "restore" => arg'[q].op # "delete_file"
  <2>1. CASE p \in InFlight /\ q \in InFlight
    BY <1>2, <1>4, <2>1 DEF Apart, InFlight
  <2>2. CASE p = r /\ q = r BY <2>2
  <2>3. CASE InFlight # {} /\ (p = r \/ q = r)
    <3>1. PICK together \in Overlap :
              {o} \cup {arg[x].op : x \in InFlight} \subseteq together
      BY <1>1, <2>3 DEF MayJoin
    <3>2. arg'[p].op \in together /\ arg'[q].op \in together
      BY <1>2, <1>3, <1>4, <3>1 DEF InFlight
    <3>3. QED BY <3>1, <3>2 DEF DeletesApart
  <2>4. QED BY <1>3, <2>1, <2>2, <2>3
<1>6. QED BY <1>5 DEF Apart

\* A step of a handler is of a request in flight, and starts none.
LEMMA ApartWork == ASSUME IInv, Apart, NEW r \in Req, Work(r) PROVE Apart' /\ r \in InFlight
<1>1. /\ arg' = arg /\ pc[r] \in Running /\ \A q \in Req : q # r => pc'[q] = pc[q]
  BY WorkKeeps
<1>2. r \in InFlight /\ InFlight' \subseteq InFlight BY <1>1 DEF InFlight
<1>3. QED BY <1>1, <1>2 DEF Apart

\* Beside a Delete nobody but Deletes and Updates takes a step, and beside a
\* Restore no Delete.
LEMMA Aside ==
    ASSUME IInv, Apart, NEW r \in Req, Work(r), NEW d \in Req
    PROVE  /\ pc[d] \in DeleteSteps => arg[r].op \in {"delete", "update"}
           /\ pc[d] \in RestoreSteps => arg[r].op \notin {"delete", "delete_file"}
           /\ pc[d] \in DeleteSteps =>
                 ~(MakesBook(r) \/ MakesAgain(r) \/ MovesIn(r) \/ MovesOff(r) \/ Revives(r))
           /\ pc[d] \in RestoreSteps => ~(MovesOut(r) \/ PutsBack(r) \/ Trashes(r))
<1>1. Shape(r) /\ r \in InFlight BY WorkKeeps, ApartWork
<1>2. ASSUME pc[d] \in DeleteSteps \cup RestoreSteps PROVE d \in InFlight /\ Shape(d)
  BY <1>2 DEF InFlight, Running, IInv, Shapes, DeleteSteps, RestoreSteps
<1>3. /\ pc[d] \in DeleteSteps => arg[r].op \in {"delete", "update"}
      /\ pc[d] \in RestoreSteps => arg[r].op \notin {"delete", "delete_file"}
  BY <1>1, <1>2 DEF Apart, Shape
<1>4. QED
  BY <1>1, <1>3
  DEF Shape, MakesBook, MakesAgain, MovesIn, MovesOff, Revives, MovesOut, PutsBack, Trashes,
      Turns, CreateSteps, UploadSteps, FileSteps, DeleteSteps, RestoreSteps

\* A book that has a row and is not new has an ended request, beside a Delete.
LEMMA TrashedLateWork ==
    ASSUME IInv, Births, Apart, TrashedLate, NEW r \in Req, Work(r) PROVE TrashedLate'
<1>1. /\ Shape(r) /\ pc[r] \in Running /\ \A q \in Req : q # r => pc'[q] = pc[q]
      /\ arg[r].book \in Id /\ pc \in [Req -> Label]
  BY WorkKeeps DEF Shape
<1>2. pc[r] \notin Ended
  BY <1>1 DEF Ended, Running, CreateSteps, UploadSteps, DeleteSteps, RestoreSteps,
              FileSteps, UpdateSteps, ImportSteps
<1>3. SUFFICES ASSUME NEW b \in Id, status'[b] = "trashed", b \notin Seeded
               PROVE  pc'[b] \in Ended
  BY DEF TrashedLate, Trashed
<1>4. b \in Req BY <1>3 DEF Id
<1>5. CASE status[b] = "trashed"
  BY <1>1, <1>2, <1>3, <1>4, <1>5 DEF TrashedLate, Trashed
<1>6. CASE b = arg[r].book /\ Trashes(r) /\ status[b] # "absent"
  <2>1. arg[r].op = "delete" BY <1>1, <1>6 DEF Trashes, Turns, Shape, DeleteSteps
  <2>2. arg[b].op \in Makers BY <1>4, <1>6 DEF Births, Unborn
  <2>3. b \notin InFlight BY <2>1, <2>2, ApartWork DEF Apart, Makers
  <2>4. pc[b] # "idle" BY <1>4, <2>2, NoneIsNoValue DEF IInv, Shapes, NoArg, Makers, AllOps
  <2>5. pc[b] \in Ended BY <1>1, <1>4, <2>3, <2>4 DEF InFlight, Label
  <2>6. QED BY <1>1, <1>2, <1>4, <2>5
<1>7. QED BY <1>3, <1>5, <1>6, StatusWork

\* The row of a book in the trash changes by a Delete or a Restore only.
LEMMA TrashKept ==
    ASSUME IInv, TrashedLate, NEW r \in Req, Work(r), NEW b \in Id, Trashed(b)
    PROVE  \/ status'[b] = status[b] /\ trashPath'[b] = trashPath[b]
           \/ Trashes(r) \/ (Revives(r) /\ b = arg[r].book)
<1>1. pc[r] \in Running /\ arg[r].book \in Id /\ Shape(r) BY WorkKeeps DEF Shape
<1>2. /\ pc[r] \notin Ended
      /\ status \in [Id -> {"absent", "active", "trashed"}]
      /\ trashPath \in [Id -> Slots \cup {Nowhere}]
  BY <1>1 DEF Ended, Running, CreateSteps, UploadSteps, DeleteSteps, RestoreSteps,
              FileSteps, UpdateSteps, ImportSteps, IInv, TypeOK, DatabaseTypeOK
<1>3. b # r BY <1>2, SeededNotReq DEF TrashedLate
<1>4. CASE WritesBook(r) BY <1>2, <1>3, <1>4 DEF WritesBook
<1>5. CASE Forgets(r) BY <1>2, <1>3, <1>5 DEF Forgets
<1>6. CASE Revives(r) BY <1>1, <1>2, <1>6 DEF Revives, Marks
<1>7. CASE ~(WritesBook(r) \/ Forgets(r) \/ Trashes(r) \/ Revives(r))
  BY <1>7, WorkKinds
  DEF Kinds, Rests, stored, MakesBook, MakesAgain, Removes, Puts, Commits, MovesOut, PutsBack,
      MovesIn, MovesOff, TakesFile, ReturnsFile, DropsRow, Purges, Keeps
<1>8. QED BY <1>4, <1>5, <1>6, <1>7

\* The labels of Moved and Back are come to one way each.
LEMMA MovedComes ==
    ASSUME IInv, NEW r \in Req, Work(r)
    PROVE  /\ Moved(r)' => Moved(r) \/ MovesOut(r)
           /\ Back(r)' => \/ MovesIn(r)
                          \/ Back(r) /\ Rests(r)
           /\ pc'[r] = "r_move" => Rests(r)
           /\ MovesOut(r) => Moved(r)'
<1>1. pc' = [pc EXCEPT ![r] = pc'[r]] /\ pc \in [Req -> Label] BY WorkKeeps
<1>2. CASE Rests(r) BY <1>1, <1>2 DEF Rests, Moved, Back, MovesOut, Turns
<1>3. CASE MovesOut(r) BY <1>1, <1>3 DEF MovesOut, Turns, Moved, Back
<1>4. CASE MovesIn(r) BY <1>1, <1>4 DEF MovesIn, Turns, Moved, Back, MovesOut
<1>5. CASE Puts(r) BY <1>5 DEF Puts, Refused, Moved, Back, MovesOut, Turns
<1>6. CASE ~(Rests(r) \/ MovesOut(r) \/ MovesIn(r) \/ Puts(r))
  BY <1>1, <1>6, WorkKinds
  DEF Kinds, MakesBook, MakesAgain, WritesBook, Forgets, Removes, Commits, PutsBack, Trashes,
      Revives, MovesOff, TakesFile, ReturnsFile, DropsRow, Purges, Turns, NotMade, Uploaded,
      Moved, Back
<1>7. QED BY <1>2, <1>3, <1>4, <1>5, <1>6

\* A Delete that has moved the directory stays alone with the book.
LEMMA DeletesAloneWork ==
    ASSUME IInv, Apart, DeletesAlone, NEW r \in Req, Work(r) PROVE DeletesAlone'
<1>1. /\ arg' = arg /\ \A q \in Req : q # r => pc'[q] = pc[q]
      /\ pc' = [pc EXCEPT ![r] = pc'[r]] /\ pc \in [Req -> Label]
  BY WorkKeeps
<1>2. \A q \in Req : q # r => (Moved(q)' <=> Moved(q)) BY <1>1 DEF Moved
<1>3. ASSUME NEW d \in Req, Moved(d)'
      PROVE  /\ Live(arg[d].book) \notin dirs'
             /\ \A e \in Req : Moved(e)' /\ arg[e].book = arg[d].book => e = d
  <2>1. CASE MovesOut(r)
    <3>1. Live(arg[r].book) \in dirs /\ dirs' = (dirs \ {Live(arg[r].book)}) \cup {Slot(r)}
      BY <2>1 DEF MovesOut, CanMoveDir, MoveDir
    <3>2. \A e \in Req : Moved(e) => arg[e].book # arg[r].book
      BY <3>1 DEF DeletesAlone
    <3>3. \A b : Live(b) # Slot(r) BY PathsDiffer
    <3>4. CASE d = r BY <1>2, <3>1, <3>2, <3>3, <3>4
    <3>5. CASE d # r
      <4>1. Moved(d) /\ Live(arg[d].book) \notin dirs BY <1>2, <1>3, <3>5 DEF DeletesAlone
      <4>2. QED BY <1>2, <3>1, <3>2, <3>3, <3>5, <4>1 DEF DeletesAlone
    <3>6. QED BY <3>4, <3>5
  <2>2. CASE ~MovesOut(r)
    <3>1. \A q \in Req : Moved(q)' => Moved(q) BY <1>2, <2>2, MovedComes
    <3>2. Moved(d) /\ Live(arg[d].book) \notin dirs BY <1>3, <3>1 DEF DeletesAlone
    <3>3. pc[d] \in DeleteSteps BY <3>2 DEF Moved, DeleteSteps
    <3>4. Live(arg[d].book) \notin dirs'
      <4>1. CASE PutsBack(r)
        <5>1. Moved(r) /\ ~Moved(r)' BY <1>1, <4>1 DEF PutsBack, Turns, Moved
        <5>2. arg[r].book # arg[d].book BY <1>3, <3>2, <5>1 DEF DeletesAlone
        <5>3. dirs' = (dirs \ {Slot(r)}) \cup {Live(arg[r].book)} BY <4>1 DEF PutsBack, MoveDir
        <5>4. QED BY <3>2, <5>2, <5>3, PathsDiffer
      <4>2. CASE ~PutsBack(r)
        <5>1. ~(MakesBook(r) \/ MakesAgain(r) \/ MovesIn(r) \/ MovesOff(r))
          BY <3>3, Aside
        <5>2. QED
          BY <2>2, <3>2, <4>2, <5>1, DiskKinds
          DEF Removes, RemoveDir, Puts, PutFile, TakesFile, ReturnsFile
      <4>3. QED BY <4>1, <4>2
    <3>5. QED BY <3>1, <3>2, <3>4 DEF DeletesAlone
  <2>3. QED BY <2>1, <2>2
<1>4. QED BY <1>1, <1>3 DEF DeletesAlone, Moved

\* A Restore that has moved the directory back stays alone with the book, and
\* the slot of one that comes too late is gone.
LEMMA RestoresAloneWork ==
    ASSUME IInv, Apart, TrashedLate, RestoresAlone, NEW r \in Req, Work(r)
    PROVE  RestoresAlone'
<1>1. /\ arg' = arg /\ \A q \in Req : q # r => pc'[q] = pc[q] /\ seen'[q] = seen[q]
      /\ pc' = [pc EXCEPT ![r] = pc'[r]] /\ pc \in [Req -> Label] /\ pc[r] \in Running
      /\ Shape(r)
      /\ pc'[r] \in {"r_mark", "r_undo"} => UNCHANGED seen
  BY WorkKeeps
<1>2. \A q \in Req : q # r => (Back(q)' <=> Back(q)) BY <1>1 DEF Back
<1>3. \A q \in Req : Back(q) \/ pc[q] = "r_move" =>
          pc[q] \in RestoreSteps /\ arg[q].book \in Id /\ SlotOf(seen[q], arg[q].book)
  BY DEF Back, RestoreSteps, IInv, Shapes, Shape, SlotsFit
<1>4. \A p \in Req, q \in Req :
          /\ Back(p) \/ pc[p] = "r_move"
          /\ Back(q) \/ pc[q] = "r_move"
          /\ seen[p] = seen[q]
          => arg[p].book = arg[q].book
  BY <1>3, PathsDiffer DEF SlotOf
<1>5. \A q \in Req : \A b : Back(q) \/ pc[q] = "r_move" => seen[q] # Live(b) /\ seen[q] \in Slots
  BY <1>3, PathsDiffer DEF SlotOf, Slots
<1>6. ASSUME NEW q \in Req, q # r, Back(q) \/ pc[q] = "r_move", Trashed(arg[q].book)
      PROVE  \/ status'[arg[q].book] = "trashed" /\ trashPath'[arg[q].book] = trashPath[arg[q].book]
             \/ Back(r) /\ Revives(r) /\ arg[r].book = arg[q].book
  <2>1. pc[q] \in RestoreSteps /\ arg[q].book \in Id BY <1>3, <1>6
  <2>2. ~Trashes(r) BY <2>1, Aside
  <2>3. Revives(r) => Back(r) BY DEF Revives, Turns, Back
  <2>4. QED BY <1>6, <2>1, <2>2, <2>3, TrashKept DEF Trashed
<1>7. ASSUME NEW q \in Req, pc'[q] = "r_move"
      PROVE  \/ seen'[q] \notin dirs'
             \/ status'[arg[q].book] = "trashed" /\ trashPath'[arg[q].book] = seen'[q]
  <2>1. CASE q = r
    BY <1>7, <2>1, MovedComes DEF Rests, stored, Trashed
  <2>2. CASE q # r
    <3>1. pc[q] = "r_move" /\ seen'[q] = seen[q] BY <1>1, <1>7, <2>2
    <3>2. pc[q] \in RestoreSteps BY <3>1 DEF RestoreSteps
    <3>3. ~(MovesOut(r) \/ PutsBack(r)) BY <3>2, Aside
    <3>4. CASE MovesOff(r) /\ seen[r] = seen[q]
      <4>1. Back(r) BY <3>4 DEF MovesOff, Turns, Back
      <4>2. arg[r].book = arg[q].book BY <1>4, <3>1, <3>4, <4>1
      <4>3. Trashed(arg[r].book) /\ trashPath[arg[r].book] = seen[r]
        BY <4>1 DEF RestoresAlone
      <4>4. QED BY <3>1, <3>4, <4>2, <4>3 DEF MovesOff, Keeps, Trashed
    <3>5. CASE ~(MovesOff(r) /\ seen[r] = seen[q]) /\ seen[q] \notin dirs
      <4>1. MovesOff(r) => MoveDir(Live(arg[r].book), seen[r]) BY DEF MovesOff
      <4>2. MovesIn(r) => MoveDir(seen[r], Live(arg[r].book)) BY DEF MovesIn
      <4>3. seen[q] # Live(arg[r].book) BY <1>5, <3>1
      <4>4. seen[q] \notin dirs'
        BY <3>3, <3>5, <4>1, <4>2, <4>3, DiskKinds
        DEF Removes, RemoveDir, Puts, PutFile, TakesFile, ReturnsFile, MoveDir
      <4>5. QED BY <3>1, <4>4
    <3>6. CASE ~(MovesOff(r) /\ seen[r] = seen[q]) /\ seen[q] \in dirs
      <4>1. Trashed(arg[q].book) /\ trashPath[arg[q].book] = seen[q]
        BY <3>1, <3>6 DEF RestoresAlone
      <4>2. CASE Back(r) /\ Revives(r) /\ arg[r].book = arg[q].book
        <5>1. seen[r] = seen[q] /\ seen[r] \notin dirs BY <4>1, <4>2 DEF RestoresAlone
        <5>2. QED BY <3>6, <5>1
      <4>3. QED BY <1>6, <2>2, <3>1, <4>1, <4>2
    <3>7. QED BY <3>4, <3>5, <3>6
  <2>3. QED BY <2>1, <2>2
<1>8. ASSUME NEW q \in Req, Back(q)'
      PROVE  /\ status'[arg[q].book] = "trashed" /\ trashPath'[arg[q].book] = seen'[q]
             /\ seen'[q] \notin dirs' /\ Live(arg[q].book) \in dirs'
             /\ \A e \in Req : Back(e)' /\ arg[e].book = arg[q].book => e = q
  <2>1. CASE MovesIn(r)
    <3>1. /\ pc[r] = "r_move" /\ pc'[r] = "r_mark"
          /\ seen[r] \in dirs /\ Live(arg[r].book) \notin dirs /\ Keeps
          /\ dirs' = (dirs \ {seen[r]}) \cup {Live(arg[r].book)}
      BY <1>1, <2>1 DEF MovesIn, Turns, CanMoveDir, MoveDir
    <3>2. Trashed(arg[r].book) /\ trashPath[arg[r].book] = seen[r] /\ seen' = seen
      BY <1>1, <3>1 DEF RestoresAlone
    <3>3. \A e \in Req : Back(e) => arg[e].book # arg[r].book
      BY <3>1 DEF RestoresAlone
    <3>4. ~Back(r) BY <3>1 DEF Back
    <3>5. CASE q = r
      <4>1. seen[r] # Live(arg[r].book) BY <1>5, <3>1
      <4>2. QED BY <1>2, <3>1, <3>2, <3>3, <3>5, <4>1 DEF Keeps, Trashed
    <3>6. CASE q # r
      <4>1. /\ Back(q) /\ Trashed(arg[q].book) /\ trashPath[arg[q].book] = seen[q]
            /\ seen[q] \notin dirs /\ Live(arg[q].book) \in dirs
            /\ \A e \in Req : Back(e) /\ arg[e].book = arg[q].book => e = q
        BY <1>2, <1>8, <3>6 DEF RestoresAlone
      <4>2. seen[r] # Live(arg[q].book) /\ seen[q] # Live(arg[r].book)
        BY <1>5, <3>1, <4>1
      <4>3. QED BY <1>2, <3>1, <3>2, <3>3, <3>6, <4>1, <4>2 DEF Keeps, Trashed
    <3>7. QED BY <3>5, <3>6
  <2>2. CASE ~MovesIn(r)
    <3>1. \A e \in Req : Back(e)' => Back(e) BY <1>2, <2>2, MovedComes
    <3>2. /\ Back(q) /\ Trashed(arg[q].book) /\ trashPath[arg[q].book] = seen[q]
          /\ seen[q] \notin dirs /\ Live(arg[q].book) \in dirs
          /\ \A e \in Req : Back(e) /\ arg[e].book = arg[q].book => e = q
      BY <1>8, <3>1 DEF RestoresAlone
    <3>3. seen'[q] = seen[q]
      <4>1. CASE q = r BY <1>1, <1>8, <4>1 DEF Back
      <4>2. QED BY <1>1, <4>1
    <3>4. Back(r) /\ arg[r].book = arg[q].book => q = r /\ Rests(r)
      BY <1>8, <2>2, <3>2, MovedComes
    <3>5. status'[arg[q].book] = "trashed" /\ trashPath'[arg[q].book] = seen'[q]
      <4>1. CASE q = r BY <1>8, <2>2, <3>2, <3>3, <4>1, MovedComes DEF Rests, stored, Trashed
      <4>2. CASE q # r BY <1>6, <3>2, <3>3, <3>4, <4>2
      <4>3. QED BY <4>1, <4>2
    <3>6. seen[q] \notin dirs' /\ Live(arg[q].book) \in dirs'
      <4>1. pc[q] \in RestoreSteps /\ arg[q].book \in Id BY <1>3, <3>2
      <4>2. ~(MovesOut(r) \/ PutsBack(r)) BY <4>1, Aside
      <4>3. seen[q] # Live(arg[r].book) BY <1>5, <3>2
      <4>4. CASE MovesOff(r)
        <5>1. Back(r) /\ dirs' = (dirs \ {Live(arg[r].book)}) \cup {seen[r]}
          BY <4>4 DEF MovesOff, Turns, Back, MoveDir
        <5>2. r # q
          BY <1>1, <1>8, <4>4 DEF MovesOff, Turns, Back
        <5>3. arg[r].book # arg[q].book BY <3>4, <5>1, <5>2
        <5>4. seen[r] # seen[q] BY <1>4, <3>2, <5>1, <5>3
        <5>5. Live(arg[r].book) # Live(arg[q].book) BY <5>3, PathsDiffer
        <5>6. QED BY <3>2, <5>1, <5>4, <5>5
      <4>5. CASE Removes(r)
        <5>1. arg[q].book # r
          <6>1. pc[r] \notin Ended
            BY <1>1 DEF Ended, Running, CreateSteps, UploadSteps, DeleteSteps, RestoreSteps,
                        FileSteps, UpdateSteps, ImportSteps
          <6>2. QED BY <3>2, <4>1, <6>1, SeededNotReq DEF TrashedLate
        <5>2. Live(arg[q].book) # Live(r) BY <5>1, PathsDiffer
        <5>3. QED BY <3>2, <4>5, <5>2 DEF Removes, RemoveDir
      <4>6. CASE ~(MovesOff(r) \/ Removes(r))
        BY <2>2, <3>2, <4>2, <4>3, <4>6, DiskKinds
        DEF Puts, PutFile, TakesFile, ReturnsFile
      <4>7. QED BY <4>4, <4>5, <4>6
    <3>7. QED BY <3>1, <3>2, <3>3, <3>5, <3>6
  <2>3. QED BY <2>1, <2>2
<1>9. QED BY <1>1, <1>7, <1>8 DEF RestoresAlone, Back, Trashed

\* Together: every step keeps it.
LEMMA OrderedWork ==
    ASSUME IInv, Orderly, Ordered, NEW r \in Req, Work(r) PROVE Ordered'
BY ApartWork, TrashedLateWork, DeletesAloneWork, RestoresAloneWork DEF Ordered, Orderly

LEMMA OrderedStart ==
    ASSUME DeletesApart, IInv, Orderly, Ordered, NEW r \in Req, Start(r) PROVE Ordered'
<1>1. /\ pc[r] = "idle" /\ r \in Id /\ pc \in [Req -> Label]
      /\ pc' = [pc EXCEPT ![r] = pc'[r]]
      /\ pc'[r] \in {"c_dir", "u_check", "d_check", "r_check", "f_check", "e_check", "j_new"}
      /\ \A q \in Req : q # r => pc'[q] = pc[q] /\ arg'[q] = arg[q]
      /\ UNCHANGED <<dirs, at, status, trashPath, rows, seen>>
  BY StartKeeps DEF Orderly, stored
<1>2. Apart' BY ApartStart DEF Ordered
<1>3. TrashedLate' BY <1>1 DEF Ordered, TrashedLate, Trashed, Ended, Id
<1>4. \A q \in Req : /\ Moved(q)' => q # r /\ Moved(q)
                     /\ Back(q)' => q # r /\ Back(q)
                     /\ pc'[q] = "r_move" => q # r /\ pc[q] = "r_move"
  BY <1>1 DEF Moved, Back
<1>5. DeletesAlone' BY <1>1, <1>4 DEF Ordered, DeletesAlone
<1>6. RestoresAlone' BY <1>1, <1>4 DEF Ordered, RestoresAlone, Trashed
<1>7. QED BY <1>2, <1>3, <1>5, <1>6 DEF Ordered

LEMMA OrderedStutter == ASSUME Ordered, UNCHANGED vars PROVE Ordered'
<1>1. UNCHANGED <<pc, arg, seen, dirs, at, status, trashPath, rows>>
  BY DEF vars, disk, control, database, catalogue
<1>2. QED
  BY <1>1 DEF Ordered, Apart, InFlight, TrashedLate, Trashed, DeletesAlone, Moved,
              RestoresAlone, Back

LEMMA OrderedInit == Init => Ordered
<1> SUFFICES ASSUME Init PROVE Ordered
  OBVIOUS
<1>1. \A r \in Req : pc[r] = "idle" BY DEF Init
<1>2. \A b \in Id : status[b] \in {"active", "absent"} BY DEF Init
<1>3. InFlight = {}
  BY <1>1 DEF InFlight, Running, CreateSteps, UploadSteps, DeleteSteps, RestoreSteps,
              FileSteps, UpdateSteps, ImportSteps
<1>4. Apart BY <1>3 DEF Apart
<1>5. TrashedLate BY <1>2 DEF TrashedLate, Trashed
<1>6. DeletesAlone BY <1>1 DEF DeletesAlone, Moved
<1>7. RestoresAlone BY <1>1 DEF RestoresAlone, Back
<1>8. QED BY <1>4, <1>5, <1>6, <1>7 DEF Ordered

-----------------------------------------------------------------------------
(***************************************************************************)
(* Where only what can stand each other overlaps, and no more fails than a *)
(* request takes back undisturbed, the catalogue and the disk agree again  *)
(* when nothing runs.                                                      *)
(***************************************************************************)

\* The kinds of steps and the labels, by the operations that have them.
LEMMA KindOps ==
    ASSUME IInv, NEW r \in Req, Work(r)
    PROVE  /\ MovesOut(r) \/ PutsBack(r) \/ Trashes(r) => arg[r].op = "delete"
           /\ MovesIn(r) \/ MovesOff(r) \/ Revives(r) => arg[r].op = "restore"
           /\ TakesFile(r) \/ ReturnsFile(r) \/ DropsRow(r) => arg[r].op = "delete_file"
           /\ Purges(r) => arg[r].op = "import" /\ arg[r].book = r
           /\ MakesBook(r) \/ WritesBook(r) \/ Forgets(r) \/ Removes(r) =>
                 arg[r].op \in Makers /\ arg[r].book = r
           /\ Puts(r) \/ Commits(r) => arg[r].op \in {"upload", "import"}
           /\ MakesAgain(r) => arg[r].op \in {"upload", "import", "delete_file"}
<1>1. Shape(r) BY WorkKeeps
<1> USE DEF Shape, Turns, CreateSteps, UploadSteps, DeleteSteps, RestoreSteps, FileSteps,
            UpdateSteps, ImportSteps, Makers
<1>2. MovesOut(r) \/ PutsBack(r) \/ Trashes(r) => arg[r].op = "delete"
  BY <1>1 DEF MovesOut, PutsBack, Trashes
<1>3. MovesIn(r) \/ MovesOff(r) \/ Revives(r) => arg[r].op = "restore"
  BY <1>1 DEF MovesIn, MovesOff, Revives
<1>4. TakesFile(r) \/ ReturnsFile(r) \/ DropsRow(r) => arg[r].op = "delete_file"
  BY <1>1 DEF TakesFile, ReturnsFile, DropsRow
<1>5. Purges(r) => arg[r].op = "import" /\ arg[r].book = r BY <1>1 DEF Purges
<1>6. MakesBook(r) \/ WritesBook(r) \/ Forgets(r) \/ Removes(r) =>
          arg[r].op \in Makers /\ arg[r].book = r
  BY <1>1 DEF MakesBook, WritesBook, Forgets, Removes
<1>7. Puts(r) \/ Commits(r) => arg[r].op \in {"upload", "import"} BY <1>1 DEF Puts, Commits
<1>8. MakesAgain(r) => arg[r].op \in {"upload", "import", "delete_file"}
  BY <1>1 DEF MakesAgain
<1>9. QED BY <1>2, <1>3, <1>4, <1>5, <1>6, <1>7, <1>8

LEMMA LabelOps ==
    ASSUME IInv, NEW q \in Req
    PROVE  /\ pc[q] \in Running => q \in InFlight /\ Shape(q)
           /\ Moved(q) => pc[q] \in Running /\ arg[q].op = "delete"
           /\ Back(q) => pc[q] \in Running /\ arg[q].op = "restore"
           /\ Away(q) => pc[q] \in Running /\ arg[q].op = "delete_file"
           /\ pc[q] \in UploadSteps => pc[q] \in Running /\ arg[q].op \in {"upload", "import"}
           /\ Purging(q) => pc[q] \in Running /\ arg[q].op = "import" /\ arg[q].book = q
           /\ Building(q) => pc[q] \in Running /\ arg[q].op \in Makers /\ arg[q].book = q
           /\ pc[q] \in CreateSteps => pc[q] \in Running /\ arg[q].op \in Makers /\ arg[q].book = q
<1> USE DEF Running, CreateSteps, UploadSteps, DeleteSteps, RestoreSteps, FileSteps,
            UpdateSteps, ImportSteps
<1>1. pc[q] \in Running => q \in InFlight /\ Shape(q) BY DEF InFlight, IInv, Shapes
<1>2. QED BY <1>1 DEF Shape, Moved, Back, Away, Purging, Building, Makers

\* Who takes a step beside whom.
LEMMA Besides ==
    ASSUME IInv, Company, NEW r \in Req, Work(r), NEW q \in Req
    PROVE  /\ Moved(q) => arg[r].op \in {"delete", "update"}
           /\ Back(q) => arg[r].op \in {"create", "restore", "update"}
           /\ Away(q) => arg[r].op \in {"create", "upload", "delete_file", "update"}
           /\ pc[q] \in UploadSteps =>
                 arg[r].op \in {"create", "upload", "import", "delete_file", "update"}
           /\ pc[q] \in Running /\ arg[q].op = "import" =>
                 arg[r].op \in {"create", "import", "update"}
           /\ pc[q] \in Running /\ arg[q].op = "create" => arg[r].op # "delete"
<1>1. r \in InFlight /\ Shape(r) BY WorkKeeps DEF InFlight
<1>2. ASSUME pc[q] \in Running PROVE arg[r].op \in Beside[arg[q].op] /\ arg[q].op \in AllOps
  BY <1>1, <1>2, LabelOps DEF Company, Shape
<1>3. QED BY <1>2, LabelOps DEF Beside, AllOps

\* What is done to files and books, where a request of q is in flight.
LEMMA BesidesKinds ==
    ASSUME IInv, Company, NEW r \in Req, Work(r), NEW q \in Req
    PROVE  /\ Moved(q) =>
                 ~(\/ MakesBook(r) \/ MakesAgain(r) \/ WritesBook(r) \/ Forgets(r) \/ Removes(r)
                   \/ Puts(r) \/ Commits(r) \/ MovesIn(r) \/ MovesOff(r) \/ Revives(r)
                   \/ TakesFile(r) \/ ReturnsFile(r) \/ DropsRow(r) \/ Purges(r))
           /\ Back(q) =>
                 ~(\/ MakesAgain(r) \/ Puts(r) \/ Commits(r) \/ MovesOut(r) \/ PutsBack(r)
                   \/ Trashes(r) \/ TakesFile(r) \/ ReturnsFile(r) \/ DropsRow(r) \/ Purges(r))
           /\ Away(q) \/ pc[q] \in UploadSteps \/ (pc[q] \in Running /\ arg[q].op = "import") =>
                 ~(\/ MovesOut(r) \/ PutsBack(r) \/ Trashes(r) \/ MovesIn(r) \/ MovesOff(r)
                   \/ Revives(r))
           /\ Away(q) => ~Purges(r)
           /\ pc[q] \in Running /\ arg[q].op = "import" =>
                 ~(TakesFile(r) \/ ReturnsFile(r) \/ DropsRow(r))
           /\ pc[q] \in Running /\ arg[q].op \in Makers =>
                 ~(MovesOut(r) \/ PutsBack(r) \/ Trashes(r))
BY KindOps, Besides DEF Makers

\* A call that fails, if any, is the first of its request, and a Create's book
\* is its own.
LEMMA FaultsWork ==
    ASSUME IInv, NEW r \in Req, Work(r)
    PROVE  \/ UNCHANGED faults
           \/ faults' = [faults EXCEPT ![r] = @ + 1]
<1> USE DEF Step, Go, Fail, At
<1>1. CASE Create(r)
  BY <1>1 DEF Create, CDir, CTx, CMeta, CGet, CUnrow, CRmdir, MakeDir, Test, ForgetBook, RemoveBook
<1>2. CASE Upload(r)
  BY <1>2 DEF Upload, UCheck, UTemp, UDup, UInsert, UMkdir, URename, UCommit, UDrop, UUnplace,
              Test, MoveFile, MakeDir
<1>3. CASE Delete(r) BY <1>3 DEF Delete, DCheck, DMove, DMark, DUndo, Test, MoveBook, MarkBook
<1>4. CASE Restore(r) BY <1>4 DEF Restore, RCheck, RMove, RMark, RUndo, MoveBook, MarkBook
<1>5. CASE DeleteFile(r)
  BY <1>5 DEF DeleteFile, FCheck, FMove, FUnrow, FMkdir, FBack, Test, MoveFile, DropRows, MakeDir
<1>6. CASE Update(r) BY <1>6 DEF Update, ECheck, ETx, EMeta, Test
<1>7. CASE Import(r)
  BY <1>7 DEF Import, JNew, IParse, IFinish, PFiles, PBook, PDir, JOk, JFailed, WriteJob, DropRows,
              ForgetBook, RemoveBook
<1>8. QED BY <1>1, <1>2, <1>3, <1>4, <1>5, <1>6, <1>7 DEF Work

LEMMA CalmFaults ==
    ASSUME IInv, Quiet, NEW r \in Req, Work(r), Calm
    PROVE  \/ UNCHANGED faults
           \/ /\ faults[r] = 0 /\ faults' = [faults EXCEPT ![r] = 1] /\ faults'[r] = 1
              /\ arg[r].op # "import"
              /\ arg[r].op = "create" => \A q \in Req \ {r} : arg[q].book # r
<1>1. faults \in [Req -> 0..FaultsPerReq] /\ faults[r] \in {0, 1}
  BY DEF IInv, TypeOK, ControlTypeOK, Quiet
<1>2. CASE faults' = [faults EXCEPT ![r] = @ + 1]
  <2>1. faults'[r] = faults[r] + 1 /\ faults'[r] # faults[r] BY <1>1, <1>2
  <2>2. /\ faults[r] = 0 /\ arg[r].op # "import"
        /\ arg[r].op = "create" => \A q \in Req \ {r} : arg[q].book # r
    BY <2>1 DEF Calm
  <2>3. faults' = [faults EXCEPT ![r] = 1] BY <1>2, <2>2
  <2>4. QED BY <1>1, <2>2, <2>3
<1>3. QED BY <1>2, FaultsWork

\* A step that leaves alone what is stored, beside none that would be in its way:
\* where it comes from and where it goes.
Stays == {"u_drop", "u_unplace", "c_unrow", "c_rmdir", "d_undo", "r_undo", "f_mkdir",
          "f_back", "p_files", "p_book", "p_dir"}
Proceeds(r) ==
    /\ Rests(r)
    /\ pc[r] \notin Stays
    /\ pc'[r] \in Retreats => faults'[r] = 1
    /\ pc'[r] = "u_unplace" <=> pc[r] = "u_commit"
    /\ pc[r] \in Transit => pc'[r] \in Transit
    /\ pc'[r] = "c_rmdir" <=> pc[r] = "c_tx"
    /\ pc'[r] \notin {"p_book", "p_dir", "j_failed"}
    /\ Moved(r) => pc'[r] \in {"d_mark", "d_undo"}
    /\ Back(r) => pc'[r] \in {"r_mark", "r_undo"}
    /\ Away(r) => pc'[r] \in {"f_unrow", "f_mkdir", "f_back"}
    /\ Importing(r) /\ pc'[r] \in ImportRest => pc[r] \in ImportRest
    /\ Writing(r)' => Writing(r) \/ Active(arg[r].book)

\* A book that is active and no Delete is about has its directory.
LEMMA ActiveThere ==
    ASSUME IInv, Shelved, Company, NEW r \in Req, Work(r), Active(arg[r].book),
           arg[r].op \notin {"delete", "update"}
    PROVE  Live(arg[r].book) \in dirs
<1>1. arg[r].book \in Id BY WorkKeeps DEF Shape
<1>2. ~Leaving(arg[r].book) BY Besides DEF Leaving
<1>3. QED BY <1>1, <1>2 DEF Shelved

\* A call that fails is one that may.
LEMMA CalmFail ==
    ASSUME IInv, Quiet, NEW r \in Req, Work(r), Calm, NEW l, Fail(r, l)
    PROVE  faults[r] = 0 /\ faults'[r] = 1 /\ ~Importing(r) /\ pc' = [pc EXCEPT ![r] = l]
<1>1. faults \in [Req -> 0..FaultsPerReq] BY DEF IInv, TypeOK, ControlTypeOK
<1>2. faults'[r] # faults[r] BY <1>1 DEF Fail
<1>3. QED BY <1>2, CalmFaults DEF Fail, Importing

\* Create goes back only when a call has failed in it, and an Import goes on.
LEMMA CreateProceeds ==
    ASSUME IInv, Settling, NEW r \in Req, Create(r), Calm
    PROVE  Proceeds(r) \/ MakesBook(r) \/ WritesBook(r) \/ Forgets(r) \/ Removes(r)
<1> USE DEF Settling
<1>1. Work(r) BY DEF Work
<1>2. /\ pc[r] \in CreateSteps
      /\ arg[r].op \in Makers /\ arg[r].book = r
      /\ pc' = [pc EXCEPT ![r] = pc'[r]] /\ arg' = arg /\ pc \in [Req -> Label]
  BY <1>1, WorkKeeps, CreateEffect DEF Shape, CreateSteps, Makers, IInv
<1>3. Rests(r) \/ MakesBook(r) \/ WritesBook(r) \/ Forgets(r) \/ Removes(r)
  BY CreateKinds
<1>4. \A l : Fail(r, l) =>
          faults[r] = 0 /\ faults'[r] = 1 /\ ~Importing(r) /\ pc' = [pc EXCEPT ![r] = l]
  BY <1>1, CalmFail
<1>5. pc[r] \in {"c_unrow", "c_rmdir"} => faults[r] = 1 BY DEF Quiet, Retreats
<1>6. NotMade(r) = (IF Importing(r) THEN "j_failed" ELSE "error")
      /\ Created(r) \in {"u_check", "ok"} /\ (Created(r) = "u_check" => Importing(r))
  BY DEF NotMade, Created
<1> USE DEF Stays, Retreats, Transit, ImportRest, UpdateSteps, UploadSteps, Moved, Back, Away,
            Writing, Importing, At, Go, Step
<1>7. CASE CDir(r)
  <2>1. CASE Fail(r, NotMade(r)) BY <1>2, <1>3, <1>4, <1>6, <1>7, <2>1 DEF CDir, MakeDir, Proceeds, MakesBook, WritesBook, Forgets, Removes, Turns
  <2>2. CASE ~Fail(r, NotMade(r)) BY <1>2, <1>7, <2>2 DEF CDir, MakeDir, MakesBook, Turns, Keeps, database, catalogue
  <2>3. QED BY <2>1, <2>2
<1>8. CASE CTx(r)
  <2>1. CASE Fail(r, "c_rmdir") BY <1>2, <1>3, <1>4, <1>8, <2>1 DEF CTx, Proceeds, MakesBook, WritesBook, Forgets, Removes, Turns
  <2>2. CASE ~Fail(r, "c_rmdir") BY <1>2, <1>8, <2>2 DEF CTx, WritesBook, Turns
  <2>3. QED BY <2>1, <2>2
<1>9. ASSUME pc[r] \in {"c_meta", "c_get"} PROVE Active(r) /\ CanWriteMetadata(r)
  <2>1. Active(r) BY <1>2, <1>9 DEF Held
  <2>2. Live(r) \in dirs BY <1>1, <1>2, <2>1, ActiveThere DEF Makers
  <2>3. QED BY <2>1, <2>2 DEF Active, CanWriteMetadata
<1>10. CASE CMeta(r)
  <2>1. CASE Fail(r, "c_unrow") BY <1>2, <1>3, <1>4, <1>10, <2>1 DEF CMeta, Test, Proceeds, MakesBook, WritesBook, Forgets, Removes, Turns
  <2>2. CASE ~Fail(r, "c_unrow") BY <1>2, <1>3, <1>9, <1>10, <2>2 DEF CMeta, Test, Proceeds, MakesBook, WritesBook, Forgets, Removes, Turns
  <2>3. QED BY <2>1, <2>2
<1>11. CASE CGet(r)
  <2>1. CASE Fail(r, NotMade(r)) BY <1>2, <1>3, <1>4, <1>6, <1>11, <2>1 DEF CGet, Test, Proceeds, MakesBook, WritesBook, Forgets, Removes, Turns
  <2>2. CASE ~Fail(r, NotMade(r)) BY <1>2, <1>3, <1>6, <1>9, <1>11, <2>2 DEF CGet, Test, Proceeds, MakesBook, WritesBook, Forgets, Removes, Turns
  <2>3. QED BY <2>1, <2>2
<1>12. CASE CUnrow(r)
  <2>1. ~Fail(r, "c_rmdir") BY <1>4, <1>5, <1>12 DEF CUnrow, ForgetBook
  <2>2. QED BY <1>12, <2>1 DEF CUnrow, ForgetBook, Forgets, Turns
<1>13. CASE CRmdir(r)
  <2>1. ~Fail(r, NotMade(r)) BY <1>4, <1>5, <1>13 DEF CRmdir, RemoveBook
  <2>2. QED BY <1>13, <2>1 DEF CRmdir, RemoveBook, Removes, Turns, Keeps, database, catalogue
<1>14. QED BY <1>7, <1>8, <1>10, <1>11, <1>12, <1>13 DEF Create

LEMMA UploadProceeds ==
    ASSUME IInv, Settling, NEW r \in Req, Upload(r), Calm
    PROVE  Proceeds(r) \/ MakesAgain(r) \/ Puts(r) \/ Commits(r)
<1> USE DEF Settling
<1>1. Work(r) BY DEF Work
<1>2. /\ pc[r] \in UploadSteps /\ r \in Id
      /\ arg[r].op \in {"upload", "import"}
      /\ pc' = [pc EXCEPT ![r] = pc'[r]] /\ arg' = arg /\ pc \in [Req -> Label]
  BY <1>1, WorkKeeps, UploadEffect DEF Shape, IInv, Id
<1>3. Rests(r) \/ MakesAgain(r) \/ Puts(r) \/ Commits(r) BY UploadKinds
<1>4. \A l : Fail(r, l) =>
          faults[r] = 0 /\ faults'[r] = 1 /\ ~Importing(r) /\ pc' = [pc EXCEPT ![r] = l]
  BY <1>1, CalmFail
<1>5. Refused(r) = (IF Importing(r) THEN "p_files" ELSE "error") BY DEF Refused
<1> USE DEF Stays, Retreats, Transit, ImportRest, UpdateSteps, UploadSteps, Moved, Back, Away,
            Writing, Importing, At, Go, Step
<1>6. ASSUME Rests(r), pc[r] = "u_check",
             \/ pc'[r] = "u_temp" /\ Active(arg[r].book)
             \/ pc'[r] = Refused(r)
      PROVE  Proceeds(r)
  BY <1>2, <1>5, <1>6 DEF Proceeds, Held
<1>7. ASSUME Rests(r), \/ pc[r] = "u_temp" /\ pc'[r] = Refused(r)
                       \/ pc[r] = "u_dup" /\ pc'[r] \in {"u_insert", "u_drop"}
                       \/ pc[r] = "u_insert" /\ pc'[r] \in {"u_mkdir", "u_drop"}
                       \/ pc[r] \in {"u_mkdir", "u_rename"} /\ pc'[r] = "u_drop"
                       \/ pc[r] = "u_commit" /\ pc'[r] = "u_unplace" /\ faults'[r] = 1
      PROVE  Proceeds(r)
  BY <1>2, <1>5, <1>7 DEF Proceeds
<1>8. CASE UCheck(r) BY <1>2, <1>3, <1>5, <1>6, <1>8 DEF UCheck, Test, Fail, MakesAgain, Puts, Commits, Turns
<1>10. CASE UTemp(r)
  <2>1. PICK l \in {"u_dup", "u_drop"} :
            MoveFile(r, "u_temp", TRUE, r, Imports, l, Refused(r))
    BY <1>10 DEF UTemp
  <2>2. CASE Fail(r, Refused(r))
    BY <1>2, <1>3, <1>4, <1>5, <1>7, <2>1, <2>2 DEF MoveFile, MakesAgain, Commits, Turns
  <2>3. CASE ~Fail(r, Refused(r))
    <3>1. Imports # Live(arg[r].book) BY DEF Imports, Live
    <3>2. PutFile(r, Imports) /\ Go(r, l) /\ UNCHANGED database /\ pc[r] = "u_temp"
      BY <2>1, <2>3 DEF MoveFile
    <3>3. QED BY <1>2, <1>5, <3>1, <3>2 DEF Puts, Keeps, database, catalogue
  <2>4. QED BY <2>2, <2>3
<1>11. CASE UDup(r)
  BY <1>2, <1>3, <1>5, <1>7, <1>11 DEF UDup, Test, Fail, MakesAgain, Puts, Commits, Turns
<1>12. CASE UInsert(r)
  BY <1>2, <1>3, <1>5, <1>7, <1>12 DEF UInsert, Fail, MakesAgain, Puts, Commits, Turns
<1>13. CASE UMkdir(r)
  <2>1. CASE Fail(r, "u_drop")
    BY <1>2, <1>3, <1>5, <1>7, <1>13, <2>1 DEF UMkdir, MakeDir, Fail, MakesAgain, Puts, Commits, Turns
  <2>2. CASE ~Fail(r, "u_drop")
    BY <1>2, <1>13, <2>2 DEF UMkdir, MakeDir, MakesAgain, Turns, Keeps, database, catalogue
  <2>3. QED BY <2>1, <2>2
<1>14. CASE URename(r)
  <2>1. CASE pc' = [pc EXCEPT ![r] = "u_drop"] /\ pc[r] = "u_rename"
    BY <1>2, <1>3, <1>5, <1>7, <2>1 DEF Rests, MakesAgain, Puts, Commits, Turns, URename, MoveFile, Fail
  <2>2. CASE ~(pc' = [pc EXCEPT ![r] = "u_drop"])
    BY <1>2, <1>5, <1>14, <2>2 DEF URename, MoveFile, Fail, Puts, Keeps, database, catalogue
  <2>3. QED BY <1>14, <2>1, <2>2 DEF URename, MoveFile
<1>15. CASE UCommit(r)
  <2>1. CASE pc' = [pc EXCEPT ![r] = Uploaded(r)]
    BY <1>15, <1>2, <2>1 DEF UCommit, Commits, Turns, Uploaded
  <2>2. CASE faults[r] < FaultsPerReq /\ faults' = [faults EXCEPT ![r] = @ + 1] /\ pc' = [pc EXCEPT ![r] = "u_unplace"]
    <3>1. faults \in [Req -> 0..FaultsPerReq] BY DEF IInv, TypeOK, ControlTypeOK
    <3>2. faults'[r] # faults[r] BY <2>2, <3>1
    <3>3. faults'[r] = 1 BY <1>1, <3>2, CalmFaults
    <3>4. QED
      BY <1>2, <1>3, <1>5, <1>7, <1>15, <2>2, <3>3 DEF UCommit, MakesAgain, Puts, Commits, Turns, Uploaded
  <2>3. QED BY <1>15, <2>1, <2>2 DEF UCommit
<1>16. CASE UDrop(r)
  <2>1. Nowhere # Live(arg[r].book) BY DEF Nowhere, Live
  <2>2. QED BY <1>2, <1>5, <1>16, <2>1 DEF UDrop, Puts, Keeps, catalogue
<1>17. CASE UUnplace(r)
  <2>1. Nowhere # Live(arg[r].book) BY DEF Nowhere, Live
  <2>2. at[r] = Live(arg[r].book) BY <1>17 DEF UUnplace, MoveFile, Filed
  <2>3. ~Fail(r, Refused(r))
    BY <1>4, <1>17 DEF UUnplace, MoveFile, Quiet
  <2>4. QED
    BY <1>2, <1>5, <1>17, <2>1, <2>2, <2>3
    DEF UUnplace, MoveFile, Puts, Keeps, database, catalogue
<1>18. QED
  BY <1>8, <1>10, <1>11, <1>12, <1>13, <1>14, <1>15, <1>16, <1>17 DEF Upload

LEMMA DeleteProceeds ==
    ASSUME IInv, Orderly, Ordered, Settling, NEW r \in Req, Delete(r), Calm
    PROVE  Proceeds(r) \/ MovesOut(r) \/ PutsBack(r) \/ Trashes(r)
<1> USE DEF Settling
<1>1. Work(r) BY DEF Work
<1>2. /\ pc[r] \in DeleteSteps
      /\ arg[r].op = "delete"
      /\ pc' = [pc EXCEPT ![r] = pc'[r]] /\ arg' = arg /\ pc \in [Req -> Label]
  BY <1>1, WorkKeeps, DeleteEffect DEF Shape, IInv
<1>3. Rests(r) \/ MovesOut(r) \/ PutsBack(r) \/ Trashes(r) BY DeleteKinds
<1>4. \A l : Fail(r, l) =>
          faults[r] = 0 /\ faults'[r] = 1 /\ ~Importing(r) /\ pc' = [pc EXCEPT ![r] = l]
  BY <1>1, CalmFail
<1> USE DEF Stays, Retreats, Transit, ImportRest, UpdateSteps, UploadSteps, Moved, Back, Away,
            Writing, Importing, At, Go, Step
<1>5. ASSUME Rests(r), \/ pc[r] = "d_check" /\ pc'[r] \in {"d_move", "error"}
                       \/ pc[r] = "d_move" /\ pc'[r] = "error"
                       \/ pc[r] = "d_mark" /\ pc'[r] = "d_undo" /\ faults'[r] = 1
      PROVE  Proceeds(r)
  BY <1>2, <1>5 DEF Proceeds
<1>6. CASE DCheck(r)
  BY <1>2, <1>3, <1>5, <1>6 DEF DCheck, Test, Fail, MovesOut, PutsBack, Trashes, Turns
<1>7. CASE DMove(r)
  <2>1. CASE pc' = [pc EXCEPT ![r] = "error"]
    BY <1>2, <1>3, <1>5, <1>7, <2>1 DEF DMove, MoveBook, MovesOut, PutsBack, Trashes, Turns
  <2>2. CASE ~(pc' = [pc EXCEPT ![r] = "error"])
    BY <1>7, <2>2 DEF DMove, MoveBook, Fail, MovesOut, Turns, Keeps, database, catalogue
  <2>3. QED BY <2>1, <2>2
<1>8. CASE DMark(r)
  <2>1. CASE Fail(r, "d_undo")
    BY <1>2, <1>3, <1>4, <1>5, <1>8, <2>1 DEF DMark, MarkBook, MovesOut, PutsBack, Trashes, Turns
  <2>2. CASE ~Fail(r, "d_undo") BY <1>8, <2>2 DEF DMark, MarkBook, Trashes, Marks, Turns
  <2>3. QED BY <2>1, <2>2
<1>9. CASE DUndo(r)
  <2>1. ~Fail(r, "error") BY <1>4, <1>9 DEF DUndo, MoveBook, Quiet
  <2>2. CanMoveDir(Slot(r), Live(arg[r].book))
    BY <1>9 DEF DUndo, MoveBook, Ordered, DeletesAlone, Binned, CanMoveDir
  <2>3. QED BY <1>9, <2>1, <2>2 DEF DUndo, MoveBook, PutsBack, Turns, Keeps, database, catalogue
<1>10. QED BY <1>6, <1>7, <1>8, <1>9 DEF Delete

LEMMA RestoreProceeds ==
    ASSUME IInv, Ordered, Settling, NEW r \in Req, Restore(r), Calm
    PROVE  Proceeds(r) \/ MovesIn(r) \/ MovesOff(r) \/ Revives(r)
<1> USE DEF Settling
<1>1. Work(r) BY DEF Work
<1>2. /\ pc[r] \in RestoreSteps
      /\ arg[r].op = "restore"
      /\ pc' = [pc EXCEPT ![r] = pc'[r]] /\ arg' = arg /\ pc \in [Req -> Label]
  BY <1>1, WorkKeeps, RestoreEffect DEF Shape, IInv
<1>3. Rests(r) \/ MovesIn(r) \/ MovesOff(r) \/ Revives(r) BY RestoreKinds
<1>4. \A l : Fail(r, l) =>
          faults[r] = 0 /\ faults'[r] = 1 /\ ~Importing(r) /\ pc' = [pc EXCEPT ![r] = l]
  BY <1>1, CalmFail
<1> USE DEF Stays, Retreats, Transit, ImportRest, UpdateSteps, UploadSteps, Moved, Back, Away,
            Writing, Importing, At, Go, Step
<1>5. ASSUME Rests(r), \/ pc[r] = "r_check" /\ pc'[r] \in {"r_move", "error"}
                       \/ pc[r] = "r_move" /\ pc'[r] = "error"
                       \/ pc[r] = "r_mark" /\ pc'[r] = "r_undo" /\ faults'[r] = 1
      PROVE  Proceeds(r)
  BY <1>2, <1>5 DEF Proceeds
<1>6. CASE RCheck(r)
  BY <1>2, <1>3, <1>5, <1>6 DEF RCheck, Fail, MovesIn, MovesOff, Revives, Turns
<1>7. CASE RMove(r)
  <2>1. CASE pc' = [pc EXCEPT ![r] = "error"]
    BY <1>2, <1>3, <1>5, <1>7, <2>1 DEF RMove, MoveBook, MovesIn, MovesOff, Revives, Turns
  <2>2. CASE ~(pc' = [pc EXCEPT ![r] = "error"])
    BY <1>7, <2>2 DEF RMove, MoveBook, Fail, MovesIn, Turns, Keeps, database, catalogue
  <2>3. QED BY <2>1, <2>2
<1>8. CASE RMark(r)
  <2>1. CASE Fail(r, "r_undo")
    BY <1>2, <1>3, <1>4, <1>5, <1>8, <2>1 DEF RMark, MarkBook, MovesIn, MovesOff, Revives, Turns
  <2>2. CASE ~Fail(r, "r_undo") BY <1>8, <2>2 DEF RMark, MarkBook, Revives, Marks, Turns
  <2>3. QED BY <2>1, <2>2
<1>9. CASE RUndo(r)
  <2>1. ~Fail(r, "error") BY <1>4, <1>9 DEF RUndo, MoveBook, Quiet
  <2>2. CanMoveDir(Live(arg[r].book), seen[r])
    BY <1>9 DEF RUndo, MoveBook, Ordered, RestoresAlone, CanMoveDir
  <2>3. QED BY <1>9, <2>1, <2>2 DEF RUndo, MoveBook, MovesOff, Turns, Keeps, database, catalogue
<1>10. QED BY <1>6, <1>7, <1>8, <1>9 DEF Restore

LEMMA DeleteFileProceeds ==
    ASSUME IInv, Settling, NEW r \in Req, DeleteFile(r), Calm
    PROVE  Proceeds(r) \/ MakesAgain(r) \/ TakesFile(r) \/ ReturnsFile(r) \/ DropsRow(r)
<1> USE DEF Settling
<1>1. Work(r) BY DEF Work
<1>2. /\ pc[r] \in FileSteps
      /\ arg[r].op = "delete_file"
      /\ pc' = [pc EXCEPT ![r] = pc'[r]] /\ arg' = arg /\ pc \in [Req -> Label]
  BY <1>1, WorkKeeps, DeleteFileEffect DEF Shape, IInv
<1>3. Rests(r) \/ MakesAgain(r) \/ TakesFile(r) \/ ReturnsFile(r) \/ DropsRow(r)
  BY DeleteFileKinds
<1>4. \A l : Fail(r, l) =>
          faults[r] = 0 /\ faults'[r] = 1 /\ ~Importing(r) /\ pc' = [pc EXCEPT ![r] = l]
  BY <1>1, CalmFail
<1> USE DEF Stays, Retreats, Transit, ImportRest, UpdateSteps, UploadSteps, Moved, Back, Away,
            Writing, Importing, At, Go, Step
<1>5. ASSUME Rests(r), \/ pc[r] = "f_check" /\ pc'[r] \in {"f_move", "error"}
                       \/ pc[r] = "f_move" /\ pc'[r] = "error"
                       \/ pc[r] = "f_unrow" /\ pc'[r] = "f_mkdir" /\ faults'[r] = 1
      PROVE  Proceeds(r)
  BY <1>2, <1>5 DEF Proceeds
<1>6. CASE FCheck(r)
  BY <1>2, <1>3, <1>5, <1>6
  DEF FCheck, Test, Fail, MakesAgain, TakesFile, ReturnsFile, DropsRow, Turns
<1>7. CASE FMove(r)
  <2>1. CASE pc' = [pc EXCEPT ![r] = "error"]
    BY <1>2, <1>3, <1>5, <1>7, <2>1
    DEF FMove, MoveFile, MakesAgain, TakesFile, ReturnsFile, DropsRow, Turns
  <2>2. CASE ~(pc' = [pc EXCEPT ![r] = "error"])
    BY <1>7, <2>2 DEF FMove, MoveFile, Fail, TakesFile, Turns, Keeps, database, catalogue
  <2>3. QED BY <2>1, <2>2
<1>8. CASE FUnrow(r)
  <2>1. CASE Fail(r, "f_mkdir")
    BY <1>2, <1>3, <1>4, <1>5, <1>8, <2>1
    DEF FUnrow, DropRows, MakesAgain, TakesFile, ReturnsFile, DropsRow, Turns
  <2>2. CASE ~Fail(r, "f_mkdir") BY <1>8, <2>2 DEF FUnrow, DropRows, DropsRow, Turns
  <2>3. QED BY <2>1, <2>2
<1>9. CASE FMkdir(r)
  <2>1. ~Fail(r, "error") BY <1>4, <1>9 DEF FMkdir, MakeDir, Quiet
  <2>2. QED BY <1>9, <2>1 DEF FMkdir, MakeDir, MakesAgain, Turns, Keeps, database, catalogue
<1>10. CASE FBack(r)
  <2>1. ~Fail(r, "error") BY <1>4, <1>10 DEF FBack, MoveFile, Quiet
  <2>2. Active(arg[r].book) BY <1>10 DEF FBack, MoveFile, Held
  <2>3. Live(arg[r].book) \in dirs BY <1>1, <1>2, <2>2, ActiveThere
  <2>4. QED BY <1>10, <2>1, <2>3 DEF FBack, MoveFile, ReturnsFile, Turns, Keeps, database, catalogue
<1>11. QED BY <1>6, <1>7, <1>8, <1>9, <1>10 DEF DeleteFile

LEMMA UpdateProceeds ==
    ASSUME IInv, Settling, NEW r \in Req, Update(r), Calm PROVE Proceeds(r)
<1>1. Work(r) BY DEF Work
<1>2. /\ pc[r] \in UpdateSteps
      /\ arg[r].op \in {"update", "import"}
      /\ pc' = [pc EXCEPT ![r] = pc'[r]] /\ arg' = arg /\ pc \in [Req -> Label]
      /\ pc'[r] \in {"e_tx", "e_meta", Updated(r), Refused(r)}
  <2>1. /\ pc[r] \in UpdateSteps /\ Shape(r)
        /\ pc' = [pc EXCEPT ![r] = pc'[r]] /\ arg' = arg /\ pc \in [Req -> Label]
    BY <1>1, WorkKeeps, UpdateEffect DEF IInv
  <2>2. QED BY <2>1 DEF Shape, Update, ECheck, ETx, EMeta, Test, At, Go, Step, Fail
<1>3. Rests(r) BY UpdateKinds
<1>4. /\ Refused(r) = (IF Importing(r) THEN "p_files" ELSE "error")
      /\ Updated(r) = (IF Importing(r) THEN "i_finish" ELSE "ok")
  BY DEF Refused, Updated
<1>5. QED
  BY <1>2, <1>3, <1>4
  DEF Proceeds, Stays, Retreats, Transit, ImportRest, UpdateSteps, UploadSteps, Moved, Back, Away,
      Writing, Importing

LEMMA ImportProceeds ==
    ASSUME IInv, Settling, NEW r \in Req, Import(r), Calm
    PROVE  Proceeds(r) \/ Purges(r) \/ Forgets(r) \/ Removes(r)
<1> USE DEF Settling
<1>1. Work(r) BY DEF Work
<1>2. /\ pc[r] \in ImportSteps
      /\ arg[r].op = "import" /\ arg[r].book = r
      /\ pc' = [pc EXCEPT ![r] = pc'[r]] /\ arg' = arg /\ pc \in [Req -> Label]
  BY <1>1, WorkKeeps, ImportEffect DEF Shape, IInv
<1>3. Rests(r) \/ Purges(r) \/ Forgets(r) \/ Removes(r) BY ImportKinds
<1>4. \A l : ~Fail(r, l) BY <1>1, <1>2, CalmFail DEF Importing
<1> USE DEF Stays, Retreats, Transit, ImportRest, UpdateSteps, UploadSteps, Moved, Back, Away,
            Writing, Importing, At, Go, Step
<1>5. ASSUME Rests(r), \/ pc[r] = "j_new" /\ pc'[r] = "c_dir"
                       \/ pc[r] = "i_parse" /\ pc'[r] \in {"e_check", "p_files"}
                       \/ pc[r] = "i_finish" /\ pc'[r] \in {"j_ok", "p_files"}
                       \/ pc[r] = "j_ok" /\ pc'[r] = "ok"
                       \/ pc[r] = "j_failed" /\ pc'[r] = "error"
      PROVE  Proceeds(r)
  BY <1>2, <1>5 DEF Proceeds
<1>6. CASE JNew(r)
  BY <1>2, <1>3, <1>4, <1>5, <1>6 DEF JNew, WriteJob, Purges, Forgets, Removes, Turns
<1>7. CASE IParse(r)
  BY <1>2, <1>3, <1>5, <1>7 DEF IParse, Purges, Forgets, Removes, Turns
<1>8. CASE IFinish(r)
  <2>1. pc[r] = "i_finish" /\ Active(r) BY <1>2, <1>8 DEF IFinish, Held
  <2>2. QED
    BY <1>2, <1>3, <1>4, <1>5, <1>8, <2>1 DEF IFinish, Purges, Forgets, Removes, Turns
<1>9. CASE PFiles(r) BY <1>4, <1>9 DEF PFiles, DropRows, Purges, Turns
<1>10. CASE PBook(r) BY <1>4, <1>10 DEF PBook, ForgetBook, Forgets, Turns
<1>11. CASE PDir(r)
  BY <1>4, <1>11 DEF PDir, RemoveBook, Removes, Turns, Keeps, database, catalogue
<1>12. CASE JOk(r)
  BY <1>2, <1>3, <1>4, <1>5, <1>12 DEF JOk, WriteJob, Purges, Forgets, Removes, Turns
<1>13. CASE JFailed(r)
  BY <1>2, <1>3, <1>4, <1>5, <1>13 DEF JFailed, WriteJob, Purges, Forgets, Removes, Turns
<1>14. QED
  BY <1>6, <1>7, <1>8, <1>9, <1>10, <1>11, <1>12, <1>13 DEF Import

\* A step of a handler proceeds, or is of one of the kinds.
LEMMA WorkProceeds ==
    ASSUME IInv, Orderly, Ordered, Settling, NEW r \in Req, Work(r), Calm
    PROVE  \/ Proceeds(r) \/ MakesBook(r) \/ MakesAgain(r) \/ WritesBook(r) \/ Forgets(r)
           \/ Removes(r) \/ Puts(r) \/ Commits(r) \/ MovesOut(r) \/ PutsBack(r)
           \/ Trashes(r) \/ Revives(r) \/ MovesIn(r) \/ MovesOff(r) \/ TakesFile(r)
           \/ ReturnsFile(r) \/ DropsRow(r) \/ Purges(r)
BY CreateProceeds, UploadProceeds, DeleteProceeds, RestoreProceeds, DeleteFileProceeds,
   UpdateProceeds, ImportProceeds DEF Work

\* Who is in flight together stays so, and nobody joins by a step.
LEMMA CompanyWork == ASSUME IInv, Company, NEW r \in Req, Work(r) PROVE Company'
<1>1. /\ arg' = arg /\ pc[r] \in Running /\ \A q \in Req : q # r => pc'[q] = pc[q]
  BY WorkKeeps
<1>2. InFlight' \subseteq InFlight BY <1>1 DEF InFlight
<1>3. QED BY <1>1, <1>2 DEF Company

\* What a request takes back, it takes back because a call has failed in it.
LEMMA QuietWork ==
    ASSUME IInv, Orderly, Ordered, Settling, NEW r \in Req, Work(r), Calm PROVE Quiet'
<1> USE DEF Settling
<1>1. /\ Shape(r) /\ pc[r] \in Running /\ arg' = arg /\ pc \in [Req -> Label]
      /\ pc' = [pc EXCEPT ![r] = pc'[r]] /\ pc'[r] # "idle"
      /\ \A q \in Req : q # r => pc'[q] = pc[q]
  BY WorkKeeps
<1>2. Shapes' BY ShapesWork DEF IInv
<1>3. faults \in [Req -> 0..FaultsPerReq] BY DEF IInv, TypeOK, ControlTypeOK
<1>4. \/ UNCHANGED faults
      \/ /\ faults[r] = 0 /\ faults' = [faults EXCEPT ![r] = 1] /\ faults'[r] = 1
         /\ arg[r].op # "import"
         /\ arg[r].op = "create" => \A q \in Req \ {r} : arg[q].book # r
  BY CalmFaults
<1>5. ASSUME NEW q \in Req, q # r
      PROVE  /\ faults'[q] \in {0, 1}
             /\ pc'[q] \in Retreats => faults'[q] = 1
             /\ pc'[q] = "idle" \/ arg'[q].op = "import" => faults'[q] = 0
             /\ pc'[q] \in CreateSteps /\ faults'[q] = 1 =>
                   \A p \in Req \ {q} : arg'[p].book # q
  <2>1. faults'[q] = faults[q] BY <1>3, <1>4, <1>5
  <2>2. QED BY <1>1, <1>5, <2>1 DEF Quiet
<1>6. faults'[r] \in {0, 1} /\ (arg'[r].op = "import" => faults'[r] = 0)
  BY <1>1, <1>4 DEF Quiet
<1>7. pc'[r] \in Retreats => faults'[r] = 1
  <2>1. CASE Proceeds(r) BY <2>1 DEF Proceeds
  <2>2. CASE Forgets(r) \/ MakesAgain(r)
    BY <1>1, <1>4, <2>2 DEF Forgets, MakesAgain, Turns, Quiet, Retreats
  <2>3. CASE Puts(r) BY <2>3 DEF Puts, Refused, Retreats
  <2>4. CASE ~(Proceeds(r) \/ Forgets(r) \/ MakesAgain(r) \/ Puts(r))
    BY <1>1, <2>4, WorkProceeds
    DEF MakesBook, WritesBook, Removes, Commits, MovesOut, PutsBack, Trashes, Revives, MovesIn,
        MovesOff, TakesFile, ReturnsFile, DropsRow, Purges, Turns, NotMade, Uploaded, Retreats
  <2>5. QED BY <2>1, <2>2, <2>3, <2>4
<1>8. ASSUME pc'[r] \in CreateSteps, faults'[r] = 1
      PROVE  \A q \in Req \ {r} : arg'[q].book # r
  <2>1. arg[r].op = "create"
    <3>1. Shape(r)' BY <1>1, <1>2 DEF Shapes
    <3>2. QED BY <1>1, <1>6, <1>8, <3>1 DEF Shape
  <2>2. pc[r] \in CreateSteps
    BY <1>1, <2>1 DEF Shape, Running
  <2>3. QED BY <1>1, <1>4, <1>8, <2>1, <2>2 DEF Quiet
<1>9. QED
  <2>1. ASSUME NEW q \in Req
        PROVE  /\ faults'[q] \in {0, 1}
               /\ pc'[q] \in Retreats => faults'[q] = 1
               /\ pc'[q] = "idle" \/ arg'[q].op = "import" => faults'[q] = 0
               /\ pc'[q] \in CreateSteps /\ faults'[q] = 1 =>
                     \A p \in Req \ {q} : arg'[p].book # q
    BY <1>1, <1>5, <1>6, <1>7, <1>8
  <2>2. QED BY <2>1 DEF Quiet

\* A book somebody writes to stays active.
LEMMA HeldWork ==
    ASSUME IInv, Orderly, Ordered, Settling, NEW r \in Req, Work(r), Calm PROVE Held'
<1> USE DEF Settling
<1>1. /\ Shape(r) /\ pc[r] \in Running /\ arg' = arg /\ pc \in [Req -> Label]
      /\ pc' = [pc EXCEPT ![r] = pc'[r]] /\ arg[r].book \in Id
      /\ \A q \in Req : q # r => pc'[q] = pc[q]
  BY WorkKeeps DEF Shape
<1>2. ASSUME NEW q \in Req, q # r, Writing(q) PROVE status'[arg[q].book] = "active"
  <2>1. Active(arg[q].book) BY <1>2 DEF Held
  <2>2. /\ pc[q] \in Running
        /\ arg[q].op \in {"create", "import", "upload", "delete_file", "delete"}
        /\ Shape(q) /\ arg[q].book \in Id
        /\ arg[q].op = "delete" => Moved(q)
    BY <1>2, LabelOps
    DEF Writing, Shape, Running, CreateSteps, UploadSteps, UpdateSteps, ImportSteps, ImportRest,
        Importing, Makers
  <2>3. ~(Forgets(r) /\ arg[q].book = r)
    <3>1. ASSUME Forgets(r), arg[q].book = r PROVE FALSE
      <4>1. CASE pc[r] = "c_unrow"
        BY <1>2, <3>1, <4>1 DEF Quiet, Retreats, CreateSteps
      <4>2. CASE pc[r] = "p_book"
        <5>1. pc[r] \in Running /\ arg[r].op = "import" BY <1>1, <4>2 DEF Shape, ImportSteps
        <5>2. arg[q].op \in {"create", "import", "update"}
          <6>1. q \in InFlight /\ r \in InFlight BY <2>2, <5>1 DEF InFlight
          <6>2. QED BY <5>1, <6>1 DEF Company, Beside, AllOps
        <5>3. QED BY <1>2, <2>2, <3>1, <5>2 DEF Shape
      <4>3. QED BY <3>1, <4>1, <4>2 DEF Forgets, Turns
    <3>2. QED BY <3>1
  <2>4. ~(Trashes(r) /\ arg[q].book = arg[r].book)
    <3>1. ASSUME Trashes(r), arg[q].book = arg[r].book PROVE FALSE
      <4>1. arg[r].op = "delete" /\ Moved(r) BY <3>1, KindOps DEF Trashes, Turns, Moved
      <4>2. arg[q].op \in {"delete", "update"}
        <5>1. q \in InFlight /\ r \in InFlight BY <1>1, <2>2 DEF InFlight
        <5>2. QED BY <4>1, <5>1 DEF Company, Beside, AllOps
      <4>3. QED BY <1>2, <2>2, <3>1, <4>1, <4>2 DEF Ordered, DeletesAlone
    <3>2. QED BY <3>1
  <2>5. QED BY <2>1, <2>2, <2>3, <2>4, StatusWork DEF Active
<1>3. ASSUME Writing(r)' PROVE status'[arg[r].book] = "active"
  <2>1. ~(Forgets(r) \/ Trashes(r))
    BY <1>1, <1>3
    DEF Forgets, Trashes, Turns, Writing, Away, Moved, Importing, UploadSteps, UpdateSteps,
        ImportRest
  <2>2. Active(arg[r].book) => status'[arg[r].book] = "active"
    BY <1>1, <2>1, StatusWork DEF Active
  <2>3. CASE WritesBook(r)
    <3>1. arg[r].book = r BY <2>3, KindOps
    <3>2. status \in [Id -> {"absent", "active", "trashed"}] /\ r \in Id
      BY DEF IInv, TypeOK, DatabaseTypeOK, Id
    <3>3. QED BY <2>3, <3>1, <3>2 DEF WritesBook
  <2>4. CASE Proceeds(r) BY <1>3, <2>2, <2>4 DEF Proceeds, Held
  <2>5. CASE MovesOut(r) \/ TakesFile(r)
    <3>1. Live(arg[r].book) \in dirs
      <4>1. CASE MovesOut(r) BY <4>1 DEF MovesOut, CanMoveDir
      <4>2. CASE TakesFile(r)
        <5>1. arg[r].file \in Id BY <1>1, <4>2, KindOps DEF Shape
        <5>2. at[arg[r].file] \in Dir BY <1>1, <4>2 DEF TakesFile, Dir, LiveDirs
        <5>3. QED BY <4>2, <5>1, <5>2 DEF TakesFile, Orderly, Housed
      <4>3. QED BY <2>5, <4>1, <4>2
    <3>2. ~Coming(arg[r].book)
      BY <2>5, BesidesKinds DEF Coming
    <3>3. ~Building(arg[r].book)
      <4>1. ASSUME NEW b \in Req, b = arg[r].book, Building(b) PROVE FALSE
        <5>1. arg[r].op \in {"delete", "delete_file"} /\ b # r
          BY <2>5, <4>1, KindOps, LabelOps DEF Makers
        <5>2. pc[b] \in Running /\ arg[b].op \in Makers BY <4>1, LabelOps
        <5>3. arg[r].op = "delete_file" BY <2>5, <5>1, <5>2, BesidesKinds, KindOps
        <5>4. arg[b].op = "create" BY <5>2, <5>3, Besides DEF Makers
        <5>5. pc[b] \in {"c_tx", "c_rmdir"}
          BY <4>1, <5>4, LabelOps DEF Building, Purging
        <5>6. CASE pc[b] = "c_tx"
          BY <1>1, <4>1, <5>1, <5>6 DEF Orderly, Births, Unborn, Makers, Running, CreateSteps,
             UploadSteps, DeleteSteps, RestoreSteps, FileSteps, UpdateSteps, ImportSteps
        <5>7. CASE pc[b] = "c_rmdir"
          BY <4>1, <5>1, <5>7 DEF Quiet, Retreats, CreateSteps
        <5>8. QED BY <5>5, <5>6, <5>7
      <4>2. QED BY <4>1 DEF Building
    <3>4. QED BY <1>1, <2>2, <3>1, <3>2, <3>3 DEF Shelved
  <2>6. CASE MakesAgain(r) \/ Puts(r) \/ Commits(r) \/ Purges(r)
    <3>1. Writing(r)
      BY <2>6, KindOps
      DEF MakesAgain, Puts, Commits, Purges, Turns, Writing, Away, UploadSteps, Importing
    <3>2. QED BY <2>2, <3>1 DEF Held
  <2>7. CASE MakesBook(r) \/ Removes(r) \/ PutsBack(r) \/ Revives(r) \/ MovesIn(r)
               \/ MovesOff(r) \/ ReturnsFile(r) \/ DropsRow(r)
    BY <1>1, <1>3, <2>7
    DEF MakesBook, Removes, PutsBack, Revives, MovesIn, MovesOff, ReturnsFile, DropsRow, Turns,
        Writing, Away, Moved, Importing, UploadSteps, UpdateSteps, ImportRest, NotMade
  <2>8. QED BY <2>1, <2>3, <2>4, <2>5, <2>6, <2>7, WorkProceeds
<1>4. ASSUME NEW q \in Req, Writing(q)' PROVE status'[arg[q].book] = "active"
  <2>1. CASE q = r BY <1>3, <1>4, <2>1
  <2>2. CASE q # r BY <1>1, <1>2, <1>4, <2>2 DEF Writing, Away, Moved, Importing
  <2>3. QED BY <2>1, <2>2
<1>5. QED BY <1>1, <1>4 DEF Held, Active

\* A step is about one book: of the others nothing changes on the shelves.
LEMMA OthersStay ==
    ASSUME IInv, NEW r \in Req, Work(r), NEW b \in Id, b # arg[r].book
    PROVE  /\ status'[b] = status[b] /\ trashPath'[b] = trashPath[b]
           /\ Live(b) \in dirs' <=> Live(b) \in dirs
           /\ Leaving(b)' <=> Leaving(b)
           /\ Coming(b)' <=> Coming(b)
           /\ Building(b)' <=> Building(b)
           /\ \A p : SlotOf(p, b) => (p \in dirs' <=> p \in dirs)
<1>1. /\ Shape(r) /\ arg' = arg /\ pc \in [Req -> Label]
      /\ pc' = [pc EXCEPT ![r] = pc'[r]] /\ arg[r].book \in Id /\ pc'[r] # "idle"
      /\ \A q \in Req : q # r => pc'[q] = pc[q]
  BY WorkKeeps DEF Shape
<1>2. b = r => arg[r].op \notin Makers BY <1>1 DEF Shape, Makers
<1>3. Leaving(b)' <=> Leaving(b)
  <2>1. \A d \in Req : (Moved(d) /\ arg[d].book = b)' <=> Moved(d) /\ arg[d].book = b
    BY <1>1 DEF Moved
  <2>2. QED BY <2>1 DEF Leaving
<1>4. Coming(b)' <=> Coming(b)
  <2>1. \A d \in Req : (Back(d) /\ arg[d].book = b)' <=> Back(d) /\ arg[d].book = b
    BY <1>1 DEF Back
  <2>2. QED BY <2>1 DEF Coming
<1>5. Building(b)' <=> Building(b)
  <2>1. Shape(r)' BY <1>1, ShapesWork DEF IInv, Shapes
  <2>2. QED BY <1>1, <1>2, <2>1 DEF Building, Shape, CreateSteps, ImportSteps, Makers
<1>6. /\ status \in [Id -> {"absent", "active", "trashed"}]
      /\ trashPath \in [Id -> Slots \cup {Nowhere}]
  BY DEF IInv, TypeOK, DatabaseTypeOK
<1>7. status'[b] = status[b] /\ trashPath'[b] = trashPath[b]
  <2>1. CASE WritesBook(r) \/ Forgets(r)
    <3>1. b # r BY <1>2, <2>1, KindOps
    <3>2. QED BY <1>6, <2>1, <3>1 DEF WritesBook, Forgets
  <2>2. CASE Trashes(r) \/ Revives(r) BY <1>1, <1>6, <2>2 DEF Trashes, Revives, Marks
  <2>3. CASE ~(WritesBook(r) \/ Forgets(r) \/ Trashes(r) \/ Revives(r))
    BY <2>3, WorkKinds
    DEF Kinds, Rests, stored, MakesBook, MakesAgain, Removes, Puts, Commits, MovesOut, PutsBack,
        MovesIn, MovesOff, TakesFile, ReturnsFile, DropsRow, Purges, Keeps
  <2>4. QED BY <2>1, <2>2, <2>3
<1>8. /\ Live(b) \in dirs' <=> Live(b) \in dirs
      /\ \A p : SlotOf(p, b) => (p \in dirs' <=> p \in dirs)
  <2>1. /\ Live(b) # Live(arg[r].book)
        /\ \A p : SlotOf(p, arg[r].book) => p # Live(b) /\ ~SlotOf(p, b)
        /\ \A p : SlotOf(p, b) => p # Live(arg[r].book)
    BY PathsDiffer DEF SlotOf
  <2>2. \/ UNCHANGED dirs
        \/ dirs' = dirs \cup {Live(arg[r].book)}
        \/ dirs' = dirs \ {Live(arg[r].book)}
        \/ \E p : /\ SlotOf(p, arg[r].book)
                  /\ \/ dirs' = (dirs \ {Live(arg[r].book)}) \cup {p}
                     \/ dirs' = (dirs \ {p}) \cup {Live(arg[r].book)}
    <3>1. CASE \E p \in Slots : /\ SlotOf(p, arg[r].book)
                                /\ \/ MoveDir(Live(arg[r].book), p)
                                   \/ MoveDir(p, Live(arg[r].book))
      BY <3>1 DEF MoveDir
    <3>2. CASE Removes(r) /\ arg[r].book = r BY <3>2 DEF Removes, RemoveDir
    <3>3. CASE Puts(r) \/ TakesFile(r) \/ ReturnsFile(r)
      BY <3>3 DEF Puts, TakesFile, ReturnsFile, PutFile
    <3>4. QED BY <3>1, <3>2, <3>3, DiskKinds
  <2>3. QED BY <2>1, <2>2
<1>9. QED BY <1>3, <1>4, <1>5, <1>7, <1>8

\* Every book directory has its reason.
LEMMA ShelvedWork ==
    ASSUME IInv, Orderly, Ordered, Settling, NEW r \in Req, Work(r), Calm PROVE Shelved'
<1> USE DEF Settling
<1>1. /\ Shape(r) /\ pc[r] \in Running /\ arg' = arg /\ pc \in [Req -> Label]
      /\ pc' = [pc EXCEPT ![r] = pc'[r]] /\ arg[r].book \in Id /\ r \in Id
      /\ \A q \in Req : q # r => pc'[q] = pc[q]
  BY WorkKeeps DEF Shape, Id
<1>2. /\ status \in [Id -> {"absent", "active", "trashed"}]
      /\ trashPath \in [Id -> Slots \cup {Nowhere}]
  BY DEF IInv, TypeOK, DatabaseTypeOK
<1>0. PICK b : b = arg[r].book  OBVIOUS
<1> DEFINE here == Live(b) \in dirs
           away == \E d \in Req \ {r} : Moved(d) /\ arg[d].book = b
           back == \E d \in Req \ {r} : Back(d) /\ arg[d].book = b
           made == b # r /\ Building(b)
           own(l) == b = r /\ l \in {"c_tx", "c_rmdir", "p_dir"}
           out(l) == l \in {"d_mark", "d_undo"}
           in(l)  == l \in {"r_mark", "r_undo"}
<1>3. /\ Leaving(b) <=> away \/ out(pc[r])
      /\ Coming(b) <=> back \/ in(pc[r])
      /\ Building(b) <=> made \/ own(pc[r])
  BY <1>0 DEF Leaving, Coming, Building, Moved, Back
<1>4. /\ Leaving(b)' <=> away \/ out(pc'[r])
      /\ Coming(b)' <=> back \/ in(pc'[r])
      /\ Building(b)' <=> made \/ own(pc'[r])
  <2>1. Leaving(b)' <=> away \/ out(pc'[r]) BY <1>0, <1>1 DEF Leaving, Moved
  <2>2. Coming(b)' <=> back \/ in(pc'[r]) BY <1>0, <1>1 DEF Coming, Back
  <2>3. Building(b)' <=> made \/ own(pc'[r]) BY <1>1 DEF Building
  <2>4. QED BY <2>1, <2>2, <2>3
<1>5. /\ here <=> (Active(b) /\ ~(away \/ out(pc[r]))) \/ made \/ own(pc[r]) \/ back \/ in(pc[r])
      /\ made \/ own(pc[r]) => status[b] = "absent"
  BY <1>0, <1>1, <1>3 DEF Shelved, here
<1>6. /\ away => Active(b) /\ ~here
      /\ out(pc[r]) => Active(b) /\ ~here /\ ~away
      /\ back => Trashed(b) /\ here
      /\ in(pc[r]) => Trashed(b) /\ here /\ ~back
  BY <1>0 DEF Ordered, DeletesAlone, RestoresAlone, Moved, Back, Held, Writing, here, away, back
<1> HIDE DEF here, away, back, made
<1>7. /\ away =>
            ~(\/ MakesBook(r) \/ MakesAgain(r) \/ WritesBook(r) \/ Forgets(r) \/ Removes(r)
              \/ Puts(r) \/ Commits(r) \/ MovesIn(r) \/ MovesOff(r) \/ Revives(r)
              \/ TakesFile(r) \/ ReturnsFile(r) \/ DropsRow(r) \/ Purges(r))
      /\ back =>
            ~(\/ MakesAgain(r) \/ Puts(r) \/ Commits(r) \/ MovesOut(r) \/ PutsBack(r)
              \/ Trashes(r) \/ TakesFile(r) \/ ReturnsFile(r) \/ DropsRow(r) \/ Purges(r))
      /\ made => ~(MovesOut(r) \/ PutsBack(r) \/ Trashes(r))
  BY BesidesKinds, LabelOps DEF away, back, made, Building
<1>8. SUFFICES /\ Live(b) \in dirs' <=>
                    \/ status'[b] = "active" /\ ~(away \/ out(pc'[r]))
                    \/ made \/ own(pc'[r]) \/ back \/ in(pc'[r])
               /\ made \/ own(pc'[r]) => status'[b] = "absent"
  <2>1. ASSUME NEW c \in Id
        PROVE  /\ Live(c) \in dirs' <=>
                     \/ status'[c] = "active" /\ ~Leaving(c)'
                     \/ Building(c)' \/ Coming(c)'
               /\ Building(c)' => status'[c] = "absent"
    <3>1. CASE c = b BY <1>4, <1>8, <3>1
    <3>2. CASE c # b BY <1>0, <3>2, OthersStay DEF Shelved, Active
    <3>3. QED BY <3>1, <3>2
  <2>2. QED BY <2>1 DEF Shelved, Active
<1>9. CASE Proceeds(r)
  <2>1. UNCHANGED <<dirs, status>> BY <1>9 DEF Proceeds, Rests, stored
  <2>2. /\ out(pc'[r]) <=> out(pc[r])
        /\ in(pc'[r]) <=> in(pc[r])
        /\ own(pc'[r]) <=> own(pc[r])
    BY <1>1, <1>9 DEF Proceeds, Rests, Moved, Back, Stays
  <2>3. QED BY <1>5, <2>1, <2>2 DEF Active, here
<1>10. CASE MakesBook(r)
  <2>1. b = r /\ pc'[r] = "c_tx" /\ Live(b) \in dirs' /\ status'[b] = status[b]
    BY <1>0, <1>1, <1>10, KindOps DEF MakesBook, Turns, EnsureDir, Keeps
  <2>2. status[b] = "absent"
    BY <1>0, <1>1, <1>10, <2>1 DEF Orderly, Births, Unborn, MakesBook, Turns
  <2>3. QED BY <2>1, <2>2
<1>11. CASE MakesAgain(r)
  <2>1. /\ pc[r] \in {"u_mkdir", "f_mkdir"} /\ pc'[r] \in {"u_rename", "f_back"}
        /\ dirs' = dirs \cup {Live(b)} /\ status'[b] = status[b]
    BY <1>0, <1>1, <1>11 DEF MakesAgain, Turns, EnsureDir, Keeps
  <2>2. Active(b) BY <1>0, <2>1 DEF Held, Writing, UploadSteps, Away
  <2>3. QED BY <1>5, <1>6, <1>7, <1>11, <2>1, <2>2 DEF Active, here
<1>12. CASE WritesBook(r)
  <2>1. b = r /\ pc[r] = "c_tx" /\ pc'[r] = "c_meta" /\ UNCHANGED dirs /\ status'[b] = "active"
    BY <1>0, <1>1, <1>2, <1>12, KindOps DEF WritesBook, Turns, disk
  <2>2. QED BY <1>5, <1>6, <1>7, <1>12, <2>1 DEF here, made
<1>13. CASE Forgets(r)
  <2>1. /\ b = r /\ pc[r] \in {"c_unrow", "p_book"} /\ pc'[r] \in {"c_rmdir", "p_dir"}
        /\ UNCHANGED dirs /\ status'[b] = "absent"
    BY <1>0, <1>1, <1>2, <1>13, KindOps DEF Forgets, Turns, disk
  <2>2. Active(b)
    BY <1>0, <1>1, <2>1 DEF Held, Writing, Importing, Shape, ImportSteps
  <2>3. QED BY <1>5, <1>7, <1>13, <2>1, <2>2 DEF here
<1>14. CASE Removes(r)
  <2>1. /\ b = r /\ pc[r] \in {"c_rmdir", "p_dir"} /\ pc'[r] \in {"error", "j_failed"}
        /\ Live(b) \notin dirs' /\ status'[b] = status[b]
    BY <1>0, <1>1, <1>14, KindOps DEF Removes, Turns, RemoveDir, Keeps, NotMade
  <2>2. QED BY <1>5, <1>6, <2>1 DEF Trashed, here, made
<1>15. CASE Puts(r) \/ Commits(r)
  <2>1. /\ pc[r] \in UploadSteps
        /\ pc'[r] \notin {"c_tx", "c_rmdir", "p_dir", "d_mark", "d_undo", "r_mark", "r_undo"}
        /\ UNCHANGED <<dirs, status>>
    BY <1>1, <1>15 DEF Puts, Commits, Turns, UploadSteps, PutFile, Keeps, disk, Refused, Uploaded
  <2>2. QED BY <1>5, <2>1 DEF UploadSteps, Active, here
<1>16. \A p : Slot(p) # Live(b) BY PathsDiffer
<1>17. CASE MovesOut(r)
  <2>1. /\ here /\ Live(b) \notin dirs' /\ status'[b] = status[b]
        /\ pc[r] = "d_move" /\ pc'[r] = "d_mark"
    BY <1>0, <1>1, <1>16, <1>17 DEF MovesOut, Turns, CanMoveDir, MoveDir, Keeps, here
  <2>2. QED BY <1>7, <1>17, <2>1
<1>18. CASE PutsBack(r)
  <2>1. /\ Live(b) \in dirs' /\ status'[b] = status[b]
        /\ pc[r] = "d_undo" /\ pc'[r] = "error"
    BY <1>0, <1>1, <1>18 DEF PutsBack, Turns, MoveDir, Keeps
  <2>2. QED BY <1>6, <1>7, <1>18, <2>1 DEF Active
<1>19. CASE Trashes(r)
  <2>1. /\ pc[r] = "d_mark" /\ pc'[r] = "ok" /\ UNCHANGED dirs
        /\ status'[b] \in {"absent", "trashed"}
    BY <1>0, <1>1, <1>2, <1>19 DEF Trashes, Turns, Marks, disk
  <2>2. QED BY <1>6, <1>7, <1>19, <2>1 DEF here
<1>20. CASE MovesIn(r)
  <2>1. /\ Live(b) \in dirs' /\ status'[b] = status[b]
        /\ pc[r] = "r_move" /\ pc'[r] = "r_mark"
    BY <1>0, <1>1, <1>20 DEF MovesIn, Turns, MoveDir, Keeps
  <2>2. QED BY <1>5, <2>1
<1>21. CASE MovesOff(r)
  <2>1. seen[r] # Live(b) BY <1>0, <1>21, <1>16 DEF MovesOff, Turns, IInv, SlotsFit, SlotOf
  <2>2. /\ Live(b) \notin dirs' /\ status'[b] = status[b]
        /\ pc[r] = "r_undo" /\ pc'[r] = "error"
    BY <1>0, <1>1, <1>21, <2>1 DEF MovesOff, Turns, MoveDir, Keeps
  <2>3. QED BY <1>5, <1>6, <2>2 DEF Trashed
<1>22. CASE Revives(r)
  <2>1. /\ pc[r] = "r_mark" /\ pc'[r] = "ok" /\ UNCHANGED dirs
        /\ status[b] # "absent" => status'[b] = "active"
    BY <1>0, <1>1, <1>2, <1>22 DEF Revives, Turns, Marks, disk
  <2>2. QED BY <1>5, <1>6, <1>7, <1>22, <2>1 DEF Trashed, here
<1>23. CASE TakesFile(r) \/ ReturnsFile(r) \/ DropsRow(r) \/ Purges(r)
  <2>1. /\ pc[r] \in {"f_move", "f_back", "f_unrow", "p_files"}
        /\ pc'[r] \in {"f_unrow", "error", "ok", "p_book"}
        /\ UNCHANGED <<dirs, status>>
    BY <1>1, <1>23 DEF TakesFile, ReturnsFile, DropsRow, Purges, Turns, PutFile, Keeps, disk
  <2>2. QED BY <1>5, <2>1 DEF Active, here
<1>24. QED
  BY <1>9, <1>10, <1>11, <1>12, <1>13, <1>14, <1>15, <1>17, <1>18, <1>19, <1>20, <1>21, <1>22,
     <1>23, WorkProceeds

\* Every slot of the trash has its reason, and what is in the trash its slot.
LEMMA BinnedWork ==
    ASSUME IInv, Orderly, Ordered, Settling, NEW r \in Req, Work(r), Calm PROVE Binned'
<1> USE DEF Settling
<1>1. /\ Shape(r) /\ pc[r] \in Running /\ arg' = arg /\ pc \in [Req -> Label]
      /\ pc' = [pc EXCEPT ![r] = pc'[r]] /\ arg[r].book \in Id /\ r \in Id
      /\ \A q \in Req : q # r => pc'[q] = pc[q]
  BY WorkKeeps DEF Shape, Id
<1>2. /\ status \in [Id -> {"absent", "active", "trashed"}]
      /\ trashPath \in [Id -> Slots \cup {Nowhere}]
      /\ dirs \subseteq Dir /\ Nowhere \notin Dir
  BY PathsDiffer DEF IInv, TypeOK, DatabaseTypeOK, StorageTypeOK, Dir, LiveDirs, Slots
<1>3. PICK b : b = arg[r].book  OBVIOUS
<1>4. /\ \A p, q : Slot(p) = Slot(q) => p = q
      /\ \A p, c : Slot(p) # Live(c)
  BY PathsDiffer
<1>5. Moved(r) => Active(b) BY <1>3 DEF Held, Writing
<1>6. Back(r) => Trashed(b) /\ trashPath[b] = seen[r] /\ seen[r] \notin dirs
  BY <1>3 DEF Ordered, RestoresAlone
<1>7. ASSUME NEW c \in Id, status'[c] = "trashed"
      PROVE  trashPath'[c] \in dirs' \/ Coming(c)'
  <2>1. CASE c # b
    <3>1. Trashed(c) /\ trashPath'[c] = trashPath[c] /\ (Coming(c)' <=> Coming(c))
      BY <1>3, <1>7, <2>1, OthersStay DEF Trashed
    <3>2. trashPath[c] \in dirs => SlotOf(trashPath[c], c)
      BY <1>2 DEF IInv, SlotsFit
    <3>3. QED BY <1>3, <2>1, <3>1, <3>2, OthersStay DEF Binned
  <2>2. CASE c = b
    <3>1. CASE Trashes(r)
      <4>1. Moved(r) BY <3>1 DEF Trashes, Turns, Moved
      <4>2. Slot(r) \in dirs /\ status[b] # "absent" BY <1>5, <4>1 DEF Binned, Active
      <4>3. QED BY <1>1, <1>2, <1>3, <2>2, <3>1, <4>2 DEF Trashes, Marks, disk
    <3>2. CASE MovesIn(r)
      <4>1. Back(r)' BY <1>1, <3>2 DEF MovesIn, Turns, Back
      <4>2. QED BY <1>1, <1>3, <2>2, <4>1 DEF Coming
    <3>3. CASE ~(Trashes(r) \/ MovesIn(r))
      <4>1. Trashed(b) /\ trashPath'[b] = trashPath[b]
        <5>1. status[b] = "trashed"
          BY <1>7, <2>2, <3>3, StatusWork
        <5>2. ~Revives(r)
          BY <1>1, <1>2, <1>3, <1>7, <2>2, <5>1 DEF Revives, Marks
        <5>3. QED BY <1>7, <2>2, <3>3, <5>1, <5>2, TrashKept DEF Ordered, Trashed
      <4>2. CASE MovesOff(r)
        <5>1. Back(r) /\ seen[r] \in dirs'
          BY <4>2 DEF MovesOff, Turns, Back, MoveDir
        <5>2. QED BY <1>6, <2>2, <4>1, <5>1
      <4>3. CASE ~MovesOff(r)
        <5>1. ~PutsBack(r)
          BY <1>5, <4>1 DEF PutsBack, Turns, Moved, Active, Trashed
        <5>2. trashPath[b] \in dirs => trashPath[b] \in dirs'
          <6>1. trashPath[b] \in dirs => SlotOf(trashPath[b], b)
            BY <1>2, <2>2 DEF IInv, SlotsFit
          <6>2. trashPath[b] \in dirs => trashPath[b] # Live(b) /\ trashPath[b] # Live(r)
            BY <1>4, <6>1 DEF SlotOf
          <6>3. QED
            BY <1>3, <3>3, <4>3, <5>1, <6>2, DiskKinds
            DEF Removes, RemoveDir, Puts, PutFile, TakesFile, ReturnsFile, MoveDir
        <5>3. Coming(b) => Coming(b)'
          <6>1. Back(r) => Back(r)'
            <7>1. ASSUME Back(r), ~Back(r)' PROVE FALSE
              <8>1. Revives(r)
                BY <1>1, <4>3, <7>1, WorkProceeds
                DEF Proceeds, Back, MakesBook, MakesAgain, WritesBook, Forgets, Removes, Puts,
                    Commits, MovesOut, PutsBack, Trashes, MovesIn, MovesOff, TakesFile,
                    ReturnsFile, DropsRow, Purges, Turns
              <8>2. QED BY <1>1, <1>2, <1>3, <1>7, <2>2, <4>1, <8>1 DEF Revives, Marks, Trashed
            <7>2. QED BY <7>1
          <6>2. \A q \in Req : Back(q) => Back(q)' BY <1>1, <6>1 DEF Back
          <6>3. QED BY <1>1, <6>2 DEF Coming
        <5>4. QED BY <2>2, <4>1, <5>2, <5>3 DEF Binned
      <4>4. QED BY <4>2, <4>3
    <3>4. QED BY <3>1, <3>2, <3>3
  <2>3. QED BY <2>1, <2>2
<1>8. ASSUME NEW s \in Req, Moved(s)' PROVE Slot(s) \in dirs'
  <2>1. CASE MovesOut(r) /\ s = r BY <2>1 DEF MovesOut, MoveDir
  <2>2. CASE ~(MovesOut(r) /\ s = r)
    <3>1. Moved(s) BY <1>1, <1>8, <2>2, MovedComes DEF Moved
    <3>2. Slot(s) \in dirs BY <3>1 DEF Binned
    <3>3. ~MovesIn(r) BY <3>1, BesidesKinds
    <3>4. CASE PutsBack(r)
      <4>1. s # r BY <1>1, <1>8, <3>4 DEF PutsBack, Turns, Moved
      <4>2. QED BY <1>4, <3>2, <3>4, <4>1 DEF PutsBack, MoveDir
    <3>5. CASE ~PutsBack(r)
      BY <1>4, <3>2, <3>3, <3>5, DiskKinds
      DEF Removes, RemoveDir, Puts, PutFile, TakesFile, ReturnsFile, MoveDir
    <3>6. QED BY <3>4, <3>5
  <2>3. QED BY <2>1, <2>2
<1>9. ASSUME NEW s \in Req, Slot(s) \in dirs'
      PROVE  \/ Moved(s)'
             \/ \E c \in Id : status'[c] = "trashed" /\ trashPath'[c] = Slot(s)
  <2>1. CASE MovesOut(r) /\ s = r BY <1>1, <2>1, MovedComes
  <2>2. CASE MovesOff(r) /\ seen[r] = Slot(s)
    <3>1. Back(r) BY <2>2 DEF MovesOff, Turns, Back
    <3>2. QED BY <1>1, <1>3, <1>6, <2>2, <3>1 DEF MovesOff, Keeps, Trashed
  <2>3. CASE ~(MovesOut(r) /\ s = r) /\ ~(MovesOff(r) /\ seen[r] = Slot(s))
    <3>1. Slot(s) \in dirs
      <4>1. Slot(s) \in dirs \/ MovesOut(r) \/ MovesOff(r)
        BY <1>4, <1>9, DiskKinds
        DEF Removes, RemoveDir, Puts, PutFile, TakesFile, ReturnsFile, MoveDir
      <4>2. CASE MovesOut(r) BY <1>4, <1>9, <2>3, <4>2 DEF MovesOut, MoveDir
      <4>3. CASE MovesOff(r) BY <1>4, <1>9, <2>3, <4>3 DEF MovesOff, MoveDir
      <4>4. QED BY <4>1, <4>2, <4>3
    <3>2. CASE Moved(s) /\ s # r BY <1>1, <3>2 DEF Moved
    <3>3. CASE Moved(s) /\ s = r
      <4>1. Moved(r)' \/ PutsBack(r) \/ Trashes(r)
        BY <1>1, <3>3, WorkProceeds
        DEF Proceeds, Moved, MakesBook, MakesAgain, WritesBook, Forgets, Removes, Puts, Commits,
            MovesOut, Revives, MovesIn, MovesOff, TakesFile, ReturnsFile, DropsRow, Purges, Turns
      <4>2. ~PutsBack(r) BY <1>4, <1>9, <3>3 DEF PutsBack, MoveDir
      <4>3. CASE Trashes(r)
        BY <1>1, <1>2, <1>3, <1>5, <3>3, <4>3 DEF Trashes, Marks, Active
      <4>4. QED BY <3>3, <4>1, <4>2, <4>3
    <3>4. CASE ~Moved(s)
      <4>1. PICK c \in Id : Trashed(c) /\ trashPath[c] = Slot(s) BY <3>1, <3>4 DEF Binned
      <4>2. CASE c # b BY <1>3, <4>1, <4>2, OthersStay DEF Trashed
      <4>3. CASE c = b
        <5>1. ~Trashes(r)
          BY <1>5, <4>1, <4>3 DEF Trashes, Turns, Moved, Active, Trashed
        <5>2. ~Revives(r)
          BY <1>6, <3>1, <4>1, <4>3 DEF Revives, Turns, Back
        <5>3. QED BY <4>1, <5>1, <5>2, TrashKept DEF Ordered, Trashed
      <4>4. QED BY <4>2, <4>3
    <3>5. QED BY <3>2, <3>3, <3>4
  <2>4. QED BY <2>1, <2>2, <2>3
<1>10. QED BY <1>1, <1>7, <1>8, <1>9 DEF Binned, Trashed

\* The book of a purge or of a Create that is taken back has no row of a file.
LEMMA NoFilesLeft ==
    ASSUME IInv, Quiet, Filed, NEW r \in Req, Work(r), Removes(r)
    PROVE  FilesOf(r) = {}
<1>1. arg[r].book = r /\ pc[r] \in {"c_rmdir", "p_dir"}
  BY KindOps DEF Removes, Turns
<1>2. CASE pc[r] = "p_dir" BY <1>2 DEF Filed, Purging
<1>3. CASE pc[r] = "c_rmdir"
  <2>1. \A q \in Req \ {r} : arg[q].book # r BY <1>3 DEF Quiet, Retreats, CreateSteps
  <2>2. r \notin rows BY <1>3 DEF IInv, NoEarlyRow, BeforeCommit, CreateSteps
  <2>3. rows \subseteq Id BY DEF IInv, TypeOK, DatabaseTypeOK
  <2>4. QED BY <2>1, <2>2, <2>3, SeededNotReq DEF FilesOf, Home, Id
<1>4. QED BY <1>1, <1>2, <1>3

\* How a step may change the rows of files.
LEMMA RowsChange ==
    ASSUME IInv, NEW r \in Req, Work(r)
    PROVE  UNCHANGED rows \/ Commits(r) \/ DropsRow(r) \/ Purges(r)
BY WorkKinds
DEF Kinds, Rests, stored, MakesBook, MakesAgain, WritesBook, Forgets, Removes, Puts, MovesOut,
    PutsBack, Trashes, Revives, Marks, MovesIn, MovesOff, TakesFile, ReturnsFile, Keeps

\* A file that has a row keeps to book directories, but for its DeleteFile.
LEMMA RowsFiledWork ==
    ASSUME IInv, Orderly, Ordered, Settling, NEW r \in Req, Work(r), Calm,
           NEW f \in rows'
    PROVE  at'[f] \in Dir \/ \E g \in Req : Away(g)' /\ arg[g].file = f
<1> USE DEF Settling
<1>1. /\ Shape(r) /\ pc[r] \in Running /\ arg' = arg /\ pc \in [Req -> Label]
      /\ pc' = [pc EXCEPT ![r] = pc'[r]] /\ arg[r].book \in Id /\ r \in Id
      /\ \A q \in Req : q # r => pc'[q] = pc[q]
  BY WorkKeeps DEF Shape, Id
<1>2. at \in [Id -> Place] /\ rows \subseteq Id
  BY DEF IInv, TypeOK, StorageTypeOK, DatabaseTypeOK
<1>3. \A b \in Id : Live(b) \in Dir BY DEF Dir, LiveDirs
<1>4. f \in rows \/ (Commits(r) /\ f = r)
  BY RowsChange DEF Commits, DropsRow, Purges
<1>5. CASE Commits(r) /\ f = r
  <2>1. at[r] = Live(arg[r].book) /\ UNCHANGED at
    BY <1>5 DEF Commits, Turns, disk, Filed
  <2>2. QED BY <1>1, <1>3, <1>5, <2>1
<1>6. CASE f \in rows /\ at[f] \in Dir
  <2>1. CASE Removes(r)
    <3>1. at[f] # Live(r)
      <4>1. ASSUME at[f] = Live(r) PROVE FALSE
        <5>1. Home(f) = r
          BY <1>2, <1>6, <4>1, PathsDiffer DEF Orderly, Housed, SlotOf
        <5>2. QED BY <1>6, <2>1, <5>1, NoFilesLeft DEF FilesOf
      <4>2. QED BY <4>1
    <3>2. QED BY <1>2, <1>6, <2>1, <3>1 DEF Removes, RemoveDir
  <2>2. CASE Puts(r)
    <3>1. f # r
      BY <1>6, <2>2 DEF Puts, IInv, NoEarlyRow, BeforeCommit, UploadSteps
    <3>2. QED BY <1>2, <1>6, <2>2, <3>1 DEF Puts, PutFile
  <2>3. CASE TakesFile(r)
    <3>1. CASE f = arg[r].file
      BY <1>1, <2>3, <3>1 DEF TakesFile, Turns, Away
    <3>2. CASE f # arg[r].file BY <1>2, <1>6, <2>3, <3>2 DEF TakesFile, PutFile
    <3>3. QED BY <3>1, <3>2
  <2>4. CASE ReturnsFile(r)
    BY <1>1, <1>2, <1>3, <1>6, <2>4 DEF ReturnsFile, PutFile
  <2>5. CASE ~(Removes(r) \/ Puts(r) \/ TakesFile(r) \/ ReturnsFile(r))
    <3>1. Slots \subseteq Dir BY DEF Dir
    <3>2. QED BY <1>1, <1>2, <1>3, <1>6, <2>5, <3>1, DiskKinds DEF MoveDir
  <2>6. QED BY <2>1, <2>2, <2>3, <2>4, <2>5
<1>7. ASSUME f \in rows, NEW g \in Req, Away(g), arg[g].file = f
      PROVE  at'[f] \in Dir \/ Away(g)'
  <2>1. CASE g # r BY <1>1, <1>7, <2>1 DEF Away
  <2>2. CASE g = r
    <3>1. Away(r)' \/ ReturnsFile(r) \/ DropsRow(r)
      BY <1>1, <1>7, <2>2, WorkProceeds
      DEF Proceeds, Away, MakesBook, MakesAgain, WritesBook, Forgets, Removes, Puts, Commits,
          MovesOut, PutsBack, Trashes, Revives, MovesIn, MovesOff, TakesFile, Purges, Turns
    <3>2. CASE ReturnsFile(r)
      BY <1>1, <1>2, <1>3, <1>7, <2>2, <3>2 DEF ReturnsFile, PutFile
    <3>3. ~DropsRow(r) BY <1>7, <2>2 DEF DropsRow
    <3>4. QED BY <2>2, <3>1, <3>2, <3>3
  <2>3. QED BY <2>1, <2>2
<1>8. QED BY <1>4, <1>5, <1>6, <1>7 DEF Filed

\* A file that has none is nowhere, in trash/files/, or on its way.
LEMMA OthersFiledWork ==
    ASSUME IInv, Orderly, Ordered, Settling, NEW r \in Req, Work(r), Calm,
           NEW f \in Id, f \notin rows'
    PROVE  \/ at'[f] \in {Nowhere, TrashFiles}
           \/ f \in Req /\ pc'[f] \in Transit
           \/ Home(f) \in Req /\ pc'[Home(f)] \in {"p_book", "p_dir"} /\ at'[f] = Live(Home(f))
<1> USE DEF Settling
<1>1. /\ Shape(r) /\ pc[r] \in Running /\ arg' = arg /\ pc \in [Req -> Label]
      /\ pc' = [pc EXCEPT ![r] = pc'[r]] /\ arg[r].book \in Id /\ r \in Id
      /\ \A q \in Req : q # r => pc'[q] = pc[q]
  BY WorkKeeps DEF Shape, Id
<1>2. at \in [Id -> Place] /\ rows \subseteq Id
  BY DEF IInv, TypeOK, StorageTypeOK, DatabaseTypeOK
<1>3. \A b : Live(b) \notin {Nowhere, TrashFiles} /\ Slot(b) \notin {Nowhere, TrashFiles}
  BY PathsDiffer
<1>4. CASE f \in rows
  <2>1. \/ DropsRow(r) /\ f = arg[r].file
        \/ Purges(r) /\ Home(f) = r
    BY <1>4, RowsChange DEF DropsRow, Purges, Commits, FilesOf
  <2>2. CASE DropsRow(r) /\ f = arg[r].file
    BY <2>2 DEF DropsRow, Turns, disk, Orderly, FilesAway, Away
  <2>3. CASE Purges(r) /\ Home(f) = r
    <3>1. /\ pc[r] = "p_files" /\ pc'[r] = "p_book" /\ UNCHANGED at
          /\ arg[r].op = "import" /\ arg[r].book = r
      BY <1>1, <2>3, KindOps DEF Purges, Turns, disk
    <3>2. at[f] \in Dir
      BY <1>4, <2>3, BesidesKinds DEF Filed
    <3>3. at[f] \in dirs /\ (at[f] = Live(r) \/ SlotOf(at[f], r))
      BY <2>3, <3>2 DEF Orderly, Housed
    <3>4. ~SlotOf(at[f], r)
      <4>1. ASSUME SlotOf(at[f], r) PROVE FALSE
        <5>1. PICK s \in Req : at[f] = Slot(s) /\ arg[s].book = r BY <4>1 DEF SlotOf
        <5>2. ~Moved(s) BY <2>3, BesidesKinds
        <5>3. PICK c \in Id : Trashed(c) /\ trashPath[c] = Slot(s)
          BY <3>3, <5>1, <5>2 DEF Binned
        <5>4. SlotOf(Slot(s), c) BY <1>3, <5>3 DEF IInv, SlotsFit
        <5>5. c = r BY <5>1, <5>4, PathsDiffer DEF SlotOf
        <5>6. Active(r) BY <3>1 DEF Held, Writing, Importing
        <5>7. QED BY <5>3, <5>5, <5>6 DEF Active, Trashed
      <4>2. QED BY <4>1
    <3>5. QED BY <2>3, <3>1, <3>3, <3>4
  <2>4. QED BY <2>1, <2>2, <2>3
<1>5. CASE f \notin rows /\ at[f] \in {Nowhere, TrashFiles}
  <2>1. CASE Puts(r) /\ f = r
    <3>1. PICK p \in {Imports, Nowhere, Live(arg[r].book)} :
              /\ PutFile(r, p)
              /\ pc'[r] \in {"u_dup", "u_drop", "u_commit", Refused(r)}
              /\ pc'[r] = Refused(r) => p = Nowhere
      BY <2>1 DEF Puts
    <3>2. QED BY <1>1, <1>2, <2>1, <3>1 DEF PutFile, Transit
  <2>2. CASE ReturnsFile(r) /\ f = arg[r].file
    BY <1>5, <2>2 DEF ReturnsFile, Turns, Away, Filed
  <2>3. CASE TakesFile(r) /\ f = arg[r].file
    BY <1>2, <2>3 DEF TakesFile, PutFile
  <2>4. CASE ~(Puts(r) /\ f = r) /\ ~(ReturnsFile(r) /\ f = arg[r].file)
             /\ ~(TakesFile(r) /\ f = arg[r].file)
    BY <1>2, <1>3, <1>5, <2>4, DiskKinds
    DEF Removes, RemoveDir, Puts, PutFile, TakesFile, ReturnsFile, MoveDir, Slots
  <2>5. QED BY <2>1, <2>2, <2>3, <2>4
<1>6. CASE f \notin rows /\ f \in Req /\ pc[f] \in Transit
  <2>1. CASE f # r BY <1>1, <1>6, <2>1
  <2>2. CASE f = r
    <3>1. CASE Proceeds(r) BY <1>6, <2>2, <3>1 DEF Proceeds
    <3>2. CASE MakesAgain(r)
      BY <1>1, <1>6, <2>2, <3>2 DEF MakesAgain, Turns, Transit
    <3>3. CASE Puts(r)
      <4>1. PICK p \in {Imports, Nowhere, Live(arg[r].book)} :
                /\ PutFile(r, p)
                /\ pc'[r] \in {"u_dup", "u_drop", "u_commit", Refused(r)}
                /\ pc'[r] = Refused(r) => p = Nowhere
        BY <3>3 DEF Puts
      <4>2. QED BY <1>1, <1>2, <2>2, <4>1 DEF PutFile, Transit
    <3>4. ~Commits(r) BY <2>2 DEF Commits
    <3>5. QED
      BY <1>6, <2>2, <3>1, <3>2, <3>3, <3>4, WorkProceeds
      DEF MakesBook, WritesBook, Forgets, Removes, MovesOut, PutsBack, Trashes, Revives, MovesIn,
          MovesOff, TakesFile, ReturnsFile, DropsRow, Purges, Turns, Transit
  <2>3. QED BY <2>1, <2>2
<1>7. CASE f \notin rows /\ Purging(Home(f)) /\ at[f] = Live(Home(f))
  <2>1. PICK h \in Req : h = Home(f) /\ Purging(h) BY <1>7 DEF Purging
  <2>2. pc[h] \in Running /\ arg[h].op = "import" BY <2>1, LabelOps
  <2>3. CASE Removes(r)
    BY <1>1, <1>2, <1>7, <2>1, <2>3 DEF Removes, RemoveDir, Turns, Purging
  <2>4. CASE ~Removes(r)
    <3>1. at'[f] = at[f] \/ (Puts(r) /\ f = r)
      <4>1. ~(\/ MovesOut(r) \/ PutsBack(r) \/ MovesIn(r) \/ MovesOff(r) \/ TakesFile(r)
              \/ ReturnsFile(r))
        BY <2>1, <2>2, BesidesKinds
      <4>2. UNCHANGED at \/ Puts(r) BY <2>4, <4>1, DiskKinds
      <4>3. QED BY <1>2, <4>2 DEF Puts, PutFile
    <3>2. CASE Puts(r) /\ f = r
      <4>1. arg[r].op \in {"upload", "import"} /\ arg[r].op \in {"create", "import", "update"}
        BY <2>1, <2>2, <3>2, KindOps, Besides
      <4>2. h = r BY <1>1, <2>1, <3>2, <4>1, SeededNotReq DEF Shape, Home
      <4>3. QED BY <2>1, <3>2, <4>2 DEF Puts, Purging
    <3>3. CASE at'[f] = at[f]
      <4>1. Purging(h)'
        <5>1. CASE h # r BY <1>1, <2>1, <5>1 DEF Purging
        <5>2. CASE h = r
          BY <1>1, <2>1, <2>4, <5>2, WorkProceeds
          DEF Proceeds, Stays, MakesBook, MakesAgain, WritesBook, Forgets, Puts, Commits, MovesOut,
              PutsBack, Trashes, Revives, MovesIn, MovesOff, TakesFile, ReturnsFile, DropsRow,
              Purges, Turns, Purging
        <5>3. QED BY <5>1, <5>2
      <4>2. QED BY <1>7, <2>1, <3>3, <4>1 DEF Purging
    <3>4. QED BY <3>1, <3>2, <3>3
  <2>5. QED BY <2>3, <2>4
<1>8. QED BY <1>4, <1>5, <1>6, <1>7 DEF Filed

\* The rest of what is known of files: by their DeleteFile, by their AddFile, and
\* by the import they came with.
LEMMA FiledWork ==
    ASSUME IInv, Orderly, Ordered, Settling, NEW r \in Req, Work(r), Calm PROVE Filed'
<1> USE DEF Settling
<1>1. /\ Shape(r) /\ pc[r] \in Running /\ arg' = arg /\ pc \in [Req -> Label]
      /\ pc' = [pc EXCEPT ![r] = pc'[r]] /\ arg[r].book \in Id /\ r \in Id
      /\ \A q \in Req : q # r => pc'[q] = pc[q]
      /\ \A f : Home(f)' = Home(f)
  BY WorkKeeps DEF Shape, Id
<1>2. /\ at \in [Id -> Place] /\ rows \subseteq Id /\ rows' \subseteq Id
  BY TypeWork DEF IInv, TypeOK, StorageTypeOK, DatabaseTypeOK
<1>3. \A b : Live(b) \notin {Nowhere, TrashFiles} /\ Slot(b) \notin {Nowhere, TrashFiles}
  BY PathsDiffer
<1>4. ASSUME NEW g \in Req, Away(g)' PROVE arg[g].file \in rows'
  <2>1. CASE TakesFile(r) /\ g = r
    <3>1. PICK f \in Id : f = arg[r].file BY <1>1, <2>1, KindOps DEF Shape
    <3>2. at[f] = Live(arg[r].book) /\ pc[r] = "f_move" /\ UNCHANGED rows
      BY <2>1, <3>1 DEF TakesFile, Turns, Keeps
    <3>3. f \in Seeded \/ pc[f] \notin BeforeCommit
      BY <2>1, <3>1, <3>2 DEF Orderly, FilesAway
    <3>4. ~(f \in Req /\ pc[f] \in Transit)
      BY <3>3, SeededNotReq DEF Transit, BeforeCommit, UploadSteps
    <3>5. ~Purging(Home(f))
      BY <2>1, BesidesKinds, LabelOps DEF Purging
    <3>6. QED BY <1>3, <2>1, <3>1, <3>2, <3>4, <3>5 DEF Filed
  <2>2. CASE ~(TakesFile(r) /\ g = r)
    <3>1. Away(g)
      <4>1. CASE g # r BY <1>1, <1>4, <4>1 DEF Away
      <4>2. CASE g = r
        BY <1>1, <1>4, <2>2, <4>2, WorkProceeds
        DEF Proceeds, Rests, Away, MakesBook, MakesAgain, WritesBook, Forgets, Removes, Puts, Refused,
            Commits, Uploaded, NotMade, MovesOut, PutsBack, Trashes, Revives, MovesIn, MovesOff,
            ReturnsFile, DropsRow, Purges, Turns
      <4>3. QED BY <4>1, <4>2
    <3>2. arg[g].file \in rows BY <3>1 DEF Filed
    <3>3. ~Purges(r) BY <3>1, BesidesKinds
    <3>4. ~(DropsRow(r) /\ arg[r].file = arg[g].file)
      <4>1. ASSUME DropsRow(r), arg[r].file = arg[g].file PROVE FALSE
        <5>1. Away(r) /\ pc'[r] = "ok" BY <1>1, <4>1 DEF DropsRow, Turns, Away
        <5>2. g = r BY <3>1, <4>1, <5>1 DEF Orderly, FilesAway
        <5>3. QED BY <1>4, <5>1, <5>2 DEF Away
      <4>2. QED BY <4>1
    <3>5. QED BY <3>2, <3>3, <3>4, RowsChange DEF DropsRow, Commits
  <2>3. QED BY <2>1, <2>2
<1>5. ASSUME NEW q \in Req, pc'[q] \in {"u_commit", "u_unplace"}
      PROVE  at'[q] = Live(arg[q].book)
  <2>1. CASE q = r
    <3>1. CASE Puts(r)
      BY <1>1, <1>2, <1>5, <2>1, <3>1 DEF Puts, PutFile, Refused
    <3>2. CASE Proceeds(r)
      BY <1>5, <2>1, <3>2 DEF Proceeds, Rests, stored, Filed
    <3>3. QED
      BY <1>1, <1>5, <2>1, <3>1, <3>2, WorkProceeds
      DEF MakesBook, MakesAgain, WritesBook, Forgets, Removes, Commits, Uploaded, NotMade, MovesOut,
          PutsBack, Trashes, Revives, MovesIn, MovesOff, TakesFile, ReturnsFile, DropsRow, Purges,
          Turns
  <2>2. CASE q # r
    <3>1. /\ pc[q] \in {"u_commit", "u_unplace"} /\ at[q] = Live(arg[q].book)
          /\ pc[q] \in UploadSteps /\ pc[q] \in BeforeCommit /\ q \in Id
      BY <1>1, <1>5, <2>2 DEF Filed, UploadSteps, BeforeCommit, Id
    <3>2. ~(MovesOut(r) \/ PutsBack(r) \/ MovesIn(r) \/ MovesOff(r))
      BY <3>1, BesidesKinds
    <3>3. ~(Removes(r) /\ arg[q].book = r)
      <4>1. ASSUME Removes(r), arg[q].book = r PROVE FALSE
        <5>1. pc[r] \in {"c_rmdir", "p_dir"} BY <4>1 DEF Removes, Turns
        <5>2. CASE pc[r] = "c_rmdir" BY <2>2, <4>1, <5>2 DEF Quiet, Retreats, CreateSteps
        <5>3. CASE pc[r] = "p_dir"
          <6>1. arg[r].op = "import" BY <5>3, LabelOps DEF Purging
          <6>2. arg[q].op \in {"create", "import", "update"}
            <7>1. q \in InFlight /\ r \in InFlight BY <1>1, <3>1, LabelOps DEF InFlight
            <7>2. QED BY <6>1, <7>1 DEF Company, Beside, AllOps
          <6>3. Shape(q) /\ arg[q].op \in {"upload", "import"} BY <3>1, LabelOps
          <6>4. QED BY <2>2, <4>1, <6>2, <6>3 DEF Shape
        <5>4. QED BY <5>1, <5>2, <5>3
      <4>2. QED BY <4>1
    <3>4. TakesFile(r) \/ ReturnsFile(r) => arg[r].file # q
      BY <1>1, <3>1, SeededNotReq DEF TakesFile, ReturnsFile, Turns, Away, Orderly, FilesAway
    <3>5. at'[q] = at[q]
      <4>1. CASE Removes(r)
        BY <1>2, <3>1, <3>3, <4>1, PathsDiffer DEF Removes, RemoveDir
      <4>2. CASE TakesFile(r) \/ ReturnsFile(r) \/ Puts(r)
        BY <1>2, <2>2, <3>1, <3>4, <4>2 DEF TakesFile, ReturnsFile, Puts, PutFile
      <4>3. QED BY <3>2, <4>1, <4>2, DiskKinds
    <3>6. QED BY <3>1, <3>5
  <2>3. QED BY <2>1, <2>2
<1>6. ASSUME NEW q \in Req, Purging(q)' PROVE \A f \in rows' : Home(f) # q
  <2>1. CASE q = r
    <3>1. CASE Purges(r) BY <2>1, <3>1 DEF Purges, FilesOf
    <3>2. CASE ~Purges(r)
      <4>1. Forgets(r) /\ pc[r] = "p_book"
        BY <1>1, <1>6, <2>1, <3>2, WorkProceeds
        DEF Proceeds, Purging, MakesBook, MakesAgain, WritesBook, Forgets, Removes, Puts, Refused,
            Commits, Uploaded, NotMade, MovesOut, PutsBack, Trashes, Revives, MovesIn, MovesOff,
            TakesFile, ReturnsFile, DropsRow, Turns
      <4>2. QED BY <2>1, <4>1 DEF Forgets, Filed, Purging, FilesOf
    <3>3. QED BY <3>1, <3>2
  <2>2. CASE q # r
    <3>1. Purging(q) BY <1>1, <1>6, <2>2 DEF Purging
    <3>2. \A f \in rows : Home(f) # q BY <3>1 DEF Filed, FilesOf
    <3>3. CASE Commits(r)
      <4>1. pc[q] \in Running /\ arg[q].op = "import" BY <3>1, LabelOps
      <4>2. arg[r].op = "import" BY <3>3, <4>1, KindOps, Besides
      <4>3. Home(r) = r BY <1>1, <4>2, SeededNotReq DEF Home, Shape
      <4>4. QED BY <2>2, <3>2, <3>3, <4>3 DEF Commits
    <3>4. CASE ~Commits(r) BY <3>2, <3>4, RowsChange DEF DropsRow, Purges
    <3>5. QED BY <3>3, <3>4
  <2>3. QED BY <2>1, <2>2
<1>7. ASSUME NEW q \in Req, arg[q].op = "import", pc'[q] \in Running
      PROVE  at'[q] # TrashFiles
  <2>1. pc[q] \in Running /\ q \in Id BY <1>1, <1>7 DEF Id
  <2>2. at[q] # TrashFiles BY <1>7, <2>1, LabelOps DEF Filed, Importing
  <2>3. ~TakesFile(r) /\ ~ReturnsFile(r) BY <1>7, <2>1, BesidesKinds
  <2>4. Imports # TrashFiles /\ Nowhere # TrashFiles BY DEF Imports, TrashFiles, Nowhere
  <2>5. QED
    BY <1>2, <1>3, <2>1, <2>2, <2>3, <2>4, DiskKinds
    DEF Removes, RemoveDir, Puts, PutFile, MoveDir, Slots
<1>8. ASSUME NEW q \in Req, arg[q].op = "import", pc'[q] \in ImportRest
      PROVE  q \in rows'
  <2>1. CASE Commits(r) /\ q = r BY <2>1 DEF Commits
  <2>2. CASE ~(Commits(r) /\ q = r)
    <3>1. pc[q] \in ImportRest
      <4>1. CASE q # r BY <1>1, <1>8, <4>1
      <4>2. CASE q = r
        BY <1>1, <1>8, <2>2, <4>2, WorkProceeds
        DEF Proceeds, Importing, ImportRest, UpdateSteps, MakesBook, MakesAgain, WritesBook, Forgets,
            Removes, Puts, Refused, NotMade, MovesOut, PutsBack, Trashes, Revives, MovesIn,
            MovesOff, TakesFile, ReturnsFile, DropsRow, Purges, Turns
      <4>3. QED BY <4>1, <4>2
    <3>2. q \in rows BY <1>8, <3>1 DEF Filed, Importing
    <3>3. pc[q] \in Running /\ Shape(q)
      BY <3>1, LabelOps DEF ImportRest, Running, UpdateSteps, ImportSteps
    <3>4. ~DropsRow(r) BY <1>8, <3>3, BesidesKinds
    <3>5. ~(Purges(r) /\ Home(q) = r)
      <4>1. Home(q) = q BY <1>8, <3>3, SeededNotReq DEF Shape, Home
      <4>2. Purges(r) => q # r BY <3>1 DEF Purges, Turns, ImportRest, UpdateSteps
      <4>3. QED BY <4>1, <4>2
    <3>6. QED BY <3>2, <3>4, <3>5, RowsChange DEF Purges, FilesOf, Commits
  <2>3. QED BY <2>1, <2>2
<1>9. \A f \in rows' : at'[f] \in Dir \/ \E g \in Req : Away(g)' /\ arg'[g].file = f
  BY <1>1, RowsFiledWork
<1>10. \A f \in Id \ rows' :
          \/ at'[f] \in {Nowhere, TrashFiles}
          \/ f \in Req /\ pc'[f] \in Transit
          \/ Purging(Home(f))' /\ at'[f] = Live(Home(f)')
  BY <1>1, OthersFiledWork DEF Purging
<1>11. \A q \in Req : q \in InFlight' => pc'[q] \in Running BY DEF InFlight
<1>12. QED
  BY <1>1, <1>4, <1>5, <1>6, <1>7, <1>8, <1>9, <1>10, <1>11 DEF Filed, Importing, FilesOf

\* The row of a job is written where the import starts and where it ends.
LEMMA JobWork ==
    ASSUME IInv, Settling, NEW r \in Req, Work(r), Calm
    PROVE  /\ \/ UNCHANGED job /\ pc[r] \notin {"j_new", "j_ok", "j_failed"}
              \/ /\ pc[r] = "j_new" /\ pc'[r] = "c_dir"
                 /\ job' = [job EXCEPT ![r] = "processing"]
              \/ /\ pc[r] = "j_ok" /\ pc'[r] = "ok"
                 /\ job' = [job EXCEPT ![r] = "success"]
              \/ /\ pc[r] = "j_failed" /\ pc'[r] = "error"
                 /\ job' = [job EXCEPT ![r] = "failed"]
           /\ arg[r].op = "import" /\ pc'[r] \in Ended => pc[r] \in {"j_ok", "j_failed"}
<1> USE DEF Step, Go, Fail, At, Settling
<1>0. pc \in [Req -> Label] BY DEF IInv, TypeOK, ControlTypeOK
<1>1. CASE Create(r)
  <2>1. UNCHANGED job
    BY <1>1 DEF Create, CDir, CTx, CMeta, CGet, CUnrow, CRmdir, MakeDir, Test, ForgetBook, RemoveBook,
                database
  <2>2. pc[r] \in CreateSteps /\ pc'[r] \in CreateSteps \cup {Created(r), NotMade(r)}
    BY <1>1, CreateEffect DEF IInv, Moves
  <2>3. QED BY <2>1, <2>2 DEF CreateSteps, Created, NotMade, Importing, Ended
<1>2. CASE Upload(r)
  <2>1. UNCHANGED job
    BY <1>2 DEF Upload, UCheck, UTemp, UDup, UInsert, UMkdir, URename, UCommit, UDrop, UUnplace,
                Test, MoveFile, MakeDir, database
  <2>2. arg[r].book \in Id BY WorkKeeps DEF Shape
  <2>3. pc[r] \in UploadSteps /\ pc'[r] \in UploadSteps \cup {Uploaded(r), Refused(r)}
    BY <1>2, <2>2, UploadEffect DEF IInv, Moves
  <2>4. QED BY <2>1, <2>3 DEF UploadSteps, Uploaded, Refused, Importing, Ended
<1>3. CASE Delete(r)
  <2>1. UNCHANGED job
    BY <1>3 DEF Delete, DCheck, DMove, DMark, DUndo, Test, MoveBook, MarkBook, database
  <2>2. pc[r] \in DeleteSteps BY <1>3, DeleteEffect DEF IInv
  <2>3. QED BY <2>1, <2>2, WorkKeeps DEF DeleteSteps, Shape
<1>4. CASE Restore(r)
  <2>1. UNCHANGED job
    BY <1>4 DEF Restore, RCheck, RMove, RMark, RUndo, MoveBook, MarkBook, database
  <2>2. pc[r] \in RestoreSteps BY <1>4, RestoreEffect DEF IInv
  <2>3. QED BY <2>1, <2>2, WorkKeeps DEF RestoreSteps, Shape
<1>5. CASE DeleteFile(r)
  <2>1. UNCHANGED job
    BY <1>5 DEF DeleteFile, FCheck, FMove, FUnrow, FMkdir, FBack, Test, MoveFile, DropRows, MakeDir,
                database
  <2>2. pc[r] \in FileSteps BY <1>5, DeleteFileEffect DEF IInv
  <2>3. QED BY <2>1, <2>2, WorkKeeps DEF FileSteps, Shape
<1>6. CASE Update(r)
  <2>1. UNCHANGED job BY <1>6 DEF Update, ECheck, ETx, EMeta, Test, database
  <2>2. pc[r] \in UpdateSteps /\ pc'[r] \in UpdateSteps \cup {Updated(r), Refused(r)}
    BY <1>6, UpdateEffect DEF IInv, Moves
  <2>3. QED BY <2>1, <2>2 DEF UpdateSteps, Updated, Refused, Importing, Ended
<1>7. CASE Import(r)
  <2>1. pc[r] \in ImportSteps /\ arg[r].op = "import"
    BY <1>7, ImportEffect, WorkKeeps DEF IInv, Shape
  <2>2. \A l : ~Fail(r, l) BY <2>1, CalmFail DEF Importing
  <2> USE DEF ImportSteps, Ended
  <2>3. CASE JNew(r) BY <1>0, <2>2, <2>3 DEF JNew, WriteJob
  <2>4. CASE IParse(r) BY <1>0, <2>4 DEF IParse, database
  <2>5. CASE IFinish(r) BY <1>0, <2>2, <2>5 DEF IFinish, database
  <2>6. CASE PFiles(r) BY <1>0, <2>2, <2>6 DEF PFiles, DropRows
  <2>7. CASE PBook(r) BY <1>0, <2>2, <2>7 DEF PBook, ForgetBook
  <2>8. CASE PDir(r) BY <1>0, <2>2, <2>8 DEF PDir, RemoveBook, database
  <2>9. CASE JOk(r) BY <1>0, <2>2, <2>9 DEF JOk, WriteJob
  <2>10. CASE JFailed(r) BY <1>0, <2>2, <2>10 DEF JFailed, WriteJob
  <2>11. QED
    BY <1>7, <2>3, <2>4, <2>5, <2>6, <2>7, <2>8, <2>9, <2>10 DEF Import
<1>8. QED BY <1>1, <1>2, <1>3, <1>4, <1>5, <1>6, <1>7 DEF Work

\* What has ended with its import undone is not made again.
LEMMA GoneStays ==
    ASSUME IInv, Orderly, Ordered, Settling, NEW r \in Req, Work(r),
           NEW q \in Req, q # r, Gone(q)
    PROVE  Gone(q)'
<1> USE DEF Settling
<1>1. /\ Shape(r) /\ arg[r].book \in Id /\ q \in Id /\ pc[r] \in Running
  BY WorkKeeps DEF Shape, Id
<1>2. /\ at \in [Id -> Place] /\ \A p : Live(p) # Nowhere /\ Slot(p) # Nowhere
      /\ \A b, c : Live(b) = Live(c) => b = c
      /\ \A p \in Slots : p # Nowhere /\ \A b : p # Live(b)
  BY PathsDiffer DEF IInv, TypeOK, StorageTypeOK, Slots
<1>3. status'[q] = "absent" BY <1>1, StatusWork DEF Gone
<1>4. q \notin rows' BY RowsChange DEF Gone, Commits, DropsRow, Purges
<1>5. at'[q] = Nowhere
  <2>1. ~(TakesFile(r) /\ arg[r].file = q) BY <1>2 DEF TakesFile, Gone
  <2>2. ~(ReturnsFile(r) /\ arg[r].file = q)
    BY DEF ReturnsFile, Turns, Away, Filed, Gone
  <2>3. CASE TakesFile(r) \/ ReturnsFile(r) \/ Puts(r)
    BY <1>1, <1>2, <2>1, <2>2, <2>3 DEF TakesFile, ReturnsFile, Puts, PutFile, Gone
  <2>4. CASE ~(TakesFile(r) \/ ReturnsFile(r) \/ Puts(r))
    BY <1>1, <1>2, <2>4, DiskKinds DEF Removes, RemoveDir, MoveDir, Gone
  <2>5. QED BY <2>3, <2>4
<1>6. Live(q) \notin dirs'
  <2>1. CASE arg[r].book # q BY <1>1, <2>1, OthersStay DEF Gone
  <2>2. CASE arg[r].book = q
    <3>1. ~Active(q) /\ ~Trashed(q) BY DEF Gone, Active, Trashed
    <3>2. ~Writing(r) BY <2>2, <3>1 DEF Held
    <3>3. ~MakesAgain(r) /\ ~PutsBack(r)
      BY <3>2 DEF MakesAgain, PutsBack, Turns, Writing, UploadSteps, Away, Moved
    <3>4. ~MovesIn(r)
      BY <2>2, <3>1 DEF MovesIn, Turns, CanMoveDir, Ordered, RestoresAlone
    <3>5. ~MakesBook(r) BY <2>2, KindOps
    <3>6. QED
      BY <1>2, <3>3, <3>4, <3>5, DiskKinds
      DEF Removes, RemoveDir, Puts, PutFile, TakesFile, ReturnsFile, MoveDir, Gone
  <2>3. QED BY <2>1, <2>2
<1>7. QED BY <1>3, <1>4, <1>5, <1>6 DEF Gone

\* An import that fails has taken its book away when it says so.
LEMMA GoneComes ==
    ASSUME IInv, Orderly, Ordered, Settling, NEW r \in Req, Work(r), Calm,
           pc'[r] = "j_failed"
    PROVE  Gone(r)'
<1> USE DEF Settling
<1>1. /\ Shape(r) /\ r \in Id /\ pc \in [Req -> Label] /\ pc[r] \in Running
      /\ pc' = [pc EXCEPT ![r] = pc'[r]]
  BY WorkKeeps DEF Id
<1>2. Removes(r)
  BY <1>1, WorkProceeds
  DEF Proceeds, MakesBook, MakesAgain, WritesBook, Forgets, Puts, Refused, Commits, Uploaded,
      MovesOut, PutsBack, Trashes, Revives, MovesIn, MovesOff, TakesFile, ReturnsFile, DropsRow,
      Purges, Turns
<1>3. /\ pc[r] \in {"c_rmdir", "p_dir"} /\ arg[r].book = r /\ arg[r].op \in Makers
  BY <1>2, KindOps DEF Removes, Turns
<1>4. pc[r] = "p_dir" /\ arg[r].op = "import"
  <2>1. Shapes' BY ShapesWork DEF IInv
  <2>2. arg' = arg BY WorkKeeps
  <2>3. arg[r].op = "import" BY <2>1, <2>2 DEF Shapes, Shape, ImportSteps
  <2>4. QED BY <1>3, <2>3 DEF Quiet, Retreats
<1>5. FilesOf(r) = {} BY <1>2, NoFilesLeft
<1>6. Home(r) = r BY <1>3, SeededNotReq DEF Home
<1>7. r \notin rows BY <1>5, <1>6 DEF FilesOf
<1>8. status[r] = "absent" BY <1>1, <1>4 DEF Shelved, Building
<1>9. at[r] \in {Nowhere, Live(r)}
  <2>1. at[r] # TrashFiles BY <1>1, <1>4 DEF Filed, Importing, InFlight
  <2>2. QED BY <1>1, <1>4, <1>6, <1>7, <2>1 DEF Filed, Transit
<1>10. UNCHANGED <<status, rows>> /\ at'[r] = Nowhere /\ Live(r) \notin dirs'
  BY <1>1, <1>2, <1>9 DEF Removes, RemoveDir, Keeps
<1>11. QED BY <1>7, <1>8, <1>10 DEF Gone

\* What the row of a job says stays true.
LEMMA RecordedWork ==
    ASSUME IInv, Orderly, Ordered, Settling, NEW r \in Req, Work(r), Calm PROVE Recorded'
<1> USE DEF Settling
<1>1. /\ Shape(r) /\ pc[r] \in Running /\ arg' = arg /\ pc \in [Req -> Label]
      /\ pc' = [pc EXCEPT ![r] = pc'[r]] /\ r \in Id /\ pc'[r] \in Label \ {"idle"}
      /\ \A q \in Req : q # r => pc'[q] = pc[q]
  BY WorkKeeps DEF Id
<1>2. /\ job \in [Req -> {"none", "processing", "success", "failed"}]
      /\ status \in [Id -> {"absent", "active", "trashed"}]
  BY DEF IInv, TypeOK, DatabaseTypeOK
<1>3. pc[r] \notin {"ok", "error"}
  BY <1>1 DEF Running, CreateSteps, UploadSteps, DeleteSteps, RestoreSteps, FileSteps,
              UpdateSteps, ImportSteps
<1>4. {"j_new", "j_ok", "j_failed"} \subseteq ImportSteps /\ {"c_dir"} \subseteq Running
  BY DEF ImportSteps, Running, CreateSteps
<1>5. \/ UNCHANGED job /\ pc[r] \notin {"j_new", "j_ok", "j_failed"}
      \/ /\ pc[r] = "j_new" /\ pc'[r] = "c_dir"
         /\ job' = [job EXCEPT ![r] = "processing"]
      \/ /\ pc[r] = "j_ok" /\ pc'[r] = "ok"
         /\ job' = [job EXCEPT ![r] = "success"]
      \/ /\ pc[r] = "j_failed" /\ pc'[r] = "error"
         /\ job' = [job EXCEPT ![r] = "failed"]
  BY JobWork
<1>6. pc[r] \in {"j_new", "j_ok", "j_failed"} => arg[r].op = "import"
  BY <1>1, <1>4 DEF Shape
<1>7. ASSUME NEW q \in Req, job'[q] = "processing"
      PROVE  pc'[q] \in Running /\ arg[q].op = "import"
  <2>1. CASE q # r BY <1>1, <1>2, <1>5, <1>7, <2>1 DEF Recorded, InFlight
  <2>2. CASE q = r /\ pc[r] = "j_new" BY <1>4, <1>5, <1>6, <2>2
  <2>3. CASE q = r /\ pc[r] # "j_new"
    <3>1. UNCHANGED job /\ pc[r] \notin {"j_new", "j_ok", "j_failed"}
      BY <1>2, <1>5, <1>7, <2>3
    <3>2. arg[r].op = "import" BY <1>7, <2>3, <3>1 DEF Recorded
    <3>3. pc'[r] \notin Ended BY <3>1, <3>2, JobWork
    <3>4. QED BY <1>1, <2>3, <3>2, <3>3 DEF Label
  <2>4. QED BY <2>1, <2>2, <2>3
<1>8. ASSUME NEW q \in Req, job'[q] = "success"
      PROVE  /\ pc'[q] = "ok" /\ arg[q].op = "import" /\ status'[q] # "absent"
             /\ q \in rows' \/ DeletedFile(q)
  <2>1. CASE q = r
    <3>1. pc[r] = "j_ok" /\ pc'[r] = "ok" BY <1>2, <1>3, <1>5, <1>8, <2>1 DEF Recorded
    <3>2. arg[r].op = "import" /\ arg[r].book = r BY <1>1, <1>6, <3>1 DEF Shape
    <3>3. Active(r) /\ r \in rows
      BY <3>1, <3>2 DEF Held, Writing, Importing, ImportRest, Filed
    <3>4. status'[r] = status[r]
      BY <1>1, <3>1, StatusWork DEF WritesBook, Forgets, Trashes, Revives, Turns
    <3>5. rows' = rows BY <3>1, RowsChange DEF Commits, DropsRow, Purges, Turns
    <3>6. QED BY <2>1, <3>1, <3>2, <3>3, <3>4, <3>5 DEF Active
  <2>2. CASE q # r
    <3>1. /\ pc[q] = "ok" /\ arg[q].op = "import" /\ status[q] # "absent"
          /\ q \in rows \/ DeletedFile(q)
      BY <1>2, <1>5, <1>8, <2>2 DEF Recorded
    <3>2. q \in Id BY DEF Id
    <3>3. status'[q] # "absent" BY <2>2, <3>1, <3>2, StatusWork
    <3>4. CASE DropsRow(r) /\ arg[r].file = q
      BY <1>1, <2>2, <3>1, <3>3, <3>4, KindOps DEF DeletedFile
    <3>5. ~(Purges(r) /\ q \in FilesOf(r))
      <4>1. Shape(q) BY <3>1 DEF IInv, Shapes
      <4>2. Home(q) = q BY <3>1, <4>1, SeededNotReq DEF Home, Shape
      <4>3. QED BY <2>2, <4>2 DEF FilesOf
    <3>6. CASE ~(DropsRow(r) /\ arg[r].file = q)
      BY <1>1, <2>2, <3>1, <3>3, <3>5, <3>6, RowsChange DEF DropsRow, Purges, Commits
    <3>7. QED BY <3>4, <3>6
  <2>3. QED BY <2>1, <2>2
<1>9. ASSUME NEW q \in Req, job'[q] = "failed" PROVE pc'[q] = "error" /\ arg[q].op = "import"
  <2>1. CASE q = r BY <1>2, <1>3, <1>5, <1>6, <1>9, <2>1 DEF Recorded
  <2>2. CASE q # r BY <1>1, <1>2, <1>5, <1>9, <2>2 DEF Recorded
  <2>3. QED BY <2>1, <2>2
<1>10. ASSUME NEW q \in Req, job'[q] = "failed" \/ pc'[q] = "j_failed" PROVE Gone(q)'
  <2>1. CASE q # r
    BY <1>1, <1>2, <1>5, <1>10, <2>1, GoneStays DEF Recorded
  <2>2. CASE q = r /\ pc'[r] = "j_failed" BY <2>2, GoneComes
  <2>3. CASE q = r /\ pc'[r] # "j_failed"
    <3>1. pc[r] = "j_failed" BY <1>2, <1>3, <1>5, <1>10, <2>3 DEF Recorded
    <3>2. Gone(r) BY <3>1 DEF Recorded
    <3>3. Proceeds(r)
      BY <3>1, WorkProceeds
      DEF MakesBook, MakesAgain, WritesBook, Forgets, Removes, Puts, Commits, MovesOut, PutsBack,
          Trashes, Revives, MovesIn, MovesOff, TakesFile, ReturnsFile, DropsRow, Purges, Turns
    <3>4. QED BY <2>3, <3>2, <3>3 DEF Proceeds, Rests, stored, Gone
  <2>4. QED BY <2>1, <2>2, <2>3
<1>11. QED BY <1>1, <1>7, <1>8, <1>9, <1>10 DEF Recorded, InFlight, DeletedFile

\* All of it, by a step of a handler.
LEMMA SettlingWork ==
    ASSUME IInv, Orderly, Ordered, Settling, NEW r \in Req, Work(r), Calm PROVE Settling'
<1>1. Company' BY CompanyWork DEF Settling
<1>2. QED
  BY <1>1, QuietWork, HeldWork, ShelvedWork, BinnedWork, FiledWork, RecordedWork DEF Settling

\* Who joins is asked what may overlap.
LEMMA CompanyStart ==
    ASSUME Agreeable, IInv, Company, NEW r \in Req, Start(r)
    PROVE  Company' /\ (arg'[r].op = "import" => pc'[r] = "j_new")
<1>0. PICK o \in Ops : \E a \in Asks(r, o) :
            /\ MayJoin(o) /\ pc[r] = "idle"
            /\ arg' = [arg EXCEPT ![r] = a]
            /\ pc' = [pc EXCEPT ![r] = FirstStep[o]]
  BY DEF Start
<1>1. PICK a \in Asks(r, o) :
            /\ MayJoin(o) /\ pc[r] = "idle"
            /\ arg' = [arg EXCEPT ![r] = a]
            /\ pc' = [pc EXCEPT ![r] = FirstStep[o]]
  BY <1>0
<1>2. /\ a.op = o /\ o \in AllOps /\ pc'[r] = FirstStep[o]
      /\ arg'[r] = a /\ \A q \in Req : q # r => arg'[q] = arg[q] /\ pc'[q] = pc[q]
  BY <1>1, AsksShape, OpsAssumption DEF IInv, TypeOK, ControlTypeOK
<1>3. InFlight' \subseteq InFlight \cup {r} BY <1>2 DEF InFlight
<1>4. r \notin InFlight
  BY <1>1 DEF InFlight, Running, CreateSteps, UploadSteps, DeleteSteps, RestoreSteps,
              FileSteps, UpdateSteps, ImportSteps
<1>5. ASSUME NEW p \in InFlight', NEW q \in InFlight'
      PROVE  arg'[q].op \in Beside[arg'[p].op]
  <2>1. CASE p \in InFlight /\ q \in InFlight
    BY <1>2, <1>4, <2>1 DEF Company, InFlight
  <2>2. CASE p = r /\ q = r BY <1>2, <2>2 DEF Beside, AllOps
  <2>3. CASE InFlight # {} /\ (p = r \/ q = r)
    <3>1. PICK together \in Overlap :
              {o} \cup {arg[x].op : x \in InFlight} \subseteq together
      BY <1>1, <2>3 DEF MayJoin
    <3>2. arg'[p].op \in together /\ arg'[q].op \in together
      BY <1>2, <1>3, <1>4, <3>1 DEF InFlight
    <3>3. QED BY <3>1, <3>2 DEF Agreeable
  <2>4. QED BY <1>3, <2>1, <2>2, <2>3
<1>6. arg'[r].op = "import" => pc'[r] = "j_new" BY <1>2 DEF FirstStep, AllOps
<1>7. Company' BY <1>5 DEF Company
<1>8. QED BY <1>6, <1>7

\* A request that starts keeps all of it.
LEMMA SettlingStart ==
    ASSUME Agreeable, IInv, Orderly, Settling, NEW r \in Req, Start(r), Calm
    PROVE  Settling'
<1> USE DEF Settling
<1>1. /\ pc[r] = "idle" /\ r \in Id /\ pc \in [Req -> Label]
      /\ pc' = [pc EXCEPT ![r] = pc'[r]]
      /\ pc'[r] \in {"c_dir", "u_check", "d_check", "r_check", "f_check", "e_check", "j_new"}
      /\ \A q \in Req : q # r => pc'[q] = pc[q] /\ arg'[q] = arg[q]
      /\ \A f \in Id : f # r => Home(f)' = Home(f)
      /\ UNCHANGED <<dirs, at, status, trashPath, rows, faults>>
      /\ r \notin rows
  BY StartKeeps DEF Orderly, stored
<1>2. /\ arg[r] = NoArg /\ UNCHANGED job /\ rows \subseteq Id
  BY <1>1 DEF Start, database, IInv, Shapes, TypeOK, DatabaseTypeOK
<1>3. Company' /\ (arg'[r].op = "import" => pc'[r] = "j_new") BY CompanyStart
<1>4. /\ \A q \in Req : pc[q] = "u_check" => q # r
      /\ r \notin InFlight
      /\ \A q \in Req : q # r => (q \in InFlight' <=> q \in InFlight)
  BY <1>1 DEF InFlight, Running, CreateSteps, UploadSteps, DeleteSteps, RestoreSteps,
              FileSteps, UpdateSteps, ImportSteps
<1>5. ASSUME NEW q \in Req
      PROVE  /\ Moved(q)' <=> Moved(q) /\ q # r
             /\ Moved(q) => q # r
             /\ Back(q)' <=> Back(q) /\ q # r
             /\ Back(q) => q # r
             /\ Away(q)' <=> Away(q) /\ q # r
             /\ Away(q) => q # r
  BY <1>1, <1>5 DEF Moved, Back, Away
<1>6. \A b : /\ Building(b)' <=> Building(b)
             /\ Purging(b)' <=> Purging(b)
  BY <1>1 DEF Building, Purging
<1>7. Quiet'
  <2>1. ASSUME NEW q \in Req, pc'[q] \in CreateSteps, faults'[q] = 1,
               NEW p \in Req \ {q}
        PROVE  arg'[p].book # q
    <3>1. q # r BY <1>1, <2>1 DEF Quiet
    <3>2. pc[q] \in CreateSteps /\ faults[q] = 1 BY <1>1, <2>1, <3>1
    <3>3. CASE p # r BY <1>1, <2>1, <3>2, <3>3 DEF Quiet
    <3>4. CASE p = r
      <4>1. q \in InFlight BY <3>2, LabelOps
      <4>2. pc'[r] # "idle" BY <1>1
      <4>3. QED BY <1>1, <3>2, <3>4, <4>1, <4>2 DEF Calm
    <3>5. QED BY <3>3, <3>4
  <2>2. \A q \in Req :
            /\ faults'[q] \in {0, 1}
            /\ pc'[q] \in Retreats => faults'[q] = 1
            /\ pc'[q] = "idle" \/ arg'[q].op = "import" => faults'[q] = 0
    BY <1>1 DEF Quiet, Retreats
  <2>3. QED BY <2>1, <2>2 DEF Quiet
<1>8. \A q \in Req : Writing(q)' <=> q # r /\ Writing(q)
  <2>1. ~Writing(r)'
    BY <1>1, <1>3
    DEF Writing, UploadSteps, Away, Moved, Importing, ImportRest, UpdateSteps
  <2>2. \A q \in Req : q # r => (Writing(q)' <=> Writing(q))
    BY <1>1 DEF Writing, Away, Moved, Importing
  <2>3. QED BY <2>1, <2>2
<1>9. Held' BY <1>1, <1>8 DEF Held, Active
<1>10. \A b : (Leaving(b)' <=> Leaving(b)) /\ (Coming(b)' <=> Coming(b))
  BY <1>1, <1>5 DEF Leaving, Coming
<1>11. Shelved' BY <1>1, <1>6, <1>10 DEF Shelved, Active
<1>12. Binned' BY <1>1, <1>5, <1>10 DEF Binned, Trashed
<1>13. Filed'
  <2>1. \A f \in rows : at[f] \in Dir \/ \E g \in Req : Away(g)' /\ arg'[g].file = f
    BY <1>1, <1>5 DEF Filed
  <2>2. ASSUME NEW f \in Id \ rows
        PROVE  \/ at[f] \in {Nowhere, TrashFiles}
               \/ f \in Req /\ pc'[f] \in Transit
               \/ Purging(Home(f))' /\ at[f] = Live(Home(f)')
    <3>1. CASE f = r BY <1>1, <3>1 DEF Orderly, Housed
    <3>2. CASE f # r
      <4>1. Home(f)' = Home(f) BY <1>1, <3>2
      <4>2. Purging(Home(f)) => Purging(Home(f))'
        <5>1. PICK b : b = Home(f) OBVIOUS
        <5>2. Purging(b) => Purging(b)' BY <1>6
        <5>3. QED BY <4>1, <5>1, <5>2 DEF Purging
      <4>3. QED BY <1>1, <3>2, <4>1, <4>2 DEF Filed
    <3>3. QED BY <3>1, <3>2
  <2>3. \A g \in Req : Away(g)' => arg'[g].file \in rows BY <1>1, <1>5 DEF Filed
  <2>4. \A q \in Req : pc'[q] \in {"u_commit", "u_unplace"} => at[q] = Live(arg'[q].book)
    BY <1>1 DEF Filed
  <2>5. ASSUME NEW q \in Req, Purging(q)' PROVE FilesOf(q)' = {}
    <3>1. FilesOf(q) = {} BY <1>6, <2>5 DEF Filed
    <3>2. QED BY <1>1, <1>2, <3>1 DEF FilesOf
  <2>6. \A q \in Req : Importing(q)' /\ q \in InFlight' => at[q] # TrashFiles
    <3>1. at[r] = Nowhere /\ Nowhere # TrashFiles
      BY <1>1 DEF Orderly, Housed, Nowhere, TrashFiles
    <3>2. QED BY <1>1, <1>4, <3>1 DEF Filed, Importing
  <2>7. \A q \in Req : Importing(q)' /\ pc'[q] \in ImportRest => q \in rows
    BY <1>1, <1>3 DEF Filed, Importing, ImportRest, UpdateSteps
  <2>8. QED BY <1>1, <2>1, <2>2, <2>3, <2>4, <2>5, <2>6, <2>7 DEF Filed
<1>14. Recorded'
  <2>1. \A q \in Req : DeletedFile(q) => DeletedFile(q)'
    BY <1>1, <1>2, NoneIsNoValue DEF DeletedFile, NoArg, AllOps
  <2>2. \A q \in Req : Gone(q)' <=> Gone(q) BY <1>1 DEF Gone
  <2>3. ASSUME NEW q \in Req
        PROVE  /\ job'[q] = "processing" => q \in InFlight' /\ arg'[q].op = "import"
               /\ job'[q] = "success" =>
                     /\ pc'[q] = "ok" /\ arg'[q].op = "import" /\ status'[q] # "absent"
                     /\ q \in rows' \/ DeletedFile(q)'
               /\ job'[q] = "failed" => pc'[q] = "error" /\ arg'[q].op = "import"
               /\ job'[q] = "failed" \/ pc'[q] = "j_failed" => Gone(q)'
    <3>1. CASE q = r
      <4>1. job[r] \notin {"processing", "success", "failed"}
        BY <1>1, <1>4 DEF Recorded
      <4>2. QED BY <1>1, <1>2, <3>1, <4>1
    <3>2. CASE q # r BY <1>1, <1>2, <1>4, <2>1, <2>2, <3>2 DEF Recorded
    <3>3. QED BY <3>1, <3>2
  <2>4. QED BY <2>3 DEF Recorded
<1>15. QED BY <1>3, <1>7, <1>9, <1>11, <1>12, <1>13, <1>14

LEMMA SettlingStutter == ASSUME Settling, UNCHANGED vars PROVE Settling'
<1>1. UNCHANGED <<pc, arg, faults, dirs, at, status, trashPath, rows, job>>
  BY DEF vars, disk, control, database, catalogue
<1>2. Company' /\ Quiet' /\ Held' /\ Shelved' /\ Binned'
  BY <1>1
  DEF Settling, Company, InFlight, Quiet, Held, Writing, Active, Away, Moved, Importing, Shelved,
      Leaving, Building, Coming, Back, Binned, Trashed
<1>3. Filed'
  BY <1>1
  DEF Settling, Filed, Away, Purging, Home, FilesOf, Importing, InFlight
<1>4. Recorded' BY <1>1 DEF Settling, Recorded, Gone, InFlight, DeletedFile
<1>5. QED BY <1>2, <1>3, <1>4 DEF Settling

LEMMA SettlingInit == Init => Settling
<1> SUFFICES ASSUME Init PROVE Settling  OBVIOUS
<1>1. /\ \A r \in Req : pc[r] = "idle" /\ faults[r] = 0 /\ job[r] = "none" /\ arg[r] = NoArg
      /\ \A b \in Id : status[b] = IF b \in Seeded THEN "active" ELSE "absent"
      /\ \A f \in Id : at[f] = IF f \in Seeded THEN Live(f) ELSE Nowhere
      /\ dirs = {Live(b) : b \in Seeded} /\ rows = Seeded
  BY DEF Init
<1>2. InFlight = {}
  BY <1>1 DEF InFlight, Running, CreateSteps, UploadSteps, DeleteSteps, RestoreSteps,
              FileSteps, UpdateSteps, ImportSteps
<1>3. \A r \in Req : ~Importing(r) BY <1>1, NoneIsNoValue DEF Importing, NoArg, AllOps
<1>4. \A b : ~Leaving(b) /\ ~Coming(b) /\ ~Building(b) /\ ~Purging(b)
  BY <1>1 DEF Leaving, Moved, Coming, Back, Building, Purging
<1>5. Company /\ Quiet
  BY <1>1, <1>2, <1>3 DEF Company, Quiet, Retreats, CreateSteps, Importing
<1>6. Held
  BY <1>1, <1>3 DEF Held, Writing, UploadSteps, Away, Moved
<1>7. \A b \in Id : Live(b) \in dirs <=> b \in Seeded
  <2>1. dirs = {Live(b) : b \in Seeded} BY <1>1
  <2>2. \A b \in Id : Live(b) \in dirs => \E c \in Seeded : Live(b) = Live(c) BY <2>1
  <2>3. \A b, c : Live(b) = Live(c) => b = c BY PathsDiffer
  <2>4. \A b \in Id : Live(b) \in dirs => b \in Seeded BY <2>2, <2>3
  <2>5. \A b \in Seeded : Live(b) \in dirs BY <2>1
  <2>6. QED BY <2>4, <2>5
<1>8. Shelved BY <1>1, <1>4, <1>7 DEF Shelved, Active
<1>12. \A s : Slot(s) \notin dirs BY <1>1, PathsDiffer
<1>13. Binned BY <1>1, <1>12 DEF Binned, Trashed, Moved
<1>9. Filed
  <2>1. \A f \in Seeded : Live(f) \in Dir BY DEF Dir, LiveDirs, Id
  <2>2. \A f \in Seeded : f \in Id BY DEF Id
  <2>3. QED
    BY <1>1, <1>2, <1>3, <1>4, <2>1, <2>2 DEF Filed, Away
<1>10. Recorded BY <1>1 DEF Recorded
<1>11. QED BY <1>5, <1>6, <1>8, <1>9, <1>10, <1>13 DEF Settling

\* When nothing runs, what is stored agrees.
LEMMA SettledAgrees ==
    IInv /\ Orderly /\ Ordered /\ Settling => Consistent /\ JobsTruthful
<1> SUFFICES ASSUME IInv, Orderly, Ordered, Settling, Settled
             PROVE  /\ \A b \in Id : BookOnDisk(b)
                    /\ SlotsOwned
                    /\ \A f \in Id : FileOnDisk(f)
                    /\ \A r \in Req :
                          /\ job[r] # "processing"
                          /\ job[r] = "success" =>
                                /\ Active(r) \/ (Trashed(r) /\ DeletedBook(r))
                                /\ r \in rows \/ DeletedFile(r)
                          /\ job[r] = "failed" =>
                                /\ ~Active(r) /\ ~Trashed(r)
                                /\ r \notin rows /\ at[r] = Nowhere
                                /\ Live(r) \notin dirs
  BY DEF Consistent, JobsTruthful
<1> USE DEF Settling
<1>1. \A q \in Req : q \notin InFlight BY DEF Settled
<1>2. \A q \in Req : ~Moved(q) /\ ~Back(q) /\ ~Away(q) /\ ~Building(q) /\ ~Purging(q)
  BY <1>1, LabelOps
<1>3. \A b : ~Leaving(b) /\ ~Coming(b) /\ ~Building(b) /\ ~Purging(b)
  BY <1>2 DEF Leaving, Coming, Building, Purging
<1>4. /\ \A b : Trashed(b) => ~Active(b)
      /\ status \in [Id -> {"absent", "active", "trashed"}]
      /\ trashPath \in [Id -> Slots \cup {Nowhere}]
      /\ dirs \subseteq Dir /\ Nowhere \notin Dir
  BY PathsDiffer
  DEF Trashed, Active, IInv, TypeOK, DatabaseTypeOK, StorageTypeOK, Dir, LiveDirs, Slots
<1>5. \A b \in Id : BookOnDisk(b) BY <1>3 DEF Shelved, Binned, BookOnDisk
<1>6. SlotsOwned BY <1>2 DEF Binned, SlotsOwned, Slots
<1>7. \A b \in Id : Trashed(b) => trashPath[b] \in dirs /\ SlotOf(trashPath[b], b)
  BY <1>3, <1>4 DEF Binned, IInv, SlotsFit
<1>8. ASSUME NEW f \in Id PROVE FileOnDisk(f)
  <2>1. CASE f \in rows
    <3>1. Home(f) \in Id BY <2>1, HomeType DEF IInv
    <3>2. at[f] \in dirs /\ (at[f] = Live(Home(f)) \/ SlotOf(at[f], Home(f)))
      BY <1>2, <2>1 DEF Filed, Orderly, Housed
    <3>3. CASE at[f] = Live(Home(f))
      BY <1>3, <2>1, <3>1, <3>2, <3>3 DEF Shelved, FileOnDisk
    <3>4. CASE SlotOf(at[f], Home(f))
      <4>1. PICK s \in Req : at[f] = Slot(s) /\ arg[s].book = Home(f) BY <3>4 DEF SlotOf
      <4>2. PICK c \in Id : Trashed(c) /\ trashPath[c] = Slot(s)
        BY <1>2, <3>2, <4>1 DEF Binned
      <4>3. c = Home(f) BY <1>7, <4>1, <4>2, PathsDiffer DEF SlotOf
      <4>4. QED BY <2>1, <4>1, <4>2, <4>3 DEF FileOnDisk
    <3>5. QED BY <3>2, <3>3, <3>4
  <2>2. CASE f \notin rows
    <3>1. ~(f \in Req /\ pc[f] \in Transit)
      BY <1>1, LabelOps DEF Transit, UploadSteps
    <3>2. QED BY <1>3, <2>2, <3>1 DEF Filed, FileOnDisk
  <2>3. QED BY <2>1, <2>2
<1>9. ASSUME NEW r \in Req
      PROVE  /\ job[r] # "processing"
             /\ job[r] = "success" =>
                   /\ Active(r) \/ (Trashed(r) /\ DeletedBook(r))
                   /\ r \in rows \/ DeletedFile(r)
             /\ job[r] = "failed" =>
                   /\ ~Active(r) /\ ~Trashed(r)
                   /\ r \notin rows /\ at[r] = Nowhere
                   /\ Live(r) \notin dirs
  <2>1. r \in Id BY DEF Id
  <2>2. job[r] # "processing" BY <1>1 DEF Recorded
  <2>3. ASSUME job[r] = "success"
        PROVE  /\ Active(r) \/ (Trashed(r) /\ DeletedBook(r))
               /\ r \in rows \/ DeletedFile(r)
    <3>1. status[r] # "absent" /\ (r \in rows \/ DeletedFile(r)) BY <2>3 DEF Recorded
    <3>2. Active(r) \/ Trashed(r) BY <1>4, <2>1, <3>1 DEF Active, Trashed
    <3>3. Trashed(r) => DeletedBook(r) BY <1>7, <2>1 DEF SlotOf, DeletedBook
    <3>4. QED BY <3>1, <3>2, <3>3
  <2>4. job[r] = "failed" => Gone(r) BY DEF Recorded
  <2>5. QED BY <2>2, <2>3, <2>4 DEF Gone, Active, Trashed
<1>10. QED BY <1>5, <1>6, <1>8, <1>9

LEMMA AgreeableApart == Agreeable => DeletesApart
BY OverlapAssumption DEF Agreeable, DeletesApart, Beside, AllOps

SettledInv == Orderly /\ Ordered /\ Settling

LEMMA SettledStep ==
    ASSUME Agreeable, IInv, SettledInv, [Next]_vars, [Calm]_vars PROVE SettledInv'
<1> USE DEF SettledInv
<1>1. CASE UNCHANGED vars BY <1>1, OrderlyStutter, OrderedStutter, SettlingStutter
<1>2. ASSUME Next, Calm PROVE SettledInv'
  <2>1. ~Crash
    <3>1. crashes \in Nat BY DEF IInv, TypeOK, ControlTypeOK
    <3>2. crashes + 1 # crashes BY <3>1
    <3>3. QED BY <1>2, <3>2 DEF Crash, Calm
  <2>2. ASSUME NEW r \in Req, Start(r) PROVE SettledInv'
    BY <1>2, <2>2, AgreeableApart, OrderlyStart, OrderedStart, SettlingStart
  <2>3. ASSUME NEW r \in Req, Work(r) PROVE SettledInv'
    BY <1>2, <2>3, OrderlyWork, OrderedWork, SettlingWork
  <2>4. QED BY <1>2, <2>1, <2>2, <2>3 DEF Next
<1>3. QED BY <1>1, <1>2

LEMMA SettledHolds ==
    ASSUME Agreeable PROVE Spec /\ [][Calm]_vars => [](Consistent /\ JobsTruthful)
<1>1. Init => SettledInv BY OrderlyInit, OrderedInit, SettlingInit DEF SettledInv
<1>2. IInv /\ SettledInv /\ [Next]_vars /\ [Calm]_vars => SettledInv' BY SettledStep
<1>3. IInv /\ SettledInv => Consistent /\ JobsTruthful
  BY SettledAgrees DEF SettledInv
<1>4. QED BY <1>1, <1>2, <1>3, Invariance, PTL DEF Spec

(***************************************************************************)
(* Where only what can stand each other overlaps (Agreeable), the process  *)
(* does not stop, and no more fails than one call of a request, which its  *)
(* compensation then takes back undisturbed (Calm), the catalogue and the  *)
(* disk agree whenever nothing runs: every book has the directory its row  *)
(* says, every slot of the trash a book, every row its file, and no file   *)
(* is left that no row leads to.                                           *)
(***************************************************************************)
THEOREM CatalogueAgreesWithDisk == Agreeable => (Spec /\ [][Calm]_vars => []Consistent)
<1> SUFFICES ASSUME Agreeable PROVE Spec /\ [][Calm]_vars => []Consistent
  OBVIOUS
<1>1. QED BY SettledHolds, PTL

(***************************************************************************)
(* And an import job that has ended tells what became of its import.       *)
(***************************************************************************)
THEOREM JobsAreTruthful == Agreeable => (Spec /\ [][Calm]_vars => []JobsTruthful)
<1> SUFFICES ASSUME Agreeable PROVE Spec /\ [][Calm]_vars => []JobsTruthful
  OBVIOUS
<1>1. QED BY SettledHolds, PTL
=============================================================================
