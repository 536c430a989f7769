---------------------------- MODULE ReadersProofs ----------------------------
(***************************************************************************)
(* The readers of the library, for any number of requests, failing calls   *)
(* and steps.  Backups first, any number of them at once: their types,     *)
(* that a backup on record validates while it is retained, and that an     *)
(* archive holds the files of its snapshot.  Then the scan: that it misses *)
(* nothing, and reports nothing that never was.  The steps of requests and *)
(* of the library change none of what backups and scan have of their own.  *)
(***************************************************************************)
EXTENDS Backups, Scanner, LibraryProofs

BLabel == BRunning \cup Ended \cup {"idle"}

\* The bounds are naturals.
LEMMA Bounds ==
    /\ MaxClock \in Nat /\ Retention \in Nat /\ FaultsPerBackup \in Nat
    /\ None \notin Backup /\ None \notin Second
BY BackupAssumption DEF Second

\* Going on, or failing, keeps the types of control.
LEMMA BGoType ==
    ASSUME BTypeOK, NEW k \in Backup, NEW l \in BLabel, BGo(k, l) \/ BFail(k, l)
    PROVE  /\ clock' \in Second /\ bpc' \in [Backup -> BLabel]
           /\ bfaults' \in [Backup -> 0..FaultsPerBackup]
<1>1. CASE BGo(k, l) BY <1>1 DEF BGo, BTypeOK, BLabel
<1>2. CASE BFail(k, l)
  <2>1. bfaults[k] + 1 \in 0..FaultsPerBackup BY <1>2, Bounds DEF BFail, BTypeOK
  <2>2. QED BY <1>2, <2>1 DEF BFail, BTypeOK, BLabel
<1>3. QED BY <1>1, <1>2

\* So does a step that does nothing else, and one that fails.
LEMMA BStepType ==
    ASSUME BTypeOK, NEW k \in Backup, NEW l \in BLabel, BStep(k, l) \/ BFail(k, l)
    PROVE  BTypeOK'
<1>1. UNCHANGED <<snap, name, left, cur, queue, packed, closed, entry, sum, sidecar, record>>
  BY DEF BStep, BFail, own, walk, archives
<1>2. QED BY <1>1, BGoType DEF BStep, BTypeOK, BLabel

LEMMA BLabels == BRunning \cup Ended \cup {"idle", "error", "ok"} \subseteq BLabel
BY DEF BLabel, Ended

\* A step of the making of an archive keeps the types.
LEMMA TypesMaking ==
    ASSUME BTypeOK, rows \subseteq Id, NEW k \in Backup,
           BStart(k) \/ BSnap(k) \/ BOpen(k) \/ BList(k) \/ BDir(k) \/ BPack(k)
    PROVE  BTypeOK'
<1>0. BRunning \cup {"error", "ok"} \subseteq BLabel BY BLabels
<1> USE DEF BRunning
<1>1. CASE BStart(k) BY <1>0, <1>1, BStepType DEF BStart
<1>2. CASE BSnap(k)
  <2>1. CASE BFail(k, "error") BY <1>0, <2>1, BStepType
  <2>2. CASE ~BFail(k, "error")
    <3>1. BGo(k, "b_open") /\ UNCHANGED <<walk, sum, archives, record>>
      BY <1>2, <2>2 DEF BSnap
    <3>2. snap' \in [Backup -> SUBSET Id] /\ name' \in [Backup -> Second \cup {None}]
      BY <1>2, <2>2 DEF BSnap, BTypeOK, ActiveFiles
    <3>3. QED BY <1>0, <3>1, <3>2, BGoType DEF BTypeOK, BLabel, walk, archives
  <2>3. QED BY <2>1, <2>2
<1>3. CASE BOpen(k)
  <2>1. CASE BFail(k, "b_remove") \/ BStep(k, "b_remove") BY <1>0, <2>1, BStepType
  <2>2. CASE /\ entry' = [entry EXCEPT ![name[k]] = k]
             /\ BGo(k, "b_list")
             /\ UNCHANGED <<vars, own, packed, closed, sidecar, record>>
    BY <1>0, <2>2, BGoType DEF BTypeOK, BLabel, own, walk
  <2>3. QED BY <1>3, <2>1, <2>2 DEF BOpen
<1>4. CASE BList(k)
  <2>1. CASE BFail(k, "b_remove") BY <1>0, <2>1, BStepType
  <2>2. CASE /\ left' = [left EXCEPT ![k] = {b \in Id : Live(b) \in dirs}]
             /\ BGo(k, "b_dir")
             /\ UNCHANGED <<vars, snap, name, cur, queue, sum, archives, record>>
    BY <1>0, <2>2, BGoType DEF BTypeOK, BLabel, archives
  <2>3. QED BY <1>4, <2>1, <2>2 DEF BList
<1>5. CASE BDir(k)
  <2>1. CASE BFail(k, "b_remove") \/ BStep(k, "b_remove") BY <1>0, <2>1, BStepType
  <2>2. CASE /\ closed' = closed \cup {k}
             /\ BGo(k, "b_sum")
             /\ UNCHANGED <<vars, own, packed, entry, sidecar, record>>
    BY <1>0, <2>2, BGoType DEF BTypeOK, BLabel, own, walk
  <2>3. ASSUME NEW b \in left[k],
               /\ left' = [left EXCEPT ![k] = @ \ {b}]
               /\ cur' = [cur EXCEPT ![k] = b]
               /\ queue' = [queue EXCEPT ![k] = {f \in Id : at[f] = Live(b)}]
               /\ BGo(k, "b_pack")
               /\ UNCHANGED <<vars, snap, name, sum, archives, record>>
        PROVE  BTypeOK'
    BY <1>0, <2>3, BGoType DEF BTypeOK, BLabel, archives
  <2>4. QED BY <1>5, <2>1, <2>2, <2>3 DEF BDir
<1>6. CASE BPack(k)
  <2>1. CASE BFail(k, "b_remove") \/ BStep(k, "b_remove") \/ BStep(k, "b_dir")
    BY <1>0, <2>1, BStepType
  <2>2. ASSUME NEW f \in queue[k],
               /\ queue' = [queue EXCEPT ![k] = @ \ {f}]
               /\ packed' = [packed EXCEPT ![k] = @ \cup {f}]
               /\ BGo(k, "b_pack")
               /\ UNCHANGED <<vars, snap, name, left, cur, sum, closed, entry,
                              sidecar, record>>
        PROVE  BTypeOK'
    BY <1>0, <2>2, BGoType DEF BTypeOK, BLabel
  <2>3. QED BY <1>6, <2>1, <2>2 DEF BPack
<1>7. QED BY <1>1, <1>2, <1>3, <1>4, <1>5, <1>6

\* So does a step that removes, sums, describes or records it.
LEMMA TypesRecording ==
    ASSUME BTypeOK, BShapes, NEW k \in Backup,
           BRemove(k) \/ BSum(k) \/ BSide(k) \/ BStat(k) \/ BRecord(k) \/ BDrop(k)
    PROVE  BTypeOK'
<1>0. BRunning \cup {"error", "ok"} \subseteq BLabel BY BLabels
<1> USE DEF BRunning
<1>1. CASE BRemove(k)
  <2>1. CASE BFail(k, "error") BY <1>0, <2>1, BStepType
  <2>2. CASE /\ entry' = [entry EXCEPT ![name[k]] = None]
             /\ BGo(k, "error")
             /\ UNCHANGED <<vars, own, packed, closed, sidecar, record>>
    BY <1>0, <2>2, BGoType DEF BTypeOK, BLabel, own, walk
  <2>3. QED BY <1>1, <2>1, <2>2 DEF BRemove
<1>2. CASE BSum(k)
  <2>1. CASE BFail(k, "error") \/ BStep(k, "error") BY <1>0, <2>1, BStepType
  <2>2. CASE /\ entry[name[k]] # None
             /\ sum' = [sum EXCEPT ![k] = Hash(entry[name[k]])]
             /\ BGo(k, "b_side")
             /\ UNCHANGED <<vars, snap, name, walk, archives, record>>
    <3>1. name[k] \in Second BY <1>2 DEF BSum, BAt, BShapes
    <3>2. Hash(entry[name[k]]) \in Sum BY <2>2, <3>1 DEF Hash, Sum, BTypeOK
    <3>3. sum' \in [Backup -> Sum \cup {None}] BY <2>2, <3>2 DEF BTypeOK
    <3>4. QED BY <1>0, <2>2, <3>3, BGoType DEF BTypeOK, BLabel, walk, archives
  <2>3. QED BY <1>2, <2>1, <2>2 DEF BSum
<1>3. CASE BSide(k)
  <2>1. CASE BFail(k, "b_remove") BY <1>0, <2>1, BStepType
  <2>2. CASE /\ sidecar' = [sidecar EXCEPT ![name[k]] = sum[k]]
             /\ BGo(k, "b_stat")
             /\ UNCHANGED <<vars, own, packed, closed, entry, record>>
    BY <1>0, <2>2, BGoType DEF BTypeOK, BLabel, own, walk
  <2>3. QED BY <1>3, <2>1, <2>2 DEF BSide
<1>4. CASE BStat(k) BY <1>0, <1>4, BStepType DEF BStat
<1>5. CASE BRecord(k)
  <2>1. CASE BFail(k, "b_drop") BY <1>0, <2>1, BStepType
  <2>2. CASE /\ record' = [record EXCEPT ![k] =
                             [name |-> name[k], sum |-> sum[k], made |-> clock]]
             /\ BGo(k, "b_old")
             /\ UNCHANGED <<vars, own, archives>>
    <3>1. [name |-> name[k], sum |-> sum[k], made |-> clock]
             \in [name : Second, sum : Sum, made : Second]
      BY <1>5 DEF BRecord, BAt, BShapes, BTypeOK
    <3>2. record' \in [Backup -> [name : Second, sum : Sum, made : Second] \cup {None}]
      BY <2>2, <3>1 DEF BTypeOK
    <3>3. QED BY <1>0, <2>2, <3>2, BGoType DEF BTypeOK, BLabel, own, walk, archives
  <2>3. QED BY <1>5, <2>1, <2>2 DEF BRecord
<1>6. CASE BDrop(k)
  <2>1. CASE BFail(k, "error") BY <1>0, <2>1, BStepType
  <2>2. CASE RemoveFiles(k, name[k], "error") /\ UNCHANGED walk
    BY <1>0, <2>2, BGoType DEF BTypeOK, BLabel, RemoveFiles, walk
  <2>3. QED BY <1>6, <2>1, <2>2 DEF BDrop
<1>7. QED BY <1>1, <1>2, <1>3, <1>4, <1>5, <1>6

\* So does a step of prune.
LEMMA TypesPruning ==
    ASSUME BTypeOK, NEW k \in Backup, BOld(k) \/ BFiles(k) \/ BRow(k)
    PROVE  BTypeOK'
<1>0. BRunning \cup {"error", "ok"} \subseteq BLabel BY BLabels
<1> USE DEF BRunning
<1>1. CASE BOld(k)
  <2>1. CASE BFail(k, "ok") BY <1>0, <2>1, BStepType
  <2>2. CASE /\ left' = [left EXCEPT ![k] = {q \in Backup : record[q] # None /\ Expired(q)}]
             /\ BGo(k, "b_files")
             /\ UNCHANGED <<vars, snap, name, cur, queue, sum, archives, record>>
    BY <1>0, <2>2, BGoType DEF BTypeOK, BLabel, archives
  <2>3. QED BY <1>1, <2>1, <2>2 DEF BOld
<1>2. CASE BFiles(k)
  <2>1. CASE BStep(k, "ok") BY <1>0, <2>1, BStepType
  <2>2. ASSUME NEW q \in left[k],
               /\ left' = [left EXCEPT ![k] = @ \ {q}]
               /\ cur' = [cur EXCEPT ![k] = q]
               /\ UNCHANGED queue
               /\ RemoveFiles(k, name[q], "b_row")
        PROVE  BTypeOK'
    BY <1>0, <2>2, BGoType DEF BTypeOK, BLabel, RemoveFiles
  <2>3. QED BY <1>2, <2>1, <2>2 DEF BFiles
<1>3. CASE BRow(k)
  <2>1. CASE BFail(k, "b_files") BY <1>0, <2>1, BStepType
  <2>2. CASE /\ record' = [record EXCEPT ![cur[k]] = None]
             /\ BGo(k, "b_files")
             /\ UNCHANGED <<vars, own, archives>>
    BY <1>0, <2>2, BGoType DEF BTypeOK, BLabel, own, walk, archives
  <2>3. QED BY <1>3, <2>1, <2>2 DEF BRow
<1>4. QED BY <1>1, <1>2, <1>3

\* Tick and Stop keep the types, and what is beside the backups keeps them.
LEMMA TypesBeside ==
    ASSUME BTypeOK, BShapes, Tick \/ Stop \/ UNCHANGED bvars
    PROVE  BTypeOK' /\ BShapes'
<1>1. CASE Tick
  <2>1. clock' \in Second BY <1>1, Bounds DEF Tick, BTypeOK, Second
  <2>2. UNCHANGED <<bpc, snap, name, left, cur, queue, packed, closed, entry, sum, sidecar,
                    record, bfaults>>
    BY <1>1 DEF Tick, own, walk, archives
  <2>3. QED BY <2>1, <2>2 DEF BTypeOK, BShapes
<1>2. CASE Stop
  <2>1. bpc' \in [Backup -> BLabel]
    BY <1>2 DEF Stop, BTypeOK, BLabel, Ended
  <2>2. \A k \in Backup : bpc'[k] \notin BRunning
    BY <1>2 DEF Stop, BTypeOK, Busy, BRunning
  <2>3. UNCHANGED <<clock, snap, name, left, cur, queue, packed, closed, entry, sum, sidecar,
                    record, bfaults>>
    BY <1>2 DEF Stop, own, walk, archives
  <2>4. BTypeOK' BY <2>1, <2>3 DEF BTypeOK, BLabel
  <2>5. BShapes' BY <2>2 DEF BShapes, BRunning
  <2>6. QED BY <2>4, <2>5
<1>3. CASE UNCHANGED bvars
  BY <1>3 DEF bvars, own, walk, archives, BTypeOK, BShapes
<1>4. QED BY <1>1, <1>2, <1>3

\* A step of backup k changes nothing that is another's, and none of the library.
LEMMA BMoves ==
    ASSUME BTypeOK, NEW k \in Backup, BStart(k) \/ BWork(k)
    PROVE  /\ UNCHANGED <<vars, clock>>
           /\ bpc[k] \in BRunning \cup {"idle"} /\ bpc'[k] \in BLabel
           /\ \A j \in Backup \ {k} :
                /\ bpc'[j] = bpc[j] /\ snap'[j] = snap[j] /\ name'[j] = name[j]
                /\ left'[j] = left[j] /\ cur'[j] = cur[j] /\ queue'[j] = queue[j]
                /\ sum'[j] = sum[j] /\ packed'[j] = packed[j]
                /\ j \in closed' <=> j \in closed
<1> USE DEF BTypeOK, BAt, BGo, BStep, BFail, own, walk, archives, BRunning, BLabel, Ended
<1>1. CASE BStart(k) BY <1>1 DEF BStart
<1>2. CASE BSnap(k) BY <1>2 DEF BSnap
<1>3. CASE BOpen(k) BY <1>3 DEF BOpen
<1>4. CASE BList(k) BY <1>4 DEF BList
<1>5. CASE BDir(k) BY <1>5 DEF BDir
<1>6. CASE BPack(k) BY <1>6 DEF BPack
<1>7. CASE BRemove(k) BY <1>7 DEF BRemove
<1>8. CASE BSum(k) BY <1>8 DEF BSum
<1>9. CASE BSide(k) BY <1>9 DEF BSide
<1>10. CASE BStat(k) BY <1>10 DEF BStat
<1>11. CASE BRecord(k) BY <1>11 DEF BRecord
<1>12. CASE BDrop(k) BY <1>12 DEF BDrop, RemoveFiles
<1>13. CASE BOld(k) BY <1>13 DEF BOld
<1>14. CASE BFiles(k) BY <1>14 DEF BFiles, RemoveFiles
<1>15. CASE BRow(k) BY <1>15 DEF BRow
<1>16. QED
  BY <1>1, <1>2, <1>3, <1>4, <1>5, <1>6, <1>7, <1>8, <1>9, <1>10, <1>11, <1>12, <1>13, <1>14,
     <1>15 DEF BWork

\* A step of backup k leaves it with what its next step needs.
LEMMA ShapesBackup ==
    ASSUME BTypeOK, BShapes, NEW k \in Backup, BStart(k) \/ BWork(k)
    PROVE  BShapes'
<1>1. SUFFICES
        /\ bpc'[k] \in BRunning \ {"b_snap"} => name'[k] \in Second
        /\ bpc'[k] \in {"b_side", "b_stat", "b_record"} => sum'[k] \in Sum
        /\ bpc'[k] \in {"b_files", "b_row"} => left'[k] \subseteq Backup
  BY BMoves DEF BShapes
<1> USE DEF BTypeOK, BShapes, BAt, BGo, BStep, BFail, own, walk, archives, BRunning
<1>2. CASE BStart(k) BY <1>2 DEF BStart
<1>3. CASE BSnap(k) BY <1>3 DEF BSnap
<1>4. CASE BOpen(k) BY <1>4 DEF BOpen
<1>5. CASE BList(k) BY <1>5 DEF BList
<1>6. CASE BDir(k) BY <1>6 DEF BDir
<1>7. CASE BPack(k) BY <1>7 DEF BPack
<1>8. CASE BRemove(k) BY <1>8 DEF BRemove
<1>9. CASE BSum(k)
  <2>1. entry[name[k]] # None => Hash(entry[name[k]]) \in Sum
    <3>1. name[k] \in Second BY <1>9 DEF BSum
    <3>2. QED BY <3>1 DEF Hash, Sum
  <2>2. QED BY <1>9, <2>1 DEF BSum
<1>10. CASE BSide(k) BY <1>10 DEF BSide
<1>11. CASE BStat(k) BY <1>11 DEF BStat
<1>12. CASE BRecord(k) BY <1>12 DEF BRecord
<1>13. CASE BDrop(k) BY <1>13 DEF BDrop, RemoveFiles
<1>14. CASE BOld(k) BY <1>14 DEF BOld
<1>15. CASE BFiles(k) BY <1>15 DEF BFiles, RemoveFiles
<1>16. CASE BRow(k) BY <1>16 DEF BRow
<1>17. QED
  BY <1>2, <1>3, <1>4, <1>5, <1>6, <1>7, <1>8, <1>9, <1>10, <1>11, <1>12, <1>13, <1>14,
     <1>15, <1>16 DEF BWork

-----------------------------------------------------------------------------
(* The library beside the backups.                                         *)

\* The process may stop when only backups run: the library loses nothing.
LEMMA StopSettled ==
    ASSUME IInv, Stop, Settled PROVE IInv'
<1>1. /\ crashes' \in 0..MaxCrashes
      /\ UNCHANGED <<disk, pc, arg, seen, faults, database>>
  BY BoundsAreNat DEF Stop, IInv, TypeOK, ControlTypeOK
<1>2. UNCHANGED <<dirs, at, status, trashPath, rows, writer, job>>
  BY <1>1 DEF disk, database, catalogue
<1>3. TypeOK'
  BY <1>1, <1>2, StorageSame, DatabaseSame DEF IInv, TypeOK, ControlTypeOK
<1>4. QED
  BY <1>1, <1>2, <1>3 DEF IInv, Shapes, Shape, NoEarlyRow, InsertsAlone, Catalogued, UniqueContent, SlotsFit, SlotOf, FilesLocated, Undone, Located, Home, ContentOf

\* The invariant of the library holds beside backups too.
LEMMA LibraryKept == ASSUME IInv, BTypeOK, [BNext]_allVars PROVE IInv'
<1>1. CASE Request BY <1>1, InvWork, InvStart DEF Request
<1>2. CASE Stop BY <1>2, StopSettled, InvCrash DEF Stop
<1>3. CASE Tick \/ UNCHANGED allVars BY <1>3, InvStutter DEF Tick, allVars
<1>4. ASSUME NEW k \in Backup, BStart(k) \/ BWork(k) PROVE IInv'
  BY <1>4, BMoves, InvStutter
<1>5. QED BY <1>1, <1>2, <1>3, <1>4 DEF BNext

\* The types hold initially, and every step keeps them.
LEMMA TypesInit == BInit => IInv /\ BTypeOK /\ BShapes
<1>1. BInit => IInv BY InvInit DEF BInit
<1>2. BInit => BTypeOK BY Bounds DEF BInit, BTypeOK, Second
<1>3. BInit => BShapes BY DEF BInit, BShapes, BRunning
<1>4. QED BY <1>1, <1>2, <1>3

LEMMA TypesStep ==
    ASSUME IInv, BTypeOK, BShapes, [BNext]_allVars PROVE IInv' /\ BTypeOK' /\ BShapes'
<1>1. IInv' BY LibraryKept
<1>2. CASE Request \/ Stop \/ Tick \/ UNCHANGED allVars
  <2>1. Tick \/ Stop \/ UNCHANGED bvars BY <1>2 DEF Request, allVars
  <2>2. QED BY <1>1, <2>1, TypesBeside
<1>3. ASSUME NEW k \in Backup, BStart(k) \/ BWork(k) PROVE BTypeOK' /\ BShapes'
  <2>1. rows \subseteq Id BY DEF IInv, TypeOK, DatabaseTypeOK
  <2>2. QED
    BY <1>3, <2>1, TypesMaking, TypesRecording, TypesPruning, ShapesBackup DEF BWork
<1>4. QED BY <1>1, <1>2, <1>3 DEF BNext

(***************************************************************************)
(* However many backups overlap each other and the requests, fail and are  *)
(* lost, every variable keeps its type, a backup has a name when it is     *)
(* needed, and the library keeps its own invariant beside them.            *)
(***************************************************************************)
THEOREM BackupsTyped == BSpec => [](IInv /\ BTypeOK /\ BShapes)
BY TypesInit, TypesStep, PTL DEF BSpec

-----------------------------------------------------------------------------
(* Any backups, at once or one after the other.                            *)

\* What a step of backup k does to names, archives, checksums and rows.
LEMMA BEffect ==
    ASSUME BTypeOK, NEW k \in Backup, BStart(k) \/ BWork(k)
    PROVE  /\ \/ UNCHANGED name
              \/ bpc[k] = "b_snap" /\ name' = [name EXCEPT ![k] = clock]
           /\ \/ UNCHANGED entry
              \/ /\ bpc[k] = "b_open" /\ entry[name[k]] = None
                 /\ entry' = [entry EXCEPT ![name[k]] = k]
              \/ /\ bpc[k] \in {"b_remove", "b_drop"} /\ bpc'[k] = "error"
                 /\ entry' = [entry EXCEPT ![name[k]] = None]
              \/ /\ bpc[k] = "b_files"
                 /\ \E q \in left[k] : /\ entry' = [entry EXCEPT ![name[q]] = None]
                                       /\ sidecar' = [sidecar EXCEPT ![name[q]] = None]
           /\ \/ UNCHANGED sidecar
              \/ /\ bpc[k] = "b_side" /\ bpc'[k] = "b_stat"
                 /\ sidecar' = [sidecar EXCEPT ![name[k]] = sum[k]]
              \/ /\ bpc[k] = "b_drop" /\ bpc'[k] = "error"
                 /\ sidecar' = [sidecar EXCEPT ![name[k]] = None]
              \/ /\ bpc[k] = "b_files"
                 /\ \E q \in left[k] : /\ entry' = [entry EXCEPT ![name[q]] = None]
                                       /\ sidecar' = [sidecar EXCEPT ![name[q]] = None]
           /\ \/ UNCHANGED record
              \/ /\ bpc[k] = "b_record" /\ bpc'[k] = "b_old"
                 /\ record' = [record EXCEPT ![k] =
                                  [name |-> name[k], sum |-> sum[k], made |-> clock]]
              \/ bpc[k] = "b_row" /\ record' = [record EXCEPT ![cur[k]] = None]
           /\ \/ UNCHANGED sum
              \/ /\ bpc[k] = "b_sum" /\ entry[name[k]] # None
                 /\ sum' = [sum EXCEPT ![k] = Hash(entry[name[k]])]
           /\ \/ bpc[k] \in {"b_dir", "b_pack"}
              \/ UNCHANGED <<packed, closed>>
<1> USE DEF BTypeOK, BAt, BGo, BStep, BFail, own, walk, archives
<1>1. CASE BStart(k) BY <1>1 DEF BStart
<1>2. CASE BSnap(k) BY <1>2 DEF BSnap
<1>3. CASE BOpen(k) BY <1>3 DEF BOpen
<1>4. CASE BList(k) BY <1>4 DEF BList
<1>5. CASE BDir(k) BY <1>5 DEF BDir
<1>6. CASE BPack(k) BY <1>6 DEF BPack
<1>7. CASE BRemove(k) BY <1>7 DEF BRemove
<1>8. CASE BSum(k) BY <1>8 DEF BSum
<1>9. CASE BSide(k) BY <1>9 DEF BSide
<1>10. CASE BStat(k) BY <1>10 DEF BStat
<1>11. CASE BRecord(k) BY <1>11 DEF BRecord
<1>12. CASE BDrop(k) BY <1>12 DEF BDrop, RemoveFiles
<1>13. CASE BOld(k) BY <1>13 DEF BOld
<1>14. CASE BFiles(k) BY <1>14 DEF BFiles, RemoveFiles
<1>15. CASE BRow(k) BY <1>15 DEF BRow
<1>16. QED
  BY <1>1, <1>2, <1>3, <1>4, <1>5, <1>6, <1>7, <1>8, <1>9, <1>10, <1>11, <1>12, <1>13, <1>14,
     <1>15 DEF BWork

\* Where a step of backup k may come from.
LEMMA BComes ==
    ASSUME BTypeOK, NEW k \in Backup, BStart(k) \/ BWork(k)
    PROVE  /\ bpc'[k] # "idle" /\ bpc'[k] # "lost"
           /\ bpc[k] = "idle" <=> bpc'[k] = "b_snap"
           /\ bpc'[k] = "b_side" => /\ bpc[k] = "b_sum" /\ entry[name[k]] # None
                                    /\ sum'[k] = Hash(entry[name[k]])
           /\ bpc'[k] = "b_stat" => bpc[k] = "b_side" /\ sidecar' = [sidecar EXCEPT ![name[k]] = sum[k]]
           /\ bpc'[k] = "b_record" => bpc[k] = "b_stat" /\ entry[name[k]] # None
           /\ bpc[k] \in {"b_old", "b_files", "b_row"} =>
                 bpc'[k] \in {"b_files", "b_row", "ok"}
           /\ bpc'[k] \in {"b_files", "b_row"} =>
                 \/ bpc[k] = "b_old" /\ left'[k] = {q \in Backup : record[q] # None /\ Expired(q)}
                 \/ bpc[k] \in {"b_files", "b_row"} /\ left'[k] \subseteq left[k]
<1> USE DEF BTypeOK, BAt, BGo, BStep, BFail, own, walk, archives
<1>1. CASE BStart(k) BY <1>1 DEF BStart
<1>2. CASE BSnap(k) BY <1>2 DEF BSnap
<1>3. CASE BOpen(k) BY <1>3 DEF BOpen
<1>4. CASE BList(k) BY <1>4 DEF BList
<1>5. CASE BDir(k) BY <1>5 DEF BDir
<1>6. CASE BPack(k) BY <1>6 DEF BPack
<1>7. CASE BRemove(k) BY <1>7 DEF BRemove
<1>8. CASE BSum(k) BY <1>8 DEF BSum
<1>9. CASE BSide(k) BY <1>9 DEF BSide
<1>10. CASE BStat(k) BY <1>10 DEF BStat
<1>11. CASE BRecord(k) BY <1>11 DEF BRecord
<1>12. CASE BDrop(k) BY <1>12 DEF BDrop, RemoveFiles
<1>13. CASE BOld(k) BY <1>13 DEF BOld
<1>14. CASE BFiles(k) BY <1>14 DEF BFiles, RemoveFiles
<1>15. CASE BRow(k) BY <1>15 DEF BRow
<1>16. QED
  BY <1>1, <1>2, <1>3, <1>4, <1>5, <1>6, <1>7, <1>8, <1>9, <1>10, <1>11, <1>12, <1>13, <1>14,
     <1>15 DEF BWork

\* What is established before the fact: types, shapes, names.
Named == BTypeOK /\ BShapes /\ Unnamed

\* A name is given once, and what has a namesake keeps it.
LEMMA NamesBackup ==
    ASSUME BTypeOK, Unnamed, NEW k \in Backup, BStart(k) \/ BWork(k)
    PROVE  /\ Unnamed'
           /\ \A j \in Backup : name[j] # None => name'[j] = name[j]
           /\ \A j \in Backup : Namesake(j) => Namesake(j)'
<1>1. /\ \A j \in Backup \ {k} : bpc'[j] = bpc[j] /\ name'[j] = name[j]
      /\ bpc'[k] # "idle" /\ (bpc'[k] = "b_snap" => bpc[k] = "idle")
  BY BMoves, BComes
<1>2. ASSUME NEW j \in Backup, name[j] # None PROVE name'[j] = name[j]
  BY <1>1, <1>2, BEffect DEF Unnamed
<1>3. Unnamed' BY <1>1, BEffect DEF Unnamed
<1>4. ASSUME NEW j \in Backup, Namesake(j) PROVE Namesake(j)'
  BY <1>2, <1>4 DEF Namesake
<1>5. QED BY <1>2, <1>3, <1>4

\* An archive keeps the name of its backup.
LEMMA EntriesBackup ==
    ASSUME Named, EntriesOwned, NEW k \in Backup, BStart(k) \/ BWork(k)
    PROVE  EntriesOwned'
<1> USE DEF Named
<1>1. ASSUME NEW n \in Second, entry'[n] # None PROVE name'[entry'[n]] = n
  <2>1. CASE entry'[n] = entry[n]
    <3>1. entry[n] \in Backup /\ name[entry[n]] = n
      BY <1>1, <2>1 DEF EntriesOwned, BTypeOK
    <3>2. QED BY <2>1, <3>1, NamesBackup, Bounds
  <2>2. CASE entry'[n] # entry[n]
    <3>1. entry' = [entry EXCEPT ![name[k]] = k] /\ UNCHANGED name
      BY <1>1, <2>2, BEffect DEF BTypeOK
    <3>2. QED BY <2>2, <3>1 DEF BTypeOK
  <2>3. QED BY <2>1, <2>2
<1>2. QED BY <1>1 DEF EntriesOwned

\* A backup that has begun its checksum packs no more.
LEMMA HashKept ==
    ASSUME BTypeOK, NEW k \in Backup, BStart(k) \/ BWork(k), NEW j \in Backup,
           bpc[j] \notin {"b_dir", "b_pack"}
    PROVE  Hash(j)' = Hash(j)
<1>1. CASE j # k BY <1>1, BMoves DEF Hash
<1>2. CASE j = k BY <1>2, BEffect DEF Hash
<1>3. QED BY <1>1, <1>2

\* A step of backup k touches no archive of another name.
LEMMA OthersKept ==
    ASSUME Named, OldOnly, NEW k \in Backup, BStart(k) \/ BWork(k),
           NEW j \in Backup, ~Namesake(j), name[j] \in Second, j # k,
           ~(bpc[j] \in Past /\ (record[j] = None \/ Expired(j)))
    PROVE  entry'[name[j]] = entry[name[j]] /\ sidecar'[name[j]] = sidecar[name[j]]
<1> USE DEF Named
<1>1. \A q \in Backup : name[q] = name[j] => q = j BY Bounds DEF Namesake
<1>2. ASSUME NEW q \in left[k], bpc[k] = "b_files" PROVE name[q] # name[j]
  BY <1>1, <1>2 DEF OldOnly, BShapes
<1>3. QED BY <1>1, <1>2, BEffect DEF BTypeOK

\* A backup without a namesake knows its own archive.
LEMMA SummedBackup ==
    ASSUME Named, EntriesOwned, Summed, OldOnly, NEW k \in Backup, BStart(k) \/ BWork(k)
    PROVE  Summed'
<1> USE DEF Named
<1> SUFFICES ASSUME NEW j \in Backup, ~Namesake(j)'
             PROVE  /\ bpc'[j] \in {"b_side", "b_stat", "b_record"} => sum'[j] = Hash(j)'
                    /\ bpc'[j] \in {"b_stat", "b_record"} => sidecar'[name'[j]] = sum'[j]
                    /\ bpc'[j] = "b_record" => entry'[name'[j]] = j
  BY DEF Summed
<1>1. ~Namesake(j) BY NamesBackup
<1>2. name[j] \in Second /\ entry[name[j]] # None => entry[name[j]] = j
  BY <1>1, Bounds DEF EntriesOwned, Namesake, BTypeOK
<1>3. CASE j # k /\ bpc[j] \in {"b_side", "b_stat", "b_record"}
  <2>1. name[j] \in Second BY <1>3 DEF BShapes, BRunning
  <2>2. bpc'[j] = bpc[j] /\ sum'[j] = sum[j] /\ name'[j] = name[j] BY <1>3, BMoves
  <2>3. Hash(j)' = Hash(j) BY <1>3, HashKept
  <2>4. entry'[name[j]] = entry[name[j]] /\ sidecar'[name[j]] = sidecar[name[j]]
    BY <1>1, <1>3, <2>1, OthersKept DEF Past
  <2>5. QED BY <1>1, <1>3, <2>2, <2>3, <2>4 DEF Summed
<1>4. CASE j # k /\ bpc[j] \notin {"b_side", "b_stat", "b_record"} BY <1>4, BMoves
<1>5. CASE j = k /\ bpc'[k] = "b_side"
  <2>1. bpc[k] = "b_sum" /\ entry[name[k]] # None /\ sum'[k] = Hash(entry[name[k]])
    BY <1>5, BComes
  <2>2. name[k] \in Second BY <2>1 DEF BShapes, BRunning
  <2>3. Hash(k)' = Hash(k) BY <2>1, HashKept
  <2>4. QED BY <1>2, <1>5, <2>1, <2>2, <2>3
<1>6. CASE j = k /\ bpc'[k] = "b_stat"
  <2>1. bpc[k] = "b_side" /\ sidecar' = [sidecar EXCEPT ![name[k]] = sum[k]]
    BY <1>6, BComes
  <2>2. name[k] \in Second BY <2>1 DEF BShapes, BRunning
  <2>3. Hash(k)' = Hash(k) BY <2>1, HashKept
  <2>4. UNCHANGED <<sum, name>> BY <2>1, BEffect
  <2>5. QED BY <1>1, <1>6, <2>1, <2>2, <2>3, <2>4 DEF Summed, BTypeOK
<1>7. CASE j = k /\ bpc'[k] = "b_record"
  <2>1. bpc[k] = "b_stat" /\ entry[name[k]] # None BY <1>7, BComes
  <2>2. name[k] \in Second BY <2>1 DEF BShapes, BRunning
  <2>3. Hash(k)' = Hash(k) BY <2>1, HashKept
  <2>4. UNCHANGED <<sum, name, entry, sidecar>> BY <2>1, BEffect
  <2>5. QED BY <1>1, <1>2, <1>7, <2>1, <2>2, <2>3, <2>4 DEF Summed
<1>8. QED BY <1>3, <1>4, <1>5, <1>6, <1>7

\* What was on record stays true of its archive.
LEMMA RecordsBackup ==
    ASSUME Named, Summed, RecordsTrue, OldOnly, NEW k \in Backup, BStart(k) \/ BWork(k)
    PROVE  RecordsTrue'
<1> USE DEF Named
<1> SUFFICES ASSUME NEW j \in Backup, record'[j] # None
             PROVE  /\ bpc'[j] \in Past
                    /\ record'[j].name = name'[j]
                    /\ ~Namesake(j)' =>
                         /\ record'[j].sum = Hash(j)'
                         /\ Expired(j)' \/ (entry'[name'[j]] = j /\ sidecar'[name'[j]] = Hash(j)')
  BY DEF RecordsTrue
<1>0. Namesake(j) => Namesake(j)' BY NamesBackup
<1>1. CASE record'[j] = record[j]
  <2>1. /\ bpc[j] \in Past
        /\ record[j].name = name[j] /\ record[j].name \in Second
        /\ ~Namesake(j) =>
              /\ record[j].sum = Hash(j)
              /\ Expired(j) \/ (entry[name[j]] = j /\ sidecar[name[j]] = Hash(j))
    BY <1>1 DEF RecordsTrue, BTypeOK
  <2>2. bpc'[j] \in Past BY <2>1, BMoves, BComes DEF BRunning, Past
  <2>3. Hash(j)' = Hash(j) BY <2>1, HashKept DEF Past
  <2>4. name'[j] = name[j] /\ clock' = clock BY <2>1, BMoves, NamesBackup, Bounds
  <2>5. Expired(j)' <=> Expired(j) BY <1>1, <2>4 DEF Expired
  <2>6. ASSUME ~Namesake(j), ~Expired(j)
        PROVE  entry'[name[j]] = entry[name[j]] /\ sidecar'[name[j]] = sidecar[name[j]]
    <3>1. CASE j # k BY <1>1, <2>1, <2>6, <3>1, OthersKept
    <3>2. CASE j = k
      <4>1. \A q \in left[k] : bpc[k] = "b_files" => name[q] # name[k]
        BY <1>1, <2>1, <2>6, <3>2, Bounds DEF OldOnly, BShapes, Namesake
      <4>2. QED BY <2>1, <3>2, <4>1, BEffect DEF BTypeOK, Past
    <3>3. QED BY <3>1, <3>2
  <2>7. QED BY <1>0, <1>1, <2>1, <2>2, <2>3, <2>4, <2>5, <2>6
<1>2. CASE record'[j] # record[j]
  <2>1. /\ bpc[k] = "b_record" /\ bpc'[k] = "b_old"
        /\ record' = [record EXCEPT ![k] =
                         [name |-> name[k], sum |-> sum[k], made |-> clock]]
    BY <1>2, BEffect DEF BTypeOK
  <2>2. j = k /\ record'[j] = [name |-> name[k], sum |-> sum[k], made |-> clock]
    BY <1>2, <2>1 DEF BTypeOK
  <2>3. Hash(k)' = Hash(k) BY <2>1, HashKept
  <2>4. UNCHANGED <<name, entry, sidecar>> BY <2>1, BEffect
  <2>5. ~Namesake(k) => sum[k] = Hash(k) /\ sidecar[name[k]] = sum[k] /\ entry[name[k]] = k
    BY <2>1 DEF Summed
  <2>6. QED BY <1>0, <2>1, <2>2, <2>3, <2>4, <2>5 DEF Past
<1>3. QED BY <1>1, <1>2

\* Only what was on record and is too old is pruned.
LEMMA OldBackup ==
    ASSUME Named, RecordsTrue, OldOnly, NEW k \in Backup, BStart(k) \/ BWork(k)
    PROVE  OldOnly'
<1> USE DEF Named
<1> SUFFICES ASSUME NEW j \in Backup, bpc'[j] \in {"b_files", "b_row"}, NEW q \in left'[j]
             PROVE  bpc'[q] \in Past /\ (record'[q] = None \/ Expired(q)')
  BY DEF OldOnly
<1>1. q \in Backup /\ bpc[q] \in Past /\ (record[q] = None \/ Expired(q))
  <2>1. CASE j = k BY <2>1, BComes DEF OldOnly, BShapes, RecordsTrue
  <2>2. CASE j # k BY <2>2, BMoves DEF OldOnly, BShapes
  <2>3. QED BY <2>1, <2>2
<1>2. bpc'[q] \in Past BY <1>1, BMoves, BComes DEF BRunning, Past
<1>3. record'[q] \in {record[q], None} BY <1>1, BEffect DEF BTypeOK, Past
<1>4. QED BY <1>1, <1>2, <1>3, BMoves DEF Expired

\* A step of a backup keeps the invariant.
LEMMA RetainBackup ==
    ASSUME RetainInv, BTypeOK', BShapes', NEW k \in Backup, BStart(k) \/ BWork(k)
    PROVE  RetainInv'
<1>1. Named BY DEF RetainInv, Named
<1>2. QED
  BY <1>1, NamesBackup, EntriesBackup, SummedBackup, RecordsBackup, OldBackup DEF RetainInv, Named

\* So do the passing of time, the end of the process, and the requests.
LEMMA RetainBeside ==
    ASSUME RetainInv, BTypeOK', BShapes', Tick \/ Stop \/ UNCHANGED bvars
    PROVE  RetainInv'
<1> USE DEF RetainInv
<1>1. /\ UNCHANGED <<snap, name, left, cur, queue, packed, closed, entry, sum, sidecar, record>>
      /\ clock \in Nat /\ clock' \in Nat /\ clock <= clock'
      /\ \A k \in Backup : bpc'[k] = bpc[k] \/ (bpc[k] \in BRunning /\ bpc'[k] = "lost")
  <2>1. CASE Tick BY <2>1, Bounds DEF Tick, own, walk, archives, BTypeOK, Second
  <2>2. CASE Stop BY <2>2, Bounds DEF Stop, Busy, own, walk, archives, BTypeOK, Second
  <2>3. CASE UNCHANGED bvars BY <2>3, Bounds DEF bvars, own, walk, archives, BTypeOK, Second
  <2>4. QED BY <2>1, <2>2, <2>3
<1>2. ASSUME NEW k \in Backup
      PROVE  /\ Hash(k)' = Hash(k) /\ (Namesake(k)' <=> Namesake(k))
             /\ record[k] # None /\ Expired(k) => Expired(k)'
  <2>1. Hash(k)' = Hash(k) /\ (Namesake(k)' <=> Namesake(k)) BY <1>1 DEF Hash, Namesake
  <2>2. record[k] # None => record[k].made \in Nat BY DEF BTypeOK, Second
  <2>3. QED BY <1>1, <2>1, <2>2, Bounds DEF Expired
<1>4. Unnamed' BY <1>1 DEF Unnamed
<1>5. EntriesOwned' BY <1>1 DEF EntriesOwned
<1>6. Summed' BY <1>1, <1>2 DEF Summed
<1>7. RecordsTrue' BY <1>1, <1>2 DEF RecordsTrue, Past
<1>8. OldOnly' BY <1>1, <1>2 DEF OldOnly, BShapes, Past
<1>9. QED BY <1>4, <1>5, <1>6, <1>7, <1>8

\* Initially there are no backups.
LEMMA RetainInit == BInit => RetainInv
<1> SUFFICES ASSUME BInit PROVE RetainInv OBVIOUS
<1>1. BTypeOK /\ BShapes BY TypesInit
<1>2. Unnamed /\ EntriesOwned /\ Summed /\ RecordsTrue /\ OldOnly
  BY DEF BInit, Unnamed, EntriesOwned, Summed, RecordsTrue, OldOnly
<1>3. QED BY <1>1, <1>2 DEF RetainInv

\* What is on record and not too old validates.
LEMMA RecordsRetained == RetainInv => Retained
<1> SUFFICES ASSUME RetainInv, NEW k \in Backup, record[k] # None, ~Expired(k), ~Namesake(k)
             PROVE  Validates(k)
  BY DEF Retained
<1>1. /\ record[k].name = name[k] /\ record[k].sum = Hash(k)
      /\ entry[name[k]] = k /\ sidecar[name[k]] = Hash(k)
  BY DEF RetainInv, RecordsTrue
<1>2. QED BY <1>1, Bounds DEF Validates

\* The invariant holds.
LEMMA RetainHolds == BSpec => []RetainInv
<1>1. ASSUME IInv, BTypeOK, BShapes, RetainInv, IInv', BTypeOK', BShapes', [BNext]_allVars
      PROVE  RetainInv'
  <2>1. CASE Request \/ Stop \/ Tick \/ UNCHANGED allVars
    <3>1. Tick \/ Stop \/ UNCHANGED bvars BY <2>1 DEF Request, allVars
    <3>2. QED BY <1>1, <3>1, RetainBeside
  <2>2. ASSUME NEW k \in Backup, BStart(k) \/ BWork(k) PROVE RetainInv'
    BY <1>1, <2>2, RetainBackup
  <2>3. QED BY <1>1, <2>1, <2>2 DEF BNext
<1>2. QED BY <1>1, BackupsTyped, RetainInit, PTL DEF BSpec

(***************************************************************************)
(* A backup on record validates until it is too old, whatever requests do, *)
(* calls fail, other backups make and prune at the same time, and          *)
(* processes are lost, as long as no other got its name in its second.     *)
(***************************************************************************)
THEOREM BackupsRetained == BSpec => []Retained
BY RetainHolds, RecordsRetained, PTL

-----------------------------------------------------------------------------
(* Snapshots and archives beside requests that delete nothing.             *)

\* What a request that deletes nothing does to the disk.
LEMMA DiskWork ==
    ASSUME IInv, NothingDeleted, NEW r \in Req, Work(r)
    PROVE  \/ UNCHANGED at /\ dirs \subseteq dirs' /\ pc'[r] # "u_commit"
           \/ /\ pc[r] \in {"c_rmdir", "p_dir"} /\ pc'[r] # "u_commit"
              /\ RemoveDir(Live(r))
           \/ /\ pc[r] \in UploadSteps \ {"u_commit"}
              /\ \E p : /\ at' = [at EXCEPT ![r] = p] /\ dirs' = dirs
                        /\ pc'[r] = "u_commit" => p = Live(arg[r].book) /\ p \in dirs
<1>1. Shape(r) /\ pc[r] \in Running BY WorkMoves DEF IInv
<1>2. r \in Id /\ pc \in [Req -> Label] BY DEF Id, IInv, TypeOK, ControlTypeOK
<1> USE DEF At, Go, Step, Fail, PutFile, disk, database, catalogue
<1>3. CASE Create(r)
  <2>1. pc'[r] # "u_commit"
    BY <1>3, CreateEffect DEF IInv, Moves, CreateSteps, Created, NotMade
  <2>2. CASE CRmdir(r) BY <2>1, <2>2 DEF CRmdir, RemoveBook
  <2>3. CASE CDir(r) BY <2>1, <2>3 DEF CDir, MakeDir, EnsureDir
  <2>4. CASE CTx(r) \/ CMeta(r) \/ CGet(r) \/ CUnrow(r)
    BY <2>1, <2>4 DEF CTx, CMeta, CGet, CUnrow, Test, ForgetBook
  <2>5. QED BY <1>3, <2>2, <2>3, <2>4 DEF Create
<1>4. CASE Upload(r)
  <2>1. Uploaded(r) # "u_commit" /\ Refused(r) # "u_commit" BY DEF Uploaded, Refused
  <2>2. CASE UCheck(r) \/ UDup(r) \/ UInsert(r)
    BY <1>2, <2>1, <2>2 DEF UCheck, UDup, UInsert, Test
  <2>3. CASE UTemp(r)
    BY <1>2, <2>1, <2>3 DEF UTemp, MoveFile, UploadSteps
  <2>4. CASE UMkdir(r)
    BY <1>2, <2>1, <2>4 DEF UMkdir, MakeDir, EnsureDir
  <2>5. CASE URename(r)
    <3>1. CASE Live(arg[r].book) \in dirs /\ PutFile(r, Live(arg[r].book))
      BY <2>5, <3>1 DEF URename, MoveFile, UploadSteps
    <3>2. CASE Step(r, "u_drop") \/ Fail(r, "u_drop") BY <1>2, <3>2
    <3>3. QED BY <2>5, <3>1, <3>2 DEF URename, MoveFile
  <2>6. CASE UCommit(r) BY <1>2, <2>1, <2>6 DEF UCommit
  <2>7. CASE UDrop(r) BY <1>2, <2>1, <2>7 DEF UDrop, UploadSteps
  <2>8. CASE UUnplace(r)
    <3>1. CASE PutFile(r, Nowhere)
      BY <1>2, <2>1, <2>8, <3>1 DEF UUnplace, MoveFile, UploadSteps
    <3>2. CASE Step(r, Refused(r)) \/ Fail(r, Refused(r)) BY <1>2, <2>1, <3>2
    <3>3. QED BY <2>8, <3>1, <3>2 DEF UUnplace, MoveFile
  <2>9. QED BY <1>4, <2>2, <2>3, <2>4, <2>5, <2>6, <2>7, <2>8 DEF Upload
<1>5. ~Delete(r) /\ ~DeleteFile(r)
  BY <1>1, DeleteEffect, DeleteFileEffect DEF Shape, NothingDeleted, IInv
<1>6. CASE Restore(r)
  <2>1. pc'[r] # "u_commit" BY <1>6, RestoreEffect DEF IInv, Moves, RestoreSteps
  <2>2. pc[r] \notin {"r_move", "r_mark", "r_undo"}
    BY DEF IInv, SlotsFit, SlotOf, NothingDeleted
  <2>3. RCheck(r) BY <1>6, <2>2 DEF Restore, RMove, RMark, RUndo, MoveBook, MarkBook
  <2>4. QED BY <2>1, <2>3 DEF RCheck
<1>7. CASE Update(r)
  <2>1. pc'[r] # "u_commit"
    BY <1>7, UpdateEffect DEF IInv, Moves, UpdateSteps, Updated, Refused
  <2>2. QED BY <1>7, <2>1 DEF Update, ECheck, ETx, EMeta, Test
<1>8. CASE Import(r)
  <2>1. pc'[r] # "u_commit" BY <1>8, ImportEffect DEF IInv, Moves, ImportSteps
  <2>2. CASE PDir(r) BY <2>1, <2>2 DEF PDir, RemoveBook
  <2>3. CASE ~PDir(r)
    BY <1>8, <2>1, <2>3
    DEF Import, JNew, IParse, IFinish, PFiles, PBook, JOk, JFailed, WriteJob, DropRows, ForgetBook
  <2>4. QED BY <2>2, <2>3
<1>9. QED BY <1>3, <1>4, <1>5, <1>6, <1>7, <1>8 DEF Work

\* A book that is being undone stays so.
LEMMA DoomStays ==
    ASSUME IInv, NEW r \in Req, Work(r), NEW b, Doomed(b) PROVE Doomed(b)'
<1>1. Shape(r) /\ pc[r] \in Running /\ \A q \in Req : q # r => pc'[q] = pc[q]
  BY WorkMoves DEF Moves, IInv, TypeOK, ControlTypeOK
<1>2. CASE b # r BY <1>1, <1>2 DEF Doomed
<1>3. CASE b = r
  <2>1. pc[r] \in Undoing
    BY <1>1, <1>3 DEF Doomed, Running, CreateSteps, UploadSteps, DeleteSteps, RestoreSteps,
                      FileSteps, UpdateSteps, ImportSteps
  <2> USE DEF Undoing
  <2>2. pc'[r] = [pc EXCEPT ![r] = pc'[r]][r] /\ pc \in [Req -> Label]
    BY DEF IInv, TypeOK, ControlTypeOK
  <2>3. CASE Create(r)
    <3>1. CUnrow(r) \/ CRmdir(r)
      BY <2>1, <2>3 DEF Create, CDir, CTx, CMeta, CGet, MakeDir, Test, At
    <3>2. pc'[r] \in {"c_rmdir", "j_failed", "error"}
      BY <2>2, <3>1 DEF CUnrow, CRmdir, ForgetBook, RemoveBook, Go, Fail, NotMade
    <3>3. QED BY <1>3, <3>2 DEF Doomed
  <2>4. CASE Import(r)
    <3>1. PFiles(r) \/ PBook(r) \/ PDir(r) \/ JFailed(r)
      BY <2>1, <2>4 DEF Import, JNew, IParse, IFinish, JOk, WriteJob, At
    <3>2. pc'[r] \in {"p_book", "p_dir", "j_failed", "error"}
      BY <2>2, <3>1
      DEF PFiles, PBook, PDir, JFailed, DropRows, ForgetBook, RemoveBook, WriteJob, Go, Fail
    <3>3. QED BY <1>3, <3>2 DEF Doomed
  <2>5. ~Upload(r)
    BY <1>1, <2>1, UploadEffect DEF UploadSteps, Shape, IInv
  <2>6. ~Delete(r) /\ ~Restore(r) /\ ~DeleteFile(r) /\ ~Update(r)
    BY <2>1, DeleteEffect, RestoreEffect, DeleteFileEffect, UpdateEffect
    DEF DeleteSteps, RestoreSteps, FileSteps, UpdateSteps, IInv
  <2>7. QED BY <2>3, <2>4, <2>5, <2>6 DEF Work
<1>4. QED BY <1>2, <1>3

\* Nothing but the purge of its book takes a row away.
LEMMA RowGoes ==
    ASSUME IInv, NothingDeleted, NEW r \in Req, Work(r), NEW f \in rows, f \notin rows'
    PROVE  Doomed(Home(f))'
<1>1. Shape(r) BY WorkMoves DEF IInv
<1> USE DEF IInv
<1>2. ~Delete(r) /\ ~DeleteFile(r)
  BY <1>1, DeleteEffect, DeleteFileEffect DEF Shape, NothingDeleted
<1>3. ~Upload(r) BY <1>1, UploadEffect DEF Shape
<1>4. ~Create(r) /\ ~Restore(r) /\ ~Update(r)
  BY CreateEffect, RestoreEffect, UpdateEffect
<1>5. Import(r) BY <1>2, <1>3, <1>4 DEF Work
<1>6. rows' = rows \ FilesOf(r) /\ pc'[r] = "p_book" /\ arg' = arg
  BY <1>5, ImportEffect DEF Moves
<1>7. Home(f) = r /\ Home(f)' = r BY <1>6, ArgSame DEF FilesOf
<1>8. QED BY <1>6, <1>7 DEF Doomed, Undoing

\* Files stay in the directories of their books.
LEMMA InPlaceWork ==
    ASSUME IInv, NothingDeleted, InPlace, NEW r \in Req, Work(r) PROVE InPlace'
<1>1. /\ Shape(r) /\ arg' = arg /\ \A q \in Req : q # r => pc'[q] = pc[q]
      /\ \A f : Home(f)' = Home(f)
  BY WorkMoves, ArgSame DEF Moves, IInv, TypeOK, ControlTypeOK
<1>2. /\ at \in [Id -> Place] /\ r \in Id
      /\ rows' \subseteq rows \/ (pc[r] = "u_commit" /\ rows' = rows \cup {r})
  BY RowsWork DEF IInv, TypeOK, StorageTypeOK, Id
<1> SUFFICES ASSUME NEW f \in Id, f \in rows' \/ (f \in Req /\ pc'[f] = "u_commit"),
                    ~Doomed(Home(f))'
             PROVE  InBook(f)'
  BY DEF InPlace
<1>3. ~Doomed(Home(f)) BY <1>1, DoomStays
<1>4. ASSUME pc'[r] # "u_commit" PROVE InBook(f)
  BY <1>1, <1>2, <1>3, <1>4 DEF InPlace
<1>5. CASE UNCHANGED at /\ dirs \subseteq dirs' /\ pc'[r] # "u_commit"
  BY <1>1, <1>4, <1>5 DEF InBook
<1>6. CASE pc[r] \in {"c_rmdir", "p_dir"} /\ pc'[r] # "u_commit" /\ RemoveDir(Live(r))
  <2>1. Home(f) # r BY <1>3, <1>6 DEF Doomed, Undoing
  <2>2. Live(Home(f)) # Live(r) BY <2>1, PathsDiffer
  <2>3. QED BY <1>1, <1>4, <1>6, <2>2 DEF InBook, RemoveDir
<1>7. CASE /\ pc[r] \in UploadSteps \ {"u_commit"}
           /\ \E p : /\ at' = [at EXCEPT ![r] = p] /\ dirs' = dirs
                     /\ pc'[r] = "u_commit" => p = Live(arg[r].book) /\ p \in dirs
  <2>1. PICK p : /\ at' = [at EXCEPT ![r] = p] /\ dirs' = dirs
                 /\ pc'[r] = "u_commit" => p = Live(arg[r].book) /\ p \in dirs
    BY <1>7
  <2>2. CASE f # r
    <3>1. InBook(f) BY <1>1, <1>2, <1>3, <2>2 DEF InPlace
    <3>2. QED BY <1>1, <1>2, <2>1, <2>2, <3>1 DEF InBook, PutFile
  <2>3. CASE f = r
    <3>1. r \notin rows BY <1>7 DEF IInv, NoEarlyRow, BeforeCommit
    <3>2. pc'[r] = "u_commit" BY <1>2, <1>7, <2>3, <3>1
    <3>3. Home(r) = arg[r].book BY SeededNotReq DEF Home
    <3>4. QED BY <1>1, <1>2, <2>1, <2>3, <3>2, <3>3 DEF InBook, PutFile
  <2>4. QED BY <2>2, <2>3
<1>8. QED BY <1>5, <1>6, <1>7, DiskWork

\* What doomed books and packed files mean for a walk nobody takes a step of.
LEMMA CoversBeside ==
    ASSUME WalkCovers,
           UNCHANGED <<snap, packed, left, cur, queue, record>>,
           \A k \in Backup : bpc'[k] \in {bpc[k], "lost"},
           \A k \in Backup : \A f \in snap[k] :
               Home(f)' = Home(f) /\ (Doomed(Home(f)) => Doomed(Home(f))')
    PROVE  WalkCovers'
BY DEF WalkCovers

\* A step of a handler keeps the invariant.
LEMMA ArchiveWork ==
    ASSUME IInv, ArchiveInv, NEW r \in Req, Work(r), UNCHANGED bvars PROVE ArchiveInv'
<1>1. /\ arg' = arg /\ \A q \in Req : q # r => pc'[q] = pc[q]
      /\ pc'[r] # "idle"
      /\ \A f : Home(f)' = Home(f)
  <2>1. arg' = arg /\ \A q \in Req : q # r => pc'[q] = pc[q]
    BY WorkMoves DEF Moves, IInv, TypeOK, ControlTypeOK
  <2>2. Shapes' /\ Shape(r) BY WorkMoves, ShapesWork DEF IInv
  <2>3. pc'[r] # "idle" BY <2>1, <2>2, NoneIsNoValue DEF Shapes, Shape, NoArg
  <2>4. QED BY <2>1, <2>3, ArgSame
<1> USE DEF ArchiveInv
<1>2. NothingDeleted' BY <1>1 DEF NothingDeleted
<1>3. InPlace' BY InPlaceWork
<1>4. UNCHANGED <<bpc, snap, packed, left, cur, queue, record>>
  BY DEF bvars, own, walk, archives
<1>5. SnapKept' BY <1>1, <1>4, DoomStays, RowGoes DEF SnapKept
<1>6. WalkCovers' BY <1>1, <1>4, DoomStays, CoversBeside
<1>7. QED BY <1>2, <1>3, <1>5, <1>6

\* So does a request that starts.
LEMMA ArchiveStart ==
    ASSUME Ops \cap {"delete", "delete_file"} = {}, BTypeOK,
           IInv, ArchiveInv, NEW r \in Req, Start(r), UNCHANGED bvars
    PROVE  ArchiveInv'
<1> USE DEF ArchiveInv
<1>1. PICK o \in Ops \cap AllOps : \E a \in Asks(r, o) :
              /\ pc[r] = "idle"
              /\ arg' = [arg EXCEPT ![r] = a]
              /\ pc' = [pc EXCEPT ![r] = FirstStep[o]]
              /\ UNCHANGED <<seen, faults, crashes, disk, database>>
  BY StartEffect DEF IInv
<1>2. /\ pc[r] = "idle" /\ r \notin rows /\ arg'[r].op = o
      /\ \A q \in Req : q # r => arg'[q] = arg[q] /\ pc'[q] = pc[q]
      /\ pc'[r] = FirstStep[o]
      /\ UNCHANGED <<dirs, at, rows>>
  BY <1>1, AsksShape DEF NoEarlyRow, BeforeCommit, IInv, TypeOK, ControlTypeOK, disk, database, catalogue
<1>3. FirstStep[o] \notin {"u_commit", "idle", "error", "lost"} \cup Undoing
  BY DEF FirstStep, AllOps, Undoing
<1>4. \A b : Doomed(b)' <=> Doomed(b) BY <1>2, <1>3 DEF Doomed, Undoing
<1>5. \A f \in Id : f # r => Home(f)' = Home(f) BY <1>2 DEF Home, Id
<1>6. UNCHANGED <<bpc, snap, packed, left, cur, queue, record>>
  BY DEF bvars, own, walk, archives
<1>7. \A k \in Backup : \A f \in snap[k] : f \in Id \ {r}
  BY <1>2 DEF BTypeOK, SnapKept
<1>8. NothingDeleted' BY <1>2 DEF NothingDeleted
<1>9. InPlace' BY <1>2, <1>3, <1>4, <1>5 DEF InPlace, InBook
<1>10. SnapKept' BY <1>2, <1>4, <1>5, <1>6, <1>7 DEF SnapKept
<1>11. WalkCovers' BY <1>4, <1>5, <1>6, <1>7, CoversBeside
<1>12. QED BY <1>8, <1>9, <1>10, <1>11

\* So do time, and the end of the process.
LEMMA ArchiveBeside ==
    ASSUME IInv, BTypeOK, ArchiveInv, Tick \/ Stop \/ UNCHANGED allVars PROVE ArchiveInv'
<1> USE DEF ArchiveInv
<1>1. /\ UNCHANGED <<arg, dirs, at, rows, snap, packed, left, cur, queue, record>>
      /\ \A q \in Req : pc'[q] = pc[q] \/ (pc[q] \in Running /\ pc'[q] = "lost")
      /\ \A k \in Backup : bpc'[k] \in {bpc[k], "lost"}
  <2> USE DEF own, walk, archives
  <2>1. CASE Tick
    BY <2>1 DEF Tick, vars, disk, control, database, catalogue
  <2>2. CASE Stop
    <3>1. UNCHANGED <<arg, dirs, at, rows>>
      BY <2>2 DEF Stop, Crash, disk, database, catalogue
    <3>2. \A q \in Req : pc'[q] = pc[q] \/ (pc[q] \in Running /\ pc'[q] = "lost")
      BY <2>2 DEF Stop, Crash, InFlight, IInv, TypeOK, ControlTypeOK
    <3>3. QED BY <2>2, <3>1, <3>2 DEF Stop, BTypeOK
  <2>3. CASE UNCHANGED allVars
    BY <2>3 DEF allVars, bvars, vars, disk, control, database, catalogue
  <2>4. QED BY <2>1, <2>2, <2>3
<1>2. \A f : Home(f)' = Home(f) BY <1>1, ArgSame
<1>3. \A b : Doomed(b) => Doomed(b)' BY <1>1 DEF Doomed
<1>4. NothingDeleted' BY <1>1 DEF NothingDeleted
<1>5. InPlace' BY <1>1, <1>2, <1>3 DEF InPlace, InBook
<1>6. SnapKept' BY <1>1, <1>2, <1>3 DEF SnapKept
<1>7. WalkCovers' BY <1>1, <1>2, <1>3, CoversBeside
<1>8. QED BY <1>4, <1>5, <1>6, <1>7

\* So does a step of a backup.
LEMMA ArchiveBackup ==
    ASSUME IInv, RetainInv, ArchiveInv, NEW k \in Backup, BStart(k) \/ BWork(k)
    PROVE  ArchiveInv'
<1> USE DEF ArchiveInv
<1>1. UNCHANGED <<pc, arg, dirs, at, rows>>
  BY BMoves DEF RetainInv, vars, disk, control, database, catalogue
<1>2. (\A f : Home(f)' = Home(f)) /\ (\A b : Doomed(b)' <=> Doomed(b))
  BY <1>1, ArgSame DEF Doomed
<1>3. NothingDeleted' /\ InPlace'
  BY <1>1, <1>2 DEF NothingDeleted, InPlace, InBook
<1>4. BTypeOK BY DEF RetainInv
<1>5. \A j \in Backup \ {k} :
        /\ bpc'[j] = bpc[j] /\ snap'[j] = snap[j] /\ packed'[j] = packed[j]
        /\ left'[j] = left[j] /\ cur'[j] = cur[j] /\ queue'[j] = queue[j]
  BY <1>4, BMoves
<1>6. \/ snap' = snap
      \/ /\ bpc[k] = "b_snap" /\ bpc'[k] = "b_open" /\ UNCHANGED record
         /\ snap' = [snap EXCEPT ![k] = ActiveFiles]
  <2> USE <1>4 DEF BTypeOK, BAt, BGo, BStep, BFail, own, walk, archives
  <2>1. CASE BSnap(k) BY <2>1 DEF BSnap
  <2>2. CASE ~BSnap(k)
    BY <2>2 DEF BStart, BWork, BOpen, BList, BDir, BPack, BRemove, BSum, BSide, BStat, BRecord, BDrop,
                BOld, BFiles, BRow, RemoveFiles
  <2>3. QED BY <2>1, <2>2
<1>7. SnapKept'
  <2>1. ActiveFiles \subseteq rows /\ \A f \in rows : f \in Req => pc[f] # "idle"
    BY DEF ActiveFiles, IInv, NoEarlyRow, BeforeCommit
  <2>2. QED BY <1>1, <1>2, <1>4, <1>6, <2>1 DEF SnapKept, BTypeOK
<1>8. ASSUME NEW j \in Backup \ {k}, NEW f \in snap'[j], ~Doomed(Home(f))
      PROVE  /\ bpc'[j] = "b_dir" => f \in packed'[j] \/ Home(f) \in left'[j]
             /\ bpc'[j] = "b_pack" =>
                   \/ f \in packed'[j] \/ Home(f) \in left'[j]
                   \/ Home(f) = cur'[j] /\ f \in queue'[j]
             /\ bpc'[j] \in {"b_sum", "b_side", "b_stat", "b_record"} \/ record'[j] # None =>
                   f \in packed'[j]
  <2>1. record'[j] # None => record[j] # None
    BY <1>4, BEffect DEF BTypeOK
  <2>2. QED BY <1>5, <1>8, <2>1 DEF WalkCovers
<1>9. ASSUME NEW f \in snap'[k], ~Doomed(Home(f))
      PROVE  /\ bpc'[k] = "b_dir" => f \in packed'[k] \/ Home(f) \in left'[k]
             /\ bpc'[k] = "b_pack" =>
                   \/ f \in packed'[k] \/ Home(f) \in left'[k]
                   \/ Home(f) = cur'[k] /\ f \in queue'[k]
             /\ bpc'[k] \in {"b_sum", "b_side", "b_stat", "b_record"} \/ record'[k] # None =>
                   f \in packed'[k]
  <2> USE <1>4 DEF BTypeOK, BAt, BGo, BStep, BFail, own, walk, archives
  <2>1. record[k] # None => bpc[k] \in {"b_old", "b_files", "b_row", "ok", "lost"}
    BY DEF RetainInv, RecordsTrue, Past
  <2>2. CASE snap' # snap
    BY <1>6, <2>1, <2>2
  <2>3. CASE snap' = snap
    <3>1. /\ bpc[k] = "b_dir" => f \in packed[k] \/ Home(f) \in left[k]
          /\ bpc[k] = "b_pack" =>
                \/ f \in packed[k] \/ Home(f) \in left[k]
                \/ Home(f) = cur[k] /\ f \in queue[k]
          /\ bpc[k] \in {"b_sum", "b_side", "b_stat", "b_record"} \/ record[k] # None =>
                f \in packed[k]
      BY <1>9, <2>3 DEF WalkCovers
    <3>2. f \in rows /\ f \in Id /\ Home(f) \in Id /\ InBook(f)
      <4>1. f \in rows BY <1>9, <2>3 DEF SnapKept
      <4>2. f \in Id /\ Home(f) \in Id
        BY <4>1, HomeType DEF IInv, TypeOK, DatabaseTypeOK
      <4>3. QED BY <1>9, <4>1, <4>2 DEF InPlace
    <3>3. CASE BStart(k) \/ BSnap(k) \/ BOpen(k)
      BY <2>1, <2>3, <3>1, <3>3 DEF BStart, BSnap, BOpen
    <3>4. CASE BList(k) BY <2>1, <3>2, <3>4 DEF BList, InBook
    <3>5. CASE BDir(k) BY <2>1, <3>1, <3>2, <3>5 DEF BDir, InBook
    <3>6. CASE BPack(k) BY <2>1, <3>1, <3>6 DEF BPack
    <3>7. CASE BRemove(k) BY <2>1, <3>7 DEF BRemove
    <3>8. CASE BSum(k) BY <3>1, <3>8 DEF BSum
    <3>9. CASE BSide(k) BY <3>1, <3>9 DEF BSide
    <3>10. CASE BStat(k) BY <3>1, <3>10 DEF BStat
    <3>11. CASE BRecord(k) BY <3>1, <3>11 DEF BRecord
    <3>12. CASE BDrop(k) BY <2>1, <3>12 DEF BDrop, RemoveFiles
    <3>13. CASE BOld(k) BY <3>1, <3>13 DEF BOld
    <3>14. CASE BFiles(k) BY <3>1, <3>14 DEF BFiles, RemoveFiles
    <3>15. CASE BRow(k) BY <3>1, <3>15 DEF BRow
    <3>16. QED
      BY <3>3, <3>4, <3>5, <3>6, <3>7, <3>8, <3>9, <3>10, <3>11, <3>12, <3>13, <3>14, <3>15 DEF BWork
  <2>4. QED BY <2>2, <2>3
<1>10. WalkCovers'
  BY <1>2, <1>8, <1>9 DEF WalkCovers
<1>11. QED BY <1>3, <1>7, <1>10

\* Initially there are no backups, and the books that were there have their files.
LEMMA ArchiveInit == BInit => ArchiveInv
<1> SUFFICES ASSUME BInit PROVE ArchiveInv OBVIOUS
<1>1. NothingDeleted BY NoneIsNoValue DEF BInit, Init, NothingDeleted, NoArg, AllOps
<1>2. InPlace BY SeededNotReq DEF BInit, Init, InPlace, InBook, Home, Id
<1>3. SnapKept /\ WalkCovers BY DEF BInit, SnapKept, WalkCovers
<1>4. QED BY <1>1, <1>2, <1>3 DEF ArchiveInv

\* What is on record holds its snapshot.
LEMMA ArchiveHolds == RetainInv /\ ArchiveInv => SnapshotArchived
<1> SUFFICES ASSUME RetainInv, ArchiveInv, NEW k \in Backup, record[k] # None,
                    ~Namesake(k), NEW f \in snap[k], Accepted(Home(f))
             PROVE  f \in record[k].sum.packed
  BY DEF SnapshotArchived
<1>1. ~Doomed(Home(f)) BY SeededNotReq DEF Accepted, Doomed, Undoing
<1>2. record[k].sum = Hash(k) BY DEF RetainInv, RecordsTrue
<1>3. QED BY <1>1, <1>2 DEF ArchiveInv, WalkCovers, Hash

(***************************************************************************)
(* As long as clients delete neither books nor files, an archive on record *)
(* holds the file of every row of its snapshot whose book is not one that  *)
(* a failed Create or Import takes away, though the snapshot is taken      *)
(* first and the directories are walked one after the other while uploads, *)
(* imports, updates and other backups go on, fail and are lost, as long as *)
(* no other backup got its name in its second.                             *)
(***************************************************************************)
THEOREM SnapshotsAreArchived ==
    ASSUME Ops \cap {"delete", "delete_file"} = {}
    PROVE  BSpec => []SnapshotArchived
<1>2. ASSUME IInv, BTypeOK, BShapes, RetainInv, ArchiveInv, [BNext]_allVars PROVE ArchiveInv'
  <2>1. CASE Request BY <1>2, <2>1, ArchiveWork, ArchiveStart DEF Request
  <2>2. CASE Tick \/ Stop \/ UNCHANGED allVars BY <1>2, <2>2, ArchiveBeside
  <2>3. ASSUME NEW k \in Backup, BStart(k) \/ BWork(k) PROVE ArchiveInv'
    BY <1>2, <2>3, ArchiveBackup
  <2>4. QED BY <1>2, <2>1, <2>2, <2>3 DEF BNext
<1>3. QED
  BY <1>2, BackupsTyped, RetainHolds, ArchiveInit, ArchiveHolds, PTL DEF BSpec

-----------------------------------------------------------------------------
(* The scan, beside any number of requests.                                *)

\* The steps of the scan change nothing of the library.
LEMMA ScanBeside == ASSUME Scan PROVE UNCHANGED vars
BY DEF Scan, SBooks, SMetadata, SRows, SFile, SList, SEnter, SEnd, SFail, SGo

\* A failed call is not forgotten.
LEMMA FaultsStay ==
    ASSUME IInv, NEW r \in Req, Work(r), NEW q \in Req, faults[q] > 0 PROVE faults'[q] > 0
<1>1. faults \in [Req -> 0..FaultsPerReq] BY DEF IInv, TypeOK, ControlTypeOK
<1>2. SUFFICES UNCHANGED faults \/ faults' = [faults EXCEPT ![r] = @ + 1]
  BY <1>1, BoundsAreNat
<1> USE DEF Go, Step, Fail
<1>3. CASE Create(r)
  BY <1>3 DEF Create, CDir, CTx, CMeta, CGet, CUnrow, CRmdir, MakeDir, Test, ForgetBook, RemoveBook
<1>4. CASE Upload(r)
  BY <1>4 DEF Upload, UCheck, UTemp, UDup, UInsert, UMkdir, URename, UCommit, UDrop, UUnplace,
              MakeDir, MoveFile, Test
<1>5. CASE Delete(r) \/ Restore(r)
  BY <1>5 DEF Delete, DCheck, DMove, DMark, DUndo, Restore, RCheck, RMove, RMark, RUndo, Test,
              MoveBook, MarkBook
<1>6. CASE DeleteFile(r) \/ Update(r)
  BY <1>6 DEF DeleteFile, FCheck, FMove, FUnrow, FMkdir, FBack, Update, ECheck, ETx, EMeta, Test,
              MoveFile, DropRows, MakeDir
<1>7. CASE Import(r)
  BY <1>7 DEF Import, JNew, IParse, IFinish, PFiles, PBook, PDir, JOk, JFailed, WriteJob,
              DropRows, ForgetBook, RemoveBook
<1>8. QED BY <1>3, <1>4, <1>5, <1>6, <1>7 DEF Work

\* Whose step writes a metadata.json, or tries to, and that its directory is there.
LEMMA WritesWork ==
    ASSUME IInv, NEW r \in Req, Work(r), NEW q \in Req, Writes(q) \/ MayWrite(q)
    PROVE  arg[q].book \in Id /\ Live(arg[q].book) \in dirs'
<1>1. /\ Shape(r) /\ pc' = [pc EXCEPT ![r] = pc'[r]] /\ pc \in [Req -> Label]
      /\ arg[r].book \in Id
  BY WorkKeeps DEF Shape
<1>2. q \in rows' /\ pc[q] = "u_commit" => q = r
  BY RowsWork DEF IInv, NoEarlyRow, BeforeCommit, UploadSteps
<1>3. Updated(q) # "e_meta" /\ Refused(q) # "e_meta" BY DEF Updated, Refused
<1>4. q = r BY <1>1, <1>2, <1>3 DEF Writes, MayWrite
<1>5. pc[r] \in {"c_meta", "e_meta", "u_commit"} BY <1>4 DEF Writes, MayWrite
<1>6. Rests(r) \/ Commits(r)
  <2>1. ~Puts(r) BY <1>5 DEF Puts
  <2>2. QED
    BY <1>5, <2>1, WorkKinds
    DEF Kinds, MakesBook, MakesAgain, WritesBook, Forgets, Removes, MovesOut, PutsBack,
        Trashes, Revives, MovesIn, MovesOff, TakesFile, ReturnsFile, DropsRow, Purges, Turns
<1>7. dirs' = dirs BY <1>6 DEF Rests, Commits, stored, disk
<1>8. Live(arg[r].book) \in dirs
  <2>1. CASE MayWrite(q) BY <1>4, <2>1 DEF MayWrite, CanWriteMetadata
  <2>2. CASE Writes(q)
    <3>1. pc[r] = "c_meta" => arg[r].book = r BY <1>1 DEF Shape, CreateSteps
    <3>2. CASE Rests(r) BY <1>4, <2>2, <3>1, <3>2 DEF Writes, Rests, CanWriteMetadata
    <3>3. CASE Commits(r) BY <1>4, <2>2, <3>3 DEF Writes, Commits, Turns
    <3>4. QED BY <1>6, <3>2, <3>3
  <2>3. QED BY <2>1, <2>2
<1>9. QED BY <1>1, <1>4, <1>7, <1>8

\* What is described is there.
LEMMA DescribedBeside ==
    ASSUME IInv, Births, described \subseteq dirs, SRequest PROVE described' \subseteq dirs'
<1>1. PICK r \in Req : Start(r) \/ Work(r) BY DEF SRequest
<1>2. Carried \subseteq dirs' BY DEF Carried
<1>3. ASSUME NEW q \in Req, Writes(q) \/ MayWrite(q) PROVE Live(arg'[q].book) \in dirs'
  <2>1. CASE Work(r) BY <1>3, <2>1, WritesWork, WorkKeeps
  <2>2. CASE Start(r)
    <3>1. /\ pc[r] = "idle" /\ pc \in [Req -> Label] /\ pc' = [pc EXCEPT ![r] = pc'[r]]
          /\ rows' = rows
      BY <2>2, StartKeeps DEF stored
    <3>2. pc[q] = pc'[q] \/ q = r BY <3>1
    <3>3. Updated(q) # "e_meta" /\ Refused(q) # "e_meta" BY DEF Updated, Refused
    <3>4. pc[q] = "u_commit" /\ q \in rows
      BY <1>3, <3>1, <3>2, <3>3 DEF Writes, MayWrite
    <3>5. QED BY <3>4 DEF IInv, NoEarlyRow, BeforeCommit, UploadSteps
  <2>3. QED BY <1>1, <2>1, <2>2
<1>4. QED BY <1>2, <1>3 DEF SRequest, Described

-----------------------------------------------------------------------------
\* What is wrong, one kind at a time.
LEMMA WrongIs ==
    /\ \A b \in Id : <<"metadata_missing", b>> \in Wrong <=> Active(b) /\ Live(b) \notin described
    /\ \A f \in Id : <<"file_missing", f>> \in Wrong <=>
                        f \in rows /\ Active(Home(f)) /\ at[f] # Live(Home(f))
    /\ \A b \in Id : <<"orphan_directory", b>> \in Wrong <=> ~Active(b) /\ Live(b) \in dirs
    /\ \A f \in Id : <<"untracked_file", f>> \in Wrong <=>
                        at[f] \in LiveDirs /\ ~(f \in rows /\ Active(Home(f)))
    /\ \A b \in Id : <<"untracked_metadata", b>> \in Wrong <=>
                        Live(b) \in described /\ ~Active(b)
BY DEF Wrong

\* How the history goes on.
LEMMA HistoryGoes ==
    ASSUME Observed
    PROVE  /\ Scanning /\ spc' # "idle" => ever \subseteq ever' /\ always' \subseteq always
           /\ Scanning' => Wrong' \subseteq ever' /\ always' \subseteq Wrong'
           /\ spc' \in {"idle", "completed", "failed"} => UNCHANGED <<ever, always>>
BY DEF Observed, Scanning, history

\* Every variable of the scan keeps its type.
LEMMA ScanTypeStep ==
    ASSUME IInv, IInv', described' \subseteq dirs', STypeOK, SNext PROVE STypeOK'
<1>0. rows' \subseteq Id BY DEF IInv, TypeOK, DatabaseTypeOK
<1>1. Wrong' \subseteq Issue BY <1>0 DEF Wrong, Issue
<1>2. ever' \subseteq Issue /\ always' \subseteq Issue
  BY <1>1 DEF SNext, Observed, history, STypeOK
<1>3. described' \subseteq Dir BY DEF IInv, TypeOK, StorageTypeOK
<1>4. rows \subseteq Id BY DEF IInv, TypeOK, DatabaseTypeOK
<1>5. CASE SRequest
  BY <1>2, <1>3, <1>5 DEF STypeOK, SRequest, scan
<1>6. CASE Scan
  <2>1. CASE \E i \in Id : SMetadata(i) \/ SFile(i)
    BY <1>2, <1>3, <2>1 DEF STypeOK, SMetadata, SFile, Look, SGo, Issue
  <2>2. CASE SList \/ \E i \in Id : SEnter(i)
    BY <1>2, <1>3, <2>2 DEF STypeOK, SList, SEnter, SGo, Issue
  <2>3. CASE SBooks \/ SRows \/ SEnd \/ SFail
    BY <1>2, <1>3, <1>4, <2>3 DEF STypeOK, SBooks, SRows, SEnd, SFail, SGo
  <2>4. QED BY <1>6, <2>1, <2>2, <2>3 DEF Scan
<1>7. QED BY <1>5, <1>6 DEF SNext

\* A file that has begun keeps its book.
LEMMA BegunStays ==
    ASSUME IInv, Births, SRequest, NEW f \in Id, Begun(f)
    PROVE  Begun(f)' /\ Home(f)' = Home(f)
<1>1. PICK r \in Req : Start(r) \/ Work(r) BY DEF SRequest
<1>2. CASE Work(r)
  <2>1. /\ \A g : Home(g)' = Home(g)
        /\ \A q \in Req : q # r => pc'[q] = pc[q]
        /\ pc'[r] # "idle"
    BY <1>2, WorkKeeps
  <2>2. QED BY <2>1 DEF Begun, Id
<1>3. CASE Start(r)
  <2>1. /\ pc[r] = "idle" /\ \A q \in Req : q # r => pc'[q] = pc[q]
        /\ \A g \in Id : g # r => Home(g)' = Home(g)
    BY <1>3, StartKeeps
  <2>2. f # r BY <2>1, SeededNotReq DEF Begun
  <2>3. QED BY <2>1, <2>2 DEF Begun, Id
<1>4. QED BY <1>1, <1>2, <1>3

\* So has every file that has a row, or is in the directory of a book.
LEMMA BegunFiles ==
    ASSUME IInv, Housed, NEW f \in Id, f \in rows \/ at[f] \in LiveDirs
    PROVE  Begun(f)
<1>1. Nowhere \notin LiveDirs BY PathsDiffer DEF LiveDirs
<1>2. CASE f \in Req
  BY <1>1, <1>2 DEF IInv, NoEarlyRow, BeforeCommit, Housed, Begun
<1>3. QED BY <1>2 DEF Id, Begun

\* A file in the directory of a book is one of the book.
LEMMA LiveHome ==
    ASSUME Housed, NEW f \in Id, at[f] \in LiveDirs
    PROVE  at[f] = Live(Home(f)) /\ Home(f) \in Id /\ Live(Home(f)) \in dirs
<1>1. PICK b \in Id : at[f] = Live(b) BY DEF LiveDirs
<1>2. at[f] \in Dir BY DEF Dir
<1>3. ~SlotOf(at[f], Home(f)) BY <1>1, PathsDiffer DEF SlotOf
<1>4. at[f] = Live(Home(f)) /\ at[f] \in dirs BY <1>2, <1>3 DEF Housed
<1>5. QED BY <1>1, <1>4, PathsDiffer

\* A Delete comes to putting its directory back by a call that failed.
LEMMA UndoBlamed ==
    ASSUME IInv, Births, \A d \in Req : pc[d] = "d_undo" => faults[d] > 0, SRequest
    PROVE  \A d \in Req : pc'[d] = "d_undo" => faults'[d] > 0
<1>1. PICK r \in Req : Start(r) \/ Work(r) BY DEF SRequest
<1>2. SUFFICES ASSUME NEW d \in Req, pc'[d] = "d_undo" PROVE faults'[d] > 0
  OBVIOUS
<1>3. CASE Start(r)
  <2>1. /\ \A q \in Req : q # r => pc'[q] = pc[q]
        /\ pc'[r] # "d_undo" /\ faults' = faults
    BY <1>3, StartKeeps
  <2>2. QED BY <1>2, <2>1
<1>4. CASE Work(r)
  <2>1. /\ pc' = [pc EXCEPT ![r] = pc'[r]] /\ pc \in [Req -> Label]
    BY <1>4, WorkKeeps
  <2>2. CASE d # r BY <1>2, <1>4, <2>1, <2>2, FaultsStay
  <2>3. CASE d = r
    <3>1. CASE Rests(r) BY <1>2, <2>3, <3>1 DEF Rests
    <3>2. CASE Puts(r) BY <1>2, <2>3, <3>2 DEF Puts, Refused
    <3>3. CASE ~(Rests(r) \/ Puts(r))
      BY <1>2, <1>4, <2>1, <2>3, <3>3, WorkKinds
      DEF Kinds, MakesBook, MakesAgain, WritesBook, Forgets, Removes, Commits, MovesOut,
          PutsBack, Trashes, Revives, MovesIn, MovesOff, TakesFile, ReturnsFile, DropsRow,
          Purges, Turns, NotMade, Uploaded
    <3>4. QED BY <3>1, <3>2, <3>3
  <2>4. QED BY <2>2, <2>3
<1>5. QED BY <1>1, <1>3, <1>4

\* What the scan has in hand it has read, whatever runs beside it.
LEMMA ReadsStep ==
    ASSUME IInv, Births, Housed, Reads, STypeOK, SNext PROVE Reads'
<1>1. described' \subseteq dirs'
  <2>1. CASE Scan /\ UNCHANGED described
    BY <2>1, ScanBeside DEF Reads, vars, disk
  <2>2. QED BY <2>1, DescribedBeside DEF SNext, Reads
<1>2. \A d \in Req : pc'[d] = "d_undo" => faults'[d] > 0
  <2>1. CASE Scan BY <2>1, ScanBeside DEF Reads, vars
  <2>2. QED BY <2>1, UndoBlamed DEF SNext, Reads
<1>3. Scanning' => Wrong' \subseteq ever' /\ always' \subseteq Wrong'
  BY HistoryGoes DEF SNext
<1>4. rows \subseteq Id BY DEF IInv, TypeOK, DatabaseTypeOK
<1>5. /\ spc' = "metadata" => todo' \subseteq books'
      /\ spc' = "files" => todo' \subseteq known'
      /\ spc' = "idle" => found' = {}
  <2>1. CASE SRequest BY <2>1 DEF SRequest, scan, Reads
  <2>2. CASE SBooks \/ SRows \/ SList \/ SEnd \/ SFail
    BY <2>2 DEF SBooks, SRows, SList, SEnd, SFail, SGo, Reads
  <2>3. CASE \E i \in Id : SMetadata(i) \/ SFile(i) \/ SEnter(i)
    BY <2>3 DEF SMetadata, SFile, SEnter, SGo, Reads
  <2>4. QED BY <2>1, <2>2, <2>3 DEF SNext, Scan
<1>6. CASE SRequest
  <2>1. \A f \in Id : Begun(f) => Begun(f)' BY <1>6, BegunStays
  <2>2. known \subseteq Id /\ \A i \in found : i[1] \in {"file_missing", "untracked_file"} => i[2] \in Id
    BY DEF STypeOK, Issue
  <2>3. UNCHANGED <<known, found>> BY <1>6 DEF SRequest, scan
  <2>4. QED BY <1>1, <1>2, <1>3, <1>5, <2>1, <2>2, <2>3 DEF Reads
<1>7. CASE Scan
  <2>1. \A f : Begun(f)' <=> Begun(f) BY <1>7, ScanBeside DEF vars, Begun
  <2>2. \A f \in known' : Begun(f)
    <3>1. CASE SRows BY <3>1, <1>4, BegunFiles DEF SRows
    <3>2. CASE ~SRows
      BY <1>7, <3>2 DEF Scan, SBooks, SMetadata, SFile, SList, SEnter, SEnd, SFail, Reads
    <3>3. QED BY <3>1, <3>2
  <2>3. \A i \in found' : i[1] \in {"file_missing", "untracked_file"} => Begun(i[2])
    <3>1. ASSUME NEW f \in Id, SFile(f)
          PROVE  \A i \in found' : i[1] \in {"file_missing", "untracked_file"} => Begun(i[2])
      BY <3>1 DEF SFile, SGo, Look, Reads
    <3>2. ASSUME NEW b \in Id, SEnter(b)
          PROVE  \A i \in found' : i[1] \in {"file_missing", "untracked_file"} => Begun(i[2])
      <4>1. \A f \in Id : at[f] = Live(b) => Begun(f) BY BegunFiles DEF LiveDirs
      <4>2. QED BY <3>2, <4>1 DEF SEnter, Reads
    <3>3. ASSUME NEW b \in Id, SMetadata(b)
          PROVE  \A i \in found' : i[1] \in {"file_missing", "untracked_file"} => Begun(i[2])
      BY <3>3 DEF SMetadata, Look, Reads
    <3>4. CASE SBooks \/ SRows \/ SList \/ SEnd \/ SFail
      BY <3>4 DEF SBooks, SRows, SList, SEnd, SFail, Reads
    <3>5. QED BY <1>7, <3>1, <3>2, <3>3, <3>4 DEF Scan
  <2>4. QED BY <1>1, <1>2, <1>3, <1>5, <2>1, <2>2, <2>3 DEF Reads
<1>8. QED BY <1>6, <1>7 DEF SNext

\* A step of the scan sees what is wrong then.
LEMMA WrongBeside ==
    ASSUME Scan, UNCHANGED described
    PROVE  Wrong' = Wrong
<1>1. UNCHANGED <<dirs, at, status, rows, arg>>
  BY ScanBeside DEF vars, disk, control, database, catalogue
<1>2. QED BY <1>1 DEF Wrong, Active, Home

\* Where the scan goes.
LEMMA ScanGoes ==
    ASSUME Scan
    PROVE  /\ spc \in {"idle"} \/ Scanning
           /\ spc' # "idle"
BY DEF Scan, SBooks, SMetadata, SRows, SFile, SList, SEnter, SEnd, SFail, SGo, Scanning

\* Whatever has been wrong all the time is found or still sought.
LEMMA SoughtStep ==
    ASSUME IInv, Births, Housed, STypeOK, Reads, Sought, SNext PROVE Sought'
<1>1. CASE SRequest
  <2>1. UNCHANGED <<spc, todo, books, known, found>> /\ always' \subseteq always
    BY <1>1, HistoryGoes DEF SRequest, SNext, scan, Scanning, Observed, history
  <2>2. ASSUME NEW f \in Id, spc = "walk", <<"untracked_file", f>> \in always
        PROVE  Home(f)' = Home(f)
    <3>1. <<"untracked_file", f>> \in Wrong BY <2>2 DEF Reads, Scanning
    <3>2. Begun(f) BY <3>1, BegunFiles, WrongIs
    <3>3. QED BY <1>1, <3>2, BegunStays
  <2>3. QED BY <2>1, <2>2 DEF Sought
<1>2. CASE Scan /\ UNCHANGED described
  <2>1. /\ Scanning' => always' \subseteq Wrong
        /\ spc # "idle" => always' \subseteq always
        /\ spc' \in {"completed", "failed"} => always' = always
        /\ \A f : Home(f)' = Home(f)
    <3>1. Wrong' = Wrong BY <1>2, WrongBeside
    <3>2. \A f : Home(f)' = Home(f) BY <1>2, ScanBeside DEF vars, control, Home
    <3>3. QED BY <1>2, <3>1, <3>2, ScanGoes, HistoryGoes DEF SNext
  <2>2. CASE SBooks
    BY <2>1, <2>2, WrongIs DEF SBooks, SGo, Sought, Scanning
  <2>3. ASSUME NEW b \in Id, SMetadata(b) PROVE Sought'
    BY <2>1, <2>3, WrongIs DEF SMetadata, SGo, Look, Sought, Scanning
  <2>4. CASE SRows
    BY <2>1, <2>4, WrongIs DEF SRows, SGo, Sought, Scanning
  <2>5. ASSUME NEW f \in Id, SFile(f) PROVE Sought'
    BY <2>1, <2>5, WrongIs DEF SFile, SGo, Look, Sought, Scanning
  <2>6. CASE SList
    <3>1. \A f \in Id : <<"untracked_file", f>> \in always' => Home(f) \in todo'
      BY <2>1, <2>6, WrongIs, LiveHome DEF SList, SGo, Scanning
    <3>2. \A b \in Id : <<"orphan_directory", b>> \in always' => <<"orphan_directory", b>> \in found'
      BY <2>1, <2>6, WrongIs DEF SList, SGo, Sought, Scanning
    <3>3. \A b \in Id : <<"untracked_metadata", b>> \in always' => b \in todo'
      BY <2>1, <2>6, WrongIs DEF SList, SGo, Scanning, Reads
    <3>4. QED BY <2>1, <2>6, <3>1, <3>2, <3>3 DEF SList, SGo, Sought
  <2>7. ASSUME NEW b \in Id, SEnter(b) PROVE Sought'
    <3>1. \A f \in Id : <<"untracked_file", f>> \in always' => at[f] = Live(Home(f))
      BY <2>1, <2>7, WrongIs, LiveHome DEF SEnter, SGo, Scanning
    <3>2. \A c \in Id : <<"untracked_metadata", c>> \in always' => Live(c) \in described
      BY <2>1, <2>7, WrongIs DEF SEnter, SGo, Scanning
    <3>3. /\ always' \subseteq always /\ spc = "walk" /\ spc' = "walk"
          /\ todo' = todo \ {b} /\ UNCHANGED books /\ found \subseteq found'
      BY <2>1, <2>7 DEF SEnter, SGo
    <3>4. /\ \A f \in Id : at[f] = Live(b) /\ f \notin known => <<"untracked_file", f>> \in found'
          /\ b \notin books /\ Live(b) \in described => <<"untracked_metadata", b>> \in found'
          /\ UNCHANGED known
      BY <2>7 DEF SEnter
    <3>5. \A f \in Id : <<"untracked_file", f>> \in always' =>
            \/ <<"untracked_file", f>> \in found'
            \/ spc' = "walk" /\ f \notin known' /\ Home(f)' \in todo'
      BY <2>1, <3>1, <3>3, <3>4 DEF Sought
    <3>6. \A c \in Id : <<"untracked_metadata", c>> \in always' =>
            \/ <<"untracked_metadata", c>> \in found'
            \/ spc' = "walk" /\ c \notin books' /\ c \in todo'
      BY <3>2, <3>3, <3>4 DEF Sought
    <3>7. QED BY <3>3, <3>5, <3>6 DEF Sought
  <2>8. CASE SEnd BY <2>1, <2>8 DEF SEnd, SGo, Sought
  <2>9. CASE SFail BY <2>1, <2>9 DEF SFail, SGo, Sought
  <2>10. QED BY <1>2, <2>2, <2>3, <2>4, <2>5, <2>6, <2>7, <2>8, <2>9 DEF Scan
<1>3. QED BY <1>1, <1>2 DEF SNext

\* What is sought is found in the end.
LEMMA SoughtFound == ASSUME STypeOK, Sought PROVE NothingMissed
<1>1. ASSUME Over, NEW i \in always PROVE i \in found
  <2>1. PICK k \in {"metadata_missing", "file_missing", "orphan_directory", "untracked_file",
                  "untracked_metadata"} :
          \E b \in Id : i = <<k, b>>
    BY <1>1 DEF STypeOK, Issue
  <2>2. QED BY <1>1, <2>1 DEF Sought, Over
<1>2. QED BY <1>1 DEF NothingMissed

\* The library keeps its invariants beside the scan.
LEMMA LibraryBeside ==
    ASSUME IInv, Orderly, [SNext]_scanVars
    PROVE  IInv' /\ Orderly' /\ (DeletesApart /\ Ordered => Ordered')
<1>1. CASE Scan \/ UNCHANGED scanVars
  <2>1. UNCHANGED vars BY <1>1, ScanBeside DEF scanVars
  <2>2. QED BY <2>1, InvStutter, OrderlyStutter, OrderedStutter
<1>2. CASE SRequest
  BY <1>2, InvWork, InvStart, OrderlyWork, OrderlyStart, OrderedWork, OrderedStart DEF SRequest
<1>3. QED BY <1>1, <1>2 DEF SNext

ScanInv == STypeOK /\ Reads /\ Sought

LEMMA ScanStep ==
    ASSUME IInv, Orderly, ScanInv, [SNext]_scanVars PROVE ScanInv'
<1>1. CASE SNext
  <2>1. STypeOK /\ Reads /\ Sought /\ IInv' BY LibraryBeside DEF ScanInv
  <2>2. Births /\ Housed BY DEF Orderly
  <2>3. Reads' BY <1>1, <2>1, <2>2, ReadsStep
  <2>4. Sought' BY <1>1, <2>1, <2>2, SoughtStep
  <2>5. described' \subseteq dirs' BY <2>3 DEF Reads
  <2>6. STypeOK' BY <1>1, <2>1, <2>5, ScanTypeStep
  <2>7. QED BY <2>3, <2>4, <2>6 DEF ScanInv
<1>2. CASE UNCHANGED scanVars
  <2>1. UNCHANGED <<described, scan, history, dirs, at, pc, arg, faults, status, rows>>
    BY <1>2 DEF scanVars, vars, disk, control, database, catalogue
  <2>2. UNCHANGED <<described, spc, last, todo, books, known, found, ever, always, dirs, at, pc,
                    arg, faults, status, rows>>
    BY <2>1 DEF scan, history
  <2>3. /\ Wrong' = Wrong /\ \A f : Home(f)' = Home(f) /\ (Begun(f)' <=> Begun(f))
        /\ Scanning' <=> Scanning
    BY <2>2 DEF Wrong, Home, Active, Begun, Scanning
  <2>4. STypeOK' BY <2>2 DEF ScanInv, STypeOK
  <2>5. Reads' BY <2>2, <2>3 DEF ScanInv, Reads
  <2>6. Sought' BY <2>2, <2>3 DEF ScanInv, Sought
  <2>7. QED BY <2>4, <2>5, <2>6 DEF ScanInv
<1>3. QED BY <1>1, <1>2

LEMMA ScanBegins == SInit => IInv /\ Orderly /\ ScanInv
<1> SUFFICES ASSUME SInit PROVE IInv /\ Orderly /\ ScanInv
  OBVIOUS
<1>1. IInv /\ Orderly BY InvInit, OrderlyInit DEF SInit
<1>2. STypeOK
  BY DEF SInit, STypeOK, Dir, LiveDirs, Id
<1>3. Reads BY DEF SInit, Init, Reads, Scanning
<1>4. Sought BY DEF SInit, Sought
<1>5. QED BY <1>1, <1>2, <1>3, <1>4 DEF ScanInv

(***************************************************************************)
(* Whatever requests run meanwhile, overlap and fail, the scan keeps its   *)
(* types and what it has in hand, and loses nothing that has been wrong    *)
(* since it began before it has come to it.                                *)
(***************************************************************************)
THEOREM ScanTyped == SSpec => [](IInv /\ Orderly /\ ScanInv)
BY ScanBegins, LibraryBeside, ScanStep, PTL DEF SSpec

(***************************************************************************)
(* A scan that ends reports all that was wrong as long as it ran: the      *)
(* reads of Scan, one after the other, miss nothing that was there         *)
(* throughout, whatever requests ran, failed and overlapped meanwhile.     *)
(***************************************************************************)
THEOREM NothingIsMissed == SSpec => []NothingMissed
<1>1. ScanInv => NothingMissed BY SoughtFound DEF ScanInv
<1>2. QED BY <1>1, ScanTyped, PTL

-----------------------------------------------------------------------------
(* Nothing is reported that never was, where deletes run apart.            *)

\* What undid a Create or an Import, or put a book back, stays undone.
LEMMA WithdrawnStays ==
    ASSUME IInv, Births, SRequest, NEW b \in Id, Withdrawn(b) PROVE Withdrawn(b)'
<1>1. PICK r \in Req : Start(r) \/ Work(r) BY DEF SRequest
<1>2. CASE Start(r)
  <2>1. /\ pc[r] = "idle" /\ \A q \in Req : q # r => pc'[q] = pc[q] /\ arg'[q] = arg[q]
        /\ UNCHANGED status
    BY <1>2, StartKeeps DEF stored
  <2>2. QED BY <2>1 DEF Withdrawn, FailedImport
<1>3. CASE Work(r)
  <2>1. CASE FailedImport(b) BY <1>3, <2>1, FailedStays DEF Withdrawn
  <2>2. CASE b \in Req /\ pc[b] \in {"c_rmdir", "error"} /\ status[b] = "absent"
    <3>1. /\ pc[r] \in Running /\ pc' = [pc EXCEPT ![r] = pc'[r]] /\ pc \in [Req -> Label]
          /\ \A q \in Req : q # r => pc'[q] = pc[q]
          /\ Shape(r) /\ arg' = arg
      BY <1>3, WorkKeeps
    <3>2. status'[b] = "absent"
      BY <1>3, <2>2, StatusWork DEF WritesBook, Turns
    <3>3. CASE b # r BY <2>2, <3>1, <3>2, <3>3 DEF Withdrawn
    <3>4. CASE b = r
      <4>1. pc[r] = "c_rmdir"
        BY <2>2, <3>1, <3>4
        DEF Running, CreateSteps, UploadSteps, DeleteSteps, RestoreSteps, FileSteps, UpdateSteps,
            ImportSteps
      <4>2. pc'[r] = NotMade(r)
        BY <1>3, <3>1, <4>1, WorkKinds
        DEF Kinds, Rests, MakesBook, MakesAgain, WritesBook, Forgets, Removes, Puts, Commits,
            MovesOut, PutsBack, Trashes, Revives, MovesIn, MovesOff, TakesFile, ReturnsFile,
            DropsRow, Purges, Turns
      <4>3. QED BY <2>2, <3>1, <3>2, <3>4, <4>2 DEF NotMade, Importing, Withdrawn, FailedImport
    <3>5. QED BY <3>3, <3>4
  <2>3. QED BY <2>1, <2>2 DEF Withdrawn
<1>4. QED BY <1>1, <1>2, <1>3

LEMMA PutBackStays ==
    ASSUME IInv, Births, SRequest, NEW b, PutBack(b) PROVE PutBack(b)'
<1>1. PICK r \in Req : Start(r) \/ Work(r) BY DEF SRequest
<1>2. PICK d \in Req : arg[d].op = "delete" /\ arg[d].book = b /\ faults[d] > 0
  BY DEF PutBack
<1>3. CASE Work(r)
  <2>1. arg' = arg /\ faults'[d] > 0 BY <1>2, <1>3, WorkKeeps, FaultsStay
  <2>2. QED BY <1>2, <2>1 DEF PutBack
<1>4. CASE Start(r)
  <2>1. /\ pc[r] = "idle" /\ faults' = faults
        /\ \A q \in Req : q # r => arg'[q] = arg[q]
    BY <1>4, StartKeeps
  <2>2. arg[r].op = None BY <2>1 DEF IInv, Shapes, NoArg
  <2>3. d # r BY <1>2, <2>2, NoneIsNoValue DEF AllOps
  <2>4. QED BY <1>2, <2>1, <2>3 DEF PutBack
<1>5. QED BY <1>1, <1>3, <1>4

\* A book that is active no more was in the trash's way, or is undone.
LEMMA ActiveGoes ==
    ASSUME IInv, Orderly, Ordered, Reads, SRequest, NEW b \in Id, Active(b), ~Active(b)'
    PROVE  Live(b) \notin dirs \/ Withdrawn(b)'
<1>1. PICK r \in Req : Start(r) \/ Work(r) BY DEF SRequest
<1>2. Births BY DEF Orderly
<1>3. Work(r) BY <1>1, <1>2, StartKeeps DEF stored, Active
<1>4. /\ Shape(r) /\ arg' = arg /\ pc' = [pc EXCEPT ![r] = pc'[r]] /\ pc \in [Req -> Label]
      /\ pc[r] \in Running
  BY <1>3, WorkKeeps
<1>5. CASE b = r /\ Forgets(r) /\ status'[b] = "absent"
  <2>1. \/ pc'[r] = "c_rmdir"
        \/ pc[r] = "p_book" /\ pc'[r] = "p_dir"
    BY <1>4, <1>5 DEF Forgets, Turns
  <2>2. pc[r] = "p_book" => arg'[r].op = "import" BY <1>4 DEF Shape, ImportSteps
  <2>3. QED BY <1>5, <2>1, <2>2 DEF Withdrawn, FailedImport
<1>6. CASE b = arg[r].book /\ Trashes(r)
  BY <1>6 DEF Ordered, DeletesAlone, Moved, Trashes, Turns
<1>7. QED BY <1>3, <1>5, <1>6, StatusWork DEF Active

\* A book that has become active had a directory nobody accounted for.
LEMMA ActiveComes ==
    ASSUME IInv, Orderly, Ordered, SRequest, NEW b \in Id, ~Active(b), Active(b)'
    PROVE  /\ Live(b) \in dirs /\ UNCHANGED <<dirs, at, rows>>
           /\ \E r \in Req : /\ Work(r)
                             /\ \/ b = r /\ WritesBook(r)
                                \/ b = arg[r].book /\ Revives(r) /\ Trashed(b)
<1>1. PICK r \in Req : Start(r) \/ Work(r) BY DEF SRequest
<1>2. Births BY DEF Orderly
<1>3. Work(r) BY <1>1, <1>2, StartKeeps DEF stored, Active
<1>4. CASE b = r /\ WritesBook(r)
  BY <1>3, <1>4 DEF WritesBook, Turns, Orderly, DirFirst, disk
<1>5. CASE b = arg[r].book /\ Revives(r)
  BY <1>3, <1>5 DEF Revives, Turns, Marks, Ordered, RestoresAlone, Back, disk
<1>6. QED BY <1>3, <1>4, <1>5, StatusWork DEF Active

\* How rows come and go.
LEMMA RowsKinds ==
    ASSUME IInv, NEW r \in Req, Work(r)
    PROVE  rows' = rows \/ Commits(r) \/ DropsRow(r) \/ Purges(r)
BY WorkKinds
DEF Kinds, Rests, stored, MakesBook, MakesAgain, WritesBook, Forgets, Removes, Puts, MovesOut,
    PutsBack, Trashes, Revives, Marks, MovesIn, MovesOff, TakesFile, ReturnsFile, Keeps

\* A row goes after its file, or with its book.
LEMMA RowGoesAway ==
    ASSUME IInv, Orderly, SRequest, NEW f \in rows, f \notin rows'
    PROVE  at[f] # Live(Home(f)) \/ Withdrawn(Home(f))'
<1>1. PICK r \in Req : Start(r) \/ Work(r) BY DEF SRequest
<1>2. Births BY DEF Orderly
<1>3. Work(r) BY <1>1, <1>2, StartKeeps DEF stored
<1>4. /\ Shape(r) /\ arg' = arg /\ pc' = [pc EXCEPT ![r] = pc'[r]] /\ pc \in [Req -> Label]
      /\ \A g : Home(g)' = Home(g)
  BY <1>3, WorkKeeps
<1>5. CASE DropsRow(r)
  <2>1. f = arg[r].file /\ pc[r] = "f_unrow" BY <1>5 DEF DropsRow, Turns
  <2>2. at[f] = TrashFiles BY <2>1 DEF Orderly, FilesAway, Away
  <2>3. QED BY <2>2, PathsDiffer
<1>6. CASE Purges(r)
  <2>1. pc[r] = "p_files" /\ pc'[r] = "p_book" /\ Home(f) = r
    BY <1>4, <1>6 DEF Purges, Turns, FilesOf
  <2>2. arg'[r].op = "import" BY <1>4, <2>1 DEF Shape, ImportSteps
  <2>3. QED BY <1>4, <2>1, <2>2 DEF Withdrawn, FailedImport
<1>7. QED BY <1>3, <1>5, <1>6, RowsKinds DEF Commits

\* A file with a row is of a book.
LEMMA RowHome == ASSUME IInv, NEW f \in rows PROVE Home(f) \in Id
<1>1. f \in Id BY DEF IInv, TypeOK, DatabaseTypeOK
<1>2. CASE f \in Seeded BY <1>2 DEF Home, Id
<1>3. CASE f \in Req
  BY <1>3, SeededNotReq DEF IInv, Shapes, Shape, NoEarlyRow, BeforeCommit, Home
<1>4. QED BY <1>1, <1>2, <1>3 DEF Id

\* A file is with its book, or in the hands of a DeleteFile.
Near(f) == at[f] \in LiveDirs \/ \E g \in Req : Away(g) /\ arg[g].file = f

\* A file in the hands of a DeleteFile has been taken from its book.
LEMMA AwayComes ==
    ASSUME IInv, NEW r \in Req, Work(r), NEW g \in Req, Away(g)', ~Away(g)
    PROVE  g = r /\ at[arg[g].file] \in LiveDirs
<1>1. /\ pc' = [pc EXCEPT ![r] = pc'[r]] /\ pc \in [Req -> Label] /\ arg[r].book \in Id
  BY WorkKeeps DEF Shape
<1>2. g = r BY <1>1 DEF Away
<1>3. TakesFile(r)
  <2>1. ~Rests(r) \/ pc[r] = "f_unrow" BY <1>2 DEF Rests, Away
  <2>2. ~Puts(r) BY <1>2 DEF Puts, Refused, Away
  <2>3. QED
    BY <1>1, <1>2, <2>1, <2>2, WorkKinds
    DEF Kinds, Away, MakesBook, MakesAgain, WritesBook, Forgets, Removes, Commits, MovesOut,
        PutsBack, Trashes, Revives, MovesIn, MovesOff, ReturnsFile, DropsRow, Purges, Turns,
        NotMade, Uploaded
<1>4. QED BY <1>1, <1>2, <1>3 DEF TakesFile, LiveDirs

\* A tracked file comes to its book only where a failed Delete puts it back.
LEMMA TrackedComes ==
    ASSUME IInv, Orderly, Ordered, NEW r \in Req, Work(r), NEW f \in Id, f \in rows,
           Active(Home(f)), ~Near(f), Near(f)'
    PROVE  pc[r] = "d_undo" /\ arg[r].op = "delete" /\ arg[r].book = Home(f)
<1>1. /\ Shape(r) /\ arg' = arg /\ pc' = [pc EXCEPT ![r] = pc'[r]] /\ pc \in [Req -> Label]
      /\ at \in [Id -> Place]
  BY WorkKeeps DEF IInv, TypeOK, StorageTypeOK
<1>2. at'[f] \in LiveDirs /\ at[f] \notin LiveDirs
  BY <1>1, AwayComes DEF Near
<1>3. ~Puts(r)
  <2>1. f = r => pc[r] \notin BeforeCommit BY DEF IInv, NoEarlyRow
  <2>2. QED BY <1>1, <1>2, <2>1 DEF Puts, PutFile, BeforeCommit, UploadSteps
<1>4. ~TakesFile(r) /\ ~ReturnsFile(r)
  <2>1. TrashFiles \notin LiveDirs BY PathsDiffer DEF LiveDirs
  <2>2. ReturnsFile(r) => f # arg[r].file BY DEF Near, ReturnsFile, Turns, Away
  <2>3. QED BY <1>1, <1>2, <2>1, <2>2 DEF TakesFile, ReturnsFile, PutFile
<1>5. ~Removes(r)
  <2>1. Nowhere \notin LiveDirs BY PathsDiffer DEF LiveDirs
  <2>2. QED BY <1>2, <2>1 DEF Removes, RemoveDir
<1>6. PICK p \in Slots :
          /\ SlotOf(p, arg[r].book)
          /\ \/ (MovesOut(r) \/ MovesOff(r)) /\ MoveDir(Live(arg[r].book), p)
             \/ /\ MovesIn(r) \/ PutsBack(r)
                /\ CanMoveDir(p, Live(arg[r].book)) /\ MoveDir(p, Live(arg[r].book))
  BY <1>2, <1>3, <1>4, <1>5, DiskKinds
<1>7. p \notin LiveDirs BY PathsDiffer DEF Slots, LiveDirs
<1>8. at[f] = p /\ (MovesIn(r) \/ PutsBack(r)) /\ p \in dirs
  BY <1>2, <1>6, <1>7 DEF MoveDir, CanMoveDir
<1>9. Home(f) = arg[r].book
  <2>1. p \in Dir BY DEF Dir
  <2>2. p # Live(Home(f)) BY PathsDiffer DEF Slots
  <2>3. SlotOf(p, Home(f)) BY <1>8, <2>1, <2>2 DEF Orderly, Housed
  <2>4. QED BY <1>6, <2>3, PathsDiffer DEF SlotOf
<1>10. ~MovesIn(r)
  <2>1. ASSUME MovesIn(r) PROVE FALSE
    <3>1. pc[r] = "r_move" /\ seen[r] \in dirs
      BY <2>1 DEF MovesIn, Turns, CanMoveDir
    <3>2. QED BY <1>9, <3>1 DEF Ordered, RestoresAlone, Active, Trashed
  <2>2. QED BY <2>1
<1>11. QED BY <1>1, <1>8, <1>9, <1>10 DEF PutsBack, Turns, Shape, DeleteSteps

\* What becomes tracked was untracked, or is put back.
LEMMA TrackComes ==
    ASSUME IInv, Orderly, Ordered, Reads, SRequest, NEW f \in Id,
           ~(f \in rows /\ Active(Home(f)) /\ Near(f)),
           f \in rows', Active(Home(f))', Near(f)'
    PROVE  (at[f] \in LiveDirs /\ ~(f \in rows /\ Active(Home(f)))) \/ PutBack(Home(f))'
<1>1. PICK r \in Req : Start(r) \/ Work(r) BY DEF SRequest
<1>2. Births BY DEF Orderly
<1>3. CASE Start(r)
  <2>1. /\ UNCHANGED <<at, status, rows>> /\ r \notin rows
        /\ pc[r] = "idle" /\ \A q \in Req : q # r => pc'[q] = pc[q] /\ arg'[q] = arg[q]
        /\ \A g \in Id : g # r => Home(g)' = Home(g)
        /\ pc'[r] \in {"c_dir", "u_check", "d_check", "r_check", "f_check", "e_check", "j_new"}
    BY <1>2, <1>3, StartKeeps DEF stored
  <2>2. Home(f)' = Home(f) BY <2>1
  <2>3. Near(f) BY <2>1 DEF Near, Away
  <2>4. QED BY <2>1, <2>2, <2>3 DEF Active
<1>4. CASE Work(r)
  <2>1. /\ Shape(r) /\ arg' = arg /\ pc' = [pc EXCEPT ![r] = pc'[r]] /\ pc \in [Req -> Label]
        /\ \A g : Home(g)' = Home(g) /\ pc[r] \in Running
    BY <1>4, WorkKeeps
  <2>2. CASE f \notin rows
    <3>1. Commits(r) /\ f = r
      BY <1>4, <2>2, RowsKinds DEF Commits, DropsRow, Purges
    <3>2. pc[f] \in BeforeCommit /\ at' = at /\ f \notin Seeded /\ pc'[r] # "f_unrow"
      BY <2>1, <3>1, SeededNotReq DEF Commits, Turns, BeforeCommit, UploadSteps, disk, Uploaded
    <3>3. ~\E g \in Req : Away(g)' /\ arg'[g].file = f
      <4>1. \A g \in Req : Away(g) => arg[g].file # f
        BY <3>2 DEF Orderly, FilesAway
      <4>2. \A g \in Req : Away(g)' => Away(g)
        BY <1>4, <2>1, <3>1, AwayComes DEF Commits, Turns, Away, Uploaded
      <4>3. QED BY <2>1, <4>1, <4>2
    <3>4. QED BY <2>2, <3>2, <3>3 DEF Near
  <2>3. CASE f \in rows /\ ~Active(Home(f))
    <3>1. Home(f) \in Id BY <2>3, RowHome
    <3>2. PICK b \in Id : b = Home(f) BY <3>1
    <3>3. Active(b)' /\ ~Active(b) BY <2>1, <2>3, <3>2 DEF Active
    <3>4. /\ UNCHANGED <<at, rows>>
          /\ \E q \in Req : /\ Work(q)
                            /\ \/ b = q /\ WritesBook(q)
                               \/ b = arg[q].book /\ Revives(q) /\ Trashed(b)
      BY <3>3, ActiveComes
    <3>5. PICK q \in Req : /\ Work(q)
                           /\ \/ b = q /\ WritesBook(q)
                              \/ b = arg[q].book /\ Revives(q) /\ Trashed(b)
      BY <3>4
    <3>6. CASE b = q /\ WritesBook(q)
      <4>1. pc[q] = "c_tx" BY <3>6 DEF WritesBook, Turns
      <4>2. Unborn(q) BY <4>1 DEF Unborn
      <4>3. f \in Req /\ arg[f].op \in {"upload", "import"} /\ arg[f].book = q
        BY <2>3, <3>2, <3>6, SeededNotReq DEF Orderly, Births, Home, Id
      <4>4. pc[f] \notin BeforeCommit BY <2>3, <4>3 DEF IInv, NoEarlyRow
      <4>5. arg[f].op = "upload"
        BY <4>1, <4>3, <4>4 DEF IInv, Shapes, Shape, BeforeCommit, CreateSteps
      <4>6. pc[f] # "idle" BY <4>4 DEF BeforeCommit
      <4>7. QED BY <4>2, <4>3, <4>5, <4>6 DEF Orderly, Births, Makers
    <3>7. CASE b = arg[q].book /\ Revives(q)
      <4>1. pc[q] = "r_mark" /\ pc'[q] = "ok" BY <3>7, <3>5, WorkKeeps DEF Revives, Turns
      <4>2. ~\E g \in Req : Away(g)' /\ arg'[g].file = f
        <5>1. SUFFICES ASSUME NEW g \in Req, Away(g)' PROVE FALSE
          OBVIOUS
        <5>2. Work(q) /\ q \in InFlight /\ Shape(q)
          BY <3>5, WorkKeeps, ApartWork DEF Ordered
        <5>3. g # q BY <4>1, <5>1 DEF Away
        <5>4. Away(g) BY <3>5, <5>1, <5>3, AwayComes
        <5>5. g \in InFlight /\ arg[g].op = "delete_file"
          BY <5>4 DEF Away, InFlight, Running, FileSteps, IInv, Shapes, Shape
        <5>6. arg[q].op = "restore" BY <4>1, <5>2 DEF Shape, RestoreSteps
        <5>7. QED BY <5>2, <5>5, <5>6 DEF Ordered, Apart
      <4>3. QED BY <2>3, <3>4, <4>2 DEF Near
    <3>8. QED BY <3>5, <3>6, <3>7
  <2>4. CASE f \in rows /\ Active(Home(f))
    <3>1. pc[r] = "d_undo" /\ arg[r].op = "delete" /\ arg[r].book = Home(f)
      BY <1>4, <2>4, TrackedComes
    <3>2. faults'[r] > 0
      BY <1>4, <3>1, FaultsStay DEF Reads
    <3>3. QED BY <2>1, <3>1, <3>2 DEF PutBack
  <2>5. QED BY <2>2, <2>3, <2>4
<1>5. QED BY <1>1, <1>3, <1>4

\* Whatever is no longer as it was read was wrong when it became so.
LEMMA ExplainedStep ==
    ASSUME IInv, Orderly, Ordered, STypeOK, Reads, Explained, SNext PROVE Explained'
<1>1. CASE SRequest
  <2>1. UNCHANGED <<spc, books, known>> /\ (Scanning' <=> Scanning)
    BY <1>1 DEF SRequest, scan, Scanning
  <2>2. Births /\ Housed BY DEF Orderly
  <2>3. Scanning => ever \subseteq ever' /\ Wrong \subseteq ever
    BY <2>1, HistoryGoes DEF SNext, Reads, Scanning
  <2>4. \A b \in Id : Withdrawn(b) => Withdrawn(b)' BY <1>1, <2>2, WithdrawnStays
  <2>5. \A b \in Id : PutBack(b) => PutBack(b)' BY <1>1, <2>2, PutBackStays
  <2>6. books \subseteq Id /\ known \subseteq Id BY DEF STypeOK
  <2>7. ASSUME Scanning, NEW b \in books
        PROVE  Active(b)' \/ <<"metadata_missing", b>> \in ever' \/ Withdrawn(b)'
    <3>1. CASE Active(b) /\ ~Active(b)'
      <4>1. Live(b) \notin dirs \/ Withdrawn(b)' BY <1>1, <2>6, <3>1, ActiveGoes
      <4>2. Live(b) \notin dirs => <<"metadata_missing", b>> \in Wrong
        BY <2>6, <3>1, WrongIs DEF Reads
      <4>3. QED BY <2>3, <2>7, <4>1, <4>2
    <3>2. CASE ~Active(b)
      BY <2>3, <2>4, <2>6, <2>7, <3>2 DEF Explained
    <3>3. QED BY <3>1, <3>2
  <2>8. ASSUME Scanning, NEW b \in Id \ books, Active(b)'
        PROVE  <<"orphan_directory", b>> \in ever' \/ Withdrawn(b)'
    <3>1. CASE Active(b) BY <2>3, <2>4, <2>8, <3>1 DEF Explained
    <3>2. CASE ~Active(b)
      <4>1. Live(b) \in dirs BY <1>1, <2>8, <3>2, ActiveComes
      <4>2. QED BY <2>3, <2>8, <3>2, <4>1, WrongIs
    <3>3. QED BY <3>1, <3>2
  <2>9. ASSUME spc \in {"files", "walk"}, NEW f \in known
        PROVE  \/ f \in rows' /\ Active(Home(f))'
               \/ <<"file_missing", f>> \in ever'
               \/ Withdrawn(Home(f))'
    <3>1. f \in Id /\ Begun(f) /\ Scanning BY <2>6, <2>9 DEF Reads, Scanning
    <3>2. Home(f)' = Home(f) BY <1>1, <2>2, <3>1, BegunStays
    <3>3. CASE f \in rows /\ Active(Home(f))
      <4>1. at[f] # Live(Home(f)) => <<"file_missing", f>> \in ever'
        BY <2>3, <3>1, <3>3, WrongIs
      <4>2. CASE f \notin rows' BY <1>1, <3>3, <4>1, <4>2, RowGoesAway
      <4>3. CASE ~Active(Home(f))'
        <5>1. Home(f) \in Id BY <3>3, RowHome
        <5>2. PICK b \in Id : b = Home(f) BY <5>1
        <5>3. Active(b) /\ ~Active(b)' BY <3>2, <3>3, <4>3, <5>2
        <5>4. Live(b) \notin dirs \/ Withdrawn(b)' BY <1>1, <5>3, ActiveGoes
        <5>5. Live(b) \in Dir BY <5>2 DEF Dir, LiveDirs
        <5>6. at[f] = Live(b) => Live(b) \in dirs BY <2>2, <3>1, <5>5 DEF Housed
        <5>7. QED BY <3>2, <4>1, <5>2, <5>4, <5>6
      <4>4. QED BY <4>2, <4>3
    <3>4. CASE <<"file_missing", f>> \in ever BY <2>3, <3>1, <3>4
    <3>5. CASE Withdrawn(Home(f)) /\ ~(f \in rows /\ Active(Home(f)))
      <4>1. Home(f) \in Id BY <3>1, <3>5 DEF Withdrawn, FailedImport, Id
      <4>2. PICK b \in Id : b = Home(f) BY <4>1
      <4>3. Withdrawn(b)' BY <2>4, <3>5, <4>2
      <4>4. QED BY <3>2, <4>2, <4>3
    <3>6. QED BY <2>9, <3>3, <3>4, <3>5 DEF Explained
  <2>10. ASSUME spc \in {"files", "walk"}, NEW f \in Id \ known,
                f \in rows', Active(Home(f))', Near(f)'
         PROVE  \/ <<"untracked_file", f>> \in ever'
                \/ Withdrawn(Home(f))' \/ PutBack(Home(f))'
    <3>1. Scanning BY <2>10 DEF Scanning
    <3>2. CASE f \in rows /\ Active(Home(f)) /\ Near(f)
      <4>1. Begun(f) BY <2>2, <3>2, BegunFiles
      <4>2. Home(f)' = Home(f) BY <1>1, <2>2, <4>1, BegunStays
      <4>3. \/ <<"untracked_file", f>> \in ever
            \/ Withdrawn(Home(f)) \/ PutBack(Home(f))
        BY <2>10, <3>2 DEF Explained, Near
      <4>4. Home(f) \in Id BY <3>2, RowHome
      <4>5. PICK b \in Id : b = Home(f) BY <4>4
      <4>6. (Withdrawn(b) => Withdrawn(b)') /\ (PutBack(b) => PutBack(b)')
        BY <2>4, <2>5
      <4>7. QED BY <2>3, <3>1, <4>2, <4>3, <4>5, <4>6
    <3>3. CASE ~(f \in rows /\ Active(Home(f)) /\ Near(f))
      <4>1. \/ at[f] \in LiveDirs /\ ~(f \in rows /\ Active(Home(f)))
            \/ PutBack(Home(f))'
        BY <1>1, <2>10, <3>3, TrackComes
      <4>2. QED BY <2>3, <3>1, <4>1, WrongIs
    <3>4. QED BY <3>2, <3>3
  <2>11. QED
    BY <2>1, <2>7, <2>8, <2>9, <2>10 DEF Explained, Near
<1>2. CASE Scan /\ UNCHANGED described
  <2>1. UNCHANGED <<dirs, at, rows, status, pc, arg, faults>>
    BY <1>2, ScanBeside DEF vars, disk, control, database, catalogue
  <2>2. \A b : /\ Active(b)' <=> Active(b)
               /\ Withdrawn(b)' <=> Withdrawn(b)
               /\ PutBack(b)' <=> PutBack(b)
               /\ Home(b)' = Home(b)
               /\ Away(b)' <=> Away(b)
    BY <2>1 DEF Active, Withdrawn, FailedImport, PutBack, Home, Away
  <2>3. Scanning => ever \subseteq ever' BY <1>2, HistoryGoes, ScanGoes DEF SNext
  <2>4. CASE SBooks BY <2>1, <2>2, <2>4 DEF SBooks, SGo, Explained
  <2>5. CASE SRows
    BY <2>1, <2>2, <2>3, <2>5 DEF SRows, SGo, Explained, Scanning
  <2>6. CASE SList \/ SEnd \/ SFail
    BY <2>1, <2>2, <2>3, <2>6 DEF SList, SEnd, SFail, SGo, Explained, Scanning
  <2>7. CASE \E i \in Id : SMetadata(i) \/ SFile(i) \/ SEnter(i)
    BY <2>1, <2>2, <2>3, <2>7 DEF SMetadata, SFile, SEnter, SGo, Explained, Scanning
  <2>8. QED BY <1>2, <2>4, <2>5, <2>6, <2>7 DEF Scan
<1>3. QED BY <1>1, <1>2 DEF SNext

\* So whatever is reported was wrong.
LEMMA NoFalseAlarmStep ==
    ASSUME IInv, Orderly, STypeOK, Reads, Explained, NoFalseAlarm, SNext
    PROVE  NoFalseAlarm'
<1>1. Births /\ Housed BY DEF Orderly
<1>2. CASE SRequest
  <2>1. found' = found BY <1>2 DEF SRequest, scan
  <2>2. CASE spc = "idle" BY <2>1, <2>2 DEF Reads, NoFalseAlarm
  <2>3. CASE spc # "idle"
    <3>1. Scanning /\ spc' = spc
      BY <1>2, <2>3 DEF SRequest, scan, STypeOK, Scanning
    <3>2. ever \subseteq ever' BY <2>3, <3>1, HistoryGoes DEF SNext
    <3>3. ASSUME NEW i \in found
          PROVE  \/ i \in ever' \/ Withdrawn(About(i))'
                 \/ i[1] = "untracked_file" /\ PutBack(About(i))'
                 \/ i[1] = "untracked_metadata" /\ <<"orphan_directory", i[2]>> \in ever'
      <4>1. \/ i \in ever \/ Withdrawn(About(i))
            \/ i[1] = "untracked_file" /\ PutBack(About(i))
            \/ i[1] = "untracked_metadata" /\ <<"orphan_directory", i[2]>> \in ever
        BY DEF NoFalseAlarm
      <4>2. i[2] \in Id BY DEF STypeOK, Issue
      <4>3. About(i)' = About(i)
        BY <1>1, <1>2, <4>2, BegunStays DEF About, Reads
      <4>4. CASE Withdrawn(About(i))
        <5>1. About(i) \in Id
          <6>1. CASE i[1] \in {"file_missing", "untracked_file"}
            BY <4>2, <4>4, <6>1 DEF About, Withdrawn, FailedImport, Id
          <6>2. QED BY <4>2, <6>1 DEF About
        <5>2. PICK b \in Id : b = About(i) BY <5>1
        <5>3. Withdrawn(b)' BY <1>1, <1>2, <4>4, <5>2, WithdrawnStays
        <5>4. QED BY <4>3, <5>2, <5>3
      <4>5. CASE i[1] = "untracked_file" /\ PutBack(About(i))
        <5>1. PICK b : b = About(i) OBVIOUS
        <5>2. PutBack(b)' BY <1>1, <1>2, <4>5, <5>1, PutBackStays
        <5>3. QED BY <4>3, <4>5, <5>1, <5>2
      <4>6. QED BY <3>2, <4>1, <4>4, <4>5
    <3>4. QED BY <2>1, <3>3 DEF NoFalseAlarm
  <2>4. QED BY <2>2, <2>3
<1>3. CASE Scan /\ UNCHANGED described
  <2>1. UNCHANGED <<dirs, at, rows, status, pc, arg, faults>>
    BY <1>3, ScanBeside DEF vars, disk, control, database, catalogue
  <2>2. \A b : /\ Withdrawn(b)' <=> Withdrawn(b)
               /\ PutBack(b)' <=> PutBack(b)
               /\ Home(b)' = Home(b)
    BY <2>1 DEF Active, Withdrawn, FailedImport, PutBack, Home
  <2>3. \A i : About(i)' = About(i) BY <2>2 DEF About
  <2>4. /\ Scanning => ever \subseteq ever' /\ Wrong \subseteq ever
        /\ spc = "idle" => found = {}
        /\ books \subseteq Id /\ known \subseteq Id
    BY <1>3, HistoryGoes, ScanGoes DEF SNext, Reads, STypeOK
  <2> DEFINE So(i) == \/ i \in ever' \/ Withdrawn(About(i))
                      \/ i[1] = "untracked_file" /\ PutBack(About(i))
                      \/ i[1] = "untracked_metadata" /\ <<"orphan_directory", i[2]>> \in ever'
  <2>5. \A i \in found : spc # "idle" => So(i)
    BY <1>3, <2>4, ScanGoes DEF NoFalseAlarm
  <2>6. SUFFICES \A i \in found' : So(i)
    BY <2>2, <2>3 DEF NoFalseAlarm
  <2>7. CASE SBooks BY <2>4, <2>7 DEF SBooks, SGo
  <2>8. CASE SRows \/ SEnd \/ SFail BY <2>4, <2>5, <2>8 DEF SRows, SEnd, SFail, SGo
  <2>9. ASSUME NEW b \in Id, SMetadata(b) PROVE \A i \in found' : So(i)
    <3>1. spc = "metadata" /\ Scanning /\ b \in books
      BY <2>9 DEF SMetadata, SGo, Scanning, Reads
    <3>2. Live(b) \notin described => So(<<"metadata_missing", b>>)
      BY <2>4, <3>1, WrongIs DEF Explained, About
    <3>3. found' = found \/ (Live(b) \notin described /\ found' = found \cup {<<"metadata_missing", b>>})
      BY <2>9 DEF SMetadata, Look
    <3> HIDE DEF So
    <3>4. QED BY <2>5, <3>1, <3>2, <3>3
  <2>10. ASSUME NEW f \in Id, SFile(f) PROVE \A i \in found' : So(i)
    <3>1. spc = "files" /\ Scanning /\ f \in known
      BY <2>10 DEF SFile, SGo, Scanning, Reads
    <3>2. at[f] # Live(Home(f)) => So(<<"file_missing", f>>)
      BY <2>4, <3>1, WrongIs DEF Explained, About
    <3>3. found' = found \/ (at[f] # Live(Home(f)) /\ found' = found \cup {<<"file_missing", f>>})
      BY <2>10 DEF SFile, Look
    <3> HIDE DEF So
    <3>4. QED BY <2>5, <3>1, <3>2, <3>3
  <2>11. CASE SList
    <3>1. spc = "files" /\ Scanning BY <2>11 DEF SList, SGo, Scanning
    <3>2. \A b \in Id \ books : Live(b) \in dirs => So(<<"orphan_directory", b>>)
      BY <2>4, <3>1, WrongIs DEF Explained, About
    <3>3. found' \subseteq found \cup {<<"orphan_directory", b>> :
                                         b \in {b \in Id \ books : Live(b) \in dirs}}
      BY <2>11 DEF SList
    <3> HIDE DEF So
    <3>4. QED BY <2>5, <3>1, <3>2, <3>3
  <2>12. ASSUME NEW b \in Id, SEnter(b) PROVE \A i \in found' : So(i)
    <3>1. spc = "walk" /\ Scanning BY <2>12 DEF SEnter, SGo, Scanning
    <3>2. \A f \in Id \ known : at[f] = Live(b) => So(<<"untracked_file", f>>)
      BY <2>4, <3>1, WrongIs DEF Explained, About, LiveDirs
    <3>3. b \notin books /\ Live(b) \in described => So(<<"untracked_metadata", b>>)
      BY <2>4, <3>1, WrongIs DEF Explained, About
    <3>4. \A i \in found' :
            \/ i \in found
            \/ \E f \in Id \ known : at[f] = Live(b) /\ i = <<"untracked_file", f>>
            \/ b \notin books /\ Live(b) \in described /\ i = <<"untracked_metadata", b>>
      BY <2>12 DEF SEnter
    <3> HIDE DEF So
    <3>5. QED BY <2>5, <3>1, <3>2, <3>3, <3>4
  <2>13. QED BY <1>3, <2>7, <2>8, <2>9, <2>10, <2>11, <2>12 DEF Scan
<1>4. QED BY <1>2, <1>3 DEF SNext

AlarmInv == Ordered /\ Explained /\ NoFalseAlarm

LEMMA AlarmStep ==
    ASSUME DeletesApart, IInv, Orderly, ScanInv, AlarmInv, [SNext]_scanVars PROVE AlarmInv'
<1>1. Ordered' BY LibraryBeside DEF AlarmInv
<1>2. CASE SNext
  BY <1>1, <1>2, ExplainedStep, NoFalseAlarmStep DEF AlarmInv, ScanInv
<1>3. CASE UNCHANGED scanVars
  <2>1. UNCHANGED <<described, spc, last, todo, books, known, found, ever, always, dirs, at, pc,
                    arg, faults, status, rows>>
    BY <1>3 DEF scanVars, vars, disk, control, database, catalogue, scan, history
  <2>2. \A b : /\ Active(b)' <=> Active(b)
               /\ Withdrawn(b)' <=> Withdrawn(b)
               /\ PutBack(b)' <=> PutBack(b)
               /\ Home(b)' = Home(b)
               /\ Away(b)' <=> Away(b)
    BY <2>1 DEF Active, Withdrawn, FailedImport, PutBack, Home, Away
  <2>3. Explained' BY <2>1, <2>2 DEF AlarmInv, Explained, Scanning
  <2>4. \A i : About(i)' = About(i) BY <2>2 DEF About
  <2>5. NoFalseAlarm' BY <2>1, <2>2, <2>4 DEF AlarmInv, NoFalseAlarm
  <2>6. QED BY <1>1, <2>3, <2>5 DEF AlarmInv
<1>4. QED BY <1>2, <1>3

LEMMA AlarmBegins == SInit => AlarmInv
<1> SUFFICES ASSUME SInit PROVE AlarmInv
  OBVIOUS
<1>1. Ordered BY OrderedInit DEF SInit
<1>2. Explained BY DEF SInit, Explained, Scanning
<1>3. NoFalseAlarm BY DEF SInit, NoFalseAlarm
<1>4. QED BY <1>1, <1>2, <1>3 DEF AlarmInv

LEMMA AlarmHolds == ASSUME DeletesApart PROVE SSpec => []AlarmInv
<1>1. IInv /\ Orderly /\ ScanInv /\ AlarmInv /\ [SNext]_scanVars => AlarmInv'
  BY AlarmStep
<1>2. QED BY <1>1, AlarmBegins, ScanTyped, PTL DEF SSpec

(***************************************************************************)
(* Where a Delete runs beside deletions and updates only, and a Restore    *)
(* beside no DeleteFile, Scan reports nothing that was not so at some      *)
(* moment while it ran, except of a book that a failed Create or Import    *)
(* takes back, of the files of a book that a failed Delete puts back, and  *)
(* of the metadata.json of a book that came meanwhile: the handlers bring  *)
(* directory and file before the row and take them away before it.         *)
(***************************************************************************)
THEOREM NoAlarmIsFalse == DeletesApart => (SSpec => []NoFalseAlarm)
<1> SUFFICES ASSUME DeletesApart PROVE SSpec => []NoFalseAlarm
  OBVIOUS
<1>1. AlarmInv => NoFalseAlarm BY DEF AlarmInv
<1>2. QED BY <1>1, AlarmHolds, PTL
=============================================================================
