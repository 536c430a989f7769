------------------------- MODULE RestoreScriptProofs -------------------------
(***************************************************************************)
(* RestoreScript for any number of runs, failing commands, signals and     *)
(* kills.  What a run moves away or drops has been packed before, also     *)
(* when traps run between the commands.                                    *)
(***************************************************************************)
EXTENDS RestoreScript, TLAPS

\* The kinds of trees differ.
LEMMA Trees ==
    /\ Nothing \notin Run /\ Nothing # Original /\ None \notin Run
    /\ Nothing # Part /\ Nothing # Bare /\ Run \subseteq Tree
    /\ {Nothing, Part, Bare, Original} \subseteq Tree
BY RunsAreTrees DEF Whole, Tree, Nothing, Part, Bare

\* The invariant holds initially.
LEMMA InvInit == Init => IInv
<1> SUFFICES ASSUME Init PROVE IInv  OBVIOUS
<1> USE Trees DEF Init
<1>1. TypeOK
  <2>1. /\ faults \in 0..MaxFaults /\ signals \in 0..MaxSignals
        /\ kills \in 0..MaxKills
    BY RestoreBounds
  <2>2. data \in Tree
    BY DEF Tree
  <2>3. QED BY <2>1, <2>2 DEF TypeOK, Label
<1>2. Unused /\ Ahead /\ Packed /\ NothingLost
  BY DEF Unused, Ahead, Packed, NothingLost
<1>3. QED BY <1>1, <1>2 DEF IInv

USE DEF Position, UpToSave, Cleanup, Trapped

\* A command that changes nothing on the disk but the stage, and goes on with
\* the next, the trap or where the trap came in.
LEMMA InvQuiet ==
    ASSUME IInv, TypeOK', pc # "idle", pc' # "idle",
           UNCHANGED <<run, before, result, data, old, safety>>,
           Position' = "aside" => Position = "aside" /\ UNCHANGED moved,
           Position' \in UpToSave => Position \in UpToSave /\ UNCHANGED moved
    PROVE  IInv'
<1> USE DEF IInv
<1>1. Unused' BY DEF Unused
<1>2. Ahead' BY DEF Ahead
<1>3. Packed' BY DEF Packed
<1>4. NothingLost' BY DEF NothingLost
<1>5. QED BY <1>1, <1>2, <1>3, <1>4

\* The end of a run, by itself or killed.
LEMMA InvEnd ==
    ASSUME IInv, TypeOK', pc # "idle", pc' = "idle", result'[run] # "none",
           \A r \in Run : r # run => result'[r] = result[r],
           UNCHANGED <<before, data, old, safety>>
    PROVE  IInv'
<1> USE DEF IInv
<1>1. Unused' BY DEF Unused, Ahead
<1>2. Ahead' BY DEF Ahead
<1>3. Packed' BY DEF Packed
<1>4. NothingLost' BY DEF NothingLost
<1>5. QED BY <1>1, <1>2, <1>3, <1>4

\* Leaving the script for the EXIT trap keeps it.
LEMMA InvAbort ==
    ASSUME IInv, pc \in Trapped, Abort \/ Fails
    PROVE  IInv'
<1>1. /\ pc' = "k_stage" /\ after' = "end" /\ code' = "error"
      /\ UNCHANGED <<run, result, before, files, flags>>
  BY DEF Abort, Fails, Exit
<1>2. faults' \in 0..MaxFaults /\ signals' \in 0..MaxSignals /\ kills' \in 0..MaxKills
  BY RestoreBounds DEF Abort, Fails, Fault, IInv, TypeOK, world
<1>3. TypeOK' BY <1>1, <1>2 DEF IInv, TypeOK, Label, files, flags
<1>4. QED BY <1>1, <1>3, InvQuiet DEF files, flags

\* A run that begins finds nothing of its own on the disk.
LEMMA InvBegin ==
    ASSUME IInv, NEW r \in Run, Begin(r)
    PROVE  IInv'
<1> USE DEF Begin, At, files, world, IInv
<1>1. TypeOK' BY DEF TypeOK, Label
<1>2. Unused' BY DEF TypeOK, Unused
<1>3. Ahead' BY DEF TypeOK, Unused, Ahead
<1>4. Packed' BY DEF Packed
<1>5. NothingLost' BY DEF TypeOK, NothingLost
<1>6. QED BY <1>1, <1>2, <1>3, <1>4, <1>5

\* Up to the safety archive the data directory is left alone.
LEMMA InvChecks ==
    ASSUME IInv, Checks
    PROVE  IInv'
<1>1. pc = "checks" /\ UNCHANGED <<files, flags>>
  BY DEF Checks, At
<1>2. CASE Go("verify")
  <2>1. TypeOK' BY <1>1, <1>2 DEF IInv, TypeOK, Go, Label, shell, world, files, flags
  <2>2. QED BY <1>1, <1>2, <2>1, InvQuiet DEF Go, shell, files, flags
<1>3. CASE ~Go("verify")
  <2>1. /\ pc' = "idle" /\ result' = [result EXCEPT ![run] = "error"]
        /\ UNCHANGED <<run, after, code, before, world>>
    BY <1>3 DEF Checks
  <2>2. run \in Run
    BY <1>1 DEF IInv, Ahead
  <2>3. TypeOK' BY <1>1, <2>1 DEF IInv, TypeOK, Label, world, files, flags
  <2>4. result'[run] # "none" /\ \A r \in Run : r # run => result'[r] = result[r]
    BY <2>1, <2>2 DEF IInv, TypeOK
  <2>5. QED BY <1>1, <2>1, <2>3, <2>4, InvEnd DEF files
<1>4. QED BY <1>2, <1>3

\* The commands up to the safety archive, and the two assignments.
LEMMA InvCommands ==
    ASSUME IInv,
           \/ Verify \/ MakeStage \/ Extract \/ CheckFiles \/ QuickCheck
           \/ MakeDirs \/ Moved \/ Finish
    PROVE  IInv'
<1> DEFINE QuietTo(l) == /\ pc' = l
                         /\ UNCHANGED <<shell, world, data, old, safety>>
<1>1. \/ Abort \/ Fails
      \/ pc = "verify"  /\ QuietTo("mkdir") /\ UNCHANGED <<stage, flags>>
      \/ pc = "mkdir"   /\ QuietTo("extract") /\ UNCHANGED flags
            /\ stage' = [stage EXCEPT ![run] = Part]
      \/ pc = "extract" /\ QuietTo("files") /\ UNCHANGED flags
            /\ \E t \in {run, Part} : stage' = [stage EXCEPT ![run] = t]
      \/ pc = "files"   /\ QuietTo("quick") /\ UNCHANGED <<stage, flags>>
      \/ pc = "quick"   /\ QuietTo("dirs") /\ UNCHANGED <<stage, flags>>
      \/ pc = "dirs"    /\ (QuietTo("dirs") \/ QuietTo("save")) /\ UNCHANGED flags
            /\ stage' = [stage EXCEPT ![run] = IF @ = Nothing THEN Bare ELSE @]
      \/ pc = "moved"   /\ QuietTo("install") /\ UNCHANGED <<stage, success>>
            /\ moved' = TRUE
      \/ pc = "finish"  /\ QuietTo("drop") /\ UNCHANGED <<stage, moved>>
            /\ success' = TRUE
  BY DEF Verify, MakeStage, Extract, CheckFiles, QuickCheck, MakeDirs, Moved,
         Finish, At, Go, files
<1>2. pc \in Trapped
  BY DEF Verify, MakeStage, Extract, CheckFiles, QuickCheck, MakeDirs, Moved,
         Finish, At
<1>3. CASE Abort \/ Fails
  BY <1>2, <1>3, InvAbort
<1>4. CASE ~(Abort \/ Fails)
  <2>0. run \in Run /\ run \in Tree
    BY <1>2, Trees DEF IInv, Ahead
  <2>t. pc' \in Label /\ moved' \in BOOLEAN /\ success' \in BOOLEAN
    BY <1>1, <1>4 DEF IInv, TypeOK, Label, flags
  <2>s. stage' \in [Run -> Tree]
    BY <1>1, <1>4, <2>0, Trees DEF IInv, TypeOK
  <2>1. TypeOK'
    BY <1>1, <1>4, <2>t, <2>s DEF IInv, TypeOK, shell, world
  <2>2. /\ pc' # "idle" /\ UNCHANGED <<run, before, result, data, old, safety>>
        /\ Position' = "aside" => Position = "aside" /\ UNCHANGED moved
        /\ Position' \in UpToSave => Position \in UpToSave /\ UNCHANGED moved
    BY <1>1, <1>4 DEF shell, flags
  <2>3. QED BY <1>2, <2>1, <2>2, InvQuiet
<1>5. QED BY <1>3, <1>4

\* The safety archive holds the data directory.
LEMMA InvSave ==
    ASSUME IInv, Save
    PROVE  IInv'
<1>1. pc = "save" /\ run \in Run /\ old[run] = Nothing /\ safety[run] = Nothing
      /\ ~moved
  BY DEF Save, At, IInv, Ahead
<1>2. CASE Fails BY <1>1, <1>2, InvAbort
<1>3. CASE data = Nothing /\ ~Fails
  <2>1. pc' = "install" /\ UNCHANGED <<shell, world, files, flags>>
    BY <1>3 DEF Save, Go
  <2>2. TypeOK' BY <2>1 DEF IInv, TypeOK, Label, shell, world, files, flags
  <2>3. QED BY <1>1, <2>1, <2>2, InvQuiet DEF shell, files, flags
<1>4. CASE data # Nothing /\ ~Fails
  <2>1. /\ pc' = "aside" /\ safety' = [safety EXCEPT ![run] = data]
        /\ UNCHANGED <<shell, world, data, stage, old, flags>>
    BY <1>4 DEF Save, Go
  <2> USE DEF IInv, shell, world, flags
  <2>2. TypeOK' BY <1>1, <2>1 DEF TypeOK, Label
  <2>3. Unused' BY <1>1, <2>1 DEF TypeOK, Unused, Ahead
  <2>4. Ahead' BY <1>1, <2>1 DEF TypeOK, Ahead
  <2>5. Packed' BY <1>1, <2>1 DEF TypeOK, Packed
  <2>6. NothingLost' BY <1>1, <2>1 DEF TypeOK, NothingLost
  <2>7. QED BY <2>2, <2>3, <2>4, <2>5, <2>6
<1>5. QED BY <1>2, <1>3, <1>4

\* The data directory is moved when it has been packed.
LEMMA InvAside ==
    ASSUME IInv, Aside
    PROVE  IInv'
<1>1. pc = "aside" /\ run \in Run /\ old[run] = Nothing /\ safety[run] = data
      /\ result[run] = "running"
  BY DEF Aside, At, IInv, Ahead
<1>2. CASE Fails BY <1>1, <1>2, InvAbort
<1>3. CASE ~Fails
  <2>1. /\ pc' = "moved" /\ old' = [old EXCEPT ![run] = data] /\ data' = Nothing
        /\ UNCHANGED <<shell, world, stage, safety, flags>>
    BY <1>3 DEF Aside, Go
  <2> USE Trees DEF IInv, shell, world, flags
  <2>2. TypeOK' BY <1>1, <2>1 DEF TypeOK, Label
  <2>3. Unused' BY <1>1, <2>1 DEF TypeOK, Unused
  <2>4. Ahead' BY <1>1, <2>1 DEF TypeOK, Ahead
  <2>5. Packed' BY <1>1, <2>1 DEF TypeOK, Packed
  <2>6. NothingLost' BY <1>1, <2>1 DEF TypeOK, NothingLost
  <2>7. QED BY <2>2, <2>3, <2>4, <2>5, <2>6
<1>4. QED BY <1>2, <1>3

\* Installing the archive changes no tree that is packed.
LEMMA InvInstall ==
    ASSUME IInv, Install
    PROVE  IInv'
<1>1. pc = "install" /\ run \in Run
  BY DEF Install, At, IInv, Ahead
<1>2. CASE Fails \/ Abort BY <1>1, <1>2, InvAbort
<1>3. CASE ~(Fails \/ Abort)
  <2>1. /\ pc' = "finish"
        /\ data' = IF data = Nothing THEN stage[run] ELSE data
        /\ stage' = [stage EXCEPT ![run] = Nothing]
        /\ UNCHANGED <<shell, world, old, safety, flags>>
    BY <1>3 DEF Install, Go
  <2> USE Trees DEF IInv, shell, world, flags
  <2>2. TypeOK' BY <1>1, <2>1 DEF TypeOK, Label
  <2>3. Unused' BY <1>1, <2>1 DEF TypeOK, Unused
  <2>4. Ahead' BY <1>1, <2>1 DEF TypeOK, Ahead
  <2>5. Packed' BY <1>1, <2>1 DEF TypeOK, Packed
  <2>6. NothingLost' BY <1>1, <2>1 DEF TypeOK, NothingLost
  <2>7. QED BY <2>2, <2>3, <2>4, <2>5, <2>6
<1>4. QED BY <1>2, <1>3

\* What is dropped has been packed.
LEMMA InvDrop ==
    ASSUME IInv, Drop
    PROVE  IInv'
<1>1. pc = "drop" /\ run \in Run /\ result[run] = "running"
  BY DEF Drop, At, IInv, Ahead
<1>2. CASE Fails BY <1>1, <1>2, InvAbort
<1>3. CASE ~Fails
  <2>1. /\ pc' = "k_stage" /\ after' = "end" /\ code' = "ok"
        /\ old' = [old EXCEPT ![run] = Nothing]
        /\ UNCHANGED <<run, result, before, data, stage, safety, flags, world>>
    BY <1>3 DEF Drop, Exit
  <2> USE Trees DEF IInv, world, flags
  <2>2. TypeOK' BY <1>1, <2>1 DEF TypeOK, Label
  <2>3. Unused' BY <1>1, <2>1 DEF TypeOK, Unused
  <2>4. Ahead' BY <1>1, <2>1 DEF TypeOK, Ahead
  <2>5. Packed' BY <1>1, <2>1 DEF TypeOK, Packed
  <2>6. NothingLost'
    BY <1>1, <2>1 DEF TypeOK, Packed, NothingLost
  <2>7. QED BY <2>2, <2>3, <2>4, <2>5, <2>6
<1>4. QED BY <1>2, <1>3

\* The end of cleanup.
LEMMA InvResume ==
    ASSUME IInv, TypeOK', pc \in Cleanup, Resume, UNCHANGED moved,
           UNCHANGED <<data, old, safety>>
    PROVE  IInv'
<1>1. run \in Run /\ UNCHANGED <<run, before>>
  BY DEF Resume, IInv, Ahead
<1>2. CASE after = "end"
  <2>1. pc' = "idle" /\ result' = [result EXCEPT ![run] = code]
    BY <1>2 DEF Resume
  <2>2. result'[run] # "none" /\ \A r \in Run : r # run => result'[r] = result[r]
    BY <1>1, <2>1 DEF IInv, TypeOK
  <2>3. QED BY <1>1, <2>1, <2>2, InvEnd
<1>3. CASE after # "end"
  <2>1. pc' = after /\ after \in Trapped /\ UNCHANGED <<result, after>>
    BY <1>3 DEF Resume, IInv, TypeOK
  <2>2. Position' = Position
    BY <2>1
  <2>3. QED BY <1>1, <2>1, <2>2, InvQuiet
<1>4. QED BY <1>2, <1>3

\* A command of cleanup that fails changes no file.
LEMMA InvCleanupFails ==
    ASSUME IInv, pc \in Cleanup, CleanupFails
    PROVE  IInv'
<1>1. run \in Run /\ UNCHANGED <<run, before, files, flags>>
  BY DEF CleanupFails, Exit, IInv, Ahead
<1>2. faults' \in 0..MaxFaults /\ UNCHANGED <<signals, kills>>
  BY RestoreBounds DEF CleanupFails, Fault, IInv, TypeOK
<1>3. CASE after = "end"
  <2>1. /\ pc' = "idle" /\ result' = [result EXCEPT ![run] = "error"]
        /\ UNCHANGED <<after, code>>
    BY <1>3 DEF CleanupFails
  <2>2. TypeOK' BY <1>1, <1>2, <2>1 DEF IInv, TypeOK, Label, files, flags
  <2>3. result'[run] # "none" /\ \A r \in Run : r # run => result'[r] = result[r]
    BY <1>1, <2>1 DEF IInv, TypeOK
  <2>4. QED BY <1>1, <2>1, <2>2, <2>3, InvEnd DEF files
<1>4. CASE after # "end"
  <2>1. pc' = "k_stage" /\ after' = "end" /\ code' = "error" /\ UNCHANGED result
    BY <1>4 DEF CleanupFails, Exit
  <2>2. TypeOK' BY <1>1, <1>2, <2>1 DEF IInv, TypeOK, Label, files, flags
  <2>3. QED BY <1>1, <2>1, <2>2, InvQuiet DEF files, flags
<1>5. QED BY <1>3, <1>4

\* cleanup removes the stage, or moves back what was packed.
LEMMA InvCleanup ==
    ASSUME IInv, CleanStage \/ MoveBack
    PROVE  IInv'
<1>0. pc \in Cleanup /\ run \in Run /\ result[run] = "running"
  BY DEF CleanStage, MoveBack, At, IInv, Ahead
<1>1. CASE CleanupFails BY <1>0, <1>1, InvCleanupFails
<1>2. CASE Resume /\ UNCHANGED <<files, flags, world>>
  <2>1. TypeOK' BY <1>2 DEF Resume, IInv, TypeOK, Label, files, flags, world
  <2>2. QED BY <1>0, <1>2, <2>1, InvResume DEF files, flags
<1>3. CASE CleanStage /\ ~CleanupFails /\ ~(Resume /\ UNCHANGED <<files, flags, world>>)
  <2>1. /\ pc = "k_stage" /\ pc' = "k_back" /\ UNCHANGED <<shell, world>>
        /\ stage' = [stage EXCEPT ![run] = Nothing]
        /\ UNCHANGED <<data, old, safety, flags>>
    BY <1>3 DEF CleanStage, At, Go
  <2>2. TypeOK' BY <2>1, Trees DEF IInv, TypeOK, Label, shell, world, flags
  <2>3. QED BY <2>1, <2>2, InvQuiet DEF shell, flags
<1>4. CASE MoveBack /\ ~CleanupFails /\ ~(Resume /\ UNCHANGED <<files, flags, world>>)
  <2>1. /\ pc = "k_back" /\ moved /\ data = Nothing /\ old[run] # Nothing
        /\ data' = old[run] /\ old' = [old EXCEPT ![run] = Nothing]
        /\ Resume /\ UNCHANGED <<stage, safety, flags, world>>
    BY <1>4 DEF MoveBack, MustGoBack, At
  <2>2. UNCHANGED <<run, before, after, code>>
    BY <2>1 DEF Resume
  <2>3. TypeOK'
    BY <1>0, <2>1, Trees DEF Resume, IInv, TypeOK, Label, flags, world
  <2>4. \A r \in Run : result'[r] = "none" => result[r] = "none"
    BY <1>0, <2>1 DEF Resume, IInv, TypeOK
  <2>5. Unused' BY <1>0, <2>1, <2>4 DEF IInv, TypeOK, Unused
  <2>6. Ahead' BY <1>0, <2>1 DEF Resume, IInv, TypeOK, Ahead, flags
  <2>7. Packed' BY <1>0, <2>1 DEF IInv, TypeOK, Packed
  <2>8. NothingLost' BY <1>0, <2>1, <2>2 DEF IInv, TypeOK, NothingLost
  <2>9. QED BY <2>3, <2>5, <2>6, <2>7, <2>8 DEF IInv
<1>5. QED BY <1>1, <1>2, <1>3, <1>4

\* A signal only runs the trap.
LEMMA InvSignal ==
    ASSUME IInv, Signal
    PROVE  IInv'
<1>1. /\ pc \in Trapped /\ pc' = "k_stage" /\ after' = pc
      /\ signals < MaxSignals /\ signals' = signals + 1
      /\ UNCHANGED <<run, code, result, before, files, flags, faults, kills>>
  BY DEF Signal
<1>2. TypeOK' BY <1>1, RestoreBounds DEF IInv, TypeOK, Label, files, flags
<1>3. QED BY <1>1, <1>2, InvQuiet DEF files, flags

\* The script may be killed anywhere.
LEMMA InvKill ==
    ASSUME IInv, Kill
    PROVE  IInv'
<1>1. /\ pc # "idle" /\ pc' = "idle" /\ kills < MaxKills /\ kills' = kills + 1
      /\ result' = [result EXCEPT ![run] = "killed"]
      /\ UNCHANGED <<run, after, code, before, files, flags, faults, signals>>
  BY DEF Kill
<1>2. run \in Run
  BY <1>1 DEF IInv, Ahead
<1>3. TypeOK'
  <2>1. kills' \in 0..MaxKills
    BY <1>1, RestoreBounds DEF IInv, TypeOK
  <2>2. result' \in [Run -> {"none", "running", "ok", "error", "killed"}]
    BY <1>1 DEF IInv, TypeOK
  <2>3. QED BY <1>1, <2>1, <2>2 DEF IInv, TypeOK, Label, files, flags
<1>4. result'[run] # "none" /\ \A r \in Run : r # run => result'[r] = result[r]
  BY <1>1, <1>2 DEF IInv, TypeOK
<1>5. QED BY <1>1, <1>3, <1>4, InvEnd DEF files

\* A step that changes nothing keeps it.
LEMMA InvStutter == IInv /\ UNCHANGED vars => IInv'
BY DEF IInv, vars, shell, files, flags, world, TypeOK, Unused, Ahead, Packed,
       NothingLost

\* Every step keeps the invariant.
LEMMA Inductive == IInv /\ [Next]_vars => IInv'
<1> SUFFICES ASSUME IInv, [Next]_vars PROVE IInv'  OBVIOUS
<1>1. ASSUME NEW r \in Run, Begin(r) PROVE IInv' BY <1>1, InvBegin
<1>2. CASE Command
  BY <1>2, InvChecks, InvCommands, InvSave, InvAside, InvInstall, InvDrop
     DEF Command
<1>3. CASE CleanStage \/ MoveBack BY <1>3, InvCleanup
<1>4. CASE Signal BY <1>4, InvSignal
<1>5. CASE Kill BY <1>5, InvKill
<1>6. CASE UNCHANGED vars BY <1>6, InvStutter
<1>7. QED BY <1>1, <1>2, <1>3, <1>4, <1>5, <1>6 DEF Next

\* IInv holds in every state: the data directory is packed before it is moved,
\* and what was moved is dropped or moved back only while it is packed.
THEOREM Invariance == Spec => []IInv
<1>1. QED BY InvInit, Inductive, PTL DEF Spec

\* The script's variables and the trees on the disk have their types.
THEOREM TypeCorrect == Spec => []TypeOK
BY Invariance, PTL DEF IInv

\* Whatever fails and wherever the script is interrupted or killed, what a run
\* found in the data directory still exists (restore.sh lines 64-71).
THEOREM NothingIsLost == Spec => []NothingLost
BY Invariance, PTL DEF IInv

-----------------------------------------------------------------------------
\* A step without a signal that goes on, or leaves for the EXIT trap.
LEMMA SwitchGoesOn ==
    ASSUME SwitchInv, pc' # "idle", Switch'
    PROVE  Rollback'
BY DEF Rollback

\* A command that fails leaves the switch to cleanup.
LEMMA SwitchAbort ==
    ASSUME SwitchInv, pc \in Trapped \ {"moved", "finish"}, Abort \/ Fails,
           pc = "install" => Fails
    PROVE  Switch' /\ Rollback'
<1>1. /\ pc' = "k_stage" /\ after' = "end" /\ code' = "error"
      /\ UNCHANGED <<run, result, before, data, stage, old, moved, success, signals>>
  BY DEF Abort, Fails, Exit, Fault, files, flags, world
<1>2. Fails => faults' > 0
  BY RestoreBounds DEF Fails, Fault, SwitchInv, IInv, TypeOK
<1>3. run \in Run /\ Run \cap {Nothing} = {}
  BY Trees DEF SwitchInv, IInv, Ahead
<1>4. Switch'
  BY <1>1, <1>2, <1>3 DEF SwitchInv, Switch, Away
<1>5. QED BY <1>1, <1>4, SwitchGoesOn

\* The commands that touch neither the data directory nor what it was.
LEMMA SwitchCommands ==
    ASSUME SwitchInv,
           \/ Verify \/ MakeStage \/ Extract \/ CheckFiles \/ QuickCheck
           \/ MakeDirs \/ Save \/ Moved \/ Finish
    PROVE  Switch' /\ Rollback'
<1> USE DEF At, Go, shell, world, files, flags
<1>1. CASE Abort \/ Fails
  BY <1>1, SwitchAbort DEF Verify, MakeStage, Extract, CheckFiles, QuickCheck,
                           MakeDirs, Save, Moved, Finish, Abort, Fails, Exit
<1>2. CASE ~(Abort \/ Fails)
  <2>1. run \in Run /\ stage \in [Run -> Tree] /\ run # Nothing /\ pc # "idle"
    BY Trees DEF SwitchInv, IInv, Ahead, TypeOK, Verify, MakeStage, Extract, CheckFiles,
                 QuickCheck, MakeDirs, Save, Moved, Finish
  <2>2. CASE Verify \/ MakeStage \/ Extract \/ CheckFiles
    BY <1>2, <2>1, <2>2 DEF Verify, MakeStage, Extract, CheckFiles,
                            SwitchInv, Switch, Rollback, Away
  <2>3. CASE QuickCheck \/ MakeDirs
    BY <1>2, <2>1, <2>3 DEF QuickCheck, MakeDirs, SwitchInv, Switch, Rollback, Away
  <2>4. CASE Save
    BY <1>2, <2>1, <2>4 DEF Save, SwitchInv, Switch, Rollback, Away
  <2>5. CASE Moved \/ Finish
    BY <1>2, <2>1, <2>5 DEF Moved, Finish, SwitchInv, Switch, Rollback, Away
  <2>6. QED BY <2>2, <2>3, <2>4, <2>5
<1>3. QED BY <1>1, <1>2

\* The two moves of the switch, and the removal after it.
LEMMA SwitchMoves ==
    ASSUME SwitchInv, Aside \/ Install \/ Drop
    PROVE  Switch' /\ Rollback'
<1> USE DEF At, Go, shell, world, files, flags
<1>1. run \in Run /\ run # Nothing /\ pc \in Trapped /\ before \in [Run -> Tree]
      /\ signals \in Nat /\ old \in [Run -> Tree] /\ pc # "idle"
  BY Trees, RestoreBounds DEF SwitchInv, IInv, Ahead, TypeOK, Aside, Install, Drop
<1>2. CASE Aside
  <2>1. CASE Fails
    BY <1>2, <2>1, SwitchAbort DEF Aside
  <2>2. CASE ~Fails
    <3>1. /\ pc = "aside" /\ pc' = "moved" /\ old' = [old EXCEPT ![run] = data]
          /\ data' = Nothing
          /\ UNCHANGED <<run, before, stage, moved, success, signals>>
      BY <1>2, <2>2 DEF Aside
    <3>2. Switch'
      BY <1>1, <3>1 DEF SwitchInv, Switch, Away
    <3>3. QED BY <3>1, <3>2, SwitchGoesOn
  <2>3. QED BY <2>1, <2>2
<1>3. CASE Install
  <2>1. signals = 0 => stage[run] = run
    BY <1>1, <1>3 DEF Install, SwitchInv, Switch
  <2>2. CASE Fails
    BY <1>3, <2>2, SwitchAbort DEF Install
  <2>3. CASE ~Fails
    <3>1. signals = 0 =>
             /\ pc = "install" /\ pc' = "finish"
             /\ data' = IF data = Nothing THEN run ELSE data
             /\ UNCHANGED <<run, before, success, signals>>
      BY <1>1, <1>3, <2>1, <2>3 DEF Install
    <3>2. UNCHANGED signals /\ pc' # "idle"
      BY <1>3, <2>3 DEF Install, Abort, Exit
    <3>3. Switch'
      BY <1>1, <3>1, <3>2 DEF SwitchInv, Switch, Away
    <3>4. QED BY <3>2, <3>3, SwitchGoesOn
  <2>4. QED BY <2>2, <2>3
<1>4. CASE Drop
  <2>1. CASE Fails
    BY <1>4, <2>1, SwitchAbort DEF Drop
  <2>2. CASE ~Fails
    <3>1. /\ pc = "drop" /\ pc' = "k_stage" /\ after' = "end" /\ code' = "ok"
          /\ UNCHANGED <<run, data, moved, success, signals>>
      BY <1>4, <2>2 DEF Drop, Exit
    <3>2. Switch'
      BY <1>1, <3>1 DEF SwitchInv, Switch
    <3>3. QED BY <3>1, <3>2, SwitchGoesOn
  <2>3. QED BY <2>1, <2>2
<1>5. QED BY <1>2, <1>3, <1>4

\* cleanup completes the rollback: it does not fail when a command has failed
\* before.
LEMMA SwitchCleanup ==
    ASSUME MaxFaults <= 1, SwitchInv, CleanStage \/ MoveBack
    PROVE  Switch' /\ Rollback'
<1> USE DEF At, Go, shell, world, files, flags
<1>1. /\ run \in Run /\ run # Nothing /\ pc \in Cleanup /\ before \in [Run -> Tree]
      /\ faults \in Nat /\ MaxFaults \in Nat /\ pc # "idle"
      /\ result \in [Run -> {"none", "running", "ok", "error", "killed"}]
  BY Trees, RestoreBounds DEF SwitchInv, IInv, Ahead, TypeOK, CleanStage, MoveBack
<1>2. UNCHANGED <<run, before, success, moved, signals>>
  BY DEF CleanStage, MoveBack, Resume, CleanupFails, Exit, Fault
<1>3. signals = 0 =>
         /\ after = "end" /\ (code = "ok" => success)
         /\ success => data = run
         /\ ~success => (data = before[run] /\ ~moved) \/ (Away /\ moved /\ faults > 0)
  BY <1>1 DEF SwitchInv, Switch
<1>4. CASE CleanupFails
  <2>1. faults < MaxFaults /\ UNCHANGED <<data, old, stage>>
    BY <1>4 DEF CleanupFails, Fault
  <2>2. signals = 0 => ~(Away /\ moved /\ faults > 0)
    BY <1>1, <2>1
  <2>3. signals = 0 => pc' = "idle" /\ result' = [result EXCEPT ![run] = "error"]
    BY <1>3, <1>4 DEF CleanupFails
  <2>4. QED BY <1>1, <1>2, <1>3, <2>1, <2>2, <2>3 DEF Switch, Rollback
<1>5. CASE CleanStage /\ ~CleanupFails
  <2>1. CASE success
    <3>1. Resume /\ UNCHANGED data
      BY <1>5, <2>1 DEF CleanStage
    <3>2. signals = 0 => pc' = "idle" /\ result' = [result EXCEPT ![run] = code]
      BY <1>3, <3>1 DEF Resume
    <3>3. QED BY <1>1, <1>2, <1>3, <2>1, <3>1, <3>2 DEF Switch, Rollback
  <2>2. CASE ~success
    <3>1. pc' = "k_back" /\ UNCHANGED <<after, code, data, old, faults>>
      BY <1>5, <2>2 DEF CleanStage
    <3>2. QED BY <1>2, <1>3, <3>1 DEF Switch, Rollback, Away
  <2>3. QED BY <2>1, <2>2
<1>6. CASE MoveBack /\ ~CleanupFails
  <2>1. Resume /\ data' = IF MustGoBack THEN old[run] ELSE data
    BY <1>6 DEF MoveBack
  <2>2. signals = 0 => pc' = "idle" /\ result' = [result EXCEPT ![run] = code]
    BY <1>3, <2>1 DEF Resume
  <2>3. signals = 0 => data' = IF success THEN run ELSE before[run]
    BY <1>1, <1>3, <2>1 DEF MustGoBack, Away
  <2>4. QED BY <1>1, <1>2, <1>3, <2>2, <2>3 DEF Switch, Rollback
<1>7. QED BY <1>4, <1>5, <1>6

\* Every step keeps the place and what it knows.
LEMMA SwitchInductive ==
    ASSUME MaxFaults <= 1, SwitchInv, [Next]_vars
    PROVE  Switch' /\ Rollback'
<1> USE DEF shell, world, files, flags
<1>1. ASSUME NEW r \in Run, Begin(r) PROVE Switch' /\ Rollback'
  BY <1>1 DEF Begin, At, Switch, Rollback, SwitchInv, IInv, TypeOK
<1>2. CASE Checks
  <2>1. run \in Run /\ pc = "checks"
    BY <1>2 DEF Checks, At, SwitchInv, IInv, Ahead
  <2>2. QED BY <1>2, <2>1 DEF Checks, Go, Switch, Rollback, SwitchInv, IInv, TypeOK
<1>3. CASE Command /\ ~Checks
  BY <1>3, SwitchCommands, SwitchMoves DEF Command
<1>4. CASE CleanStage \/ MoveBack
  BY <1>4, SwitchCleanup
<1>5. CASE Signal
  <2>1. signals' # 0
    BY <1>5, RestoreBounds DEF Signal, SwitchInv, IInv, TypeOK
  <2>2. QED BY <2>1 DEF Switch, Rollback
<1>6. CASE Kill
  <2>1. run \in Run
    BY <1>6 DEF Kill, SwitchInv, IInv, Ahead
  <2>2. pc' = "idle" /\ result'[run] = "killed" /\ UNCHANGED run
    BY <1>6, <2>1 DEF Kill, SwitchInv, IInv, TypeOK
  <2>3. QED BY <2>2 DEF Switch, Rollback
<1>7. CASE UNCHANGED vars
  BY <1>7 DEF vars, Switch, Rollback, SwitchInv, Away
<1>8. QED BY <1>1, <1>2, <1>3, <1>4, <1>5, <1>6, <1>7 DEF Next

\* When at most one command fails, every place of the script knows what it has
\* done with the data directory: untouched up to the move, away until mv, the
\* archive's tree after it; in cleanup, which of these to undo.
THEOREM PlacesKnowTheSwitch == MaxFaults <= 1 => (Spec => []SwitchInv)
<1> SUFFICES ASSUME MaxFaults <= 1 PROVE Spec => []SwitchInv
  OBVIOUS
<1>1. Init => SwitchInv
  BY InvInit DEF Init, Switch, Rollback, SwitchInv
<1>2. SwitchInv /\ [Next]_vars => SwitchInv'
  <2> SUFFICES ASSUME SwitchInv, [Next]_vars PROVE SwitchInv'
    OBVIOUS
  <2>1. IInv'
    BY Inductive DEF SwitchInv
  <2>2. Switch' /\ Rollback'
    BY SwitchInductive
  <2>3. QED BY <2>1, <2>2 DEF SwitchInv
<1>3. QED BY <1>1, <1>2, PTL DEF Spec

\* When at most one command fails and no signal comes, a run that ends by itself
\* has switched or has put back what there was; with two failures it may not,
\* since the command that moves the old directory back may be the second.
THEOREM RunsRollBack == MaxFaults <= 1 => (Spec => []Rollback)
<1> SUFFICES ASSUME MaxFaults <= 1 PROVE Spec => []Rollback
  OBVIOUS
<1>1. SwitchInv => Rollback
  BY DEF SwitchInv
<1>2. QED BY <1>1, PlacesKnowTheSwitch, PTL
=============================================================================
