---------------------------- MODULE RestoreScript ----------------------------
(***************************************************************************)
(* scripts/restore.sh: puts the tree of a backup archive in the place of   *)
(* the data directory.  A step is one command, or one assignment that the  *)
(* trap looks at.  The shell runs the trap between two commands, and since *)
(* the trap does not exit the script goes on where it was.                 *)
(*                                                                         *)
(* Runs come one after the other; each has names of its own (STAMP, $$).   *)
(***************************************************************************)
EXTENDS Naturals

CONSTANTS
    Run,          \* runs of the script; also the tree of the archive it is given
    Original,     \* the tree in the data directory before the first run
    None,         \* no run
    MaxFaults,    \* commands that fail, in all runs
    MaxSignals,   \* INT or TERM signals the script receives
    MaxKills      \* times it is stopped without a trap, by KILL or by the power

Nothing == "nothing"   \* no such directory
Part    == "part"      \* an incomplete tree
Bare    == "bare"      \* the directories line 62 makes, and no library.db

Whole == {Original} \cup Run
Tree  == Whole \cup {Nothing, Part, Bare}

ASSUME RunsAreTrees ==
    /\ None \notin Run
    /\ Whole \cap {Nothing, Part, Bare} = {}
    /\ Original \notin Run
ASSUME RestoreBounds == MaxFaults \in Nat /\ MaxSignals \in Nat /\ MaxKills \in Nat

VARIABLES
    pc,        \* the next command
    run,       \* the run this is, or was last
    after,     \* where the script goes on after the trap
    code,      \* its exit status so far
    result,    \* result[r]: how run r ended
    before,    \* before[r]: what DATA_DIR was when run r started
    data,      \* DATA_DIR
    stage,     \* stage[r]: STAGE
    old,       \* old[r]: OLD
    safety,    \* safety[r]: what SAFETY packs
    moved,     \* MOVED=yes
    success,   \* SUCCESS=yes
    faults, signals, kills

flags == <<moved, success>>
files == <<data, stage, old, safety>>
shell == <<run, after, code, result, before>>
world == <<faults, signals, kills>>
vars  == <<pc, shell, files, flags, world>>

Trapped == {"verify", "mkdir", "extract", "files", "quick", "dirs", "save",
            "aside", "moved", "install", "finish", "drop"}
Cleanup == {"k_stage", "k_back"}
Label   == {"idle", "checks"} \cup Trapped \cup Cleanup

-----------------------------------------------------------------------------
At(l) == pc = l

Go(l) == pc' = l /\ UNCHANGED <<shell, world>>

\* exit, or a command that fails under set -e: the EXIT trap runs.
Exit(status) ==
    /\ pc' = "k_stage"
    /\ after' = "end"
    /\ code' = status
    /\ UNCHANGED <<run, result, before>>

Abort == Exit("error") /\ UNCHANGED <<files, flags, world>>

Fault ==
    /\ faults < MaxFaults
    /\ faults' = faults + 1
    /\ UNCHANGED <<signals, kills>>

\* The command fails and does nothing.
Fails == Exit("error") /\ Fault /\ UNCHANGED <<files, flags>>

Begin(r) ==
    /\ At("idle")
    /\ result[r] = "none"
    /\ pc' = "checks"
    /\ run' = r
    /\ before' = [before EXCEPT ![r] = data]
    /\ result' = [result EXCEPT ![r] = "running"]
    /\ moved' = FALSE
    /\ success' = FALSE
    /\ UNCHANGED <<after, code, files, world>>

\* A database in use, a missing argument or command: no trap is set yet.
Checks ==
    /\ At("checks")
    /\ \/ Go("verify")
       \/ /\ pc' = "idle"
          /\ result' = [result EXCEPT ![run] = "error"]
          /\ UNCHANGED <<run, after, code, before, world>>
    /\ UNCHANGED <<files, flags>>

\* Checksum, entry names, links.
Verify ==
    /\ At("verify")
    /\ \/ Go("mkdir") /\ UNCHANGED <<files, flags>>
       \/ Abort

MakeStage ==
    /\ At("mkdir")
    /\ \/ /\ stage' = [stage EXCEPT ![run] = Part]
          /\ Go("extract")
          /\ UNCHANGED <<data, old, safety, flags>>
       \/ Fails

\* The archive may hold something else than a backup.
Extract ==
    /\ At("extract")
    /\ \/ /\ stage[run] # Nothing
          /\ \E t \in {run, Part} : stage' = [stage EXCEPT ![run] = t]
          /\ Go("files")
          /\ UNCHANGED <<data, old, safety, flags>>
       \/ stage[run] = Nothing /\ Abort
       \/ Fails

\* library.db and backup.json are there.
CheckFiles ==
    /\ At("files")
    /\ \/ stage[run] # Nothing /\ Go("quick") /\ UNCHANGED <<files, flags>>
       \/ stage[run] # run /\ Abort

\* PRAGMA quick_check.
QuickCheck ==
    /\ At("quick")
    /\ \/ stage[run] = run /\ Go("dirs") /\ UNCHANGED <<files, flags>>
       \/ stage[run] # run /\ Abort
       \/ Fails

\* One mkdir -p of the loop, the last one or not: it makes STAGE too.
MakeDirs ==
    /\ At("dirs")
    /\ \/ /\ stage' = [stage EXCEPT ![run] = IF @ = Nothing THEN Bare ELSE @]
          /\ \E l \in {"dirs", "save"} : Go(l)
          /\ UNCHANGED <<data, old, safety, flags>>
       \/ Fails

\* Mutant: the data directory is moved away without a safety archive.
SaveSkipped ==
    /\ At("save")
    /\ Go(IF data = Nothing THEN "install" ELSE "aside")
    /\ UNCHANGED <<files, flags>>

Save ==
    /\ At("save")
    /\ \/ /\ data = Nothing
          /\ Go("install")
          /\ UNCHANGED <<files, flags>>
       \/ /\ data # Nothing
          /\ safety' = [safety EXCEPT ![run] = data]
          /\ Go("aside")
          /\ UNCHANGED <<data, stage, old, flags>>
       \/ data # Nothing /\ Fails

Aside ==
    /\ At("aside")
    /\ \/ /\ old' = [old EXCEPT ![run] = data]
          /\ data' = Nothing
          /\ Go("moved")
          /\ UNCHANGED <<stage, safety, flags>>
       \/ Fails

\* Mutant: MOVED is never set.
MovedForgotten == At("moved") /\ Go("install") /\ UNCHANGED <<files, flags>>

Moved ==
    /\ At("moved")
    /\ moved' = TRUE
    /\ Go("install")
    /\ UNCHANGED <<files, success>>

\* mv puts STAGE into a DATA_DIR that exists.
Install ==
    /\ At("install")
    /\ \/ /\ stage[run] # Nothing
          /\ data' = IF data = Nothing THEN stage[run] ELSE data
          /\ stage' = [stage EXCEPT ![run] = Nothing]
          /\ Go("finish")
          /\ UNCHANGED <<old, safety, flags>>
       \/ stage[run] = Nothing /\ Abort
       \/ Fails

Finish ==
    /\ At("finish")
    /\ success' = TRUE
    /\ Go("drop")
    /\ UNCHANGED <<files, moved>>

Drop ==
    /\ At("drop")
    /\ \/ /\ old' = [old EXCEPT ![run] = Nothing]
          /\ Exit("ok")
          /\ UNCHANGED <<data, stage, safety, flags, world>>
       \/ Fails

-----------------------------------------------------------------------------
(* cleanup, as the EXIT trap (after = "end") or as that of a signal.       *)

Resume ==
    /\ UNCHANGED <<run, after, code, before>>
    /\ IF after = "end"
       THEN pc' = "idle" /\ result' = [result EXCEPT ![run] = code]
       ELSE pc' = after /\ UNCHANGED result

\* A command of cleanup fails: the shell exits, out of the EXIT trap for good.
CleanupFails ==
    /\ Fault
    /\ UNCHANGED <<files, flags>>
    /\ IF after = "end"
       THEN /\ pc' = "idle"
            /\ result' = [result EXCEPT ![run] = "error"]
            /\ UNCHANGED <<run, after, code, before>>
       ELSE Exit("error")

CleanStage ==
    /\ At("k_stage")
    /\ \/ success /\ Resume /\ UNCHANGED <<files, flags, world>>
       \/ /\ ~success
          /\ stage' = [stage EXCEPT ![run] = Nothing]
          /\ Go("k_back")
          /\ UNCHANGED <<data, old, safety, flags>>
       \/ ~success /\ CleanupFails

MustGoBack == moved /\ data = Nothing /\ old[run] # Nothing

MoveBack ==
    /\ At("k_back")
    /\ \/ /\ MustGoBack
          /\ data' = old[run]
          /\ old' = [old EXCEPT ![run] = Nothing]
          /\ Resume
          /\ UNCHANGED <<stage, safety, flags, world>>
       \/ ~MustGoBack /\ Resume /\ UNCHANGED <<files, flags, world>>
       \/ MustGoBack /\ CleanupFails

\* INT or TERM to the shell alone.
Signal ==
    /\ pc \in Trapped
    /\ signals < MaxSignals
    /\ signals' = signals + 1
    /\ pc' = "k_stage"
    /\ after' = pc
    /\ UNCHANGED <<run, code, result, before, files, flags, faults, kills>>

\* Also before or after the command under way; what that command leaves half
\* done has a name no other run uses.
Kill ==
    /\ pc # "idle"
    /\ kills < MaxKills
    /\ kills' = kills + 1
    /\ pc' = "idle"
    /\ result' = [result EXCEPT ![run] = "killed"]
    /\ UNCHANGED <<run, after, code, before, files, flags, faults, signals>>

Command ==
    \/ Checks \/ Verify \/ MakeStage \/ Extract \/ CheckFiles \/ QuickCheck
    \/ MakeDirs \/ Save \/ Aside \/ Moved \/ Install \/ Finish \/ Drop

Init ==
    /\ pc = "idle"
    /\ run = None
    /\ after = "end"
    /\ code = "ok"
    /\ result = [r \in Run |-> "none"]
    /\ before = [r \in Run |-> Nothing]
    /\ data \in {Original, Nothing}
    /\ stage = [r \in Run |-> Nothing]
    /\ old = [r \in Run |-> Nothing]
    /\ safety = [r \in Run |-> Nothing]
    /\ moved = FALSE
    /\ success = FALSE
    /\ faults = 0
    /\ signals = 0
    /\ kills = 0

Next ==
    \/ \E r \in Run : Begin(r)
    \/ Command \/ CleanStage \/ MoveBack \/ Signal \/ Kill

Spec == Init /\ [][Next]_vars

-----------------------------------------------------------------------------
\* Every variable has its type; what is on the disk is one of the known trees.
TypeOK ==
    /\ pc \in Label
    /\ run \in Run \cup {None}
    /\ after \in Trapped \cup {"end"}
    /\ code \in {"ok", "error"}
    /\ result \in [Run -> {"none", "running", "ok", "error", "killed"}]
    /\ before \in [Run -> Tree]
    /\ data \in Tree
    /\ stage \in [Run -> Tree]
    /\ old \in [Run -> Tree]
    /\ safety \in [Run -> Tree]
    /\ moved \in BOOLEAN
    /\ success \in BOOLEAN
    /\ faults \in 0..MaxFaults
    /\ signals \in 0..MaxSignals
    /\ kills \in 0..MaxKills

\* What was in the data directory when a run started is somewhere afterwards,
\* whatever fails, whatever signals come and wherever the script is killed:
\* in the data directory, in the directory it was moved to, or in the safety
\* archive.
NothingLost ==
    \A r \in Run : before[r] # Nothing =>
        \/ data = before[r]
        \/ \E q \in Run : before[r] \in {old[q], safety[q]}

\* Without signals a run that ends by itself, with at most one command that
\* failed, has put the archive in place, or rolled back to what there was; only
\* the removal of the old directory may fail after the switch.
Rollback ==
    pc = "idle" /\ run # None /\ signals = 0 =>
        /\ result[run] = "ok" => data = run
        /\ result[run] = "error" => data = IF success THEN run ELSE before[run]

\* However a run ends, the data directory is what it was or one whole archive
\* (docs/backup-and-restore.md:18).
AtomicSwitch ==
    pc = "idle" /\ run # None => data \in {before[run], run}

-----------------------------------------------------------------------------
(* The inductive invariant behind NothingLost.                             *)

\* Where the script is, also while a signal's trap runs.
Position == IF pc \in Cleanup THEN after ELSE pc

UpToSave == {"checks", "verify", "mkdir", "extract", "files", "quick", "dirs", "save"}

\* A run that has not begun has nothing on the disk.
Unused == \A r \in Run : result[r] = "none" => old[r] = Nothing /\ safety[r] = Nothing

\* Up to the move the data directory is untouched, and then it is packed.
Ahead ==
    /\ pc # "idle" => run \in Run /\ result[run] = "running"
    /\ pc # "idle" /\ Position \in UpToSave =>
          old[run] = Nothing /\ safety[run] = Nothing /\ ~moved
    /\ pc # "idle" /\ Position = "aside" =>
          old[run] = Nothing /\ safety[run] = data /\ ~moved

\* What was moved away has been packed before.
Packed == \A r \in Run : old[r] # Nothing => safety[r] = old[r]

\* The whole of it: lines 64 to 71 pack the data directory before they move it.
IInv == TypeOK /\ Unused /\ Ahead /\ Packed /\ NothingLost

-----------------------------------------------------------------------------
(* The inductive invariant behind Rollback, beside IInv.                   *)

Away == data = Nothing /\ old[run] = before[run] /\ before[run] # Nothing

\* As long as no signal comes, what each place knows of the switch: that the
\* data directory has not been touched, is away, or is the archive's tree.
Switch ==
    signals = 0 /\ pc # "idle" =>
        /\ pc \in UpToSave \cup {"aside"} => data = before[run] /\ ~moved
        /\ pc = "aside" => data # Nothing
        /\ pc = "moved" => Away
        /\ pc = "install" => (Away /\ moved) \/ (data = Nothing /\ before[run] = Nothing /\ ~moved)
        /\ pc \in {"dirs", "save", "aside", "moved", "install"} => stage[run] = run
        /\ pc \in {"finish", "drop"} => data = run
        /\ pc \in Trapped \cup {"checks"} => (success <=> pc = "drop")
        /\ pc \in Cleanup =>
              /\ after = "end" /\ (code = "ok" => success)
              /\ success => data = run
              /\ ~success => (data = before[run] /\ ~moved) \/ (Away /\ moved /\ faults > 0)

SwitchInv == IInv /\ Switch /\ Rollback
=============================================================================
