--------------------------- MODULE StartupProofs ---------------------------
(***************************************************************************)
(* Starts of the server, any number of them with any number of power       *)
(* failures: the choice of the session secret, which keeps the promise of  *)
(* OneSecret, the migrations the starts race for, and that main keeps that *)
(* promise with the errors of the database as well.                        *)
(***************************************************************************)
EXTENDS Startup, TLAPS

(***************************************************************************)
(* ResolveSessionSecret.                                                   *)
(***************************************************************************)

USE DEF File, Resolving, Alive, Label, Sources, Unlinked

\* The invariant holds initially.
LEMMA InvInit == Init => IInv
BY OldIsNoStart, NoneIsNoFile, LossesAreNat
DEF Init, IInv, TypeOK, LinkedWhole, Progress, Sourced, CreatedLasts, FromDisk

\* A start that is turned away keeps it.
LEMMA InvRefuse ==
    ASSUME IInv, NEW s \in Start, pc[s] \in Resolving, Refuse(s)
    PROVE  IInv'
BY OldIsNoStart, NoneIsNoFile
DEF Refuse, Go, IInv, TypeOK, LinkedWhole, Progress, Sourced, CreatedLasts, FromDisk

\* A start that loads the secret gets the one in the file.
LEMMA InvFound ==
    ASSUME IInv, NEW s \in Start, pc[s] \in {"load", "again"}, LoadFound(s)
    PROVE  IInv'
<1>1. CASE Refuse(s) BY <1>1, InvRefuse
<1>2. CASE entry # None /\ Serve(s, entry, "loaded") /\ UNCHANGED kept
  BY <1>2, OldIsNoStart, NoneIsNoFile
  DEF Serve, IInv, TypeOK, LinkedWhole, Progress, Sourced, CreatedLasts, FromDisk
<1>3. QED BY <1>1, <1>2 DEF LoadFound

\* Every step of ResolveSessionSecret keeps it.
LEMMA InvResolve ==
    ASSUME IInv, NEW s \in Start, Resolve(s)
    PROVE  IInv'
<1>0. Refuse(s) /\ pc[s] \in Resolving => IInv'
  BY InvRefuse
<1> USE OldIsNoStart, NoneIsNoFile
    DEF IInv, TypeOK, LinkedWhole, Progress, Sourced, CreatedLasts, FromDisk
<1>1. CASE Begin(s)
  BY <1>1 DEF Begin, Go
<1>2. CASE Environment(s)
  BY <1>0, <1>2 DEF Environment, Go, Serve
<1>3. CASE Load(s)
  BY <1>3, InvFound DEF Load, Go
<1>4. CASE CreateTemp(s)
  <2>1. CASE Refuse(s) BY <1>0, <1>4, <2>1 DEF CreateTemp
  <2>2. CASE ~Refuse(s) BY <1>4, <2>2 DEF CreateTemp, Go
  <2>3. QED BY <2>1, <2>2
<1>5. CASE Write(s)
  <2>1. CASE Refuse(s) BY <1>0, <1>5, <2>1 DEF Write
  <2>2. CASE ~Refuse(s) BY <1>5, <2>2 DEF Write, Go
  <2>3. QED BY <2>1, <2>2
<1>6. CASE Sync(s)
  <2>1. CASE Refuse(s) BY <1>0, <1>6, <2>1 DEF Sync
  <2>2. CASE ~Refuse(s) BY <1>6, <2>2 DEF Sync, Go
  <2>3. QED BY <2>1, <2>2
<1>7. CASE Link(s)
  <2>1. CASE Refuse(s) BY <1>0, <1>7, <2>1 DEF Link
  <2>2. CASE entry # None /\ Go(s, "again") /\ UNCHANGED <<data, synced, temps, entry, kept>>
    BY <1>7, <2>2 DEF Link, Go
  <2>3. CASE /\ entry = None /\ entry' = s /\ kept' = FALSE
             /\ Go(s, "dirsync") /\ UNCHANGED <<data, synced, temps>>
    <3>1. TypeOK' BY <1>7, <2>3 DEF Go
    <3>2. LinkedWhole' BY <1>7, <2>3 DEF Link, Go
    <3>3. Progress' BY <1>7, <2>3 DEF Link, Go
    <3>4. \A t \in Start : source[t] # "created" /\ (losses = 0 => ~FromDisk(t))
      BY <2>3
    <3>5. (Sourced /\ CreatedLasts)' BY <2>3, <3>4 DEF Go
    <3>6. QED BY <3>1, <3>2, <3>3, <3>5
  <2>4. QED BY <1>7, <2>1, <2>2, <2>3 DEF Link
<1>8. CASE Again(s)
  BY <1>8, InvFound DEF Again
<1>9. CASE SyncDir(s)
  <2>1. CASE Refuse(s) BY <1>0, <1>9, <2>1 DEF SyncDir
  <2>2. CASE Serve(s, s, "created") /\ kept' = TRUE
    <3>1. TypeOK' BY <2>2 DEF Serve
    <3>2. LinkedWhole' BY <1>9, <2>2 DEF SyncDir, Serve
    <3>3. Progress' BY <1>9, <2>2 DEF SyncDir, Serve
    <3>4. entry = s BY <1>9 DEF SyncDir
    <3>5. Sourced' BY <2>2, <3>4 DEF Serve
    <3>6. CreatedLasts' BY <2>2, <3>4 DEF Serve
    <3>7. QED BY <3>1, <3>2, <3>3, <3>5, <3>6
  <2>3. QED BY <1>9, <2>1, <2>2 DEF SyncDir
<1>10. QED
  BY <1>1, <1>2, <1>3, <1>4, <1>5, <1>6, <1>7, <1>8, <1>9 DEF Resolve

\* A start may be killed anywhere.
LEMMA InvKill ==
    ASSUME IInv, NEW s \in Start, Kill(s)
    PROVE  IInv'
BY DEF Kill, Go, IInv, TypeOK, LinkedWhole, Progress, Sourced, CreatedLasts, FromDisk

\* The power may fail at any time.
LEMMA InvPowerLoss == ASSUME IInv, PowerLoss PROVE IInv'
BY OldIsNoStart, NoneIsNoFile, LossesAreNat
DEF PowerLoss, IInv, TypeOK, LinkedWhole, Progress, Sourced, CreatedLasts, FromDisk

\* A step that changes nothing keeps it.
LEMMA InvStutter == ASSUME IInv, UNCHANGED vars PROVE IInv'
BY DEF vars, IInv, TypeOK, LinkedWhole, Progress, Sourced, CreatedLasts, FromDisk

(***************************************************************************)
(* The invariant holds for any number of starts and of power failures.     *)
(***************************************************************************)
THEOREM Invariance == Spec => []IInv
<1>1. IInv /\ [Next]_vars => IInv'
  BY InvResolve, InvKill, InvPowerLoss, InvStutter DEF Next
<1>2. QED BY InvInit, <1>1, PTL DEF Spec

(***************************************************************************)
(* Every variable keeps its type.                                          *)
(***************************************************************************)
THEOREM TypeCorrect == Spec => []TypeOK
<1>1. IInv => TypeOK BY DEF IInv
<1>2. QED BY <1>1, Invariance, PTL

(***************************************************************************)
(* While the power stays on all starts agree on the secret, however they   *)
(* race and wherever they are killed.                                      *)
(***************************************************************************)
THEOREM StartsAgree == Spec => []Agreement
<1>1. IInv => Agreement BY DEF IInv, Sourced, Agreement
<1>2. QED BY <1>1, Invariance, PTL

(***************************************************************************)
(* A secret reported as created survives every power failure.              *)
(***************************************************************************)
THEOREM CreatedIsDurable == Spec => []CreatedLasts
<1>1. IInv => CreatedLasts BY DEF IInv
<1>2. QED BY <1>1, Invariance, PTL

(***************************************************************************)
(* No start ever leaves a torn secret under the final name.                *)
(***************************************************************************)
THEOREM SecretIsWhole == Spec => []NeverTorn
<1>1. IInv => NeverTorn BY DEF IInv, LinkedWhole, NeverTorn
<1>2. QED BY <1>1, Invariance, PTL

\* A step that leaves every server as it was, and the choice.
LEMMA PromiseSame ==
    ASSUME \A s \in Start : pc'[s] = "serving" <=> pc[s] = "serving",
           UNCHANGED <<got, entry>>
    PROVE  UNCHANGED <<entry, Running>>
BY DEF Running

\* A start that returns with the secret is given the one that was chosen.
LEMMA PromiseServe ==
    ASSUME IInv, NEW s \in Start, pc[s] \in Resolving, entry # None,
           \E from \in Sources : Serve(s, entry, from)
    PROVE  Promise!Give(s)
<1>1. Running[s] = None BY DEF Running
<1>2. Running' = [Running EXCEPT ![s] = entry]
  BY DEF Running, Serve, IInv, TypeOK
<1>3. QED BY <1>1, <1>2 DEF Promise!Give, Serve

\* A start that is turned away gets nothing.
LEMMA PromiseRefuse ==
    ASSUME IInv, NEW s \in Start, pc[s] \in Resolving, Refuse(s)
    PROVE  UNCHANGED <<entry, Running>>
BY PromiseSame DEF Refuse, Go, IInv, TypeOK

\* Every step of ResolveSessionSecret is one of OneSecret or none.
LEMMA PromiseResolve ==
    ASSUME IInv, NEW s \in Start, Resolve(s)
    PROVE  Promise!Choose(s) \/ Promise!Give(s) \/ UNCHANGED <<entry, Running>>
<1> USE DEF IInv, TypeOK
<1>0. Refuse(s) /\ pc[s] \in Resolving => UNCHANGED <<entry, Running>>
  BY PromiseRefuse
<1>1. ASSUME pc[s] \in {"load", "again"}, LoadFound(s)
      PROVE  Promise!Give(s) \/ UNCHANGED <<entry, Running>>
  BY <1>0, <1>1, PromiseServe DEF LoadFound
<1>2. ASSUME NEW l \in Resolving, pc[s] \in Resolving \cup {"idle"}, Go(s, l), entry' = entry
      PROVE  UNCHANGED <<entry, Running>>
  BY <1>2, PromiseSame DEF Go
<1>3. CASE Begin(s) \/ CreateTemp(s) \/ Write(s) \/ Sync(s)
  BY <1>0, <1>2, <1>3 DEF Begin, CreateTemp, Write, Sync
<1>4. CASE Environment(s)
  <2>1. CASE Serve(s, None, "environment")
    BY <1>4, <2>1 DEF Environment, Serve, Running
  <2>2. QED BY <1>0, <1>2, <1>4, <2>1 DEF Environment
<1>5. CASE Load(s)
  BY <1>1, <1>2, <1>5 DEF Load
<1>6. CASE Again(s)
  BY <1>1, <1>6 DEF Again
<1>7. CASE Link(s)
  <2>1. CASE entry = None /\ entry' = s /\ Go(s, "dirsync")
    <3>1. Running' = Running BY <1>7, <2>1 DEF Link, Go, Running
    <3>2. QED BY <2>1, <3>1 DEF Promise!Choose
  <2>2. QED BY <1>0, <1>2, <1>7, <2>1 DEF Link
<1>8. CASE SyncDir(s)
  <2>1. entry = s /\ s # None BY <1>8, NoneIsNoFile DEF SyncDir, Progress
  <2>2. QED BY <1>0, <1>8, <2>1, PromiseServe DEF SyncDir
<1>9. QED BY <1>3, <1>4, <1>5, <1>6, <1>7, <1>8 DEF Resolve

\* A server that is killed stops, and a power failure stops them all.
LEMMA PromiseStop ==
    ASSUME IInv
    PROVE  /\ \A s \in Start : Kill(s) => Promise!Stop(s)
           /\ PowerLoss => Promise!PowerLoss
<1>1. ASSUME NEW s \in Start, Kill(s) PROVE Promise!Stop(s)
  BY <1>1 DEF Kill, Go, Running, Promise!Stop, IInv, TypeOK
<1>2. ASSUME PowerLoss PROVE Promise!PowerLoss
  BY <1>2 DEF PowerLoss, Running, Promise!PowerLoss, IInv, TypeOK
<1>3. QED BY <1>1, <1>2

(***************************************************************************)
(* The procedure implements OneSecret, with any number of kills and power  *)
(* failures: the name config/session_secret is the choice, and each step   *)
(* hands the chosen secret to at most one server that had none.            *)
(***************************************************************************)
THEOREM KeepsPromise == Spec => PromiseKept
<1>1. Init => Promise!Init
  BY DEF Init, Running, Promise!Init
<1>2. IInv /\ [Next]_vars => [Promise!Next]_<<entry, Running>>
  <2>1. ASSUME IInv, Next PROVE [Promise!Next]_<<entry, Running>>
    BY <2>1, PromiseResolve, PromiseStop DEF Next, Promise!Next
  <2>2. ASSUME UNCHANGED vars PROVE UNCHANGED <<entry, Running>>
    BY <2>2 DEF vars, Running
  <2>3. QED BY <2>1, <2>2
<1>3. QED
  BY <1>1, <1>2, Invariance, PTL DEF Spec, PromiseKept, Promise!Spec

-----------------------------------------------------------------------------
(***************************************************************************)
(* The database, and the whole start.                                      *)
(***************************************************************************)
USE DEF File, Resolving, Alive, Label, Versions, Place

\* What a step of ResolveSessionSecret does to who is where.
LEMMA ResolveLabel ==
    ASSUME IInv, NEW s \in Start, Resolve(s)
    PROVE  /\ pc[s] \in Resolving \cup {"idle"}
           /\ pc' = [pc EXCEPT ![s] = pc'[s]] /\ pc'[s] \in Label
<1>1. pc \in [Start -> Label]
  BY DEF IInv, TypeOK
<1>2. CASE Begin(s) \/ Environment(s) \/ Load(s)
  BY <1>1, <1>2 DEF Begin, Environment, Load, LoadFound, Go, Serve, Refuse
<1>3. CASE CreateTemp(s) \/ Write(s) \/ Sync(s)
  BY <1>1, <1>3 DEF CreateTemp, Write, Sync, Go, Refuse
<1>4. CASE Link(s) \/ Again(s) \/ SyncDir(s)
  BY <1>1, <1>4 DEF Link, Again, SyncDir, LoadFound, Go, Serve, Refuse
<1>5. QED BY <1>2, <1>3, <1>4 DEF Resolve

\* What the versions on record say of those to come.
LEMMA NextVersion ==
    ASSUME Recorded, NEW v \in Versions, 1..(v - 1) \subseteq recorded, v \notin recorded
    PROVE  recorded \cup {v} = 1..v
<1>1. PICK n \in 0..4 : recorded = 1..n
  BY DEF Recorded
<1>2. v \in Nat /\ v >= 1
  BY DEF Versions
<1>3. n = v - 1
  <2>1. ~(v <= n)
    BY <1>1, <1>2
  <2>2. v > 1 => v - 1 \in 1..n
    BY <1>1, <1>2
  <2>3. QED BY <1>1, <1>2, <2>1, <2>2
<1>4. QED BY <1>1, <1>2, <1>3

\* Initially the database is that of some release.
LEMMA DInvInit == DInit => DInv
<1> SUFFICES ASSUME DInit PROVE DInv
  OBVIOUS
<1> USE DEF DInit
<1>1. PICK n \in 0..4 : /\ recorded = 1..n
                        /\ tables = UNION {Brought[v] : v \in 1..n} \cup {Schema : v \in 1..n}
  OBVIOUS
<1>2. DTypeOK
  BY DEF DTypeOK, Place, Versions
<1>3. Placed /\ Locked
  BY NoneIsNoFile DEF Placed, Locked
<1>4. Come
  <2>1. 1..(1 - 1) = {}
    OBVIOUS
  <2>2. \A s \in Start : version[s] = 1 /\ at[s] = "closed"
    OBVIOUS
  <2>3. QED BY <2>1, <2>2 DEF Come
<1>5. Recorded
  BY <1>1 DEF Recorded
<1>6. OneLeads
  BY DEF OneLeads, Stale
<1>7. QED BY <1>2, <1>3, <1>4, <1>5, <1>6 DEF DInv

\* Before it has its secret a start is not at the database.
LEMMA DInvResolve ==
    ASSUME IInv, DInv, NEW s \in Start, Resolve(s), UNCHANGED database
    PROVE  DInv'
<1> USE DEF database
<1>1. /\ pc[s] \in Resolving \cup {"idle"}
      /\ \A t \in Start \ {s} : pc'[t] = pc[t]
  BY ResolveLabel DEF IInv, TypeOK
<1>2. at[s] = "closed"
  BY <1>1 DEF DInv, Placed
<1>3. DTypeOK' /\ Locked' /\ Come' /\ Recorded'
  BY DEF DInv, DTypeOK, Locked, Come, Recorded
<1>4. Placed'
  BY <1>1, <1>2 DEF DInv, Placed
<1>5. \A t \in Start : Goes(t) => Goes(t)'
  BY <1>1, <1>2 DEF Goes, Stale
<1>6. OneLeads'
  BY <1>5 DEF DInv, OneLeads, Stale
<1>7. QED BY <1>3, <1>4, <1>6 DEF DInv

\* A start that ends lets go of the lock; others are as they were.
LEMMA DInvRollback ==
    ASSUME IInv, DInv, NEW s \in Start, NEW l \in {"refused", "dead"},
           pc' = [pc EXCEPT ![s] = l],
           Rollback(s, IF l = "dead" THEN "closed" ELSE "failed"),
           l = "refused" => \E u \in Start \ {s} : Goes(u)
    PROVE  DInv'
<1> DEFINE to == IF l = "dead" THEN "closed" ELSE "failed"
<1>1. /\ pc'[s] = l /\ at'[s] = to
      /\ version'[s] = 1 /\ snapshot'[s] = {}
      /\ writer' = IF writer = s THEN None ELSE writer
      /\ \A t \in Start \ {s} : /\ pc'[t] = pc[t] /\ at'[t] = at[t]
                                /\ version'[t] = version[t] /\ snapshot'[t] = snapshot[t]
      /\ UNCHANGED <<tables, recorded>>
  BY DEF Rollback, DInv, DTypeOK, IInv, TypeOK
<1>2. DTypeOK'
  BY DEF Rollback, DInv, DTypeOK, Place, Versions
<1>3. Placed'
  BY <1>1 DEF DInv, Placed
<1>4. Locked'
  BY <1>1, NoneIsNoFile DEF DInv, Locked, DTypeOK
<1>5. Come' /\ Recorded'
  BY <1>1 DEF DInv, Come, Recorded
<1>6. \A t \in Start \ {s} : (Goes(t)' <=> Goes(t)) /\ (Stale(t)' <=> Stale(t))
  BY <1>1 DEF Goes, Stale
<1>7. OneLeads'
  <2>1. CASE l = "dead"
    BY <2>1, <1>1 DEF OneLeads, Goes
  <2>2. CASE l = "refused"
    BY <2>2, <1>6 DEF OneLeads
  <2>3. QED BY <2>1, <2>2
<1>8. QED BY <1>2, <1>3, <1>4, <1>5, <1>7 DEF DInv

\* A start that fails leaves one that goes on: the one that holds the lock, or
\* who made stale what it had seen.
LEMMA DInvFail ==
    ASSUME IInv, DInv, NEW s \in Start, Fail(s),
           \/ at[s] = "create" /\ (writer # None \/ Schema \in tables)
           \/ /\ at[s] = "write"
              /\ writer # None \/ snapshot[s] # recorded \/ version[s] \in recorded
    PROVE  DInv'
<1>1. /\ pc[s] = "serving" /\ pc' = [pc EXCEPT ![s] = "refused"]
      /\ Rollback(s, "failed")
  BY DEF Fail
<1>2. \E u \in Start \ {s} : Goes(u)
  <2>1. CASE writer # None
    <3>1. writer \in Start /\ at[writer] = "commit"
      BY <2>1 DEF DInv, DTypeOK, Locked
    <3>2. QED BY <3>1 DEF Goes
  <2>2. CASE Stale(s)
    <3>1. PICK u \in Start : Goes(u)
      BY <2>2 DEF DInv, OneLeads
    <3>2. u # s
      BY <1>1, <2>2, <3>1 DEF Goes, Stale
    <3>3. QED BY <3>1, <3>2
  <2>3. QED BY <2>1, <2>2 DEF Stale
<1>3. QED BY <1>1, <1>2, DInvRollback

\* A step of one start that writes nothing, and makes it stale no more than it
\* was.
LEMMA DInvMoves ==
    ASSUME IInv, DInv, NEW s \in Start, NEW to \in Place,
           pc[s] = "serving", pc' = pc, at' = [at EXCEPT ![s] = to],
           at[s] # "commit", to \notin {"commit", "listening", "failed", "closed"},
           UNCHANGED <<tables, recorded, writer>>,
           version' \in [Start -> Versions], snapshot' \in [Start -> SUBSET Versions],
           \A t \in Start \ {s} : version'[t] = version[t] /\ snapshot'[t] = snapshot[t],
           1..(version'[s] - 1) \subseteq recorded,
           Stale(s)' => Stale(s), Goes(s) => Goes(s)'
    PROVE  DInv'
<1>1. /\ at'[s] = to
      /\ \A t \in Start \ {s} : at'[t] = at[t]
  BY DEF DInv, DTypeOK
<1>2. DTypeOK'
  BY DEF DInv, DTypeOK
<1>3. Placed'
  BY <1>1 DEF DInv, Placed
<1>4. Locked'
  BY <1>1 DEF DInv, Locked
<1>5. Come' /\ Recorded'
  BY <1>1 DEF DInv, Come, Recorded
<1>6. \A t \in Start : (Goes(t) => Goes(t)') /\ (Stale(t)' => Stale(t))
  BY <1>1 DEF Goes, Stale
<1>7. OneLeads'
  BY <1>1, <1>6 DEF DInv, OneLeads
<1>8. QED BY <1>2, <1>3, <1>4, <1>5, <1>7 DEF DInv

LEMMA DInvOpen ==
    ASSUME IInv, DInv, NEW s \in Start, Open(s)
    PROVE  DInv'
<1> DEFINE to == IF Schema \in tables THEN "count" ELSE "create"
<1>1. /\ pc[s] = "serving" /\ at[s] = "closed" /\ at' = [at EXCEPT ![s] = to]
      /\ UNCHANGED vars /\ UNCHANGED <<version, snapshot, writer, tables, recorded>>
  BY DEF Open, Moves
<1>2. ~Goes(s) /\ ~Stale(s)'
  BY <1>1 DEF Goes, Stale, DInv, DTypeOK
<1>3. QED
  <2>1. to \in {"count", "create"} /\ pc' = pc
    BY <1>1 DEF vars
  <2> HIDE DEF to
  <2>2. QED BY <1>1, <1>2, <2>1, DInvMoves DEF DInv, DTypeOK, Come

LEMMA DInvCreateSchema ==
    ASSUME IInv, DInv, NEW s \in Start, CreateSchema(s)
    PROVE  DInv'
<1>1. CASE at[s] = "create" /\ (writer # None \/ Schema \in tables) /\ Fail(s)
  BY <1>1, DInvFail
<1>2. CASE /\ Moves(s, "create", "count")
           /\ writer = None /\ tables' = tables \cup {Schema}
           /\ UNCHANGED <<version, snapshot, writer, recorded>>
  <2>1. /\ pc[s] = "serving" /\ at[s] = "create" /\ at'[s] = "count" /\ pc' = pc
        /\ \A t \in Start \ {s} : at'[t] = at[t]
    BY <1>2 DEF Moves, vars, DInv, DTypeOK
  <2>2. DTypeOK'
    BY <1>2 DEF Moves, DInv, DTypeOK
  <2>3. Placed' /\ Locked' /\ Come'
    BY <1>2, <2>1 DEF DInv, Placed, Locked, Come
  <2>4. Recorded'
    BY <1>2 DEF DInv, Recorded
  <2>5. OneLeads'
    BY <2>1 DEF OneLeads, Goes
  <2>6. QED BY <2>2, <2>3, <2>4, <2>5 DEF DInv
<1>3. QED BY <1>1, <1>2 DEF CreateSchema

LEMMA DInvCount ==
    ASSUME IInv, DInv, NEW s \in Start, Count(s)
    PROVE  DInv'
<1>0. version[s] \in Versions /\ 1..(version[s] - 1) \subseteq recorded
  BY DEF DInv, DTypeOK, Come
<1>1. CASE version[s] \notin recorded
  <2>1. /\ pc[s] = "serving" /\ at[s] = "count" /\ at' = [at EXCEPT ![s] = "begin"]
        /\ UNCHANGED vars /\ UNCHANGED <<version, snapshot, writer, tables, recorded>>
    BY <1>1 DEF Count, Moves
  <2>2. Goes(s)' /\ ~Stale(s)' /\ pc' = pc
    BY <1>1, <2>1 DEF Goes, Stale, DInv, DTypeOK, vars
  <2>3. QED BY <2>1, <2>2, <1>0, DInvMoves DEF DInv, DTypeOK
<1>2. CASE version[s] \in recorded
  <2>1. /\ Past(s, "count")
        /\ UNCHANGED <<snapshot, writer, tables, recorded>>
    BY <1>2 DEF Count
  <2>2. /\ pc[s] = "serving" /\ at[s] = "count" /\ pc' = pc
        /\ at' = [at EXCEPT ![s] = IF version[s] = 4 THEN "listening" ELSE "count"]
        /\ version' = [version EXCEPT ![s] = IF version[s] = 4 THEN 1 ELSE version[s] + 1]
    BY <2>1 DEF Past, Moves, vars
  <2>3. 1..version[s] \subseteq recorded
    BY <1>0, <1>2
  <2>4. version'[s] \in Versions /\ 1..(version'[s] - 1) \subseteq recorded
    BY <1>0, <2>2, <2>3 DEF DInv, DTypeOK
  <2>5. CASE version[s] # 4
    <3>1. Goes(s)' /\ ~Stale(s)' /\ at' = [at EXCEPT ![s] = "count"]
      BY <2>2, <2>5 DEF Goes, Stale, DInv, DTypeOK
    <3>2. QED BY <2>1, <2>2, <2>4, <3>1, DInvMoves DEF DInv, DTypeOK
  <2>6. CASE version[s] = 4
    <3>1. recorded = Versions
      <4>1. 1..4 \subseteq recorded
        BY <2>3, <2>6
      <4>2. recorded \subseteq 1..4
        BY DEF DInv, Recorded
      <4>3. QED BY <4>1, <4>2
    <3>2. /\ at'[s] = "listening" /\ version'[s] = 1
          /\ \A t \in Start \ {s} : at'[t] = at[t] /\ version'[t] = version[t]
      BY <2>2, <2>6 DEF DInv, DTypeOK
    <3>3. DTypeOK'
      BY <2>1, <2>2, <2>6 DEF DInv, DTypeOK
    <3>4. Placed' /\ Locked' /\ Recorded'
      BY <2>1, <2>2, <3>2 DEF DInv, Placed, Locked, Recorded
    <3>5. Come'
      BY <2>1, <2>4, <3>1, <3>2 DEF DInv, Come
    <3>6. OneLeads'
      BY <3>2 DEF OneLeads, Goes
    <3>7. QED BY <3>3, <3>4, <3>5, <3>6 DEF DInv
  <2>7. QED BY <2>5, <2>6
<1>3. QED BY <1>1, <1>2

LEMMA DInvBeginTx ==
    ASSUME IInv, DInv, NEW s \in Start, BeginTx(s)
    PROVE  DInv'
<1>1. /\ pc[s] = "serving" /\ at[s] = "begin" /\ at' = [at EXCEPT ![s] = "write"]
      /\ UNCHANGED vars /\ UNCHANGED <<version, writer, tables, recorded>>
      /\ snapshot' = [snapshot EXCEPT ![s] = recorded]
  BY DEF BeginTx, Moves
<1>2. recorded \subseteq Versions
  BY DEF DInv, Recorded
<1>3. /\ (Stale(s)' => Stale(s)) /\ (Goes(s) => Goes(s)') /\ pc' = pc
      /\ snapshot' \in [Start -> SUBSET Versions]
  BY <1>1, <1>2 DEF Goes, Stale, DInv, DTypeOK, vars
<1>4. QED BY <1>1, <1>3, DInvMoves DEF DInv, DTypeOK, Come

LEMMA DInvInsert ==
    ASSUME IInv, DInv, NEW s \in Start, Insert(s)
    PROVE  DInv'
<1>1. CASE /\ at[s] = "write"
           /\ writer # None \/ snapshot[s] # recorded \/ version[s] \in recorded
           /\ Fail(s)
  BY <1>1, DInvFail
<1>2. CASE /\ Moves(s, "write", "commit")
           /\ writer = None /\ snapshot[s] = recorded /\ version[s] \notin recorded
           /\ writer' = s
           /\ UNCHANGED <<version, snapshot, tables, recorded>>
  <2>1. /\ pc[s] = "serving" /\ at[s] = "write" /\ at'[s] = "commit" /\ pc' = pc
        /\ \A t \in Start \ {s} : at'[t] = at[t]
    BY <1>2 DEF Moves, vars, DInv, DTypeOK
  <2>2. DTypeOK'
    BY <1>2 DEF Moves, DInv, DTypeOK
  <2>3. Placed' /\ Come' /\ Recorded'
    BY <1>2, <2>1 DEF DInv, Placed, Come, Recorded
  <2>4. Locked'
    BY <1>2, <2>1, NoneIsNoFile DEF DInv, Locked
  <2>5. OneLeads'
    BY <2>1 DEF OneLeads, Goes
  <2>6. QED BY <2>2, <2>3, <2>4, <2>5 DEF DInv
<1>3. QED BY <1>1, <1>2 DEF Insert

LEMMA DInvCommit ==
    ASSUME IInv, DInv, NEW s \in Start, Commit(s)
    PROVE  DInv'
<1>1. /\ pc[s] = "serving" /\ at[s] = "commit" /\ pc' = pc
      /\ at' = [at EXCEPT ![s] = IF version[s] = 4 THEN "listening" ELSE "count"]
      /\ version' = [version EXCEPT ![s] = IF version[s] = 4 THEN 1 ELSE version[s] + 1]
      /\ snapshot' = [snapshot EXCEPT ![s] = {}] /\ writer' = None
      /\ tables' = tables \cup Adds(version[s])
      /\ recorded' = recorded \cup {version[s]}
  BY DEF Commit, Past, Moves, vars
<1>2. /\ version[s] \in Versions /\ 1..(version[s] - 1) \subseteq recorded
      /\ version[s] \notin recorded /\ writer = s
  BY <1>1 DEF DInv, DTypeOK, Come, Locked
<1>3. recorded' = 1..version[s]
  BY <1>1, <1>2, NextVersion DEF DInv
<1>4. /\ at'[s] \in {"listening", "count"}
      /\ \A t \in Start \ {s} : at'[t] = at[t] /\ version'[t] = version[t]
                                 /\ snapshot'[t] = snapshot[t]
      /\ version'[s] \in Versions /\ 1..(version'[s] - 1) \subseteq recorded'
      /\ at'[s] = "listening" => recorded' = Versions
  BY <1>1, <1>2, <1>3 DEF DInv, DTypeOK
<1>5. DTypeOK'
  BY <1>1, <1>2 DEF DInv, DTypeOK
<1>6. Placed'
  BY <1>1, <1>4 DEF DInv, Placed
<1>7. Locked'
  BY <1>1, <1>2, <1>4, NoneIsNoFile DEF DInv, Locked
<1>8. Come'
  <2>1. recorded \subseteq Versions /\ recorded # Versions
    BY <1>2 DEF DInv, Recorded
  <2>2. QED BY <1>1, <1>4, <2>1 DEF DInv, Come
<1>9. Recorded'
  <2>1. Brought[version[s]] \subseteq Adds(version[s])
    BY <1>2 DEF Adds
  <2>2. QED BY <1>1, <1>2, <1>3, <2>1 DEF DInv, Recorded
<1>10. OneLeads'
  BY <1>4 DEF OneLeads, Goes
<1>11. QED BY <1>5, <1>6, <1>7, <1>8, <1>9, <1>10 DEF DInv

\* A power failure ends every server, and rolls back what was not committed.
LEMMA DInvPowerLoss ==
    ASSUME IInv, DInv, DPowerLoss
    PROVE  DInv'
<1>1. /\ pc' = [s \in Start |-> IF pc[s] \in Alive THEN "dead" ELSE pc[s]]
      /\ at' = [s \in Start |-> IF pc[s] \in Alive THEN "closed" ELSE at[s]]
      /\ version' = [s \in Start |-> 1] /\ snapshot' = [s \in Start |-> {}]
      /\ writer' = None /\ UNCHANGED <<tables, recorded>>
  BY DEF DPowerLoss, PowerLoss
<1>2. \A s \in Start : at'[s] \in {"closed", "failed"} /\ (at'[s] = "failed" => at[s] = "failed")
  BY <1>1 DEF DInv, Placed, DTypeOK
<1>3. DTypeOK' /\ Recorded'
  BY <1>1 DEF DInv, DTypeOK, Recorded
<1>4. Placed'
  BY <1>1, <1>2 DEF DInv, Placed
<1>5. Locked'
  BY <1>1, <1>2, NoneIsNoFile DEF Locked
<1>6. Come'
  <2>1. 1..(1 - 1) = {}
    OBVIOUS
  <2>2. QED BY <1>1, <1>2, <2>1 DEF Come
<1>7. OneLeads'
  <2> SUFFICES ASSUME NEW s \in Start, at'[s] = "failed" \/ Stale(s)'
               PROVE  \E u \in Start : Goes(u)'
    BY DEF OneLeads
  <2>1. at[s] = "failed"
    BY <1>2 DEF Stale
  <2>2. PICK u \in Start : Goes(u)
    BY <2>1 DEF DInv, OneLeads
  <2>3. pc[u] = "dead" \/ pc[u] = "serving"
    BY <2>2 DEF Goes, DInv, Placed
  <2>4. pc'[u] = "dead"
    BY <2>3, <1>1
  <2>5. QED BY <2>4 DEF Goes
<1>8. QED BY <1>3, <1>4, <1>5, <1>6, <1>7 DEF DInv

-----------------------------------------------------------------------------
\* A server that fails at the database has no part in the secret any more.
LEMMA IInvFail ==
    ASSUME IInv, NEW s \in Start, Fail(s)
    PROVE  IInv'
BY DEF Fail, IInv, TypeOK, LinkedWhole, Progress, Sourced, CreatedLasts, FromDisk, Unlinked

\* What a step at the database is for the secret.
LEMMA MigrateSecret ==
    ASSUME NEW s \in Start, Migrate(s)
    PROVE  UNCHANGED vars \/ Fail(s)
BY DEF Migrate, Open, CreateSchema, Count, BeginTx, Insert, Commit, Past, Moves

\* Every step keeps both invariants.
LEMMA StartInductive == IInv /\ DInv /\ [DNext]_allVars => IInv' /\ DInv'
<1> SUFFICES ASSUME IInv, DInv, [DNext]_allVars PROVE IInv' /\ DInv'
  OBVIOUS
<1>1. CASE UNCHANGED allVars
  <2>1. IInv'
    BY <1>1, InvStutter DEF allVars
  <2>2. DInv'
    BY <1>1 DEF allVars, vars, database, DInv, DTypeOK, Placed, Locked, Come, Recorded,
                OneLeads, Goes, Stale
  <2>3. QED BY <2>1, <2>2
<1>2. CASE DPowerLoss
  BY <1>2, InvPowerLoss, DInvPowerLoss DEF DPowerLoss
<1>3. ASSUME NEW s \in Start, Resolve(s), UNCHANGED database PROVE IInv' /\ DInv'
  BY <1>3, InvResolve, DInvResolve
<1>4. ASSUME NEW s \in Start, Kill(s), Rollback(s, "closed") PROVE IInv' /\ DInv'
  BY <1>4, InvKill, DInvRollback DEF Kill, Go
<1>5. ASSUME NEW s \in Start, Migrate(s) PROVE IInv' /\ DInv'
  <2>1. IInv'
    BY <1>5, MigrateSecret, InvStutter, IInvFail
  <2>2. DInv'
    BY <1>5, DInvOpen, DInvCreateSchema, DInvCount, DInvBeginTx, DInvInsert, DInvCommit
    DEF Migrate
  <2>3. QED BY <2>1, <2>2
<1>6. QED BY <1>1, <1>2, <1>3, <1>4, <1>5 DEF DNext

\* Both invariants hold in every state, with any number of starts, kills and
\* power failures.
THEOREM StartInvariance == DSpec => [](IInv /\ DInv)
<1>1. DInit => IInv /\ DInv
  BY InvInit, DInvInit DEF DInit
<1>2. QED BY <1>1, StartInductive, PTL DEF DSpec

\* The versions on record are the first ones, with what each adds: a migration
\* and its row are one transaction, and a start takes them in order.
THEOREM VersionsAreRecorded == DSpec => []Recorded
<1>1. DInv => Recorded
  BY DEF DInv
<1>2. QED BY <1>1, StartInvariance, PTL

\* Whoever listens has a database with every version.
THEOREM ServersAreReady == DSpec => []Ready
<1>1. DInv => Ready
  BY DEF DInv, Come, Recorded, Ready, Adds, Brought
<1>2. QED BY <1>1, StartInvariance, PTL

\* Of starts that migrate at once, not all fail.
THEOREM OneStartGoesOn == DSpec => []OneGoesOn
<1>1. DInv => OneGoesOn
  BY DEF DInv, OneLeads, Goes, OneGoesOn, Placed
<1>2. QED BY <1>1, StartInvariance, PTL

\* main as a whole keeps the promise of OneSecret: a database that cannot be
\* migrated stops the server, which is all it does to the promise.
THEOREM MainKeepsPromise == DSpec => PromiseKept
<1>1. DInit => Promise!Init
  BY DEF DInit, Init, Running, Promise!Init
<1>2. ASSUME IInv, NEW s \in Start, Fail(s) PROVE Promise!Stop(s)
  BY <1>2 DEF Fail, Running, Promise!Stop, IInv, TypeOK
<1>3. IInv /\ [DNext]_allVars => [Promise!Next]_<<entry, Running>>
  <2>1. ASSUME IInv, DNext PROVE [Promise!Next]_<<entry, Running>>
    <3>1. ASSUME UNCHANGED vars PROVE UNCHANGED <<entry, Running>>
      BY <3>1 DEF vars, Running
    <3>2. QED BY <2>1, <3>1, <1>2, MigrateSecret, PromiseResolve, PromiseStop
              DEF DNext, DPowerLoss, Promise!Next
  <2>2. ASSUME UNCHANGED allVars PROVE UNCHANGED <<entry, Running>>
    BY <2>2 DEF allVars, vars, Running
  <2>3. QED BY <2>1, <2>2
<1>4. QED
  BY <1>1, <1>3, StartInvariance, PTL DEF DSpec, PromiseKept, Promise!Spec
=============================================================================
