----------------------- MODULE LegacyMigrationProofs -----------------------
(***************************************************************************)
(* Any number of commands and API processes, with any number of crashes,   *)
(* faults and edits: the originals can be read in the backups; and until a *)
(* command removes the owner.json of a living one for that of a dead one   *)
(* (usurped), whoever may touch the files is alone, and what a manifest    *)
(* calls completed or restored is so.                                      *)
(***************************************************************************)
EXTENDS LegacyMigration, TLAPS

\* Where the lock is the command's, and where its directory is left empty
Holding == Working \union {"leases", "abandon", "release"}
Clearing == {"own", "rmdir", "rmlock"}

\* Where the API knows that no command works, and where its lease is there
Admitted == Serving \union {"open"}
Leased == Admitted \union {"recheck_manifest", "recheck_lock"}

\* Where the manifest a command holds is the one in the file
Applying == {"ready", "write", "record", "verify", "complete"}
Undoing == {"undo", "mark"}

Shape ==
    /\ DOMAIN pc = Migrators \union Apis
    /\ DOMAIN command = Migrators
    /\ DOMAIN copy = Migrators
    /\ DOMAIN left = Migrators

\* The lock is that of the command that holds it, or of one that died; a
\* directory without an owner is left to the one command that emptied it.
LockInPlace ==
    /\ lock \in Migrators => pc[lock] \in Holding \union {"dead"}
    /\ \A m \in Migrators :
        /\ pc[m] \in Holding => lock = m
        /\ pc[m] \in Clearing => lock = "empty"
    /\ \A m, n \in Migrators :
        pc[m] \in Clearing /\ pc[n] \in Clearing => m = n

\* An API that goes on has its lease in the file system, and is not admitted
\* while a command works.
LeasesInPlace ==
    /\ \A a \in Apis : pc[a] \in Leased => a \in leases
    /\ \A a \in Apis, m \in Migrators :
        pc[m] \in Working => pc[a] \notin Admitted

\* The API that writes V1 decided so before the migration was completed.
OpenedBefore == \A a \in Apis : pc[a] = "serving" => manifest.status # "completed"

Preserved(plan) == \A f \in Files : BackedUp(plan, f)

\* What a command knows of the plan it carries out, even when it is not alone:
\* what it has passed is in the backups, and they never change.
Planned == {"backup", "manifest"} \union Applying \union Undoing

Own(m) ==
    /\ pc[m] \in Planned => copy[m].plan # None
    /\ pc[m] \in {"backup", "manifest"} => copy[m].status = "none"
    /\ pc[m] \in Applying => copy[m].status = "in_progress"
    /\ pc[m] \in Undoing => copy[m].status \in {"in_progress", "completed"}
    /\ pc[m] \in Applying \union Undoing => left[m] \subseteq Targets
    /\ pc[m] = "record" => left[m] # {}
    /\ pc[m] = "backup" => \A f \in Files \ left[m] : BackedUp(copy[m].plan, f)
    /\ pc[m] \in Planned \ {"backup"} => Preserved(copy[m].plan)

Sound ==
    /\ Shape
    /\ TypeOK
    /\ manifest.status # "none" => Preserved(manifest.plan)
    /\ \A m \in Migrators : Own(m)

EitherWay(t) == data[t] \in {manifest.plan[t], Post(manifest.plan, t)}

\* A command that backs up has seen no manifest, and plans from the files.
Planning(m) ==
    pc[m] \in {"backup", "manifest"} =>
        /\ manifest.status = "none"
        /\ copy[m] = [status |-> "none", plan |-> data, applied |-> {}]
        /\ pc[m] = "backup" =>
            \A f \in Files \ left[m] : BackedUp(data, f)
        /\ pc[m] = "manifest" => Preserved(data)

\* A command that writes holds the manifest that is in the file, and every
\* target is as it was or as the plan says.
Writing(m) ==
    pc[m] \in Applying =>
        /\ copy[m] = manifest
        /\ manifest.status = "in_progress"
        /\ left[m] \subseteq Targets
        /\ pc[m] \in {"write", "record"} => \A t \in Targets : EitherWay(t)
        /\ pc[m] = "record" => left[m] # {}
        /\ pc[m] = "complete" =>
            /\ \A t \in Targets : data[t] = Post(manifest.plan, t)
            /\ data[Work] = manifest.plan[Work]

\* And a command that restores has restored what is not left.
Restoring(m) ==
    pc[m] \in Undoing =>
        /\ copy[m] = manifest
        /\ manifest.status \in {"in_progress", "completed"}
        /\ left[m] \subseteq Targets
        /\ \A t \in Targets : EitherWay(t)
        /\ \A t \in Targets \ left[m] : data[t] = manifest.plan[t]
        /\ pc[m] = "mark" => left[m] = {}

Held(m) == Planning(m) /\ Writing(m) /\ Restoring(m)

IInv ==
    /\ Shape
    /\ TypeOK
    /\ LockInPlace
    /\ LeasesInPlace
    /\ OpenedBefore
    /\ manifest.status # "none" => Preserved(manifest.plan)
    /\ \A m \in Migrators : Held(m)

-----------------------------------------------------------------------------
(* Data *)

\* The first and the last of some files is one of them.
LEMMA FirstAndLast ==
    ASSUME NEW S \in SUBSET Files, S # {}
    PROVE  Min(S) \in S /\ Max(S) \in S
<1>1. Files = {0, 1, 2, 3}
  BY DEF Files, Work, Session
<1> PICK z \in S : z \in {0, 1, 2, 3}
  BY <1>1
<1>2. \E x \in S : \A y \in S : x =< y
  <2>1. CASE 0 \in S
    BY <1>1, <2>1
  <2>2. CASE 0 \notin S /\ 1 \in S
    BY <1>1, <2>2
  <2>3. CASE 0 \notin S /\ 1 \notin S /\ 2 \in S
    BY <1>1, <2>3
  <2>4. CASE 0 \notin S /\ 1 \notin S /\ 2 \notin S
    <3>1. z = 3
      BY <2>4
    <3> QED BY <1>1, <2>4, <3>1
  <2> QED BY <2>1, <2>2, <2>3, <2>4
<1>3. \E x \in S : \A y \in S : x >= y
  <2>1. CASE 3 \in S
    BY <1>1, <2>1
  <2>2. CASE 3 \notin S /\ 2 \in S
    BY <1>1, <2>2
  <2>3. CASE 3 \notin S /\ 2 \notin S /\ 1 \in S
    BY <1>1, <2>3
  <2>4. CASE 3 \notin S /\ 2 \notin S /\ 1 \notin S
    <3>1. z = 0
      BY <2>4
    <3> QED BY <1>1, <2>4, <3>1
  <2> QED BY <2>1, <2>2, <2>3, <2>4
<1> QED BY <1>2, <1>3 DEF Min, Max

\* What a command backs up next is a file it has left.
LEMMA NextIsLeft ==
    ASSUME NEW m \in Migrators, left[m] \in SUBSET Files, left[m] # {}
    PROVE  NextToBackUp(m) \in left[m]
<1>1. left[m] \ {Admin} \in SUBSET Files
  OBVIOUS
<1>2. left[m] \ {Admin} # {} => Min(left[m] \ {Admin}) \in left[m] \ {Admin}
  BY <1>1, FirstAndLast
<1> QED BY <1>2 DEF NextToBackUp

\* A file of a plan has a content, and so has what the plan makes of it.
LEMMA PostIsContent ==
    ASSUME NEW plan \in Plans, NEW t \in Files
    PROVE  plan[t] \in Contents /\ Post(plan, t) \in Contents
<1>1. \A f \in Files : plan[f] \in Contents
  BY DEF Plans
<1>2. \A c \in Contents : c[2] \in 0 .. MaxEdits
  BY Parameters DEF Contents, Absent, Edited, Migrated
<1>3. Work \in Files
  BY DEF Files, Work, Session
<1>4. \A n \in 0 .. MaxEdits : Migrated(n) \in Contents
  BY DEF Contents
<1> QED BY <1>1, <1>2, <1>3, <1>4 DEF Post

\* A file that is changed to a content leaves a plan.
LEMMA ChangedPlan ==
    ASSUME NEW plan \in Plans, NEW t \in Files, NEW c \in Contents
    PROVE  [plan EXCEPT ![t] = c] \in Plans
  BY DEF Plans

\* A command that works is alone, and no API serves.
LEMMA Alone ==
    ASSUME IInv, NEW m \in Migrators, pc[m] \in Holding
    PROVE  \A n \in Migrators \ {m} : pc[n] \notin Holding
  BY DEF IInv, LockInPlace

-----------------------------------------------------------------------------
(* Types *)

LEMMA LockStepTyped ==
    ASSUME Sound, NEW m \in Migrators,
           \/ \E kind \in {"apply", "resume", "restore"} : Launch(m, kind)
           \/ TakeLock(m) \/ InspectLock(m) \/ UnlinkOwner(m) \/ RemoveDirectory(m)
           \/ WriteOwner(m) \/ CheckLeases(m) \/ ReleaseLock(m) \/ RemoveLock(m)
           \/ Abandon(m) \/ Fail(m)
    PROVE  Shape' /\ TypeOK'
<1> USE DEF Sound, Shape, TypeOK, Goto, Quit, Forget, files, locals, bounds, Working,
            Ended, Serving
<1> USE Parameters
<1>0. NoCommand.kind = "none" /\ NoCommand.plan = None /\ NoManifest \in Manifests
  BY DEF NoCommand, NoManifest, Manifests
<1>1. ASSUME NEW kind \in {"apply", "resume", "restore"}, Launch(m, kind)
      PROVE  Shape' /\ TypeOK'
  BY <1>1, <1>0 DEF Launch
<1>2. CASE TakeLock(m)
  BY <1>2, <1>0 DEF TakeLock
<1>3. CASE InspectLock(m)
  BY <1>3, <1>0 DEF InspectLock
<1>4. CASE UnlinkOwner(m)
  <2>1. usurped' \in BOOLEAN
    <3>1. usurped' = usurped \/ usurped' = (usurped \/ Alive(lock))
      BY <1>4, Zenon DEF UnlinkOwner
    <3> QED BY <3>1, Zenon
  <2> QED BY <1>4, <1>0, <2>1 DEF UnlinkOwner
<1>5. CASE RemoveDirectory(m)
  BY <1>5, <1>0 DEF RemoveDirectory
<1>6. CASE WriteOwner(m)
  BY <1>6, <1>0 DEF WriteOwner
<1>7. CASE CheckLeases(m)
  BY <1>7, <1>0 DEF CheckLeases, Living
<1>8. CASE ReleaseLock(m)
  BY <1>8, <1>0 DEF ReleaseLock
<1>9. CASE RemoveLock(m)
  BY <1>9, <1>0 DEF RemoveLock
<1>10. CASE Fail(m)
  BY <1>10, <1>0 DEF Fail
<1>11. CASE Abandon(m)
  BY <1>11, <1>0 DEF Abandon
<1> QED BY <1>1, <1>2, <1>3, <1>4, <1>5, <1>6, <1>7, <1>8, <1>9, <1>10, <1>11

LEMMA WorkStepTyped ==
    ASSUME Sound, NEW m \in Migrators,
           \/ LoadManifest(m) \/ BackUp(m) \/ WriteManifest(m)
           \/ AssertReady(m) \/ WriteTarget(m) \/ RecordTarget(m)
           \/ Verify(m) \/ Complete(m)
           \/ LoadForRestore(m) \/ RestoreTarget(m) \/ MarkRestored(m)
    PROVE  Shape' /\ TypeOK'
<1> USE Parameters DEF Sound, Shape, TypeOK, Goto, files, locals, bounds, Working,
            Ended
<1>0. Targets \subseteq Files /\ Work \in Files
  BY DEF Targets, Files, Admin, Work, Session
<1>1. CASE LoadManifest(m)
  BY <1>1, <1>0 DEF LoadManifest, NoManifest, Manifests
<1>2. CASE BackUp(m)
  <2> DEFINE f == NextToBackUp(m)
  <2>1. left[m] # {} => f \in Files
    BY NextIsLeft
  <2>2. \A g \in Files : data[g] \in Contents /\ backup[g] \in Contents
    BY DEF Plans
  <2>3. backup' \in Plans
    BY <1>2, <2>1, <2>2, ChangedPlan DEF BackUp
  <2> QED BY <1>2, <2>3 DEF BackUp
<1>3. CASE WriteManifest(m)
  <2>1. copy[m] \in Manifests /\ copy[m].plan # None
    BY <1>3 DEF WriteManifest, Own, Planned
  <2>2. copy'[m] \in Manifests /\ copy'[m].plan # None /\ copy'[m].status = "in_progress"
    BY <1>3, <2>1 DEF WriteManifest, Manifests
  <2> QED BY <1>3, <1>0, <2>2 DEF WriteManifest
<1>4. CASE AssertReady(m)
  BY <1>4 DEF AssertReady
<1>5. CASE WriteTarget(m)
  <2>1. left[m] # {} => Min(left[m]) \in Files
    BY FirstAndLast
  <2>2. copy[m].plan \in Plans
    BY <1>5 DEF WriteTarget, Own, Planned, Applying, Manifests
  <2>3. data' \in Plans
    BY <1>5, <2>1, <2>2, PostIsContent, ChangedPlan DEF WriteTarget
  <2> QED BY <1>5, <2>3 DEF WriteTarget
<1>6. CASE RecordTarget(m)
  <2>1. /\ left[m] \subseteq Targets /\ Min(left[m]) \in left[m]
        /\ copy[m].plan # None /\ copy[m].status = "in_progress"
    BY <1>6, <1>0, FirstAndLast DEF RecordTarget, Own, Planned, Applying
  <2>2. copy'[m] \in Manifests
    BY <1>6, <2>1 DEF RecordTarget, Manifests
  <2>3. copy'[m].plan = copy[m].plan /\ copy'[m].status = copy[m].status
    BY <1>6, <2>1 DEF RecordTarget, Manifests
  <2>4. /\ manifest' = copy'[m]
        /\ \A n \in Migrators \ {m} : copy'[n] = copy[n]
        /\ DOMAIN copy' = Migrators
    BY <1>6 DEF RecordTarget
  <2>5. \A n \in Migrators : copy'[n] \in Manifests
    BY <2>2, <2>4
  <2>6. /\ manifest' \in Manifests
        /\ manifest'.plan = None <=> manifest'.status = "none"
    BY <2>1, <2>2, <2>3, <2>4
  <2>7. /\ pc' = [pc EXCEPT ![m] = "write"]
        /\ \A n \in Migrators : left'[n] \subseteq left[n]
        /\ DOMAIN left' = Migrators
        /\ UNCHANGED <<data, backup, approved, lock, usurped, leases, command, edits,
                       crashes, faults>>
    BY <1>6 DEF RecordTarget
  <2>8. /\ \A n \in Migrators : pc'[n] \in {pc[n], "write"}
        /\ \A a \in Apis : pc'[a] = pc[a]
        /\ DOMAIN pc' = Migrators \union Apis
    BY <2>7
  <2> QED BY <2>4, <2>5, <2>6, <2>7, <2>8
<1>7. CASE Verify(m)
  BY <1>7 DEF Verify
<1>8. CASE Complete(m)
  <2>1. copy[m].plan # None
    BY <1>8 DEF Complete, Own, Planned, Applying
  <2>2. manifest' \in Manifests /\ manifest'.plan = copy[m].plan
        /\ manifest'.status = "completed"
    BY <1>8, <2>1 DEF Complete, Manifests
  <2> QED BY <1>8, <2>1, <2>2 DEF Complete
<1>9. CASE LoadForRestore(m)
  BY <1>9, <1>0 DEF LoadForRestore
<1>10. CASE RestoreTarget(m)
  <2>1. left[m] # {} => Max(left[m]) \in Files
    BY FirstAndLast
  <2>2. copy[m].plan \in Plans
    BY <1>10 DEF RestoreTarget, Own, Planned, Undoing, Manifests
  <2>3. \A t \in Files : copy[m].plan[t] \in Contents
    BY <2>2, PostIsContent
  <2>4. data' \in Plans
    BY <1>10, <2>1, <2>3, ChangedPlan DEF RestoreTarget
  <2> QED BY <1>10, <2>4 DEF RestoreTarget
<1>11. CASE MarkRestored(m)
  <2>1. copy[m].plan # None
    BY <1>11 DEF MarkRestored, Own, Planned, Undoing
  <2>2. manifest' \in Manifests /\ manifest'.plan = copy[m].plan
        /\ manifest'.status = "restored"
    BY <1>11, <2>1 DEF MarkRestored, Manifests
  <2> QED BY <1>11, <2>1, <2>2 DEF MarkRestored
<1> QED BY <1>1, <1>2, <1>3, <1>4, <1>5, <1>6, <1>7, <1>8, <1>9, <1>10, <1>11

LEMMA CrashTyped ==
    ASSUME Sound, NEW p \in Migrators \union Apis, Crash(p)
    PROVE  Shape' /\ TypeOK'
  BY Parameters
     DEF Sound, Shape, TypeOK, Goto, files, locals, bounds, Working, Ended, Crash, Forget,
         NoCommand, NoManifest, Manifests

LEMMA ApiStepTyped ==
    ASSUME Sound, NEW a \in Apis, Api(a) \/ Crash(a)
    PROVE  Shape' /\ TypeOK'
<1> USE DEF Sound, Shape, TypeOK, Goto, files, locals, bounds, Working, Ended, Serving,
            Withdraw
<1> USE Parameters
<1>1. CASE StartApi(a)
  BY <1>1 DEF StartApi
<1>2. CASE WriteLease(a)
  BY <1>2 DEF WriteLease
<1>3. CASE RecheckManifest(a)
  BY <1>3 DEF RecheckManifest
<1>4. CASE RecheckLock(a)
  BY <1>4 DEF RecheckLock
<1>5. CASE Open(a)
  BY <1>5 DEF Open
<1>6. CASE StopApi(a)
  BY <1>6 DEF StopApi
<1>7. ASSUME NEW f \in Files, Edit(a, f)
      PROVE  Shape' /\ TypeOK'
  <2>1. edits' \in 0 .. MaxEdits /\ Edited(edits') \in Contents
    BY <1>7 DEF Edit, Contents
  <2>2. data' \in Plans
    BY <1>7, <2>1, ChangedPlan DEF Edit
  <2> QED BY <1>7, <2>1, <2>2 DEF Edit
<1>8. CASE Crash(a)
  BY <1>8, CrashTyped
<1> QED BY <1>1, <1>2, <1>3, <1>4, <1>5, <1>6, <1>7, <1>8 DEF Api

-----------------------------------------------------------------------------
(* Who moves *)

WorkStep(m) ==
    \/ LoadManifest(m) \/ BackUp(m) \/ WriteManifest(m)
    \/ AssertReady(m) \/ WriteTarget(m) \/ RecordTarget(m)
    \/ Verify(m) \/ Complete(m)
    \/ LoadForRestore(m) \/ RestoreTarget(m) \/ MarkRestored(m)

\* A command that works goes on with its lock, and moves nobody else.
LEMMA WorkMoves ==
    ASSUME Shape, NEW m \in Migrators, WorkStep(m) \/ Fail(m)
    PROVE  /\ pc[m] \in Working
           /\ pc'[m] \in Working \union {"release"}
           /\ \A p \in (Migrators \union Apis) \ {m} : pc'[p] = pc[p]
           /\ lock' = lock /\ leases' = leases
  BY DEF Shape, WorkStep, Goto, Working, LoadManifest, BackUp, WriteManifest,
         AssertReady, WriteTarget, RecordTarget, Verify, Complete, LoadForRestore,
         RestoreTarget, MarkRestored, Fail

LockStep(m) ==
    \/ \E kind \in {"apply", "resume", "restore"} : Launch(m, kind)
    \/ TakeLock(m) \/ InspectLock(m) \/ UnlinkOwner(m) \/ RemoveDirectory(m)
    \/ WriteOwner(m) \/ CheckLeases(m) \/ ReleaseLock(m) \/ RemoveLock(m)
    \/ Abandon(m) \/ Crash(m)

\* A command that does not work yet, or no longer, leaves the files alone.
LEMMA LockStepMoves ==
    ASSUME Shape, NEW m \in Migrators, LockStep(m)
    PROVE  /\ files' = files
           /\ \A p \in (Migrators \union Apis) \ {m} : pc'[p] = pc[p]
           /\ \A n \in Migrators \ {m} : copy'[n] = copy[n] /\ left'[n] = left[n]
           /\ pc'[m] \notin Planned
           /\ CheckLeases(m) \/ (leases' = leases /\ pc'[m] \notin Working)
<1> USE DEF Shape, Goto, Quit, Forget, Planned, Applying, Undoing, Working, files, locals
<1>1. ASSUME NEW kind \in {"apply", "resume", "restore"}, Launch(m, kind)
      PROVE  files' = files /\ leases' = leases /\ copy' = copy /\ left' = left
             /\ pc' = [pc EXCEPT ![m] = "lock"]
  BY <1>1 DEF Launch
<1>2. CASE TakeLock(m)
  BY <1>2 DEF TakeLock
<1>3. CASE InspectLock(m)
  BY <1>3 DEF InspectLock
<1>4. CASE UnlinkOwner(m)
  BY <1>4 DEF UnlinkOwner
<1>5. CASE RemoveDirectory(m)
  BY <1>5 DEF RemoveDirectory
<1>6. CASE WriteOwner(m)
  BY <1>6 DEF WriteOwner
<1>7. CASE CheckLeases(m)
  BY <1>7 DEF CheckLeases
<1>8. CASE ReleaseLock(m)
  BY <1>8 DEF ReleaseLock
<1>9. CASE RemoveLock(m)
  BY <1>9 DEF RemoveLock
<1>10. CASE Crash(m)
  BY <1>10 DEF Crash
<1>11. CASE Abandon(m)
  BY <1>11 DEF Abandon
<1> QED BY <1>1, <1>2, <1>3, <1>4, <1>5, <1>6, <1>7, <1>8, <1>9, <1>10, <1>11 DEF LockStep

LEMMA ApiMoves ==
    ASSUME Shape, NEW a \in Apis, Api(a) \/ Crash(a)
    PROVE  /\ \A p \in (Migrators \union Apis) \ {a} : pc'[p] = pc[p]
           /\ lock' = lock /\ usurped' = usurped
           /\ UNCHANGED <<backup, manifest, locals>>
  BY Parameters DEF Shape, Api, StartApi, WriteLease, RecheckManifest, RecheckLock, Open,
     StopApi, Edit, Crash, Goto, Withdraw, files

\* Four steps write the manifest, three the files, and one the backups.
LEMMA OthersKeepManifest ==
    ASSUME [Next]_vars
    PROVE  manifest' = manifest \/ \E m \in Migrators :
             WriteManifest(m) \/ RecordTarget(m) \/ Complete(m) \/ MarkRestored(m)
  BY DEF Next, Command, Api, vars, files, ApprovePlan, Launch, TakeLock, InspectLock,
         UnlinkOwner, RemoveDirectory, WriteOwner, CheckLeases, Abandon, ReleaseLock, RemoveLock,
         LoadManifest, BackUp, AssertReady, WriteTarget, Verify, LoadForRestore,
         RestoreTarget, Fail, Crash, StartApi, WriteLease, RecheckManifest, RecheckLock,
         Open, StopApi, Edit

LEMMA OthersKeepData ==
    ASSUME [Next]_vars
    PROVE  \/ data' = data
           \/ \E m \in Migrators : WriteTarget(m) \/ RestoreTarget(m)
           \/ \E a \in Apis, f \in Files : Edit(a, f)
  BY DEF Next, Command, Api, vars, files, ApprovePlan, Launch, TakeLock, InspectLock,
         UnlinkOwner, RemoveDirectory, WriteOwner, CheckLeases, Abandon, ReleaseLock, RemoveLock,
         LoadManifest, BackUp, WriteManifest, AssertReady, RecordTarget, Verify, Complete,
         LoadForRestore, MarkRestored, Fail, Crash, StartApi, WriteLease, RecheckManifest,
         RecheckLock, Open, StopApi

LEMMA OthersKeepBackups ==
    ASSUME [Next]_vars
    PROVE  backup' = backup \/ \E m \in Migrators : BackUp(m)
  BY DEF Next, Command, Api, vars, files, ApprovePlan, Launch, TakeLock, InspectLock,
         UnlinkOwner, RemoveDirectory, WriteOwner, CheckLeases, Abandon, ReleaseLock,
         RemoveLock, LoadManifest, WriteManifest, AssertReady, WriteTarget, RecordTarget,
         Verify, Complete, LoadForRestore, RestoreTarget, MarkRestored, Fail, Crash,
         StartApi, WriteLease, RecheckManifest, RecheckLock, Open, StopApi, Edit

-----------------------------------------------------------------------------
(* The backups, whoever is at work *)

\* A backup that is there is never changed.
LEMMA BackupsLast ==
    ASSUME Sound, [Next]_vars, NEW plan, NEW f \in Files, BackedUp(plan, f)
    PROVE  BackedUp(plan, f)'
<1>1. CASE backup' = backup
  BY <1>1 DEF BackedUp
<1>2. ASSUME NEW m \in Migrators, BackUp(m)
      PROVE  backup[f] # Absent => backup'[f] = backup[f]
  <2>1. DOMAIN backup = Files
    BY DEF Sound, TypeOK, Plans
  <2> QED BY <1>2, <2>1 DEF BackUp
<1> QED BY <1>1, <1>2, OthersKeepBackups DEF BackedUp

LEMMA PreservedLasts ==
    ASSUME Sound, [Next]_vars, NEW plan, Preserved(plan)
    PROVE  Preserved(plan)'
  BY BackupsLast DEF Preserved

\* A command that does not move knows what it knew.
LEMMA OwnAsideKept ==
    ASSUME Sound, [Next]_vars, NEW n \in Migrators,
           \/ pc'[n] \notin Planned
           \/ pc'[n] = pc[n] /\ copy'[n] = copy[n] /\ left'[n] = left[n]
    PROVE  Own(n)'
<1>1. CASE pc'[n] \notin Planned
  BY <1>1 DEF Own, Planned, Applying
<1>2. CASE pc'[n] = pc[n] /\ copy'[n] = copy[n] /\ left'[n] = left[n]
  <2>1. Own(n)
    BY DEF Sound
  <2>2. PICK plan : plan = copy[n].plan
    OBVIOUS
  <2>3. pc[n] = "backup" => \A f \in Files \ left[n] : BackedUp(plan, f)'
    BY <2>1, <2>2, BackupsLast DEF Own
  <2>4. pc[n] \in Planned \ {"backup"} => Preserved(plan)'
    BY <2>1, <2>2, PreservedLasts DEF Own
  <2>5. copy'[n].plan = plan
    BY <1>2, <2>2
  <2>6. pc'[n] = "backup" => \A f \in Files \ left'[n] : BackedUp(copy[n].plan, f)'
    BY <1>2, <2>3, <2>5 DEF BackedUp
  <2>7. pc'[n] \in Planned \ {"backup"} => Preserved(copy[n].plan)'
    BY <1>2, <2>4, <2>5 DEF Preserved, BackedUp
  <2> QED BY <1>2, <2>1, <2>6, <2>7 DEF Own
<1> QED BY <1>1, <1>2

\* Until the manifest is written, what is not left has its backup.
LEMMA BackUpOwn ==
    ASSUME Sound, [Next]_vars, NEW m \in Migrators, BackUp(m)
    PROVE  Own(m)'
<1>0. /\ DOMAIN pc = Migrators \union Apis /\ DOMAIN left = Migrators
      /\ Own(m) /\ DOMAIN backup = Files /\ pc[m] = "backup"
  BY DEF Sound, Shape, TypeOK, Plans, BackUp
<1>1. PICK plan : plan = copy[m].plan
  OBVIOUS
<1>2. /\ copy[m].plan # None /\ copy[m].status = "none" /\ copy' = copy
      /\ \A f \in Files \ left[m] : BackedUp(plan, f)
  BY <1>0, <1>1 DEF BackUp, Own, Planned
<1>3. \A f \in Files \ left[m] : BackedUp(plan, f)'
  BY <1>2, BackupsLast
<1>4. CASE left[m] = {}
  <2>1. pc'[m] = "manifest" /\ Preserved(plan)'
    BY <1>0, <1>3, <1>4 DEF BackUp, Goto, Preserved
  <2>2. Preserved(copy[m].plan)'
    BY <1>1, <1>2, <2>1 DEF Preserved, BackedUp
  <2> QED BY <1>2, <2>1, <2>2 DEF Own, Applying, Undoing
<1>5. CASE left[m] # {}
  <2>1. PICK f \in left[m] : f = NextToBackUp(m) /\ left[m] \subseteq Files
    BY <1>5, NextIsLeft DEF Sound, TypeOK
  <2>2. pc'[m] \in {"backup", "release"}
    BY <1>0, <1>5 DEF BackUp, Goto
  <2>3. pc'[m] = "backup" => BackedUp(plan, f)' /\ left'[m] = left[m] \ {f}
    BY <1>0, <1>1, <1>5, <2>1 DEF BackUp, BackedUp, Goto
  <2>4. pc'[m] = "backup" => \A g \in Files \ left'[m] : BackedUp(plan, g)'
    BY <1>3, <2>3
  <2>5. pc'[m] = "backup" => \A g \in Files \ left'[m] : BackedUp(copy[m].plan, g)'
    BY <1>1, <1>2, <2>4 DEF BackedUp
  <2> QED BY <1>2, <2>2, <2>5 DEF Own, Planned, Applying, Undoing
<1> QED BY <1>4, <1>5

\* What a command takes from the manifest, or from the files, when it begins
LEMMA LoadOwn ==
    ASSUME Sound, NEW m \in Migrators, LoadManifest(m) \/ LoadForRestore(m)
    PROVE  Own(m)'
<1> USE DEF Goto, files
<1>0. /\ DOMAIN pc = Migrators \union Apis /\ DOMAIN copy = Migrators
      /\ DOMAIN left = Migrators /\ data \in Plans /\ manifest \in Manifests
      /\ manifest.plan = None <=> manifest.status = "none"
      /\ manifest.status # "none" => Preserved(manifest.plan)
  BY DEF Sound, Shape, TypeOK
<1>1. files' = files
  BY DEF LoadManifest, LoadForRestore
<1>2. CASE pc'[m] = "backup"
  <2>1. /\ copy'[m] = [status |-> "none", plan |-> data, applied |-> {}]
        /\ left'[m] = {f \in Files : data[f] # Absent}
    BY <1>0, <1>2 DEF LoadManifest, LoadForRestore, NoManifest
  <2>2. \A f \in Files \ left'[m] : BackedUp(copy[m].plan, f)'
    BY <2>1 DEF BackedUp
  <2> QED BY <1>0, <1>2, <2>1, <2>2, NoneIsNoPlan DEF Own, Planned, Applying, Undoing
<1>3. CASE pc'[m] \in {"ready", "undo"}
  <2>1. /\ copy'[m] = manifest /\ left'[m] \subseteq Targets
        /\ pc'[m] = "ready" => manifest.status = "in_progress"
        /\ pc'[m] = "undo" => manifest.status \in {"in_progress", "completed"}
    BY <1>0, <1>3 DEF LoadManifest, LoadForRestore, Continued
  <2>2. Preserved(copy[m].plan)' /\ manifest.plan # None
    BY <1>0, <1>1, <1>3, <2>1 DEF Preserved, BackedUp
  <2> QED BY <1>3, <2>1, <2>2 DEF Own, Planned, Applying, Undoing
<1>4. CASE pc'[m] = "release"
  BY <1>4 DEF Own, Planned, Applying, Undoing
<1> QED BY <1>0, <1>2, <1>3, <1>4 DEF LoadManifest, LoadForRestore

\* And it keeps the plan until it ends.
LEMMA PlanStepOwn ==
    ASSUME Sound, [Next]_vars, NEW m \in Migrators,
           \/ WriteManifest(m) \/ AssertReady(m) \/ WriteTarget(m) \/ RecordTarget(m)
           \/ Verify(m) \/ Complete(m) \/ RestoreTarget(m) \/ MarkRestored(m)
    PROVE  Own(m)' /\ copy'[m].plan = copy[m].plan /\ Preserved(copy[m].plan)'
<1> USE DEF Goto, locals
<1>0. /\ DOMAIN pc = Migrators \union Apis /\ DOMAIN copy = Migrators
      /\ DOMAIN left = Migrators /\ copy[m] \in Manifests /\ Own(m)
  BY DEF Sound, Shape, TypeOK
<1>1. PICK plan : plan = copy[m].plan
  OBVIOUS
<1>2. pc[m] \in Planned \ {"backup"}
  BY DEF Planned, Applying, Undoing, WriteManifest, AssertReady, WriteTarget, RecordTarget,
     Verify, Complete, RestoreTarget, MarkRestored
<1>3. plan # None /\ Preserved(plan)'
  BY <1>0, <1>1, <1>2, PreservedLasts DEF Own
<1>4. copy'[m].plan = plan
  BY <1>0, <1>1 DEF Manifests, WriteManifest, AssertReady, WriteTarget, RecordTarget,
     Verify, Complete, RestoreTarget, MarkRestored
<1>5. Preserved(copy[m].plan)'
  BY <1>3, <1>4 DEF Preserved, BackedUp
<1>6. /\ pc'[m] \notin {"backup", "manifest"}
      /\ pc'[m] \in Applying => copy'[m].status = "in_progress"
      /\ pc'[m] \in Undoing => copy'[m].status \in {"in_progress", "completed"}
      /\ pc'[m] \in Applying \union Undoing => left'[m] \subseteq Targets
      /\ pc'[m] = "record" => left'[m] # {}
  <2>1. CASE WriteManifest(m)
    BY <1>0, <2>1 DEF WriteManifest, Manifests, Applying, Undoing
  <2>2. CASE AssertReady(m) \/ WriteTarget(m) \/ Verify(m)
    BY <1>0, <2>2 DEF AssertReady, WriteTarget, Verify, Own, Applying, Undoing
  <2>3. CASE RecordTarget(m)
    BY <1>0, <2>3 DEF RecordTarget, Manifests, Own, Applying, Undoing
  <2>4. CASE Complete(m) \/ RestoreTarget(m) \/ MarkRestored(m)
    BY <1>0, <2>4 DEF Complete, RestoreTarget, MarkRestored, Own, Applying, Undoing
  <2> QED BY <2>1, <2>2, <2>3, <2>4
<1> QED BY <1>1, <1>3, <1>4, <1>5, <1>6 DEF Own

LEMMA ManifestPreserved ==
    ASSUME Sound, [Next]_vars
    PROVE  (manifest.status # "none" => Preserved(manifest.plan))'
<1>1. CASE manifest' = manifest
  <2>1. PICK plan : plan = manifest.plan
    OBVIOUS
  <2>2. manifest.status # "none" => Preserved(plan)'
    BY <2>1, PreservedLasts DEF Sound
  <2> QED BY <1>1, <2>1, <2>2 DEF Preserved, BackedUp
<1>2. ASSUME NEW m \in Migrators,
             WriteManifest(m) \/ RecordTarget(m) \/ Complete(m) \/ MarkRestored(m)
      PROVE  Preserved(manifest.plan)'
  <2>1. copy'[m].plan = copy[m].plan /\ Preserved(copy[m].plan)'
    BY <1>2, PlanStepOwn
  <2>2. copy[m] \in Manifests /\ copy'[m] \in {copy[m], copy'[m]}
    BY DEF Sound, TypeOK
  <2>3. manifest'.plan = copy'[m].plan
    BY <1>2, <2>1, <2>2 DEF WriteManifest, RecordTarget, Complete, MarkRestored, Manifests
  <2> QED BY <2>1, <2>3 DEF Preserved, BackedUp
<1> QED BY <1>1, <1>2, OthersKeepManifest

LEMMA SoundKept ==
    ASSUME Sound, [Next]_vars
    PROVE  Sound'
<1>0. Shape /\ Migrators \intersect Apis = {}
  BY Parameters DEF Sound
<1>1. ASSUME NEW m \in Migrators, Command(m) \/ Crash(m)
      PROVE  Shape' /\ TypeOK' /\ \A n \in Migrators : Own(n)'
  <2>1. CASE LockStep(m)
    <3>1. Shape' /\ TypeOK'
      BY <2>1, CrashTyped, LockStepTyped DEF LockStep
    <3>2. \A n \in Migrators : Own(n)'
      BY <1>0, <2>1, LockStepMoves, OwnAsideKept
    <3> QED BY <3>1, <3>2
  <2>2. CASE WorkStep(m) \/ Fail(m)
    <3>1. Shape' /\ TypeOK'
      BY <2>2, LockStepTyped, WorkStepTyped DEF WorkStep
    <3>2. \A n \in Migrators \ {m} : Own(n)'
      <4>1. \A n \in Migrators \ {m} : pc'[n] = pc[n] /\ copy'[n] = copy[n] /\ left'[n] = left[n]
        BY <1>0, <2>2 DEF Shape, WorkStep, LoadManifest, BackUp, WriteManifest, AssertReady,
           WriteTarget, RecordTarget, Verify, Complete, LoadForRestore, RestoreTarget,
           MarkRestored, Fail, Goto, locals
      <4> QED BY <4>1, OwnAsideKept
    <3>3. CASE Fail(m)
      <4>1. pc'[m] = "release"
        BY <1>0, <3>3 DEF Fail, Goto, Shape
      <4> QED BY <3>1, <3>2, <4>1, OwnAsideKept DEF Planned, Applying, Undoing
    <3>4. CASE WorkStep(m)
      BY <3>1, <3>2, <3>4, LoadOwn, BackUpOwn, PlanStepOwn DEF WorkStep
    <3> QED BY <2>2, <3>3, <3>4
  <2> QED BY <1>1, <2>1, <2>2 DEF Command, LockStep, WorkStep
<1>2. ASSUME NEW a \in Apis, Api(a) \/ Crash(a)
      PROVE  Shape' /\ TypeOK' /\ \A n \in Migrators : Own(n)'
  <2>1. \A n \in Migrators : pc'[n] = pc[n] /\ copy'[n] = copy[n] /\ left'[n] = left[n]
    BY <1>0, <1>2, ApiMoves DEF locals
  <2> QED BY <1>2, <2>1, ApiStepTyped, OwnAsideKept
<1>3. ASSUME ApprovePlan \/ UNCHANGED vars
      PROVE  Shape' /\ TypeOK' /\ \A n \in Migrators : Own(n)'
  <2>1. UNCHANGED <<files, lock, usurped, leases, pc, locals, bounds>>
        /\ approved' \in Plans \union {None}
    BY <1>3 DEF ApprovePlan, vars, Sound, TypeOK
  <2>2. Shape' /\ TypeOK'
    BY <2>1 DEF Sound, Shape, TypeOK, files, locals, bounds
  <2>3. \A n \in Migrators : Own(n)'
    BY <2>1, OwnAsideKept DEF locals
  <2> QED BY <2>2, <2>3
<1> QED BY <1>1, <1>2, <1>3, ManifestPreserved DEF Next, Sound

-----------------------------------------------------------------------------
(* The lock *)

\* The lock is as it was, and no command has moved.
LEMMA LockAsideKept ==
    ASSUME IInv, lock' = lock, \A m \in Migrators : pc'[m] = pc[m]
    PROVE  LockInPlace'
  BY DEF IInv, LockInPlace

\* A command that holds the lock goes on.
LEMMA LockHeldKept ==
    ASSUME IInv, NEW m \in Migrators, pc[m] \in Holding, pc'[m] \in Holding,
           lock' = lock, \A n \in Migrators \ {m} : pc'[n] = pc[n]
    PROVE  LockInPlace'
<1>1. pc[m] \notin Clearing \union {"dead"} /\ pc'[m] \notin Clearing \union {"dead"}
  BY DEF Holding, Working, Clearing
<1> QED BY <1>1 DEF IInv, LockInPlace

LEMMA LockStepKept ==
    ASSUME IInv, ~usurped', NEW m \in Migrators,
           \/ \E kind \in {"apply", "resume", "restore"} : Launch(m, kind)
           \/ TakeLock(m) \/ InspectLock(m) \/ UnlinkOwner(m) \/ RemoveDirectory(m)
           \/ WriteOwner(m) \/ CheckLeases(m) \/ ReleaseLock(m) \/ RemoveLock(m)
           \/ Abandon(m) \/ Crash(m)
    PROVE  LockInPlace'
<1> USE DEF IInv, Shape, LockInPlace, Goto, Quit,
            Holding, Clearing, Working, Ended, Alive
<1> USE Parameters
<1>1. ASSUME NEW kind \in {"apply", "resume", "restore"}, Launch(m, kind)
      PROVE  LockInPlace'
  BY <1>1 DEF Launch
<1>2. CASE TakeLock(m)
  BY <1>2 DEF TakeLock
<1>3. CASE InspectLock(m)
  BY <1>3 DEF InspectLock
<1>4. CASE UnlinkOwner(m)
  <2>1. lock \in Migrators => ~Alive(lock)
    BY <1>4, Zenon DEF UnlinkOwner
  <2> QED BY <1>4, <2>1 DEF UnlinkOwner
<1>5. CASE RemoveDirectory(m)
  BY <1>5 DEF RemoveDirectory
<1>6. CASE WriteOwner(m)
  BY <1>6 DEF WriteOwner
<1>7. CASE CheckLeases(m)
  BY <1>7 DEF CheckLeases
<1>8. CASE ReleaseLock(m)
  BY <1>8 DEF ReleaseLock
<1>9. CASE RemoveLock(m)
  BY <1>9 DEF RemoveLock
<1>10. CASE Crash(m)
  BY <1>10 DEF Crash
<1>11. CASE Abandon(m)
  BY <1>11 DEF Abandon
<1> QED BY <1>1, <1>2, <1>3, <1>4, <1>5, <1>6, <1>7, <1>8, <1>9, <1>10, <1>11

-----------------------------------------------------------------------------
(* The leases *)

\* No API has moved, and no command has begun to work.
LEMMA LeasesAsideKept ==
    ASSUME IInv, leases' = leases, \A a \in Apis : pc'[a] = pc[a],
           \A m \in Migrators : pc'[m] \in Working => pc[m] \in Working
    PROVE  LeasesInPlace'
  BY DEF IInv, LeasesInPlace

\* A command begins to work when it has seen no lease of a living API.
LEMMA CheckLeasesKeepsApart ==
    ASSUME IInv, NEW m \in Migrators, CheckLeases(m)
    PROVE  LeasesInPlace'
<1>1. \A a \in Apis : pc'[a] = pc[a]
  BY Parameters DEF CheckLeases, Goto, Quit, IInv, Shape
<1>2. \A a \in Apis : pc[a] \in Leased => a \in Living
  BY DEF IInv, LeasesInPlace, Leased, Admitted, Serving, Living, Alive, Ended
<1>3. \A a \in Apis : pc'[a] \in Leased => a \in leases'
  BY <1>1, <1>2 DEF CheckLeases
<1>4. CASE Living = {}
  BY <1>1, <1>2, <1>3, <1>4 DEF LeasesInPlace, Leased
<1>5. CASE Living # {}
  <2>1. \A n \in Migrators : pc'[n] \in Working => pc[n] \in Working
    BY <1>5 DEF CheckLeases, Quit, Goto, Working, IInv, Shape
  <2> QED BY <1>1, <1>3, <2>1 DEF IInv, LeasesInPlace
<1> QED BY <1>4, <1>5

LEMMA ApiStepKeepsApart ==
    ASSUME IInv, NEW a \in Apis, Api(a) \/ Crash(a)
    PROVE  LeasesInPlace'
<1> USE Parameters DEF IInv, Shape, LeasesInPlace, Leased, Admitted, Serving, Goto, Withdraw
<1>0. \A m \in Migrators : pc[m] \in Working => lock \notin {"absent", "empty"}
  BY DEF LockInPlace, Holding
<1>1. \A m \in Migrators : pc'[m] = pc[m]
  BY DEF Api, StartApi, WriteLease, RecheckManifest, RecheckLock, Open, StopApi, Edit, Crash
<1>2. CASE StartApi(a)
  BY <1>2, <1>1 DEF StartApi
<1>3. CASE WriteLease(a)
  BY <1>3, <1>1 DEF WriteLease
<1>4. CASE RecheckManifest(a)
  BY <1>4, <1>1 DEF RecheckManifest
<1>5. CASE RecheckLock(a)
  BY <1>5, <1>1, <1>0 DEF RecheckLock
<1>6. CASE Open(a)
  BY <1>6, <1>1 DEF Open
<1>7. CASE StopApi(a)
  BY <1>7, <1>1 DEF StopApi
<1>8. ASSUME NEW f \in Files, Edit(a, f)
      PROVE  LeasesInPlace'
  BY <1>8, <1>1 DEF Edit
<1>9. CASE Crash(a)
  BY <1>9, <1>1 DEF Crash
<1> QED BY <1>2, <1>3, <1>4, <1>5, <1>6, <1>7, <1>8, <1>9 DEF Api

-----------------------------------------------------------------------------
(* What a command holds *)

\* What is kept of the files, and of what commands hold of them
Whole ==
    /\ OpenedBefore
    /\ \A m \in Migrators : Held(m)

\* A command at a label where nothing is said of the files
LEMMA NothingHeld ==
    ASSUME NEW m, pc[m] \notin Applying \union Undoing \union {"backup", "manifest"}
    PROVE  Held(m)
  BY DEF Held, Planning, Writing, Restoring

\* The files are as they were, and a command that works on has not moved.
LEMMA HeldAsideKept ==
    ASSUME IInv, files' = files,
           \A a \in Apis : pc'[a] = "serving" =>
               pc[a] = "serving" \/ manifest.status # "completed",
           \A m \in Migrators :
               \/ pc'[m] = pc[m] /\ copy'[m] = copy[m] /\ left'[m] = left[m]
               \/ pc'[m] \notin Applying \union Undoing \union {"backup", "manifest"}
    PROVE  Whole'
<1>1. OpenedBefore'
  BY DEF IInv, OpenedBefore, files
<1>2. ASSUME NEW m \in Migrators
      PROVE  Held(m)'
  <2>1. CASE pc'[m] = pc[m] /\ copy'[m] = copy[m] /\ left'[m] = left[m]
    <3>1. Held(m)
      BY DEF IInv
    <3>2. Planning(m)'
      BY <3>1, <2>1 DEF Held, Planning, Preserved, BackedUp, files
    <3>3. Writing(m)'
      BY <3>1, <2>1 DEF Held, Writing, EitherWay, Post, files
    <3>4. Restoring(m)'
      BY <3>1, <2>1 DEF Held, Restoring, EitherWay, Post, files
    <3> QED BY <3>2, <3>3, <3>4 DEF Held
  <2>2. CASE pc'[m] \notin Applying \union Undoing \union {"backup", "manifest"}
    BY <2>2 DEF Held, Planning, Writing, Restoring
  <2> QED BY <2>1, <2>2
<1> QED BY <1>1, <1>2 DEF Whole

LEMMA WorkMovesOne ==
    ASSUME IInv, NEW m \in Migrators, WorkStep(m) \/ Fail(m)
    PROVE  /\ pc[m] \in Working
           /\ pc'[m] \in Working \union {"release"}
           /\ \A p \in (Migrators \union Apis) \ {m} : pc'[p] = pc[p]
           /\ lock' = lock /\ leases' = leases
<1>1. Shape
  BY DEF IInv
<1> QED BY <1>1, WorkMoves

\* A command that works is the only one of which anything is to be said.
LEMMA HeldAlone ==
    ASSUME IInv, NEW m \in Migrators, pc[m] \in Working,
           \A p \in (Migrators \union Apis) \ {m} : pc'[p] = pc[p],
           Held(m)'
    PROVE  Whole'
<1>1. \A n \in Migrators \ {m} : pc'[n] \notin Working
  BY Alone DEF Holding
<1>2. \A n \in Migrators \ {m} : Held(n)'
  BY <1>1 DEF Held, Planning, Writing, Restoring, Working, Applying, Undoing
<1>3. OpenedBefore'
  BY Parameters DEF IInv, LeasesInPlace, OpenedBefore, Admitted, Serving
<1> QED BY <1>2, <1>3 DEF Whole

\* Planning: until the manifest is written, the files are what was planned.
LEMMA PlanningStepWhole ==
    ASSUME IInv, NEW m \in Migrators, BackUp(m) \/ WriteManifest(m)
    PROVE  Whole'
<1> USE DEF Goto
<1>0. /\ DOMAIN pc = Migrators \union Apis /\ DOMAIN copy = Migrators
      /\ DOMAIN left = Migrators
      /\ Planning(m) /\ data \in Plans /\ DOMAIN backup = Files
  BY DEF IInv, Shape, Held, TypeOK, Plans
<1>1. CASE BackUp(m)
  <2>1. manifest.status = "none" /\ copy[m].plan = data
        /\ copy[m] = [status |-> "none", plan |-> data, applied |-> {}]
        /\ \A f \in Files \ left[m] : BackedUp(data, f)
    BY <1>1, <1>0 DEF BackUp, Planning
  <2>2. Planning(m)'
    <3>1. CASE left[m] = {}
      BY <1>1, <1>0, <2>1, <3>1 DEF BackUp, Planning, Preserved, BackedUp
    <3>2. CASE left[m] # {}
      <4>1. PICK f \in left[m] : f = NextToBackUp(m) /\ left[m] \subseteq Files
        BY <3>2, NextIsLeft DEF IInv, TypeOK
      <4>2. \A g \in Files : backup[g] # Absent \/ g # f => backup'[g] = backup[g]
        BY <1>1, <1>0, <3>2, <4>1 DEF BackUp
      <4>3. \A g \in Files : BackedUp(data, g) => BackedUp(data, g)'
        BY <1>1, <3>2, <4>2, <1>0 DEF BackUp, BackedUp
      <4>4. pc'[m] = "backup" => BackedUp(data, f)' /\ left'[m] = left[m] \ {f}
        BY <1>1, <1>0, <3>2, <4>1, <2>1 DEF BackUp, BackedUp
      <4>5. pc'[m] # "manifest" /\ manifest' = manifest /\ copy' = copy /\ data' = data
        BY <1>1, <1>0, <3>2 DEF BackUp
      <4>6. pc'[m] = "backup" => \A g \in Files \ left'[m] : BackedUp(data, g)'
        BY <2>1, <4>3, <4>4
      <4> QED BY <2>1, <4>5, <4>6, <1>1, <1>0 DEF Planning, BackUp
    <3> QED BY <3>1, <3>2
  <2>3. pc'[m] \notin Applying \union Undoing
    BY <1>1, <1>0 DEF BackUp, Applying, Undoing
  <2>4. Held(m)'
    BY <2>2, <2>3 DEF Held, Writing, Restoring
  <2> QED BY <2>1, <2>4, <1>1, WorkMovesOne, HeldAlone DEF BackUp, WorkStep
<1>2. CASE WriteManifest(m)
  <2>1. copy[m] = [status |-> "none", plan |-> data, applied |-> {}] /\ Preserved(data)
    BY <1>2, <1>0 DEF WriteManifest, Planning
  <2>2. copy'[m] = [status |-> "in_progress", plan |-> data, applied |-> {}]
    BY <1>2, <1>0, <2>1 DEF WriteManifest
  <2>3. manifest' = copy'[m] /\ left'[m] = Targets /\ pc'[m] = "ready"
        /\ data' = data /\ backup' = backup
    BY <1>2, <1>0 DEF WriteManifest
  <2>4. Held(m)'
    BY <2>2, <2>3 DEF Held, Planning, Writing, Restoring, Applying, Undoing
  <2> QED BY <2>4, <1>2, WorkMovesOne, HeldAlone DEF WorkStep
<1> QED BY <1>1, <1>2

LEMMA LoadStepWhole ==
    ASSUME IInv, NEW m \in Migrators, LoadManifest(m) \/ LoadForRestore(m)
    PROVE  Whole'
<1> USE DEF Goto, files
<1>0. /\ DOMAIN pc = Migrators \union Apis /\ DOMAIN copy = Migrators
      /\ DOMAIN left = Migrators
  BY DEF IInv, Shape
<1>1. files' = files
  BY DEF LoadManifest, LoadForRestore
<1>2. CASE LoadManifest(m)
  <2>1. Held(m)'
    <3>1. CASE pc'[m] = "backup"
      <4>1. manifest.status = "none" /\ left'[m] = {f \in Files : data[f] # Absent}
        BY <1>2, <1>0, <3>1 DEF LoadManifest, First
      <4>2. copy'[m] = [status |-> "none", plan |-> data, applied |-> {}]
        BY <1>2, <1>0, <3>1 DEF LoadManifest, NoManifest
      <4>3. Planning(m)'
        BY <1>1, <3>1, <4>1, <4>2 DEF Planning, BackedUp
      <4> QED BY <3>1, <4>3 DEF Held, Writing, Restoring, Applying, Undoing
    <3>2. CASE pc'[m] = "ready"
      BY <1>2, <1>0, <1>1, <3>2
         DEF LoadManifest, Continued, Held, Planning, Writing, Restoring, Applying, Undoing
    <3>3. CASE pc'[m] = "release"
      BY <3>3 DEF Held, Planning, Writing, Restoring, Applying, Undoing
    <3> QED BY <1>2, <1>0, <3>1, <3>2, <3>3 DEF LoadManifest
  <2> QED BY <1>2, <2>1, WorkMovesOne, HeldAlone DEF WorkStep
<1>3. CASE LoadForRestore(m)
  <2>1. Held(m)'
    <3>1. CASE pc'[m] = "undo"
      <4>1. manifest.status \in {"in_progress", "completed"} /\ Untouched(manifest)
            /\ copy'[m] = manifest /\ left'[m] = {t \in Targets : data[t] # manifest.plan[t]}
        BY <1>3, <1>0, <3>1 DEF LoadForRestore
      <4> QED BY <1>1, <3>1, <4>1
             DEF Held, Planning, Writing, Restoring, Applying, Undoing, EitherWay,
                 Untouched, Post
    <3>2. CASE pc'[m] = "release"
      BY <3>2 DEF Held, Planning, Writing, Restoring, Applying, Undoing
    <3> QED BY <1>3, <1>0, <3>1, <3>2 DEF LoadForRestore
  <2> QED BY <1>3, <2>1, WorkMovesOne, HeldAlone DEF WorkStep
<1> QED BY <1>2, <1>3

\* What a command that applies the plan does to the files
LEMMA WriteTargetDoes ==
    ASSUME IInv, NEW m \in Migrators, WriteTarget(m)
    PROVE  /\ copy[m] = manifest /\ manifest.status = "in_progress"
           /\ \A t \in Targets : EitherWay(t)
           /\ left[m] \subseteq Targets
           /\ pc'[m] \in {"verify", "record", "release"}
           /\ pc'[m] = "record" => left[m] # {}
           /\ \/ data' = data
              \/ \E t \in Targets :
                    data' = [data EXCEPT ![t] = Post(manifest.plan, t)]
<1>1. Writing(m) /\ DOMAIN pc = Migrators \union Apis
  BY DEF IInv, Shape, Held
<1>2. /\ copy[m] = manifest /\ manifest.status = "in_progress"
      /\ \A t \in Targets : EitherWay(t)
      /\ left[m] \subseteq Targets
  BY <1>1 DEF WriteTarget, Writing, Applying
<1>3. left[m] # {} => Min(left[m]) \in Targets
  BY <1>2, FirstAndLast DEF Targets, Files, Admin, Session, Work
<1> QED BY <1>1, <1>2, <1>3 DEF WriteTarget, Goto

\* Applying: a target has its content of before or its postimage.
LEMMA ApplyingStepWhole ==
    ASSUME IInv, NEW m \in Migrators,
           \/ AssertReady(m) \/ WriteTarget(m) \/ RecordTarget(m)
           \/ Verify(m) \/ Complete(m)
    PROVE  Whole'
<1> USE DEF Goto, files, locals
<1>0. /\ DOMAIN pc = Migrators \union Apis /\ DOMAIN copy = Migrators
      /\ DOMAIN left = Migrators
      /\ Writing(m) /\ data \in Plans
  BY DEF IInv, Shape, Held, TypeOK
<1>1. /\ copy[m] = manifest /\ manifest.status = "in_progress"
      /\ left[m] \subseteq Targets
  BY <1>0 DEF Writing, Applying, AssertReady, WriteTarget, RecordTarget, Verify, Complete
<1>2. CASE AssertReady(m)
  <2>1. Held(m)'
    BY <1>2, <1>0, <1>1
       DEF AssertReady, Held, Planning, Writing, Restoring, Applying, Undoing, EitherWay, Post
  <2> QED BY <1>2, <2>1, WorkMovesOne, HeldAlone DEF WorkStep
<1>3. CASE WriteTarget(m)
  <2>1. /\ copy[m] = manifest /\ manifest.status = "in_progress"
        /\ left[m] \subseteq Targets
        /\ pc'[m] \in {"verify", "record", "release"}
        /\ pc'[m] = "record" => left[m] # {}
    BY <1>3, WriteTargetDoes
  <2>2. UNCHANGED <<backup, manifest, copy, left>>
    BY <1>3 DEF WriteTarget
  <2>3. \A t \in Targets : EitherWay(t)'
    <3>1. PICK plan : plan = manifest.plan
      OBVIOUS
    <3>2. \A t \in Targets : data[t] \in {plan[t], Post(plan, t)}
      BY <1>3, <3>1, WriteTargetDoes DEF EitherWay
    <3>3. \A t \in Targets : data'[t] \in {data[t], Post(plan, t)}
      <4>1. CASE data' = data
        BY <4>1
      <4>2. ASSUME NEW t \in Targets, data' = [data EXCEPT ![t] = Post(plan, t)]
            PROVE  \A u \in Targets : data'[u] \in {data[u], Post(plan, u)}
        BY <4>2, <1>0 DEF Plans, Targets, Files, Admin, Work, Session
      <4> QED BY <1>3, <3>1, <4>1, <4>2, WriteTargetDoes
    <3>4. \A t \in Targets : data'[t] \in {plan[t], Post(plan, t)}
      BY <3>2, <3>3
    <3> QED BY <2>2, <3>1, <3>4 DEF EitherWay
  <2>4. Held(m)'
    BY <2>1, <2>2, <2>3 DEF Held, Planning, Writing, Restoring, Applying, Undoing
  <2> QED BY <1>3, <2>4, WorkMovesOne, HeldAlone DEF WorkStep
<1>4. CASE RecordTarget(m)
  <2>1. \A t \in Targets : EitherWay(t)
    BY <1>4, <1>0 DEF RecordTarget, Writing, Applying
  <2>2. manifest' = copy'[m] /\ pc'[m] = "write" /\ left'[m] \subseteq left[m]
        /\ data' = data /\ backup' = backup
    BY <1>4, <1>0 DEF RecordTarget
  <2>3. manifest'.plan = manifest.plan /\ manifest'.status = manifest.status
    <3>1. manifest \in Manifests
      BY DEF IInv, TypeOK
    <3> QED BY <1>4, <1>0, <1>1, <3>1 DEF RecordTarget, Manifests
  <2>4. \A t \in Targets : EitherWay(t)'
    BY <2>1, <2>2, <2>3 DEF EitherWay, Post
  <2>5. Held(m)'
    BY <1>1, <2>2, <2>3, <2>4 DEF Held, Planning, Writing, Restoring, Applying, Undoing
  <2> QED BY <1>4, <2>5, WorkMovesOne, HeldAlone DEF WorkStep
<1>5. CASE Verify(m)
  <2>1. Held(m)'
    BY <1>5, <1>0, <1>1
       DEF Verify, Held, Planning, Writing, Restoring, Applying, Undoing, EitherWay, Post
  <2> QED BY <1>5, <2>1, WorkMovesOne, HeldAlone DEF WorkStep
<1>6. CASE Complete(m)
  <2>1. Held(m)'
    BY <1>6, <1>0 DEF Complete, Held, Planning, Writing, Restoring, Applying, Undoing
  <2> QED BY <1>6, <2>1, WorkMovesOne, HeldAlone DEF WorkStep
<1> QED BY <1>2, <1>3, <1>4, <1>5, <1>6

\* Restoring: what is not left is as it was.
LEMMA RestoringStepWhole ==
    ASSUME IInv, NEW m \in Migrators, RestoreTarget(m) \/ MarkRestored(m)
    PROVE  Whole'
<1> USE DEF Goto, files, locals
<1>0. /\ DOMAIN pc = Migrators \union Apis /\ DOMAIN copy = Migrators
      /\ DOMAIN left = Migrators
      /\ data \in Plans /\ manifest \in Manifests
  BY DEF IInv, Shape, Held, TypeOK
<1>1. /\ copy[m] = manifest
      /\ manifest.status \in {"in_progress", "completed"}
      /\ left[m] \subseteq Targets
      /\ \A t \in Targets : EitherWay(t)
      /\ \A t \in Targets \ left[m] : data[t] = manifest.plan[t]
  BY DEF IInv, Held, Restoring, Undoing, RestoreTarget, MarkRestored
<1>2. CASE RestoreTarget(m)
  <2>1. left[m] # {} => Max(left[m]) \in left[m]
    BY <1>1, FirstAndLast DEF Targets, Files, Admin, Session, Work
  <2>2. UNCHANGED <<backup, manifest, copy>> /\ left'[m] \subseteq left[m]
    BY <1>2, <1>0 DEF RestoreTarget
  <2>3. \A t \in Targets : EitherWay(t)'
    <3>1. PICK plan : plan = manifest.plan
      OBVIOUS
    <3>2. \A t \in Targets : data[t] \in {plan[t], Post(plan, t)}
      BY <1>1, <3>1 DEF EitherWay
    <3>3. \A t \in Targets : data'[t] \in {data[t], plan[t]}
      BY <1>2, <1>0, <1>1, <3>1 DEF RestoreTarget, Plans, Targets, Files, Admin, Work, Session
    <3>4. \A t \in Targets : data'[t] \in {plan[t], Post(plan, t)}
      BY <3>2, <3>3
    <3> QED BY <2>2, <3>1, <3>4 DEF EitherWay
  <2>4. pc'[m] # "release" => \A t \in Targets \ left'[m] : data'[t] = manifest.plan[t]
    BY <1>2, <1>0, <1>1, <2>1 DEF RestoreTarget, Plans, Targets, Files, Admin, Work, Session
  <2>5. pc'[m] \in {"undo", "mark", "release"} /\ (pc'[m] = "mark" => left'[m] = {})
    BY <1>2, <1>0 DEF RestoreTarget
  <2>6. Held(m)'
    BY <1>1, <2>2, <2>3, <2>4, <2>5 DEF Held, Planning, Writing, Restoring, Applying, Undoing
  <2> QED BY <1>2, <2>6, WorkMovesOne, HeldAlone DEF WorkStep
<1>3. CASE MarkRestored(m)
  <2>1. Held(m)'
    BY <1>3, <1>0 DEF MarkRestored, Held, Planning, Writing, Restoring, Applying, Undoing
  <2> QED BY <1>3, <2>1, WorkMovesOne, HeldAlone DEF WorkStep
<1> QED BY <1>2, <1>3

-----------------------------------------------------------------------------
(* The invariant *)

LEMMA Together ==
    ASSUME Sound', LockInPlace', LeasesInPlace', Whole'
    PROVE  IInv'
  BY DEF Sound, IInv, Whole

LEMMA CommandStep ==
    ASSUME IInv, Sound', ~usurped', NEW m \in Migrators, Command(m) \/ Crash(m)
    PROVE  IInv'
<1>0. Shape /\ \A a \in Apis : a \in (Migrators \union Apis) \ {m}
  BY Parameters DEF IInv
<1>1. CASE LockStep(m)
  <2>2. LockInPlace'
    BY <1>1, LockStepKept DEF LockStep
  <2>3. LeasesInPlace'
    <3>1. CASE CheckLeases(m)
      BY <3>1, CheckLeasesKeepsApart
    <3>2. CASE leases' = leases /\ pc'[m] \notin Working
      BY <1>0, <1>1, <3>2, LockStepMoves, LeasesAsideKept
    <3> QED BY <1>0, <1>1, <3>1, <3>2, LockStepMoves
  <2>4. Whole'
    BY <1>0, <1>1, LockStepMoves, HeldAsideKept DEF Planned
  <2> QED BY <2>2, <2>3, <2>4, Together
<1>2. CASE WorkStep(m) \/ Fail(m)
  <2>0. pc[m] \in Holding /\ pc'[m] \in Holding
    BY <1>2, WorkMovesOne DEF Holding
  <2>2. LockInPlace'
    BY <1>2, <2>0, WorkMovesOne, LockHeldKept
  <2>3. LeasesInPlace'
    BY <1>0, <1>2, WorkMovesOne, LeasesAsideKept
  <2>4. Whole'
    <3>1. CASE Fail(m)
      <4>1. pc'[m] = "release" /\ files' = files /\ UNCHANGED locals
        BY <3>1 DEF Fail, Goto, IInv, Shape
      <4> QED BY <1>0, <3>1, <4>1, WorkMovesOne, HeldAsideKept
              DEF locals, Applying, Undoing
    <3> QED BY <1>2, <3>1, LoadStepWhole, PlanningStepWhole, ApplyingStepWhole,
               RestoringStepWhole DEF WorkStep
  <2> QED BY <2>2, <2>3, <2>4, Together
<1> QED BY <1>1, <1>2 DEF Command, LockStep, WorkStep

LEMMA ApiStep ==
    ASSUME IInv, Sound', NEW a \in Apis, Api(a) \/ Crash(a)
    PROVE  IInv'
<1>0. Shape
  BY DEF IInv
<1>1. /\ data' = data \/ (pc[a] \in Serving /\ pc' = pc)
      /\ pc'[a] = "serving" => pc[a] = "serving" \/ manifest.status # "completed"
  BY Parameters DEF IInv, Shape, TypeOK, Api, StartApi, WriteLease, RecheckManifest,
     RecheckLock, Open, StopApi, Edit, Crash, Goto, Withdraw, files, Serving
<1>2. \A m \in Migrators : pc'[m] = pc[m]
  BY <1>0, ApiMoves, Parameters
<1>3. LockInPlace'
  BY <1>0, <1>2, ApiMoves, LockAsideKept
<1>4. LeasesInPlace'
  BY ApiStepKeepsApart
<1>5. Whole'
  <2>1. CASE data' = data
    <3>1. files' = files /\ copy' = copy /\ left' = left
      BY <1>0, <2>1, ApiMoves DEF files, locals
    <3>2. \A b \in Apis : pc'[b] = "serving" =>
              pc[b] = "serving" \/ manifest.status # "completed"
      BY <1>0, <1>1, ApiMoves
    <3> QED BY <1>2, <3>1, <3>2, HeldAsideKept
  <2>2. CASE pc[a] \in Serving /\ pc' = pc
    <3>1. \A m \in Migrators : pc'[m] \notin Working
      BY <2>2 DEF IInv, LeasesInPlace, Admitted
    <3>2. \A m \in Migrators : Held(m)'
      BY <3>1 DEF Held, Planning, Writing, Restoring, Working, Applying, Undoing
    <3>3. manifest' = manifest
      BY <1>0, ApiMoves
    <3> QED BY <2>2, <3>2, <3>3 DEF IInv, Whole, OpenedBefore
  <2> QED BY <1>1, <2>1, <2>2
<1> QED BY <1>3, <1>4, <1>5, Together

LEMMA Inductive ==
    ASSUME IInv, Sound', ~usurped', [Next]_vars
    PROVE  IInv'
<1>1. ASSUME NEW m \in Migrators, Command(m) \/ Crash(m)
      PROVE  IInv'
  BY <1>1, CommandStep
<1>2. ASSUME NEW a \in Apis, Api(a) \/ Crash(a)
      PROVE  IInv'
  BY <1>2, ApiStep
<1>3. CASE ApprovePlan \/ UNCHANGED vars
  <2>1. UNCHANGED <<files, lock, leases, pc, locals>>
    BY <1>3 DEF ApprovePlan, vars
  <2>2. LockInPlace'
    BY <2>1, LockAsideKept
  <2>3. LeasesInPlace'
    BY <2>1, LeasesAsideKept
  <2>4. Whole'
    BY <2>1, HeldAsideKept DEF locals
  <2> QED BY <2>2, <2>3, <2>4, Together
<1> QED BY <1>1, <1>2, <1>3 DEF Next

\* What was usurped stays so.
LEMMA UsurpedLasts ==
    ASSUME [Next]_vars, ~usurped'
    PROVE  ~usurped
<1>1. ASSUME NEW m \in Migrators, UnlinkOwner(m)
      PROVE  ~usurped
  BY <1>1 DEF UnlinkOwner
<1>2. usurped' = usurped \/ \E m \in Migrators : UnlinkOwner(m)
  BY DEF Next, Command, Api, vars, files, ApprovePlan, Launch, TakeLock, InspectLock,
         RemoveDirectory, WriteOwner, CheckLeases, Abandon, ReleaseLock, RemoveLock,
         LoadManifest, BackUp, WriteManifest, AssertReady, WriteTarget, RecordTarget,
         Verify, Complete, LoadForRestore, RestoreTarget, MarkRestored, Fail, Crash,
         StartApi, WriteLease, RecheckManifest, RecheckLock, Open, StopApi, Edit
<1> QED BY <1>1, <1>2

LEMMA Start ==
    ASSUME Init
    PROVE  Sound /\ IInv
<1> USE Parameters DEF Init
<1>1. Shape
  BY DEF Shape
<1>2. TypeOK
  <2>1. {Absent, Edited(0)} \subseteq Contents /\ data \in Plans
    <3>1. {Absent, Edited(0)} \subseteq Contents
      BY DEF Contents
    <3> QED BY <3>1 DEF Plans
  <2>2. backup \in Plans /\ NoManifest \in Manifests
    BY <2>1 DEF Plans, NoManifest, Manifests
  <2>3. 0 \in 0 .. MaxEdits /\ 0 \in 0 .. MaxCrashes /\ 0 \in 0 .. MaxFaults
    OBVIOUS
  <2>4. \A m \in Migrators :
          /\ pc[m] = "idle" /\ command[m] = NoCommand /\ copy[m] = NoManifest
          /\ left[m] = {}
    OBVIOUS
  <2>5. NoCommand.kind = "none" /\ NoCommand.plan = None
        /\ NoManifest.plan = None /\ NoManifest.status = "none"
    BY DEF NoCommand, NoManifest
  <2> QED BY <2>1, <2>2, <2>3, <2>4, <2>5 DEF TypeOK, Ended
<1>3. LockInPlace /\ LeasesInPlace /\ OpenedBefore
  BY DEF LockInPlace, LeasesInPlace, OpenedBefore, Holding, Clearing,
         Working, Leased, Admitted, Serving
<1>4. manifest.status = "none"
  BY DEF NoManifest
<1>5. \A m \in Migrators : Held(m) /\ Own(m)
  BY DEF Held, Planning, Writing, Restoring, Own, Planned, Applying, Undoing
<1> QED BY <1>1, <1>2, <1>3, <1>4, <1>5 DEF Sound, IInv

LEMMA Invariance == Spec => [](Sound /\ (usurped \/ IInv))
<1>1. Init => Sound /\ IInv
  BY Start
<1>2. Sound /\ (usurped \/ IInv) /\ [Next]_vars => (Sound /\ (usurped \/ IInv))'
  BY SoundKept, Inductive, UsurpedLasts
<1> QED BY <1>1, <1>2, PTL DEF Spec

-----------------------------------------------------------------------------
(* What it says of the migration *)

\* A command that may touch the files is alone, whatever commands and APIs do
\* beside it, until one takes a living one's lock for that of a dead one: no
\* other does, and no API serves (Exclusive; the lock of acquireMigrationLease
\* and the lease of acquireApiLease).
THEOREM AloneWithTheFiles == Spec => []Exclusive
<1>1. usurped \/ IInv => Exclusive
  <2> SUFFICES ASSUME IInv, NEW m \in Migrators, pc[m] \in Working
               PROVE  /\ \A n \in Migrators \ {m} : pc[n] \notin Working
                      /\ \A a \in Apis : pc[a] \notin Serving
    BY DEF Exclusive
  <2>1. \A n \in Migrators \ {m} : pc[n] \notin Working
    BY Alone DEF Holding
  <2>2. \A a \in Apis : pc[a] \notin Serving
    BY DEF IInv, LeasesInPlace, Admitted
  <2> QED BY <2>1, <2>2
<1> QED BY <1>1, Invariance, PTL

\* Whatever died before, and even when two commands came to work at once, what
\* the files were before the migration is in their backups as soon as there is a
\* manifest (OriginalsKept; copyVerifiedBackup and prepareResume).
THEOREM OriginalsAreKept == Spec => []OriginalsKept
<1>1. Sound => OriginalsKept
  BY DEF Sound, OriginalsKept, Preserved
<1> QED BY <1>1, Invariance, PTL

\* A manifest is called completed when every target is as planned, and
\* restored when every target is as it was (OutcomeIsWhole; verifyCompleted
\* and restore).
THEOREM OutcomesAreWhole == Spec => OutcomeIsWhole
<1> DEFINE Honest == /\ manifest'.status = "completed" /\ manifest.status # "completed" =>
                          /\ \A t \in Targets : data'[t] = Post(manifest'.plan, t)
                          /\ data'[Work] = manifest'.plan[Work]
                     /\ manifest'.status = "restored" /\ manifest.status # "restored" =>
                          \A t \in Targets : data'[t] = manifest'.plan[t]
<1>1. ASSUME IInv, [Next]_vars
      PROVE  Honest \/ UNCHANGED vars
  <2>0. manifest \in Manifests
    BY <1>1 DEF IInv, TypeOK
  <2>1. CASE manifest' = manifest
    BY <2>1
  <2>2. ASSUME NEW m \in Migrators, WriteManifest(m)
        PROVE  manifest'.status = "in_progress"
    BY <1>1, <2>2 DEF WriteManifest, IInv, Shape, TypeOK, Manifests
  <2>3. ASSUME NEW m \in Migrators, RecordTarget(m)
        PROVE  manifest'.status = "in_progress"
    <3>1. copy[m] = manifest /\ manifest.status = "in_progress"
      BY <1>1, <2>3 DEF RecordTarget, IInv, Held, Writing, Applying
    <3> QED BY <1>1, <2>0, <2>3, <3>1 DEF RecordTarget, IInv, Shape, Manifests
  <2>4. ASSUME NEW m \in Migrators, Complete(m)
        PROVE  Honest
    <3>1. /\ copy[m] = manifest /\ data' = data
          /\ \A t \in Targets : data[t] = Post(manifest.plan, t)
          /\ data[Work] = manifest.plan[Work]
      BY <1>1, <2>4 DEF Complete, IInv, Held, Writing, Applying
    <3>2. manifest'.plan = manifest.plan /\ manifest'.status = "completed"
      BY <2>0, <2>4, <3>1 DEF Complete, Manifests
    <3> QED BY <3>1, <3>2
  <2>5. ASSUME NEW m \in Migrators, MarkRestored(m)
        PROVE  Honest
    <3>1. copy[m] = manifest /\ data' = data
          /\ \A t \in Targets : data[t] = manifest.plan[t]
      BY <1>1, <2>5 DEF MarkRestored, IInv, Held, Restoring, Undoing
    <3>2. manifest'.plan = manifest.plan /\ manifest'.status = "restored"
      BY <2>0, <2>5, <3>1 DEF MarkRestored, Manifests
    <3> QED BY <3>1, <3>2
  <2>6. manifest' = manifest \/ \E m \in Migrators :
          WriteManifest(m) \/ RecordTarget(m) \/ Complete(m) \/ MarkRestored(m)
    BY <1>1, OthersKeepManifest
  <2> QED BY <2>1, <2>2, <2>3, <2>4, <2>5, <2>6
<1>2. (usurped \/ IInv) /\ [Next]_vars => [~usurped' => Honest]_vars
  BY <1>1, UsurpedLasts
<1> QED BY <1>2, Invariance, PTL DEF Spec, OutcomeIsWhole

\* A command turns what was planned from into what was planned or back, and
\* nothing else, and V1 is not written any more when the migration is called
\* completed (BusinessKept; assertTargetsReady, restore and startApiServer).
THEOREM BusinessIsKept == Spec => BusinessKept
<1> DEFINE Kept(f) == data'[f] # data[f] =>
            /\ edits' = edits =>
                /\ f \in Targets
                /\ {data[f], data'[f]} = {manifest.plan[f], Post(manifest.plan, f)}
            /\ f = Work => manifest.status # "completed"
<1>1. ASSUME IInv, [Next]_vars, NEW f \in Files
      PROVE  Kept(f)
  <2>0. data \in Plans /\ Work \notin Targets /\ Targets \subseteq Files
    BY <1>1 DEF IInv, TypeOK, Targets, Files, Admin, Work, Session
  <2>1. CASE data' = data
    BY <2>1
  <2>2. ASSUME NEW m \in Migrators, WriteTarget(m)
        PROVE  Kept(f)
    <3>1. /\ \A t \in Targets : EitherWay(t)
          /\ \/ data' = data
             \/ \E t \in Targets : data' = [data EXCEPT ![t] = Post(manifest.plan, t)]
      BY <1>1, <2>2, WriteTargetDoes
    <3>2. ASSUME NEW t \in Targets, data' = [data EXCEPT ![t] = Post(manifest.plan, t)]
          PROVE  Kept(f)
      BY <2>0, <3>1, <3>2 DEF EitherWay, Plans
    <3> QED BY <3>1, <3>2
  <2>3. ASSUME NEW m \in Migrators, RestoreTarget(m)
        PROVE  Kept(f)
    <3>1. /\ copy[m] = manifest
          /\ left[m] \subseteq Targets
          /\ \A t \in Targets : EitherWay(t)
      BY <1>1, <2>3 DEF RestoreTarget, IInv, Held, Restoring, Undoing
    <3>2. left[m] # {} => Max(left[m]) \in Targets
      BY <2>0, <3>1, FirstAndLast
    <3>3. PICK t : t = Max(left[m])
      OBVIOUS
    <3>4. data' = data \/ (t \in Targets /\ data' = [data EXCEPT ![t] = manifest.plan[t]])
      BY <2>3, <3>1, <3>2, <3>3 DEF RestoreTarget
    <3> QED BY <2>0, <3>1, <3>4 DEF EitherWay, Plans
  <2>4. ASSUME NEW a \in Apis, NEW g \in Files, Edit(a, g)
        PROVE  Kept(f)
    <3>1. edits' # edits /\ (g = Work => pc[a] = "serving")
          /\ data' = [data EXCEPT ![g] = Edited(edits')]
      BY <1>1, <2>4 DEF Edit, IInv, TypeOK
    <3>2. g = Work => manifest.status # "completed"
      BY <1>1, <3>1 DEF IInv, OpenedBefore
    <3>3. f # g => data'[f] = data[f]
      BY <2>0, <3>1 DEF Plans
    <3> QED BY <3>1, <3>2, <3>3
  <2> QED BY <1>1, <2>1, <2>2, <2>3, <2>4, OthersKeepData
<1>2. (usurped \/ IInv) /\ [Next]_vars => [~usurped' => \A f \in Files : Kept(f)]_vars
  BY <1>1, UsurpedLasts
<1> QED BY <1>2, Invariance, PTL DEF Spec, BusinessKept

=============================================================================
