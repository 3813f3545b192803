--------------------------- MODULE LegacyMigration ---------------------------
(***************************************************************************)
(* The one-time migration of Workspace V1 data to V2 by an offline command *)
(* (apply, resume, restore), and the lifecycle locks that keep it and the  *)
(* API processes apart.                                                    *)
(*                                                                         *)
(* Both are processes over one file system.  A step is one file operation  *)
(* that others can see (the two looks of an API before it writes its lease *)
(* are one: they are repeated after); a crash may come between any two and *)
(* leaves the files, the lock of a command and the lease of an API as they *)
(* are.                                                                    *)
(* A process that ends may be run again; one that died is not, so that its *)
(* pid stays unused.  There is one migration id with one configuration.    *)
(***************************************************************************)
EXTENDS Naturals, FiniteSets, FiniteSetsExt

CONSTANTS
    Migrators,    \* runs of the migration command
    Apis,         \* API processes
    None,
    MaxEdits,     \* bound: changes of a file by an API
    MaxCrashes,   \* bound: processes that die
    MaxFaults     \* bound: file operations of a command that fail

ASSUME Parameters ==
    /\ None \notin Migrators \union Apis /\ Migrators \intersect Apis = {}
    /\ {"absent", "empty"} \intersect Migrators = {}
    /\ {MaxEdits, MaxCrashes, MaxFaults} \subseteq Nat

\* One file of each kind, in the order the targets are written.  A Work is
\* only read; a session is read and written.
Work == 0
Admin == 1
Task == 2
Session == 3
Files == Work .. Session
Targets == Admin .. Session

VARIABLES
    data,      \* file -> content
    backup,    \* file -> content of its backup, Absent when there is none
    manifest,  \* of the migration
    approved,  \* the plan the operator approved, None before
    lock,      \* .migration.lock: "absent", "empty", or its owner
    usurped,   \* history: the owner.json of a living command was removed for
               \* that of a dead one
    leases,    \* the APIs with a file in .api-leases
    pc,        \* label of every process
    command,   \* command -> what it was run as
    copy,      \* command -> the manifest it holds
    left,      \* command -> files it still has to back up, write or restore
    edits, crashes, faults

files == <<data, backup, manifest>>
locals == <<command, copy, left>>
bounds == <<edits, crashes, faults>>
vars == <<files, approved, lock, usurped, leases, pc, locals, bounds>>

Absent == <<"absent", 0>>
Edited(n) == <<"edited", n>>
Migrated(n) == <<"migrated", n>>

\* A plan is identified by the files it was made from: its hash covers every
\* source and every target's preimage.
Contents == {Absent} \union {Edited(n) : n \in 0 .. MaxEdits}
                     \union {Migrated(n) : n \in 0 .. MaxEdits}
Plans == [Files -> Contents]

ASSUME NoneIsNoPlan == None \notin Plans

NoManifest == [status |-> "none", plan |-> None, applied |-> {}]

\* The expected postimage of a target: a task comes from its Work, and the
\* others from what they were
Post(plan, t) == Migrated(IF t = Task THEN plan[Work][2] ELSE plan[t][2])

-----------------------------------------------------------------------------
(* Processes *)

\* A command that passed its checks and may touch the files
Working == {"load", "backup", "manifest", "ready", "write", "record", "verify",
            "complete", "undo", "mark"}
Serving == {"serving", "read_only"}
Ended == {"idle", "dead"}

Alive(p) == pc[p] \notin Ended
Goto(p, label) == pc' = [pc EXCEPT ![p] = label]

NoCommand == [kind |-> "none", plan |-> None]

\* A command ends, and what it knew is gone
Forget(m) ==
    /\ command' = [command EXCEPT ![m] = NoCommand]
    /\ copy' = [copy EXCEPT ![m] = NoManifest]
    /\ left' = [left EXCEPT ![m] = {}]

Quit(m) == Goto(m, "idle") /\ Forget(m)

\* The command was run with the hash of the approved plan, and holds a lock
\* if it needs one
Launch(m, kind) ==
    /\ pc[m] = "idle"
    /\ kind # "restore" => approved # None
    /\ command' = [command EXCEPT ![m] = [kind |-> kind, plan |-> approved]]
    /\ Goto(m, "lock")
    /\ UNCHANGED <<files, approved, usurped, lock, leases, copy, left, bounds>>

\* plan: reads only, and is approved by people
ApprovePlan ==
    /\ manifest.status = "none"
    /\ approved # data
    /\ approved' = data
    /\ UNCHANGED <<files, lock, usurped, leases, pc, locals, bounds>>

-----------------------------------------------------------------------------
(* acquireMigrationLease *)

\* mkdir of the lock
TakeLock(m) ==
    /\ pc[m] = "lock"
    /\ IF lock = "absent"
       THEN lock' = "empty" /\ Goto(m, "own")
       ELSE Goto(m, "inspect") /\ UNCHANGED lock
    /\ UNCHANGED <<files, approved, usurped, leases, locals, bounds>>

\* #removeStaleMigrationLock: gone, malformed, of a living process, or stale
InspectLock(m) ==
    /\ pc[m] = "inspect"
    /\ \/ lock = "absent" /\ Goto(m, "lock") /\ UNCHANGED locals
       \/ lock \in Migrators /\ ~ Alive(lock) /\ Goto(m, "unlink") /\ UNCHANGED locals
       \/ lock = "empty" /\ Quit(m)
       \/ lock \in Migrators /\ Alive(lock) /\ Quit(m)
    /\ UNCHANGED <<files, approved, usurped, lock, leases, bounds>>

\* It removes the file and the directory it finds by then: if others have
\* broken the lock before, that may be the owner.json of a living command
UnlinkOwner(m) ==
    /\ pc[m] = "unlink"
    /\ IF lock \in Migrators
       THEN /\ lock' = "empty" /\ Goto(m, "rmdir")
            /\ usurped' = (usurped \/ Alive(lock))
            /\ UNCHANGED locals
       ELSE Quit(m) /\ UNCHANGED <<lock, usurped>>
    /\ UNCHANGED <<files, approved, leases, bounds>>

RemoveDirectory(m) ==
    /\ pc[m] = "rmdir"
    /\ IF lock = "empty"
       THEN lock' = "absent" /\ Goto(m, "lock") /\ UNCHANGED locals
       ELSE Quit(m) /\ UNCHANGED lock
    /\ UNCHANGED <<files, approved, usurped, leases, bounds>>

\* owner.json must not exist
WriteOwner(m) ==
    /\ pc[m] = "own"
    /\ IF lock = "empty"
       THEN lock' = m /\ Goto(m, "leases")
       ELSE UNCHANGED lock /\ Goto(m, "abandon")
    /\ UNCHANGED <<files, approved, usurped, leases, locals, bounds>>

\* #activeApiLeases removes those of dead processes and refuses the others
Living == {a \in leases : Alive(a)}

CheckLeases(m) ==
    /\ pc[m] = "leases"
    /\ leases' = Living
    /\ IF Living = {}
       THEN Goto(m, "load")
       ELSE Goto(m, "abandon")
    /\ UNCHANGED <<files, approved, lock, usurped, locals, bounds>>

\* The catch block: first owner.json, whoever wrote it, then the directory
Abandon(m) ==
    /\ pc[m] = "abandon"
    /\ lock' = IF lock \in Migrators THEN "empty" ELSE lock
    /\ Goto(m, "rmlock") /\ Forget(m)
    /\ UNCHANGED <<files, approved, usurped, leases, bounds>>

\* release: first owner.json if it is still its own, then the directory
ReleaseLock(m) ==
    /\ pc[m] = "release"
    /\ IF lock = m
       THEN lock' = "empty" /\ Goto(m, "rmlock") /\ Forget(m)
       ELSE Quit(m) /\ UNCHANGED lock
    /\ UNCHANGED <<files, approved, usurped, leases, bounds>>

RemoveLock(m) ==
    /\ pc[m] = "rmlock"
    /\ lock' = IF lock = "empty" THEN "absent" ELSE lock
    /\ Goto(m, "idle")
    /\ UNCHANGED <<files, approved, usurped, leases, locals, bounds>>

-----------------------------------------------------------------------------
(* apply and resume *)

BackedUp(plan, f) == plan[f] = Absent \/ backup[f] = plan[f]

\* A first application, of the files that were approved
First(m) ==
    /\ manifest.status = "none" /\ command[m].kind = "apply"
    /\ command[m].plan = data

\* #prepareResume: an interrupted one, whose backups are sound
Continued(m) ==
    /\ manifest.status = "in_progress"
    /\ command[m].plan = manifest.plan
    /\ \A f \in {Work, Admin, Session} : BackedUp(manifest.plan, f)

\* A completed migration is replayed and a restored one refused, both without
\* a write
LoadManifest(m) ==
    /\ pc[m] = "load" /\ command[m].kind \in {"apply", "resume"}
    /\ \/ /\ First(m)
          /\ copy' = [copy EXCEPT ![m] = [NoManifest EXCEPT !.plan = data]]
          /\ left' = [left EXCEPT ![m] = {f \in Files : data[f] # Absent}]
          /\ Goto(m, "backup")
       \/ /\ Continued(m)
          /\ copy' = [copy EXCEPT ![m] = manifest]
          /\ left' = [left EXCEPT ![m] = Targets]
          /\ Goto(m, "ready")
       \/ /\ ~ First(m) /\ ~ Continued(m)
          /\ Goto(m, "release")
          /\ UNCHANGED <<copy, left>>
    /\ UNCHANGED <<files, approved, usurped, lock, leases, command, bounds>>

\* Sources before targets: a session is both, and read
NextToBackUp(m) == IF left[m] = {Admin} THEN Admin ELSE Min(left[m] \ {Admin})

UnverifiedBackUp(m) ==
    /\ pc[m] = "backup"
    /\ IF left[m] = {}
       THEN Goto(m, "manifest") /\ UNCHANGED <<backup, left>>
       ELSE LET f == NextToBackUp(m)
            IN  /\ backup' = [backup EXCEPT ![f] = IF @ = Absent THEN data[f] ELSE @]
                /\ left' = [left EXCEPT ![m] = @ \ {f}]
                /\ UNCHANGED pc
    /\ UNCHANGED <<data, manifest, approved, usurped, lock, leases, command,
                   copy, bounds>>

\* #copyVerifiedBackup: a backup that is there is kept, and must be right
BackUp(m) ==
    /\ pc[m] = "backup"
    /\ \/ /\ left[m] = {}
          /\ Goto(m, "manifest") /\ UNCHANGED <<backup, left>>
       \/ /\ left[m] # {}
          /\ LET f == NextToBackUp(m)
                 kept == IF data[f] = copy[m].plan[f] /\ backup[f] = Absent
                         THEN data[f] ELSE backup[f]
             IN  /\ backup' = [backup EXCEPT ![f] = kept]
                 /\ IF data[f] = copy[m].plan[f] /\ kept = data[f]
                    THEN left' = [left EXCEPT ![m] = @ \ {f}] /\ UNCHANGED pc
                    ELSE Goto(m, "release") /\ UNCHANGED left
    /\ UNCHANGED <<data, manifest, approved, usurped, lock, leases, command,
                   copy, bounds>>

WriteManifest(m) ==
    /\ pc[m] = "manifest"
    /\ copy' = [copy EXCEPT ![m].status = "in_progress"]
    /\ manifest' = copy'[m]
    /\ left' = [left EXCEPT ![m] = Targets]
    /\ Goto(m, "ready")
    /\ UNCHANGED <<data, backup, approved, usurped, lock, leases, command,
                   bounds>>

\* #assertTargetsReady: every target as it was planned, or already written
AssertReady(m) ==
    /\ pc[m] = "ready"
    /\ Goto(m, IF \A t \in Targets :
                     \/ data[t] = Post(copy[m].plan, t)
                     \/ data[t] = copy[m].plan[t] /\ t \notin copy[m].applied
               THEN "write" ELSE "release")
    /\ UNCHANGED <<files, approved, usurped, lock, leases, locals, bounds>>

\* #applyTargets: the next target, unless it has its postimage; a task is
\* created, and must not be another
WriteTarget(m) ==
    /\ pc[m] = "write"
    /\ IF left[m] = {}
       THEN Goto(m, "verify") /\ UNCHANGED data
       ELSE LET t == Min(left[m])
                post == Post(copy[m].plan, t)
            IN  IF t = Task => data[t] \in {Absent, post}
                THEN Goto(m, "record") /\ data' = [data EXCEPT ![t] = post]
                ELSE Goto(m, "release") /\ UNCHANGED data
    /\ UNCHANGED <<backup, manifest, approved, usurped, lock, leases, locals,
                   bounds>>

\* ... and the manifest says that it was written
RecordTarget(m) ==
    /\ pc[m] = "record"
    /\ copy' = [copy EXCEPT ![m].applied = @ \union {Min(left[m])}]
    /\ manifest' = copy'[m]
    /\ left' = [left EXCEPT ![m] = @ \ {Min(left[m])}]
    /\ Goto(m, "write")
    /\ UNCHANGED <<data, backup, approved, usurped, lock, leases, command,
                   bounds>>

\* #verifyCompleted
Verify(m) ==
    /\ pc[m] = "verify"
    /\ Goto(m, IF /\ \A t \in Targets : data[t] = Post(copy[m].plan, t)
                  /\ data[Work] = copy[m].plan[Work]
               THEN "complete" ELSE "release")
    /\ UNCHANGED <<files, approved, usurped, lock, leases, locals, bounds>>

Complete(m) ==
    /\ pc[m] = "complete"
    /\ manifest' = [copy[m] EXCEPT !.status = "completed"]
    /\ Goto(m, "release")
    /\ UNCHANGED <<data, backup, approved, usurped, lock, leases, locals,
                   bounds>>

-----------------------------------------------------------------------------
(* restore *)

AlwaysUntouched(mf) == TRUE

\* Refused as a whole when a target is neither as it was before the migration
\* nor as the migration wrote it
Untouched(mf) ==
    \A t \in Targets : data[t] \in {mf.plan[t], Post(mf.plan, t)}

RecordedOnly(m) ==
    /\ pc[m] = "load" /\ command[m].kind = "restore"
    /\ IF manifest.status \in {"in_progress", "completed"} /\ Untouched(manifest)
       THEN /\ copy' = [copy EXCEPT ![m] = manifest]
            /\ left' = [left EXCEPT ![m] = manifest.applied]
            /\ Goto(m, "undo")
       ELSE Goto(m, "release") /\ UNCHANGED <<copy, left>>
    /\ UNCHANGED <<files, approved, usurped, lock, leases, command, bounds>>

LoadForRestore(m) ==
    /\ pc[m] = "load" /\ command[m].kind = "restore"
    /\ IF manifest.status \in {"in_progress", "completed"} /\ Untouched(manifest)
       THEN /\ copy' = [copy EXCEPT ![m] = manifest]
            /\ left' = [left EXCEPT ![m] = {t \in Targets :
                                data[t] # manifest.plan[t]}]
            /\ Goto(m, "undo")
       ELSE Goto(m, "release") /\ UNCHANGED <<copy, left>>
    /\ UNCHANGED <<files, approved, usurped, lock, leases, command, bounds>>

\* In the reverse order: the backup, or the file removed
RestoreTarget(m) ==
    /\ pc[m] = "undo"
    /\ IF left[m] = {}
       THEN Goto(m, "mark") /\ UNCHANGED <<data, left>>
       ELSE LET t == Max(left[m])
            IN  IF BackedUp(copy[m].plan, t)
                THEN /\ data' = [data EXCEPT ![t] = copy[m].plan[t]]
                     /\ left' = [left EXCEPT ![m] = @ \ {t}]
                     /\ UNCHANGED pc
                ELSE Goto(m, "release") /\ UNCHANGED <<data, left>>
    /\ UNCHANGED <<backup, manifest, approved, usurped, lock, leases,
                   command, copy, bounds>>

MarkRestored(m) ==
    /\ pc[m] = "mark"
    /\ manifest' = [copy[m] EXCEPT !.status = "restored"]
    /\ Goto(m, "release")
    /\ UNCHANGED <<data, backup, approved, usurped, lock, leases, locals,
                   bounds>>

-----------------------------------------------------------------------------
(* The API: acquireApiLease, then its work *)

StartApi(a) ==
    /\ pc[a] = "idle"
    /\ manifest.status # "in_progress" /\ lock = "absent"
    /\ Goto(a, "lease")
    /\ UNCHANGED <<files, approved, usurped, lock, leases, locals, bounds>>

WriteLease(a) ==
    /\ pc[a] = "lease"
    /\ leases' = leases \union {a}
    /\ Goto(a, "recheck_manifest")
    /\ UNCHANGED <<files, approved, usurped, lock, locals, bounds>>

Withdraw(a) == leases' = leases \ {a} /\ Goto(a, "idle")

RecheckManifest(a) ==
    /\ pc[a] = "recheck_manifest"
    /\ IF manifest.status = "in_progress"
       THEN Withdraw(a)
       ELSE Goto(a, "recheck_lock") /\ UNCHANGED leases
    /\ UNCHANGED <<files, approved, usurped, lock, locals, bounds>>

LockSeenOnce(a) ==
    /\ pc[a] = "recheck_lock"
    /\ Goto(a, "open")
    /\ UNCHANGED <<files, approved, usurped, lock, leases, locals, bounds>>

RecheckLock(a) ==
    /\ pc[a] = "recheck_lock"
    /\ IF lock = "absent"
       THEN Goto(a, "open") /\ UNCHANGED leases
       ELSE Withdraw(a)
    /\ UNCHANGED <<files, approved, usurped, lock, locals, bounds>>

\* startApiServer decides once whether V1 is still written
Open(a) ==
    /\ pc[a] = "open"
    /\ Goto(a, IF manifest.status = "completed" THEN "read_only" ELSE "serving")
    /\ UNCHANGED <<files, approved, usurped, lock, leases, locals, bounds>>

\* Business goes on in the files there are
Edit(a, f) ==
    /\ pc[a] \in Serving
    /\ f = Work => pc[a] = "serving"
    /\ data[f] # Absent \/ f = Admin
    /\ edits < MaxEdits /\ edits' = edits + 1
    /\ data' = [data EXCEPT ![f] = Edited(edits')]
    /\ UNCHANGED <<backup, manifest, approved, usurped, lock, leases, pc,
                   locals,
                   crashes, faults>>

StopApi(a) ==
    /\ pc[a] \in Serving
    /\ Withdraw(a)
    /\ UNCHANGED <<files, approved, usurped, lock, locals, bounds>>

-----------------------------------------------------------------------------
\* A process dies
Crash(p) ==
    /\ Alive(p)
    /\ crashes < MaxCrashes /\ crashes' = crashes + 1
    /\ Goto(p, "dead")
    /\ IF p \in Migrators
       THEN Forget(p)
       ELSE UNCHANGED locals
    /\ UNCHANGED <<files, approved, usurped, lock, leases, edits, faults>>

\* A file operation of a command fails: it ends, by its finally block
Fail(m) ==
    /\ pc[m] \in Working
    /\ faults < MaxFaults /\ faults' = faults + 1
    /\ Goto(m, "release")
    /\ UNCHANGED <<files, approved, usurped, lock, leases, locals, edits,
                   crashes>>

Init ==
    /\ data \in [Files -> {Absent, Edited(0)}]
    /\ data[Task] = Absent /\ data[Work] # Absent /\ data[Session] # Absent
    /\ backup = [f \in Files |-> Absent]
    /\ manifest = NoManifest
    /\ approved = None
    /\ lock = "absent" /\ usurped = FALSE
    /\ leases = {}
    /\ pc = [p \in Migrators \union Apis |-> "idle"]
    /\ command = [m \in Migrators |-> NoCommand]
    /\ copy = [m \in Migrators |-> NoManifest]
    /\ left = [m \in Migrators |-> {}]
    /\ edits = 0 /\ crashes = 0 /\ faults = 0

Command(m) ==
    \/ \E kind \in {"apply", "resume", "restore"} : Launch(m, kind)
    \/ TakeLock(m) \/ InspectLock(m) \/ UnlinkOwner(m) \/ RemoveDirectory(m)
    \/ WriteOwner(m) \/ CheckLeases(m) \/ Abandon(m)
    \/ ReleaseLock(m) \/ RemoveLock(m)
    \/ LoadManifest(m) \/ BackUp(m) \/ WriteManifest(m)
    \/ AssertReady(m) \/ WriteTarget(m) \/ RecordTarget(m)
    \/ Verify(m) \/ Complete(m)
    \/ LoadForRestore(m) \/ RestoreTarget(m) \/ MarkRestored(m)
    \/ Fail(m)

Api(a) ==
    \/ StartApi(a) \/ WriteLease(a) \/ RecheckManifest(a) \/ RecheckLock(a)
    \/ Open(a) \/ StopApi(a)
    \/ \E f \in Files : Edit(a, f)

Next ==
    \/ ApprovePlan
    \/ \E m \in Migrators : Command(m)
    \/ \E a \in Apis : Api(a)
    \/ \E p \in Migrators \union Apis : Crash(p)

Spec == Init /\ [][Next]_vars

-----------------------------------------------------------------------------
(* Properties *)

Manifests == [status : {"none", "in_progress", "completed", "restored"},
              plan : Plans \union {None}, applied : SUBSET Targets]

\* Every variable of the model has a value of its kind.
TypeOK ==
    /\ data \in Plans /\ backup \in Plans
    /\ manifest \in Manifests
    /\ manifest.plan = None <=> manifest.status = "none"
    /\ approved \in Plans \union {None}
    /\ lock \in {"absent", "empty"} \union Migrators
    /\ usurped \in BOOLEAN
    /\ leases \subseteq Apis
    /\ \A m \in Migrators :
        /\ pc[m] \in Working \union Ended \union
               {"lock", "inspect", "unlink", "rmdir", "own", "leases",
                "abandon", "release", "rmlock"}
        /\ command[m].kind \in {"none", "apply", "resume", "restore"}
        /\ command[m].plan \in Plans \union {None}
        /\ copy[m] \in Manifests /\ left[m] \subseteq Files
    /\ \A a \in Apis : pc[a] \in Ended \union Serving \union
               {"lease", "recheck_manifest", "recheck_lock", "open"}
    /\ edits \in 0 .. MaxEdits /\ crashes \in 0 .. MaxCrashes
    /\ faults \in 0 .. MaxFaults

\* A command that may touch the files is alone: no other does, and no API
\* serves, however many are run at once and die, unless one of them, breaking
\* the lock of a dead one, removed that of a living one instead.  Neither side
\* holds one lock for both: a command takes the lock and then looks for leases,
\* an API writes its lease and then looks for the lock.
Exclusive ==
    ~usurped => \A m \in Migrators : pc[m] \in Working =>
        /\ \A n \in Migrators \ {m} : pc[n] \notin Working
        /\ \A a \in Apis : pc[a] \notin Serving

\* Once a migration has begun, what every file was before it can be read in its
\* backup, whatever attempts died before: a copy left by one of them is either
\* right or stops the command.  (And every variable has a value of its kind.)
OriginalsKept ==
    TypeOK /\ (manifest.status # "none" =>
        \A f \in Files : BackedUp(manifest.plan, f))

\* A migration is called completed at a moment when every target is as planned
\* and the works are still what the plan was made from; it is called restored
\* when every target is as it was before, those included that were written and
\* never recorded; unless a lock was usurped, so that two commands may be at work.
OutcomeIsWhole ==
    [][~usurped' =>
       /\ manifest'.status = "completed" /\ manifest.status # "completed" =>
            /\ \A t \in Targets : data'[t] = Post(manifest'.plan, t)
            /\ data'[Work] = manifest'.plan[Work]
       /\ manifest'.status = "restored" /\ manifest.status # "restored" =>
            \A t \in Targets : data'[t] = manifest'.plan[t]]_vars

\* A command turns what the plan was made from into what it planned or back,
\* and never writes over what business wrote since; once the migration is
\* completed, business does not write to V1: an API that decided to does not
\* live to see the completion.  (Again unless a lock was usurped.)
BusinessKept ==
    [][~usurped' => \A f \in Files : data'[f] # data[f] =>
        /\ edits' = edits =>
            /\ f \in Targets
            /\ {data[f], data'[f]} = {manifest.plan[f], Post(manifest.plan, f)}
        /\ f = Work => manifest.status # "completed"]_vars

\* An API never serves while a migration is unfinished.  It does: it looks at
\* the manifest before it looks at the lock.
FailClosed ==
    \A a \in Apis : pc[a] \in Serving => manifest.status # "in_progress"
=============================================================================
