---------------------------- MODULE TaskFileLock ----------------------------
(***************************************************************************)
(* The local store of video tasks (LocalVideoTaskProductionStore): one     *)
(* file per task, written by the stores of several processes.  A store     *)
(* makes a directory to take a lock, with a file that names its owner; it  *)
(* touches that file while it works, and makes a fence in the directory    *)
(* around its write.  Whoever finds the directory taken looks at what is   *)
(* in it and removes what belongs to the dead, or has not been touched for *)
(* a lease.  An update locks its task, a creation the list of the project. *)
(*                                                                         *)
(* Every step is one call of the file system, and any steps of others may  *)
(* come between two of them.  What a record holds is the transaction that  *)
(* wrote it.  The id of a new task is a hash of the request that asks for  *)
(* it, so a request is its id.  Time is left to chance: a wait may time    *)
(* out, and a process may be so slow that its lease runs out.              *)
(***************************************************************************)
EXTENDS Naturals, FiniteSets

CONSTANTS
    Transactions,   \* transactions on the files, once each
    Stores,         \* the store objects, each in a process of its own
    Ids,            \* the tasks of the project
    Names,          \* their normalized names
    Wanted,         \* what may be asked for
    None,
    MaxFaults       \* bound: processes that die, and leases that run out
                    \* under a live owner, together

\* An update changes a task that exists; a creation brings a name.
Jobs == [kind : {"update"}, id : Ids] \cup
        [kind : {"create"}, id : Ids, name : Names]

ASSUME FileLockAssumption ==
    /\ None \notin Names \cup Transactions \cup Stores
    /\ None \notin {"replayed", "conflict"}
    /\ None \notin [name : Names, by : Transactions \cup {None}]
    /\ Wanted \subseteq Jobs
    /\ MaxFaults \in Nat

VARIABLES
    dirs,       \* the lock directories: who made the one of each key
    files,      \* what is in them: owner files, fences, and marks in a fence
    old,        \* the files not touched for a lease
    tasks,      \* the file of each task
    txs,        \* the transactions
    faults

vars == <<dirs, files, old, tasks, txs, faults>>

----------------------------------------------------------------------------
\* What a lock is for: a task, or the list of the project.
Key(job) == IF job.kind = "update" THEN job.id ELSE "project"
Keys == Ids \cup {"project"}

\* The files of a transaction in a lock directory: its owner file, its
\* fence, which is a directory of its own, and the mark "held" in it.
File(t, kind) == [tx |-> t, kind |-> kind]
Files == [tx : Transactions, kind : {"owner", "fence", "held"}]
FilesOf(t) == {f \in files : f.tx = t}

KeyOf(t) == Key(txs[t].job)
Exists(key) == dirs[key] # None
In(key) == {f \in files : KeyOf(f.tx) = key}

Dead(t) == txs[t].pc = "dead"
Ended(t) == txs[t].pc \in {"idle", "dead", "ended"}
Fenced == {"mark", "own", "write", "winner"}
Owns == {"read", "fence", "unmark", "unfence"} \cup Fenced

Move(t, pc) == txs' = [txs EXCEPT ![t].pc = pc]
End(t, answer, pc) == txs' = [txs EXCEPT ![t].answer = answer, ![t].pc = pc]

Vanish(fs) ==
    /\ files' = files \ fs
    /\ old' = old \ fs
Appear(f) ==
    /\ files' = files \cup {f}
    /\ UNCHANGED old

Init ==
    /\ dirs = [k \in Keys |-> None]
    /\ files = {}
    /\ old = {}
    /\ tasks \in {f \in [Ids -> [name : Names, by : {None}] \cup {None}] :
                    \A i, j \in Ids : f[i] # None /\ f[i] = f[j] => i = j}
    /\ txs = [t \in Transactions |->
                [pc |-> "idle", store |-> None, job |-> None, saw |-> None,
                 found |-> {}, ask |-> {}, lost |-> FALSE, answer |-> None,
                 guest |-> FALSE, late |-> FALSE]]
    /\ faults = 0

----------------------------------------------------------------------------
(* A transaction: acquire, read, write behind a fence, release.            *)

\* The transactions of one store on one key wait for each other.  A store
\* whose process died is that of the next process.
Begin(t) ==
    /\ txs[t].pc = "idle"
    /\ \E s \in Stores, job \in Wanted :
        /\ job.kind = "update" => tasks[job.id] # None
        /\ \A u \in Transactions :
             txs[u].store = s /\ ~Ended(u) => KeyOf(u) # Key(job)
        /\ txs' = [txs EXCEPT ![t].pc = "claim", ![t].store = s,
                              ![t].job = job]
    /\ UNCHANGED <<dirs, files, old, tasks, faults>>

\* What readdir shows; a fence is asked by its mark, which may not be there.
Entries(key) == {f \in In(key) : f.kind # "held"}
Marks(fs) == {File(f.tx, "held") : f \in {g \in fs : g.kind = "fence"}}

\* mkdir of the lock directory, and readdir if it is there; if it has gone
\* between the two, that is as if it had gone before them.
Claim(t) ==
    /\ txs[t].pc \in {"claim", "retry"}
    /\ LET seen == Entries(KeyOf(t))
       IN IF Exists(KeyOf(t))
          THEN /\ txs' = [txs EXCEPT ![t].pc = "ask",
                            ![t].found = seen \cup Marks(seen),
                            ![t].ask = {f \in seen : f.kind = "owner"}
                                       \cup Marks(seen)]
               /\ UNCHANGED dirs
          ELSE /\ Move(t, "sign")
               /\ dirs' = [dirs EXCEPT ![KeyOf(t)] = t]
    /\ UNCHANGED <<files, old, tasks, faults>>

\* The owner file is written into the directory of that name; another may
\* have removed it, and made its own.  (guest is for the properties only.)
Sign(t) ==
    /\ txs[t].pc = "sign"
    /\ IF Exists(KeyOf(t))
       THEN /\ txs' = [txs EXCEPT ![t].pc = "read",
                                  ![t].guest = @ \/ dirs[KeyOf(t)] # t]
            /\ Appear(File(t, "owner"))
       ELSE Move(t, "unsign") /\ UNCHANGED <<files, old>>
    /\ UNCHANGED <<dirs, tasks, faults>>

\* rmdir removes only an empty directory.
Empty(key) == In(key) = {}
RemoveDirectory(key) ==
    dirs' = IF Empty(key) THEN [dirs EXCEPT ![key] = None] ELSE dirs

Unsign(t) ==
    /\ txs[t].pc = "unsign"
    /\ RemoveDirectory(KeyOf(t))
    /\ Move(t, "claim")
    /\ UNCHANGED <<files, old, tasks, faults>>

----------------------------------------------------------------------------
(* The directory was there: what is stale in it is removed.                *)

\* One file keeps the lock: it is there, its process lives, its time is new.
Keeps(f) == f \in files \ old /\ ~Dead(f.tx)

\* stat of one file
Ask(t) ==
    /\ txs[t].pc = "ask"
    /\ \/ \E f \in txs[t].ask :
            txs' = IF Keeps(f)
                   THEN [txs EXCEPT ![t].pc = "retry", ![t].ask = {},
                                    ![t].found = {}]
                   ELSE [txs EXCEPT ![t].ask = @ \ {f}]
       \/ txs[t].ask = {} /\ Move(t, "sweep")
    /\ UNCHANGED <<dirs, files, old, tasks, faults>>

\* unlink or rmdir of one entry that was found; a fence goes after its mark,
\* and stays if another mark is in it by now
Removable(t, f) == f.kind = "fence" => File(f.tx, "held") \notin txs[t].found
Goes(f) == f.kind = "fence" => File(f.tx, "held") \notin files

Sweep(t) ==
    /\ txs[t].pc = "sweep"
    /\ \E f \in txs[t].found :
        /\ Removable(t, f)
        /\ txs' = [txs EXCEPT ![t].found = @ \ {f}]
        /\ Vanish(IF Goes(f) THEN {f} ELSE {})
    /\ UNCHANGED <<dirs, tasks, faults>>

Swept(t) ==
    /\ txs[t].pc = "sweep"
    /\ txs[t].found = {}
    /\ RemoveDirectory(KeyOf(t))
    /\ Move(t, "retry")
    /\ UNCHANGED <<files, old, tasks, faults>>

\* It tries again, until its time is over.
TimeOut(t) ==
    /\ txs[t].pc = "retry"
    /\ End(t, "timeout", "ended")
    /\ UNCHANGED <<dirs, files, old, tasks, faults>>

----------------------------------------------------------------------------
(* The lock is held.                                                       *)

\* The tasks of that name, in the whole project
Named(name) == {i \in Ids : tasks[i] # None /\ tasks[i].name = name}

\* A creation looks for its request, and then for its name.
Decided(job) ==
    CASE job.kind = "update" -> None
      [] job.kind = "create" /\ tasks[job.id] # None ->
           IF tasks[job.id].name = job.name THEN "replayed" ELSE "conflict"
      [] OTHER -> IF Named(job.name) = {} THEN None ELSE "conflict"

Read(t) ==
    /\ txs[t].pc = "read"
    /\ LET answer == Decided(txs[t].job)
       IN txs' = [txs EXCEPT ![t].saw = tasks[txs[t].job.id],
                             ![t].answer = answer,
                             ![t].pc = IF answer = None THEN "fence"
                                       ELSE "release"]
    /\ UNCHANGED <<dirs, files, old, tasks, faults>>

\* What the caller makes of the record is refused, by it or by the store.
Refuse(t) ==
    /\ txs[t].pc = "fence"
    /\ txs[t].job.kind = "update"
    /\ End(t, "refused", "release")
    /\ UNCHANGED <<dirs, files, old, tasks, faults>>

\* A lease has run out, or somebody found that it had.
Forfeited(t) ==
    \/ File(t, "owner") \in old
    \/ \E u \in Transactions :
         File(t, "owner") \in txs[u].found \ txs[u].ask

\* mkdir of the fence; late is kept for the properties only
MakeFence(t) ==
    /\ txs[t].pc = "fence"
    /\ IF Exists(KeyOf(t))
       THEN /\ txs' = [txs EXCEPT ![t].pc = "mark",
                                  ![t].late = @ \/ Forfeited(t)]
            /\ Appear(File(t, "fence"))
       ELSE End(t, "lost", "release") /\ UNCHANGED <<files, old>>
    /\ UNCHANGED <<dirs, tasks, faults>>

WriteMark(t) ==
    /\ txs[t].pc = "mark"
    /\ IF File(t, "fence") \in files
       THEN Move(t, "own") /\ Appear(File(t, "held"))
       ELSE End(t, "lost", "unmark") /\ UNCHANGED <<files, old>>
    /\ UNCHANGED <<dirs, tasks, faults>>

\* Mutant: only the heartbeat tells that the lock is lost.
NotToldLost(t) == ~txs[t].lost
\* assertOwned: the heartbeat has not failed, and the owner file is there
IsOwned(t) == ~txs[t].lost /\ File(t, "owner") \in files

\* Mutant: who has lost the lock leaves at once.
AssertOrRelease(t) ==
    /\ txs[t].pc = "own"
    /\ IF IsOwned(t) THEN Move(t, "write") ELSE End(t, "lost", "release")
    /\ UNCHANGED <<dirs, files, old, tasks, faults>>
AssertOwned(t) ==
    /\ txs[t].pc = "own"
    /\ IF IsOwned(t) THEN Move(t, "write") ELSE End(t, "lost", "unmark")
    /\ UNCHANGED <<dirs, files, old, tasks, faults>>

\* The new file is moved over the old one, or linked where none may be.
Write(t) ==
    /\ txs[t].pc = "write"
    /\ LET job == txs[t].job
           free == job.kind = "update" \/ tasks[job.id] = None
           name == IF job.kind = "update" THEN txs[t].saw.name ELSE job.name
       IN IF free
          THEN /\ tasks' = [tasks EXCEPT ![job.id] =
                              [name |-> name, by |-> t]]
               /\ End(t, "done", "unmark")
          ELSE Move(t, "winner") /\ UNCHANGED tasks
    /\ UNCHANGED <<dirs, files, old, faults>>

\* A creation finds that another made its task: it reads that one.
ReadWinner(t) ==
    /\ txs[t].pc = "winner"
    /\ txs' = [txs EXCEPT ![t].answer = Decided(txs[t].job),
                          ![t].pc = "unmark"]
    /\ UNCHANGED <<dirs, files, old, tasks, faults>>

\* The fence is taken down, whatever happened behind it.
Unmark(t) ==
    /\ txs[t].pc = "unmark"
    /\ Vanish({File(t, "held")})
    /\ Move(t, "unfence")
    /\ UNCHANGED <<dirs, tasks, faults>>

Unfence(t) ==
    /\ txs[t].pc = "unfence"
    /\ Vanish({File(t, "fence")})
    /\ Move(t, "release")
    /\ UNCHANGED <<dirs, tasks, faults>>

Release(t) ==
    /\ txs[t].pc = "release"
    /\ Vanish({File(t, "owner")})
    /\ Move(t, "leave")
    /\ UNCHANGED <<dirs, tasks, faults>>

Leave(t) ==
    /\ txs[t].pc = "leave"
    /\ RemoveDirectory(KeyOf(t))
    /\ Move(t, "ended")
    /\ UNCHANGED <<files, old, tasks, faults>>

----------------------------------------------------------------------------
\* utimes of the owner file, every now and then
Heartbeat(t) ==
    /\ txs[t].pc \in Owns
    /\ IF File(t, "owner") \in files
       THEN /\ File(t, "owner") \in old
            /\ old' = old \ {File(t, "owner")}
            /\ UNCHANGED txs
       ELSE /\ ~txs[t].lost
            /\ txs' = [txs EXCEPT ![t].lost = TRUE]
            /\ UNCHANGED old
    /\ UNCHANGED <<dirs, files, tasks, faults>>

\* A process does nothing for longer than a lease.
Expire(t) ==
    /\ txs[t].pc \in Owns
    /\ ~(FilesOf(t) \subseteq old)
    /\ faults < MaxFaults
    /\ faults' = faults + 1
    /\ old' = old \cup {f \in FilesOf(t) : f.kind # "fence"}
    /\ txs' = [txs EXCEPT ![t].late = @ \/ txs[t].pc \in Fenced]
    /\ UNCHANGED <<dirs, files, tasks>>

\* The process of a store dies, and all its transactions with it.
Crash(s) ==
    /\ \E t \in Transactions : txs[t].store = s /\ ~Ended(t)
    /\ faults < MaxFaults
    /\ faults' = faults + 1
    /\ txs' = [t \in Transactions |->
                 IF txs[t].store = s /\ ~Ended(t)
                 THEN [txs[t] EXCEPT !.pc = "dead", !.found = {}, !.ask = {}]
                 ELSE txs[t]]
    /\ UNCHANGED <<dirs, files, old, tasks>>

\* What a transaction does next, but for its caller's refusal and the clock.
Step(t) ==
    \/ Claim(t) \/ Sign(t) \/ Unsign(t)
    \/ Ask(t) \/ Sweep(t) \/ Swept(t)
    \/ Read(t)
    \/ MakeFence(t) \/ WriteMark(t) \/ AssertOwned(t) \/ Write(t)
    \/ ReadWinner(t) \/ Unmark(t) \/ Unfence(t)
    \/ Release(t) \/ Leave(t)

Next ==
    \/ \E t \in Transactions :
         Begin(t) \/ Step(t) \/ Refuse(t) \/ TimeOut(t) \/ Heartbeat(t)
         \/ Expire(t)
    \/ \E s \in Stores : Crash(s)

Spec == Init /\ [][Next]_vars

----------------------------------------------------------------------------
\* A file is in a lock directory that is there, and only such files are old.
TypeOK ==
    /\ files \subseteq Files
    /\ old \subseteq files
    /\ dirs \in [Keys -> Transactions \cup {None}]
    /\ \A f \in files : Exists(KeyOf(f.tx))

\* Nobody signed in a directory that another made, and nobody's lease ran
\* out, as others could see, while it was at its fence.
InTime == \A t \in Transactions : ~txs[t].guest /\ ~txs[t].late

\* What a writer has read still holds when it writes, however many processes
\* break the lock, die, or are too slow before their fence: an update
\* replaces the record it read, and a creation brings a name that no task of
\* the project has (transact and createWithResult of video-task-store.ts).
WritesBuildOnFile ==
    [][\A i \in Ids : tasks'[i] # tasks[i] /\ InTime =>
         /\ txs[tasks'[i].by].saw = tasks[i]
         /\ Named(tasks'[i].name) \subseteq {i}]_tasks

\* A transaction that ended, by whatever error, left none of its files: one
\* that stays behind, of a process that lives, would lock the task for a
\* lease (#acquireFileLock, withWriteFence and release).
EndedLeavesNothing ==
    TypeOK /\ \A f \in files : txs[f.tx].pc # "ended"

\* "concurrent stores safely recover empty ... lock directories"
\* (video-task-store.test.ts:1774): of updates that read the same record one
\* is kept and the others are refused, so every write replaces what its
\* writer has read.
RecoversSafely ==
    [][\A i \in Ids :
         tasks'[i] # tasks[i] => txs[tasks'[i].by].saw = tasks[i]]_tasks
============================================================================
