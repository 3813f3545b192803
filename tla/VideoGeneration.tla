--------------------------- MODULE VideoGeneration ---------------------------
(***************************************************************************)
(* The runtime behind "generate a real video": VideoGenerationRuntime with *)
(* the account run lock, the account budget and the job store it drives.   *)
(*                                                                         *)
(* Every HTTP request is a process of Procs.  A step of a process is one   *)
(* awaited store or provider call together with the local code up to the   *)
(* next await; between two steps any other request may run, and a crash    *)
(* may end any set of requests while everything persisted stays.           *)
(*                                                                         *)
(* start() draws three UUIDs: for the run lock, the reservation and the    *)
(* job.  Each belongs to one call, so the model has one number, an         *)
(* operation, for the three.  Operations are numbered in creation order.   *)
(***************************************************************************)
EXTENDS Integers, FiniteSets, Sequences

CONSTANTS
    Accounts,        \* creator accounts of one tenant
    Tasks,           \* video tasks
    Requests,        \* request ids chosen by clients
    Shots,           \* shot indices of the storyboard plan
    Procs,           \* HTTP requests that may be in flight together
    Price,           \* amountMinor of the server's quote for one shot
    Limits,          \* limits an administrator may configure
    None,            \* absent account, task or request
    MaxOps,          \* bound: run locks ever acquired
    MaxTaskRevision, \* bound: revisions of a task
    MaxRevision,     \* bound: polls that find a job still running
    MaxCrashes,      \* bound: crashes of a server process
    MaxFaults,       \* bound: failing store calls
    MaxLost          \* bound: provider answers lost after acceptance

ASSUME Parameters ==
    /\ None \notin Accounts \cup Tasks \cup Requests
    /\ Shots \subseteq Nat /\ IsFiniteSet(Shots) /\ Shots # {}
    /\ Price \in Nat \ {0} /\ Limits \subseteq Nat
    /\ {MaxOps, MaxTaskRevision, MaxRevision, MaxCrashes, MaxFaults, MaxLost}
         \subseteq Nat

VARIABLES
    versions,    \* history of each task; the revision is its length
    runLock,     \* account -> operation holding the slot, 0 when free
    limit,       \* account -> configured budget limit
    account,     \* operation -> account stamped on its lock and reservation
    reservation, \* operation -> what the ledger says of its reservation
    record,      \* operation -> persisted generation job
    job,         \* operation -> the job as the provider sees it
    audit,       \* operation -> persisted request audit outcome
    nextOp,      \* next unused identifier
    pc, call, cur, answer, \* per request: label, arguments, loaded copy, reply
    crashes, faults, lost  \* how much of each bound is used

stores == <<versions, runLock, limit, account, reservation, record, job, audit,
            nextOp>>
bounds == <<crashes, faults, lost>>
vars == <<stores, pc, call, cur, answer, bounds>>

Ops == 1..MaxOps
Free == 0
Terminal == {"succeeded", "failed"}

Labels == {"idle", "replay", "acquire", "reserve", "create", "dup_budget",
           "dup_lock", "submit", "fetch", "settle", "unlock", "save", "audit",
           "undo_budget", "undo_lock", "undo_record", "undo_audit",
           "list", "render", "compose_save", "compose_release"}

\* What a task version decides: who may operate it and whether a confirmed
\* storyboard with locked inputs is in force.
Version == [owner: Accounts, ready: BOOLEAN]

NoRecord == [status |-> "none", actor |-> None, task |-> None,
             request |-> None, shot |-> 0, source |-> 0, known |-> FALSE,
             composite |-> None, revision |-> 0]

\* "pending" stands for queued and running, "failed" for failed and cancelled.
\* known: providerJobId is the provider's own id, no longer the idempotency
\* key the job was created with.
Record == [status: {"none", "pending"} \cup Terminal,
           actor: Accounts \cup {None}, task: Tasks \cup {None},
           request: Requests \cup {None}, shot: Nat,
           source: Nat, known: BOOLEAN,
           composite: Requests \cup {None}, revision: Nat]

NoCall == [kind |-> "none", account |-> None, task |-> None,
           request |-> None, shot |-> 0, revision |-> 0, op |-> 0,
           target |-> 0, created |-> FALSE]

Call == [kind: {"none", "start", "poll", "compose"},
         account: Accounts \cup {None}, task: Tasks \cup {None},
         request: Requests \cup {None}, shot: Nat, revision: Nat,
         op: 0..MaxOps, target: 0..MaxOps, created: BOOLEAN]
-----------------------------------------------------------------------------
Revision(t) == Len(versions[t])
StaleVersion(t) == versions[t][1]
CurrentVersion(t) == versions[t][Revision(t)]

OfAccount(a, state) == {o \in Ops : account[o] = a /\ reservation[o] = state}

\* calculateAccountBudgetBalance over the ledger of account a: what is spent
\* and reserved, and what the limit leaves.
Spent(a) == Price * Cardinality(OfAccount(a, "charged"))
Reserved(a) == Price * Cardinality(OfAccount(a, "held"))
AvailableIgnoringReserved(a) == limit[a] - Spent(a)
Available(a) == limit[a] - Spent(a) - Reserved(a)

\* VideoGenerationStore.loadByRequest, keyed by actor and request id.
PendingByRequest(a, r) ==
    {o \in Ops : record[o].status = "pending" /\ record[o].actor = a
                                             /\ record[o].request = r}
ByRequest(a, r) ==
    {o \in Ops : record[o].status # "none" /\ record[o].actor = a
                                           /\ record[o].request = r}

\* The newest succeeded generation of each shot, and the last shot's: the
\* record a composition is attached to.
SucceededShots(t) ==
    {o \in Ops : record[o].task = t /\ record[o].status = "succeeded"}
ShotsReady(t) == \A s \in Shots : \E o \in SucceededShots(t) : record[o].shot = s
CompositionTarget(t, o) ==
    /\ o \in SucceededShots(t)
    /\ \A s \in Shots : s <= record[o].shot
    /\ \A q \in SucceededShots(t) : record[q].shot = record[o].shot => q <= o
-----------------------------------------------------------------------------
Goto(p, label) == pc' = [pc EXCEPT ![p] = label]

\* A request that returns or rethrows forgets its locals.
Finish(p) ==
    /\ Goto(p, "idle")
    /\ call' = [call EXCEPT ![p] = NoCall]
    /\ cur' = [cur EXCEPT ![p] = NoRecord]
    /\ answer' = [answer EXCEPT ![p] = "none"]

Continue(p, label) == Goto(p, label) /\ UNCHANGED <<call, cur, answer>>

\* acquireAccountHighCostTaskRunLock: one lock per account.
SlotNeverTaken(a) == TRUE
SlotFree(a) == runLock[a] = Free

\* releaseAccountHighCostTaskRunLock: only the token that holds the lock frees
\* it; no lock is fine, another operation's lock is an error.
Freed(a, o) == [runLock EXCEPT ![a] = IF @ = o THEN Free ELSE @]
MayFree(a, o) == runLock[a] \in {Free, o}

\* The ledger entry a provider outcome is settled with.
SettleAlwaysCharged(outcome) == "charged"
Settlement(outcome) == IF outcome = "succeeded" THEN "charged" ELSE "released"

\* VideoGenerationStore.save compares the revision the caller read.
AlwaysFresh(o, copy) == TRUE
Fresh(o, copy) == record[o].revision = copy.revision

\* The record with the provider's reply applied.  A reply that names no id
\* leaves the providerJobId the record has: after a creation that is the
\* idempotency key, and the job can never be looked up.
Applied(copy, outcome, named) ==
    [copy EXCEPT !.status = outcome, !.known = copy.known \/ named,
                 !.revision = copy.revision + 1]

\* The first compensation of start()'s catch block: the reservation when there
\* is one, then the lock.
CatchWithoutRefund(p) == "undo_lock"
Catch(p) == IF pc[p] = "reserve" THEN "undo_lock" ELSE "undo_budget"

\* Where an exception thrown at the current await takes the request: start()
\* has a catch block that undoes the budget, the lock and the record, each
\* undo ignoring its own failure; compose() releases its lock in finally; any
\* other request ends.
InTry(p) ==
    /\ call[p].kind = "start"
    /\ pc[p] \in {"reserve", "create", "dup_budget", "dup_lock", "submit",
                  "settle", "unlock", "save", "audit"}
HandledWithoutFinally(p) ==
    \/ InTry(p)
    \/ pc[p] = "undo_budget"
    \/ pc[p] = "undo_lock" /\ call[p].created
Handled(p) ==
    \/ InTry(p)
    \/ pc[p] \in {"undo_budget", "render", "compose_save"}
    \/ pc[p] = "undo_lock" /\ call[p].created
Throw(p) ==
    \/ InTry(p) /\ Continue(p, Catch(p))
    \/ pc[p] = "undo_budget" /\ Continue(p, "undo_lock")
    \/ pc[p] = "undo_lock" /\ call[p].created /\ Continue(p, "undo_record")
    \/ pc[p] \in {"render", "compose_save"} /\ Continue(p, "compose_release")
    \/ ~Handled(p) /\ Finish(p)

Init ==
    /\ versions \in [Tasks -> {<<v>> : v \in Version}]
    /\ limit \in [Accounts -> Limits]
    /\ runLock = [a \in Accounts |-> Free]
    /\ account = [o \in Ops |-> None]
    /\ reservation = [o \in Ops |-> "none"]
    /\ record = [o \in Ops |-> NoRecord]
    /\ job = [o \in Ops |-> "none"]
    /\ audit = [o \in Ops |-> "none"]
    /\ nextOp = 1
    /\ pc = [p \in Procs |-> "idle"]
    /\ call = [p \in Procs |-> NoCall]
    /\ cur = [p \in Procs |-> NoRecord]
    /\ answer = [p \in Procs |-> "none"]
    /\ crashes = 0 /\ faults = 0 /\ lost = 0
-----------------------------------------------------------------------------
(* start(): from authorization to the persisted job.                       *)

\* Authorized as the owner, at the revision the client names, with the
\* storyboard confirmed and the inputs locked; other calls return an error
\* and change nothing.
BeginStart(p) ==
    /\ pc[p] = "idle" /\ nextOp \in Ops
    /\ \E t \in Tasks, r \in Requests, s \in Shots :
        /\ CurrentVersion(t).ready
        /\ call' = [call EXCEPT ![p] =
             [NoCall EXCEPT !.kind = "start", !.task = t, !.request = r,
                            !.account = CurrentVersion(t).owner, !.shot = s,
                            !.revision = Revision(t)]]
    /\ Goto(p, "replay")
    /\ UNCHANGED <<stores, cur, answer, bounds>>

\* A job already persisted for the request: answered from the record when the
\* input is the same (a terminal one is audited again), refused otherwise.
ReplayRequest(p) ==
    /\ pc[p] = "replay"
    /\ LET found == ByRequest(call[p].account, call[p].request)
       IN  \/ /\ found = {}
              /\ Continue(p, "acquire")
           \/ \E o \in found :
                IF /\ record[o].status \in Terminal
                   /\ record[o].task = call[p].task
                   /\ record[o].source = call[p].revision
                   /\ record[o].shot = call[p].shot
                THEN /\ Goto(p, "audit")
                     /\ call' = [call EXCEPT ![p] =
                                   [NoCall EXCEPT !.kind = "poll", !.op = o]]
                     /\ cur' = [cur EXCEPT ![p] = record[o]]
                     /\ UNCHANGED answer
                ELSE Finish(p)
    /\ UNCHANGED <<stores, bounds>>

\* One slot per account.  The owner check uses the task as it was read.
AcquireRunLock(p) ==
    /\ pc[p] = "acquire"
    /\ SlotFree(call[p].account) /\ nextOp \in Ops
    /\ runLock' = [runLock EXCEPT ![call[p].account] = nextOp]
    /\ account' = [account EXCEPT ![nextOp] = call[p].account]
    /\ call' = [call EXCEPT ![p].op = nextOp]
    /\ nextOp' = nextOp + 1
    /\ Goto(p, IF call[p].kind = "start" THEN "reserve" ELSE "render")
    /\ UNCHANGED <<versions, limit, reservation, record, job, audit, cur,
                   answer, bounds>>

\* AccountHighCostTaskRunningError.  (Running out of identifiers, a bound of
\* the model, is answered the same way.)
RejectBusy(p) ==
    /\ pc[p] = "acquire"
    /\ ~SlotFree(call[p].account) \/ nextOp \notin Ops
    /\ Finish(p)
    /\ UNCHANGED <<stores, bounds>>

\* reserveForOperation: priced by the server, refused when the balance does
\* not cover it; the refusal releases the lock just taken.
ReserveBudget(p) ==
    /\ pc[p] = "reserve"
    /\ IF Available(call[p].account) >= Price
       THEN /\ reservation' = [reservation EXCEPT ![call[p].op] = "held"]
            /\ Continue(p, "create")
       ELSE Throw(p) /\ UNCHANGED reservation
    /\ UNCHANGED <<versions, runLock, limit, account, record, job, audit,
                   nextOp, bounds>>

\* The job start() builds from its arguments.
NewRecord(c) ==
    [status |-> "pending", actor |-> c.account, task |-> c.task,
     request |-> c.request, shot |-> c.shot, source |-> c.revision,
     known |-> FALSE, composite |-> None, revision |-> 1]

\* jobs.create: the unique key (actor, request) returns the job an earlier
\* call persisted, and this call then gives everything back.
CreateRecord(p) ==
    /\ pc[p] = "create"
    /\ IF ByRequest(call[p].account, call[p].request) = {}
       THEN /\ record' = [record EXCEPT ![call[p].op] = NewRecord(call[p])]
            /\ cur' = [cur EXCEPT ![p] = NewRecord(call[p])]
            /\ call' = [call EXCEPT ![p].created = TRUE]
            /\ Goto(p, "submit")
            /\ UNCHANGED answer
       ELSE Continue(p, "dup_budget") /\ UNCHANGED record
    /\ UNCHANGED <<versions, runLock, limit, account, reservation, job, audit,
                   nextOp, bounds>>

\* The job of an earlier call was returned: give back the reservation, then
\* the lock, inside the try block.
ReturnReservation(p) ==
    /\ pc[p] = "dup_budget"
    /\ IF reservation[call[p].op] = "held"
       THEN /\ reservation' = [reservation EXCEPT ![call[p].op] = "released"]
            /\ Continue(p, "dup_lock")
       ELSE Throw(p) /\ UNCHANGED reservation
    /\ UNCHANGED <<versions, runLock, limit, account, record, job, audit,
                   nextOp, bounds>>

ReturnRunLock(p) ==
    /\ pc[p] = "dup_lock"
    /\ IF MayFree(call[p].account, call[p].op)
       THEN runLock' = Freed(call[p].account, call[p].op) /\ Finish(p)
       ELSE Throw(p) /\ UNCHANGED runLock
    /\ UNCHANGED <<versions, limit, account, reservation, record, job, audit,
                   nextOp, bounds>>

\* provider.createGeneration: accepted with a first status, refused, or
\* accepted with the answer lost (a broken connection, an invalid body, an
\* output that cannot be imported).
SubmitJob(p) ==
    /\ pc[p] = "submit"
    /\ \/ \E st \in {"pending"} \cup Terminal, said \in {"pending"} \cup Terminal :
            /\ said \in {st, IF st = "succeeded" THEN "failed" ELSE st}
            /\ job' = [job EXCEPT ![call[p].op] = st]
            /\ answer' = [answer EXCEPT ![p] = said]
            /\ Goto(p, IF said = "pending" THEN "save" ELSE "settle")
            /\ UNCHANGED <<call, cur, lost>>
       \/ Throw(p) /\ UNCHANGED <<job, lost>>
       \/ /\ lost < MaxLost /\ lost' = lost + 1
          /\ job' = [job EXCEPT ![call[p].op] = "pending"]
          /\ Throw(p)
    /\ UNCHANGED <<versions, runLock, limit, account, reservation, record,
                   audit, nextOp, crashes, faults>>
-----------------------------------------------------------------------------
(* #applyProviderJob, shared by start() and the polls: settle, unlock, save *)
(* with a compare-and-swap on the revision, audit.                         *)

SettleBudget(p) ==
    /\ pc[p] = "settle"
    /\ IF reservation[call[p].op] = "held"
       THEN /\ reservation' = [reservation EXCEPT ![call[p].op] =
                   Settlement(answer[p])]
            /\ Continue(p, "unlock")
       ELSE Throw(p) /\ UNCHANGED reservation
    /\ UNCHANGED <<versions, runLock, limit, account, record, job, audit,
                   nextOp, bounds>>

ReleaseRunLock(p) ==
    /\ pc[p] = "unlock"
    /\ LET a == account[call[p].op]
       IN  IF MayFree(a, call[p].op)
           THEN runLock' = Freed(a, call[p].op) /\ Continue(p, "save")
           ELSE Throw(p) /\ UNCHANGED runLock
    /\ UNCHANGED <<versions, limit, account, reservation, record, job, audit,
                   nextOp, bounds>>

SaveRecord(p) ==
    /\ pc[p] = "save"
    /\ \E named \in BOOLEAN :
         LET o == call[p].op
             next == Applied(cur[p], answer[p], named)
         IN  IF Fresh(o, cur[p])
             THEN /\ record' = [record EXCEPT ![o] = next]
                  /\ IF next.status \in Terminal
                     THEN /\ Goto(p, "audit")
                          /\ cur' = [cur EXCEPT ![p] = next]
                          /\ UNCHANGED <<call, answer>>
                     ELSE Finish(p)
             ELSE Throw(p) /\ UNCHANGED record
    /\ UNCHANGED <<versions, runLock, limit, account, reservation, job, audit,
                   nextOp, bounds>>

\* #auditTerminal: written once, replayed when equal, refused otherwise.
AuditTerminal(p) ==
    /\ pc[p] \in {"audit", "undo_audit"}
    /\ LET o == call[p].op
       IN  IF audit[o] \in {"none", cur[p].status}
           THEN audit' = [audit EXCEPT ![o] = cur[p].status] /\ Finish(p)
           ELSE Throw(p) /\ UNCHANGED audit
    /\ UNCHANGED <<versions, runLock, limit, account, reservation, record,
                   job, nextOp, bounds>>

(* The catch block of start(): each of its three undo calls swallows its   *)
(* own failure.                                                            *)
UndoBudget(p) ==
    /\ pc[p] = "undo_budget"
    /\ reservation' = [reservation EXCEPT ![call[p].op] =
                          IF @ = "held" THEN "released" ELSE @]
    /\ Continue(p, "undo_lock")
    /\ UNCHANGED <<versions, runLock, limit, account, record, job, audit,
                   nextOp, bounds>>

UndoLock(p) ==
    /\ pc[p] = "undo_lock"
    /\ runLock' = Freed(call[p].account, call[p].op)
    /\ IF call[p].created THEN Continue(p, "undo_record") ELSE Finish(p)
    /\ UNCHANGED <<versions, limit, account, reservation, record, job, audit,
                   nextOp, bounds>>

\* The record as start() created it, at revision 1, becomes a failed one.
UndoRecord(p) ==
    /\ pc[p] = "undo_record"
    /\ LET o == call[p].op
           failed == [record[o] EXCEPT !.status = "failed", !.revision = 2]
       IN  IF record[o].revision = 1
           THEN /\ record' = [record EXCEPT ![o] = failed]
                /\ cur' = [cur EXCEPT ![p] = failed]
                /\ Goto(p, "undo_audit")
                /\ UNCHANGED <<call, answer>>
           ELSE Finish(p) /\ UNCHANGED record
    /\ UNCHANGED <<versions, runLock, limit, account, reservation, job, audit,
                   nextOp, bounds>>
-----------------------------------------------------------------------------
(* get() and latest(): anyone who may view the task polls the provider.    *)

BeginPoll(p, o) ==
    /\ pc[p] = "idle"
    /\ record[o].status # "none"
    /\ call' = [call EXCEPT ![p] = [NoCall EXCEPT !.kind = "poll", !.op = o]]
    /\ cur' = [cur EXCEPT ![p] = record[o]]
    /\ Goto(p, IF record[o].status \in Terminal THEN "audit" ELSE "fetch")
    /\ UNCHANGED <<stores, answer, bounds>>

\* provider.getGeneration answers for its own job ids; a success without an
\* importable output is recorded as a failure.  A fetch may always fail
\* instead, and nothing says that one of several succeeds.
FetchJob(p, o) ==
    /\ pc[p] = "fetch" /\ call[p].op = o
    /\ cur[p].known /\ job[o] # "none"
    /\ job[o] = "pending" => cur[p].revision < MaxRevision
    /\ \E said \in {job[o], IF job[o] = "succeeded" THEN "failed" ELSE job[o]} :
         /\ answer' = [answer EXCEPT ![p] = said]
         /\ Goto(p, IF said = "pending" THEN "save" ELSE "settle")
    /\ UNCHANGED <<stores, call, cur, bounds>>

\* The lookup or the import of the output fails, however often it is tried
\* (a film without sound is refused each time); the idempotency key of a job
\* whose creation was answered without an id, or not at all, is not an id the
\* provider knows.
FetchFails(p) ==
    /\ pc[p] = "fetch"
    /\ Finish(p)
    /\ UNCHANGED <<stores, bounds>>
-----------------------------------------------------------------------------
(* compose(): one film from the newest successful generation of every shot. *)

BeginCompose(p) ==
    /\ pc[p] = "idle" /\ nextOp \in Ops
    /\ \E t \in Tasks, r \in Requests :
        /\ CurrentVersion(t).ready
        /\ call' = [call EXCEPT ![p] =
             [NoCall EXCEPT !.kind = "compose", !.task = t, !.request = r,
                            !.account = CurrentVersion(t).owner,
                            !.revision = Revision(t)]]
    /\ Goto(p, "list")
    /\ UNCHANGED <<stores, cur, answer, bounds>>

ListShots(p) ==
    /\ pc[p] = "list"
    /\ LET t == call[p].task
           replayed == \E o \in Ops : /\ record[o].task = t
                                      /\ record[o].composite = call[p].request
       IN  IF replayed \/ ~ShotsReady(t)
           THEN Finish(p)
           ELSE \E o \in Ops :
                  /\ CompositionTarget(t, o)
                  /\ call' = [call EXCEPT ![p].target = o]
                  /\ cur' = [cur EXCEPT ![p] = record[o]]
                  /\ Goto(p, "acquire")
                  /\ UNCHANGED answer
    /\ UNCHANGED <<stores, bounds>>

Render(p) ==
    /\ pc[p] = "render"
    /\ Continue(p, "compose_save") \/ Throw(p)
    /\ UNCHANGED <<stores, bounds>>

SaveComposite(p) ==
    /\ pc[p] = "compose_save"
    /\ LET o == call[p].target
       IN  IF Fresh(o, cur[p])
           THEN /\ record' = [record EXCEPT ![o] =
                     [cur[p] EXCEPT !.composite = call[p].request,
                                    !.revision = cur[p].revision + 1]]
                /\ Continue(p, "compose_release")
           ELSE Throw(p) /\ UNCHANGED record
    /\ UNCHANGED <<versions, runLock, limit, account, reservation, job, audit,
                   nextOp, bounds>>

ReleaseComposeLock(p) ==
    /\ pc[p] = "compose_release"
    /\ runLock' = Freed(call[p].account, call[p].op)
    /\ Finish(p)
    /\ UNCHANGED <<versions, limit, account, reservation, record, job, audit,
                   nextOp, bounds>>
-----------------------------------------------------------------------------
(* The environment.                                                        *)

\* A store call fails without effect and its await throws.
StoreFails(p) ==
    /\ pc[p] \notin {"idle", "submit", "fetch", "render"}
    /\ faults < MaxFaults /\ faults' = faults + 1
    /\ Throw(p)
    /\ UNCHANGED <<stores, crashes, lost>>

\* A server process dies: the requests it served vanish, the stores stay.
Crash ==
    /\ crashes < MaxCrashes /\ crashes' = crashes + 1
    /\ \E dead \in (SUBSET {p \in Procs : pc[p] # "idle"}) \ {{}} :
        /\ pc' = [p \in Procs |-> IF p \in dead THEN "idle" ELSE pc[p]]
        /\ call' = [p \in Procs |-> IF p \in dead THEN NoCall ELSE call[p]]
        /\ cur' = [p \in Procs |-> IF p \in dead THEN NoRecord ELSE cur[p]]
        /\ answer' = [p \in Procs |-> IF p \in dead THEN "none" ELSE answer[p]]
    /\ UNCHANGED <<stores, faults, lost>>

ProviderFinishes(o) ==
    /\ job[o] = "pending"
    /\ \E st \in Terminal : job' = [job EXCEPT ![o] = st]
    /\ UNCHANGED <<versions, runLock, limit, account, reservation, record,
                   audit, nextOp, pc, call, cur, answer, bounds>>

\* The workflow, a takeover or an assignment writes the next task revision.
TaskChanges(t) ==
    /\ Revision(t) < MaxTaskRevision
    /\ \E v \in Version : versions' = [versions EXCEPT ![t] = Append(@, v)]
    /\ UNCHANGED <<runLock, limit, account, reservation, record, job, audit,
                   nextOp, pc, call, cur, answer, bounds>>

\* An administrator changes a limit, never below what is spent and reserved.
UpdateLimit(a) ==
    /\ \E new \in Limits :
        /\ Spent(a) + Reserved(a) <= new
        /\ limit' = [limit EXCEPT ![a] = new]
    /\ UNCHANGED <<versions, runLock, account, reservation, record, job, audit,
                   nextOp, pc, call, cur, answer, bounds>>
-----------------------------------------------------------------------------
\* What a request does once it was let in, other than asking the provider.
Proceed(p) ==
    \/ ReplayRequest(p) \/ AcquireRunLock(p) \/ RejectBusy(p)
    \/ ReserveBudget(p) \/ CreateRecord(p)
    \/ ReturnReservation(p) \/ ReturnRunLock(p) \/ SubmitJob(p) \/ SettleBudget(p)
    \/ ReleaseRunLock(p) \/ SaveRecord(p) \/ AuditTerminal(p)
    \/ UndoBudget(p) \/ UndoLock(p) \/ UndoRecord(p)
    \/ ListShots(p) \/ Render(p) \/ SaveComposite(p) \/ ReleaseComposeLock(p)

Begin(p) == BeginStart(p) \/ BeginCompose(p) \/ \E o \in Ops : BeginPoll(p, o)
Fetch(p) == FetchFails(p) \/ \E o \in Ops : FetchJob(p, o)

Next ==
    \/ \E p \in Procs : Begin(p) \/ Proceed(p) \/ Fetch(p) \/ StoreFails(p)
    \/ Crash
    \/ \E o \in Ops : ProviderFinishes(o)
    \/ \E t \in Tasks : TaskChanges(t)
    \/ \E a \in Accounts : UpdateLimit(a)

Spec == Init /\ [][Next]_vars

\* A request that was let in runs to its end.  Nothing else is owed: a client
\* stops polling at the first error, when a newer record exists or when its
\* page is closed, an import may fail every time, and a job at the provider
\* need not end.
Fairness == \A p \in Procs : WF_vars(Proceed(p) \/ Fetch(p))

FairSpec == Spec /\ Fairness
-----------------------------------------------------------------------------
TypeOK ==
    /\ versions \in [Tasks -> Seq(Version) \ {<<>>}]
    /\ runLock \in [Accounts -> 0..MaxOps]
    /\ limit \in [Accounts -> Nat]
    /\ account \in [Ops -> Accounts \cup {None}]
    /\ reservation \in [Ops -> {"none", "held", "charged", "released"}]
    /\ record \in [Ops -> Record]
    /\ job \in [Ops -> {"none", "pending"} \cup Terminal]
    /\ audit \in [Ops -> {"none"} \cup Terminal]
    /\ nextOp \in 1..(MaxOps + 1)
    /\ pc \in [Procs -> Labels]
    /\ call \in [Procs -> Call]
    /\ cur \in [Procs -> Record]
    /\ answer \in [Procs -> {"none", "pending"} \cup Terminal]
    /\ crashes \in Nat /\ faults \in Nat /\ lost \in Nat

\* No interleaving, crash or failing store call lets what an account spent and
\* reserved exceed its limit, while an administrator moves the limit.
WithinLimit == \A a \in Accounts : Spent(a) + Reserved(a) <= limit[a]

\* The reservations of an account are an account budget: the steps of every
\* request, undo and retry are steps of the contract or invisible to it.
Budget(a) == INSTANCE BudgetContract
    WITH limit <- limit[a], spent <- Spent(a), reserved <- Reserved(a)
ImplementsBudget ==
    /\ \A a \in Accounts : Budget(a)!Init
    /\ [][\A a \in Accounts : [Budget(a)!Next]_(Budget(a)!vars)]_vars

\* A reservation stays held only while its operation holds the account's run
\* lock, so an account never reserves for two operations at once: every path
\* settles the budget before it frees the slot.  (A failing store call breaks
\* it: the catch block of start() goes on to release the lock.)
HeldReservationHoldsSlot ==
    faults = 0 => \A o \in Ops :
        reservation[o] = "held" => runLock[account[o]] = o

\* What runs for account a: jobs at the provider and compositions.
Running(a) ==
    {o \in Ops : account[o] = a /\ job[o] = "pending"}
      \cup {call[p].op : p \in {q \in Procs : pc[q] = "render"
                                            /\ call[q].account = a}}

\* The run lock serialises the expensive work of an account, over every crash,
\* as long as every answer of the provider arrives.
OneOperationPerAccount ==
    faults = 0 /\ lost = 0 =>
        \A a \in Accounts : Cardinality(Running(a)) <= 1

\* A generation reported or audited as succeeded was charged; one reported or
\* audited as failed gave its reservation back and was not charged.  (And
\* every variable has a value of its kind.)
OutcomeMatchesLedger ==
    TypeOK /\ \A o \in Ops :
        /\ "succeeded" \in {record[o].status, audit[o]} =>
              reservation[o] = "charged"
        /\ faults = 0 /\ "failed" \in {record[o].status, audit[o]} =>
              reservation[o] = "released"

\* Whatever was read before the awaits, a job cites a revision at which its
\* actor owned the task and the storyboard was confirmed.
RecordCitesAuthorizedRevision ==
    \A o \in Ops : record[o].status # "none" =>
        /\ record[o].source \in 1..Revision(record[o].task)
        /\ versions[record[o].task][record[o].source] =
              [owner |-> record[o].actor, ready |-> TRUE]

\* One request of an actor reaches the provider at most once, however often
\* and however concurrently it is sent.
RequestSubmittedOnce ==
    \A o, q \in Ops :
        /\ o # q /\ job[o] # "none" /\ job[q] # "none"
        => <<record[o].actor, record[o].request>> #
           <<record[q].actor, record[q].request>>

\* A terminal job is final: no late poll, replay or undo rewrites its outcome,
\* and an audited outcome is never changed.
TerminalIsFinal ==
    [][\A o \in Ops :
         /\ record[o].status \in Terminal =>
              record'[o].status = record[o].status
         /\ audit[o] # "none" => audit'[o] = audit[o]]_vars

HoldsSlot(o) == \E a \in Accounts : runLock[a] = o
Settled(o) == ~HoldsSlot(o) /\ reservation[o] # "held"

\* A generation only a poll can take further: persisted as pending, with the
\* provider, and the request that started it has ended.
LeftToPolls(o) ==
    /\ record[o].status = "pending" /\ job[o] # "none"
    /\ \A p \in Procs : call[p].kind = "start" => call[p].op # o

\* Without crashes no request keeps what it took: the slot and the reservation
\* of a start or a composition are given back, or belong in the end to a
\* generation left to the polls; and once one request has a terminal answer of
\* the provider in hand, both are settled, whoever polls the job as well and
\* whoever loses the race for saving it.  (That the client polls until then,
\* or that a fetch ever succeeds, is not said: nothing in the code ensures it.)
GenerationSettles ==
    \A o \in Ops :
        /\ HoldsSlot(o) \/ reservation[o] = "held" ~>
              Settled(o) \/ LeftToPolls(o)
        /\ (\E p \in Procs : pc[p] = "settle" /\ call[p].op = o) ~> Settled(o)

(* What the documentation says and the code does not keep.                  *)

\* What an account pays for is delivered: a settled generation is persisted as
\* finished, however its requests overlap.
ChargedIsDelivered ==
    \A o \in Ops :
        reservation[o] = "charged" ~> record[o].status = "succeeded"
=============================================================================
