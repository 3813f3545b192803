------------------------ MODULE VideoGenerationProofs ------------------------
(***************************************************************************)
(* Proofs about VideoGeneration, for any accounts, tasks, requests,        *)
(* processes, limits and bounds, in three parts: the domains of the        *)
(* variables and what the label of a request says of its arguments and its *)
(* copy; the persisted jobs; the money.                                    *)
(***************************************************************************)
EXTENDS VideoGeneration, FiniteSetTheorems, TLAPS

Starting == {"reserve", "create", "dup_budget", "dup_lock", "submit",
             "undo_budget", "undo_lock", "undo_record", "undo_audit"}
Composing == {"render", "compose_save", "compose_release"}
Applying == {"settle", "unlock", "save"}

\* What the label of a request says of its arguments, copy and answer.
LabelOK(p) ==
    /\ pc[p] = "idle" => call[p] = NoCall /\ cur[p] = NoRecord
    /\ call[p].kind \in {"start", "compose"} => call[p].account \in Accounts
    /\ pc[p] \in {"replay", "acquire", "list"} => call[p].op = 0
    /\ pc[p] = "replay" => call[p].kind = "start"
    /\ pc[p] = "list" => call[p].kind = "compose"
    /\ pc[p] = "acquire" => call[p].kind \in {"start", "compose"}
    /\ pc[p] \in Starting =>
          call[p].kind = "start" /\ call[p].op \in Ops
    /\ pc[p] \in Composing => call[p].kind = "compose" /\ call[p].op \in Ops
    /\ pc[p] = "fetch" => call[p].kind = "poll" /\ call[p].op \in Ops
    /\ pc[p] \in Applying \cup {"audit"} =>
          call[p].kind \in {"start", "poll"} /\ call[p].op \in Ops
    /\ pc[p] \in {"replay", "list", "acquire", "reserve", "create",
                  "dup_budget", "dup_lock"} => ~call[p].created
    /\ pc[p] \in {"submit", "undo_record", "undo_audit"} => call[p].created
    /\ pc[p] \in Applying \cup {"audit"} /\ call[p].kind = "start" =>
          call[p].created
    /\ pc[p] \in Applying => answer[p] # "none"
    /\ pc[p] \in {"settle", "unlock"} => answer[p] \in Terminal
    /\ pc[p] \in Applying \cup {"submit", "fetch"} => cur[p].status = "pending"
    /\ pc[p] \in {"audit", "undo_audit"} => cur[p].status \in Terminal
    /\ pc[p] \in Composing \cup {"acquire"} /\ call[p].kind = "compose" =>
          cur[p].status = "succeeded"

-----------------------------------------------------------------------------
(* Types.                                                                  *)

LocalsOK ==
    /\ pc \in [Procs -> Labels]
    /\ call \in [Procs -> Call]
    /\ cur \in [Procs -> Record]
    /\ answer \in [Procs -> {"none", "pending"} \cup Terminal]

\* What the assumption says of the bound and the price.
LEMMA BoundTypes == MaxOps \in Nat /\ Price \in Nat /\ Price # 0
  BY Parameters

\* An idle request has well-typed arguments.
LEMMA NoCallType == NoCall \in Call
  BY BoundTypes DEF NoCall, Call

\* The arguments of a poll are well typed.
LEMMA PollCallType ==
    ASSUME NEW o \in Ops
    PROVE  [NoCall EXCEPT !.kind = "poll", !.op = o] \in Call
<1>1. o \in 0..MaxOps
  BY BoundTypes DEF Ops
<1> QED BY <1>1, NoCallType DEF Call

\* So are those of a generation,
LEMMA StartCallType ==
    ASSUME NEW t \in Tasks, NEW r \in Requests, NEW a \in Accounts,
           NEW s \in Nat, NEW v \in Nat
    PROVE  [NoCall EXCEPT !.kind = "start", !.task = t, !.request = r,
                          !.account = a, !.shot = s, !.revision = v] \in Call
  BY NoCallType DEF Call

\* and those of a composition.
LEMMA ComposeCallType ==
    ASSUME NEW t \in Tasks, NEW r \in Requests, NEW a \in Accounts, NEW v \in Nat
    PROVE  [NoCall EXCEPT !.kind = "compose", !.task = t, !.request = r,
                          !.account = a, !.revision = v] \in Call
  BY NoCallType DEF Call

\* The absent record is a record.
LEMMA NoRecordType == NoRecord \in Record
  BY DEF NoRecord, Record

\* Returning keeps the locals of every request well typed.
LEMMA FinishType ==
    ASSUME LocalsOK, NEW p \in Procs, Finish(p)
    PROVE  LocalsOK'
<1>1. pc' \in [Procs -> Labels]
  BY DEF Finish, Goto, LocalsOK, Labels
<1>2. call' \in [Procs -> Call]
  BY NoCallType DEF Finish, LocalsOK
<1>3. cur' \in [Procs -> Record]
  BY NoRecordType DEF Finish, LocalsOK
<1> QED BY <1>1, <1>2, <1>3 DEF Finish, LocalsOK

\* So does going on to another label,
LEMMA ContinueType ==
    ASSUME LocalsOK, NEW p \in Procs, NEW l \in Labels, Continue(p, l)
    PROVE  LocalsOK'
BY DEF Continue, Goto, LocalsOK

\* and so does an exception, wherever it is caught.
LEMMA ThrowType ==
    ASSUME LocalsOK, NEW p \in Procs, Throw(p)
    PROVE  LocalsOK'
<1>1. \/ Finish(p)
      \/ \E l \in Labels : Continue(p, l)
  BY DEF Throw, Catch, Labels
<1> QED BY <1>1, FinishType, ContinueType

\* Freeing a lock leaves a table of locks.
LEMMA FreedType ==
    ASSUME runLock \in [Accounts -> 0..MaxOps], NEW a, NEW o
    PROVE  Freed(a, o) \in [Accounts -> 0..MaxOps]
<1>1. Free \in 0..MaxOps
  BY BoundTypes DEF Free
<1>2. \A x \in Accounts : Freed(a, o)[x] \in {runLock[x], Free}
  BY DEF Freed
<1>3. Freed(a, o) = [x \in Accounts |-> Freed(a, o)[x]]
  BY DEF Freed
<1> QED BY <1>1, <1>2, <1>3

StoresOK ==
    /\ versions \in [Tasks -> Seq(Version) \ {<<>>}]
    /\ runLock \in [Accounts -> 0..MaxOps]
    /\ limit \in [Accounts -> Nat]
    /\ account \in [Ops -> Accounts \cup {None}]
    /\ reservation \in [Ops -> {"none", "held", "charged", "released"}]
    /\ record \in [Ops -> Record]
    /\ job \in [Ops -> {"none", "pending"} \cup Terminal]
    /\ audit \in [Ops -> {"none"} \cup Terminal]
    /\ nextOp \in 1..(MaxOps + 1)
    /\ crashes \in Nat /\ faults \in Nat /\ lost \in Nat

\* TypeOK is about the stores and about the locals.
LEMMA TypeParts == TypeOK <=> StoresOK /\ LocalsOK
  BY DEF TypeOK, StoresOK, LocalsOK

\* The current version of a task is a version.
LEMMA VersionType ==
    ASSUME StoresOK, NEW t \in Tasks
    PROVE  /\ Revision(t) \in Nat \ {0}
           /\ CurrentVersion(t) \in Version
<1>1. versions[t] \in Seq(Version) /\ versions[t] # <<>>
  BY DEF StoresOK
<1> QED BY <1>1 DEF Revision, CurrentVersion

\* What the saves persist are records.
LEMMA AppliedType ==
    ASSUME NEW c \in Record, NEW s \in {"none", "pending"} \cup Terminal,
           NEW b \in BOOLEAN
    PROVE  Applied(c, s, b) \in Record
<1>1. (c.known \/ b) \in BOOLEAN
  BY DEF Record
<1>3. \A n \in Nat, k \in BOOLEAN :
          [c EXCEPT !.status = s, !.known = k, !.revision = n] \in Record
  BY DEF Record
<1>2. c.revision + 1 \in Nat
  BY DEF Record
<1> QED BY <1>1, <1>2, <1>3 DEF Applied

\* The job start() persists is a record,
LEMMA NewRecordType ==
    ASSUME NEW c \in Call
    PROVE  NewRecord(c) \in Record
  BY DEF NewRecord, Record, Call

\* so is the failed one its catch block saves,
LEMMA UndoneType ==
    ASSUME NEW c \in Record
    PROVE  [c EXCEPT !.status = "failed", !.revision = 2] \in Record
  BY DEF Record, Terminal

\* and the one with a film attached.
LEMMA ComposedType ==
    ASSUME NEW c \in Record, NEW r \in Call
    PROVE  [c EXCEPT !.composite = r.request, !.revision = c.revision + 1]
              \in Record
<1>1. \A n \in Nat : [c EXCEPT !.composite = r.request, !.revision = n] \in Record
  BY DEF Record, Call
<1>2. c.revision + 1 \in Nat
  BY DEF Record
<1> QED BY <1>1, <1>2

\* Every step leaves the stores well typed.
LEMMA StoreStep ==
    ASSUME StoresOK, LocalsOK, \A p \in Procs : LabelOK(p), Next
    PROVE  StoresOK'
<1> USE BoundTypes DEF Ops
<1>1. ASSUME NEW p \in Procs, UNCHANGED <<stores, bounds>>
      PROVE  StoresOK'
  BY <1>1 DEF StoresOK, stores, bounds
<1>2. ASSUME NEW p \in Procs, Begin(p) PROVE StoresOK'
  BY <1>1, <1>2 DEF Begin, BeginStart, BeginCompose, BeginPoll
<1>3. ASSUME NEW p \in Procs, Fetch(p) PROVE StoresOK'
  BY <1>1, <1>3 DEF Fetch, FetchFails, FetchJob
<1>4. ASSUME NEW p \in Procs, StoreFails(p) PROVE StoresOK'
  BY <1>4 DEF StoreFails, StoresOK, stores
<1>5. ASSUME NEW p \in Procs, Proceed(p) PROVE StoresOK'
  <2>1. CASE ReplayRequest(p) \/ RejectBusy(p) \/ ListShots(p) \/ Render(p)
    BY <1>1, <2>1 DEF ReplayRequest, RejectBusy, ListShots, Render
  <2>2. CASE AcquireRunLock(p)
    <3>1. call[p].account \in Accounts
      BY <2>2 DEF AcquireRunLock, LabelOK
    <3>2. runLock' \in [Accounts -> 0..MaxOps] /\ nextOp' \in 1..(MaxOps + 1)
      BY <2>2, <3>1 DEF AcquireRunLock, StoresOK
    <3>3. account' \in [Ops -> Accounts \cup {None}]
      BY <2>2, <3>1 DEF AcquireRunLock, StoresOK
    <3> QED BY <2>2, <3>2, <3>3 DEF AcquireRunLock, StoresOK, bounds
  <2>3. CASE ReserveBudget(p)
    BY <2>3 DEF ReserveBudget, StoresOK, bounds
  <2>4. CASE CreateRecord(p)
    <3>1. call[p] \in Call
      BY DEF LocalsOK
    <3>2. record' \in [Ops -> Record]
      BY <2>4, <3>1, NewRecordType DEF CreateRecord, StoresOK
    <3> QED BY <2>4, <3>2 DEF CreateRecord, StoresOK, bounds
  <2>5. CASE ReturnReservation(p)
    BY <2>5 DEF ReturnReservation, StoresOK, bounds
  <2>6. CASE ReturnRunLock(p)
    BY <2>6, FreedType DEF ReturnRunLock, StoresOK, bounds
  <2>7. CASE SubmitJob(p)
    <3>1. job' \in [Ops -> {"none", "pending"} \cup Terminal]
      BY <2>7 DEF SubmitJob, StoresOK
    <3>2. lost' \in Nat
      BY <2>7 DEF SubmitJob, StoresOK
    <3> QED BY <2>7, <3>1, <3>2 DEF SubmitJob, StoresOK
  <2>8. CASE SettleBudget(p)
    BY <2>8 DEF SettleBudget, StoresOK, bounds, Settlement
  <2>9. CASE ReleaseRunLock(p)
    BY <2>9, FreedType DEF ReleaseRunLock, StoresOK, bounds
  <2>10. CASE SaveRecord(p)
    <3>1. \A b \in BOOLEAN : Applied(cur[p], answer[p], b) \in Record
      BY AppliedType DEF LocalsOK
    <3>2. record' = record \/
            \E x \in Record : record' = [record EXCEPT ![call[p].op] = x]
      BY <2>10, <3>1 DEF SaveRecord
    <3>3. record' \in [Ops -> Record]
      BY <3>2 DEF StoresOK
    <3>4. UNCHANGED <<versions, runLock, limit, account, reservation, job, audit,
                      nextOp, bounds>>
      BY <2>10 DEF SaveRecord
    <3> QED BY <3>3, <3>4 DEF StoresOK, bounds
  <2>11. CASE AuditTerminal(p)
    BY <2>11 DEF AuditTerminal, StoresOK, LabelOK, bounds
  <2>12. CASE UndoBudget(p)
    BY <2>12 DEF UndoBudget, StoresOK, bounds
  <2>13. CASE UndoLock(p)
    BY <2>13, FreedType DEF UndoLock, StoresOK, bounds
  <2>14. CASE UndoRecord(p)
    <3>1. call[p].op \in Ops
      BY <2>14 DEF UndoRecord, LabelOK, Starting
    <3>2. [record[call[p].op] EXCEPT !.status = "failed", !.revision = 2] \in Record
      BY <3>1, UndoneType DEF StoresOK
    <3>3. record' \in [Ops -> Record]
      BY <2>14, <3>2 DEF UndoRecord, StoresOK
    <3> QED BY <2>14, <3>3 DEF UndoRecord, StoresOK, bounds
  <2>15. CASE SaveComposite(p)
    <3>1. call[p] \in Call /\ cur[p] \in Record
      BY DEF LocalsOK
    <3>2. [cur[p] EXCEPT !.composite = call[p].request,
                         !.revision = cur[p].revision + 1] \in Record
      BY <3>1, ComposedType
    <3>3. record' \in [Ops -> Record]
      BY <2>15, <3>2 DEF SaveComposite, StoresOK
    <3> QED BY <2>15, <3>3 DEF SaveComposite, StoresOK, bounds
  <2>16. CASE ReleaseComposeLock(p)
    BY <2>16, FreedType DEF ReleaseComposeLock, StoresOK, bounds
  <2> QED BY <1>5, <2>1, <2>2, <2>3, <2>4, <2>5, <2>6, <2>7, <2>8, <2>9, <2>10,
             <2>11, <2>12, <2>13, <2>14, <2>15, <2>16 DEF Proceed
<1>6. CASE Crash
  BY <1>6 DEF Crash, StoresOK, stores
<1>7. ASSUME NEW o \in Ops, ProviderFinishes(o) PROVE StoresOK'
  BY <1>7 DEF ProviderFinishes, StoresOK, bounds
<1>8. ASSUME NEW t \in Tasks, TaskChanges(t) PROVE StoresOK'
  BY <1>8 DEF TaskChanges, StoresOK, bounds
<1>9. ASSUME NEW a \in Accounts, UpdateLimit(a) PROVE StoresOK'
  BY <1>9, Parameters DEF UpdateLimit, StoresOK, bounds
<1> QED BY <1>2, <1>3, <1>4, <1>5, <1>6, <1>7, <1>8, <1>9 DEF Next

\* Every step leaves the locals of all requests well typed.
LEMMA LocalStep ==
    ASSUME StoresOK, LocalsOK, \A p \in Procs : LabelOK(p), Next
    PROVE  LocalsOK'
<1> USE BoundTypes DEF Ops
<1>1. CASE UNCHANGED <<pc, call, cur, answer>>
  BY <1>1 DEF LocalsOK
<1>2. ASSUME NEW p \in Procs, Begin(p) PROVE LocalsOK'
  <2>1. CASE BeginStart(p)
    <3>1. PICK t \in Tasks, r \in Requests, s \in Shots :
            call' = [call EXCEPT ![p] =
              [NoCall EXCEPT !.kind = "start", !.task = t, !.request = r,
                             !.account = CurrentVersion(t).owner, !.shot = s,
                             !.revision = Revision(t)]]
      BY <2>1 DEF BeginStart
    <3>2. CurrentVersion(t).owner \in Accounts /\ Revision(t) \in Nat /\ s \in Nat
      BY VersionType, Parameters DEF Version
    <3>3. [NoCall EXCEPT !.kind = "start", !.task = t, !.request = r,
                         !.account = CurrentVersion(t).owner, !.shot = s,
                         !.revision = Revision(t)] \in Call
      BY <3>2, StartCallType
    <3> QED BY <2>1, <3>1, <3>3 DEF BeginStart, Goto, LocalsOK, Labels
  <2>2. CASE BeginCompose(p)
    <3>1. PICK t \in Tasks, r \in Requests :
            call' = [call EXCEPT ![p] =
              [NoCall EXCEPT !.kind = "compose", !.task = t, !.request = r,
                             !.account = CurrentVersion(t).owner,
                             !.revision = Revision(t)]]
      BY <2>2 DEF BeginCompose
    <3>2. CurrentVersion(t).owner \in Accounts /\ Revision(t) \in Nat
      BY VersionType DEF Version
    <3>3. [NoCall EXCEPT !.kind = "compose", !.task = t, !.request = r,
                         !.account = CurrentVersion(t).owner,
                         !.revision = Revision(t)] \in Call
      BY <3>2, ComposeCallType
    <3> QED BY <2>2, <3>1, <3>3 DEF BeginCompose, Goto, LocalsOK, Labels
  <2>3. ASSUME NEW o \in Ops, BeginPoll(p, o) PROVE LocalsOK'
    <3>1. [NoCall EXCEPT !.kind = "poll", !.op = o] \in Call
      BY PollCallType
    <3>2. record[o] \in Record
      BY DEF StoresOK
    <3> QED BY <2>3, <3>1, <3>2 DEF BeginPoll, Goto, LocalsOK, Labels
  <2> QED BY <1>2, <2>1, <2>2, <2>3 DEF Begin
<1>3. ASSUME NEW p \in Procs, Fetch(p) PROVE LocalsOK'
  <2>1. CASE FetchFails(p)
    BY <2>1, FinishType DEF FetchFails
  <2>2. ASSUME NEW o \in Ops, FetchJob(p, o) PROVE LocalsOK'
    <3>1. job[o] \in {"none", "pending"} \cup Terminal /\ "failed" \in Terminal
      BY DEF StoresOK, Terminal
    <3> QED BY <2>2, <3>1 DEF FetchJob, Goto, LocalsOK, Labels
  <2> QED BY <1>3, <2>1, <2>2 DEF Fetch
<1>4. ASSUME NEW p \in Procs, StoreFails(p) PROVE LocalsOK'
  BY <1>4, ThrowType DEF StoreFails
<1>5. ASSUME NEW p \in Procs, Proceed(p) PROVE LocalsOK'
  <2> USE ContinueType, ThrowType, FinishType DEF Labels
  <2>1. CASE ReplayRequest(p)
    <3>1. ASSUME NEW o \in Ops
          PROVE  [NoCall EXCEPT !.kind = "poll", !.op = o] \in Call
      BY PollCallType
    <3>2. \A o \in Ops : record[o] \in Record
      BY DEF StoresOK
    <3>3. CASE Finish(p) \/ Continue(p, "acquire")
      BY <3>3
    <3>4. CASE ~Finish(p) /\ ~Continue(p, "acquire")
      BY <2>1, <3>1, <3>2, <3>4 DEF ReplayRequest, ByRequest, Goto, LocalsOK
    <3> QED BY <3>3, <3>4
  <2>2. CASE AcquireRunLock(p)
    <3>1. nextOp \in 0..MaxOps /\ call[p] \in Call
      BY <2>2 DEF AcquireRunLock, LocalsOK
    <3>2. [call[p] EXCEPT !.op = nextOp] \in Call
      BY <3>1 DEF Call
    <3>3. call' = [call EXCEPT ![p] = [call[p] EXCEPT !.op = nextOp]]
      BY <2>2 DEF AcquireRunLock, LocalsOK
    <3> QED BY <2>2, <3>2, <3>3 DEF AcquireRunLock, Goto, LocalsOK
  <2>3. CASE RejectBusy(p) \/ ReserveBudget(p) \/ ReturnReservation(p)
             \/ ReturnRunLock(p) \/ SettleBudget(p) \/ ReleaseRunLock(p)
             \/ AuditTerminal(p) \/ UndoBudget(p) \/ UndoLock(p) \/ Render(p)
             \/ SaveComposite(p) \/ ReleaseComposeLock(p)
    BY <2>3 DEF RejectBusy, ReserveBudget, ReturnReservation, ReturnRunLock,
                SettleBudget, ReleaseRunLock, AuditTerminal, UndoBudget, UndoLock,
                Render, SaveComposite, ReleaseComposeLock
  <2>4. CASE CreateRecord(p)
    <3>1. call[p] \in Call
      BY DEF LocalsOK
    <3>2. [call[p] EXCEPT !.created = TRUE] \in Call
      BY <3>1 DEF Call
    <3>3. CASE ByRequest(call[p].account, call[p].request) = {}
      BY <2>4, <3>1, <3>2, <3>3, NewRecordType DEF CreateRecord, Goto, LocalsOK
    <3> QED BY <2>4, <3>3 DEF CreateRecord
  <2>5. CASE SubmitJob(p)
    BY <2>5 DEF SubmitJob, Goto, LocalsOK, Terminal
  <2>6. CASE SaveRecord(p)
    <3>1. \A b \in BOOLEAN : Applied(cur[p], answer[p], b) \in Record
      BY AppliedType DEF LocalsOK
    <3> QED BY <2>6, <3>1 DEF SaveRecord, Goto, LocalsOK
  <2>7. CASE UndoRecord(p)
    <3>1. call[p].op \in Ops
      BY <2>7 DEF UndoRecord, LabelOK, Starting
    <3>2. [record[call[p].op] EXCEPT !.status = "failed", !.revision = 2] \in Record
      BY <3>1, UndoneType DEF StoresOK
    <3> QED BY <2>7, <3>2 DEF UndoRecord, Goto, LocalsOK
  <2>8. CASE ListShots(p)
    <3>1. ASSUME NEW o \in Ops
          PROVE  [call[p] EXCEPT !.target = o] \in Call /\ record[o] \in Record
      <4>1. o \in 0..MaxOps /\ call[p] \in Call
        BY <3>1 DEF LocalsOK
      <4> QED BY <3>1, <4>1 DEF Call, StoresOK
    <3> QED BY <2>8, <3>1 DEF ListShots, Goto, LocalsOK
  <2> QED BY <1>5, <2>1, <2>2, <2>3, <2>4, <2>5, <2>6, <2>7, <2>8 DEF Proceed
<1>6. CASE Crash
  BY <1>6, NoCallType, NoRecordType DEF Crash, LocalsOK, Labels
<1> QED BY <1>1, <1>2, <1>3, <1>4, <1>5, <1>6
        DEF Next, ProviderFinishes, TaskChanges, UpdateLimit
-----------------------------------------------------------------------------
(* Labels.                                                                 *)

\* A step of request p leaves the locals of the others alone.
Locally(p) ==
    \A q \in Procs \ {p} :
        /\ pc'[q] = pc[q] /\ call'[q] = call[q]
        /\ cur'[q] = cur[q] /\ answer'[q] = answer[q]

ProcStep(p) == Begin(p) \/ Proceed(p) \/ Fetch(p) \/ StoreFails(p)

\* Returning touches the locals of one request only.
LEMMA FinishIsLocal ==
    ASSUME LocalsOK, NEW p \in Procs, Finish(p)
    PROVE  /\ Locally(p)
           /\ pc'[p] = "idle" /\ call'[p] = NoCall
           /\ cur'[p] = NoRecord /\ answer'[p] = "none"
  BY DEF Finish, Goto, LocalsOK, Locally

\* So does going on to another label,
LEMMA ContinueIsLocal ==
    ASSUME LocalsOK, NEW p \in Procs, NEW l \in Labels, Continue(p, l)
    PROVE  /\ Locally(p)
           /\ pc'[p] = l /\ call'[p] = call[p]
           /\ cur'[p] = cur[p] /\ answer'[p] = answer[p]
  BY DEF Continue, Goto, LocalsOK, Locally

\* and so does an exception.
LEMMA ThrowIsLocal ==
    ASSUME LocalsOK, NEW p \in Procs, Throw(p)
    PROVE  Locally(p)
<1>1. \/ Finish(p)
      \/ \E l \in Labels : Continue(p, l)
  BY DEF Throw, Catch, Labels
<1> QED BY <1>1, FinishIsLocal, ContinueIsLocal

\* Every step of a request touches its own locals only.
LEMMA StepIsLocal ==
    ASSUME LocalsOK, NEW p \in Procs, ProcStep(p)
    PROVE  Locally(p)
<1>1. CASE Begin(p)
  BY <1>1 DEF Begin, BeginStart, BeginCompose, BeginPoll, Goto, LocalsOK, Locally
<1>2. CASE Fetch(p)
  BY <1>2, FinishIsLocal DEF Fetch, FetchFails, FetchJob, Goto, LocalsOK, Locally
<1>3. CASE StoreFails(p)
  BY <1>3, ThrowIsLocal DEF StoreFails
<1>4. CASE Proceed(p)
  <2> USE FinishIsLocal, ContinueIsLocal, ThrowIsLocal DEF Labels
  <2>1. CASE RejectBusy(p) \/ ReserveBudget(p) \/ ReturnReservation(p)
             \/ ReturnRunLock(p) \/ SettleBudget(p) \/ ReleaseRunLock(p)
             \/ AuditTerminal(p) \/ UndoBudget(p) \/ UndoLock(p) \/ Render(p)
             \/ SaveComposite(p) \/ ReleaseComposeLock(p)
    BY <2>1 DEF RejectBusy, ReserveBudget, ReturnReservation, ReturnRunLock,
                SettleBudget, ReleaseRunLock, AuditTerminal, UndoBudget, UndoLock,
                Render, SaveComposite, ReleaseComposeLock
  <2>2. CASE ReplayRequest(p)
    BY ZenonT(40), <2>2 DEF ReplayRequest, Goto, LocalsOK, Locally
  <2>3. CASE AcquireRunLock(p) \/ CreateRecord(p)
    BY <2>3 DEF AcquireRunLock, CreateRecord, Goto, LocalsOK, Locally
  <2>4. CASE SubmitJob(p) \/ SaveRecord(p)
    BY <2>4 DEF SubmitJob, SaveRecord, Goto, LocalsOK, Locally
  <2>5. CASE UndoRecord(p) \/ ListShots(p)
    BY <2>5 DEF UndoRecord, ListShots, Goto, LocalsOK, Locally
  <2> QED BY <1>4, <2>1, <2>2, <2>3, <2>4, <2>5 DEF Proceed
<1> QED BY <1>1, <1>2, <1>3, <1>4 DEF ProcStep

\* What a label promises holds after a return,
LEMMA LabelFinish ==
    ASSUME LocalsOK, NEW p \in Procs, Finish(p)
    PROVE  LabelOK(p)'
<1>1. /\ pc'[p] = "idle" /\ cur'[p] = NoRecord
      /\ call'[p] = NoCall /\ NoCall.kind = "none"
  BY FinishIsLocal DEF NoCall
<1> QED BY <1>1 DEF LabelOK, Starting, Composing, Applying

\* after an exception,
LEMMA LabelThrow ==
    ASSUME LocalsOK, NEW p \in Procs, LabelOK(p), Throw(p)
    PROVE  LabelOK(p)'
<1>1. CASE Finish(p)
  BY <1>1, LabelFinish
<1>2. CASE InTry(p) /\ Continue(p, Catch(p))
  <2>1. Catch(p) \in Labels
    BY DEF Catch, Labels
  <2>2. call[p].kind = "start" /\ call[p].op \in Ops
    BY <1>2 DEF InTry, LabelOK, Starting, Applying
  <2> QED BY <1>2, <2>1, <2>2, ContinueIsLocal
          DEF LabelOK, Catch, Starting, Composing, Applying
<1>3. CASE pc[p] = "undo_budget" /\ Continue(p, "undo_lock")
  BY <1>3, ContinueIsLocal DEF Labels, LabelOK, Starting, Composing, Applying
<1>4. CASE pc[p] = "undo_lock" /\ call[p].created /\ Continue(p, "undo_record")
  BY <1>4, ContinueIsLocal DEF Labels, LabelOK, Starting, Composing, Applying
<1>5. CASE pc[p] \in {"render", "compose_save"} /\ Continue(p, "compose_release")
  BY <1>5, ContinueIsLocal DEF Labels, LabelOK, Starting, Composing, Applying
<1> QED BY <1>1, <1>2, <1>3, <1>4, <1>5 DEF Throw

\* after a request was let in,
LEMMA LabelBegin ==
    ASSUME StoresOK, LocalsOK, NEW p \in Procs, Begin(p)
    PROVE  LabelOK(p)'
<1> USE DEF LabelOK, Starting, Composing, Applying
<1>1. CASE BeginStart(p)
  <2>1. PICK t \in Tasks, r \in Requests, s \in Shots :
          call' = [call EXCEPT ![p] =
            [NoCall EXCEPT !.kind = "start", !.task = t, !.request = r,
                           !.account = CurrentVersion(t).owner, !.shot = s,
                           !.revision = Revision(t)]]
    BY <1>1 DEF BeginStart
  <2>2. CurrentVersion(t).owner \in Accounts
    BY VersionType DEF Version
  <2>3. pc'[p] = "replay"
    BY <1>1 DEF BeginStart, Goto, LocalsOK
  <2>4. call'[p].kind = "start" /\ call'[p].op = 0 /\ call'[p].account \in Accounts
          /\ ~call'[p].created
    BY <2>1, <2>2 DEF LocalsOK, NoCall
  <2> QED BY <2>3, <2>4
<1>2. CASE BeginCompose(p)
  <2>1. PICK t \in Tasks, r \in Requests :
          call' = [call EXCEPT ![p] =
            [NoCall EXCEPT !.kind = "compose", !.task = t, !.request = r,
                           !.account = CurrentVersion(t).owner,
                           !.revision = Revision(t)]]
    BY <1>2 DEF BeginCompose
  <2>2. CurrentVersion(t).owner \in Accounts
    BY VersionType DEF Version
  <2>3. pc'[p] = "list"
    BY <1>2 DEF BeginCompose, Goto, LocalsOK
  <2>4. call'[p].kind = "compose" /\ call'[p].op = 0
          /\ call'[p].account \in Accounts /\ ~call'[p].created
    BY <2>1, <2>2 DEF LocalsOK, NoCall
  <2> QED BY <2>3, <2>4
<1>3. ASSUME NEW o \in Ops, BeginPoll(p, o) PROVE LabelOK(p)'
  <2>1. record[o] \in Record
    BY DEF StoresOK
  <2>2. /\ pc'[p] \in {"audit", "fetch"} /\ cur'[p] = record[o]
        /\ call'[p].kind = "poll" /\ call'[p].op = o
        /\ pc'[p] = "audit" <=> record[o].status \in Terminal
    BY <1>3 DEF BeginPoll, Goto, LocalsOK, NoCall
  <2>3. record[o].status # "none"
    BY <1>3 DEF BeginPoll
  <2>4. record[o].status \in {"none", "pending"} \cup Terminal
    BY <2>1 DEF Record
  <2> QED BY <2>2, <2>3, <2>4
<1> QED BY <1>1, <1>2, <1>3 DEF Begin

\* after the provider answered a poll,
LEMMA LabelFetch ==
    ASSUME StoresOK, LocalsOK, NEW p \in Procs, LabelOK(p), Fetch(p)
    PROVE  LabelOK(p)'
<1>1. CASE FetchFails(p)
  BY <1>1, LabelFinish DEF FetchFails
<1>2. ASSUME NEW o \in Ops, FetchJob(p, o) PROVE LabelOK(p)'
  <2>1. PICK said \in {job[o], "failed"} :
          /\ answer' = [answer EXCEPT ![p] = said]
          /\ Goto(p, IF said = "pending" THEN "save" ELSE "settle")
    BY <1>2 DEF FetchJob
  <2>2. said \in {"pending"} \cup Terminal
    BY <1>2 DEF FetchJob, StoresOK, Terminal
  <2>3. /\ answer'[p] = said
        /\ pc'[p] = IF said = "pending" THEN "save" ELSE "settle"
        /\ call'[p] = call[p] /\ cur'[p] = cur[p] /\ pc[p] = "fetch"
    BY <1>2, <2>1 DEF FetchJob, Goto, LocalsOK
  <2>4. call[p].kind = "poll" /\ call[p].op \in Ops /\ cur[p].status = "pending"
    BY <2>3 DEF LabelOK, Applying
  <2> QED BY <2>2, <2>3, <2>4
          DEF LabelOK, Starting, Composing, Applying, Terminal
<1> QED BY <1>1, <1>2 DEF Fetch

\* after each step of start(), a poll or compose(),
LEMMA LabelProceed ==
    ASSUME StoresOK, LocalsOK, NEW p \in Procs, LabelOK(p), Proceed(p)
    PROVE  LabelOK(p)'
<1> USE LabelFinish, LabelThrow, BoundTypes DEF Ops
<1>1. CASE ReplayRequest(p)
  <2>1. CASE Finish(p)
    BY <2>1
  <2>2. CASE Continue(p, "acquire")
    BY <1>1, <2>2, ContinueIsLocal
       DEF ReplayRequest, Labels, LabelOK, Starting, Composing, Applying
  <2>3. ASSUME NEW o \in Ops, record[o].status \in Terminal, Goto(p, "audit"),
               call' = [call EXCEPT ![p] = [NoCall EXCEPT !.kind = "poll", !.op = o]],
               cur' = [cur EXCEPT ![p] = record[o]]
        PROVE  LabelOK(p)'
    <3>1. /\ pc'[p] = "audit" /\ cur'[p] = record[o]
          /\ call'[p].kind = "poll" /\ call'[p].op = o
      BY <2>3 DEF Goto, LocalsOK, NoCall
    <3> QED BY <2>3, <3>1 DEF LabelOK, Starting, Composing, Applying
  <2> QED BY <1>1, <2>1, <2>2, <2>3 DEF ReplayRequest, ByRequest
<1>2. CASE AcquireRunLock(p)
  <2>1. call[p] \in Call
    BY DEF LocalsOK
  <2>2. /\ pc'[p] = IF call[p].kind = "start" THEN "reserve" ELSE "render"
        /\ call'[p] = [call[p] EXCEPT !.op = nextOp] /\ cur'[p] = cur[p]
        /\ nextOp \in Ops
    BY <1>2 DEF AcquireRunLock, Goto, LocalsOK
  <2>3. /\ call'[p].kind = call[p].kind /\ call'[p].op = nextOp
        /\ call'[p].created = call[p].created
    BY <2>1, <2>2 DEF Call
  <2> QED BY <1>2, <2>2, <2>3 DEF AcquireRunLock, LabelOK, Starting, Composing, Applying
<1>3. CASE RejectBusy(p) \/ ReturnRunLock(p) \/ AuditTerminal(p)
           \/ ReleaseComposeLock(p)
  BY <1>3 DEF RejectBusy, ReturnRunLock, AuditTerminal, ReleaseComposeLock
<1>4. CASE ReserveBudget(p) \/ ReturnReservation(p) \/ SettleBudget(p)
           \/ ReleaseRunLock(p) \/ UndoBudget(p) \/ UndoLock(p)
           \/ Render(p) \/ SaveComposite(p)
  <2>1. CASE Finish(p) \/ Throw(p)
    BY <2>1
  <2>2. CASE \E l \in Labels : Continue(p, l)
    <3>1. PICK l \in Labels : Continue(p, l)
      BY <2>2
    <3>2. /\ pc'[p] = l /\ call'[p] = call[p]
          /\ cur'[p] = cur[p] /\ answer'[p] = answer[p]
      BY <3>1, ContinueIsLocal
    <3>3. CASE Throw(p) \/ Finish(p)
      BY <3>3
    <3>4. CASE ~Throw(p) /\ ~Finish(p)
      <4>1. \/ pc[p] = "reserve" /\ l = "create"
            \/ pc[p] = "dup_budget" /\ l = "dup_lock"
            \/ pc[p] = "settle" /\ l = "unlock"
            \/ pc[p] = "unlock" /\ l = "save"
            \/ pc[p] = "undo_budget" /\ l = "undo_lock"
            \/ pc[p] = "undo_lock" /\ l = "undo_record" /\ call[p].created
            \/ pc[p] = "render" /\ l = "compose_save"
            \/ pc[p] = "compose_save" /\ l = "compose_release"
        BY SMTT(30), <1>4, <3>2, <3>4, ContinueIsLocal
           DEF ReserveBudget, ReturnReservation, SettleBudget, ReleaseRunLock,
               UndoBudget, UndoLock, Render, SaveComposite, Labels
      <4> QED BY <3>2, <4>1 DEF LabelOK, Starting, Composing, Applying
    <3> QED BY <3>3, <3>4
  <2> QED BY <1>4, <2>1, <2>2
          DEF ReserveBudget, ReturnReservation, SettleBudget, ReleaseRunLock,
              UndoBudget, UndoLock, Render, SaveComposite, Labels
<1>5. CASE CreateRecord(p)
  <2>1. call[p] \in Call
    BY DEF LocalsOK
  <2>2. CASE Continue(p, "dup_budget")
    BY <1>5, <2>2, ContinueIsLocal
       DEF CreateRecord, Labels, LabelOK, Starting, Composing, Applying
  <2>3. CASE ByRequest(call[p].account, call[p].request) = {}
    <3>1. /\ pc'[p] = "submit" /\ cur'[p].status = "pending"
          /\ call'[p] = [call[p] EXCEPT !.created = TRUE]
      BY <1>5, <2>1, <2>3 DEF CreateRecord, NewRecord, Goto, LocalsOK
    <3>2. /\ call'[p].kind = call[p].kind /\ call'[p].op = call[p].op
          /\ call'[p].created
      BY <2>1, <3>1 DEF Call
    <3> QED BY <1>5, <3>1, <3>2 DEF CreateRecord, LabelOK, Starting, Composing, Applying
  <2> QED BY <1>5, <2>2, <2>3 DEF CreateRecord
<1>6. CASE SubmitJob(p)
  <2>1. CASE Throw(p)
    BY <2>1
  <2>2. CASE ~Throw(p)
    <3>1. /\ answer'[p] \in {"pending"} \cup Terminal
          /\ pc'[p] = IF answer'[p] = "pending" THEN "save" ELSE "settle"
          /\ call'[p] = call[p] /\ cur'[p] = cur[p]
      BY <1>6, <2>2 DEF SubmitJob, Goto, LocalsOK, Terminal
    <3> QED BY <1>6, <3>1 DEF SubmitJob, LabelOK, Starting, Composing, Applying, Terminal
  <2> QED BY <2>1, <2>2
<1>7. CASE SaveRecord(p)
  <2>1. CASE Finish(p) \/ Throw(p)
    BY <2>1
  <2>2. CASE ~Finish(p) /\ ~Throw(p)
    <3>1. PICK b \in BOOLEAN :
             /\ Applied(cur[p], answer[p], b).status \in Terminal
             /\ pc'[p] = "audit" /\ cur'[p] = Applied(cur[p], answer[p], b)
             /\ call'[p] = call[p]
      BY <1>7, <2>2 DEF SaveRecord, Goto, LocalsOK
    <3> QED BY <1>7, <3>1 DEF SaveRecord, LabelOK, Starting, Composing, Applying
  <2> QED BY <2>1, <2>2
<1>8. CASE UndoRecord(p)
  <2>1. CASE Finish(p)
    BY <2>1
  <2>2. CASE ~Finish(p)
    <3>1. call[p].op \in Ops
      BY <1>8 DEF UndoRecord, LabelOK, Starting
    <3>2. record[call[p].op] \in Record
      BY <3>1 DEF StoresOK
    <3>3. /\ pc'[p] = "undo_audit" /\ call'[p] = call[p]
          /\ cur'[p] = [record[call[p].op] EXCEPT !.status = "failed",
                                                 !.revision = 2]
      BY <1>8, <2>2 DEF UndoRecord, Goto, LocalsOK
    <3>4. cur'[p].status \in Terminal
      BY <3>2, <3>3 DEF Record, Terminal
    <3> QED BY <1>8, <3>3, <3>4 DEF UndoRecord, LabelOK, Starting, Composing, Applying
  <2> QED BY <2>1, <2>2
<1>9. CASE ListShots(p)
  <2>1. CASE Finish(p)
    BY <2>1
  <2>2. CASE ~Finish(p)
    <3>1. PICK o \in Ops :
            /\ CompositionTarget(call[p].task, o)
            /\ call' = [call EXCEPT ![p].target = o]
            /\ cur' = [cur EXCEPT ![p] = record[o]]
            /\ Goto(p, "acquire")
      BY <1>9, <2>2 DEF ListShots
    <3>2. record[o].status = "succeeded"
      BY <3>1 DEF CompositionTarget, SucceededShots
    <3>3. call[p] \in Call /\ call'[p] = [call[p] EXCEPT !.target = o]
      BY <3>1 DEF LocalsOK
    <3>4. /\ call'[p].kind = call[p].kind /\ call'[p].op = call[p].op
          /\ call'[p].account = call[p].account
          /\ call'[p].created = call[p].created
      BY <3>3 DEF Call
    <3>5. pc'[p] = "acquire" /\ cur'[p] = record[o]
      BY <3>1 DEF Goto, LocalsOK
    <3> QED BY <1>9, <3>2, <3>4, <3>5
            DEF ListShots, LabelOK, Starting, Composing, Applying
  <2> QED BY <2>1, <2>2
<1> QED BY <1>1, <1>2, <1>3, <1>4, <1>5, <1>6, <1>7, <1>8, <1>9 DEF Proceed

\* and after a crash.
LEMMA LabelCrash ==
    ASSUME LocalsOK, NEW q \in Procs, LabelOK(q), Crash
    PROVE  LabelOK(q)'
<1>1. \/ /\ pc'[q] = "idle" /\ call'[q] = NoCall
         /\ cur'[q] = NoRecord /\ answer'[q] = "none"
      \/ /\ pc'[q] = pc[q] /\ call'[q] = call[q]
         /\ cur'[q] = cur[q] /\ answer'[q] = answer[q]
  BY DEF Crash
<1> QED BY <1>1 DEF LabelOK, Starting, Composing, Applying, NoCall

\* Together: what the labels promise is kept by every step.
LEMMA LabelStep ==
    ASSUME StoresOK, LocalsOK, \A p \in Procs : LabelOK(p), Next
    PROVE  \A q \in Procs : LabelOK(q)'
<1> SUFFICES ASSUME NEW q \in Procs PROVE LabelOK(q)'
  OBVIOUS
<1>1. CASE UNCHANGED <<pc, call, cur, answer>>
  BY <1>1 DEF LabelOK
<1>2. ASSUME NEW p \in Procs, ProcStep(p) PROVE LabelOK(q)'
  <2>1. CASE p = q
    BY <1>2, <2>1, LabelBegin, LabelProceed, LabelFetch, LabelThrow
       DEF ProcStep, StoreFails
  <2>2. CASE p # q
    <3>1. /\ pc'[q] = pc[q] /\ call'[q] = call[q]
          /\ cur'[q] = cur[q] /\ answer'[q] = answer[q]
      BY <1>2, <2>2, StepIsLocal DEF Locally
    <3> QED BY <3>1 DEF LabelOK
  <2> QED BY <2>1, <2>2
<1>3. CASE Crash
  BY <1>3, LabelCrash
<1> QED BY <1>1, <1>2, <1>3 DEF Next, ProcStep, ProviderFinishes, TaskChanges, UpdateLimit
-----------------------------------------------------------------------------
(* The first layer: types and labels.                                      *)

TypeInv == StoresOK /\ LocalsOK /\ \A p \in Procs : LabelOK(p)

\* Types and labels are right at the start,
LEMMA InitTypeInv == Init => TypeInv
<1> SUFFICES ASSUME Init PROVE TypeInv
  OBVIOUS
<1>1. StoresOK
  <2>1. \A v \in Version : <<v>> \in Seq(Version) \ {<<>>}
    OBVIOUS
  <2>2. /\ versions = [t \in Tasks |-> versions[t]]
        /\ \A t \in Tasks : versions[t] \in {<<v>> : v \in Version}
    BY DEF Init
  <2>3. limit \in [Accounts -> Nat]
    BY Parameters DEF Init
  <2>4. versions \in [Tasks -> Seq(Version) \ {<<>>}]
    BY <2>1, <2>2
  <2> QED BY <2>3, <2>4, BoundTypes, NoRecordType DEF Init, StoresOK, Free
<1>2. LocalsOK
  BY NoCallType, NoRecordType DEF Init, LocalsOK, Labels
<1>3. \A p \in Procs : LabelOK(p)
  BY DEF Init, LabelOK, Starting, Composing, Applying, NoCall
<1> QED BY <1>1, <1>2, <1>3 DEF TypeInv

\* and every step keeps them right.
LEMMA NextTypeInv == TypeInv /\ [Next]_vars => TypeInv'
<1> SUFFICES ASSUME TypeInv, [Next]_vars PROVE TypeInv'
  OBVIOUS
<1>1. CASE Next
  BY <1>1, StoreStep, LocalStep, LabelStep DEF TypeInv
<1>2. CASE UNCHANGED vars
  BY <1>2 DEF TypeInv, StoresOK, LocalsOK, LabelOK, vars, stores, bounds
<1> QED BY <1>1, <1>2

\* Every variable stays in its domain, for all accounts, tasks, requests in
\* flight and bounds: what the runtime loads and saves is always a record, a
\* reservation, a lock of the model.
THEOREM TypeCorrect == Spec => []TypeOK
<1>1. TypeInv => TypeOK
  BY TypeParts DEF TypeInv
<1> QED BY <1>1, InitTypeInv, NextTypeInv, PTL DEF Spec

-----------------------------------------------------------------------------
(***************************************************************************)
(* The persisted jobs: who owns an operation, what a loaded copy is worth, *)
(* and with these that outcomes are final, that a request is submitted     *)
(* once and that a job cites an authorized revision.                       *)
(***************************************************************************)

\* A request that acquired a run lock owns the operation it named: no other
\* request acquired it, and it has no record unless this one created it.
Owns(p) == call[p].kind \in {"start", "compose"} /\ call[p].op # 0
OwnerOK(p) ==
    Owns(p) =>
        /\ call[p].op < nextOp
        /\ account[call[p].op] = call[p].account
        /\ \A q \in Procs \ {p} : Owns(q) => call[q].op # call[p].op
        /\ call[p].kind = "compose" \/ ~call[p].created =>
              record[call[p].op].status = "none"

\* Every operation handed out is stamped with its account; the others have
\* left no trace.
UnusedOK ==
    \A o \in Ops :
        /\ o < nextOp => account[o] \in Accounts
        /\ o >= nextOp => reservation[o] = "none" /\ record[o].status = "none"

\* A loaded copy is the record, or the record has been saved since and has a
\* higher revision.
CopyOf(p) == IF call[p].kind = "compose" THEN call[p].target ELSE call[p].op
CopyOK(p) ==
    /\ cur[p].status # "none" =>
          /\ CopyOf(p) \in Ops
          /\ record[CopyOf(p)].status # "none"
          /\ cur[p].revision <= record[CopyOf(p)].revision
          /\ cur[p].revision = record[CopyOf(p)].revision =>
                cur[p] = record[CopyOf(p)]
    /\ call[p].kind = "start" => (call[p].created <=> cur[p].status # "none")

\* A record is at the revision start() created it with, and then pending, or
\* at a later one.
RecordOK ==
    \A o \in Ops : record[o].status # "none" =>
        /\ record[o].revision >= 1
        /\ record[o].revision = 1 => record[o].status = "pending"

(* The second layer: who owns an operation, and what a copy is worth.      *)

OwnInv ==
    /\ \A p \in Procs : OwnerOK(p) /\ CopyOK(p)
    /\ UnusedOK /\ RecordOK

\* What a step does to the record of operation o: the start() that owns o
\* creates it, or somebody whose copy is current, or who undoes its creation,
\* saves the next revision.
Creates(p, o) ==
    /\ pc[p] = "create" /\ call[p].op = o
    /\ ByRequest(call[p].account, call[p].request) = {}
    /\ record[o].status = "none"
    /\ record' = [record EXCEPT ![o] = NewRecord(call[p])]
    /\ call' = [call EXCEPT ![p].created = TRUE]

SameIdentity(r, s) ==
    /\ r.actor = s.actor /\ r.task = s.task /\ r.request = s.request
    /\ r.shot = s.shot /\ r.source = s.source

Saves(o) ==
    /\ record[o].status # "none" /\ record'[o].status # "none"
    /\ record'[o].revision = record[o].revision + 1
    /\ SameIdentity(record'[o], record[o])
    /\ record[o].status \in Terminal => record'[o].status = record[o].status

\* Nobody else writes a record: a stale copy is refused by the revision.
LEMMA RecordStep ==
    ASSUME TypeInv, OwnInv, Next, NEW o \in Ops
    PROVE  \/ record'[o] = record[o]
           \/ Saves(o)
           \/ \E p \in Procs : Creates(p, o)
<1> DEFINE Goal == \/ record'[o] = record[o]
                   \/ Saves(o)
                   \/ \E p \in Procs : Creates(p, o)
<1> USE DEF TypeInv, OwnInv
<1>1. CASE record' = record
  BY <1>1
<1>2. ASSUME NEW p \in Procs, CreateRecord(p) PROVE Goal
  <2>1. CASE record' = record
    BY <2>1
  <2>2. CASE record' # record
    <3>1. /\ pc[p] = "create" /\ ByRequest(call[p].account, call[p].request) = {}
          /\ record' = [record EXCEPT ![call[p].op] = NewRecord(call[p])]
          /\ call' = [call EXCEPT ![p].created = TRUE]
      BY <1>2, <2>2 DEF CreateRecord
    <3>2. call[p].kind = "start" /\ call[p].op \in Ops /\ ~call[p].created
      BY <3>1 DEF LabelOK, Starting
    <3>3. record[call[p].op].status = "none"
      BY <3>2, BoundTypes DEF OwnerOK, Owns, Ops
    <3> QED BY <3>1, <3>2, <3>3 DEF Creates, StoresOK
  <2> QED BY <2>1, <2>2
<1>3. ASSUME NEW p \in Procs, SaveRecord(p) PROVE Goal
  <2>1. CASE record' = record
    BY <2>1
  <2>2. CASE record' # record
    <3> DEFINE q == call[p].op
    <3>1. PICK b \in BOOLEAN :
             /\ pc[p] = "save" /\ Fresh(q, cur[p])
             /\ record' = [record EXCEPT ![q] = Applied(cur[p], answer[p], b)]
      BY <1>3, <2>2 DEF SaveRecord
    <3>2. /\ q \in Ops /\ cur[p].status = "pending" /\ answer[p] # "none"
          /\ call[p].kind \in {"start", "poll"}
      BY <3>1 DEF LabelOK, Applying
    <3>3. cur[p] = record[q] /\ record[q] \in Record
      BY <3>1, <3>2 DEF CopyOK, CopyOf, Fresh, StoresOK
    <3>4. /\ Applied(record[q], answer[p], b).status = answer[p]
          /\ Applied(record[q], answer[p], b).revision = record[q].revision + 1
          /\ SameIdentity(Applied(record[q], answer[p], b), record[q])
      BY <3>3 DEF Applied, Record, SameIdentity
    <3>5. CASE o = q
      <4>1. record'[o] = Applied(record[o], answer[p], b)
        BY <3>1, <3>2, <3>3, <3>5 DEF StoresOK
      <4> QED BY <4>1, <3>2, <3>3, <3>4, <3>5 DEF Saves, Terminal
    <3>6. CASE o # q
      BY <3>1, <3>2, <3>6 DEF StoresOK
    <3> QED BY <3>5, <3>6
  <2> QED BY <2>1, <2>2
<1>4. ASSUME NEW p \in Procs, UndoRecord(p) PROVE Goal
  <2>1. CASE record' = record
    BY <2>1
  <2>2. CASE record' # record
    <3> DEFINE q == call[p].op
               new == [record[q] EXCEPT !.status = "failed", !.revision = 2]
    <3>1. /\ pc[p] = "undo_record" /\ record[q].revision = 1
          /\ record' = [record EXCEPT ![q] = new]
      BY <1>4, <2>2 DEF UndoRecord
    <3>2. q \in Ops /\ call[p].created /\ call[p].kind = "start"
      BY <3>1 DEF LabelOK, Starting
    <3>3. record[q] \in Record
      BY <3>2 DEF StoresOK
    <3>4. new.status = "failed" /\ new.revision = 2 /\ SameIdentity(new, record[q])
      BY <3>3 DEF Record, SameIdentity
    <3>5. record[q].status = "pending"
      BY <3>1, <3>2 DEF CopyOK, CopyOf, RecordOK
    <3>6. CASE o = q
      <4>1. record'[o] = new
        BY <3>1, <3>2, <3>6 DEF StoresOK
      <4> QED BY <4>1, <3>1, <3>4, <3>5, <3>6 DEF Saves, Terminal
    <3>7. CASE o # q
      BY <3>1, <3>2, <3>7 DEF StoresOK
    <3> QED BY <3>6, <3>7
  <2> QED BY <2>1, <2>2
<1>5. ASSUME NEW p \in Procs, SaveComposite(p) PROVE Goal
  <2>1. CASE record' = record
    BY <2>1
  <2>2. CASE record' # record
    <3> DEFINE q == call[p].target
               new == [cur[p] EXCEPT !.composite = call[p].request,
                                     !.revision = cur[p].revision + 1]
    <3>1. /\ pc[p] = "compose_save" /\ Fresh(q, cur[p])
          /\ record' = [record EXCEPT ![q] = new]
      BY <1>5, <2>2 DEF SaveComposite
    <3>2. cur[p].status = "succeeded" /\ call[p].kind = "compose"
      BY <3>1 DEF LabelOK, Composing
    <3>3. q \in Ops /\ cur[p] = record[q]
      BY <3>1, <3>2 DEF CopyOK, CopyOf, Fresh
    <3>4. record[q] \in Record
      BY <3>3 DEF StoresOK
    <3>5. /\ new.status = record[q].status
          /\ new.revision = record[q].revision + 1
          /\ SameIdentity(new, record[q])
      BY <3>3, <3>4 DEF Record, SameIdentity
    <3>6. CASE o = q
      <4>1. record'[o] = new
        BY <3>1, <3>3, <3>6 DEF StoresOK
      <4> QED BY <4>1, <3>2, <3>3, <3>5, <3>6 DEF Saves
    <3>7. CASE o # q
      BY <3>1, <3>3, <3>7 DEF StoresOK
    <3> QED BY <3>6, <3>7
  <2> QED BY <2>1, <2>2
<1>6. \/ record' = record
      \/ \E p \in Procs : \/ CreateRecord(p) \/ SaveRecord(p)
                          \/ UndoRecord(p) \/ SaveComposite(p)
  BY ZenonT(30) DEF Next, Begin, BeginStart, BeginPoll, BeginCompose, Fetch, FetchFails,
         FetchJob, StoreFails, Crash, ProviderFinishes, TaskChanges, UpdateLimit,
         Proceed, ReplayRequest, AcquireRunLock, RejectBusy, ReserveBudget,
         ReturnReservation, ReturnRunLock, SubmitJob, SettleBudget,
         ReleaseRunLock, AuditTerminal, UndoBudget, UndoLock, ListShots, Render,
         ReleaseComposeLock, stores
<1> QED BY <1>1, <1>2, <1>3, <1>4, <1>5, <1>6

\* What a step does to the copy of request q.
LEMMA CopyStep ==
    ASSUME TypeInv, OwnInv, Next, NEW q \in Procs
    PROVE  \/ /\ cur'[q] = cur[q] /\ CopyOf(q)' = CopyOf(q)
              /\ call'[q].kind = call[q].kind
              /\ call'[q].created = call[q].created
           \/ /\ cur'[q].status = "none"
              /\ call'[q].kind = "start" => ~call'[q].created
           \/ /\ CopyOf(q)' \in Ops
              /\ cur'[q] = record'[CopyOf(q)'] /\ cur'[q].status # "none"
              /\ call'[q].kind = "start" => call'[q].created
<1> DEFINE Keeps == /\ cur'[q] = cur[q] /\ CopyOf(q)' = CopyOf(q)
                    /\ call'[q].kind = call[q].kind
                    /\ call'[q].created = call[q].created
           Forgets == /\ cur'[q].status = "none"
                      /\ call'[q].kind = "start" => ~call'[q].created
           Loads == /\ CopyOf(q)' \in Ops
                    /\ cur'[q] = record'[CopyOf(q)'] /\ cur'[q].status # "none"
                    /\ call'[q].kind = "start" => call'[q].created
           Goal == Keeps \/ Forgets \/ Loads
<1> USE DEF TypeInv, OwnInv
<1>1. CASE UNCHANGED <<pc, call, cur, answer>>
  BY <1>1 DEF CopyOf
<1>2. ASSUME NEW p \in Procs \ {q}, ProcStep(p) PROVE Goal
  BY <1>2, StepIsLocal DEF Locally, CopyOf
<1>3. CASE Crash
  <2>1. \/ call'[q] = NoCall /\ cur'[q] = NoRecord
        \/ call'[q] = call[q] /\ cur'[q] = cur[q]
    BY <1>3 DEF Crash
  <2> QED BY <2>1 DEF NoCall, NoRecord, CopyOf
<1>4. CASE Finish(q)
  BY <1>4, FinishIsLocal DEF NoCall, NoRecord
<1>5. CASE \E l \in Labels : Continue(q, l)
  BY <1>5, ContinueIsLocal DEF CopyOf
<1>6. CASE Throw(q)
  <2>1. Finish(q) \/ \E l \in Labels : Continue(q, l)
    BY <1>6 DEF Throw, Catch, Labels
  <2> QED BY <2>1, <1>4, <1>5
<1>7. CASE Begin(q)
  <2>1. CASE BeginStart(q) \/ BeginCompose(q)
    <3>1. cur'[q] = cur[q] /\ cur[q] = NoRecord
      BY <2>1 DEF BeginStart, BeginCompose, LabelOK
    <3>2. ~call'[q].created
      BY <1>7, <2>1, LabelBegin DEF BeginStart, BeginCompose, Goto, LocalsOK, LabelOK
    <3> QED BY <3>1, <3>2 DEF NoRecord
  <2>2. ASSUME NEW o \in Ops, BeginPoll(q, o) PROVE Goal
    <3>1. /\ cur'[q] = record[o] /\ record' = record /\ record[o].status # "none"
          /\ call'[q].kind = "poll" /\ call'[q].op = o
      BY <2>2 DEF BeginPoll, LocalsOK, NoCall, stores
    <3> QED BY <3>1 DEF CopyOf
  <2> QED BY <1>7, <2>1, <2>2 DEF Begin
<1>8. CASE Fetch(q)
  BY <1>8, <1>4 DEF Fetch, FetchFails, FetchJob, CopyOf
<1>9. CASE Proceed(q)
  <2>1. CASE RejectBusy(q) \/ ReserveBudget(q) \/ ReturnReservation(q)
             \/ ReturnRunLock(q) \/ SettleBudget(q) \/ ReleaseRunLock(q)
             \/ AuditTerminal(q) \/ UndoBudget(q) \/ UndoLock(q) \/ Render(q)
             \/ SaveComposite(q) \/ ReleaseComposeLock(q)
    BY <2>1, <1>4, <1>5, <1>6
       DEF RejectBusy, ReserveBudget, ReturnReservation, ReturnRunLock,
           SettleBudget, ReleaseRunLock, AuditTerminal, UndoBudget, UndoLock,
           Render, SaveComposite, ReleaseComposeLock, Labels
  <2>2. CASE ReplayRequest(q)
    <3>1. CASE Finish(q) \/ Continue(q, "acquire")
      BY <3>1, <1>4, <1>5 DEF Labels
    <3>2. ASSUME NEW o \in Ops, record[o].status \in Terminal,
                 call' = [call EXCEPT ![q] = [NoCall EXCEPT !.kind = "poll", !.op = o]],
                 cur' = [cur EXCEPT ![q] = record[o]]
          PROVE  Goal
      <4>1. call'[q].kind = "poll" /\ call'[q].op = o /\ cur'[q] = record[o]
        BY <3>2 DEF LocalsOK, NoCall
      <4> QED BY <2>2, <3>2, <4>1 DEF ReplayRequest, CopyOf, Terminal, stores
    <3> QED BY <2>2, <3>1, <3>2 DEF ReplayRequest, ByRequest
  <2>3. CASE AcquireRunLock(q)
    <3>1. call[q] \in Call /\ call'[q] = [call[q] EXCEPT !.op = nextOp]
      BY <2>3 DEF AcquireRunLock, LocalsOK
    <3>2. /\ call'[q].kind = call[q].kind /\ call'[q].target = call[q].target
          /\ call'[q].created = call[q].created /\ cur'[q] = cur[q]
      BY <2>3, <3>1 DEF Call, AcquireRunLock
    <3>3. /\ call[q].kind \in {"start", "compose"} /\ ~call[q].created
      BY <2>3 DEF AcquireRunLock, LabelOK
    <3> QED BY <3>2, <3>3 DEF CopyOK, CopyOf
  <2>4. CASE CreateRecord(q)
    <3>1. CASE Continue(q, "dup_budget")
      BY <3>1, <1>5 DEF Labels
    <3>2. CASE ~Continue(q, "dup_budget")
      <4>1. /\ record' = [record EXCEPT ![call[q].op] = NewRecord(call[q])]
            /\ cur'[q] = NewRecord(call[q])
            /\ call'[q] = [call[q] EXCEPT !.created = TRUE]
        BY <2>4, <3>2 DEF CreateRecord, LocalsOK
      <4>2. call[q].kind = "start" /\ call[q].op \in Ops /\ call[q] \in Call
        BY <2>4 DEF CreateRecord, LabelOK, Starting, LocalsOK
      <4>3. /\ call'[q].kind = "start" /\ call'[q].op = call[q].op
            /\ call'[q].created
        BY <4>1, <4>2 DEF Call
      <4>4. NewRecord(call[q]).status = "pending"
        BY DEF NewRecord
      <4>5. CopyOf(q)' = call[q].op
        BY <4>3 DEF CopyOf
      <4>6. record'[call[q].op] = NewRecord(call[q])
        BY <4>1, <4>2 DEF StoresOK
      <4> QED BY <4>1, <4>2, <4>3, <4>4, <4>5, <4>6
    <3> QED BY <3>1, <3>2
  <2>5. CASE SubmitJob(q)
    BY <2>5, <1>6 DEF SubmitJob, CopyOf
  <2>6. CASE SaveRecord(q)
    <3>1. CASE Finish(q) \/ Throw(q)
      BY <3>1, <1>4, <1>6
    <3>2. CASE ~Finish(q) /\ ~Throw(q)
      <4>1. PICK b \in BOOLEAN :
               /\ record' = [record EXCEPT
                                ![call[q].op] = Applied(cur[q], answer[q], b)]
               /\ cur'[q] = Applied(cur[q], answer[q], b) /\ call' = call
               /\ cur'[q].status \in Terminal
        BY <2>6, <3>2 DEF SaveRecord, LocalsOK
      <4>2. /\ call[q].kind \in {"start", "poll"} /\ call[q].op \in Ops
            /\ call[q].kind = "start" => call[q].created
        BY <2>6 DEF SaveRecord, LabelOK, Applying
      <4> QED BY <4>1, <4>2 DEF CopyOf, StoresOK, Terminal
    <3> QED BY <3>1, <3>2
  <2>7. CASE UndoRecord(q)
    <3>1. CASE Finish(q)
      BY <3>1, <1>4
    <3>2. CASE ~Finish(q)
      <4> DEFINE new == [record[call[q].op] EXCEPT !.status = "failed",
                                                   !.revision = 2]
      <4>1. /\ record' = [record EXCEPT ![call[q].op] = new]
            /\ cur'[q] = new /\ call' = call
        BY <2>7, <3>2 DEF UndoRecord, LocalsOK
      <4>2. /\ call[q].kind = "start" /\ call[q].op \in Ops /\ call[q].created
        BY <2>7 DEF UndoRecord, LabelOK, Starting
      <4>3. new.status = "failed"
        BY <4>2 DEF StoresOK, Record
      <4> QED BY <4>1, <4>2, <4>3 DEF CopyOf, StoresOK
    <3> QED BY <3>1, <3>2
  <2>8. CASE ListShots(q)
    <3>1. CASE Finish(q)
      BY <3>1, <1>4
    <3>2. CASE ~Finish(q)
      <4>1. PICK o \in Ops :
              /\ CompositionTarget(call[q].task, o)
              /\ call' = [call EXCEPT ![q].target = o]
              /\ cur' = [cur EXCEPT ![q] = record[o]]
        BY <2>8, <3>2 DEF ListShots
      <4>2. /\ call[q] \in Call /\ call[q].kind = "compose"
            /\ call'[q] = [call[q] EXCEPT !.target = o] /\ cur'[q] = record[o]
        BY <2>8, <4>1 DEF ListShots, LabelOK, LocalsOK
      <4>3. call'[q].kind = "compose" /\ call'[q].target = o
        BY <4>2 DEF Call
      <4> QED BY <2>8, <4>1, <4>2, <4>3
              DEF ListShots, CopyOf, CompositionTarget, SucceededShots, stores
    <3> QED BY <3>1, <3>2
  <2> QED BY <1>9, <2>1, <2>2, <2>3, <2>4, <2>5, <2>6, <2>7, <2>8 DEF Proceed
<1>10. CASE StoreFails(q)
  BY <1>10, <1>6 DEF StoreFails
<1> QED BY <1>1, <1>2, <1>3, <1>7, <1>8, <1>9, <1>10
        DEF Next, ProcStep, ProviderFinishes, TaskChanges, UpdateLimit

\* What a step does to the reservation of operation o: the start() that owns
\* it holds it, and whoever settles it charges or releases it.
Holds(p, o) ==
    /\ pc[p] = "reserve" /\ call[p].op = o
    /\ Available(call[p].account) >= Price
    /\ reservation' = [reservation EXCEPT ![o] = "held"]
    /\ pc'[p] = "create"
    /\ UNCHANGED <<account, limit, runLock>>
Settles(o) ==
    /\ reservation[o] = "held"
    /\ \E s \in {"charged", "released"} :
          reservation' = [reservation EXCEPT ![o] = s]
    /\ UNCHANGED <<account, limit, runLock>>

\* Nothing else writes the ledger.
LEMMA ReservationStep ==
    ASSUME TypeInv, Next
    PROVE  \/ reservation' = reservation
           \/ \E o \in Ops : Settles(o)
           \/ \E p \in Procs : Holds(p, call[p].op)
<1> DEFINE Goal == \/ reservation' = reservation
                   \/ \E o \in Ops : Settles(o)
                   \/ \E p \in Procs : Holds(p, call[p].op)
<1> USE DEF TypeInv
<1>1. CASE reservation' = reservation
  BY <1>1
<1>2. ASSUME NEW p \in Procs, ReserveBudget(p) PROVE Goal
  <2>1. CASE Continue(p, "create")
    BY <1>2, <2>1, ContinueIsLocal DEF ReserveBudget, Holds, Labels
  <2>2. CASE ~Continue(p, "create")
    BY <1>2, <2>2 DEF ReserveBudget
  <2> QED BY <2>1, <2>2
<1>3. ASSUME NEW p \in Procs,
             ReturnReservation(p) \/ SettleBudget(p) \/ UndoBudget(p)
      PROVE  Goal
  <2>1. call[p].op \in Ops
    BY <1>3 DEF ReturnReservation, SettleBudget, UndoBudget, LabelOK, Starting,
                Applying
  <2>2. CASE reservation[call[p].op] = "held"
    BY <1>3, <2>1, <2>2
       DEF ReturnReservation, SettleBudget, UndoBudget, Settlement, Settles
  <2>3. CASE reservation[call[p].op] # "held"
    <3>1. UndoBudget(p) => reservation' = reservation
      BY <2>3, <2>1 DEF UndoBudget, StoresOK
    <3> QED BY <1>3, <2>3, <3>1 DEF ReturnReservation, SettleBudget
  <2> QED BY <2>2, <2>3
<1>4. \/ reservation' = reservation
      \/ \E p \in Procs : \/ ReserveBudget(p) \/ ReturnReservation(p)
                          \/ SettleBudget(p) \/ UndoBudget(p)
  BY ZenonT(60) DEF Next, Begin, BeginStart, BeginPoll, BeginCompose, Fetch, FetchFails,
         FetchJob, StoreFails, Crash, ProviderFinishes, TaskChanges, UpdateLimit,
         Proceed, ReplayRequest, AcquireRunLock, RejectBusy, CreateRecord,
         ReturnRunLock, SubmitJob, SaveRecord, UndoRecord, SaveComposite,
         ReleaseRunLock, AuditTerminal, UndoLock, ListShots, Render,
         ReleaseComposeLock, stores
<1> QED BY <1>1, <1>2, <1>3, <1>4

\* The owner of an operation is stamped on it when its lock is acquired.
Acquires(p) ==
    /\ pc[p] = "acquire" /\ nextOp \in Ops
    /\ runLock[call[p].account] = Free
    /\ runLock' = [runLock EXCEPT ![call[p].account] = nextOp]
    /\ account' = [account EXCEPT ![nextOp] = call[p].account]
    /\ nextOp' = nextOp + 1
    /\ call' = [call EXCEPT ![p].op = nextOp]
    /\ UNCHANGED <<reservation, record, limit>>

\* Nothing else hands out operations.
LEMMA AccountStep ==
    ASSUME TypeInv, Next
    PROVE  \/ UNCHANGED <<account, nextOp>>
           \/ \E p \in Procs : Acquires(p)
<1>1. \/ UNCHANGED <<account, nextOp>>
      \/ \E p \in Procs : AcquireRunLock(p)
  <2>1. ASSUME NEW p \in Procs, Proceed(p), ~AcquireRunLock(p)
        PROVE  UNCHANGED <<account, nextOp>>
    BY <2>1
       DEF Proceed, ReplayRequest, RejectBusy, ReserveBudget, CreateRecord,
           ReturnReservation, ReturnRunLock, SubmitJob, SettleBudget, SaveRecord,
           UndoRecord, SaveComposite, ReleaseRunLock, AuditTerminal, UndoBudget,
           UndoLock, ListShots, Render, ReleaseComposeLock, stores
  <2> QED BY <2>1
          DEF Next, Begin, BeginStart, BeginPoll, BeginCompose, Fetch, FetchFails,
              FetchJob, StoreFails, Crash, ProviderFinishes, TaskChanges,
              UpdateLimit, stores
<1> QED BY <1>1 DEF AcquireRunLock, Acquires, SlotFree

\* What a step does to the arguments of request q.
SameArguments(q) ==
    /\ call'[q].kind = call[q].kind /\ call'[q].account = call[q].account
    /\ call'[q].task = call[q].task /\ call'[q].revision = call[q].revision

\* The arguments of a request change in few ways: it returns, it becomes a
\* poll, it begins, it acquires a lock, it creates its job, it picks its target.
LEMMA CallStep ==
    ASSUME TypeInv, Next, NEW q \in Procs
    PROVE  \/ call'[q] = call[q]
           \/ call'[q].kind \in {"none", "poll"}
           \/ /\ BeginStart(q) \/ BeginCompose(q)
              /\ call'[q].op = 0
           \/ /\ SameArguments(q) /\ Acquires(q)
              /\ call'[q].op = nextOp /\ ~call'[q].created
           \/ /\ SameArguments(q) /\ call'[q].op = call[q].op
              /\ call'[q].created
           \/ SameArguments(q) /\ call[q].kind = "compose" /\ call'[q].op = 0
<1> DEFINE Goal ==
      \/ call'[q] = call[q]
      \/ call'[q].kind \in {"none", "poll"}
      \/ /\ BeginStart(q) \/ BeginCompose(q)
         /\ call'[q].op = 0
      \/ /\ SameArguments(q) /\ Acquires(q)
         /\ call'[q].op = nextOp /\ ~call'[q].created
      \/ /\ SameArguments(q) /\ call'[q].op = call[q].op
         /\ call'[q].created
      \/ SameArguments(q) /\ call[q].kind = "compose" /\ call'[q].op = 0
<1> USE DEF TypeInv
<1>1. CASE UNCHANGED call
  BY <1>1
<1>2. CASE Finish(q)
  BY <1>2, FinishIsLocal DEF NoCall
<1>3. CASE \E l \in Labels : Continue(q, l)
  BY <1>3, ContinueIsLocal
<1>4. CASE Throw(q)
  <2>1. Finish(q) \/ \E l \in Labels : Continue(q, l)
    BY <1>4 DEF Throw, Catch, Labels
  <2> QED BY <2>1, <1>2, <1>3
<1>5. ASSUME NEW p \in Procs \ {q}, ProcStep(p) PROVE Goal
  BY <1>5, StepIsLocal DEF Locally
<1>6. CASE Crash
  BY <1>6 DEF Crash, NoCall
<1>7. CASE Begin(q)
  <2>1. CASE BeginStart(q) \/ BeginCompose(q)
    BY <1>7, <2>1, LabelBegin DEF BeginStart, BeginCompose, Goto, LocalsOK, LabelOK
  <2>2. ASSUME NEW o \in Ops, BeginPoll(q, o) PROVE Goal
    BY <2>2 DEF BeginPoll, LocalsOK, NoCall
  <2> QED BY <1>7, <2>1, <2>2 DEF Begin
<1>8. CASE Fetch(q)
  BY <1>1, <1>2, <1>8 DEF Fetch, FetchFails, FetchJob
<1>9. CASE StoreFails(q)
  BY <1>9, <1>4 DEF StoreFails
<1>10. CASE Proceed(q)
  <2>1. CASE RejectBusy(q) \/ ReserveBudget(q) \/ ReturnReservation(q)
             \/ ReturnRunLock(q) \/ SettleBudget(q) \/ ReleaseRunLock(q)
             \/ AuditTerminal(q) \/ UndoBudget(q) \/ UndoLock(q) \/ Render(q)
             \/ SaveComposite(q) \/ ReleaseComposeLock(q)
    BY <2>1, <1>2, <1>3, <1>4
       DEF RejectBusy, ReserveBudget, ReturnReservation, ReturnRunLock,
           SettleBudget, ReleaseRunLock, AuditTerminal, UndoBudget, UndoLock,
           Render, SaveComposite, ReleaseComposeLock, Labels
  <2>2. CASE SubmitJob(q) \/ SaveRecord(q) \/ UndoRecord(q)
    BY <2>2, <1>1, <1>2, <1>4 DEF SubmitJob, SaveRecord, UndoRecord
  <2>3. CASE ReplayRequest(q)
    <3>1. CASE Finish(q) \/ Continue(q, "acquire")
      BY <3>1, <1>2, <1>3 DEF Labels
    <3>2. ASSUME NEW o \in Ops,
                 call' = [call EXCEPT ![q] = [NoCall EXCEPT !.kind = "poll", !.op = o]]
          PROVE  Goal
      BY <3>2 DEF LocalsOK, NoCall
    <3> QED BY <2>3, <3>1, <3>2 DEF ReplayRequest, ByRequest
  <2>4. CASE AcquireRunLock(q)
    <3>1. call[q] \in Call /\ call'[q] = [call[q] EXCEPT !.op = nextOp]
      BY <2>4 DEF AcquireRunLock, LocalsOK
    <3>2. /\ SameArguments(q) /\ call'[q].op = nextOp
          /\ call'[q].created = call[q].created
      BY <3>1 DEF Call, SameArguments
    <3> QED BY <2>4, <3>2 DEF AcquireRunLock, Acquires, SlotFree, LabelOK
  <2>5. CASE CreateRecord(q)
    <3>1. CASE Continue(q, "dup_budget")
      BY <3>1, <1>3 DEF Labels
    <3>2. CASE ~Continue(q, "dup_budget")
      <4>1. call'[q] = [call[q] EXCEPT !.created = TRUE] /\ call[q] \in Call
        BY <2>5, <3>2 DEF CreateRecord, LocalsOK
      <4> QED BY <4>1 DEF Call, SameArguments
    <3> QED BY <3>1, <3>2
  <2>6. CASE ListShots(q)
    <3>1. CASE Finish(q)
      BY <3>1, <1>2
    <3>2. CASE ~Finish(q)
      <4>1. PICK o \in Ops : call' = [call EXCEPT ![q].target = o]
        BY <2>6, <3>2 DEF ListShots
      <4>2. call[q] \in Call /\ call'[q] = [call[q] EXCEPT !.target = o]
        BY <4>1 DEF LocalsOK
      <4>3. SameArguments(q) /\ call'[q].op = call[q].op
        BY <4>2 DEF Call, SameArguments
      <4> QED BY <2>6, <4>3 DEF ListShots, LabelOK
    <3> QED BY <3>1, <3>2
  <2> QED BY <1>10, <2>1, <2>2, <2>3, <2>4, <2>5, <2>6 DEF Proceed
<1> QED BY <1>1, <1>5, <1>6, <1>7, <1>8, <1>9, <1>10
        DEF Next, ProcStep, ProviderFinishes, TaskChanges, UpdateLimit

\* A request owns what it owned before, or acquired a lock in this step.
LEMMA OwnStep ==
    ASSUME TypeInv, Next, NEW q \in Procs, Owns(q)'
    PROVE  \/ /\ Owns(q) /\ call'[q].op = call[q].op
              /\ call'[q].kind = call[q].kind
              /\ call'[q].account = call[q].account
              /\ call[q].created => call'[q].created
           \/ /\ Acquires(q) /\ call'[q].op = nextOp /\ ~call'[q].created
              /\ call'[q].account = call[q].account
              /\ call'[q].kind = call[q].kind
  BY CallStep DEF Owns, SameArguments

\* A copy stays current, or becomes older than the record.
LEMMA CopyPreserved ==
    ASSUME TypeInv, OwnInv, Next, NEW q \in Procs
    PROVE  CopyOK(q)'
<1> USE DEF TypeInv, OwnInv
<1>1. CASE /\ cur'[q] = cur[q] /\ CopyOf(q)' = CopyOf(q)
           /\ call'[q].kind = call[q].kind
           /\ call'[q].created = call[q].created
  <2> DEFINE o == CopyOf(q)
  <2>1. CASE cur[q].status = "none"
    BY <1>1, <2>1 DEF CopyOK
  <2>2. CASE cur[q].status # "none"
    <3>1. /\ o \in Ops /\ record[o].status # "none"
          /\ cur[q].revision <= record[o].revision
          /\ cur[q].revision = record[o].revision => cur[q] = record[o]
      BY <2>2 DEF CopyOK
    <3>2. record[o] \in Record /\ cur[q] \in Record
      BY <3>1 DEF StoresOK, LocalsOK
    <3>3. record[o].revision \in Nat /\ cur[q].revision \in Nat
      BY <3>2 DEF Record
    <3>4. ~\E p \in Procs : Creates(p, o)
      BY <3>1 DEF Creates
    <3>5. CASE record'[o] = record[o]
      BY <1>1, <3>1, <3>5 DEF CopyOK
    <3>6. CASE Saves(o)
      <4>1. /\ record'[o].status # "none"
            /\ cur[q].revision < record'[o].revision
        BY <3>1, <3>3, <3>6 DEF Saves
      <4>2. cur[q].revision <= record'[o].revision
              /\ cur[q].revision # record'[o].revision
        BY <3>3, <3>6, <3>1 DEF Saves
      <4> QED BY <1>1, <3>1, <4>1, <4>2 DEF CopyOK
    <3> QED BY <3>1, <3>4, <3>5, <3>6, RecordStep
  <2> QED BY <2>1, <2>2
<1>2. CASE /\ cur'[q].status = "none"
           /\ call'[q].kind = "start" => ~call'[q].created
  BY <1>2 DEF CopyOK
<1>3. CASE /\ CopyOf(q)' \in Ops
           /\ cur'[q] = record'[CopyOf(q)'] /\ cur'[q].status # "none"
           /\ call'[q].kind = "start" => call'[q].created
  <2>1. cur'[q] \in Record
    BY LocalStep DEF LocalsOK
  <2>2. cur'[q].revision <= cur'[q].revision
    BY <2>1 DEF Record
  <2> QED BY <1>3, <2>2 DEF CopyOK
<1> QED BY <1>1, <1>2, <1>3, CopyStep

\* Revision 1 stays the revision of the created, pending job.
LEMMA RecordPreserved ==
    ASSUME TypeInv, OwnInv, Next
    PROVE  RecordOK'
<1> USE DEF TypeInv, OwnInv
<1> SUFFICES ASSUME NEW o \in Ops, record'[o].status # "none"
             PROVE  /\ record'[o].revision >= 1
                    /\ record'[o].revision = 1 => record'[o].status = "pending"
  BY DEF RecordOK
<1>1. CASE record'[o] = record[o]
  BY <1>1 DEF RecordOK
<1>2. CASE Saves(o)
  <2>1. record[o] \in Record
    BY DEF StoresOK
  <2>2. record[o].revision \in Nat /\ record[o].revision >= 1
    BY <1>2, <2>1 DEF Saves, RecordOK, Record
  <2> QED BY <1>2, <2>2 DEF Saves
<1>3. CASE \E p \in Procs : Creates(p, o)
  <2>1. PICK p \in Procs : Creates(p, o)
    BY <1>3
  <2>2. record'[o] = NewRecord(call[p])
    BY <2>1 DEF Creates, StoresOK
  <2> QED BY <2>2 DEF NewRecord
<1> QED BY <1>1, <1>2, <1>3, RecordStep

\* Operations not handed out stay without a trace.
LEMMA UnusedPreserved ==
    ASSUME TypeInv, OwnInv, Next
    PROVE  UnusedOK'
<1> USE DEF TypeInv, OwnInv
<1>0. ASSUME NEW o \in Ops, o < nextOp' PROVE account'[o] \in Accounts
  <2>1. CASE UNCHANGED <<account, nextOp>>
    BY <1>0, <2>1 DEF UnusedOK
  <2>2. ASSUME NEW p \in Procs, Acquires(p) PROVE account'[o] \in Accounts
    <3>1. call[p].account \in Accounts
      BY <2>2 DEF Acquires, LabelOK
    <3>2. o = nextOp \/ o < nextOp
      BY <1>0, <2>2, BoundTypes DEF Acquires, StoresOK, Ops
    <3> QED BY <2>2, <3>1, <3>2 DEF Acquires, StoresOK, UnusedOK
  <2> QED BY <2>1, <2>2, AccountStep
<1> SUFFICES ASSUME NEW o \in Ops, o >= nextOp'
             PROVE  reservation'[o] = "none" /\ record'[o].status = "none"
  BY <1>0 DEF UnusedOK
<1>1. nextOp \in Nat /\ o \in Nat
  BY BoundTypes DEF StoresOK, Ops
<1>2. o >= nextOp
  <2>1. UNCHANGED nextOp \/ nextOp' = nextOp + 1
    BY AccountStep DEF Acquires
  <2> QED BY <1>1, <2>1
<1>3. reservation[o] = "none" /\ record[o].status = "none"
  BY <1>2 DEF UnusedOK
<1>4. \A p \in Procs : pc[p] \in {"reserve", "create"} => call[p].op # o
  BY <1>1, <1>2 DEF OwnerOK, Owns, LabelOK, Starting, Ops
<1>5. reservation'[o] = "none"
  <2>1. CASE \E x \in Ops : Settles(x)
    BY <1>3, <2>1 DEF Settles, StoresOK
  <2>2. CASE \E p \in Procs : Holds(p, call[p].op)
    BY <1>3, <1>4, <2>2 DEF Holds, StoresOK
  <2> QED BY <1>3, <2>1, <2>2, ReservationStep
<1>6. record'[o].status = "none"
  BY <1>3, <1>4, RecordStep DEF Saves, Creates
<1> QED BY <1>5, <1>6

\* An operation keeps its one owner.
LEMMA OwnerPreserved ==
    ASSUME TypeInv, OwnInv, Next, NEW q \in Procs
    PROVE  OwnerOK(q)'
<1> USE DEF TypeInv, OwnInv
<1> SUFFICES ASSUME Owns(q)'
             PROVE  /\ call'[q].op < nextOp'
                    /\ account'[call'[q].op] = call'[q].account
                    /\ \A r \in Procs \ {q} :
                          Owns(r)' => call'[r].op # call'[q].op
                    /\ call'[q].kind = "compose" \/ ~call'[q].created =>
                          record'[call'[q].op].status = "none"
  BY DEF OwnerOK
<1>0. nextOp \in Nat /\ \A r \in Procs : call[r].op \in 0..MaxOps
  BY BoundTypes DEF StoresOK, LocalsOK, Call
<1>1. CASE /\ Owns(q) /\ call'[q].op = call[q].op
           /\ call'[q].kind = call[q].kind
           /\ call'[q].account = call[q].account
           /\ call[q].created => call'[q].created
  <2> DEFINE o == call[q].op
  <2>1. o \in Ops /\ o < nextOp /\ account[o] = call[q].account
    BY <1>0, <1>1, BoundTypes DEF OwnerOK, Owns, Ops
  <2>2. o < nextOp' /\ account'[o] = account[o]
    BY <1>0, <2>1, AccountStep DEF Acquires, StoresOK
  <2>3. ASSUME NEW r \in Procs \ {q}, Owns(r)' PROVE call'[r].op # o
    <3>1. CASE Owns(r) /\ call'[r].op = call[r].op
      BY <1>1, <3>1 DEF OwnerOK
    <3>2. CASE call'[r].op = nextOp
      BY <1>0, <2>1, <3>2
    <3> QED BY <2>3, <3>1, <3>2, OwnStep
  <2>4. ASSUME call'[q].kind = "compose" \/ ~call'[q].created
        PROVE  record'[o].status = "none"
    <3>1. record[o].status = "none"
      BY <1>1, <2>4 DEF OwnerOK
    <3>2. ~\E p \in Procs : Creates(p, o)
      <4> SUFFICES ASSUME NEW p \in Procs, Creates(p, o) PROVE FALSE
        OBVIOUS
      <4>1. call[p].kind = "start" /\ Owns(p) /\ call[p].op = o
        BY <2>1, BoundTypes DEF Creates, LabelOK, Starting, Owns, Ops
      <4>2. p = q
        BY <1>1, <4>1 DEF OwnerOK
      <4>3. call'[q] = [call[q] EXCEPT !.created = TRUE] /\ call[q] \in Call
        BY <4>2 DEF Creates, LocalsOK
      <4>4. call'[q].created
        BY <4>3 DEF Call
      <4> QED BY <1>1, <2>4, <4>1, <4>2, <4>4
    <3> QED BY <2>1, <3>1, <3>2, RecordStep DEF Saves
  <2> QED BY <1>1, <2>1, <2>2, <2>3, <2>4
<1>2. CASE /\ Acquires(q) /\ call'[q].op = nextOp /\ ~call'[q].created
           /\ call'[q].account = call[q].account
           /\ call'[q].kind = call[q].kind
  <2>1. nextOp \in Ops /\ nextOp' = nextOp + 1
    BY <1>2 DEF Acquires
  <2>2. account'[nextOp] = call[q].account
    BY <1>2, <2>1 DEF Acquires, StoresOK
  <2>3. ASSUME NEW r \in Procs \ {q}, Owns(r)' PROVE call'[r].op # nextOp
    <3>1. call'[r] = call[r]
      BY <1>2 DEF Acquires, LocalsOK
    <3>2. call[r].op < nextOp
      BY <2>3, <3>1 DEF OwnerOK, Owns
    <3> QED BY <1>0, <3>1, <3>2
  <2>4. record'[nextOp].status = "none"
    BY <1>0, <1>2, <2>1 DEF Acquires, UnusedOK
  <2> QED BY <1>0, <1>2, <2>1, <2>2, <2>3, <2>4
<1> QED BY <1>1, <1>2, OwnStep

\* Ownership and copies are right at the start,
LEMMA InitOwnInv == Init => OwnInv
  BY DEF Init, OwnInv, OwnerOK, Owns, CopyOK, UnusedOK, RecordOK, NoCall, NoRecord,
         Ops

\* and every step keeps them right.
LEMMA NextOwnInv == TypeInv /\ OwnInv /\ [Next]_vars => OwnInv'
<1> SUFFICES ASSUME TypeInv, OwnInv, [Next]_vars PROVE OwnInv'
  OBVIOUS
<1>1. CASE Next
  BY <1>1, CopyPreserved, RecordPreserved, UnusedPreserved, OwnerPreserved
     DEF OwnInv
<1>2. CASE UNCHANGED vars
  BY <1>2 DEF OwnInv, OwnerOK, Owns, CopyOK, CopyOf, UnusedOK, RecordOK, vars,
              stores, bounds
<1> QED BY <1>1, <1>2

-----------------------------------------------------------------------------
(* The third layer: what the persisted jobs say.                           *)

\* An outcome once audited is never audited differently.
LEMMA AuditStep ==
    ASSUME TypeInv, Next, NEW o \in Ops, audit[o] # "none"
    PROVE  audit'[o] = audit[o]
<1>1. CASE audit' = audit
  BY <1>1
<1>2. ASSUME NEW p \in Procs, AuditTerminal(p) PROVE audit'[o] = audit[o]
  BY <1>2 DEF AuditTerminal, TypeInv, StoresOK
<1>3. \/ audit' = audit
      \/ \E p \in Procs : AuditTerminal(p)
  <2>1. ASSUME NEW p \in Procs, Proceed(p), ~AuditTerminal(p)
        PROVE  audit' = audit
    BY <2>1
       DEF Proceed, ReplayRequest, AcquireRunLock, RejectBusy, ReserveBudget,
           CreateRecord, ReturnReservation, ReturnRunLock, SubmitJob,
           SettleBudget, SaveRecord, UndoRecord, SaveComposite, ReleaseRunLock,
           UndoBudget, UndoLock, ListShots, Render, ReleaseComposeLock, stores
  <2> QED BY <2>1
          DEF Next, Begin, BeginStart, BeginPoll, BeginCompose, Fetch, FetchFails,
              FetchJob, StoreFails, Crash, ProviderFinishes, TaskChanges,
              UpdateLimit, stores
<1> QED BY <1>1, <1>2, <1>3

\* A generation that was persisted as succeeded or failed stays so, and its
\* audit never changes, whatever stale copies polls, undos and compositions
\* hold: only a copy at the record's own revision is written back.
THEOREM OutcomesAreFinal == Spec => TerminalIsFinal
<1> DEFINE Final == \A o \in Ops :
             /\ record[o].status \in Terminal =>
                  record'[o].status = record[o].status
             /\ audit[o] # "none" => audit'[o] = audit[o]
<1>1. TypeInv /\ OwnInv /\ [Next]_vars => [Final]_vars
  BY RecordStep, AuditStep DEF Saves, Creates, Terminal
<1>2. TypeInv /\ OwnInv /\ [Next]_vars => (TypeInv /\ OwnInv)'
  BY NextTypeInv, NextOwnInv
<1>3. Init => TypeInv /\ OwnInv
  BY InitTypeInv, InitOwnInv
<1> QED BY <1>1, <1>2, <1>3, PTL DEF Spec, TerminalIsFinal

\* The provider is only ever asked to run the operation of a persisted job.
LEMMA JobStep ==
    ASSUME TypeInv, Next, NEW o \in Ops, job'[o] # "none"
    PROVE  \/ job[o] # "none"
           \/ \E p \in Procs : pc[p] = "submit" /\ call[p].op = o
<1>1. CASE job' = job
  BY <1>1
<1>2. ASSUME NEW p \in Procs, SubmitJob(p)
      PROVE  job[o] # "none" \/ (pc[p] = "submit" /\ call[p].op = o)
  BY <1>2 DEF SubmitJob, TypeInv, StoresOK
<1>3. ASSUME NEW x \in Ops, ProviderFinishes(x) PROVE job[o] # "none"
  BY <1>3 DEF ProviderFinishes, TypeInv, StoresOK
<1>4. \/ job' = job
      \/ \E p \in Procs : SubmitJob(p)
      \/ \E x \in Ops : ProviderFinishes(x)
  <2>1. ASSUME NEW p \in Procs, Proceed(p), ~SubmitJob(p)
        PROVE  job' = job
    BY <2>1
       DEF Proceed, ReplayRequest, AcquireRunLock, RejectBusy, ReserveBudget,
           CreateRecord, ReturnReservation, ReturnRunLock, AuditTerminal,
           SettleBudget, SaveRecord, UndoRecord, SaveComposite, ReleaseRunLock,
           UndoBudget, UndoLock, ListShots, Render, ReleaseComposeLock, stores
  <2> QED BY <2>1
          DEF Next, Begin, BeginStart, BeginPoll, BeginCompose, Fetch, FetchFails,
              FetchJob, StoreFails, Crash, TaskChanges, UpdateLimit, stores
<1> QED BY <1>1, <1>2, <1>3, <1>4

\* At most one job is recorded for a request of an actor.
OneRecordPerRequest ==
    \A o, q \in Ops :
        /\ record[o].status # "none" /\ record[q].status # "none"
        /\ record[o].actor = record[q].actor
        /\ record[o].request = record[q].request
        => o = q

\* Only the operation of a persisted job reaches the provider.
JobOK == \A o \in Ops : job[o] # "none" => record[o].status # "none"

JobInv == JobOK /\ OneRecordPerRequest

\* One job per request, and submitted only when persisted, is kept.
LEMMA NextJobInv == TypeInv /\ OwnInv /\ JobInv /\ [Next]_vars => JobInv'
<1> SUFFICES ASSUME TypeInv, OwnInv, JobInv, [Next]_vars PROVE JobInv'
  OBVIOUS
<1>1. CASE Next
  <2>1. ASSUME NEW o \in Ops, record[o].status # "none"
        PROVE  record'[o].status # "none" /\ SameIdentity(record'[o], record[o])
    BY <1>1, <2>1, RecordStep DEF Saves, Creates, SameIdentity
  <2>2. JobOK'
    <3> SUFFICES ASSUME NEW o \in Ops, job'[o] # "none"
                 PROVE  record'[o].status # "none"
      BY DEF JobOK
    <3>1. CASE job[o] # "none"
      BY <2>1, <3>1 DEF JobInv, JobOK
    <3>2. ASSUME NEW p \in Procs, pc[p] = "submit", call[p].op = o
          PROVE  record'[o].status # "none"
      <4>1. call[p].kind = "start" /\ call[p].created
        BY <3>2 DEF TypeInv, LabelOK, Starting
      <4>2. record[o].status # "none"
        BY <3>2, <4>1 DEF OwnInv, CopyOK, CopyOf
      <4> QED BY <2>1, <4>2
    <3> QED BY <1>1, <3>1, <3>2, JobStep
  <2>3. OneRecordPerRequest'
    <3> SUFFICES ASSUME NEW o \in Ops, NEW q \in Ops,
                        record'[o].status # "none", record'[q].status # "none",
                        record'[o].actor = record'[q].actor,
                        record'[o].request = record'[q].request,
                        o # q
                 PROVE  FALSE
      BY DEF OneRecordPerRequest
    <3>1. CASE record[o].status # "none" /\ record[q].status # "none"
      BY <2>1, <3>1 DEF JobInv, OneRecordPerRequest, SameIdentity
    <3>2. ASSUME NEW x \in Ops, NEW y \in Ops, x # y, record[x].status = "none",
                 record'[x].status # "none", record'[y].status # "none",
                 record'[x].actor = record'[y].actor,
                 record'[x].request = record'[y].request
          PROVE  FALSE
      <4>1. PICK p \in Procs : Creates(p, x)
        BY <1>1, <3>2, RecordStep DEF Saves
      <4>2. record'[x] = NewRecord(call[p]) /\ record'[y] = record[y]
        BY <3>2, <4>1 DEF Creates, TypeInv, StoresOK
      <4>3. /\ record[y].actor = call[p].account
            /\ record[y].request = call[p].request
        BY <3>2, <4>2 DEF NewRecord
      <4> QED BY <3>2, <4>1, <4>2, <4>3 DEF Creates, ByRequest
    <3> QED BY <3>1, <3>2
  <2> QED BY <2>2, <2>3 DEF JobInv
<1>2. CASE UNCHANGED vars
  BY <1>2 DEF JobInv, JobOK, OneRecordPerRequest, vars, stores
<1> QED BY <1>1, <1>2

\* A request of an actor, sent as often and as concurrently as one likes,
\* reaches the provider at most once: the job is persisted under the unique
\* key (actor, request) before it is submitted.
THEOREM SubmittedOnce == Spec => []RequestSubmittedOnce
<1> DEFINE Inv == TypeInv /\ OwnInv /\ JobInv
<1>1. Init => Inv
  BY InitTypeInv, InitOwnInv
     DEF Init, JobInv, JobOK, OneRecordPerRequest, NoRecord
<1>2. Inv /\ [Next]_vars => Inv'
  BY NextTypeInv, NextOwnInv, NextJobInv
<1>3. Inv => RequestSubmittedOnce
  BY DEF JobInv, JobOK, OneRecordPerRequest, RequestSubmittedOnce
<1> QED BY <1>1, <1>2, <1>3, PTL DEF Spec
-----------------------------------------------------------------------------
(* The fourth layer: what a job cites.                                     *)

TaskOK == \A o \in Ops : record[o].status # "none" => record[o].task \in Tasks

\* A start() that was let in works on the revision it was authorized at.
AuthorizedOK(p) ==
    call[p].kind = "start" =>
        /\ call[p].task \in Tasks
        /\ call[p].revision \in 1..Revision(call[p].task)
        /\ versions[call[p].task][call[p].revision] =
              [owner |-> call[p].account, ready |-> TRUE]

CiteInv ==
    /\ \A p \in Procs : AuthorizedOK(p)
    /\ TaskOK /\ RecordCitesAuthorizedRevision

\* A version of a task once written is never rewritten.
LEMMA VersionStep ==
    ASSUME TypeInv, Next, NEW t \in Tasks, NEW n \in 1..Len(versions[t])
    PROVE  n \in 1..Len(versions'[t]) /\ versions'[t][n] = versions[t][n]
<1>1. versions[t] \in Seq(Version)
  BY DEF TypeInv, StoresOK
<1>2. CASE versions' = versions
  BY <1>2
<1>3. ASSUME NEW x \in Tasks, TaskChanges(x)
      PROVE  n \in 1..Len(versions'[t]) /\ versions'[t][n] = versions[t][n]
  <2>1. PICK v \in Version : versions' = [versions EXCEPT ![x] = Append(@, v)]
    BY <1>3 DEF TaskChanges
  <2>2. versions'[t] = versions[t] \/ versions'[t] = Append(versions[t], v)
    BY <2>1 DEF TypeInv, StoresOK
  <2> QED BY <1>1, <2>2
<1>4. \/ versions' = versions
      \/ \E x \in Tasks : TaskChanges(x)
  <2>1. ASSUME NEW p \in Procs, Proceed(p)
        PROVE  versions' = versions
    BY <2>1
       DEF Proceed, ReplayRequest, AcquireRunLock, RejectBusy, ReserveBudget,
           CreateRecord, ReturnReservation, ReturnRunLock, AuditTerminal,
           SubmitJob, SettleBudget, SaveRecord, UndoRecord, SaveComposite,
           ReleaseRunLock, UndoBudget, UndoLock, ListShots, Render,
           ReleaseComposeLock, stores
  <2> QED BY <2>1
          DEF Next, Begin, BeginStart, BeginPoll, BeginCompose, Fetch, FetchFails,
              FetchJob, StoreFails, Crash, ProviderFinishes, UpdateLimit, stores
<1> QED BY <1>2, <1>3, <1>4

\* A start() keeps the revision it was authorized at.
LEMMA AuthorizedPreserved ==
    ASSUME TypeInv, CiteInv, Next, NEW q \in Procs
    PROVE  AuthorizedOK(q)'
<1> SUFFICES ASSUME call'[q].kind = "start"
             PROVE  /\ call'[q].task \in Tasks
                    /\ call'[q].revision \in 1..Len(versions'[call'[q].task])
                    /\ versions'[call'[q].task][call'[q].revision] =
                          [owner |-> call'[q].account, ready |-> TRUE]
  BY DEF AuthorizedOK, Revision
<1>1. CASE SameArguments(q)
  <2>1. /\ call[q].task \in Tasks
        /\ call[q].revision \in 1..Len(versions[call[q].task])
        /\ versions[call[q].task][call[q].revision] =
              [owner |-> call[q].account, ready |-> TRUE]
    BY <1>1 DEF CiteInv, AuthorizedOK, SameArguments, Revision
  <2>2. /\ call[q].revision \in 1..Len(versions'[call[q].task])
        /\ versions'[call[q].task][call[q].revision] =
              versions[call[q].task][call[q].revision]
    BY <2>1, VersionStep
  <2> QED BY <1>1, <2>1, <2>2 DEF SameArguments
<1>2. CASE BeginStart(q)
  <2>1. PICK t \in Tasks, r \in Requests, s \in Shots :
          /\ CurrentVersion(t).ready
          /\ call' = [call EXCEPT ![q] =
               [NoCall EXCEPT !.kind = "start", !.task = t, !.request = r,
                              !.account = CurrentVersion(t).owner, !.shot = s,
                              !.revision = Revision(t)]]
    BY <1>2 DEF BeginStart
  <2>2. /\ call'[q].task = t /\ call'[q].revision = Revision(t)
        /\ call'[q].account = CurrentVersion(t).owner
    BY <2>1 DEF TypeInv, LocalsOK, NoCall
  <2>3. Revision(t) \in Nat \ {0} /\ CurrentVersion(t) \in Version
    BY VersionType DEF TypeInv
  <2>4. CurrentVersion(t) = [owner |-> CurrentVersion(t).owner, ready |-> TRUE]
    BY <2>1, <2>3 DEF Version
  <2>5. versions' = versions
    BY <1>2 DEF BeginStart, stores
  <2> QED BY <2>2, <2>3, <2>4, <2>5 DEF Revision, CurrentVersion
<1>3. CASE BeginCompose(q)
  <2>1. PICK t \in Tasks, r \in Requests :
          call' = [call EXCEPT ![q] =
            [NoCall EXCEPT !.kind = "compose", !.task = t, !.request = r,
                           !.account = CurrentVersion(t).owner,
                           !.revision = Revision(t)]]
    BY <1>3 DEF BeginCompose
  <2>2. call'[q].kind = "compose"
    BY <2>1 DEF TypeInv, LocalsOK, NoCall
  <2> QED BY <2>2
<1> QED BY <1>1, <1>2, <1>3, CallStep DEF SameArguments

\* Every step keeps what jobs and requests cite in force at its revision.
LEMMA NextCiteInv == TypeInv /\ OwnInv /\ CiteInv /\ [Next]_vars => CiteInv'
<1> SUFFICES ASSUME TypeInv, OwnInv, CiteInv, [Next]_vars PROVE CiteInv'
  OBVIOUS
<1>1. CASE Next
  <2>1. RecordCitesAuthorizedRevision'
    <3> SUFFICES ASSUME NEW o \in Ops, record'[o].status # "none"
                 PROVE  /\ record'[o].source \in 1..Len(versions'[record'[o].task])
                        /\ versions'[record'[o].task][record'[o].source] =
                              [owner |-> record'[o].actor, ready |-> TRUE]
      BY DEF RecordCitesAuthorizedRevision, Revision
    <3>1. CASE record[o].status # "none"
      <4>1. /\ record[o].task \in Tasks
            /\ record[o].source \in 1..Len(versions[record[o].task])
            /\ versions[record[o].task][record[o].source] =
                  [owner |-> record[o].actor, ready |-> TRUE]
        BY <3>1 DEF CiteInv, RecordCitesAuthorizedRevision, Revision, TaskOK
      <4>2. SameIdentity(record'[o], record[o])
        BY <1>1, <3>1, RecordStep DEF Saves, Creates, SameIdentity
      <4> QED BY <1>1, <4>1, <4>2, VersionStep DEF SameIdentity
    <3>2. ASSUME NEW p \in Procs, Creates(p, o)
          PROVE  /\ record'[o].source \in 1..Len(versions'[record'[o].task])
                 /\ versions'[record'[o].task][record'[o].source] =
                       [owner |-> record'[o].actor, ready |-> TRUE]
      <4>1. record'[o] = NewRecord(call[p])
        BY <3>2 DEF Creates, TypeInv, StoresOK
      <4>2. /\ record'[o].actor = call[p].account /\ record'[o].task = call[p].task
            /\ record'[o].source = call[p].revision
        BY <4>1 DEF NewRecord
      <4>3. call[p].kind = "start"
        BY <3>2 DEF Creates, TypeInv, LabelOK, Starting
      <4>4. /\ call[p].task \in Tasks
            /\ call[p].revision \in 1..Len(versions[call[p].task])
            /\ versions[call[p].task][call[p].revision] =
                  [owner |-> call[p].account, ready |-> TRUE]
        BY <4>3 DEF CiteInv, AuthorizedOK, Revision
      <4> QED BY <1>1, <4>2, <4>4, VersionStep
    <3> QED BY <1>1, <3>1, <3>2, RecordStep DEF Saves
  <2>2. TaskOK'
    <3> SUFFICES ASSUME NEW o \in Ops, record'[o].status # "none"
                 PROVE  record'[o].task \in Tasks
      BY DEF TaskOK
    <3>1. CASE record[o].status # "none"
      BY <1>1, <3>1, RecordStep DEF Saves, Creates, SameIdentity, CiteInv, TaskOK
    <3>2. ASSUME NEW p \in Procs, Creates(p, o) PROVE record'[o].task \in Tasks
      <4>1. record'[o] = NewRecord(call[p]) /\ call[p].kind = "start"
        BY <3>2 DEF Creates, TypeInv, StoresOK, LabelOK, Starting
      <4>2. record'[o].task = call[p].task
        BY <4>1 DEF NewRecord
      <4> QED BY <4>1, <4>2 DEF CiteInv, AuthorizedOK
    <3> QED BY <1>1, <3>1, <3>2, RecordStep DEF Saves
  <2> QED BY <1>1, <2>1, <2>2, AuthorizedPreserved DEF CiteInv
<1>2. CASE UNCHANGED vars
  BY <1>2 DEF CiteInv, TaskOK, AuthorizedOK, RecordCitesAuthorizedRevision, Revision,
              vars, stores
<1> QED BY <1>1, <1>2

\* A persisted job cites a revision of its task at which its actor owned it
\* and the storyboard was confirmed, although the task may have changed hands
\* or been rolled back between the authorization and the insertion.
THEOREM CitesAuthorizedRevision == Spec => []RecordCitesAuthorizedRevision
<1> DEFINE Inv == TypeInv /\ OwnInv /\ CiteInv
<1>1. Init => Inv
  BY InitTypeInv, InitOwnInv
     DEF Init, CiteInv, TaskOK, AuthorizedOK, RecordCitesAuthorizedRevision,
         NoRecord, NoCall
<1>2. Inv /\ [Next]_vars => Inv'
  BY NextTypeInv, NextOwnInv, NextCiteInv
<1>3. Inv => RecordCitesAuthorizedRevision
  BY DEF CiteInv
<1> QED BY <1>1, <1>2, <1>3, PTL DEF Spec

-----------------------------------------------------------------------------
(***************************************************************************)
(* The money: a reservation is held under the account's run lock, the      *)
(* accounts stay within their limits, their reservations implement         *)
(* BudgetContract, an outcome and what was charged agree, and an account   *)
(* runs one expensive operation at a time.                                 *)
(***************************************************************************)

\* How far the budget and the run lock of a request's operation have got.
SlotOK(p) ==
    /\ pc[p] = "reserve" =>
          /\ reservation[call[p].op] = "none"
          /\ runLock[call[p].account] = call[p].op
    /\ pc[p] \in {"unlock", "dup_lock"} =>
          reservation[call[p].op] \in {"charged", "released"}
    /\ pc[p] = "undo_lock" /\ faults = 0 => reservation[call[p].op] # "held"
    /\ pc[p] \in Composing => reservation[call[p].op] = "none"

(* The fifth layer: the reservation and the run lock of an operation.      *)

SlotInv == (\A p \in Procs : SlotOK(p)) /\ HeldReservationHoldsSlot

\* The count of failed store calls never falls back to none.
LEMMA FaultStep == TypeInv /\ Next => (faults' = 0 => faults = 0)
<1> SUFFICES ASSUME TypeInv, Next PROVE faults' = faults \/ faults' = faults + 1
  BY DEF TypeInv, StoresOK
<1>1. ASSUME NEW p \in Procs, Proceed(p)
      PROVE  faults' = faults
  BY <1>1
     DEF Proceed, ReplayRequest, AcquireRunLock, RejectBusy, ReserveBudget,
         CreateRecord, ReturnReservation, ReturnRunLock, AuditTerminal,
         SubmitJob, SettleBudget, SaveRecord, UndoRecord, SaveComposite,
         ReleaseRunLock, UndoBudget, UndoLock, ListShots, Render,
         ReleaseComposeLock, bounds
<1> QED BY <1>1
        DEF Next, Begin, BeginStart, BeginPoll, BeginCompose, Fetch, FetchFails,
            FetchJob, StoreFails, Crash, ProviderFinishes, TaskChanges,
            UpdateLimit, bounds

\* An exception takes a request elsewhere.
LEMMA ThrowMoves ==
    ASSUME LocalsOK, NEW p \in Procs, Throw(p), pc[p] # "idle"
    PROVE  pc'[p] # pc[p]
<1>1. CASE Finish(p)
  BY <1>1, FinishIsLocal
<1>2. CASE InTry(p) /\ Continue(p, Catch(p))
  <2>1. Catch(p) \in {"undo_lock", "undo_budget"} /\ Catch(p) \in Labels
    BY DEF Catch, Labels
  <2> QED BY <1>2, <2>1, ContinueIsLocal DEF InTry
<1>3. CASE \/ pc[p] = "undo_budget" /\ Continue(p, "undo_lock")
           \/ pc[p] = "undo_lock" /\ Continue(p, "undo_record")
           \/ pc[p] \in {"render", "compose_save"} /\ Continue(p, "compose_release")
  BY <1>3, ContinueIsLocal DEF Labels
<1> QED BY <1>1, <1>2, <1>3 DEF Throw

\* Who frees a run lock, and when.
Frees(p) ==
    /\ pc[p] \in {"dup_lock", "unlock", "undo_lock", "compose_release"}
    /\ \/ runLock' = Freed(account[call[p].op], call[p].op)
       \/ Owns(p) /\ runLock' = Freed(call[p].account, call[p].op)
    /\ pc'[p] # pc[p]
    /\ UNCHANGED <<reservation, account, faults>>

\* Nothing else writes the run locks.
LEMMA RunLockStep ==
    ASSUME TypeInv, Next
    PROVE  \/ runLock' = runLock
           \/ \E p \in Procs : Acquires(p)
           \/ \E p \in Procs : Frees(p)
<1>1. ASSUME NEW p \in Procs, Proceed(p)
      PROVE  runLock' = runLock \/ Acquires(p) \/ Frees(p)
  <2> USE DEF TypeInv
  <2>1. CASE AcquireRunLock(p)
    BY <2>1 DEF AcquireRunLock, Acquires, SlotFree
  <2>2. CASE ReturnRunLock(p) \/ ReleaseRunLock(p) \/ UndoLock(p)
               \/ ReleaseComposeLock(p)
    <3>1. pc'[p] # pc[p]
      BY <2>2, FinishIsLocal, ContinueIsLocal, ThrowMoves
         DEF ReturnRunLock, ReleaseRunLock, UndoLock, ReleaseComposeLock, Labels
    <3> QED BY <2>2, <3>1, BoundTypes
            DEF ReturnRunLock, ReleaseRunLock, UndoLock, ReleaseComposeLock,
                Frees, Owns, LabelOK, Starting, Composing, Ops, bounds
  <2>3. CASE ReplayRequest(p) \/ RejectBusy(p) \/ ReserveBudget(p)
               \/ CreateRecord(p) \/ ReturnReservation(p) \/ AuditTerminal(p)
               \/ SubmitJob(p) \/ SettleBudget(p) \/ SaveRecord(p)
               \/ UndoRecord(p) \/ SaveComposite(p) \/ UndoBudget(p)
               \/ ListShots(p) \/ Render(p)
    BY <2>3
       DEF ReplayRequest, RejectBusy, ReserveBudget, CreateRecord,
           ReturnReservation, AuditTerminal, SubmitJob, SettleBudget, SaveRecord,
           UndoRecord, SaveComposite, UndoBudget, ListShots, Render, stores
  <2> QED BY <1>1, <2>1, <2>2, <2>3 DEF Proceed
<1> QED BY <1>1
        DEF Next, Begin, BeginStart, BeginPoll, BeginCompose, Fetch, FetchFails,
            FetchJob, StoreFails, Crash, ProviderFinishes, TaskChanges,
            UpdateLimit, stores

\* How a request gets to the labels SlotOK speaks of.
LEMMA SlotLabelStep ==
    ASSUME TypeInv, Next, NEW q \in Procs
    PROVE  \/ pc'[q] = pc[q] /\ call'[q] = call[q]
           \/ /\ Acquires(q) /\ pc'[q] \in {"reserve", "render"}
              /\ call'[q].op = nextOp /\ call'[q].account = call[q].account
           \/ pc'[q] \notin {"reserve", "dup_lock", "unlock", "undo_lock"}
                              \cup Composing
           \/ /\ pc'[q] \in {"dup_lock", "unlock"}
              /\ reservation'[call'[q].op] \in {"charged", "released"}
           \/ /\ pc'[q] = "undo_lock"
              /\ \/ faults' # 0
                 \/ reservation'[call'[q].op] # "held"
                 \/ pc[q] = "reserve" /\ UNCHANGED reservation /\ call'[q] = call[q]
           \/ /\ pc'[q] \in Composing /\ pc[q] \in Composing
              /\ call'[q] = call[q] /\ UNCHANGED reservation
<1> DEFINE Goal ==
      \/ pc'[q] = pc[q] /\ call'[q] = call[q]
      \/ /\ Acquires(q) /\ pc'[q] \in {"reserve", "render"}
         /\ call'[q].op = nextOp /\ call'[q].account = call[q].account
      \/ pc'[q] \notin {"reserve", "dup_lock", "unlock", "undo_lock"}
                         \cup Composing
      \/ /\ pc'[q] \in {"dup_lock", "unlock"}
         /\ reservation'[call'[q].op] \in {"charged", "released"}
      \/ /\ pc'[q] = "undo_lock"
         /\ \/ faults' # 0
            \/ reservation'[call'[q].op] # "held"
            \/ pc[q] = "reserve" /\ UNCHANGED reservation /\ call'[q] = call[q]
      \/ /\ pc'[q] \in Composing /\ pc[q] \in Composing
         /\ call'[q] = call[q] /\ UNCHANGED reservation
<1> USE DEF TypeInv, Composing
<1>1. CASE UNCHANGED <<pc, call>>
  BY <1>1
<1>2. ASSUME NEW p \in Procs \ {q}, ProcStep(p) PROVE Goal
  BY <1>2, StepIsLocal DEF Locally
<1>3. CASE Crash
  BY <1>3 DEF Crash
<1>4. CASE Finish(q)
  BY <1>4, FinishIsLocal
<1>5. CASE Begin(q)
  BY <1>5 DEF Begin, BeginStart, BeginCompose, BeginPoll, Goto, LocalsOK
<1>6. CASE Fetch(q)
  BY <1>4, <1>6 DEF Fetch, FetchFails, FetchJob, Goto, LocalsOK
<1>7. ASSUME Throw(q), UNCHANGED reservation,
             faults' # 0 \/ pc[q] # "undo_budget"
      PROVE  Goal
  <2>1. CASE InTry(q) /\ Continue(q, Catch(q))
    <3>1. Catch(q) \in Labels
      BY DEF Catch, Labels
    <3>2. pc'[q] = Catch(q) /\ call'[q] = call[q]
      BY <2>1, <3>1, ContinueIsLocal
    <3> QED BY <1>7, <3>2 DEF Catch
  <2>2. CASE pc[q] = "undo_budget" /\ Continue(q, "undo_lock")
    <3>1. pc'[q] = "undo_lock"
      BY <2>2, ContinueIsLocal DEF Labels
    <3> QED BY <1>7, <2>2, <3>1
  <2>3. CASE pc[q] = "undo_lock" /\ call[q].created /\ Continue(q, "undo_record")
    <3>1. pc'[q] = "undo_record"
      BY <2>3, ContinueIsLocal DEF Labels
    <3> QED BY <3>1
  <2>4. CASE pc[q] \in {"render", "compose_save"} /\ Continue(q, "compose_release")
    <3>1. pc'[q] = "compose_release" /\ call'[q] = call[q]
      BY <2>4, ContinueIsLocal DEF Labels
    <3> QED BY <1>7, <2>4, <3>1
  <2> QED BY <1>4, <1>7, <2>1, <2>2, <2>3, <2>4 DEF Throw
<1>8. CASE StoreFails(q)
  BY <1>7, <1>8 DEF StoreFails, StoresOK, stores
<1>9. CASE Proceed(q)
  <2>1. CASE ReplayRequest(q)
    <3>1. CASE Continue(q, "acquire")
      <4>1. pc'[q] = "acquire"
        BY <3>1, ContinueIsLocal DEF Labels
      <4> QED BY <4>1
    <3>2. CASE ~Continue(q, "acquire")
      BY <1>4, <2>1, <3>2 DEF ReplayRequest, Goto, LocalsOK
    <3> QED BY <3>1, <3>2
  <2>2. CASE AcquireRunLock(q)
    <3>1. call[q] \in Call /\ call'[q] = [call[q] EXCEPT !.op = nextOp]
      BY <2>2 DEF AcquireRunLock, LocalsOK
    <3>2. call'[q].op = nextOp /\ call'[q].account = call[q].account
      BY <3>1 DEF Call
    <3> QED BY <2>2, <3>2 DEF AcquireRunLock, Acquires, SlotFree, Goto, LocalsOK
  <2>3. CASE RejectBusy(q) \/ AuditTerminal(q) \/ ReleaseComposeLock(q)
    BY <1>4, <1>7, <2>3
       DEF RejectBusy, AuditTerminal, ReleaseComposeLock
  <2>4. CASE ReserveBudget(q) \/ ReturnRunLock(q) \/ ReleaseRunLock(q)
               \/ Render(q) \/ SaveComposite(q)
    BY <1>4, <1>7, <2>4, ContinueIsLocal
       DEF ReserveBudget, ReturnRunLock, ReleaseRunLock, Render, SaveComposite,
           Labels, stores
  <2>5. CASE CreateRecord(q)
    BY <2>5, ContinueIsLocal DEF CreateRecord, Labels, Goto, LocalsOK
  <2>6. CASE ReturnReservation(q) \/ SettleBudget(q)
    <3>1. CASE Throw(q) /\ UNCHANGED reservation
      BY <1>7, <2>6, <3>1 DEF ReturnReservation, SettleBudget
    <3>2. CASE ~(Throw(q) /\ UNCHANGED reservation)
      <4>1. call[q].op \in Ops
        BY <2>6 DEF ReturnReservation, SettleBudget, LabelOK, Starting, Applying
      <4>2. /\ pc'[q] \in {"dup_lock", "unlock"} /\ call'[q] = call[q]
            /\ reservation'[call[q].op] \in {"charged", "released"}
        BY <2>6, <3>2, <4>1, ContinueIsLocal
           DEF ReturnReservation, SettleBudget, Settlement, Labels, StoresOK
      <4> QED BY <4>2
    <3> QED BY <3>1, <3>2
  <2>7. CASE UndoBudget(q)
    <3>1. call[q].op \in Ops
      BY <2>7 DEF UndoBudget, LabelOK, Starting
    <3>2. pc'[q] = "undo_lock" /\ call'[q] = call[q]
      BY <2>7, ContinueIsLocal DEF UndoBudget, Labels
    <3>3. reservation'[call[q].op] # "held"
      BY <2>7, <3>1 DEF UndoBudget, StoresOK
    <3> QED BY <3>2, <3>3
  <2>8. CASE SubmitJob(q)
    BY <1>7, <2>8 DEF SubmitJob, Goto, LocalsOK
  <2>9. CASE SaveRecord(q)
    BY <1>4, <1>7, <2>9 DEF SaveRecord, Goto, LocalsOK
  <2>10. CASE UndoLock(q) \/ UndoRecord(q) \/ ListShots(q)
    BY <1>4, <2>10, ContinueIsLocal
       DEF UndoLock, UndoRecord, ListShots, Labels, Goto, LocalsOK
  <2> QED BY <1>9, <2>1, <2>2, <2>3, <2>4, <2>5, <2>6, <2>7, <2>8, <2>9, <2>10
          DEF Proceed
<1> QED BY <1>1, <1>2, <1>3, <1>5, <1>6, <1>8, <1>9
        DEF Next, ProcStep, ProviderFinishes, TaskChanges, UpdateLimit
\* Freeing operation x leaves the lock of every other operation in place.
LEMMA FreedKeeps ==
    ASSUME TypeInv, NEW a \in Accounts, NEW b, NEW o \in Ops, NEW x,
           runLock[a] = o, x # o
    PROVE  Freed(b, x)[a] = o
  BY DEF Freed, TypeInv, StoresOK

\* Whoever settles or frees operation x of another request q is not past the
\* point where q still expects it unsettled.
LEMMA ReservingAlone ==
    ASSUME TypeInv, OwnInv, SlotInv, NEW q \in Procs, pc[q] = "reserve",
           NEW p \in Procs, Frees(p)
    PROVE  call[p].op # call[q].op
<1> USE DEF TypeInv, OwnInv
<1>1. call[q].kind = "start" /\ call[q].op \in Ops /\ ~call[q].created
  BY DEF LabelOK, Starting
<1>2. Owns(q) /\ record[call[q].op].status = "none"
  BY <1>1, BoundTypes DEF Owns, OwnerOK, Ops
<1>3. p # q
  BY DEF Frees
<1>4. CASE Owns(p)
  BY <1>2, <1>3, <1>4 DEF OwnerOK
<1>5. CASE ~Owns(p)
  <2>1. /\ call[p].op \in Ops /\ call[p].kind = "poll"
        /\ cur[p].status # "none"
    BY <1>5, BoundTypes DEF Frees, LabelOK, Starting, Composing, Applying, Owns, Ops
  <2>2. record[call[p].op].status # "none"
    BY <2>1 DEF CopyOK, CopyOf
  <2> QED BY <1>2, <2>2
<1> QED BY <1>4, <1>5

\* Nobody else holds or settles the reservation of an operation q has yet to
\* reserve, or only composes with.
LEMMA UnreservedStays ==
    ASSUME TypeInv, OwnInv, Next, NEW q \in Procs, Owns(q), pc'[q] # "create",
           reservation[call[q].op] = "none"
    PROVE  reservation'[call[q].op] = "none"
<1> USE DEF TypeInv
<1>1. call[q].op \in Ops
  BY BoundTypes DEF Owns, LocalsOK, Call, Ops
<1>2. ASSUME NEW o \in Ops, Settles(o) PROVE reservation'[call[q].op] = "none"
  BY <1>1, <1>2 DEF Settles, StoresOK
<1>3. ASSUME NEW p \in Procs, Holds(p, call[p].op)
      PROVE  reservation'[call[q].op] = "none"
  <2>1. Owns(p) /\ p # q
    BY <1>3, BoundTypes DEF Holds, LabelOK, Starting, Owns, Ops
  <2>2. call[p].op # call[q].op
    BY <2>1 DEF OwnInv, OwnerOK
  <2> QED BY <1>1, <1>3, <2>2 DEF Holds, StoresOK
<1> QED BY <1>2, <1>3, ReservationStep

\* A settled reservation stays settled.
LEMMA SettledStays ==
    ASSUME TypeInv, SlotInv, Next, NEW o \in Ops,
           reservation[o] \in {"charged", "released"}
    PROVE  reservation'[o] = reservation[o]
<1> USE DEF TypeInv
<1>1. ASSUME NEW x \in Ops, Settles(x) PROVE reservation'[o] = reservation[o]
  BY <1>1 DEF Settles, StoresOK
<1>2. ASSUME NEW p \in Procs, Holds(p, call[p].op)
      PROVE  reservation'[o] = reservation[o]
  BY <1>2 DEF Holds, SlotInv, SlotOK, StoresOK
<1> QED BY <1>1, <1>2, ReservationStep

\* What SlotOK says of a request is kept by every step.
LEMMA SlotPreserved ==
    ASSUME TypeInv, OwnInv, SlotInv, Next, NEW q \in Procs
    PROVE  SlotOK(q)'
<1> USE DEF TypeInv, OwnInv
<1> DEFINE x == call[q].op
<1>1. CASE pc'[q] = pc[q] /\ call'[q] = call[q]
  <2>1. ASSUME pc[q] = "reserve"
        PROVE  reservation'[x] = "none" /\ runLock'[call[q].account] = x
    <3>1. /\ x \in Ops /\ Owns(q) /\ call[q].account \in Accounts
          /\ reservation[x] = "none" /\ runLock[call[q].account] = x
      BY <2>1, BoundTypes DEF LabelOK, Starting, Owns, Ops, SlotInv, SlotOK
    <3>2. reservation'[x] = "none"
      BY <1>1, <2>1, <3>1, UnreservedStays
    <3>3. ASSUME NEW p \in Procs, Acquires(p)
          PROVE  runLock'[call[q].account] = x
      <4>1. call[p].account # call[q].account
        BY <3>1, <3>3, BoundTypes DEF Acquires, Free, Ops
      <4> QED BY <3>1, <3>3, <4>1 DEF Acquires, StoresOK
    <3>4. ASSUME NEW p \in Procs, Frees(p)
          PROVE  runLock'[call[q].account] = x
      BY <2>1, <3>1, <3>4, ReservingAlone, FreedKeeps DEF Frees
    <3> QED BY <3>1, <3>2, <3>3, <3>4, RunLockStep
  <2>2. ASSUME pc[q] \in {"unlock", "dup_lock"}
        PROVE  reservation'[x] \in {"charged", "released"}
    <3>1. x \in Ops /\ reservation[x] \in {"charged", "released"}
      BY <2>2 DEF LabelOK, Starting, Applying, SlotInv, SlotOK
    <3> QED BY <3>1, SettledStays
  <2>3. ASSUME pc[q] = "undo_lock", faults' = 0
        PROVE  reservation'[x] # "held"
    <3>1. faults = 0
      BY <2>3, FaultStep
    <3>2. x \in Ops /\ Owns(q) /\ reservation[x] # "held"
      BY <2>3, <3>1, BoundTypes DEF LabelOK, Starting, Owns, Ops, SlotInv, SlotOK
    <3>3. reservation[x] \in {"none", "charged", "released"}
      BY <3>2 DEF StoresOK
    <3> QED BY <1>1, <2>3, <3>2, <3>3, UnreservedStays, SettledStays
  <2>4. ASSUME pc[q] \in Composing
        PROVE  reservation'[x] = "none"
    <3>1. x \in Ops /\ Owns(q) /\ reservation[x] = "none"
      BY <2>4, BoundTypes DEF LabelOK, Composing, Owns, Ops, SlotInv, SlotOK
    <3> QED BY <1>1, <2>4, <3>1, UnreservedStays DEF Composing
  <2> QED BY <1>1, <2>1, <2>2, <2>3, <2>4 DEF SlotOK
<1>2. CASE /\ Acquires(q) /\ pc'[q] \in {"reserve", "render"}
           /\ call'[q].op = nextOp /\ call'[q].account = call[q].account
  <2>1. nextOp \in Ops /\ call[q].account \in Accounts
    BY <1>2 DEF Acquires, LabelOK
  <2>2. reservation'[nextOp] = "none"
    BY <1>2, <2>1 DEF Acquires, UnusedOK, Ops
  <2>3. runLock'[call[q].account] = nextOp
    BY <1>2, <2>1 DEF Acquires, StoresOK
  <2> QED BY <1>2, <2>2, <2>3 DEF SlotOK
<1>3. CASE pc'[q] \notin {"reserve", "dup_lock", "unlock", "undo_lock"}
                            \cup Composing
  BY <1>3 DEF SlotOK
<1>4. CASE /\ pc'[q] \in {"dup_lock", "unlock"}
           /\ reservation'[call'[q].op] \in {"charged", "released"}
  BY <1>4 DEF SlotOK, Composing
<1>5. CASE /\ pc'[q] = "undo_lock"
           /\ \/ faults' # 0
              \/ reservation'[call'[q].op] # "held"
              \/ pc[q] = "reserve" /\ UNCHANGED reservation /\ call'[q] = call[q]
  <2>1. pc[q] = "reserve" => reservation[x] = "none"
    BY DEF SlotInv, SlotOK
  <2> QED BY <1>5, <2>1 DEF SlotOK, Composing
<1>6. CASE /\ pc'[q] \in Composing /\ pc[q] \in Composing
           /\ call'[q] = call[q] /\ UNCHANGED reservation
  BY <1>6 DEF SlotInv, SlotOK, Composing
<1> QED BY <1>1, <1>2, <1>3, <1>4, <1>5, <1>6, SlotLabelStep

\* A held reservation keeps its slot in every step.
LEMMA HeldPreserved ==
    ASSUME TypeInv, OwnInv, SlotInv, Next
    PROVE  HeldReservationHoldsSlot'
<1> USE DEF TypeInv, OwnInv
<1> SUFFICES ASSUME faults' = 0, NEW o \in Ops, reservation'[o] = "held"
             PROVE  runLock'[account'[o]] = o
  BY DEF HeldReservationHoldsSlot
<1>1. faults = 0
  BY FaultStep
<1>2. CASE reservation[o] = "held"
  <2>1. runLock[account[o]] = o
    BY <1>1, <1>2 DEF SlotInv, HeldReservationHoldsSlot
  <2>2. account[o] \in Accounts
    BY <1>2, BoundTypes DEF UnusedOK, StoresOK, Ops
  <2>3. o # nextOp
    BY <1>2 DEF UnusedOK, Ops
  <2>4. account'[o] = account[o]
    BY <2>3, AccountStep DEF Acquires, StoresOK
  <2>5. ASSUME NEW p \in Procs, Acquires(p) PROVE runLock'[account[o]] = o
    <3>1. call[p].account # account[o]
      BY <2>1, <2>5, BoundTypes DEF Acquires, Free, Ops
    <3> QED BY <2>1, <2>2, <2>5, <3>1 DEF Acquires, StoresOK
  <2>6. ASSUME NEW p \in Procs, Frees(p) PROVE runLock'[account[o]] = o
    <3>1. reservation[call[p].op] # "held"
      BY <1>1, <2>6 DEF Frees, SlotInv, SlotOK, Composing
    <3> QED BY <1>2, <2>1, <2>2, <2>6, <3>1, FreedKeeps DEF Frees
  <2> QED BY <2>1, <2>4, <2>5, <2>6, RunLockStep
<1>3. CASE reservation[o] # "held"
  <2>1. PICK p \in Procs : Holds(p, call[p].op)
    BY <1>3, ReservationStep DEF Settles, StoresOK
  <2>2. call[p].op = o
    BY <1>3, <2>1 DEF Holds, StoresOK
  <2>3. Owns(p) /\ runLock[call[p].account] = o
    BY <2>1, <2>2, BoundTypes DEF Holds, LabelOK, Starting, Owns, Ops, SlotInv, SlotOK
  <2>4. account[o] = call[p].account
    BY <2>2, <2>3 DEF OwnerOK
  <2> QED BY <2>1, <2>3, <2>4 DEF Holds
<1> QED BY <1>2, <1>3

\* and every step keeps them so.
LEMMA NextSlotInv == TypeInv /\ OwnInv /\ SlotInv /\ [Next]_vars => SlotInv'
<1> SUFFICES ASSUME TypeInv, OwnInv, SlotInv, [Next]_vars PROVE SlotInv'
  OBVIOUS
<1>1. CASE Next
  BY <1>1, SlotPreserved, HeldPreserved DEF SlotInv
<1>2. CASE UNCHANGED vars
  BY <1>2 DEF SlotInv, SlotOK, HeldReservationHoldsSlot, vars, stores, bounds
<1> QED BY <1>1, <1>2

\* Reservations and locks agree at the start,
LEMMA InitSlotInv == Init => SlotInv
  BY DEF Init, SlotInv, SlotOK, HeldReservationHoldsSlot, Composing

\* As long as no store call fails, a reservation is held only by the operation
\* that holds its account's run lock: no crash, no racing poll and no refused
\* step releases the slot of an operation whose budget is still set aside.
THEOREM ReservationsHoldSlot == Spec => []HeldReservationHoldsSlot
<1> DEFINE Inv == TypeInv /\ OwnInv /\ SlotInv
<1>1. Init => Inv
  BY InitTypeInv, InitOwnInv, InitSlotInv
<1>2. Inv /\ [Next]_vars => Inv'
  BY NextTypeInv, NextOwnInv, NextSlotInv
<1>3. Inv => HeldReservationHoldsSlot
  BY DEF SlotInv
<1> QED BY <1>1, <1>2, <1>3, PTL DEF Spec
-----------------------------------------------------------------------------
(* The sixth layer: the account budget.                                    *)

\* How an administrator's change of a limit shows.
LEMMA LimitStep ==
    ASSUME TypeInv, Next, NEW a \in Accounts
    PROVE  \/ limit'[a] = limit[a]
           \/ /\ limit'[a] \in Nat /\ Spent(a) + Reserved(a) <= limit'[a]
              /\ UNCHANGED <<account, reservation>>
<1> USE DEF TypeInv
<1>1. CASE limit' = limit
  BY <1>1
<1>2. ASSUME NEW b \in Accounts, UpdateLimit(b)
      PROVE  \/ limit'[a] = limit[a]
             \/ /\ limit'[a] \in Nat /\ Spent(a) + Reserved(a) <= limit'[a]
                /\ UNCHANGED <<account, reservation>>
  BY <1>2, Parameters DEF UpdateLimit, StoresOK
<1>3. \/ limit' = limit
      \/ \E b \in Accounts : UpdateLimit(b)
  <2>1. ASSUME NEW p \in Procs, Proceed(p) PROVE limit' = limit
    BY <2>1
       DEF Proceed, ReplayRequest, AcquireRunLock, RejectBusy, ReserveBudget,
           CreateRecord, ReturnReservation, ReturnRunLock, AuditTerminal,
           SubmitJob, SettleBudget, SaveRecord, UndoRecord, SaveComposite,
           ReleaseRunLock, UndoBudget, UndoLock, ListShots, Render,
           ReleaseComposeLock, stores
  <2> QED BY <2>1
          DEF Next, Begin, BeginStart, BeginPoll, BeginCompose, Fetch, FetchFails,
              FetchJob, StoreFails, Crash, ProviderFinishes, TaskChanges, stores
<1> QED BY <1>1, <1>2, <1>3

\* Sets of operations are finite.
LEMMA OpsFinite ==
    ASSUME NEW S \in SUBSET Ops
    PROVE  IsFiniteSet(S) /\ Cardinality(S) \in Nat
<1>1. IsFiniteSet(Ops)
  BY FS_Interval, BoundTypes DEF Ops
<1> QED BY <1>1, FS_Subset, FS_CardinalityType

\* Amounts are multiples of the price.
LEMMA Amounts ==
    ASSUME NEW m \in Nat, NEW n \in Nat
    PROVE  /\ Price * m \in Nat
           /\ n = m + 1 => Price * n = Price * m + Price
  BY BoundTypes

\* What a step does to the amounts of account a.
BudgetMoves(a) ==
    \/ Spent(a)' = Spent(a) /\ Reserved(a)' = Reserved(a)
    \/ /\ limit'[a] = limit[a] /\ Available(a) >= Price
       /\ Spent(a)' = Spent(a) /\ Reserved(a)' = Reserved(a) + Price
    \/ /\ limit'[a] = limit[a] /\ Reserved(a)' = Reserved(a) - Price
       /\ Price <= Reserved(a)
       /\ Spent(a)' \in {Spent(a), Spent(a) + Price}

\* Every step moves the amounts of an account in one of these ways.
LEMMA BudgetStep ==
    ASSUME TypeInv, OwnInv, SlotInv, Next, NEW a \in Accounts
    PROVE  BudgetMoves(a)
<1> USE DEF TypeInv, StoresOK
<1> DEFINE C == OfAccount(a, "charged")
           H == OfAccount(a, "held")
<1>1. /\ C \subseteq Ops /\ H \subseteq Ops
      /\ C' \subseteq Ops /\ H' \subseteq Ops
  BY DEF OfAccount
<1>2. /\ IsFiniteSet(C) /\ Cardinality(C) \in Nat
      /\ IsFiniteSet(H) /\ Cardinality(H) \in Nat
      /\ Cardinality(C') \in Nat /\ Cardinality(H') \in Nat
  BY <1>1, OpsFinite
<1>3. CASE C' = C /\ H' = H
  BY <1>3 DEF BudgetMoves, Spent, Reserved
<1>4. ASSUME UNCHANGED account
      PROVE  \A o \in Ops : /\ o \in C' <=> account[o] = a /\ reservation'[o] = "charged"
                            /\ o \in H' <=> account[o] = a /\ reservation'[o] = "held"
  BY <1>4 DEF OfAccount
<1>5. ASSUME NEW o \in Ops, Settles(o) PROVE BudgetMoves(a)
  <2>1. PICK s \in {"charged", "released"} : reservation' = [reservation EXCEPT ![o] = s]
    BY <1>5 DEF Settles
  <2>2. reservation[o] = "held" /\ UNCHANGED <<account, limit>>
    BY <1>5 DEF Settles
  <2>3. CASE account[o] # a
    <3>1. C' = C /\ H' = H
      BY <2>1, <2>2, <2>3 DEF OfAccount
    <3> QED BY <1>3, <3>1
  <2>4. CASE account[o] = a
    <3>1. o \in H /\ H' = H \ {o} /\ o \notin C
      BY <2>1, <2>2, <2>4 DEF OfAccount
    <3>2. C' = C \/ C' = C \cup {o}
      BY <2>1, <2>2, <2>4 DEF OfAccount
    <3>3. Cardinality(H') = Cardinality(H) - 1
      <4>1. Cardinality(H \ {o}) = Cardinality(H) - 1
        BY <1>2, <3>1, FS_RemoveElement
      <4> QED BY <3>1, <4>1
    <3>4. Cardinality(C') \in {Cardinality(C), Cardinality(C) + 1}
      BY <1>2, <3>1, <3>2, FS_AddElement
    <3>5. /\ Price * Cardinality(H) = Price * Cardinality(H') + Price
          /\ Price * Cardinality(H') \in Nat
          /\ Price * Cardinality(C') \in
               {Price * Cardinality(C), Price * Cardinality(C) + Price}
      <4>1. Cardinality(H) = Cardinality(H') + 1
        BY <1>2, <3>3
      <4>2. \/ Cardinality(C') = Cardinality(C)
            \/ Price * Cardinality(C') = Price * Cardinality(C) + Price
        BY <1>2, <3>4, Amounts
      <4> QED BY <1>2, <4>1, <4>2, Amounts
    <3>6. Reserved(a) = Reserved(a)' + Price /\ Reserved(a)' \in Nat
      BY <3>5 DEF Reserved
    <3>7. Spent(a)' \in {Spent(a), Spent(a) + Price}
      BY <3>5 DEF Spent
    <3> QED BY <2>2, <3>6, <3>7, BoundTypes DEF BudgetMoves
  <2> QED BY <2>3, <2>4
<1>6. ASSUME NEW p \in Procs, Holds(p, call[p].op) PROVE BudgetMoves(a)
  <2> DEFINE o == call[p].op
  <2>1. /\ Owns(p) /\ o \in Ops /\ reservation[o] = "none"
    BY <1>6, BoundTypes DEF Holds, LabelOK, Starting, Owns, Ops, SlotInv, SlotOK
  <2>2. account[o] = call[p].account
    BY <2>1 DEF OwnInv, OwnerOK
  <2>3. /\ reservation' = [reservation EXCEPT ![o] = "held"]
        /\ UNCHANGED <<account, limit>> /\ Available(call[p].account) >= Price
    BY <1>6 DEF Holds
  <2>4. CASE account[o] # a
    <3>1. C' = C /\ H' = H
      BY <2>1, <2>3, <2>4 DEF OfAccount
    <3> QED BY <1>3, <3>1
  <2>5. CASE account[o] = a
    <3>1. o \notin H /\ H' = H \cup {o} /\ C' = C
      BY <2>1, <2>3, <2>5 DEF OfAccount
    <3>2. Cardinality(H') = Cardinality(H) + 1
      BY <1>2, <3>1, FS_AddElement
    <3>3. Price * Cardinality(H') = Price * Cardinality(H) + Price
      BY <1>2, <3>2, Amounts
    <3>4. Reserved(a)' = Reserved(a) + Price /\ Spent(a)' = Spent(a)
      BY <3>1, <3>3 DEF Reserved, Spent
    <3> QED BY <2>2, <2>3, <2>5, <3>4 DEF BudgetMoves
  <2> QED BY <2>4, <2>5
<1>7. ASSUME NEW p \in Procs, Acquires(p), reservation' = reservation
      PROVE  BudgetMoves(a)
  <2>1. nextOp \in Ops /\ account' = [account EXCEPT ![nextOp] = call[p].account]
    BY <1>7 DEF Acquires
  <2>2. reservation[nextOp] = "none"
    BY <2>1 DEF OwnInv, UnusedOK, Ops
  <2>3. C' = C /\ H' = H
    BY <1>7, <2>1, <2>2 DEF OfAccount
  <2> QED BY <1>3, <2>3
<1>8. CASE reservation' = reservation /\ account' = account
  <2>1. C' = C /\ H' = H
    BY <1>8 DEF OfAccount
  <2> QED BY <1>3, <2>1
<1> QED BY <1>5, <1>6, <1>7, <1>8, ReservationStep, AccountStep

\* Amounts are natural numbers.
LEMMA AmountTypes == \A a : Spent(a) \in Nat /\ Reserved(a) \in Nat
<1> SUFFICES ASSUME NEW a PROVE Spent(a) \in Nat /\ Reserved(a) \in Nat
  OBVIOUS
<1>1. \A s : OfAccount(a, s) \subseteq Ops
  BY DEF OfAccount
<1> QED BY <1>1, OpsFinite, Amounts DEF Spent, Reserved

\* An account starts with nothing spent and nothing reserved.
LEMMA InitAmounts == Init => \A a : Spent(a) = 0 /\ Reserved(a) = 0
<1> SUFFICES ASSUME Init, NEW a PROVE Spent(a) = 0 /\ Reserved(a) = 0
  OBVIOUS
<1>1. OfAccount(a, "charged") = {} /\ OfAccount(a, "held") = {}
  BY DEF Init, OfAccount
<1> QED BY <1>1, FS_EmptySet, BoundTypes DEF Spent, Reserved

\* What an account spent and reserved never exceeds its limit: reservations are
\* checked against the balance in the step that makes them, limits only move
\* above what is committed, and no crash or retry settles anything twice.
THEOREM NeverOverLimit == Spec => []WithinLimit
<1> DEFINE Inv == TypeInv /\ OwnInv /\ SlotInv /\ WithinLimit
<1>1. Init => Inv
  BY InitTypeInv, InitOwnInv, InitSlotInv, InitAmounts
     DEF WithinLimit, TypeInv, StoresOK
<1>2. Inv /\ [Next]_vars => WithinLimit'
  <2> SUFFICES ASSUME Inv, [Next]_vars, NEW a \in Accounts
               PROVE  (Spent(a) + Reserved(a) <= limit[a])'
    BY DEF WithinLimit
  <2>1. /\ Spent(a) + Reserved(a) <= limit[a] /\ limit[a] \in Nat
        /\ Spent(a) \in Nat /\ Reserved(a) \in Nat
    BY AmountTypes DEF WithinLimit, TypeInv, StoresOK
  <2>2. CASE Next
    <3>1. CASE UNCHANGED <<account, reservation>>
      BY <2>1, <2>2, <3>1, LimitStep DEF Spent, Reserved, OfAccount
    <3>2. CASE limit'[a] = limit[a]
      BY <2>1, <2>2, <3>2, BudgetStep, BoundTypes DEF BudgetMoves, Available
    <3> QED BY <2>2, <3>1, <3>2, LimitStep
  <2>3. CASE UNCHANGED vars
    BY <2>1, <2>3 DEF vars, stores, Spent, Reserved, OfAccount
  <2> QED BY <2>2, <2>3
<1>3. Inv => WithinLimit
  OBVIOUS
<1> QED BY <1>1, <1>2, <1>3, NextTypeInv, NextOwnInv, NextSlotInv, PTL DEF Spec

\* The reservations of each account implement the contract of an account
\* budget: every step of a request, a poll, an undo, a crash or an
\* administrator reserves, settles or sets the limit as the contract allows, or
\* moves no money.
THEOREM BudgetRefinement == Spec => ImplementsBudget
<1> DEFINE Inv == TypeInv /\ OwnInv /\ SlotInv
           Moves == \A a \in Accounts : [Budget(a)!Next]_(Budget(a)!vars)
<1>1. Init => Inv
  BY InitTypeInv, InitOwnInv, InitSlotInv
<1>2. Inv /\ [Next]_vars => Inv'
  BY NextTypeInv, NextOwnInv, NextSlotInv
<1>3. Init => \A a \in Accounts : Budget(a)!Init
  BY InitTypeInv, InitAmounts DEF Budget!Init, TypeInv, StoresOK
<1>4. Inv /\ [Next]_vars => [Moves]_vars
  <2> SUFFICES ASSUME Inv, Next, NEW a \in Accounts
               PROVE  [Budget(a)!Next]_(Budget(a)!vars)
    OBVIOUS
  <2>1. limit[a] \in Nat /\ Spent(a) \in Nat /\ Reserved(a) \in Nat
    BY AmountTypes DEF TypeInv, StoresOK
  <2>2. CASE UNCHANGED <<account, reservation>>
    <3>1. Spent(a)' = Spent(a) /\ Reserved(a)' = Reserved(a)
      BY <2>2 DEF Spent, Reserved, OfAccount
    <3> QED BY <2>1, <3>1, LimitStep
            DEF Budget!Next, Budget!SetLimit, Budget!vars
  <2>3. CASE limit'[a] = limit[a]
    <3>1. CASE Spent(a)' = Spent(a) /\ Reserved(a)' = Reserved(a)
      BY <2>3, <3>1 DEF Budget!vars
    <3>2. CASE /\ Available(a) >= Price /\ Spent(a)' = Spent(a)
               /\ Reserved(a)' = Reserved(a) + Price
      <4>1. Price \in 1..(limit[a] - Spent(a) - Reserved(a))
        BY <2>1, <3>2, BoundTypes DEF Available
      <4> QED BY <2>3, <3>2, <4>1 DEF Budget!Next, Budget!Reserve
    <3>3. CASE /\ Reserved(a)' = Reserved(a) - Price /\ Price <= Reserved(a)
               /\ Spent(a)' \in {Spent(a), Spent(a) + Price}
      <4>1. Price \in 1..Reserved(a) /\ 0 \in 0..Price /\ Price \in 0..Price
        BY <2>1, <3>3, BoundTypes
      <4>2. \E m \in 0..Price : Spent(a)' = Spent(a) + m
        BY <2>1, <3>3, <4>1
      <4> QED BY <2>3, <3>3, <4>1, <4>2 DEF Budget!Next, Budget!Settle
    <3> QED BY <3>1, <3>2, <3>3, BudgetStep DEF BudgetMoves
  <2> QED BY <2>2, <2>3, LimitStep
<1> QED BY <1>1, <1>2, <1>3, <1>4, PTL DEF Spec, ImplementsBudget
-----------------------------------------------------------------------------
(* The seventh layer: what runs, what it was charged and what is said of it. *)

\* Whoever still has to record what the provider says of its operation: every
\* request between asking and saving, and a start() until it undid its budget.
\* A created job stays at its first revision, and unknown to every poll, at
\* least until the start() that created it saves the provider's answer.
Recording(p) ==
    /\ call[p].kind = "start"
    /\ \/ pc[p] \in {"submit"} \cup Applying
       \/ pc[p] = "undo_budget" /\ call[p].created /\ faults = 0

RunOK(p) ==
    /\ pc[p] \in {"create", "submit"} \/ (Recording(p) /\ pc[p] = "settle") =>
          reservation[call[p].op] = "held"
    /\ pc[p] = "submit" => job[call[p].op] = "none"
    /\ pc[p] = "settle" => job[call[p].op] \in Terminal
    /\ Recording(p) =>
          /\ ~record[call[p].op].known /\ cur[p] = record[call[p].op]
          /\ cur[p].status = "pending"
    /\ pc[p] \in Applying /\ call[p].kind = "poll" => record[call[p].op].known
    /\ pc[p] \in {"unlock", "save"} /\ answer[p] \in Terminal =>
          reservation[call[p].op] = Settlement(answer[p])
    /\ (\/ pc[p] = "render"
        \/ faults = 0 /\ pc[p] = "unlock" /\ call[p].kind = "start") =>
          runLock[call[p].account] = call[p].op
    /\ faults = 0 /\ call[p].created =>
          /\ pc[p] = "undo_budget" =>
                /\ reservation[call[p].op] = "held"
                /\ lost = 0 => job[call[p].op] = "none"
          /\ pc[p] \in {"undo_lock", "undo_record"} =>
                reservation[call[p].op] = "released"

\* A copy never runs ahead of its record: what it knows the record knows, and
\* an outcome it carries is the record's.
AheadOK(p) ==
    cur[p].status # "none" =>
        /\ cur[p].known => record[CopyOf(p)].known
        /\ cur[p].status \in Terminal =>
              record[CopyOf(p)].status = cur[p].status

\* What the stores say of an operation agrees.
LedgerOK ==
    \A o \in Ops :
        /\ record[o].status = "succeeded" => reservation[o] = "charged"
        /\ faults = 0 /\ record[o].status = "failed" =>
              reservation[o] = "released"
        /\ audit[o] # "none" => audit[o] = record[o].status
        /\ faults = 0 /\ lost = 0 /\ job[o] = "pending" =>
              reservation[o] = "held"

RunInv == (\A p \in Procs : RunOK(p) /\ AheadOK(p)) /\ JobOK /\ LedgerOK

\* Nor does the count of lost answers.
LEMMA LostStep == TypeInv /\ Next => (lost' = 0 => lost = 0)
<1> SUFFICES ASSUME TypeInv, Next PROVE lost' = lost \/ lost' = lost + 1
  BY DEF TypeInv, StoresOK
<1>1. ASSUME NEW p \in Procs, Proceed(p)
      PROVE  lost' = lost \/ lost' = lost + 1
  BY <1>1
     DEF Proceed, ReplayRequest, AcquireRunLock, RejectBusy, ReserveBudget,
         CreateRecord, ReturnReservation, ReturnRunLock, AuditTerminal,
         SubmitJob, SettleBudget, SaveRecord, UndoRecord, SaveComposite,
         ReleaseRunLock, UndoBudget, UndoLock, ListShots, Render,
         ReleaseComposeLock, bounds
<1> QED BY <1>1
        DEF Next, Begin, BeginStart, BeginPoll, BeginCompose, Fetch, FetchFails,
            FetchJob, StoreFails, Crash, ProviderFinishes, TaskChanges,
            UpdateLimit, bounds

\* What a step does to the job of operation o at the provider.
Submits(p, o) ==
    /\ pc[p] = "submit" /\ call[p].op = o /\ pc'[p] # "submit"
    /\ UNCHANGED <<reservation, record>>

\* Only a start() submits it, and only the provider ends it.
LEMMA JobMoves ==
    ASSUME TypeInv, Next, NEW o \in Ops
    PROVE  \/ job'[o] = job[o]
           \/ job[o] = "pending" /\ job'[o] \in Terminal /\ UNCHANGED reservation
           \/ \E p \in Procs : Submits(p, o)
<1> USE DEF TypeInv
<1>1. CASE job' = job
  BY <1>1
<1>2. ASSUME NEW p \in Procs, SubmitJob(p)
      PROVE  job'[o] = job[o] \/ Submits(p, o)
  <2>1. pc'[p] # "submit"
    BY <1>2, ThrowMoves DEF SubmitJob, Goto, LocalsOK
  <2> QED BY <1>2, <2>1 DEF SubmitJob, Submits, StoresOK
<1>3. ASSUME NEW x \in Ops, ProviderFinishes(x)
      PROVE  \/ job'[o] = job[o]
             \/ job[o] = "pending" /\ job'[o] \in Terminal /\ UNCHANGED reservation
  BY <1>3 DEF ProviderFinishes, StoresOK
<1>4. \/ job' = job
      \/ \E p \in Procs : SubmitJob(p)
      \/ \E x \in Ops : ProviderFinishes(x)
  <2>1. ASSUME NEW p \in Procs, Proceed(p), ~SubmitJob(p)
        PROVE  job' = job
    BY <2>1
       DEF Proceed, ReplayRequest, AcquireRunLock, RejectBusy, ReserveBudget,
           CreateRecord, ReturnReservation, ReturnRunLock, AuditTerminal,
           SettleBudget, SaveRecord, UndoRecord, SaveComposite, ReleaseRunLock,
           UndoBudget, UndoLock, ListShots, Render, ReleaseComposeLock, stores
  <2> QED BY <2>1
          DEF Next, Begin, BeginStart, BeginPoll, BeginCompose, Fetch, FetchFails,
              FetchJob, StoreFails, Crash, TaskChanges, UpdateLimit, stores
<1> QED BY <1>1, <1>2, <1>3, <1>4

\* Whoever takes the reservation of operation o out of the held state.
SettlesAt(p, o) ==
    /\ pc[p] \in {"dup_budget", "settle", "undo_budget"} /\ call[p].op = o
    /\ pc'[p] # pc[p] /\ UNCHANGED <<job, record>>

\* Three calls do: the return of a duplicate, a settlement, an undo.
LEMMA SettleStep ==
    ASSUME TypeInv, Next, NEW o \in Ops,
           reservation[o] = "held", reservation'[o] # "held"
    PROVE  \E p \in Procs : SettlesAt(p, o)
<1> USE DEF TypeInv
<1>1. ASSUME NEW p \in Procs,
             ReturnReservation(p) \/ SettleBudget(p) \/ UndoBudget(p)
      PROVE  SettlesAt(p, o)
  <2>1. call[p].op = o
    BY <1>1 DEF ReturnReservation, SettleBudget, UndoBudget, StoresOK
  <2>2. pc'[p] # pc[p]
    BY <1>1, ThrowMoves, ContinueIsLocal
       DEF ReturnReservation, SettleBudget, UndoBudget, Labels
  <2> QED BY <1>1, <2>1, <2>2
          DEF SettlesAt, ReturnReservation, SettleBudget, UndoBudget
<1>2. ASSUME NEW p \in Procs, ReserveBudget(p) PROVE reservation'[o] = "held"
  BY <1>2 DEF ReserveBudget, StoresOK
<1>3. \/ reservation' = reservation
      \/ \E p \in Procs : \/ ReserveBudget(p) \/ ReturnReservation(p)
                          \/ SettleBudget(p) \/ UndoBudget(p)
  BY ZenonT(60) DEF Next, Begin, BeginStart, BeginPoll, BeginCompose, Fetch, FetchFails,
         FetchJob, StoreFails, Crash, ProviderFinishes, TaskChanges, UpdateLimit,
         Proceed, ReplayRequest, AcquireRunLock, RejectBusy, CreateRecord,
         ReturnRunLock, SubmitJob, SaveRecord, UndoRecord, SaveComposite,
         ReleaseRunLock, AuditTerminal, UndoLock, ListShots, Render,
         ReleaseComposeLock, stores
<1> QED BY <1>1, <1>2, <1>3

\* Who writes the record of operation o, and what.
Answers(p, o) ==
    /\ pc[p] = "save" /\ call[p].op = o /\ pc'[p] # "save"
    /\ cur[p] = record[o]
    /\ \E b \in BOOLEAN : record'[o] = Applied(record[o], answer[p], b)
Gives(p, o) ==
    /\ pc[p] = "undo_record" /\ call[p].op = o /\ pc'[p] # "undo_record"
    /\ record'[o] = [record[o] EXCEPT !.status = "failed", !.revision = 2]
Composes(o) ==
    /\ record[o].status = "succeeded" /\ record'[o].status = "succeeded"
    /\ record'[o].known = record[o].known

\* Nobody else writes it, and the money and the provider are left alone.
LEMMA WriterStep ==
    ASSUME TypeInv, OwnInv, Next, NEW o \in Ops, record'[o] # record[o]
    PROVE  /\ UNCHANGED <<reservation, job, audit>>
           /\ \/ \E p \in Procs : Creates(p, o) \/ Answers(p, o) \/ Gives(p, o)
              \/ Composes(o)
<1> USE DEF TypeInv, OwnInv
<1>1. ASSUME NEW p \in Procs, CreateRecord(p) PROVE Creates(p, o)
  <2>1. /\ pc[p] = "create" /\ ByRequest(call[p].account, call[p].request) = {}
        /\ record' = [record EXCEPT ![call[p].op] = NewRecord(call[p])]
        /\ call' = [call EXCEPT ![p].created = TRUE]
    BY <1>1 DEF CreateRecord
  <2>2. call[p].kind = "start" /\ call[p].op \in Ops /\ ~call[p].created
    BY <2>1 DEF LabelOK, Starting
  <2>3. record[call[p].op].status = "none"
    BY <2>2, BoundTypes DEF OwnerOK, Owns, Ops
  <2> QED BY <2>1, <2>2, <2>3 DEF Creates, StoresOK
<1>2. ASSUME NEW p \in Procs, SaveRecord(p) PROVE Answers(p, o)
  <2> DEFINE q == call[p].op
  <2>1. PICK b \in BOOLEAN :
           /\ pc[p] = "save" /\ Fresh(q, cur[p])
           /\ record' = [record EXCEPT ![q] = Applied(cur[p], answer[p], b)]
    BY <1>2 DEF SaveRecord
  <2>2. /\ q \in Ops /\ cur[p].status = "pending"
        /\ call[p].kind \in {"start", "poll"}
    BY <2>1 DEF LabelOK, Applying
  <2>3. cur[p] = record[q]
    BY <2>1, <2>2 DEF CopyOK, CopyOf, Fresh
  <2>4. pc'[p] # "save"
    BY <1>2, ThrowMoves, FinishIsLocal DEF SaveRecord, Goto, LocalsOK
  <2> QED BY <2>1, <2>2, <2>3, <2>4 DEF Answers, StoresOK
<1>3. ASSUME NEW p \in Procs, UndoRecord(p) PROVE Gives(p, o)
  <2>1. call[p].op \in Ops
    BY <1>3 DEF UndoRecord, LabelOK, Starting
  <2>2. pc'[p] # "undo_record"
    BY <1>3, FinishIsLocal DEF UndoRecord, Goto, LocalsOK
  <2> QED BY ZenonT(30), <1>3, <2>1, <2>2 DEF UndoRecord, Gives, StoresOK
<1>4. ASSUME NEW p \in Procs, SaveComposite(p) PROVE Composes(o)
  <2> DEFINE q == call[p].target
             new == [cur[p] EXCEPT !.composite = call[p].request,
                                   !.revision = cur[p].revision + 1]
  <2>1. /\ pc[p] = "compose_save" /\ Fresh(q, cur[p])
        /\ record' = [record EXCEPT ![q] = new]
    BY <1>4 DEF SaveComposite
  <2>2. cur[p].status = "succeeded" /\ call[p].kind = "compose"
    BY <2>1 DEF LabelOK, Composing
  <2>3. q \in Ops /\ cur[p] = record[q]
    BY <2>1, <2>2 DEF CopyOK, CopyOf, Fresh
  <2>4. record[q] \in Record
    BY <2>3 DEF StoresOK
  <2>5. new.status = "succeeded" /\ new.known = record[q].known
    BY <2>2, <2>3, <2>4 DEF Record
  <2> QED BY <2>1, <2>2, <2>3, <2>5 DEF Composes, StoresOK
<1>5. \E p \in Procs : \/ CreateRecord(p) \/ SaveRecord(p)
                       \/ UndoRecord(p) \/ SaveComposite(p)
  BY ZenonT(30) DEF Next, Begin, BeginStart, BeginPoll, BeginCompose, Fetch, FetchFails,
         FetchJob, StoreFails, Crash, ProviderFinishes, TaskChanges, UpdateLimit,
         Proceed, ReplayRequest, AcquireRunLock, RejectBusy, ReserveBudget,
         ReturnReservation, ReturnRunLock, SubmitJob, SettleBudget,
         ReleaseRunLock, AuditTerminal, UndoBudget, UndoLock, ListShots, Render,
         ReleaseComposeLock, stores
<1>6. UNCHANGED <<reservation, job, audit>>
  BY <1>5 DEF CreateRecord, SaveRecord, UndoRecord, SaveComposite
<1> QED BY <1>1, <1>2, <1>3, <1>4, <1>5, <1>6

\* What is known of a persisted job is not forgotten.
LEMMA KnownStays ==
    ASSUME TypeInv, OwnInv, Next, NEW o \in Ops,
           record[o].status # "none", record[o].known
    PROVE  record'[o].status # "none" /\ record'[o].known
<1>1. record'[o].status # "none"
  BY RecordStep DEF Saves, Creates
<1>2. CASE record'[o] = record[o]
  BY <1>1, <1>2
<1>3. CASE record'[o] # record[o]
  <2>1. record[o] \in Record
    BY DEF TypeInv, StoresOK
  <2>2. \A p \in Procs : Answers(p, o) \/ Gives(p, o) => record'[o].known
    BY <2>1 DEF Answers, Gives, Applied, Record
  <2> QED BY <1>1, <1>3, <2>2, WriterStep DEF Creates, Composes
<1> QED BY <1>2, <1>3

\* What every layer so far says.
Everything == TypeInv /\ OwnInv /\ SlotInv /\ RunInv

\* Who has an operation and is not the one that settles it keeps the money.
LEMMA HeldStays ==
    ASSUME Everything, Next, NEW q \in Procs, Owns(q), pc'[q] = pc[q],
           reservation[call[q].op] = "held",
           record[call[q].op].status = "none" \/ ~record[call[q].op].known
    PROVE  reservation'[call[q].op] = "held"
<1> USE DEF Everything, TypeInv, OwnInv, RunInv
<1> DEFINE x == call[q].op
<1>1. x \in Ops
  BY BoundTypes DEF Owns, LocalsOK, Call, Ops
<1> SUFFICES ASSUME NEW p \in Procs, SettlesAt(p, x) PROVE FALSE
  BY <1>1, SettleStep
<1>2. p # q
  BY DEF SettlesAt
<1>3. CASE call[p].kind = "start"
  <2>1. Owns(p) /\ call[p].op = x
    BY <1>1, <1>3, BoundTypes DEF SettlesAt, Owns, Ops
  <2> QED BY <1>2, <2>1 DEF OwnerOK
<1>4. CASE call[p].kind # "start"
  <2>1. /\ pc[p] = "settle" /\ call[p].kind = "poll" /\ call[p].op = x
        /\ cur[p].status = "pending"
    BY <1>4 DEF SettlesAt, LabelOK, Starting, Applying
  <2>2. record[x].status # "none" /\ record[x].known
    BY <2>1 DEF CopyOK, CopyOf, RunOK, Applying
  <2> QED BY <2>2
<1> QED BY <1>3, <1>4

\* Nobody else submits the operation of a request.
LEMMA OwnJob ==
    ASSUME Everything, Next, NEW q \in Procs, Owns(q), pc'[q] = pc[q]
    PROVE  \/ job'[call[q].op] = job[call[q].op]
           \/ job[call[q].op] = "pending" /\ job'[call[q].op] \in Terminal
<1> USE DEF Everything, TypeInv, OwnInv
<1>1. call[q].op \in Ops
  BY BoundTypes DEF Owns, LocalsOK, Call, Ops
<1>2. ASSUME NEW p \in Procs, Submits(p, call[q].op) PROVE FALSE
  <2>1. p # q
    BY <1>2 DEF Submits
  <2>2. Owns(p) /\ call[p].op = call[q].op
    BY <1>1, <1>2, BoundTypes DEF Submits, LabelOK, Starting, Owns, Ops
  <2> QED BY <2>1, <2>2 DEF OwnerOK
<1> QED BY <1>1, <1>2, JobMoves

\* Nobody else writes the job a start() has yet to record.
LEMMA OwnRecord ==
    ASSUME Everything, Next, NEW q \in Procs, Recording(q), call[q].op \in Ops,
           pc'[q] = pc[q]
    PROVE  record'[call[q].op] = record[call[q].op]
<1> USE DEF Everything, TypeInv, OwnInv, RunInv
<1> DEFINE x == call[q].op
<1>1. Owns(q) /\ ~record[x].known /\ record[x].status = "pending"
  BY BoundTypes DEF Recording, Owns, Ops, RunOK
<1>2. ASSUME NEW p \in Procs, Answers(p, x) \/ Gives(p, x) PROVE FALSE
  <2>1. p # q /\ call[p].op = x
    BY <1>2 DEF Answers, Gives
  <2>2. CASE call[p].kind = "start"
    <3>1. Owns(p)
      BY <2>1, <2>2, BoundTypes DEF Owns, Ops
    <3> QED BY <1>1, <2>1, <3>1 DEF OwnerOK
  <2>3. CASE call[p].kind # "start"
    BY <1>1, <1>2, <2>1, <2>3
       DEF Answers, Gives, LabelOK, Starting, Applying, RunOK
  <2> QED BY <2>2, <2>3
<1> QED BY <1>1, <1>2, WriterStep DEF Creates, Composes

\* Nobody else frees the run lock of an operation that is at work.
LEMMA OwnLock ==
    ASSUME Everything, Next, NEW q \in Procs, Owns(q), pc'[q] = pc[q],
           call[q].account \in Accounts,
           runLock[call[q].account] = call[q].op,
           record[call[q].op].status = "none" \/ ~record[call[q].op].known
    PROVE  runLock'[call[q].account] = call[q].op
<1> USE DEF Everything, TypeInv, OwnInv, RunInv
<1> DEFINE x == call[q].op
           a == call[q].account
<1>1. x \in Ops
  BY BoundTypes DEF Owns, LocalsOK, Call, Ops
<1>2. ASSUME NEW p \in Procs, Acquires(p) PROVE runLock'[a] = x
  <2>1. call[p].account # a
    BY <1>1, <1>2, BoundTypes DEF Acquires, Free, Ops
  <2> QED BY <1>2, <2>1 DEF Acquires, StoresOK
<1>3. ASSUME NEW p \in Procs, Frees(p) PROVE runLock'[a] = x
  <2>1. p # q
    BY <1>3 DEF Frees
  <2>2. call[p].op # x
    <3>1. CASE Owns(p)
      BY <2>1, <3>1 DEF OwnerOK
    <3>2. CASE ~Owns(p)
      <4>1. /\ call[p].op \in Ops /\ call[p].kind = "poll" /\ pc[p] = "unlock"
            /\ cur[p].status = "pending"
        BY <1>3, <3>2, BoundTypes
           DEF Frees, LabelOK, Starting, Composing, Applying, Owns, Ops
      <4>2. record[call[p].op].status # "none" /\ record[call[p].op].known
        BY <4>1 DEF CopyOK, CopyOf, RunOK, Applying
      <4> QED BY <4>2
    <3> QED BY <3>1, <3>2
  <2> QED BY <1>1, <1>3, <2>2, FreedKeeps DEF Frees
<1> QED BY <1>2, <1>3, RunLockStep

\* A request that did not move is not disturbed by the others.
LEMMA RunUndisturbed ==
    ASSUME Everything, Next, NEW q \in Procs,
           pc'[q] = pc[q], call'[q] = call[q],
           cur'[q] = cur[q], answer'[q] = answer[q]
    PROVE  RunOK(q)'
<1> USE DEF Everything, TypeInv, OwnInv, RunInv
<1> DEFINE x == call[q].op
<1>1. (faults' = 0 => faults = 0) /\ (lost' = 0 => lost = 0)
  BY FaultStep, LostStep
<1>2. Recording(q)' => Recording(q)
  BY <1>1 DEF Recording
<1>3. Recording(q) => x \in Ops /\ Owns(q) /\ record'[x] = record[x]
                        /\ call[q].account \in Accounts
  <2> SUFFICES ASSUME Recording(q) PROVE x \in Ops /\ Owns(q)
                        /\ record'[x] = record[x] /\ call[q].account \in Accounts
    OBVIOUS
  <2>1. x \in Ops /\ Owns(q) /\ call[q].account \in Accounts
    BY BoundTypes DEF Recording, LabelOK, Starting, Applying, Owns, Ops
  <2> QED BY <2>1, OwnRecord
<1>4. ASSUME pc[q] \in {"create", "submit"} \/ (Recording(q) /\ pc[q] = "settle")
      PROVE  reservation'[x] = "held"
  <2>1. reservation[x] = "held"
    BY <1>4 DEF RunOK
  <2>2. Owns(q) /\ (record[x].status = "none" \/ ~record[x].known)
    <3>1. CASE pc[q] = "create"
      BY <3>1, BoundTypes DEF LabelOK, Starting, Owns, OwnerOK, Ops
    <3>2. CASE pc[q] # "create"
      BY <1>3, <1>4, <3>2 DEF RunOK, Recording, LabelOK, Starting
    <3> QED BY <3>1, <3>2
  <2> QED BY <2>1, <2>2, HeldStays
<1>5. ASSUME pc[q] = "submit" PROVE job'[x] = "none"
  <2>1. Owns(q) /\ job[x] = "none"
    BY <1>5, BoundTypes DEF LabelOK, Starting, Owns, Ops, RunOK
  <2> QED BY <2>1, OwnJob
<1>6. ASSUME pc[q] = "settle" PROVE job'[x] \in Terminal
  <2>1. x \in Ops /\ job[x] \in Terminal
    BY <1>6 DEF LabelOK, Applying, RunOK
  <2>2. ASSUME NEW p \in Procs, Submits(p, x) PROVE FALSE
    BY <2>1, <2>2 DEF Submits, RunOK, Terminal
  <2> QED BY <2>1, <2>2, JobMoves
<1>7. ASSUME Recording(q)
      PROVE  ~record'[x].known /\ cur[q] = record'[x] /\ cur[q].status = "pending"
  BY <1>3, <1>7 DEF RunOK
<1>8. ASSUME pc[q] \in Applying, call[q].kind = "poll" PROVE record'[x].known
  <2>1. x \in Ops /\ record[x].known /\ cur[q].status = "pending"
    BY <1>8 DEF LabelOK, RunOK
  <2>2. record[x].status # "none"
    BY <1>8, <2>1 DEF CopyOK, CopyOf
  <2> QED BY <2>1, <2>2, KnownStays
<1>9. ASSUME pc[q] \in {"unlock", "save"}, answer[q] \in Terminal
      PROVE  reservation'[x] = Settlement(answer[q])
  <2>1. x \in Ops /\ reservation[x] = Settlement(answer[q])
    BY <1>9 DEF LabelOK, Applying, RunOK
  <2> QED BY <2>1, SettledStays DEF Settlement
<1>10. ASSUME \/ pc[q] = "render"
              \/ faults = 0 /\ pc[q] = "unlock" /\ call[q].kind = "start"
       PROVE  runLock'[call[q].account] = x
  <2>1. runLock[call[q].account] = x
    BY <1>10 DEF RunOK
  <2>2. /\ Owns(q) /\ call[q].account \in Accounts
        /\ record[x].status = "none" \/ ~record[x].known
    <3>1. CASE pc[q] = "render"
      BY <3>1, BoundTypes DEF LabelOK, Composing, Owns, OwnerOK, Ops
    <3>2. CASE pc[q] = "unlock" /\ call[q].kind = "start"
      <4>1. Recording(q)
        BY <3>2 DEF Recording, Applying
      <4> QED BY <1>3, <4>1 DEF RunOK
    <3> QED BY <1>10, <3>1, <3>2
  <2> QED BY <2>1, <2>2, OwnLock
<1>11. ASSUME faults = 0, call[q].created, pc[q] = "undo_budget"
       PROVE  reservation'[x] = "held" /\ (lost' = 0 => job'[x] = "none")
  <2>1. Recording(q) /\ reservation[x] = "held" /\ (lost = 0 => job[x] = "none")
    BY <1>11 DEF Recording, RunOK, LabelOK, Starting
  <2>2. ~record[x].known
    BY <2>1 DEF RunOK
  <2> QED BY <1>1, <1>3, <2>1, <2>2, HeldStays, OwnJob
<1>12. ASSUME faults = 0, call[q].created, pc[q] \in {"undo_lock", "undo_record"}
       PROVE  reservation'[x] = "released"
  <2>1. x \in Ops /\ reservation[x] = "released"
    BY <1>12 DEF LabelOK, Starting, RunOK
  <2> QED BY <2>1, SettledStays
<1> HIDE DEF Everything, TypeInv, OwnInv, RunInv
<1> QED BY <1>1, <1>2, <1>4, <1>5, <1>6, <1>7, <1>8, <1>9, <1>10, <1>11, <1>12
        DEF RunOK

\* Where RunOK says nothing of a request.
LEMMA RunQuiet ==
    ASSUME NEW q \in Procs,
           \/ pc'[q] \notin {"create", "submit", "render", "undo_budget",
                             "undo_lock", "undo_record"} \cup Applying
           \/ /\ pc'[q] \in {"undo_budget", "undo_lock", "undo_record"}
              /\ faults' # 0 \/ ~call'[q].created
    PROVE  RunOK(q)'
  BY DEF RunOK, Recording, Applying

\* An exception ends the request or starts the undo; of an undo something is
\* known only when no store call failed.
LEMMA RunThrow ==
    ASSUME TypeInv, NEW q \in Procs, Throw(q),
           \/ faults' # 0
           \/ call[q].kind # "start"
           \/ ~call[q].created
           \/ pc[q] = "undo_audit"
    PROVE  RunOK(q)'
<1> USE DEF TypeInv
<1>1. CASE Finish(q)
  <2>1. pc'[q] = "idle"
    BY <1>1, FinishIsLocal
  <2> QED BY <2>1, RunQuiet DEF Applying
<1>2. CASE InTry(q) /\ Continue(q, Catch(q))
  <2>1. Catch(q) \in {"undo_lock", "undo_budget"} /\ Catch(q) \in Labels
    BY DEF Catch, Labels
  <2>2. pc'[q] \in {"undo_lock", "undo_budget"} /\ call'[q] = call[q]
    BY <1>2, <2>1, ContinueIsLocal
  <2>3. faults' # 0 \/ ~call[q].created
    BY <1>2 DEF InTry
  <2> QED BY <2>2, <2>3, RunQuiet
<1>3. CASE \/ pc[q] = "undo_budget" /\ Continue(q, "undo_lock")
           \/ pc[q] = "undo_lock" /\ Continue(q, "undo_record")
  <2>1. pc'[q] \in {"undo_lock", "undo_record"} /\ call'[q] = call[q]
    BY <1>3, ContinueIsLocal DEF Labels
  <2>2. faults' # 0 \/ ~call[q].created
    BY <1>3 DEF LabelOK, Starting
  <2> QED BY <2>1, <2>2, RunQuiet
<1>4. CASE pc[q] \in {"render", "compose_save"} /\ Continue(q, "compose_release")
  <2>1. pc'[q] = "compose_release"
    BY <1>4, ContinueIsLocal DEF Labels
  <2> QED BY <2>1, RunQuiet DEF Applying
<1> QED BY <1>1, <1>2, <1>3, <1>4 DEF Throw

\* From the lock to the submitted job.
LEMMA RunStart ==
    ASSUME Everything, Next, NEW q \in Procs,
           \/ AcquireRunLock(q) \/ ReserveBudget(q) \/ CreateRecord(q)
           \/ ReturnReservation(q) \/ ReturnRunLock(q)
    PROVE  RunOK(q)'
<1> USE DEF Everything, TypeInv
<1> DEFINE x == call[q].op
<1>1. CASE AcquireRunLock(q)
  <2>1. call[q] \in Call /\ call'[q] = [call[q] EXCEPT !.op = nextOp]
    BY <1>1 DEF AcquireRunLock, LocalsOK
  <2>2. call'[q].op = nextOp /\ call'[q].account = call[q].account
    BY <2>1 DEF Call
  <2>3. call[q].account \in Accounts
    BY <1>1 DEF AcquireRunLock, LabelOK
  <2>4. /\ pc'[q] \in {"reserve", "render"}
        /\ runLock'[call'[q].account] = call'[q].op
    BY <1>1, <2>2, <2>3 DEF AcquireRunLock, Goto, LocalsOK, StoresOK
  <2> QED BY <2>4 DEF RunOK, Recording, Applying
<1>2. CASE ReserveBudget(q)
  <2>1. x \in Ops /\ ~call[q].created
    BY <1>2 DEF ReserveBudget, LabelOK, Starting
  <2>2. CASE Continue(q, "create") /\ reservation' = [reservation EXCEPT ![x] = "held"]
    <3>1. pc'[q] = "create" /\ call'[q] = call[q] /\ reservation'[x] = "held"
      BY <2>1, <2>2, ContinueIsLocal DEF Labels, StoresOK
    <3> QED BY <3>1 DEF RunOK, Recording, Applying
  <2> QED BY <1>2, <2>1, <2>2, RunThrow DEF ReserveBudget
<1>3. CASE CreateRecord(q)
  <2>1. /\ x \in Ops /\ pc[q] = "create" /\ reservation[x] = "held"
        /\ call[q].kind = "start" /\ ~call[q].created
    BY <1>3 DEF CreateRecord, LabelOK, Starting, RunInv, RunOK
  <2>2. record[x].status = "none" /\ job[x] = "none"
    BY <2>1, BoundTypes DEF OwnInv, OwnerOK, Owns, Ops, RunInv, JobOK
  <2>3. CASE Continue(q, "dup_budget")
    <3>1. pc'[q] = "dup_budget"
      BY <2>3, ContinueIsLocal DEF Labels
    <3> QED BY <3>1, RunQuiet DEF Applying
  <2>4. CASE ~Continue(q, "dup_budget")
    <3>1. call[q] \in Call /\ call'[q] = [call[q] EXCEPT !.created = TRUE]
      BY <1>3, <2>4 DEF CreateRecord, LocalsOK
    <3>2. call'[q].op = x
      BY <3>1 DEF Call
    <3>3. /\ pc'[q] = "submit" /\ cur'[q] = NewRecord(call[q])
          /\ record'[x] = NewRecord(call[q])
          /\ reservation'[x] = "held" /\ job'[x] = "none"
      BY <1>3, <2>1, <2>2, <2>4 DEF CreateRecord, Goto, LocalsOK, StoresOK
    <3> QED BY <3>2, <3>3 DEF RunOK, Recording, Applying, NewRecord
  <2> QED BY <2>3, <2>4
<1>4. CASE ReturnReservation(q) \/ ReturnRunLock(q)
  <2>1. ~call[q].created
    BY <1>4 DEF ReturnReservation, ReturnRunLock, LabelOK
  <2>2. CASE Throw(q)
    BY <2>1, <2>2, RunThrow
  <2>3. CASE ~Throw(q)
    <3>1. pc'[q] \in {"dup_lock", "idle"}
      BY <1>4, <2>3, ContinueIsLocal, FinishIsLocal
         DEF ReturnReservation, ReturnRunLock, Labels
    <3> QED BY <3>1, RunQuiet DEF Applying
  <2> QED BY <2>2, <2>3
<1> QED BY <1>1, <1>2, <1>3, <1>4

\* The provider's first answer, or none.
LEMMA RunSubmit ==
    ASSUME Everything, Next, NEW q \in Procs, SubmitJob(q)
    PROVE  RunOK(q)'
<1> USE DEF Everything, TypeInv
<1> DEFINE x == call[q].op
<1>1. /\ x \in Ops /\ call[q].kind = "start" /\ call[q].created
      /\ pc[q] = "submit"
  BY DEF SubmitJob, LabelOK, Starting
<1>2. /\ reservation[x] = "held" /\ job[x] = "none" /\ ~record[x].known
      /\ cur[q] = record[x] /\ cur[q].status = "pending"
  BY <1>1 DEF RunInv, RunOK, Recording
<1>3. UNCHANGED <<reservation, record, faults>>
  BY DEF SubmitJob
<1>4. ASSUME NEW st \in {"pending"} \cup Terminal,
             NEW said \in {"pending"} \cup Terminal,
             said \in {st, IF st = "succeeded" THEN "failed" ELSE st},
             job' = [job EXCEPT ![x] = st],
             answer' = [answer EXCEPT ![q] = said],
             Goto(q, IF said = "pending" THEN "save" ELSE "settle"),
             UNCHANGED <<call, cur>>
      PROVE  RunOK(q)'
  <2>1. /\ answer'[q] = said /\ job'[x] = st /\ call'[q] = call[q]
        /\ pc'[q] = (IF said = "pending" THEN "save" ELSE "settle")
    BY <1>1, <1>4 DEF Goto, LocalsOK, StoresOK
  <2>2. pc'[q] = "settle" => job'[x] \in Terminal
    BY <1>4, <2>1 DEF Terminal
  <2>3. pc'[q] \in {"save", "settle"} /\ cur'[q] = cur[q]
        /\ (pc'[q] = "save" => answer'[q] \notin Terminal)
    BY <1>4, <2>1 DEF Terminal
  <2> QED BY <1>1, <1>2, <1>3, <2>1, <2>2, <2>3 DEF RunOK, Recording, Applying
<1>5. CASE Throw(q) /\ (job' = job \/ lost' # 0)
  <2>1. Catch(q) = "undo_budget" /\ "undo_budget" \in Labels
    BY <1>1 DEF Catch, Labels
  <2>2. ~Finish(q) => InTry(q)
    BY <1>1, <1>5 DEF Throw, Handled, InTry
  <2>3. InTry(q)
    BY <1>1 DEF InTry
  <2>4. Continue(q, "undo_budget")
    BY <1>1, <1>5, <2>1, <2>3 DEF Throw, Handled
  <2>5. /\ pc'[q] = "undo_budget" /\ call'[q] = call[q] /\ cur'[q] = cur[q]
    BY <2>1, <2>4, ContinueIsLocal
  <2>6. lost' = 0 => job'[x] = "none"
    BY <1>2, <1>5
  <2> QED BY <1>1, <1>2, <1>3, <2>5, <2>6 DEF RunOK, Recording, Applying
<1>6. lost < MaxLost /\ lost' = lost + 1 => lost' # 0
  BY DEF StoresOK
<1> QED BY <1>4, <1>5, <1>6 DEF SubmitJob

\* From the provider's answer to the saved job.
LEMMA RunApply ==
    ASSUME Everything, Next, NEW q \in Procs,
           \/ \E o \in Ops : FetchJob(q, o)
           \/ SettleBudget(q) \/ ReleaseRunLock(q) \/ SaveRecord(q)
    PROVE  RunOK(q)'
<1> USE DEF Everything, TypeInv, RunInv
<1> DEFINE x == call[q].op
<1>1. ASSUME NEW o \in Ops, FetchJob(q, o) PROVE RunOK(q)'
  <2>1. /\ x = o /\ call[q].kind = "poll" /\ cur[q].known
        /\ cur[q].status = "pending"
    BY <1>1 DEF FetchJob, LabelOK
  <2>2. record[x].known
    BY <2>1 DEF AheadOK, CopyOf
  <2>3. PICK said \in {job[o], IF job[o] = "succeeded" THEN "failed" ELSE job[o]} :
          /\ answer' = [answer EXCEPT ![q] = said]
          /\ Goto(q, IF said = "pending" THEN "save" ELSE "settle")
    BY <1>1 DEF FetchJob
  <2>4. /\ pc'[q] = (IF said = "pending" THEN "save" ELSE "settle")
        /\ answer'[q] = said
    BY <2>3 DEF Goto, LocalsOK
  <2>5. job[o] \in {"pending"} \cup Terminal
    BY <1>1 DEF FetchJob, StoresOK
  <2>6. UNCHANGED <<job, record, call>>
    BY <1>1 DEF FetchJob, stores
  <2> QED BY <2>1, <2>2, <2>3, <2>4, <2>5, <2>6
          DEF RunOK, Recording, Terminal
<1>2. CASE SettleBudget(q)
  <2>1. x \in Ops /\ call[q].kind \in {"start", "poll"} /\ answer[q] \in Terminal
    BY <1>2 DEF SettleBudget, LabelOK, Applying
  <2>2. call[q].kind = "start" =>
           /\ reservation[x] = "held" /\ ~record[x].known
           /\ cur[q] = record[x] /\ cur[q].status = "pending"
    BY <1>2 DEF SettleBudget, RunOK, Recording, Applying
  <2>3. call[q].kind = "poll" => record[x].known
    BY <1>2 DEF SettleBudget, RunOK, Applying
  <2>4. CASE reservation[x] = "held"
    <3>1. /\ pc'[q] = "unlock" /\ call'[q] = call[q] /\ cur'[q] = cur[q]
          /\ answer'[q] = answer[q]
          /\ reservation'[x] = Settlement(answer[q])
      BY <1>2, <2>1, <2>4, ContinueIsLocal DEF SettleBudget, Labels, StoresOK
    <3>2. record' = record /\ runLock' = runLock /\ faults' = faults
      BY <1>2 DEF SettleBudget, bounds
    <3>3. faults = 0 /\ call[q].kind = "start" => runLock[call[q].account] = x
      <4>1. call[q].kind = "start" => account[x] = call[q].account
        BY <2>1, BoundTypes DEF OwnInv, OwnerOK, Owns, Ops
      <4> QED BY <2>1, <2>4, <4>1 DEF SlotInv, HeldReservationHoldsSlot
    <3> QED BY <2>1, <2>2, <2>3, <3>1, <3>2, <3>3 DEF RunOK, Recording, Applying
  <2>5. CASE reservation[x] # "held"
    BY <1>2, <2>1, <2>2, <2>5, RunThrow DEF SettleBudget
  <2> QED BY <2>4, <2>5
<1>3. CASE ReleaseRunLock(q)
  <2>1. /\ x \in Ops /\ call[q].kind \in {"start", "poll"}
        /\ answer[q] \in Terminal /\ reservation[x] = Settlement(answer[q])
    BY <1>3 DEF ReleaseRunLock, LabelOK, Applying, RunOK
  <2>2. call[q].kind = "start" =>
           /\ ~record[x].known /\ cur[q] = record[x] /\ cur[q].status = "pending"
           /\ faults = 0 => runLock[call[q].account] = x
           /\ account[x] = call[q].account
    BY <1>3, <2>1, BoundTypes
       DEF ReleaseRunLock, RunOK, Recording, Applying, OwnInv, OwnerOK, Owns, Ops
  <2>3. call[q].kind = "poll" => record[x].known
    BY <1>3 DEF ReleaseRunLock, RunOK, Applying
  <2>4. UNCHANGED <<reservation, record, faults>>
    BY <1>3 DEF ReleaseRunLock, bounds
  <2>5. CASE MayFree(account[x], x)
    <3>1. /\ pc'[q] = "save" /\ call'[q] = call[q] /\ cur'[q] = cur[q]
          /\ answer'[q] = answer[q]
      BY <1>3, <2>5, ContinueIsLocal DEF ReleaseRunLock, Labels
    <3> QED BY <2>1, <2>2, <2>3, <2>4, <3>1 DEF RunOK, Recording, Applying
  <2>6. CASE ~MayFree(account[x], x)
    <3>1. call[q].kind = "start" => faults' # 0
      BY <2>2, <2>4, <2>6 DEF MayFree
    <3> QED BY <1>3, <2>6, <3>1, RunThrow DEF ReleaseRunLock
  <2> QED BY <2>5, <2>6
<1>4. CASE SaveRecord(q)
  <2>1. CASE Fresh(x, cur[q])
    <3>1. pc'[q] \in {"audit", "idle"}
      BY <1>4, <2>1, FinishIsLocal DEF SaveRecord, Goto, LocalsOK
    <3> QED BY <3>1, RunQuiet DEF Applying
  <2>2. CASE ~Fresh(x, cur[q])
    <3>1. call[q].kind = "start" => Fresh(x, cur[q])
      BY <1>4 DEF SaveRecord, RunOK, Recording, Applying, Fresh
    <3> QED BY <1>4, <2>2, <3>1, RunThrow DEF SaveRecord
  <2> QED BY <2>1, <2>2
<1> QED BY <1>1, <1>2, <1>3, <1>4

\* The audit of an outcome, and the undo.
LEMMA RunFinish ==
    ASSUME Everything, Next, NEW q \in Procs,
           AuditTerminal(q) \/ UndoBudget(q) \/ UndoLock(q) \/ UndoRecord(q)
    PROVE  RunOK(q)'
<1> USE DEF Everything, TypeInv, RunInv
<1> DEFINE x == call[q].op
<1>1. CASE AuditTerminal(q)
  <2>1. CASE audit[x] \in {"none", cur[q].status}
    <3>1. pc'[q] = "idle"
      BY <1>1, <2>1, FinishIsLocal DEF AuditTerminal
    <3> QED BY <3>1, RunQuiet DEF Applying
  <2>2. CASE audit[x] \notin {"none", cur[q].status}
    <3>1. /\ x \in Ops /\ call[q].kind \in {"start", "poll"}
          /\ cur[q].status \in Terminal
      BY <1>1 DEF AuditTerminal, LabelOK, Starting
    <3>2. record[x].status = cur[q].status
      BY <3>1 DEF AheadOK, CopyOf, Terminal
    <3> QED BY <2>2, <3>1, <3>2 DEF LedgerOK
  <2> QED BY <2>1, <2>2
<1>2. CASE UndoBudget(q)
  <2>1. x \in Ops
    BY <1>2 DEF UndoBudget, LabelOK, Starting
  <2>2. pc'[q] = "undo_lock" /\ call'[q] = call[q] /\ faults' = faults
    BY <1>2, ContinueIsLocal DEF UndoBudget, Labels, bounds
  <2>3. faults = 0 /\ call[q].created => reservation'[x] = "released"
    BY <1>2, <2>1 DEF UndoBudget, RunOK, StoresOK
  <2> QED BY <2>2, <2>3 DEF RunOK, Recording, Applying
<1>3. CASE UndoLock(q)
  <2>1. CASE ~call[q].created
    <3>1. pc'[q] = "idle"
      BY <1>3, <2>1, FinishIsLocal DEF UndoLock
    <3> QED BY <3>1, RunQuiet DEF Applying
  <2>2. CASE call[q].created
    <3>1. pc'[q] = "undo_record" /\ call'[q] = call[q]
      BY <1>3, <2>2, ContinueIsLocal DEF UndoLock, Labels
    <3>2. UNCHANGED <<reservation, faults>>
      BY <1>3 DEF UndoLock, bounds
    <3>3. faults = 0 => reservation[x] = "released"
      BY <1>3, <2>2 DEF UndoLock, RunOK
    <3> QED BY <3>1, <3>2, <3>3 DEF RunOK, Recording, Applying
  <2> QED BY <2>1, <2>2
<1>4. CASE UndoRecord(q)
  <2>1. pc'[q] \in {"undo_audit", "idle"}
    BY <1>4, FinishIsLocal DEF UndoRecord, Goto, LocalsOK
  <2> QED BY <2>1, RunQuiet DEF Applying
<1> QED BY <1>1, <1>2, <1>3, <1>4

\* What RunOK says of a request is kept by every step.
LEMMA RunPreserved ==
    ASSUME Everything, Next, NEW q \in Procs
    PROVE  RunOK(q)'
<1> USE DEF Everything, TypeInv
<1>1. CASE UNCHANGED <<pc, call, cur, answer>>
  BY <1>1, RunUndisturbed
<1>2. ASSUME NEW p \in Procs \ {q}, ProcStep(p) PROVE RunOK(q)'
  BY <1>2, StepIsLocal, RunUndisturbed DEF Locally
<1>3. CASE Crash
  <2>1. \/ pc'[q] = "idle"
        \/ /\ pc'[q] = pc[q] /\ call'[q] = call[q]
           /\ cur'[q] = cur[q] /\ answer'[q] = answer[q]
    BY <1>3 DEF Crash
  <2> QED BY <2>1, RunUndisturbed, RunQuiet DEF Applying
<1>4. CASE Begin(q)
  <2>1. pc'[q] \in {"replay", "list", "audit", "fetch"}
    BY <1>4 DEF Begin, BeginStart, BeginCompose, BeginPoll, Goto, LocalsOK
  <2> QED BY <2>1, RunQuiet DEF Applying
<1>5. CASE FetchFails(q) \/ RejectBusy(q) \/ ReleaseComposeLock(q)
             \/ ReplayRequest(q) \/ ListShots(q)
  <2>1. pc'[q] \in {"idle", "acquire", "audit"}
    BY <1>5, FinishIsLocal, ContinueIsLocal
       DEF FetchFails, RejectBusy, ReleaseComposeLock, ReplayRequest, ListShots,
           Goto, LocalsOK, Labels
  <2> QED BY <2>1, RunQuiet DEF Applying
<1>6. CASE Render(q) \/ SaveComposite(q)
  <2>1. call[q].kind # "start"
    BY <1>6 DEF Render, SaveComposite, LabelOK, Composing
  <2>2. CASE Throw(q)
    BY <2>1, <2>2, RunThrow
  <2>3. CASE ~Throw(q)
    <3>1. pc'[q] \in {"compose_save", "compose_release"}
      BY <1>6, <2>3, ContinueIsLocal DEF Render, SaveComposite, Labels
    <3> QED BY <3>1, RunQuiet DEF Applying
  <2> QED BY <2>2, <2>3
<1>7. CASE StoreFails(q)
  <2>1. faults' # 0
    BY <1>7 DEF StoreFails, StoresOK
  <2> QED BY <1>7, <2>1, RunThrow DEF StoreFails
<1>8. CASE Proceed(q) \/ Fetch(q)
  BY <1>5, <1>6, <1>8, RunStart, RunSubmit, RunApply, RunFinish
     DEF Proceed, Fetch
<1> QED BY <1>1, <1>2, <1>3, <1>4, <1>7, <1>8
        DEF Next, ProcStep, ProviderFinishes, TaskChanges, UpdateLimit

\* A copy never runs ahead of its record.
LEMMA AheadPreserved ==
    ASSUME Everything, Next, NEW q \in Procs
    PROVE  AheadOK(q)'
<1> USE DEF Everything, TypeInv, OwnInv, RunInv
<1>1. CASE /\ cur'[q] = cur[q] /\ CopyOf(q)' = CopyOf(q)
           /\ call'[q].kind = call[q].kind
           /\ call'[q].created = call[q].created
  <2> SUFFICES ASSUME cur[q].status # "none"
               PROVE  /\ cur[q].known => record'[CopyOf(q)].known
                      /\ cur[q].status \in Terminal =>
                            record'[CopyOf(q)].status = cur[q].status
    BY <1>1 DEF AheadOK
  <2> DEFINE o == CopyOf(q)
  <2>1. o \in Ops /\ record[o].status # "none"
    BY DEF CopyOK
  <2>2. /\ cur[q].known => record[o].known
        /\ cur[q].status \in Terminal => record[o].status = cur[q].status
    BY DEF AheadOK
  <2>3. record[o].status \in Terminal => record'[o].status = record[o].status
    BY <2>1, RecordStep DEF Saves, Creates
  <2> QED BY <2>1, <2>2, <2>3, KnownStays
<1>2. CASE cur'[q].status = "none"
  BY <1>2 DEF AheadOK
<1>3. CASE /\ CopyOf(q)' \in Ops
           /\ cur'[q] = record'[CopyOf(q)'] /\ cur'[q].status # "none"
  BY <1>3 DEF AheadOK
<1> QED BY <1>1, <1>2, <1>3, CopyStep

\* What is written to the audit is the outcome of the record.
LEMMA AuditWriter ==
    ASSUME Everything, Next, NEW o \in Ops, audit'[o] # audit[o]
    PROVE  /\ record[o].status \in Terminal /\ audit'[o] = record[o].status
           /\ UNCHANGED record
<1> USE DEF Everything, TypeInv, RunInv
<1>1. ASSUME NEW p \in Procs, AuditTerminal(p)
      PROVE  /\ record[o].status \in Terminal /\ audit'[o] = record[o].status
             /\ UNCHANGED record
  <2>1. /\ call[p].op = o /\ audit'[o] = cur[p].status /\ UNCHANGED record
    BY <1>1 DEF AuditTerminal, StoresOK
  <2>2. /\ call[p].kind \in {"start", "poll"} /\ cur[p].status \in Terminal
    BY <1>1 DEF AuditTerminal, LabelOK, Starting
  <2>3. record[o].status = cur[p].status
    BY <2>1, <2>2 DEF AheadOK, CopyOf, Terminal
  <2> QED BY <2>1, <2>2, <2>3
<1>2. \E p \in Procs : AuditTerminal(p)
  <2>1. ASSUME NEW p \in Procs, Proceed(p), ~AuditTerminal(p)
        PROVE  audit' = audit
    BY <2>1
       DEF Proceed, ReplayRequest, AcquireRunLock, RejectBusy, ReserveBudget,
           CreateRecord, ReturnReservation, ReturnRunLock, SubmitJob,
           SettleBudget, SaveRecord, UndoRecord, SaveComposite, ReleaseRunLock,
           UndoBudget, UndoLock, ListShots, Render, ReleaseComposeLock, stores
  <2> QED BY <2>1
          DEF Next, Begin, BeginStart, BeginPoll, BeginCompose, Fetch, FetchFails,
              FetchJob, StoreFails, Crash, ProviderFinishes, TaskChanges,
              UpdateLimit, stores
<1> QED BY <1>1, <1>2

\* The record of an operation, its reservation, its audit and the provider
\* keep agreeing.
LEMMA LedgerPreserved ==
    ASSUME Everything, Next
    PROVE  LedgerOK'
<1> USE DEF Everything, TypeInv, OwnInv, RunInv
<1>1. (faults' = 0 => faults = 0) /\ (lost' = 0 => lost = 0)
  BY FaultStep, LostStep
<1> SUFFICES ASSUME NEW o \in Ops
             PROVE  /\ record'[o].status = "succeeded" =>
                          reservation'[o] = "charged"
                    /\ faults' = 0 /\ record'[o].status = "failed" =>
                          reservation'[o] = "released"
                    /\ audit'[o] # "none" => audit'[o] = record'[o].status
                    /\ faults' = 0 /\ lost' = 0 /\ job'[o] = "pending" =>
                          reservation'[o] = "held"
  BY DEF LedgerOK
<1>2. /\ record'[o].status = "succeeded" => reservation'[o] = "charged"
      /\ faults' = 0 /\ record'[o].status = "failed" =>
            reservation'[o] = "released"
  <2>1. CASE record'[o] = record[o]
    BY <1>1, <2>1, SettledStays DEF LedgerOK
  <2>2. CASE record'[o] # record[o]
    <3>1. record[o] \in Record /\ UNCHANGED reservation
      BY <2>2, WriterStep DEF StoresOK
    <3>2. ASSUME NEW p \in Procs, Answers(p, o)
          PROVE  record'[o].status \in Terminal =>
                    reservation[o] = Settlement(record'[o].status)
      <4>1. record'[o].status = answer[p]
        BY <3>1, <3>2 DEF Answers, Applied, Record
      <4> QED BY <3>2, <4>1 DEF Answers, RunOK
    <3>3. ASSUME NEW p \in Procs, Gives(p, o), faults = 0
          PROVE  reservation[o] = "released"
      BY <3>3 DEF Gives, LabelOK, RunOK
    <3>4. \A p \in Procs : Gives(p, o) => record'[o].status = "failed"
      BY <3>1 DEF Gives, Record
    <3>5. \A p \in Procs : Creates(p, o) => record'[o].status = "pending"
      BY DEF Creates, NewRecord, StoresOK
    <3>6. Composes(o) => record'[o].status = "succeeded" /\ reservation[o] = "charged"
      BY DEF Composes, LedgerOK
    <3> QED BY <1>1, <2>2, <3>1, <3>2, <3>3, <3>4, <3>5, <3>6, WriterStep
            DEF Settlement, Terminal
  <2> QED BY <2>1, <2>2
<1>3. ASSUME audit'[o] # "none" PROVE audit'[o] = record'[o].status
  <2>1. CASE audit'[o] = audit[o]
    <3>1. audit[o] = record[o].status /\ audit[o] \in Terminal
      BY <1>3, <2>1 DEF LedgerOK, StoresOK
    <3>2. record'[o].status = record[o].status
      BY <3>1, RecordStep DEF Saves, Creates, Terminal
    <3> QED BY <2>1, <3>1, <3>2
  <2>2. CASE audit'[o] # audit[o]
    BY <2>2, AuditWriter
  <2> QED BY <2>1, <2>2
<1>4. ASSUME faults' = 0, lost' = 0, job'[o] = "pending"
      PROVE  reservation'[o] = "held"
  <2>1. faults = 0 /\ lost = 0
    BY <1>1, <1>4
  <2>2. CASE job[o] = "pending"
    <3>1. reservation[o] = "held"
      BY <2>1, <2>2 DEF LedgerOK
    <3>2. ASSUME NEW p \in Procs, SettlesAt(p, o) PROVE FALSE
      <4>1. call[p].created => job[o] # "pending"
        BY <2>1, <3>2 DEF SettlesAt, RunOK, LabelOK, Terminal
      <4>2. ASSUME ~call[p].created, call[p].kind = "start" PROVE FALSE
        <5>1. record[o].status = "none"
          BY <3>2, <4>2, BoundTypes DEF SettlesAt, OwnerOK, Owns, Ops
        <5> QED BY <2>2, <5>1 DEF JobOK
      <4>3. CASE pc[p] = "settle"
        BY <2>2, <3>2, <4>3 DEF SettlesAt, RunOK, Terminal
      <4> QED BY <2>2, <3>2, <4>1, <4>2, <4>3 DEF SettlesAt, LabelOK, Starting
    <3> QED BY <3>1, <3>2, SettleStep
  <2>3. CASE job[o] # "pending"
    <3>1. PICK p \in Procs : Submits(p, o)
      BY <1>4, <2>3, JobMoves DEF Terminal
    <3> QED BY <3>1 DEF Submits, RunOK
  <2> QED BY <2>2, <2>3
<1> QED BY <1>2, <1>3, <1>4

\* The seventh layer is kept by every step,
LEMMA NextEverything == Everything /\ JobInv /\ [Next]_vars => RunInv'
<1> SUFFICES ASSUME Everything, JobInv, [Next]_vars PROVE RunInv'
  OBVIOUS
<1>1. CASE Next
  <2>1. JobOK'
    BY <1>1, NextJobInv DEF Everything, JobInv
  <2> QED BY <1>1, <2>1, RunPreserved, AheadPreserved, LedgerPreserved DEF RunInv
<1>2. CASE UNCHANGED vars
  BY <1>2
     DEF Everything, RunInv, RunOK, AheadOK, CopyOf, Recording, JobOK, LedgerOK,
         vars, stores, bounds
<1> QED BY <1>1, <1>2

\* and holds at the start.
LEMMA InitRunInv == Init => RunInv /\ JobInv
  BY DEF Init, RunInv, RunOK, AheadOK, Recording, Applying, JobOK, LedgerOK,
         NoRecord, NoCall, JobInv, OneRecordPerRequest, Terminal

\* The inductive invariant of the whole module.
Inductive == Everything /\ JobInv

\* All layers together are inductive.
LEMMA AllLayers == Spec => []Inductive
<1>1. Init => Inductive
  BY InitTypeInv, InitOwnInv, InitSlotInv, InitRunInv DEF Inductive, Everything
<1>2. Inductive /\ [Next]_vars => Inductive'
  BY NextTypeInv, NextOwnInv, NextSlotInv, NextJobInv, NextEverything
     DEF Inductive, Everything
<1> QED BY <1>1, <1>2, PTL DEF Spec

\* A generation reported or audited as succeeded was charged, and while no
\* store call fails one reported or audited as failed gave its reservation
\* back: whoever saves an outcome is the one that settled it, since a job is
\* unknown to every poll until the start() that created it saved the
\* provider's answer.
THEOREM OutcomesArePaid == Spec => []OutcomeMatchesLedger
<1>1. Inductive => OutcomeMatchesLedger
  BY TypeParts
     DEF Inductive, Everything, TypeInv, RunInv, LedgerOK, OutcomeMatchesLedger
<1> QED BY <1>1, AllLayers, PTL

\* While every store call succeeds and every answer of the provider arrives, an
\* account never runs two expensive operations at once, over every crash: a job
\* at the provider keeps its reservation, the reservation keeps the run lock,
\* and a composition holds the lock while it renders.
THEOREM OneAtATime == Spec => []OneOperationPerAccount
<1>1. Inductive => OneOperationPerAccount
  <2> SUFFICES ASSUME Inductive, faults = 0, lost = 0, NEW a \in Accounts
               PROVE  Cardinality(Running(a)) <= 1
    BY DEF OneOperationPerAccount
  <2> USE DEF Inductive, Everything, TypeInv, OwnInv, RunInv
  <2>1. ASSUME NEW o \in Ops, account[o] = a, job[o] = "pending"
        PROVE  o = runLock[a]
    BY <2>1 DEF LedgerOK, SlotInv, HeldReservationHoldsSlot
  <2>2. ASSUME NEW q \in Procs, pc[q] = "render", call[q].account = a
        PROVE  call[q].op = runLock[a]
    BY <2>2 DEF RunOK
  <2>3. \A x \in Running(a) : x = runLock[a]
    BY <2>1, <2>2 DEF Running
  <2>4. Running(a) = {} \/ Running(a) = {runLock[a]}
    BY <2>3
  <2> HIDE DEF Inductive, Everything, TypeInv, OwnInv, RunInv
  <2>5. CASE Running(a) = {}
    <3>1. Cardinality(Running(a)) = 0
      BY <2>5, FS_EmptySet, Zenon
    <3> QED BY <3>1
  <2>6. CASE Running(a) = {runLock[a]}
    <3>1. Cardinality(Running(a)) = 1
      BY <2>6, FS_Singleton, Zenon
    <3> QED BY <3>1
  <2> QED BY <2>4, <2>5, <2>6
<1> QED BY <1>1, AllLayers, PTL
=============================================================================
