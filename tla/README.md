# Verification of the AI content workspace (yhc_agent)

TLA+ models of the parts of this repository whose correctness depends on the
order in which requests, processes, crashes and store calls interleave, the TLC
instances that check them, and proofs, checked by TLAPS, of what matters most.
Paths are relative to the repository; `api/` abbreviates `apps/api/src/` and
`domain/` abbreviates `packages/domain/src/`.

- [The system](#the-system)
- [Modules](#modules)
- [Runs](#runs)
- [Proofs](#proofs)
- [Where the code and its documents disagree](#where-the-code-and-its-documents-disagree)
- [What is not modelled](#what-is-not-modelled)
- [Plan](#plan)

## The system

An HTTP server (`api/server.ts`) gives several accounts a shared workspace:
brands, projects with an asset pool, and in each project video tasks that go
through six stages (strategy, script, asset matching, storyboard, video
preview, delivery). A person confirms every stage. From a confirmed storyboard
real video is generated at a paid provider, shot by shot, under an account
budget and one run lock per account. An agent proposes, and acts through cards
the user clicks. Everything is kept in PostgreSQL, or in local JSON files with
the same interface. An offline command migrates the data of the single-user
predecessor (V1).

### Inventory

*Modelled* means that every operation that changes the component's state is an
action; for what *partly* leaves out, see
[What is not modelled](#what-is-not-modelled).

| Component | State it keeps | Operations | What makes it correct | Status |
|---|---|---|---|---|
| Video generation runtime (`api/video-generation-runtime.ts`, stores) | generation jobs (unique per actor and request, compare-and-swap on a revision) | `start`, `get`, `latest`, `compose` | a request is submitted once; outcome, ledger and audit agree; nothing terminal changes; every request gives back the slot and the money, or leaves them to a job that polls can end | modelled |
| Request audit (`api/video-generation-request-store.ts`) | one row per request outcome | `create` with replay and conflict | an outcome, once audited, is final | partly |
| Account run lock (`domain/account-run-lock.ts`, `api/account-run-lock-*.ts`) | holder token per account | acquire, release by token | at most one expensive operation of an account runs | modelled |
| Account budget (`domain/account-budget.ts`, `api/account-budget-*.ts`) | append-only ledger, limit, revision | estimate, reserve, charge, release, execute, create, update limit | spent + reserved never passes the limit; the ledger can always be replayed; reservations end | modelled |
| High-cost operation runtime (`api/high-cost-operation-runtime.ts`) | none | lock, budgeted execution, unlock | the lock encloses the budget | modelled |
| Video provider and artifact import (`packages/tools/`, `api/generated-video-artifact-importer.ts`) | external jobs, files | create, poll, download, compose | accepts one job per idempotency key | partly |
| Video task workflow (`domain/stage-*.ts`, `domain/agent-action-command.ts`, `domain/asset-*.ts`, `api/video-task-*-runtime.ts`) | the task record: stage, versions, invalidations, snapshot, draft, receipts, owner | create, five card commands, confirm, roll back, reopen, take over, assign | every valid version rests on selected ones; a human confirms what he saw | modelled |
| Video task store (`api/video-task-store.ts`, `api/postgres-video-task-store.ts`) | records, creation metadata, file locks | transactions with one revision per write, upgrade of old records | one writer at a time; who ends leaves no lock; old records stay usable | partly |
| Project assets and matching (`api/project-asset-*.ts`, `api/temporary-asset-*.ts`, `api/asset-matching-runtime.ts`) | asset pools, temporary assets | refresh, upload, validate, promote, select, lock | a pool is sound; a task locks what its owner's page showed | partly |
| Project creation (`api/project-creation-runtime.ts`, `api/batch-project-store.ts`) | projects with pools | idempotent creation over a catalog snapshot, first task | one project per wizard, made of what is current and shown | partly |
| Workspace administration (`api/workspace-admin-*.ts`) | brands, vehicles, packages, grants, revisions | compare-and-swap updates | the record stays valid; no update is lost | modelled |
| Workspace sessions (`api/workspace-session-*.ts`) | login sessions | create, switch, resolve, end | a call works with the grants its session had | modelled |
| Media artifacts (`api/media-artifact-*.ts`, object storage) | rows and objects | register, access, verify | versions without a gap, one row per request, served as registered, no deadlock | modelled |
| PostgreSQL infrastructure (`api/postgres-*.ts`, `api/database-*.ts`) | schema version | transactions, migrations | a transaction commits or has no effect | partly |
| Legacy migration (`api/legacy-*-migration*.ts`, `api/workspace-migration-state.ts`) | manifest, backups, lock, API leases | plan, apply, resume, restore; API start and stop | originals recoverable, always; alone on the data and business data never overwritten, but for a lock that is usurped | partly |
| Agent runtime (`packages/agent/`) | sessions in memory and on file, runs, journal | prompt, observe, abort, reset, delete, list | a prompt starts one run; everybody is answered; but for loads that cross, one run at a time and no answer is lost | partly |
| Web client (`apps/web/public/`) | account, library, frame, panels | the handlers of the page | panels follow the selection; locked controls come back to whoever stays on the task | partly |
| Agent tools and context, schemas | vehicle catalog; record shapes | | | partly |
| V1 runtime, HTTP routes, CLI | V1 records | | | not modelled |

### How they interact, and what is hard

A *request* is an asynchronous function on a server process. Between two of its
`await`s any other request may run, and a process may die with some steps done.
Within one store transaction nothing interleaves (a PostgreSQL transaction with
row locks, or the local store's exclusion).

- `start()` (`api/video-generation-runtime.ts:264`) goes through five stores
  and the provider in as many transactions: run lock, budget, job row,
  provider, job row, audit. Its `catch` undoes three of them and swallows the
  failure of each. `get` and `latest` settle the same job when the provider has
  finished, from as many web pages as are open; each page polls every four
  seconds. `compose()` shares the run lock and the job rows.
- The budget ledger is written by executions, by polls that settle what a
  `start()` reserved, and by administrators; each replays the whole ledger.
- A command on a task carries the revision and the artifact of the page it was
  clicked on. It may arrive late, twice, or after somebody else's operation.
- A migration command and the API processes exclude each other with a lock
  directory and lease files, checked in two different orders, and a crash leaves
  either behind.
- Administrators work on one record per tenant from pages that are out of date,
  with grants read when their session was resolved; a creator's wizard reads the
  same record in three requests, and makes a project from it in a fourth and a
  fifth, while they go on.
- An agent session lives in memory, in a file and in a journal of runs; a call
  waits for the session's lock twice, while a run, once started, goes on
  without it and writes the file when it ends.
- The project's asset pool follows the company catalog: whoever reads it writes
  it. An upload goes through four sections, a confirmation through three.
- A registration of a media artifact takes four advisory locks in a row and
  asks the bucket before it holds any.
- The local task store takes a lock by making a directory; every process may
  break the lock of one that looks dead, with six calls of the file system.
- The web page has a dozen flows of requests that share flags and generations;
  any of them may be answered after the user has gone elsewhere.
- Nothing in the code reconciles what a crash leaves: there is no expiry of
  locks or reservations and no job that looks for orphans.

`PROJECT.json` lists the hazards line by line and the properties that cover
each.

## Modules

| Module | Models | Checked by | Proofs |
|---|---|---|---|
| `VideoGeneration` | video runtime, run lock, budget and audit as it uses them, provider | `MCVideoGeneration` | `VideoGenerationProofs` |
| `AccountBudget` | the ledger with all who write it, the high-cost runtime | `MCAccountBudget` | `AccountBudgetProofs` |
| `BudgetContract` | what a budget promises; implemented by both modules above | through them | (with the above) |
| `TaskWorkflow` | the stages of one task, its confirmations, rollbacks, commands | `MCTaskWorkflow` | `TaskWorkflowProofs` |
| `TaskFileLock` | the file lock, reading and writing of the local task store | `MCTaskFileLock` | `LocalFilesProofs` |
| `WorkspaceAccess` | the administration of a tenant, sessions, the PostgreSQL catalog | `MCWorkspaceAccess` | `WorkspaceProofs` |
| `ProjectCreation` | the wizard and the creation of project and task; extends `WorkspaceAccess`, whose steps interleave with its own | `MCWorkspaceAccess` | (with the above) |
| `ProjectAssets` | pool, uploads, asset page and confirmation of a project | `MCProjectAssets` | `ProjectAssetsProofs` |
| `MediaArtifacts` | registration and serving of media artifacts over a bucket | `MCMediaArtifacts` | `MediaArtifactsProofs` |
| `AgentRuntime` | one agent session: object, file, lock, journal, runs, browsers | `MCAgentRuntime` | `LocalFilesProofs` |
| `WebClient` | the page: account, library, frame and panels, and its flows of requests | `MCWebClient` | `WorkspaceProofs` |
| `LegacyMigration` | the migration command, its lock, the API's leases | `MCLegacyMigration` | `LegacyMigrationProofs` |

### VideoGeneration

A process of `Procs` is an HTTP request; a step is one awaited call with the
local code up to the next await, so `pc` names the await a request has reached.
`start()` draws three UUIDs, for lock, reservation and job; each belongs to that
one call, so the model numbers *operations* and uses the number for all three.
`call`, `cur` and `answer` are the locals: arguments, the copy of the record
read before an await, the provider's answer.

| Code | Actions |
|---|---|
| `start` up to the lock | `BeginStart`, `ReplayRequest`, `AcquireRunLock`, `RejectBusy` |
| `start` between lock and provider | `ReserveBudget`, `CreateRecord`, `ReturnReservation`, `ReturnRunLock` |
| `start`, provider and save | `SubmitJob`, `SettleBudget`, `ReleaseRunLock`, `SaveRecord`, `AuditTerminal` |
| `catch` of `start` | `UndoBudget`, `UndoLock`, `UndoRecord`, then the audit |
| `get`, `latest` | `BeginPoll`, `FetchJob`, `FetchFails`, then settle, unlock, save, audit |
| `compose` | `BeginCompose`, `ListShots`, `Render`, `SaveComposite`, `ReleaseComposeLock` |
| store call that throws | `StoreFails` |
| server process that dies | `Crash`: any set of requests ends, the stores stay |
| others | `ProviderFinishes`, `TaskChanges` (takeover, stage change), `UpdateLimit` |

Left out: prompt and shot texts, the public view, HTTP parsing, object
storage and FFmpeg (success or failure; an import may fail every time). An answer
of the provider may lack the job's id, so that the record keeps the idempotency key
it had (`named` in `SaveRecord`). `queued` and `running` are one status, and so
are `failed` and `cancelled`, which the runtime treats alike.

### AccountBudget and BudgetContract

`entries` is the persisted ledger; `Spent`, `Reserved` and `Active` replay it as
`calculateAccountBudgetBalance` and `activeReservations` do, and `Replayable`
says that the replay does not throw. An execution is a call of
`AccountBudgetRuntime.execute`, under the run lock (`Acquire`, the high-cost
runtime) or without it (`ExecuteUnlocked`); `HandOver` is the video runtime's
use, which reserves and leaves settlement to polls (`PollSettles`). `seen` is the
budget on an administrator's screen.

`BudgetContract` is the abstract specification: three numbers, of which amounts
are reserved, settled, and the limit moved. `AccountBudget` implements it with
the replayed sums (`ImplementsBudget` there), and every account of
`VideoGeneration` implements it with the reservations of its operations.

### TaskWorkflow

One task, all of its record that decides what happens next. A step is a whole
command, since each is one transaction over the record; `late` is one command on
its way that may arrive later, again, or not at all. A content is named by the
revision that generated it: `seen` in a version is the content on the page
when its owner confirmed, `at` the revision of the confirmation. `Init` has new
tasks (with or without a supplied script) and tasks *upgraded* from the former
stage order by `upgradeLegacyWorkflowOrder`.

| Code | Actions |
|---|---|
| cards: `generateVideoTaskStrategy`, `requestVideoTaskStrategyApproval`, `generateVideoTaskScript`, `generateSimulatedStageArtifact` | `GenerateStrategy`, `RequestApproval`, `GenerateScript`, `GenerateSimulated` |
| `confirmVideoTaskStage` with `lockVideoTaskAssetSnapshot` | `ConfirmStage` |
| `rollbackVideoTaskStage` with the store's checks | `RollbackStage`, guards `Storable`, `Explained` |
| `reopenAssetMatching` | `ReopenAssetMatching` |
| `takeOverVideoTask`, `assignVideoTaskOwner` | `TakeOver`, `AssignOwner` |
| the page sends, the network delivers | `Prompt`, `Send`, `Arrive`, `Drop` |
| project pool | `EditPool` |

Abstractions: receipts of commands are left out, since a replay of a
command whose receipt is found changes nothing and the revision check already
refuses one whose receipt would not be; a client names the artifact its page
showed and no other; the draft of a strategy stands for the lock of the vehicle
version that comes and goes with it; projects stay active; the validation of
strategy items is a precondition that the agent's drafts meet.

### TaskFileLock

The steps of `LocalVideoTaskProductionStore` on its lock directories, one call of
the file system each. A transaction is one call of `transact` or
`createWithResult`; an update locks its task, a creation the list of the project.
`dirs` says who made the directory of a key, `files` what is in it: owner files
(signed with a token of their own), fences and the mark in a fence. `old` are the
files nobody has touched for a lease; what a record holds is the transaction that
wrote it.

| Code | Actions |
|---|---|
| `#acquireFileLock` | `Claim` (mkdir), `Sign` (owner file), `Unsign` (signing failed), `TimeOut` |
| `#removeStaleLockDirectory` | `Ask` (list, and look at the processes and at the times), `Sweep` (one file after the other), `Swept` (rmdir) |
| `#read`, the transaction's own check | `Begin`, `Read`, `Refuse` |
| `withWriteFence`, `assertOwned` | `MakeFence`, `WriteMark`, `AssertOrRelease`, `AssertOwned`, `Unmark`, `Unfence` |
| `#write`, the look at the winner | `Write`, `ReadWinner` |
| `release` | `Release`, `Leave` |
| heartbeat, slow owner, dead process | `Heartbeat`, `Expire`, `Crash` |

`guest` and `late` are ghosts: a transaction that signed in a directory another
had made, and one that stood at its fence when others could see its lease had run
out. In both cases a write can be lost (see the disagreements); `InTime` excludes
them from `WritesBuildOnFile`, and `RecoversSafely` does not.

### WorkspaceAccess and ProjectCreation

`admin` is the one record of a tenant. Every operation of
`workspace-admin-runtime.ts` is a transaction over it and one action; its guard
has the expected revisions of the request, which are those of the page
(`page[m]`), and the grants of the session, read when the call was admitted
(`request[m]`). A vehicle is the sequence of its versions, and content is named
by revision or version. `Rejected` is the unique index of the PostgreSQL catalog,
which is rebuilt version by version in every transaction.

| Code | Actions |
|---|---|
| `createBrand`, `updateBrand` | `CreateBrand`, `UpdateBrand` |
| `createVehicle`, `createVehicleFactVersion` | `CreateVehicle`, `CreateVehicleFactVersion` |
| `replaceVehicleAssetAssociations` | `ReplaceVehicleAssetAssociations` |
| `createAccessGrant`, `updateAccessGrant` | `CreateAccessGrant`, `UpdateAccessGrant` |
| `createOrSwitchSession`, `resolveSession`, `signOut` | `SignIn`, `Switch`, `FinishSwitch`, `EndSession`, `Admit` |
| management center | `LoadPage`, `Refuse` |
| wizard (`project-creation-wizard.js`) | `Open`, `LoadOptions`, `Choose`, `Submit`, `ReadPackage`, `ReadConfiguration`, `Fail`, `PostProject`, `PostTask`, `LoseAnswer`, `Close`, `ResetForAccount` |
| `ProjectCreationRuntime.createProject` | `LookUpReplay`, `Select`, `Create`, `Reject` |
| first task (`video-task-runtime.ts`) | `CreateTask`, `RefuseTask` |
| server stops | `Restart` |

A creation reads the administration, asks the company's asset catalog (external:
it may refuse) and compares again inside its write; the administrators' steps come
between.

### ProjectAssets

One project, two tasks. `pool` is the sequence of its revisions; whoever reads it
brings it up to date with the catalog (`Refreshed`), which is a write. A
coordinator runs the sections of a project one at a time, so a section is a step.
Persons stand for persons and scenes. A page shows the pool, the uploads and the
matched vehicles as they were; a call carries what it showed. Which of two uploads of
a file came first is not the order of their registration: `validateTemporaryAsset`
(`domain/temporary-assets.ts:289-301`) compares the times the servers gave them and then
random ids, so an upload draws any `rank` no other has.

| Code | Actions |
|---|---|
| `AssetMatchingRuntime.getView` | `ReadTask`, `ReadPool` (which refuses when an asset of the pool was withdrawn, and leaves the pool refreshed; else `Prepare`), `AnswerView` |
| `lockSelection`, `confirmStage`, resolver, `lockVideoTaskAssetSnapshot` | `ThenView`, `Replay`, `LockSelection`, `RefuseLock` (which may leave the pool extended: `Left`) |
| `registerTemporaryAsset`, `validateTemporaryAsset`, `addTemporaryAssetToProjectPool` | `UploadTemporary`, `Validate`, `ReadRevision`, `AddToProjectPool` |
| asset page | `Load`, `Confirm` (also again), `LoseAnswer`, `Fail` |
| company catalog, task, server | `Publish`, `Withdraw`, `TaskChanges`, `Restart`, `StopWithinSection` |

### MediaArtifacts

A call is `registerReadyArtifact` or `createAccess`; its step names where it is.
The four advisory locks are taken one statement at a time, in the order of
`LockKeys`, and go with the transaction. `bucket` has the writes to each object, one after
the other. Whether the bucket keeps versions is chosen at the start (`versioning`): the
code accepts both (`media-artifact-store.ts:31`, `media-artifact-runtime.ts:163`, `265`),
and with none the head names no version, a row has none and an address serves the
newest write. The program never overwrites an object, somebody else may (`foreign`).

| Code | Actions |
|---|---|
| `registerReadyArtifact` | `Register`, `Verify`, `LockRequest` (with the replay), `Lock` (three times), `FindConflicts`, `AllocateVersion`, `Insert` |
| `createAccess` | `CreateAccess`, `CompareHead`, `SignAddress` |
| `putObject`, others' writes | `PutObject`, `Overwritten` |
| takeover, revoked grant, anything that breaks | `TakenOver`, `Revoked`, `Broken` |

The branch of `Insert` for a refused row is there because the code has it;
`VersionsAreDense` says that it is never taken. The row would be refused as an error and
not as a conflict (see the disagreements).

### AgentRuntime

One session. `objects` are the in-memory objects of it (a refresh makes a new
one), `active` the one in the map, `file` the session file, `journal` the runs the
runtime remembers, `tail` the promise chain that is the session's lock. A call
goes through two phases, authorization and operation, each under the lock; `at`
is the await it stands at. A transcript is the sequence of the runs in it.

Nothing keeps two calls from reading the file at once, or one from removing the session
while another reads it, and in the model nothing does either. `crossed` is a
history variable: it is set when an object is put in place although the map had one by
then, the file had been written since it was read, or the session is being removed
(`Overtaken`), and when a list finds a session whose creation has not been answered.
From then on there may be several objects of one session. Two of them may also write
the one temporary file of the session at once (`session-store.ts:128-138`); after
`crossed` a write is nevertheless one step of the model, and whatever is claimed of
such states (`AnsweredOnce`, `CallsAreAnswered`) does not look into the file.

| Code | Actions |
|---|---|
| `createSession`, `listSessions`, `getSession`, `getTranscript` | `CreateSession`, `ListSession`, `GetSession` |
| `#getActive` | `Load`, `Install` |
| `authorizeSession` | `Authorize`, `Refresh`, `InstallRefreshed`, `Continue` |
| `startPromptRun` | `ReplayRun`, `RefusePrompt`, `StartPromptRun` |
| `#executePromptRun`, `#pruneCompletedRuns` | `AgentAnswers`, `RunFails`, `CompleteRun`, `FailRun` |
| `observePromptRun` | `ObserveRun`, `SendOutcome` |
| `abortPromptRun`, `resetSession`, `deleteSession` | `LookUpRun`, `AbortRun`; `Interrupt`, `ResetSession`, `DeleteSession` |
| session file | `Save`, `Remove`, `FailWrite` |
| browsers, task, server | `PostPrompt` (also again), `WatchRun`, `CancelRun`, `AskFor`, `LoseAnswer`, `TaskChanges`, `Restart` |

### WebClient

`web` is the state of the page, `web.calls` its awaits, each with what the
section before it had captured; a handler up to its next await is one action.
The operators from page to page (`Rendered`, `Opened`, `Synchronized`, ...)
compose in the order of the code, so that a step is the whole synchronous
section with everything it renders. Counters of the page are only compared for
equality, so a call carries whether it is still current (`scope`, `newest`)
instead. `web.escaped` is not in the code: it notes that a user left a locked
selection by one of the two ways out of the frame that do not ask for the lock.
One is the entry of the management center, which is drawn again only with the
account and may still be enabled; the other is the address bar while no project is
listed: `restoreFromLocation` (`workspace-frame.js:452-475`) lets a locked page go to an
address of the same task, cannot open it, and closes the frame.

| Code | Actions |
|---|---|
| `app.js`: library, selection, address bar, brand navigation | `OpenFromLibrary`, `SelectTask`, `ReloadLibrary`, `LibraryAnswered`, `Navigate`, `SelectNavigationBrand`, `Back` |
| `workspace-frame.js` | `ShowModule`, `ShowOverview`, `ShowProjectAssets`, `OpenManagementCenter`, `CloseManagementCenter` |
| `switchWorkspaceAccount` | `SwitchAccount`, `SessionSwitched`, `SwitchFailed`, `BrandsReadAgain` |
| `selectSession`, `newSession`, `resetSession`, `restoreSession` | `SelectSession`, `NewSession`, `ResetSession`, `SessionsListed`, `SessionCreated`, `SessionGot`, `TranscriptRead`, `SessionReset`, `SessionFailed` |
| `sendMessage`, cards | `SendMessage`, `RunEnded`, `RunFailed`, `ExecuteCard`, `CommandAnswered`, `ContextRefreshed`, `RefreshFailed` |
| `asset-matching.js` | `UseAssets`, `AssetsLoaded`, `AssetsConfirmed`, `AssetUploaded`, `UploadViewed`, `AssetsFailed` |
| `workspace-stages.js` | `UseStages`, `StagesLoaded`, `StageMutated`, `StageEnded` |
| the server | any answer, in any order; `ChangedElsewhere` |

### LegacyMigration

Commands and APIs are processes over one file system. A step is one file
operation others can see: making the lock directory, writing its owner, a
backup, a target, the manifest. There is one Work (read only), and one target
of each kind that is treated differently: the administration file (overwritten),
a task (created), a session (both a source and a target). Batch projects are
created like tasks and are not a file of their own. A content is `Absent`,
`Edited(n)` by business, or `Migrated(n)`, what the migration makes of it; the
conversion itself is not modelled. Any number of commands may be started beside each
other, also after a crash; `usurped` is a history variable, set when a command that
is breaking the lock of a dead one removes the `owner.json` of a living one instead
(`UnlinkOwner`). A plan *is* the files it was
made from, as the plan hash covers exactly these. `copy` is a command's manifest
in memory, which it writes back as a whole.

| Code | Actions |
|---|---|
| `acquireMigrationLease`, `#removeStaleMigrationLock`, `release` | `TakeLock`, `InspectLock`, `UnlinkOwner`, `RemoveDirectory`, `WriteOwner`, `CheckLeases`, `Abandon` (the `catch`), `ReleaseLock`, `RemoveLock` |
| `#run` (`apply`, `resume`) | `LoadManifest`, `BackUp`, `WriteManifest`, `AssertReady`, `WriteTarget`, `RecordTarget`, `Verify`, `Complete` |
| `restore` | `LoadForRestore`, `RestoreTarget`, `MarkRestored` |
| `acquireApiLease`, `startApiServer` | `StartApi`, `WriteLease`, `RecheckManifest`, `RecheckLock`, `Open`, `Edit`, `StopApi` |
| process dies, file operation throws | `Crash`, `Fail` |

## Runs

| Run | Question | Bounds, and why they are enough |
|---|---|---|
| `vg_core` | Do two overlapping requests of one account, with polls, compositions, a crash, a failing store call, a lost answer and limit changes keep budget, lock, ledger, job and audit consistent? | two requests in flight, two request ids, two operations: every race of the code is between two requests for one slot; one each of crash, fault and loss, at any step. Price 2 with limits 3 and 4: one or two shots fit |
| `vg_slot` | Does every request give back slot and reservation, or leave them to a job that polls can end; does a poll with a terminal answer settle; does a job cite an authorised revision? | one request id, so that both processes race for it and both poll; two operations, the second a composition or another attempt; the task changes once under them, one answer of the provider is lost |
| `budget_core` | Is the ledger replayable and the contract implemented with everybody writing? | two executions and a handed-over reservation, four entries (two reservations with their settlements), quotes on both sides of the limit, one limit change, crash, fault and overrun |
| `tw_core` | Are versions, selection, snapshot and contents consistent through confirmations, rollbacks, reopenings, takeovers and late clicks? | two accounts, one transfer, two pool revisions; revision 13 lets an upgraded task be completed and rolled back, and a new one be reopened and brought back to the storyboard and the preview |
| `files_core` | Does what a writer of the local task store has read still hold when it writes; does who ends leave no file of its own? | three transactions (a holder, one that takes the lock from it and one that waits or takes it next) of two stores, updates and creations, two ids that share a name; one process dies or is slower than its lease. It also holds with three stores |
| `files_empty` | refuted claim, see below | two updates, nothing fails; the trace has 20 states |
| `ws_core` | Does the record of a tenant stay valid and lose no change; is a project made once, of what is current and was shown? | two administrators (each other's late page), one creator, two names and two vehicles (one to be renamed to a former name), two versions of each, two creations at a time, one lost call or answer. The two administrators make two changes, or one beside a wizard (`WizardCost`) |
| `assets_core` | Is the pool sound, does a task lock what its page showed, is a confirmation sent again recognized? | two tasks of one project, one with a script that matches a vehicle asset and one with a script that matches none, one person, one file, two calls at a time; three events (the first posting of a confirmation, an upload, a publication, a withdrawal, a task's change, a stop, a lost answer), so that one file may be uploaded three times, in any order of the ranks |
| `media_core` | Are versions dense, retries answered alike, objects served as registered, and does nobody wait in a circle? | three calls, as a circle or a lost version needs two writers and a retry; two artifacts and contents, two accounts with one task, two writes to the bucket, so that both objects are written, or one is overwritten or deleted by somebody else (what happens to an object touches no other); a bucket with versions and one without |
| `agent_core` | Is every call answered and every prompt answered once, whatever crosses; and until a load or a removal has crossed another call, one run at a time and no answer lost? | two calls at a time, three in all beside the creation and those that post or watch again, two prompts, either posted again; one lost call; the task changes once; `Retained` is 1 where the code keeps 20 runs, so that one is forgotten while it may be asked for |
| `web_core` | Do the panels follow the selection; does the page keep the task of a run, unless it was left by a way that does not ask; do controls come back to who stays on the task? | four events of users, with every request they start answered, failed or late in any order; two accounts, of which one is an administrator, two tasks |
| `mig_core` | Are originals kept; and until a command usurps a lock, are commands and APIs apart, completion and restoration whole, business data kept? | three commands, of which two are under way at a time (one that died, and two that meet its lock), run any number of times, and one API that starts and stops; two of a crash, a failing operation and an edit, at any step: an interruption, then a continuation or a restoration, itself interrupted or met by an edit (with all three, in twice the states, the same holds) |

**Symmetry** is used where processes, requests or accounts are compared only for
equality, and only in runs without liveness properties.

**`CHECK_DEADLOCK FALSE`** stands in the runs whose events are used up at a bound
or whose processes may all have ended or died: `tw_core`, `ws_core`,
`assets_core`, `media_core`, `agent_core`, `web_core`, `files_core`,
`files_empty`, `mig_core`. That no registration waits in a circle is
`SomeCallGoesOn` of `media_core`, and that no call of an agent hangs is
`CallsAreAnswered`. `vg_core`, `vg_slot` and `budget_core` check for deadlock:
every request, undo or poll can always go on.

**Bounds** stand in guards and are named constants (`MaxOps`, `MaxRevision`,
`MaxCrashes`, ...). A plan has one shot (`Shots = {0}`); real plans have three, five
or six, and shots interact only through the slot and the budget, for which another
attempt at the same shot does as well; the proofs hold for any set of shots. One
account only in `vg_*`: accounts share no state but the tasks, and the proofs hold
for any number.

**Constraints** of the instances leave out states that add nothing, or are bounds:

- `FirstFirst` (`agent_core`) has the first of two idle calls and of two new prompts
  taken first. It does what symmetry would, which is not sound with liveness: whatever
  the other order reaches is the same with the names exchanged.
- `RanksPacked` (`assets_core`) keeps the ranks of uploads so low that the uploads to come
  have room below; every order of ranks is still there.
  `OneLoads`, `SomethingGoesOn` and `LoadsCount` end or leave out what only shows pages
  again: two loads side by side, and loads after the last event of pages that have no
  confirmation under way. Without them it holds as well, in half as many states again.
- `Fitting` (`media_core`) leaves out a candidate that names a version in a bucket
  without versions, or none in one with versions. Its first head refuses it, like a
  candidate with another content, which is there.
- `TwoAtATime` and `TwoAccidents` (`mig_core`) are bounds: of three commands one is dead or
  not under way, and of crash, fault and edit two happen.
  `UntilUsurped` ends a behaviour with the step that usurps a lock, since nothing
  but `OriginalsKept` is claimed afterwards, and that is proved.

**What two history variables cut.** `crossed` in `AgentRuntime` and `usurped` in
`LegacyMigration` mark the step at which the code goes wrong in a way that nothing in
it prevents: a load that another call has overtaken, and the removal of a living
command's lock. Both races are in the models, without a guard the code lacks. The
properties say what holds until that step, and so that there is *no other* way for two
runs to work at once, an answer to be lost, a session to come back, two commands to
share the files. What can happen after it stands under the disagreements.

### Fairness

- `VideoGeneration!Fairness`: a request that was let in goes on (weak fairness
  of its steps: the server runs its event loop, and the `fetch` of Node gives up on
  an answer that does not come). Nothing else is assumed. The page that polls stops at the first error, when
  a newer record of the shot exists and when it is closed
  (`apps/web/public/workspace-stages.js:600-607`, `678-681`, `715-739`); `latest` asks for the
  newest record only (`api/video-generation-runtime.ts:422-429`); an importer that fails
  throws in every poll; and a job need not end at the provider. `vg_slot` has no crashes
  and faults: after a crash nothing in the code frees the slot or the reservation.
- `AgentRuntime!FairSpec`: weak fairness of the steps of each call and of the run.
  Every await there is a file operation or the lock of the session, and
  `sendPrompt` ends because the model's turn has a limit; no user has to come back.
- `WebClient!FairSpec`: every request is answered or fails in the end (the browser
  gives up on a connection). Nothing is assumed of users.

### What the properties say

Type invariants are a conjunct of one invariant of each module (`LedgerReplays`,
`WorkIsSelected`, `OutcomeMatchesLedger`, `EndedLeavesNothing`,
`OneProjectAsShown`, `PoolIsSound`, `AnswersAgree`, `AnswersAreKept`,
`PanelsFollowSelection`, `OriginalsKept`).

`VideoGeneration`: no account is committed beyond its limit (`WithinLimit`,
`ImplementsBudget`); what is reserved holds the slot
(`HeldReservationHoldsSlot`); job, ledger and audit tell one story
(`OutcomeMatchesLedger`); a request reaches the provider once
(`RequestSubmittedOnce`); outcomes are final (`TerminalIsFinal`); one expensive operation per account
(`OneOperationPerAccount`); jobs cite a revision at which their actor was entitled
(`RecordCitesAuthorizedRevision`); no request keeps what it took (`GenerationSettles`): the slot and
the reservation of a `start()` or `compose()` are given back, whatever happens on the way,
or belong in the end to a job that is persisted as pending and with the provider,
so that a poll can end it; and once a request has a terminal answer in hand, both
are given back, whoever else polls the job. It does not say that a poll comes, or that
one succeeds: if none does, the slot stays taken. Some are conditional, and their condition is the
point: with a failing store call (`faults`) the `catch` of `start()` frees the
slot of a reservation it could not release, and with a lost provider answer
(`lost`) it frees the slot of a job that runs.

`AccountBudget`: the ledger never becomes one that makes every later operation
throw, and everybody settles his own (`LedgerReplays`; reservations left by
crashes, faults and overruns stay active, and the property says that no others
do); the contract, in which a limit moves only to what covers the commitments,
is implemented (`ImplementsBudget`).

`TaskWorkflow`: `ValidRestsOnSelected` and `WorkIsSelected` relate the five copies
of "what is current" that confirmation, rollback and reopening change separately;
`ConfirmedAsSeen` and `ContentIsFresh` say that people confirm what they saw and
that it was made from what is current. Versions of the former stage order, and
what came to rest on them (`FormerOrder`), are excepted: after a rollback to one, a
storyboard that rests on a former asset version may stay valid. If two of them do,
and asset matching is reopened, a rollback from one to the other invalidates
nothing, and `resumedWorkflowState` (`domain/stage-rollback.ts:92-111`) goes on after
the storyboard: the task stands at video preview with no asset matching selected,
and every confirmation refuses. `leftAbove` excepts that. It takes 21 revisions,
beyond the bound of `tw_core`; with one account and `MaxRevision = 30` TLC finds it,
and otherwise confirms both properties and the invariant of the proofs.

`TaskFileLock`: what a writer has read still holds when it writes
(`WritesBuildOnFile`), whatever dies or is late, as long as nobody was a guest in
another's directory or stood at its fence when its lease had run out; whoever ends
leaves no file of its own, in its own directory or another's
(`EndedLeavesNothing`).

`WorkspaceAccess` and `ProjectCreation`: the record stays one the store accepts
(`AdministrationIsValid`), whatever late pages and revoked grants it is
changed with; an update overwrites only what its page showed
(`NoChangeIsLost`); a project is made of a brand, vehicle, package and
configuration that are current at the moment it is written
(`CreatedFromCurrent`), once per wizard, and is what the wizard showed
(`OneProjectAsShown`).

`ProjectAssets`: a pool has one version of an asset, a vehicle, and only
validated uploads, never two of one file; and of two uploads of one file both are valid in
one case only, when the first had been validated before the other came and the other
nevertheless ranks before it, because a server's clock is behind or both came in one
millisecond and the ids fell so (`PoolIsSound`); what a task locks
is what its owner's page showed, and in the pool at the revision it cites
(`ConfirmedAsShown`); a confirmation sent
again finds its receipt (`ReplayIsRecognized`).

`MediaArtifacts`: the versions of a task's stage are 1, 2, 3, ... (`VersionsAreDense`);
everybody is answered with a row of his own request (`AnswersAgree`); an address
that was signed serves what was registered, in a bucket that keeps versions also when the
object is overwritten afterwards, since it names the version, and in one that does not
unless somebody else has written the object (`ServedAsRegistered`); no set of registrations waits for
itself (`SomeCallGoesOn`).

`AgentRuntime`: however often a prompt is posted and whatever crosses, it starts one run
(`OneRunAtATime`, second half), and everybody is answered (`CallsAreAnswered`). Until a
load or a removal has crossed another call (`~crossed`): one run at a time
(`OneRunAtATime`, first half); what was answered stays in the session and in its file,
whoever loads, refreshes or writes it afterwards (`AnswersAreKept`); a run works with a
context that is not older than the one its caller was authorized with
(`RunsOnCurrentContext`); a removed session does not come back with a late save
(`RemovedStaysRemoved`).

`WebClient`: frame, agent and stage page show one task, of the account that is
signed in, whatever is answered late (`PanelsFollowSelection`); while a run or a
command is under way the page stays on its task (`RunKeepsTask`, which says
`TaskIsKept` of a page that was not left by one of the two ways out that do not ask,
`web.escaped`); whoever is on a task with locked controls gets them back, however the
requests end, or has left the task by one of these two ways (`ControlsComeBack`). Whoever
has left a run so may not get them back: the shell keeps the page busy when it shows
another task or none (`app.js:1835-1838`), the run that ends finds that it is no longer
the current one and returns (`2144`), and the page stays busy until it is opened anew. `PanelsFollowSelection` says that the agent's session is of the
selected task, always, but of the account only if nobody escaped: `updateSession`
(`app.js:1695`) and `assertWorkspaceAgentSession`
(`workspace-agent-context.js:30-50`) compare the task and its project, brand and vehicle,
and no account. So once a run has been left, the account switched and the same task
opened again, the late answer of the run would show the session of the former
account. The four events of `web_core` do not reach that; the theorem is about any
number of them, and the condition is there because its proof asks for it.

`LegacyMigration`: `Exclusive` is about the two locks; `OriginalsKept`,
`OutcomeIsWhole` and `BusinessKept` are about the files, across interruptions. All but
`OriginalsKept` hold until a command has usurped the lock of a living one; that the
originals can be read in their backups holds even then, with two commands at the files.

Every property of a passing run has a mutant in `PROJECT.json`: a plausible
fault of the code (a dropped check, a forgotten undo, a swapped order) under
which the same run refutes it. Mutant operators stand next to the definition
they replace.

## Proofs

TLAPS proves, for every value of the constants:

| Theorem | Says |
|---|---|
| `VideoGenerationProofs!TypeCorrect` | `Spec => []TypeOK` |
| `VideoGenerationProofs!OutcomesAreFinal` | `Spec => TerminalIsFinal` |
| `VideoGenerationProofs!SubmittedOnce` | `Spec => []RequestSubmittedOnce` |
| `VideoGenerationProofs!CitesAuthorizedRevision` | `Spec => []RecordCitesAuthorizedRevision` |
| `VideoGenerationProofs!ReservationsHoldSlot` | `Spec => []HeldReservationHoldsSlot` |
| `VideoGenerationProofs!NeverOverLimit` | `Spec => []WithinLimit` |
| `VideoGenerationProofs!OutcomesArePaid` | `Spec => []OutcomeMatchesLedger` |
| `VideoGenerationProofs!OneAtATime` | `Spec => []OneOperationPerAccount` |
| `VideoGenerationProofs!BudgetRefinement` | `Spec => ImplementsBudget`: the video runtime implements the contract |
| `AccountBudgetProofs!LedgerIsSound` | `Spec => []LedgerReplays` |
| `AccountBudgetProofs!LedgerRefinement` | `Spec => ImplementsBudget`: the replayed ledger implements the contract |
| `AccountBudgetProofs!LedgerNeverOvercommitted`, `SpendingIsFinal` | with the contract: what an account spent and reserved is never above its limit, and what it spent only grows |
| `LocalFilesProofs!NothingIsLeft` | `Spec => []EndedLeavesNothing` |
| `LocalFilesProofs!WritesBuild` | `Spec => WritesBuildOnFile` |
| `TaskWorkflowProofs!HumanSawIt` | `Spec => []ConfirmedAsSeen` |
| `TaskWorkflowProofs!FreshContent` | `Spec => []ContentIsFresh` |
| `TaskWorkflowProofs!RestsOnSelected` | `Spec => []ValidRestsOnSelected` |
| `TaskWorkflowProofs!WorkAlwaysSelected` | `Spec => []WorkIsSelected` |
| `WorkspaceProofs!AlwaysValid` | `Spec => []AdministrationIsValid` |
| `WorkspaceProofs!NothingIsLost` | `Spec => NoChangeIsLost` |
| `WorkspaceProofs!OnePerWizard` | `Spec => []OneProjectAsShown` |
| `WorkspaceProofs!OnlyFromCurrent` | `Spec => CreatedFromCurrent` |
| `WorkspaceProofs!PanelsHold` | `WebSpec => []PanelsFollowSelection` |
| `WorkspaceProofs!RunsKeepTheirTask` | `WebSpec => []RunKeepsTask` |
| `LocalFilesProofs!AgentTypesHold` | `AgentSpec => []AgentTypeOK` |
| `LocalFilesProofs!PromptsAnsweredOnce` | `AgentSpec => []AnsweredOnce`: the second half of `OneRunAtATime` |
| `LocalFilesProofs!OneRunHolds` | `AgentSpec => []OneRunAtATime` |
| `LocalFilesProofs!AnswersHold` | `AgentSpec => []AnswersAreKept` |
| `LocalFilesProofs!CurrentContextHolds` | `AgentSpec => RunsOnCurrentContext` |
| `LocalFilesProofs!RemovalHolds` | `AgentSpec => RemovedStaysRemoved` |
| `ProjectAssetsProofs!PoolAlwaysSound` | `Spec => []PoolIsSound` |
| `ProjectAssetsProofs!LockedAsShown` | `Spec => []ConfirmedAsShown` |
| `ProjectAssetsProofs!ReplayAlwaysRecognized` | `Spec => []ReplayIsRecognized` |
| `MediaArtifactsProofs!VersionsDense` | `Spec => []VersionsAreDense` |
| `MediaArtifactsProofs!RetriesAgree` | `Spec => []AnswersAgree` |
| `MediaArtifactsProofs!AddressesServe` | `Spec => []ServedAsRegistered` |
| `MediaArtifactsProofs!NobodyWaitsInACircle` | `Spec => []SomeCallGoesOn` |
| `LegacyMigrationProofs!AloneWithTheFiles` | `Spec => []Exclusive` |
| `LegacyMigrationProofs!OriginalsAreKept` | `Spec => []OriginalsKept` |
| `LegacyMigrationProofs!OutcomesAreWhole` | `Spec => OutcomeIsWhole` |
| `LegacyMigrationProofs!BusinessIsKept` | `Spec => BusinessKept` |

Assumptions are those of the modules' constants (`Parameters`,
`FileLockAssumption`, `AccessAssumption`, `SeedsAssumption`,
`CreationAssumption`, `AssetsAssumption`, `MediaAssumption`, `AgentAssumption`,
`WebAssumption`, `BoundsAssumption`, `NoneIsNoPlan`):
names that stand for nothing are not names in use, sets are finite where a
sum or a choice needs it, bounds are naturals that admit the initial states (an
upgraded task has revision 4). Accounts, tasks, requests,
transactions and calls may be any sets. No theorem has another hypothesis: what holds
only up to a race the code does not exclude says so in the property itself
(`crossed`, `usurped`, `foreign`, `faults`, `lost`, `web.escaped`).

### Video runtime

None of its invariants is inductive as stated. The argument is in layers, each
inductive relative to those before it:

1. `TypeInv` (`StoresOK`, `LocalsOK`, `LabelOK`). `LabelOK` says what a request
   carries at each await: an operation it drew itself, a copy of the job it
   polls, an answer.
2. `OwnInv` ties locals to stores: an operation belongs to one call
   (`OwnerOK`), what a request read is an earlier state of the record it will
   write (`CopyOK`), identifiers not yet drawn are unused (`UnusedOK`), and a
   record's identity is fixed (`RecordOK`). Finality of outcomes follows, since a
   write whose copy is not the current revision is refused, and terminal
   records take no new revision but a composition's.
3. `JobInv` (`JobOK`, `OneRecordPerRequest`): a job at the provider has a
   record, and the unique key gives a request one record. `SubmittedOnce`
   follows.
4. `CiteInv` (`AuthorizedOK`, `TaskOK`): the revision a request was authorised
   at was a past revision of the task, whose history only grows.
5. `SlotInv` (`SlotOK`, `HeldReservationHoldsSlot`): whoever stands between lock
   and unlock holds the lock of its account, with the failing store calls
   excepted. It is the layer where the interleavings of `start`, `catch` and
   polls meet.
6. `WithinLimit` and the refinement: the sums `Spent` and `Reserved` are
   cardinalities of sets of operations, and each step moves at most one
   operation from one set to another (`BudgetStep`).
7. `RunInv` (`RunOK`, `AheadOK`, `LedgerOK`): what an operation's record, reservation,
   audit and provider job say agrees. The argument is about visibility. A job stays
   unknown to every poll until the `start()` that created it saved the provider's
   answer (`Recording`, `OwnRecord`), so until then nobody else settles, frees or
   saves it (`HeldStays`, `OwnLock`); afterwards the one that took the reservation
   out of the held state is the only one with a terminal answer to save. From it
   `OutcomesArePaid`; and since a job at the provider keeps its reservation and
   a held reservation its run lock, `OneAtATime`.

The step lemmas (`StoreStep`, `LocalStep`, `RecordStep`, `ReservationStep`, ...)
say, once for all actions, how a step may change one variable; the preservation
proofs then cite these instead of going through every action again.

### Account budget

`LedgerReplays` is about what is in the ledger; what makes it inductive is who is
about to append to it. `OwedOK` says that whoever stands between his reservation
and its settlement has a reservation of his own, active, not left to polls, of
the amount he was quoted; so a settlement by anybody else leaves it alone. `RoomOK`
counts what is still to be appended and shows that the model's bound on the
ledger never keeps anybody from settling. A reservation appended changes the set
of active ones by itself alone (`Reserving`), and so does a settlement
(`Settling`).

For the refinement, `Spent` and `Reserved` are folds over sets of entries of any
size. A sum of amounts is the number of its *units*, the pairs of an entry and a
number up to its amount (`Units`): counting units satisfies the equation that
defines the fold (`SumExists`), and whatever satisfies it counts them
(`SumIsUnits`: a least set on which two solutions differed would be empty or have a
smaller one). So one entry more adds its amount (`SumsAddUp`), and every step of
the ledger is a step of `BudgetContract` or none (`StepRefines`).

### File lock

`NothingIsLeft` needs that a transaction is never past the place where it removes
a file that is still there (`FilesInPlace`): every file of a directory was
made by a transaction that stands between its making and its removal, whoever
swept the directory in the meantime. `WritesBuild` has two layers. `LockInv`
says, of all who are not guests: the owner file in a directory is of the one who
made it (`OwnerMadeIt`); whoever sweeps a directory has looked at it and found
every file stale (`AskedFirst`), and none of these belongs to someone who may
still write (`NotStale`); a writer at its write owns the directory
(`OwnedAtWrite`). Two writers of one key would both own its one directory.
`DataInv` then says what a transaction that has read knows: the task it updates
is there (`UpdatesFindTask`), what it creates is not (`CreationsFindNone`), and
this still holds as long as it is in time (`ReadHolds`), since names differ
between tasks (`NamesDiffer`).

### Task workflow

`WorkflowInv` adds to `ConfirmedAsSeen` and `ContentIsFresh` what they rest on. A command about the
present revision shows the present content of its stage, but for the pool, which
changes without the task (`Shown`, `LateOK`): every operation takes a revision, so
a command that arrives late is either refused or shows what is there; for asset
matching the confirmation compares the pool's revision itself. And what awaits its
confirmation at a simulated stage was generated after every version
(`AwaitedIsNew`): a generation takes the next revision, which no version has
(`VersionsOK`), and whatever confirms, rolls back or reopens leaves the stage in
another status. A new version is the basis of no older one, because bases exist
(`BasisOK`) and its number is new (`NextVersionIsNew`).

`ValidRestsOnSelected` and `WorkIsSelected` depend on what the closure `Dependents`
computes. It is a fold, and `DependentsAre` says what it is: the least set that
contains what it starts from and is closed (`Closed`). That it is closed after as
many rounds as there are candidates is argued by counting: a round that adds
nothing ends it, and one that adds takes another candidate (`RoundsReach`). Because
a version is younger than what it rests on (`OlderOK`), what an invalidation leaves
valid rests on nothing it hit (`UntouchedIs`), which is most of `ValidOK`: a
version of the present order that is still valid rests on what is selected. Then
whatever is selected stands on a chain of selected versions down to the strategy
(`Chained`), so the stages before the current one are in place (`DoneOK`) and those
from there on are not (`PlaceOK`), or something former is selected.

The former order costs the rest of `HistoryInv`. Strategy and script stay selected
whatever is rolled back (`FoundedOK`): the strategy has one version (`OrderOK`), and
the script could only be hit from the asset matching that rests on the strategy, by
a rollback to a version that rests on the script and so would be hit as well
(`MatchedOK`), which `Explained` refuses. A script is confirmed once (`ScriptedOK`),
so an asset matching that rests on it stays on the selected one.

### Administration and creation

`RecordOK` adds to `AdministrationIsValid` what each operation relies on (the
domain of a table is what was created, a vehicle has a version). For
`NoChangeIsLost` the relation `Later` says that one record came after another:
nothing is gone, revisions only grow, and what kept its revision is the same. It
is reflexive and transitive, every operation makes a later record, and a page is
a former one (`PagesAreFormer`); so whoever finds the revision of his page
unchanged finds what he saw (`Informed`). The proof is of `Spec` of
`ProjectCreation`: wizards and creations interleave, and it shows that they change
nothing of the record.

For the creations, `CInv` adds what a wizard holds at each of its steps
(`WizardOK`), that the call it waits for is the one it posted, about the vehicle
it still has chosen (`Awaited`), and that projects and tasks of one request are
about each other (`MadeOK`). A wizard compares revision and version of what it read
with what it shows, and no brand; that a project has the brand that was shown
rests on `VehiclesKeepTheirBrand`, through `Describes`, which later records keep.

### Project assets

`AInv` says of everything a page, a call or a receipt holds that it was so at some
revision: a page shows a past revision of its task and of the pool (`PageOK`), a
call has read a task that is the present one if its revision is (`CallOK`), the
vehicles it chose are those of a revision of the pool, and what a confirmation was
sent with is no newer than what the call has read. This stays so because the pool is
only appended to (`PoolGoes`) and a task that changes takes a new revision
(`TasksGo`): `Frame` says it once for all steps. A lock succeeds when the
revisions the page showed are the present ones (`AsShown`); what was read in
between was then read at these very revisions, whatever was written meanwhile.
A receipt keeps what it says (`ReceiptStays`), and while the task has the revision the
receipt made, its snapshot is what the receipt's payload selects; so the vehicles
chosen for a second confirmation are those of the first. The soundness of the pool is
carried by every way of growing it (`Grown`): a refresh (`NewestSound`), a
selection (`ExtendedGrown`), an upload. For the uploads `UploadsOK` says, of two of one
file: no two have the same rank, the one registered later ranks first if it is
valid, and the one registered earlier ranks first if it is valid and had not been
validated when the other came. So if both are valid, the earlier had been; and an
upload is added to the pool only when no other one of its file is there
(`OneUploadOfEachFile`).

### Media artifacts

`IInv` says what a call has at each step: the locks it holds are those of the
first places of its list (`CallOK`), no lock has two holders (`CallsApart`), what
it found in the table under its locks is still so (`Found`), and rows of one
stage have versions apart (`RowsOK`). Density follows because the version is
allocated and inserted under the lock of the stage. A circle cannot close because
everybody takes the four kinds of locks in one order: of the calls that wait,
take one that holds the latest kind of lock; who holds what it waits for does not wait
itself. `ServeInv` adds that the versions of an object are only appended to, and that in
a bucket without versions whatever is newest in an object stays so unless somebody else
writes it, since the program's own writes refuse an object that exists;
`ToldInv` adds that whatever was told is a row of the request.

### Legacy migration

The invariant has two parts. `Sound` needs no condition: a plan a command holds has its
copies (`Own`), a manifest has them (`Preserved`), and a copy is never written over, so
the originals are kept however many commands are at work. The rest, `IInv`, holds until
a lock is usurped: `Invariance` is `Spec => [](Sound /\ (usurped \/ IInv))`.

`Exclusive` rests on who the lock belongs to (`LockInPlace`): its owner is at a step
where it holds the lock, or dead, and of an empty lock directory the command that made or
emptied it is the one that goes on. Breaking a stale lock takes three steps, between which
any command may come; the one that removes the owner file of a living command
usurps, and before that nobody does. An API that goes on has its lease in the file system
(`LeasesInPlace`), so a command that saw no lease of a living API, and whose lock
was there all the while, finds none admitted until it releases the lock. What a
command knows of the files then stays so while it works (`HeldAlone`): before the
manifest is written the files are what it plans from (`Planning`); while it
applies, it holds the manifest of the file and every target is as it was or as
planned (`Writing`); while it restores, what is not left is as it was
(`Restoring`). `HeldAsideKept` says once for all the steps of the others that they
leave this alone.

### Agent runtime

`AInv` holds whatever crosses. It says where a call of each kind may stand (`Stands`),
and that the queue of the session's lock holds exactly the calls that need it, each
once, of which only the first has gone on (`QueueOK`). Until the identifier of the
session was answered nobody calls but its maker (`FirstOK`). A run that still counts
is in the journal, or its prompt has expired (`RememberedOK`); since a prompt is
started only under the lock, when it is neither, it has one run
(`PromptsAnsweredOnce`), in however many objects the session is loaded.

`BInv` holds until `crossed`: the invariant is `[](AInv /\ (crossed \/ BInv))`, and every
step either keeps `BInv` or sets `crossed`. A call that has read the file, if it is not
overtaken, puts in place what is still in the file, while there is no object in
memory (`LoadFits`); while the session is made, the others look for it at most
(`MakingFits`). Then a run at work is that of the active
object and the only one (`RunsFit`). Everything that is about to be written (by a run
that saves or fails, by a refresh, by a reset) is a copy of an object that has all
that was answered (`TranscriptsFit`, `CopyFits`), and a refresh, a reset and a removal
write only while nothing runs (`WorkFits`): no older object overwrites a newer one, and
no late save brings a removed session back. A call that has given up the lock after
its authorization finds a context that is not older when it has the lock again
(`Covers`), whoever loaded or refreshed the session in between.

### Web client

`WebInv` is about one page and any number of awaits. An await only *fades*: it ceases
to be of the present scope or the newest of its kind, and never becomes so again
(`Fades`). Every operator from page to page (`Rendered`, `Opened`, `Synchronized`, ...)
therefore gets one lemma: which parts of the page it keeps, and that it carries the awaits
along, each as it was or faded (`Carried`). The lemmas compose as the operators do.

- `AwaitFits` ties an await that has not faded to what is shown: it is of the account
  that is signed in, and one of the stage page of the task shown there. What a late
  answer may change is then guarded by what the code compares.
- `FrameFits`: an open frame, the agent and the stage page have one task.
- `FlowsFit` is the reason why controls are safe to share. A flow *holds* the page when
  it gives a flag back at its end (`Held`, `Restores`, `Switches`). While it is under way
  its flag is set; no two of them hold the same flag; and a flag that is set locks the
  selection, so the page is still on the flow's task. An account switch that is
  still in its scope is alone; when the new account is there, all others have lost
  their scope.

`RunKeepsTask` is `FlowsFit` for runs and commands. A first attempt to prove it said that
a page of a creator keeps its task and that of an administrator may not, because of the
management center. It failed on `restoreFromLocation` with no project listed: that way
is open to creators as well. The property now names the two ways out (`web.escaped`), and
holds for everybody who has taken neither.

### Model-checked only

Liveness (`GenerationSettles`, `CallsAreAnswered`, `ControlsComeBack`): liveness under
fairness and ENABLED are beyond this prover. Every other property of a passing run is
stated by a theorem.
The library's induction theorems, which take an operator as a parameter, are beyond it too;
where a fold must be computed, as for the sums of the ledger and the closure of the
task's versions, its recursion is argued over a least set instead.

## Where the code and its documents disagree

Found by a run, with a trace:

- `files_empty`: a store makes the lock directory of a task and signs it one call
  later. Another finds it empty in between, takes it for a leftover, removes it
  and makes its own; the first then signs the directory of the other, and both hold
  the lock. Both write, and one update is lost, without any fault
  (`api/video-task-store.ts:1430-1441`, `1412`, `1469-1486`; the test at
  `apps/api/test/video-task-store.test.ts:1774` expects concurrent stores to
  recover safely).

Claims that other instances of the models refute. Where a definition is named,
adding it to the cfg reproduces the trace:

- `ChargedIsDelivered` in `vg_slot.cfg`: two polls race; one saves `running`
  between the charge and the save of the other, whose compare-and-swap is refused.
  The money is spent and the job never becomes `succeeded`, since later polls find
  the reservation settled and throw (`api/video-generation-runtime.ts:394-401`,
  `docs/workspace-v2-product-spec.md:281`).
- `FailClosed` in `mig_core.cfg`: an API that is starting reads the manifest before
  the lock, and serves half migrated data when a command writes the one and fails
  and releases the other in between (`api/workspace-migration-state.ts:81-83`,
  `201-202`, `docs/ws-307-migration-runbook.md:135`).
- `CanBeWritten` in `ws_core.cfg`: the PostgreSQL catalog is rebuilt version by
  version under a unique index, so a name given up by one vehicle in a later
  version and taken by another makes every later write of the tenant fail
  (`api/postgres-vehicle-catalog-store.ts:129`, migration `0004:43`;
  `docs/plans/workspace-track-todo.md:274`).
- `TaskIsKept` in `web_core.cfg`: the task of a run that goes on is left by an
  administrator who opens the management center (`apps/web/public/app.js:1522`), and
  by anybody who goes back to another page of the same task while no project is listed
  (`workspace-frame.js:452-475`: the address changes no selection, so the lock lets it
  pass; the task is not found, so the frame is closed); `docs/plans/agent-dialog-track-todo.md:140` says that leaving is forbidden while
  a run or a command is busy, and that results are checked against the account, which
  `updateSession` does not do (above, `PanelsFollowSelection`).
- `RefusesConcurrentPrompts` in `agent_core.cfg`: two calls that find the session not in
  memory both load it and each puts an object of its own into the map
  (`packages/agent/src/local-runtime.ts:404-428`; lists, summaries and cancellations do
  so without the lock, `574`, `583`, `893`). A call that works with the first and one that
  works with the second start a run each, and two runs of one session work at once
  (`docs/plans/ag-001-agent-dialog-inventory.md:61` says that a concurrent prompt of a
  session is refused). The trace has 14 states. Without the condition `~crossed` the
  other three fail as well: an answer is lost and a run starts with an older context (12
  states each), and a session that was removed is back in the map (11 states), when a
  load that began before the removal ends after it.
- `Exclusive` without `~usurped` (and without `UntilUsurped` in `mig_core.cfg`): two
  commands that both saw the dead owner of a migration lock both break it. The faster
  removes it and makes its own; the slower, which has long looked, removes that, and both
  come to own the lock (`api/workspace-migration-state.ts:253-270`; the comment at line 81
  calls the lease globally exclusive). It fails after 21 states, and `OutcomeIsWhole` and
  `BusinessKept` without it after 32.
- `ServedAsRegistered` without its last line, in `media_core.cfg`: the object is
  overwritten after its head was compared, in a bucket without versions, and the
  address serves what nobody registered (15 states). `docs/decisions/adr-002*` line 44
  leaves open whether buckets have versions.

Met while modelling, without a run of their own:

- Video generation: when a store call fails after the charge, the `catch` of
  `start()` records and audits as failed what was charged; "失败或取消请求费用为零"
  (`docs/workspace-v2-product-spec.md:283`). Nothing cleans up after a crash of `start()`
  (`docs/decisions/adr-001-postgresql-persistence.md:22` leaves it to a future
  coordinator). A lost provider answer frees the slot of a job that runs
  (`docs/workspace-v2-product-spec.md:188` has one high-cost task per account).
- Budget: a charge above its estimate is refused and leaves its reservation active
  for ever (`api/account-budget-runtime.ts:256`).
- Tasks: a script supplied at creation as text can never be submitted for
  confirmation, so its task stays in the script stage
  (`domain/agent-action-command.ts:505`, `domain/video-task.ts:156`;
  `docs/workspace-v2-product-spec.md:162` promises that it goes on). The store's
  check of a rollback forgets what a reopening invalidated
  (`api/video-task-store.ts:641`), so it refuses rollbacks that the domain
  allows. No task created in the present stage order can be rolled back at
  all: no operation leaves it two valid versions of one stage. A stage awaiting
  confirmation cannot be rejected, and a script left behind by a rollback is never
  replaced (`scriptInput` is never cleared).
- Task store: a transaction whose lease runs out while it stands at its fence
  writes over what its successor has written; the test "a transaction that loses its
  owner token is fenced before persistence" covers a lease lost before.
- Administration: the last grant of an administrator can be revoked; `switchSession`
  stopped half way leaves both sessions active; an operation goes by the grants read
  when its session was resolved, and so may follow their revocation.
- Creation: the wizard's messages for a refused creation
  (`project-creation-wizard.js:193`) send a user back to options it does not read
  again.
- Assets: an upload whose owner's view extends the pool between the read of its
  revision and its promotion is stranded
  (`api/project-asset-runtime.ts:277-293`, `docs/workspace-v2-product-spec.md:139`), and
  a file rejected for its name never becomes valid. A file uploaded again while a
  server's clock is behind, or within the same millisecond, may be valid twice (above,
  `PoolIsSound`); the second is then refused by the pool. The asset page applies the
  answer of a former context to the present one
  (`asset-matching.js:320`, `385`; the specification's line 135). A confirmation
  sent again, whose view was read before the first committed, is refused after a
  refresh of the catalog. With the local stores a refused confirmation leaves the pool
  extended.
- Agent: request ids are forgotten at a restart or a reset
  (`docs/architecture.md:67`), and the panel's retry uses a new one; cancelling, resetting or
  reconnecting is refused with `TASK_CONTEXT_CHANGED` while a run works on the former
  revision; a cancellation during the save reports `aborted` for what was
  answered.
- Media: `createWithResult` looks for the code 23505 to tell a refused insert as a
  conflict (`api/postgres-media-artifact-store.ts:399-403`), but the transaction has
  wrapped the error without its code (`api/postgres-database.ts:187-193`), so it is told
  as a failure. No insert is refused (`VersionsAreDense`), so nothing follows from it.
- Web: a page left during a run by the management center or the address bar may stay busy
  until it is opened anew (above, `ControlsComeBack`). A failed account switch during which the user presses a module button or
  opens a project leaves the page hydrating for ever (`app.js:2016-2024`;
  `ControlsComeBack` excepts it). The asset page keeps the view of the former account
  (its key has no account; `docs/architecture.md:50`), and overwrites its view with
  late answers of a confirmation or an upload (`asset-matching.js:334`, `393`). The
  context of a session falls back when a run ends with an older summary.
- Migration: a command that dies between making the lock directory and writing its
  owner leaves a lock that every later command refuses as malformed, while the runbook
  (line 42) forbids removing it by hand. A backup left by an attempt that died before
  its manifest refuses, under the same migration id, any later plan made from
  other files; the runbook (line 134) says to plan and apply again. A restoration of a
  completed migration that fails half way leaves the manifest completed and frees the
  lock: an API may then start on data restored in part, and V1 stays read-only. After
  a half restored migration that was in progress, `resume` is refused and only
  `restore` goes on.

## What is not modelled

- Video generation: the provider's HTTP request, MP4 checks, FFmpeg; the
  editing provider and `cancelGeneration`, which have no caller. More than one
  account at a time in the runs.
- Task store: the memory cache of the local store and `save()`; reuse of a
  process id, and damaged entries in a lock directory; validation of records beyond
  the upgrade of the former stage order.
- Assets: expiry of uploads (no route sets one), the scores of
  persons and scenes, the visual style; `createPool` and `updateDeclaration`, which
  only tests call.
- Media: a bucket whose versioning is switched on or off under way. The production server does not wire the runtime
  yet, and the stage runtime does not call `verifyStageArtifact`
  (`docs/decisions/adr-002*`).
- Agent: two writes that tear the session file because they share one temporary file,
  which takes two objects of one session (`crossed`); the events on a run's stream, the model's text, tools (read-only
  projections), the upgrade of former session files, mismatched scopes.
- Web: the start-up and its retries, V1's `runWorkflow`, a `popstate` to the
  management center, the brand filter, polls and media of the stage page,
  rendering.
- Administration and creation: parsing of routes; a second tenant.
- PostgreSQL: schema migrations (one linear list under an advisory lock) and nested
  transactions. A store transaction of the models commits or has no effect, as the
  stores' `withTransaction` does. The caches of the local run lock and budget
  stores: one process owns each.
- In `LegacyMigration`, a copy torn by a crash in the middle of `copyFile` (the
  checksum refuses it, as it refuses a stale one), and non-atomic reads of
  the plan command (the plan is made again and compared under the lock).
- Read-only projections (agent tools, context, status pages, library), encodings and
  schemas beyond the shapes the models use, the CLI, and the V1 business runtime,
  which is replaced by the workspace.

## Plan

Done: every component above that keeps state has a module, and the safety properties
of every module are proved. Next, in this order:

1. Compositions: `TaskWorkflow` with `VideoGeneration` (`TaskChanges` refined by the
   commands of a task) and with `ProjectAssets` (`SnapshotFor` refined by
   `LockSelection`). Each pair shares one record that the other changes.
2. The local stores' caches, stale across processes, for the deployments that run two
   servers over one directory.
3. PostgreSQL schema migrations: two servers that start at once, one of which dies.
