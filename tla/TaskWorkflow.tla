---------------------------- MODULE TaskWorkflow ----------------------------
(***************************************************************************)
(* One video task on its way through the production stages: what the      *)
(* stage runtime and the agent action runtime do to its record.           *)
(*                                                                         *)
(* Every operation is one store transaction over the whole record, so a   *)
(* step is an operation.  What interleaves is whole commands: a page       *)
(* shows the record at some revision, its user clicks, and the command    *)
(* arrives later, twice or never, while other accounts go on.  A content  *)
(* (a draft, a script, a simulated artifact) is named by the revision its *)
(* generation produced.                                                    *)
(***************************************************************************)
EXTENDS Naturals, FiniteSets, FiniteSetsExt

CONSTANTS
    Accounts,      \* the accounts that may own the task
    MaxRevision,   \* bound: the task's revision
    MaxPool,       \* bound: the revision of the project's asset pool
    MaxTransfers,  \* bound: changes of the owner
    NoCommand      \* no command is on its way

ASSUME BoundsAssumption ==
    /\ MaxRevision \in Nat /\ MaxRevision >= 4   \* an upgraded task has revision 4
    /\ MaxPool \in Nat \ {0}
    /\ MaxTransfers \in Nat

-----------------------------------------------------------------------------
(* The stages in their order *)

Strategy == 1
Script == 2
AssetMatching == 3
Storyboard == 4
Delivery == 6
Stages == Strategy .. Delivery

\* The stages whose artifact the agent's action card simulates
Simulated == Storyboard .. Delivery

\* The content a script has when the creator of the task supplied it
Supplied == 1

VARIABLES
    owner,        \* the account that owns the task
    transfers,    \* how often it changed: the record lists the transfers
    revision,     \* the task's revision
    stage,        \* its current stage
    status,       \* of the current stage; "confirmed" only when completed
    artifacts,    \* every stage artifact version ever confirmed
    active,       \* the selected version of each stage, 0 when none is
    invalidated,  \* the identities of the invalidated versions
    reopened,     \* those of them that a reopening invalidated
    assets,       \* the task's locked asset snapshot, 0 when there is none
    draft,        \* the active strategy draft
    script,       \* scriptInput: the script's content, 0 when there is none
    generated,    \* the last simulated content of each simulated stage
    pool,         \* the revision of the project's asset pool
    late          \* a command on its way, or NoCommand

workflow == <<stage, status>>
ownership == <<owner, transfers>>
history == <<artifacts, active, invalidated, reopened, assets>>
contents == <<draft, script, generated>>
vars == <<ownership, revision, workflow, history, contents, pool, late>>

-----------------------------------------------------------------------------
(* The record *)

Id(a) == <<a.stage, a.version>>

\* The stage, before all others, has no upstream
NoUpstream == <<0, 0>>

Versions(s) == {a.version : a \in {b \in artifacts : b.stage = s}}

Selected(s) == CHOOSE a \in artifacts : Id(a) = <<s, active[s]>>

\* A stage has a selected version, and no one invalidated it
ValidSelected(s) == active[s] # 0 /\ <<s, active[s]>> \notin invalidated

TaskActive == status # "confirmed"

\* A strategy draft exists once the vehicle snapshot is locked
VehicleLocked == draft.status # "none"

\* Only those that rest on it directly
DirectDependents(from, candidates) ==
    from \union {Id(a) : a \in {b \in candidates : b.on \in from}}

\* The identities in "from" and of the candidates that rest on them, directly
\* or through others
Dependents(from, candidates) ==
    LET grow(n, ids) ==
            ids \union {Id(a) : a \in {b \in candidates : b.on \in ids}}
    IN  FoldSet(grow, from, 1 .. Cardinality(candidates))

\* What an invalidation of what rests on x hits: the versions still valid
Downstream(x) ==
    Dependents({x}, {a \in artifacts : Id(a) \notin invalidated}) \ {x}

\* The store's check of a rollback repeats the closure, and does not know
\* that a reopening may have invalidated a part of it before
Storable(x) ==
    Downstream(x) =
        Dependents({x}, {a \in artifacts :
                            Id(a) \notin invalidated \ reopened}) \ {x}

\* The store's transition refuses a rollback that does not leave its target
\* selected: a version that rests on the one it replaces
Explained(selection, s, target) == selection[s] = target

KeepSelected(selection, gone) == selection
Deselect(selection, gone) ==
    [s \in Stages |-> IF <<s, selection[s]>> \in gone THEN 0 ELSE selection[s]]

\* The snapshot a selected asset matching version was confirmed with
SnapshotOf(selection) ==
    IF selection[AssetMatching] = 0 THEN 0
    ELSE (CHOOSE a \in artifacts :
            Id(a) = <<AssetMatching, selection[AssetMatching]>>).assets

\* The workflow after stage s is done
After(s) ==
    IF s = Delivery THEN <<Delivery, "confirmed">> ELSE <<s + 1, "in_progress">>

\* The stage's selected version exists and rests on the selected version of
\* the stage before it
InPlace(selection, s) ==
    \E a \in artifacts :
        /\ Id(a) = <<s, selection[s]>>
        /\ s = Strategy \/ a.on = <<s - 1, selection[s - 1]>>

\* Where work goes on after a rollback of stage s that invalidated "gone"
Resumed(selection, s, gone) ==
    LET unfinished == {t \in Stages : ~ InPlace(selection, t)}
    IN  IF gone = {} THEN After(s)
        ELSE IF unfinished = {} THEN After(Delivery)
        ELSE <<Min(unfinished), "in_progress">>

\* What the page shows, and the server derives, as the content of stage s
Derived(s) ==
    CASE s = Strategy      -> draft.content
      [] s = Script        -> script
      [] s = AssetMatching -> pool
      [] OTHER             -> generated[s]

-----------------------------------------------------------------------------
(* Commands *)

\* A command names the revision its page showed, and carries what the page
\* showed as the stage's content
Command(by, action, s, target) ==
    [by |-> by, action |-> action, stage |-> s, target |-> target,
     expected |-> revision, seen |-> Derived(s)]

\* What an account may send from a page that shows the present record
Offered(u) ==
    {Command(u, action, stage, 0) :
        action \in {"generate", "request_approval", "confirm", "reopen", "take_over"}}
    \union {Command(u, "assign", stage, v) : v \in Accounts}
    \union UNION {{Command(u, "rollback", s, v) : v \in Versions(s)} : s \in Stages}

AnyRevision(c) == revision < MaxRevision

\* assertRevision, and the bound
Current(c) == c.expected = revision /\ revision < MaxRevision

\* The scope checks shared by the owner's commands
OwnerOf(c) == Current(c) /\ c.by = owner

Advance == revision' = revision + 1

MoveTo(state) == stage' = state[1] /\ status' = state[2]

-----------------------------------------------------------------------------
(* Operations: each handles the command c *)

\* generate_strategy
GenerateStrategy(c) ==
    /\ c.action = "generate" /\ c.stage = Strategy
    /\ OwnerOf(c)
    /\ stage = Strategy /\ status = "in_progress"
    /\ draft' = [content |-> revision + 1, status |-> "draft"]
    /\ Advance
    /\ UNCHANGED <<ownership, workflow, history, script, generated, pool>>

\* request_strategy_approval
RequestApproval(c) ==
    /\ c.action = "request_approval"
    /\ OwnerOf(c)
    /\ stage = Strategy /\ status = "in_progress"
    /\ draft.status = "draft"
    /\ draft' = [draft EXCEPT !.status = "awaiting_confirmation"]
    /\ status' = "awaiting_confirmation"
    /\ Advance
    /\ UNCHANGED <<ownership, stage, history, script, generated, pool>>

\* generate_script refuses to overwrite a script, whoever wrote it
GenerateScript(c) ==
    /\ c.action = "generate" /\ c.stage = Script
    /\ OwnerOf(c)
    /\ stage = Script /\ status = "in_progress"
    /\ ValidSelected(Strategy)
    /\ script = 0
    /\ script' = revision + 1
    /\ status' = "awaiting_confirmation"
    /\ Advance
    /\ UNCHANGED <<ownership, stage, history, draft, generated, pool>>

FirstReceipt(s) ==
    IF generated[s] # 0 THEN generated
    ELSE [generated EXCEPT ![s] = revision + 1]

\* The receipts keep every simulated artifact; a confirmation takes the last
Receipt(s) == [generated EXCEPT ![s] = revision + 1]

\* generate_simulated_stage_artifact
GenerateSimulated(c) ==
    /\ c.action = "generate" /\ c.stage \in Simulated
    /\ OwnerOf(c)
    /\ stage = c.stage /\ status = "in_progress"
    /\ generated' = Receipt(stage)
    /\ status' = "awaiting_confirmation"
    /\ Advance
    /\ UNCHANGED <<ownership, stage, history, draft, script, pool>>

\* The stage is awaiting its confirmation with the content to confirm; asset
\* matching may be submitted by its confirmation, and its selection must name
\* the pool's revision
Confirmable(c) ==
    IF c.stage = AssetMatching
    THEN status \in {"in_progress", "awaiting_confirmation"} /\ c.seen = pool
    ELSE /\ status = "awaiting_confirmation"
         /\ c.stage = Strategy => draft.status = "awaiting_confirmation"
         /\ c.stage = Script => script \notin {0, Supplied}
         /\ c.stage \in Simulated => generated[c.stage] # 0

\* The snapshot that later versions depend on; asset matching locks a new one
SnapshotFor(s) ==
    CASE s < AssetMatching -> 0
      [] s = AssetMatching -> 1 + Max({0} \union {a.assets : a \in artifacts})
      [] OTHER             -> assets

NextVersion(s) == 1 + Max({0} \union Versions(s))

\* The version a confirmation of the current stage appends
Confirmed(c) ==
    [stage   |-> stage,
     version |-> NextVersion(stage),
     on      |-> IF stage = Strategy THEN NoUpstream
                 ELSE <<stage - 1, active[stage - 1]>>,
     assets  |-> SnapshotFor(stage),
     content |-> Derived(stage),
     seen    |-> c.seen,
     at      |-> revision + 1]

\* confirm_stage
ConfirmStage(c) ==
    /\ c.action = "confirm" /\ c.stage = stage
    /\ OwnerOf(c)
    /\ TaskActive /\ Confirmable(c)
    /\ VehicleLocked
    /\ stage > AssetMatching => assets # 0
    /\ stage # Strategy => ValidSelected(stage - 1)
    /\ artifacts' = artifacts \union {Confirmed(c)}
    /\ active' = [active EXCEPT ![stage] = NextVersion(stage)]
    /\ assets' = IF stage = AssetMatching THEN SnapshotFor(stage) ELSE assets
    /\ MoveTo(After(stage))
    /\ Advance
    /\ UNCHANGED <<ownership, invalidated, reopened, contents, pool>>

\* rollback_stage: also of a completed task
RollbackStage(c) ==
    LET from == <<c.stage, active[c.stage]>>
        gone == Downstream(from)
        selection == Deselect([active EXCEPT ![c.stage] = c.target], gone)
    IN  /\ c.action = "rollback"
        /\ OwnerOf(c)
        /\ ValidSelected(c.stage)
        /\ c.target \in Versions(c.stage) \ {active[c.stage]}
        /\ <<c.stage, c.target>> \notin invalidated
        /\ Storable(from)
        /\ Explained(selection, c.stage, c.target)
        /\ active' = selection
        /\ invalidated' = invalidated \union gone
        /\ assets' = SnapshotOf(selection)
        /\ MoveTo(Resumed(selection, c.stage, gone))
        /\ Advance
        /\ UNCHANGED <<ownership, artifacts, reopened, contents, pool>>

\* reopen_stage: asset matching is done again before the storyboard is
\* confirmed; its selected version must rest on a script
ReopenAssetMatching(c) ==
    LET root == <<AssetMatching, active[AssetMatching]>>
        gone == {root} \union Downstream(root)
    IN  /\ c.action = "reopen"
        /\ OwnerOf(c)
        /\ stage = Storyboard
        /\ ValidSelected(AssetMatching)
        /\ Selected(AssetMatching).on[1] = Script
        /\ assets # 0
        /\ active' = Deselect(active, gone)
        /\ invalidated' = invalidated \union gone
        /\ reopened' = reopened \union gone
        /\ assets' = 0
        /\ MoveTo(<<AssetMatching, "in_progress">>)
        /\ Advance
        /\ UNCHANGED <<ownership, artifacts, contents, pool>>

\* ownershipTransfers gets an entry
Transfer(to) ==
    /\ transfers < MaxTransfers
    /\ owner' = to
    /\ transfers' = transfers + 1

\* An account with a grant for the vehicle project takes the task over
TakeOver(c) ==
    /\ c.action = "take_over"
    /\ Current(c)
    /\ TaskActive /\ c.by # owner
    /\ Transfer(c.by)
    /\ Advance
    /\ UNCHANGED <<workflow, history, contents, pool>>

\* The owner hands the task over
AssignOwner(c) ==
    /\ c.action = "assign"
    /\ OwnerOf(c)
    /\ TaskActive /\ c.target # owner
    /\ Transfer(c.target)
    /\ Advance
    /\ UNCHANGED <<workflow, history, contents, pool>>

Handle(c) ==
    \/ GenerateStrategy(c)
    \/ RequestApproval(c)
    \/ GenerateScript(c)
    \/ GenerateSimulated(c)
    \/ ConfirmStage(c)
    \/ RollbackStage(c)
    \/ ReopenAssetMatching(c)
    \/ TakeOver(c)
    \/ AssignOwner(c)

-----------------------------------------------------------------------------
(* The specification *)

\* createVideoTask: planned by the agent, or with a script of its creator
Created ==
    /\ revision = 1
    /\ stage = Strategy /\ status = "in_progress"
    /\ artifacts = {}
    /\ active = [s \in Stages |-> 0]
    /\ assets = 0
    /\ draft = [content |-> 0, status |-> "none"]
    /\ script \in {0, Supplied}

\* A record of the former stage order (strategy, asset matching, script), as
\* upgradeLegacyWorkflowOrder leaves it: confirmed up to its script, and
\* set back to the script stage
Legacy(s, on, snapshot, n) ==
    [stage |-> s, version |-> 1, on |-> on, assets |-> snapshot,
     content |-> n, seen |-> n, at |-> n]

Upgraded ==
    /\ revision = 4
    /\ stage = Script /\ status = "in_progress"
    /\ artifacts = {Legacy(Strategy, NoUpstream, 0, 2),
                    Legacy(AssetMatching, <<Strategy, 1>>, 1, 3),
                    Legacy(Script, <<AssetMatching, 1>>, 1, 4)}
    /\ active = [s \in Stages |-> IF s = Strategy THEN 1 ELSE 0]
    /\ assets = 0
    /\ draft = [content |-> 2, status |-> "awaiting_confirmation"]
    /\ script \in {0, Supplied}

Init ==
    /\ owner \in Accounts
    /\ transfers = 0
    /\ Created \/ Upgraded
    /\ invalidated = {} /\ reopened = {}
    /\ generated = [s \in Simulated |-> 0]
    /\ pool = 1
    /\ late = NoCommand

\* A command is handled at once ...
Prompt == \E u \in Accounts : \E c \in Offered(u) : Handle(c) /\ UNCHANGED late

\* ... or, the decision of an owner on a version, is on its way ...
Send ==
    /\ late = NoCommand
    /\ late' \in {c \in Offered(owner) :
                    c.action \in {"confirm", "rollback", "reopen"}}
    /\ UNCHANGED <<ownership, revision, workflow, history, contents, pool>>

\* ... and arrives, maybe not for the last time: the client sends it again
\* when it gets no answer
Arrive ==
    /\ late # NoCommand
    /\ Handle(late)
    /\ late' \in {late, NoCommand}

\* It is refused, or lost
Drop ==
    /\ late # NoCommand
    /\ late' = NoCommand
    /\ UNCHANGED <<ownership, revision, workflow, history, contents, pool>>

\* Members of the project change its asset pool
EditPool ==
    /\ pool < MaxPool
    /\ pool' = pool + 1
    /\ UNCHANGED <<ownership, revision, workflow, history, contents, late>>

Next == Prompt \/ Send \/ Arrive \/ Drop \/ EditPool

Spec == Init /\ [][Next]_vars

-----------------------------------------------------------------------------
(* Properties *)

Identities == Stages \X (1 .. MaxRevision)

Artifacts ==
    [stage : Stages, version : 1 .. MaxRevision,
     on : Identities \union {NoUpstream}, assets : Nat, content : Nat,
     seen : Nat, at : 1 .. MaxRevision]

CommandSet ==
    [by : Accounts, stage : Stages, target : Nat \union Accounts,
     action : {"generate", "request_approval", "confirm", "reopen",
               "take_over", "assign", "rollback"},
     expected : Nat, seen : Nat]

\* The types, and that a version's identity is its own
TypeOK ==
    /\ owner \in Accounts
    /\ transfers \in 0 .. MaxTransfers
    /\ revision \in 1 .. MaxRevision
    /\ stage \in Stages
    /\ status \in {"in_progress", "awaiting_confirmation", "confirmed"}
    /\ status = "confirmed" => stage = Delivery
    /\ artifacts \subseteq Artifacts
    /\ \A a, b \in artifacts : Id(a) = Id(b) => a = b
    /\ active \in [Stages -> 0 .. MaxRevision]
    /\ invalidated \subseteq {Id(a) : a \in artifacts}
    /\ reopened \subseteq invalidated
    /\ assets \in Nat
    /\ draft \in [content : Nat,
                  status : {"none", "draft", "awaiting_confirmation"}]
    /\ script \in Nat
    /\ generated \in [Simulated -> Nat]
    /\ pool \in 1 .. MaxPool
    /\ late \in CommandSet \union {NoCommand}

\* The versions of the former order, and those that came to rest on them: a
\* rollback can select one of the former, and work goes on from it
FormerOrder ==
    Dependents({Id(a) : a \in {b \in artifacts :
                    b.stage # Strategy /\ b.on[1] # b.stage - 1}},
               artifacts)

\* A version that is still valid rests on the version its upstream stage has
\* selected: no rollback or reopening, whatever came before it, leaves a
\* valid version on a basis that is no longer the task's
ValidRestsOnSelected ==
    LET former == FormerOrder
    IN  \A a \in artifacts :
            (Id(a) \notin invalidated \union former /\ a.on # NoUpstream) =>
                a.on[2] = active[a.on[1]]

SnapshotFollowsSelection ==
    /\ active[AssetMatching] = 0 => assets = 0
    /\ \A a \in artifacts :
        Id(a) = <<AssetMatching, active[AssetMatching]>> => assets = a.assets

\* The task is well typed and where its selected versions say it is: each stage
\* before the current one has a valid version selected, and none from there on
\* has, but for what the former order left: selecting one of its versions above
\* a stage that was opened again puts the task past that stage, where the
\* confirmations refuse to go on.  The asset snapshot that generation and later
\* confirmations use is the one the selected asset matching version was
\* confirmed with
WorkIsSelected ==
    LET former == FormerOrder
        done(s) == s < stage \/ status = "confirmed"
        leftAbove(s) == \E t \in Stages : t > s /\ <<t, active[t]>> \in former
    IN  /\ TypeOK
        /\ SnapshotFollowsSelection
        /\ \A s \in Stages :
            /\ done(s) => \/ active[s] # 0
                          \/ s >= AssetMatching /\ leftAbove(s)
            /\ active[s] # 0 =>
                /\ \E a \in artifacts : Id(a) = <<s, active[s]>>
                /\ <<s, active[s]>> \notin invalidated
                /\ done(s) \/ <<s, active[s]>> \in former

\* A human confirmation covers what its page showed: a version has the
\* content its owner saw when the command was sent, however late it arrived
ConfirmedAsSeen == \A a \in artifacts : a.content = a.seen

\* The content of a simulated stage was generated on the basis the version
\* names: after the version upstream was confirmed, and not left over from
\* before a reopening
ContentIsFresh ==
    \A a, b \in artifacts :
        (a.stage \in Simulated /\ a.on = Id(b)) => a.content > b.at
=============================================================================
