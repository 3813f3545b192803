-------------------------- MODULE ProjectCreation --------------------------
(***************************************************************************)
(* A creator makes a project and its first task while the administrators  *)
(* of WorkspaceAccess go on.                                               *)
(*                                                                         *)
(* The wizard of the web client shows brands and vehicles as they were     *)
(* when it was opened, reads the package and the configuration of the      *)
(* chosen vehicle, and posts the project, then the task.  A call runs in   *)
(* the server by itself: the wizard may lose its answer, and post again    *)
(* under the same request while the first call is still at work.           *)
(*                                                                         *)
(* The company's asset catalog is outside: it may refuse any selection.    *)
(***************************************************************************)
EXTENDS WorkspaceAccess

CONSTANTS
    Calls,       \* the calls the server works at
    BatchNames,  \* names of a batch: the creative type and the second
    Forms,       \* durations and creative types, together
    WizardCost,  \* bound: the changes a behaviour makes less for each wizard
    MaxLost,     \* bound: answers lost, and servers stopped
    Nobody,      \* a call slot no call uses
    Unread,      \* a wizard has not read this yet
    Unnamed      \* a wizard has not named its batch yet

VARIABLES
    wizard,    \* the wizard of each creator
    opened,    \* how many wizards each creator has opened
    calls,     \* the calls
    projects,  \* the projects of the tenant
    tasks,     \* the tasks of the tenant that a wizard made
    lost       \* how many answers were lost

creationVars == <<wizard, opened, calls, projects, tasks, lost>>
vars == <<accessVars, creationVars>>

-----------------------------------------------------------------------------
\* What a wizard shows of a vehicle, and a project is made of
Shows == [brand: Nat, revision: Nat, version: Nat]
Configurations == [shown: Shows, association: Nat]

Call ==
    [kind: {"project", "task"}, creator: Creators, request: Nat,
     stage: {"arrived", "new", "selected"}, vehicle: VehicleIds,
     basis: Configurations \cup {Unread}, batch: BatchNames \cup {Unnamed},
     form: Forms \cup {Unnamed}, project: Nat]

ASSUME CreationAssumption ==
    /\ WizardCost \in Nat
    /\ MaxLost \in Nat
    /\ Nobody \notin Call \cup Calls
    /\ Unread \notin Configurations

-----------------------------------------------------------------------------
(* What a creator may select *)

Selectable(c, v) ==
    /\ Exists(admin, v)
    /\ Holds(admin, c, Latest(admin, v).brand, v)
    /\ admin.brands[Latest(admin, v).brand].active
    /\ Latest(admin, v).active

\* With a recommended package, which creating a project requires
Packaged(c, v) == Selectable(c, v) /\ admin.associations[v].revision > 0

\* What a page shows of a vehicle, and a project is made of
Shown(v) ==
    [brand    |-> Latest(admin, v).brand,
     revision |-> admin.brands[Latest(admin, v).brand].revision,
     version  |-> Len(admin.vehicles[v])]

Configuration(v) == [shown |-> Shown(v), association |-> admin.associations[v].revision]

\* Administrators see the projects of their brands, creators those of the
\* vehicles they are granted
MayView(c, p) == Holds(admin, c, projects[p].basis.shown.brand, projects[p].vehicle)

-----------------------------------------------------------------------------
(* The wizard *)

Closed == [step |-> "closed", options |-> <<>>, vehicle |-> 0, batch |-> Unnamed,
           package |-> Unread, configuration |-> Unread,
           project |-> 0, awaits |-> Nobody]

Set(c, w) == wizard' = [wizard EXCEPT ![c] = w]

Open(c) ==
    /\ wizard[c].step = "closed"
    /\ changes + WizardCost <= MaxChanges
    /\ changes' = changes + WizardCost
    /\ opened' = [opened EXCEPT ![c] = @ + 1]
    /\ Set(c, [Closed EXCEPT !.step = "loading"])
    /\ UNCHANGED <<admin, signedIn, switching, page, request, calls, projects, tasks, lost>>

\* Nothing to offer is an error: the wizard stays, and may be asked again
LoadOptions(c) ==
    LET offered == {v \in VehicleIds : Selectable(c, v)} IN
        /\ wizard[c].step = "loading"
        /\ c \in signedIn
        /\ offered # {}
        /\ \E v \in offered :
              Set(c, [wizard[c] EXCEPT !.step = "ready", !.vehicle = v,
                                       !.options = [o \in offered |-> Shown(o)]])
        /\ UNCHANGED <<opened, calls, projects, tasks, lost>>

\* Between two submissions another vehicle can be chosen, whatever was made
Choose(c, v) ==
    /\ wizard[c].step = "ready"
    /\ v \in DOMAIN wizard[c].options
    /\ Set(c, [wizard[c] EXCEPT !.vehicle = v])
    /\ UNCHANGED <<opened, calls, projects, tasks, lost>>

\* The requests and the batch are named once for all submissions
Submit(c, batch) ==
    /\ wizard[c].step = "ready"
    /\ wizard[c].batch \in {Unnamed, batch}
    /\ Set(c, [wizard[c] EXCEPT
                  !.step = IF wizard[c].project = 0 THEN "reading" ELSE "next",
                  !.batch = batch])
    /\ UNCHANGED <<opened, calls, projects, tasks, lost>>

Reads(c) == wizard[c].step = "reading" /\ c \in signedIn /\ Packaged(c, wizard[c].vehicle)

ReadPackage(c) ==
    /\ Reads(c)
    /\ wizard[c].package = Unread
    /\ Set(c, [wizard[c] EXCEPT !.package =
                  [brand       |-> Shown(wizard[c].vehicle).brand,
                   association |-> Configuration(wizard[c].vehicle).association]])
    /\ UNCHANGED <<opened, calls, projects, tasks, lost>>

ReadConfiguration(c) ==
    /\ Reads(c)
    /\ wizard[c].configuration = Unread
    /\ Set(c, [wizard[c] EXCEPT !.configuration = Configuration(wizard[c].vehicle)])
    /\ UNCHANGED <<opened, calls, projects, tasks, lost>>

\* What was read is what the wizard shows, and both are of one package
Agrees(w) ==
    LET shown == w.options[w.vehicle] IN
        /\ w.package.brand = shown.brand
        /\ w.configuration.shown.revision = shown.revision
        /\ w.configuration.shown.version = shown.version
        /\ w.configuration.association = w.package.association

\* A read is refused or lost, or what was read does not agree
Fail(c) ==
    /\ wizard[c].step = "reading"
    /\ Set(c, [wizard[c] EXCEPT !.step = "ready", !.package = Unread, !.configuration = Unread])
    /\ UNCHANGED <<opened, calls, projects, tasks, lost>>

\* A call reaches the server, for one of its slots
Send(c, k, kind, form) ==
    /\ c \in signedIn
    /\ calls[k] = Nobody
    /\ calls' = [calls EXCEPT ![k] =
           [kind |-> kind, creator |-> c, request |-> opened[c], stage |-> "arrived",
            vehicle |-> wizard[c].vehicle, basis |-> wizard[c].configuration,
            batch |-> wizard[c].batch, form |-> form,
            project |-> wizard[c].project]]
    /\ UNCHANGED <<opened, projects, tasks, lost>>

PostProject(c, k) ==
    /\ wizard[c].step = "reading"
    /\ Unread \notin {wizard[c].package, wizard[c].configuration}
    /\ Agrees(wizard[c])
    /\ Send(c, k, "project", Unnamed)
    /\ Set(c, [wizard[c] EXCEPT !.step = "posted", !.awaits = k,
                              !.package = Unread, !.configuration = Unread])

\* The task is of the form chosen for this submission
PostTask(c, k, form) ==
    /\ wizard[c].step = "next"
    /\ Send(c, k, "task", form)
    /\ Set(c, [wizard[c] EXCEPT !.step = "posted", !.awaits = k])

\* The connection breaks, or the session has ended: the wizard reports an
\* error, and may submit again
LoseAnswer(c) ==
    /\ wizard[c].step \in {"posted", "next"}
    /\ lost < MaxLost
    /\ lost' = lost + 1
    /\ Set(c, [wizard[c] EXCEPT !.step = "ready", !.awaits = Nobody])
    /\ UNCHANGED <<opened, calls, projects, tasks>>

Close(c) ==
    /\ wizard[c].step \in {"loading", "ready"}
    /\ Set(c, Closed)
    /\ UNCHANGED <<opened, calls, projects, tasks, lost>>

\* The browser turns to another account, whatever the wizard waits for
ResetForAccount(c) ==
    /\ wizard[c].step \in {"reading", "posted", "next"}
    /\ lost < MaxLost
    /\ lost' = lost + 1
    /\ Set(c, Closed)
    /\ UNCHANGED <<opened, calls, projects, tasks>>

-----------------------------------------------------------------------------
(* The server *)

\* The call ends.  The wizard that still waits for it goes on: with the
\* project, or to the end, or back to the form after a refusal.
Answer(k, w) ==
    /\ calls' = [calls EXCEPT ![k] = Nobody]
    /\ wizard' = [c \in Creators |-> IF wizard[c].awaits = k THEN w ELSE wizard[c]]

Resumed(k) == [wizard[calls[k].creator] EXCEPT !.step = "ready", !.awaits = Nobody]

Created(k, p) == [Resumed(k) EXCEPT !.step = "next", !.project = p]

RefuseCall(k) ==
    /\ Answer(k, Resumed(k))
    /\ UNCHANGED <<opened, projects, tasks, lost>>

\* Mutant: the request of a call is not kept with what it made
NoReplays(k, made) == {}

\* The projects, or tasks, this call's request has made already
Replays(k, made) ==
    {i \in DOMAIN made : made[i].creator = calls[k].creator /\ made[i].request = calls[k].request}

SamePayload(k, p) ==
    /\ projects[p].vehicle = calls[k].vehicle
    /\ projects[p].basis = calls[k].basis
    /\ projects[p].batch = calls[k].batch

IsAt(k, kind, stage) ==
    calls[k] # Nobody /\ calls[k].kind = kind /\ calls[k].stage = stage

\* A project this request made is answered again, if it may still be seen
LookUpReplay(k) ==
    /\ IsAt(k, "project", "arrived")
    /\ \/ /\ Replays(k, projects) = {}
          /\ calls' = [calls EXCEPT ![k].stage = "new"]
          /\ UNCHANGED wizard
       \/ \E p \in Replays(k, projects) :
             Answer(k, IF MayView(calls[k].creator, p) /\ SamePayload(k, p)
                       THEN Created(k, p) ELSE Resumed(k))
    /\ UNCHANGED <<opened, projects, tasks, lost>>

\* Mutant: the revisions the request expects are not compared again
StillPackaged(k) == Packaged(calls[k].creator, calls[k].vehicle)

\* What the request expects is what the administration holds
AsExpected(k) ==
    /\ Packaged(calls[k].creator, calls[k].vehicle)
    /\ calls[k].basis = Configuration(calls[k].vehicle)

Select(k) ==
    /\ IsAt(k, "project", "new")
    /\ AsExpected(k)
    /\ calls' = [calls EXCEPT ![k].stage = "selected"]
    /\ UNCHANGED <<wizard, opened, projects, tasks, lost>>

\* The catalog may refuse a selection, the session may be gone
Reject(k) ==
    /\ IsAt(k, "project", "new") \/ IsAt(k, "project", "selected")
    /\ RefuseCall(k)

Project(k) ==
    [creator |-> calls[k].creator, request |-> calls[k].request, vehicle |-> calls[k].vehicle,
     basis |-> calls[k].basis, batch |-> calls[k].batch,
     name |-> <<admin.brands[Latest(admin, calls[k].vehicle).brand].name,
                Latest(admin, calls[k].vehicle).key, calls[k].batch>>]

\* In one snapshot of the administration: the selection again, then the
\* store, which looks for the request again and for the name
Create(k) ==
    /\ IsAt(k, "project", "selected")
    /\ AsExpected(k)
    /\ \/ \E p \in Replays(k, projects) :
             /\ Answer(k, IF SamePayload(k, p) THEN Created(k, p) ELSE Resumed(k))
             /\ UNCHANGED projects
       \/ /\ Replays(k, projects) = {}
          /\ \A p \in DOMAIN projects : projects[p].name # Project(k).name
          /\ projects' = Append(projects, Project(k))
          /\ Answer(k, Created(k, Len(projects) + 1))
    /\ UNCHANGED <<opened, tasks, lost>>

\* In one snapshot as well; the task's identity is made of its request
CreateTask(k) ==
    LET mine == {t \in Replays(k, tasks) : tasks[t].project = calls[k].project} IN
        /\ IsAt(k, "task", "arrived")
        /\ MayView(calls[k].creator, calls[k].project)
        /\ \/ \E t \in mine :
                 /\ Answer(k, IF tasks[t].form = calls[k].form THEN Closed ELSE Resumed(k))
                 /\ UNCHANGED tasks
           \/ /\ mine = {}
              /\ tasks' = Append(tasks,
                     [creator |-> calls[k].creator, request |-> calls[k].request,
                      project |-> calls[k].project, form |-> calls[k].form])
              /\ Answer(k, Closed)
        /\ UNCHANGED <<opened, projects, lost>>

RefuseTask(k) ==
    /\ IsAt(k, "task", "arrived")
    /\ ~MayView(calls[k].creator, calls[k].project)
    /\ RefuseCall(k)

\* The server stops: what it had not written is gone, and no answer comes
Restart ==
    /\ lost < MaxLost
    /\ \E k \in Calls : calls[k] # Nobody
    /\ lost' = lost + 1
    /\ calls' = [k \in Calls |-> Nobody]
    /\ wizard' = [c \in Creators |->
           IF wizard[c].awaits = Nobody THEN wizard[c]
           ELSE [wizard[c] EXCEPT !.step = "ready", !.awaits = Nobody]]
    /\ UNCHANGED <<opened, projects, tasks>>

-----------------------------------------------------------------------------
Init ==
    /\ AccessInit
    /\ wizard = [c \in Creators |-> Closed]
    /\ opened = [c \in Creators |-> 0]
    /\ calls = [k \in Calls |-> Nobody]
    /\ projects = <<>>
    /\ tasks = <<>>
    /\ lost = 0

Produce ==
    \/ \E c \in Creators :
          \/ LoadOptions(c) \/ Close(c) \/ ResetForAccount(c)
          \/ \E v \in VehicleIds : Choose(c, v)
          \/ \E batch \in BatchNames : Submit(c, batch)
          \/ ReadPackage(c) \/ ReadConfiguration(c) \/ Fail(c) \/ LoseAnswer(c)
          \/ \E k \in Calls : PostProject(c, k) \/ \E form \in Forms : PostTask(c, k, form)
    \/ \E k \in Calls :
          \/ LookUpReplay(k) \/ Select(k) \/ Reject(k) \/ Create(k)
          \/ CreateTask(k) \/ RefuseTask(k)
    \/ Restart

Next ==
    \/ AccessNext /\ UNCHANGED creationVars
    \/ \E c \in Creators : Open(c)
    \/ Produce /\ UNCHANGED accessVars

Spec == Init /\ [][Next]_vars

-----------------------------------------------------------------------------
(* Properties *)

CreationTypeOK ==
    /\ TypeOK
    /\ opened \in [Creators -> Nat]
    /\ lost \in 0 .. MaxLost
    /\ \A c \in Creators :
          /\ wizard[c].step \in {"closed", "loading", "ready", "reading", "posted", "next"}
          /\ wizard[c].project \in {0} \cup DOMAIN projects
          /\ wizard[c].awaits \in Calls \cup {Nobody}
    /\ calls \in [Calls -> Call \cup {Nobody}]
    /\ \A t \in DOMAIN tasks : tasks[t].project \in DOMAIN projects

\* A project is made from the brand, the vehicle and the package as they are
\* in that moment, for a creator who holds the grant in that moment: a change
\* or a revocation between the checks of a creation and its write counts.
CreatedFromCurrent ==
    [][\A p \in DOMAIN projects' \ DOMAIN projects :
        LET new == projects'[p] IN
            /\ new.basis = Configuration(new.vehicle)
            /\ admin.brands[new.basis.shown.brand].active
            /\ Latest(admin, new.vehicle).active
            /\ \E g \in DOMAIN admin.grants :
                  /\ admin.grants[g].account = new.creator
                  /\ admin.grants[g].vehicle = new.vehicle
                  /\ admin.grants[g].active]_vars

\* However often a wizard submits, loses the answer and submits again, with
\* another vehicle or another form, it makes one project and one task at most;
\* and the project it goes on with is made of what it showed.  (And every
\* variable has a value of its kind.)
OneProjectAsShown ==
    /\ CreationTypeOK
    /\ \A p, o \in DOMAIN projects :
          projects[p].creator = projects[o].creator /\ projects[p].request = projects[o].request
             => p = o
    /\ \A t, o \in DOMAIN tasks :
          tasks[t].creator = tasks[o].creator /\ tasks[t].request = tasks[o].request => t = o
    /\ \A c \in Creators : wizard[c].project # 0 =>
        LET p == projects[wizard[c].project] IN
            /\ p.creator = c /\ p.request = opened[c]
            /\ p.vehicle \in DOMAIN wizard[c].options
            /\ p.basis.shown = wizard[c].options[p.vehicle]
=============================================================================
