---------------------------- MODULE ProjectAssets ----------------------------
(***************************************************************************)
(* The assets of one project, and what its video tasks lock of them.      *)
(*                                                                         *)
(* The pool of a project follows the company catalog: whoever reads it    *)
(* brings it up to date, and every change is a new revision.  Members add *)
(* uploads of their own, in four sections that others may come between.   *)
(* The owner of a task confirms, from a page that shows the pool as it    *)
(* was, which persons and scenes the task takes; the vehicles are chosen  *)
(* by the server, once for the page and again for the confirmation.       *)
(*                                                                         *)
(* A coordinator runs the sections of a project one at a time, so each is *)
(* one step here.  Persons stand for persons and scenes; the visual style *)
(* of the project, which is in every selection, is left out.  A file is   *)
(* named by its checksum.                                                  *)
(***************************************************************************)
EXTENDS Naturals, Sequences, FiniteSets

CONSTANTS
    Vehicles,     \* the company's assets of the project's vehicle
    Persons,      \* its persons and scenes
    Scripts,      \* scripts, each the set of the vehicle assets that match it
    Tasks,        \* the video tasks of the project, each with an owner and a page
    Files,        \* contents of files to upload
    Calls,        \* the calls the server works at
    MaxEvents,    \* bound: requests to confirm, uploads, changes of the catalog and
                  \* of tasks, answers lost, servers stopped, together
    MaxChosen,    \* bound: persons and uploads a confirmation selects
    None          \* no call, no view

ASSUME AssetsAssumption ==
    /\ Vehicles # {} /\ Vehicles \cap Persons = {}
    /\ (Vehicles \cup Persons) \cap Nat = {}   \* uploads are named by their position
    /\ Scripts \subseteq SUBSET Vehicles
    /\ None \notin Calls
    /\ MaxEvents \in Nat

Company == Vehicles \cup Persons

VARIABLES
    catalog,   \* the version of each company asset, 0 when it is withdrawn
    pool,      \* the pool, revision after revision
    uploads,   \* the temporary assets of the project, in the order they were stored
    tasks,     \* the record of each task
    pages,     \* the asset page of each task's owner
    calls,     \* the calls
    requests,  \* requests to confirm made so far
    events     \* how many events there were

server == <<catalog, pool, uploads, tasks>>
vars == <<server, pages, calls, requests, events>>

-----------------------------------------------------------------------------
(* References *)

Ref(a, version) == [asset |-> a, version |-> version]
Upload(i) == Ref(i, 1)

IsCompany(ref) == ref.asset \in Company

\* What the catalog offers
Latest(assets) == {Ref(a, catalog[a]) : a \in {c \in assets : catalog[c] > 0}}

OfVehicles(refs) == {ref \in refs : ref.asset \in Vehicles}

\* Every asset of the pool that has a newer version takes it
Newest(ref) ==
    IF IsCompany(ref) /\ catalog[ref.asset] > ref.version
    THEN Ref(ref.asset, catalog[ref.asset]) ELSE ref

Current == pool[Len(pool)]

\* The pool as a section finds it: brought up to date, which is a new
\* revision only if something is new
Refreshed ==
    LET newest == {Newest(ref) : ref \in Current} IN
        IF newest = Current THEN pool ELSE Append(pool, newest)

\* The vehicles that match the script, or any one
Matched(script, refs) ==
    LET matching == {ref \in refs : ref.asset \in script}
        any == CHOOSE a \in Vehicles : \E ref \in refs : ref.asset = a
    IN  IF matching # {} THEN matching ELSE {ref \in refs : ref.asset = any}

OneVersionEach(refs) == \A r, o \in refs : r.asset = o.asset => r = o

-----------------------------------------------------------------------------
(* What a task's page shows.  Only a page its owner can confirm is told      *)
(* apart, any other is None.                                                 *)

NoCall == [kind |-> "none"]

IsAt(k, kind, stage) == calls[k].kind = kind /\ calls[k].stage = stage

Idle(k) == calls[k] = NoCall

\* Mutant: the vehicles are matched again, whatever the task has locked
MatchedAgain(k, refs) == Matched(calls[k].record.script, refs)

\* Those the task has locked, or those of the pool that match its script
SelectedVehicles(k, refs) ==
    LET record == calls[k].record IN
        CASE record.stage = "storyboard" -> OfVehicles(record.snapshot)
          [] record.stage = "matching"   -> Matched(record.script, OfVehicles(refs))
          [] OTHER                       -> OfVehicles(refs)

Record(t) == [tasks[t] EXCEPT !.receipts = {}]

\* The task is read first
ReadTask(k) ==
    /\ ~Idle(k)
    /\ calls[k].stage = "arrived"
    /\ calls' = [calls EXCEPT ![k].stage = "reading", ![k].record = Record(calls[k].task)]
    /\ UNCHANGED <<server, pages, requests, events>>

\* Persons of the pool, persons of the catalog and valid uploads
Offered(k) ==
    {ref \in pool[calls[k].revision] : ref.asset \in Persons}
        \cup Latest(Persons)
        \cup {Upload(i) : i \in {u \in DOMAIN uploads : uploads[u].status = "valid"}}

View(k) ==
    IF calls[k].record.stage = "matching"
    THEN [expected |-> calls[k].record.revision,
          pool |-> calls[k].revision, offered |-> Offered(k)]
    ELSE None

-----------------------------------------------------------------------------
(* The pages *)

Event == events < MaxEvents /\ events' = events + 1

NewCall(kind, t) ==
    [kind |-> kind, task |-> t, stage |-> "arrived", record |-> None,
     revision |-> 0, vehicles |-> {}, request |-> 0,
     sent |-> None, upload |-> 0]

Set(t, page) == pages' = [pages EXCEPT ![t] = page]

\* The page reads its task anew
Load(t, k) ==
    /\ Idle(k)
    /\ pages[t].loads = None
    /\ Set(t, [pages[t] EXCEPT !.view = None, !.loads = k])
    /\ calls' = [calls EXCEPT ![k] = [NewCall("load", t) EXCEPT
           !.stage = "reading", !.record = Record(t)]]
    /\ UNCHANGED <<server, requests, events>>

Choices(view) == {c \in SUBSET view.offered : Cardinality(c) <= MaxChosen}

\* The request is named once, and kept until it has succeeded
Confirm(t, k, chosen) ==
    LET page == pages[t]
        request == IF page.request = 0 THEN requests + 1 ELSE page.request
    IN  /\ Idle(k)
        /\ page.awaits = None
        /\ IF page.request = 0 THEN requests' = request /\ Event
                               ELSE UNCHANGED <<requests, events>>
        /\ Set(t, [page EXCEPT !.request = request, !.awaits = k])
        /\ calls' = [calls EXCEPT ![k] = [NewCall("confirm", t) EXCEPT
               !.request = request,
               !.sent = [revision |-> page.view.expected, pool |-> page.view.pool,
                         chosen |-> chosen]]]
        /\ UNCHANGED server

\* The connection breaks; the server goes on
LoseAnswer(t) ==
    /\ pages[t].awaits # None
    /\ Set(t, [pages[t] EXCEPT !.awaits = None])
    /\ Event
    /\ UNCHANGED <<server, calls, requests>>

\* The call ends.  What it was called for is lost if the page does not wait
\* for it any more.
Answer(k, view, done) ==
    /\ calls' = [calls EXCEPT ![k] = NoCall]
    /\ pages' = [t \in Tasks |->
           CASE pages[t].loads = k  -> [pages[t] EXCEPT !.view = view, !.loads = None]
             [] pages[t].awaits = k ->
                   [pages[t] EXCEPT !.awaits = None,
                       !.view = IF done THEN view ELSE @,
                       !.request = IF done /\ calls[k].kind = "confirm" THEN 0 ELSE @]
             [] OTHER -> pages[t]]

Prepare(k) ==
    /\ calls' = [calls EXCEPT
           ![k].stage = IF calls[k].sent = None THEN "listing" ELSE "prepared",
           ![k].revision = Len(Refreshed),
           ![k].vehicles = SelectedVehicles(k, Refreshed[Len(Refreshed)])]
    /\ UNCHANGED pages

\* The pool is refreshed; the assets it names are then asked for, and one that
\* was withdrawn ends the call: the refreshed pool stays.  Of what is read to
\* prepare a confirmation only the vehicles count.
ReadPool(k) ==
    /\ ~Idle(k)
    /\ calls[k].stage = "reading"
    /\ pool' = Refreshed
    /\ IF \A ref \in Refreshed[Len(Refreshed)] : IsCompany(ref) => catalog[ref.asset] > 0
       THEN Prepare(k) ELSE Answer(k, None, FALSE)
    /\ UNCHANGED <<catalog, uploads, tasks, requests, events>>

\* What else the page shows is read, before the pool or after it: that tells
\* only which of two versions of a person it shows is the newer one.
AnswerView(k) ==
    /\ ~Idle(k)
    /\ calls[k].stage = "listing"
    /\ Answer(k, View(k), TRUE)
    /\ UNCHANGED <<server, requests, events>>

\* A read fails, a session has ended: an error, whatever was written
Fail(k) ==
    /\ ~Idle(k)
    /\ calls[k].stage \in {"arrived", "reading", "listing"}
    /\ pool' \in {pool} \cup (IF calls[k].stage = "reading" THEN {Refreshed} ELSE {})
    /\ Answer(k, None, FALSE)
    /\ Event
    /\ UNCHANGED <<catalog, uploads, tasks, requests>>

-----------------------------------------------------------------------------
(* The confirmation *)

Task(k) == tasks[calls[k].task]

Payload(k) == [sent |-> calls[k].sent, vehicles |-> calls[k].vehicles]

Selection(k) == calls[k].sent.chosen \cup calls[k].vehicles

Receipts(k) == {r \in Task(k).receipts : r.request = calls[k].request}

CanConfirm(k) ==
    Task(k).stage = "matching"

\* Mutant: the pool may have gone on
AnyPool(k) == calls[k].sent.pool <= Len(Refreshed)

PoolAsShown(k) == calls[k].sent.pool = Len(Refreshed)

\* What is selected beyond the pool: the catalog has it, in this version
Additions(k) == Selection(k) \ Refreshed[Len(Refreshed)]

MayExtend(k) ==
    /\ Additions(k) \subseteq Latest(Company)
    /\ OneVersionEach(Refreshed[Len(Refreshed)] \cup Additions(k))

Extended(k) ==
    IF Additions(k) = {} THEN Refreshed
    ELSE Append(Refreshed, Refreshed[Len(Refreshed)] \cup Additions(k))

\* Company assets in their current version, valid uploads, one vehicle
Usable(k) ==
    /\ \A ref \in Selection(k) :
          IF IsCompany(ref) THEN ref \in Latest(Company)
          ELSE uploads[ref.asset].status = "valid"
    /\ OfVehicles(Selection(k)) # {}

TaskAsShown(k) == calls[k].sent.revision = Task(k).revision

Extends(k) == CanConfirm(k) /\ PoolAsShown(k) /\ MayExtend(k)

\* What the section has written to the pool before it fails stays written
\* with the local stores; PostgreSQL takes it back.
Left(k) ==
    {pool, IF ~CanConfirm(k) THEN pool ELSE IF Extends(k) THEN Extended(k) ELSE Refreshed}

RefuseLock(k) ==
    /\ IsAt(k, "confirm", "prepared")
    /\ IF Receipts(k) # {} THEN /\ Payload(k) \notin {r.payload : r \in Receipts(k)}
                                /\ UNCHANGED pool
       ELSE /\ ~(Extends(k) /\ Usable(k) /\ TaskAsShown(k))
            /\ pool' \in Left(k)
    /\ Answer(k, None, FALSE)
    /\ UNCHANGED <<catalog, uploads, tasks, requests, events>>

\* The answer is a view again, read anew
ThenView(k) ==
    calls' = [calls EXCEPT ![k] = [NewCall("confirm", calls[k].task) EXCEPT
                                      !.request = calls[k].request]]

Replay(k) ==
    /\ IsAt(k, "confirm", "prepared")
    /\ Payload(k) \in {r.payload : r \in Receipts(k)}
    /\ ThenView(k)
    /\ UNCHANGED <<server, pages, requests, events>>

\* The task with its selection locked.  The owner is shown the next revision,
\* which is the snapshot's stage.
Locked(k) ==
    LET revision == Task(k).revision + 1
        source == Len(Extended(k))
    IN  [revision |-> revision, stage |-> "storyboard", script |-> Task(k).script,
         snapshot |-> Selection(k), source |-> source,
         receipts |-> Task(k).receipts \cup
            {[request |-> calls[k].request, payload |-> Payload(k),
              script |-> Task(k).script, source |-> source, result |-> revision]}]

LockSelection(k) ==
    /\ IsAt(k, "confirm", "prepared")
    /\ Receipts(k) = {}
    /\ Extends(k) /\ Usable(k) /\ TaskAsShown(k)
    /\ pool' = Extended(k)
    /\ tasks' = [tasks EXCEPT ![calls[k].task] = Locked(k)]
    /\ ThenView(k)
    /\ UNCHANGED <<catalog, uploads, pages, requests, events>>

-----------------------------------------------------------------------------
(* An upload: four sections *)

\* An upload is registered at a time of the server's clock, with a name drawn
\* at random that decides between equal times: its rank among the uploads,
\* which need not be the order they came in.  (The model keeps which of those
\* before it had been validated.)
UploadTemporary(t, k, file, usable, rank) ==
    /\ Idle(k)
    /\ pages[t].awaits = None
    /\ Event
    /\ Set(t, [pages[t] EXCEPT !.awaits = k])
    /\ \A o \in DOMAIN uploads : uploads[o].rank # rank
    /\ uploads' = Append(uploads,
           [file |-> file, usable |-> usable, rank |-> rank, status |-> "pending",
            settled |-> {o \in DOMAIN uploads : uploads[o].status # "pending"}])
    /\ calls' = [calls EXCEPT ![k] = [NewCall("upload", t) EXCEPT
           !.stage = "registered", !.upload = Len(uploads) + 1]]
    /\ UNCHANGED <<catalog, pool, tasks, requests>>

Earlier(i) ==
    {o \in DOMAIN uploads : uploads[o].file = uploads[i].file /\ uploads[o].rank < uploads[i].rank}

\* Mutant: only a valid asset is a duplicate
ValidBefore(i) == \E o \in Earlier(i) : uploads[o].status = "valid"

\* The file came before, whatever became of it
CameBefore(i) == Earlier(i) # {}

Validate(k) ==
    LET i == calls[k].upload
        status == IF ~uploads[i].usable THEN "rejected"
                  ELSE IF CameBefore(i) THEN "needs_review" ELSE "valid"
    IN  /\ IsAt(k, "upload", "registered")
        /\ uploads' = [uploads EXCEPT ![i].status = status]
        /\ IF status = "valid"
           THEN calls' = [calls EXCEPT ![k].stage = "validated"] /\ UNCHANGED pages
           ELSE Answer(k, None, FALSE)
        /\ UNCHANGED <<catalog, pool, tasks, requests, events>>

ReadRevision(k) ==
    /\ IsAt(k, "upload", "validated")
    /\ pool' = Refreshed
    /\ calls' = [calls EXCEPT ![k].stage = "adding", ![k].revision = Len(Refreshed)]
    /\ UNCHANGED <<catalog, uploads, tasks, pages, requests, events>>

\* Refused when the pool went on; the page then reads its view again
AddToProjectPool(k) ==
    LET i == calls[k].upload
        added == /\ calls[k].revision = Len(pool)
                 /\ uploads[i].status = "valid"
                 /\ \A ref \in Current :
                       ~IsCompany(ref) => uploads[ref.asset].file # uploads[i].file
    IN  /\ IsAt(k, "upload", "adding")
        /\ IF added
           THEN /\ pool' = Append(pool, Current \cup {Upload(i)})
                /\ calls' = [calls EXCEPT ![k] =
                       NewCall("reload", calls[k].task)]
                /\ UNCHANGED pages
           ELSE /\ Answer(k, None, FALSE)
                /\ UNCHANGED pool
        /\ UNCHANGED <<catalog, uploads, tasks, requests, events>>

-----------------------------------------------------------------------------
(* The surroundings *)

Publish(a) ==
    /\ catalog[a] > 0
    /\ catalog' = [catalog EXCEPT ![a] = @ + 1]
    /\ Event
    /\ UNCHANGED <<pool, uploads, tasks, pages, calls, requests>>

Withdraw(a) ==
    /\ catalog[a] > 0
    /\ catalog' = [catalog EXCEPT ![a] = 0]
    /\ Event
    /\ UNCHANGED <<pool, uploads, tasks, pages, calls, requests>>

\* Work on the task goes on within its stage, or it goes back: to asset
\* matching, or to its script, which is then confirmed again
TaskChanges(t, stage, script) ==
    /\ <<tasks[t].stage, stage>> \in
          {<<"matching", "matching">>, <<"storyboard", "storyboard">>,
           <<"storyboard", "matching">>, <<"matching", "script">>,
           <<"storyboard", "script">>, <<"script", "matching">>}
    /\ tasks[t].stage # "script" => script = tasks[t].script
    /\ tasks' = [tasks EXCEPT ![t].revision = @ + 1, ![t].stage = stage, ![t].script = script]
    /\ Event
    /\ UNCHANGED <<catalog, pool, uploads, pages, calls, requests>>

\* The server stops: no call goes on, and no answer comes
Restart ==
    /\ \E k \in Calls : ~Idle(k)
    /\ calls' = [k \in Calls |-> NoCall]
    /\ pages' = [t \in Tasks |-> [pages[t] EXCEPT !.loads = None, !.awaits = None]]
    /\ Event
    /\ UNCHANGED <<server, requests>>

\* It stops within a section
StopWithinSection(k) ==
    /\ IsAt(k, "confirm", "prepared")
    /\ Receipts(k) = {}
    /\ pool' \in Left(k)
    /\ calls' = [c \in Calls |-> NoCall]
    /\ pages' = [t \in Tasks |-> [pages[t] EXCEPT !.loads = None, !.awaits = None]]
    /\ Event
    /\ UNCHANGED <<catalog, uploads, tasks, requests>>

-----------------------------------------------------------------------------
\* The project was made with vehicles of the catalog
Init ==
    /\ catalog = [a \in Company |-> 1]
    /\ pool = <<Latest(Vehicles)>>
    /\ uploads = <<>>
    /\ tasks \in [Tasks -> {[revision |-> 1, stage |-> "matching", script |-> script,
                             snapshot |-> {}, source |-> 0, receipts |-> {}] :
                            script \in Scripts}]
    /\ pages = [t \in Tasks |-> [view |-> None, request |-> 0, loads |-> None, awaits |-> None]]
    /\ calls = [k \in Calls |-> NoCall]
    /\ requests = 0
    /\ events = 0

Browse(t) ==
    \/ \E k \in Calls :
          \/ Load(t, k)
          \/ pages[t].view # None /\ \E chosen \in Choices(pages[t].view) : Confirm(t, k, chosen)
          \/ \E file \in Files, usable \in BOOLEAN, rank \in 1 .. MaxEvents :
                UploadTemporary(t, k, file, usable, rank)
    \/ LoseAnswer(t)

Serve(k) ==
    \/ ReadTask(k) \/ ReadPool(k) \/ AnswerView(k) \/ Fail(k)
    \/ RefuseLock(k) \/ Replay(k) \/ LockSelection(k)
    \/ Validate(k) \/ ReadRevision(k) \/ AddToProjectPool(k)
    \/ StopWithinSection(k)

Next ==
    \/ \E t \in Tasks : Browse(t)
    \/ \E k \in Calls : Serve(k)
    \/ \E a \in Company : Publish(a) \/ Withdraw(a)
    \/ \E t \in Tasks, stage \in {"script", "matching", "storyboard"}, script \in Scripts :
          TaskChanges(t, stage, script)
    \/ Restart

Spec == Init /\ [][Next]_vars

-----------------------------------------------------------------------------
(* Properties *)

References == [asset : Company \cup (1 .. MaxEvents), version : Nat]

TypeOK ==
    /\ catalog \in [Company -> 0 .. MaxEvents + 1]
    /\ \A r \in DOMAIN pool : pool[r] \subseteq References
    /\ \A i \in DOMAIN uploads :
          uploads[i].status \in {"pending", "valid", "needs_review", "rejected"}
    /\ \A t \in Tasks :
          /\ tasks[t].stage \in {"script", "matching", "storyboard"}
          /\ tasks[t].source \in 0 .. Len(pool)
    /\ \A t \in Tasks : {pages[t].loads, pages[t].awaits} \subseteq Calls \cup {None}

OneUploadOfEachFile(refs) ==
    \A ref, other \in refs :
        ~IsCompany(ref) /\ ~IsCompany(other) /\ ref # other
           => uploads[ref.asset].file # uploads[other.asset].file

\* However uploads, refreshes and confirmations interleave: a revision of the
\* pool has one version of an asset, a vehicle, and only valid uploads, never
\* two of one file.  Of a file that is uploaded twice at once one is valid at
\* most, in whatever order the two rank and are validated; two are only if the
\* second came when the first had been validated, and ranks before it.  (And
\* every variable has a value of its kind.)
PoolIsSound ==
    /\ TypeOK
    /\ \A r \in DOMAIN pool :
          /\ OneVersionEach(pool[r])
          /\ OfVehicles(pool[r]) # {}
          /\ \A ref \in pool[r] : ~IsCompany(ref) => uploads[ref.asset].status = "valid"
          /\ OneUploadOfEachFile(pool[r])
    /\ \A o \in DOMAIN uploads : \A i \in 1 .. o - 1 :
          /\ uploads[i].status = "valid" /\ uploads[o].status = "valid"
          /\ uploads[i].file = uploads[o].file
          => i \in uploads[o].settled /\ uploads[o].rank < uploads[i].rank

\* A task locks what its owner chose, with the vehicles that match its script
\* in the revision of the pool the owner's page showed, and can be traced to
\* the revision it names: neither a refresh nor another's confirmation changes
\* what is confirmed.
ConfirmedAsShown ==
    \A t \in Tasks : \A r \in tasks[t].receipts :
        /\ r.payload.vehicles =
              Matched(r.script, OfVehicles(pool[r.payload.sent.pool]))
        /\ r.payload.vehicles \cup r.payload.sent.chosen \subseteq pool[r.source]
        /\ tasks[t].revision = r.result =>
              tasks[t].snapshot = r.payload.vehicles \cup r.payload.sent.chosen

\* A confirmation whose answer was lost and that is sent again as it was is
\* recognized, while nothing else has changed the task: the vehicles the
\* server adds to it are those it added the first time.
ReplayIsRecognized ==
    \A k \in Calls : IsAt(k, "confirm", "prepared") =>
        \A r \in Receipts(k) :
            /\ r.payload.sent = calls[k].sent
            /\ r.result = Task(k).revision
            /\ calls[k].record.revision = Task(k).revision
            => Payload(k) = r.payload
=============================================================================
