----------------------------- MODULE WebClient -----------------------------
(***************************************************************************)
(* The browser's workspace (apps/web/public): the project library, the     *)
(* frame with the selected video task, and the three panels that follow    *)
(* the selection: the agent's session, the asset page and the stage page.  *)
(* A handler runs to its next await without interruption, so an action is  *)
(* one such section and every await is a record in web.calls, answered     *)
(* later and in any order.  The handlers of one section call each other    *)
(* (a button opens the frame, the frame renders, the rendering moves the   *)
(* three panels), which the operators from the state of the page to the    *)
(* state of the page compose in the order of the code.                     *)
(*                                                                         *)
(* There is one project; its first task is the one resolveWorkspace-       *)
(* Selection falls back to.  The six stages of a task are reduced to what  *)
(* the page does with them: at the revisions in AssetRevisions a task is   *)
(* opened on the asset page, at the others on a stage page.                *)
(***************************************************************************)
EXTENDS Integers, FiniteSets

CONSTANTS
    DevAccounts,    \* the development accounts of the switcher
    DevAdmins,      \* those with the role content_admin
    Tasks,          \* the video tasks of the project
    FirstTask,      \* the task of the project that is opened by default
    None,
    AssetRevisions, \* the revisions at which a task is in asset_matching
    MaxRevision,    \* bound on the revision of a task
    MaxSessions,    \* bound on the agent sessions of the server
    MaxEvents       \* bound on what users do

ASSUME WebAssumption ==
    /\ DevAdmins \subseteq DevAccounts
    /\ FirstTask \in Tasks
    /\ None \notin DevAccounts \cup Tasks
    /\ MaxRevision \in Nat \ {0}
    /\ AssetRevisions \subseteq 1 .. MaxRevision
    /\ MaxSessions \in Nat

VARIABLES
    web,        \* the page
    revision,   \* the server's revision of each task
    sessions,   \* the server's agent sessions
    events      \* what users have done so far

webVars == <<web, revision, sessions, events>>

----------------------------------------------------------------------------
\* The parts of the page.

Unlisted == [t \in Tasks |-> 0]

\* isSelectionLocked: an agent run or a restoration, a command or an account
\* switch, or a mutation of the stage page.
Locked(w) == w.busy \/ w.workflow \/ w.stages.busy

\* An await, with what the section before it had captured.  A counter of the
\* page is only ever compared with the value captured, so the page keeps no
\* counters: a call is scope as long as the workspaceScopeGeneration (of a
\* stage call: the contextGeneration) is the one it was made in, and newest
\* as long as the request number or sequence of its kind is its own.
Await(w, flow, step, task, session, rev) ==
    [flow |-> flow, step |-> step, account |-> w.account, task |-> task,
     session |-> session, revision |-> rev, scope |-> TRUE, newest |-> TRUE]

Calling(w, c) == [w EXCEPT !.calls = @ \cup {c}]
Answered(w, c) == [w EXCEPT !.calls = @ \ {c}]

\* What the asset page and the stage page read, and what is done on them.
PageFlows == {"assets", "asset work", "stages", "stage work"}

\* workspaceScopeGeneration += 1
NewScope(w) ==
    [w EXCEPT !.calls = {IF c.flow \in PageFlows THEN c
                         ELSE [c EXCEPT !.scope = FALSE] : c \in @}]

\* contextGeneration += 1 of the stage page
NewStageContext(w) ==
    [w EXCEPT !.calls = {IF c.flow \in {"stages", "stage work"}
                         THEN [c EXCEPT !.scope = FALSE] ELSE c : c \in @}]

\* agentSelectionRequest, projectLibraryRequest, or the sequence of a page
Superseded(w, flow) ==
    [w EXCEPT !.calls = {IF c.flow # flow THEN c
                         ELSE [c EXCEPT !.newest = FALSE] : c \in @}]

\* workspaceModuleForStage
ModuleAt(rev) == IF rev \in AssetRevisions THEN "assets" ELSE "planning"

\* updateSession, after assertWorkspaceAgentSession: the session is shown
\* only when it belongs to the selected task and the library lists the task.
Binds(w, session) ==
    session.task = w.agent.task /\ w.library.tasks[session.task] > 0

SessionShown(w, session, rev) ==
    [w EXCEPT !.agent.session = session, !.agent.revision = rev]

----------------------------------------------------------------------------
\* renderAccount, and in it managementCenter.setAccount: the entry of the
\* management center is enabled or disabled here and nowhere else.

AccountRendered(w) ==
    [w EXCEPT !.entry = w.account \in DevAdmins /\ ~Locked(w) /\ ~w.hydrating]

\* setPanelBusy of the stage page: onBusyChange renders the account.
PanelBusy(w, busy) ==
    IF w.stages.busy = busy THEN w
    ELSE AccountRendered([w EXCEPT !.stages.busy = busy])

\* synchronizeAgentWorkspaceSelection: the same task is refreshed when its
\* revision has moved, another one starts a new scope and restores a session.
Synchronized(w) ==
    LET t == w.frame.task
        cleared == [NewScope(Superseded(w, "restore")) EXCEPT
            !.agent = [task |-> t, session |-> None, revision |-> 0],
            !.card = 0]
    IN  CASE t # w.agent.task /\ t = None -> cleared
          [] t # w.agent.task /\ t # None ->
                Calling([cleared EXCEPT !.busy = TRUE],
                        Await(w, "restore", "list", t, None, 0))
          [] t = w.agent.task ->
                IF /\ t # None
                   /\ w.agent.session # None
                   /\ w.agent.revision # w.frame.listed[t]
                THEN Calling(w, Await(w, "refresh", "task", t, w.agent.session,
                                     w.frame.listed[t]))
                ELSE w

\* load() of the asset page: the one of setContext, or the one a reopening
\* awaits before it gives the page back.
AssetLoad(w, step) ==
    LET next == [Superseded(w, "assets") EXCEPT !.assets.shows = None]
    IN  IF w.assets.task = None
        THEN IF step = "reload" THEN [next EXCEPT !.assets.busy = FALSE]
             ELSE next
        ELSE Calling(next, Await(w, "assets", step, w.assets.task, None, 0))

\* setContext of the asset page: nothing is read again while the key, which
\* has the task and its revision but not the account, stays the same.
AssetsSet(w) ==
    LET task == IF w.frame.view = "assets" THEN w.frame.task ELSE None
        key == IF task = None THEN <<>> ELSE <<task, w.frame.listed[task]>>
        next == [w EXCEPT !.assets.task = task, !.assets.key = key]
    IN  IF key = w.assets.key THEN next ELSE AssetLoad(next, "load")

\* loadStage() of the stage page, likewise.
StageLoad(w, step) ==
    LET next == Superseded(w, "stages")
    IN  IF ~w.stages.visible \/ w.stages.task = None
        THEN IF step = "reload" THEN PanelBusy(next, FALSE) ELSE next
        ELSE Calling(next, Await(w, "stages", step, w.stages.task, None, 0))

\* setContext of the stage page
StagesSet(w) ==
    LET task == w.frame.task
        visible == w.frame.view = "planning"
        resourceChanged == w.account # w.stages.account \/ task # w.stages.task
        contextChanged == resourceChanged \/ visible # w.stages.visible
        dropped == IF contextChanged
                   THEN [Superseded(w, "stages") EXCEPT !.stages.shows = None]
                   ELSE w
        left == IF resourceChanged
                THEN PanelBusy(NewStageContext(dropped), FALSE)
                ELSE dropped
        next == [left EXCEPT
            !.stages.account = w.account, !.stages.task = task,
            !.stages.revision = IF task = None THEN 0
                                ELSE w.frame.listed[task],
            !.stages.visible = visible]
    IN  IF visible /\ task # None /\ contextChanged THEN StageLoad(next, "load")
        ELSE next

\* render() of the frame, with onSelectionChange
Rendered(w) == StagesSet(AssetsSet(Synchronized(w)))

FrameShown(w, task, view) ==
    Rendered([w EXCEPT !.frame.task = task, !.frame.view = view])

\* Mutant: the lock of the selection is not asked
CanAlwaysOpen(w, task) == w.library.tasks # Unlisted

\* open(): a project that is not listed is refused, and so is leaving the
\* selected task while the selection is locked.
CanOpen(w, task) ==
    /\ w.library.tasks # Unlisted
    /\ Locked(w) => task = w.frame.task

Opened(w, task, module) ==
    IF ~CanOpen(w, task) THEN w
    ELSE FrameShown([w EXCEPT !.frame.listed = w.library.tasks], task,
               IF task = None THEN "overview" ELSE module)

\* close(): the panels are not told.
FrameClosed(w) ==
    [w EXCEPT !.frame = [task |-> None, view |-> "closed",
                         listed |-> Unlisted]]

\* Two ways out of the frame do not ask for the lock: web.escaped, which the
\* code does not have, notes that a user left a locked selection by them.
Escaped(w) == [FrameClosed(w) EXCEPT !.escaped = @ \/ Locked(w)]

\* onTaskUpdated and applyProjectLibraryTaskUpdate: the entry of the library,
\* which the frame shares, is changed in place and the task opened again.
TaskUpdated(w, task, rev) ==
    IF w.library.tasks[task] = 0 THEN w
    ELSE LET next == [w EXCEPT
                !.library.tasks[task] = rev,
                !.frame.listed[task] = IF @ = 0 THEN 0 ELSE rev]
         IN  Opened(next, task, ModuleAt(rev))

\* resetWorkspaceContext
AgentCleared(w) ==
    [Superseded(w, "restore") EXCEPT
        !.agent = [task |-> None, session |-> None, revision |-> 0],
        !.card = 0]

\* Mutant: what the page shows is left
StagesLeft(w) ==
    PanelBusy([Superseded(NewStageContext(w), "stages") EXCEPT
        !.stages.task = None, !.stages.revision = 0,
        !.stages.visible = FALSE, !.stages.account = None], FALSE)

\* reset() of the stage page
StagesReset(w) ==
    LET next == [Superseded(NewStageContext(w), "stages") EXCEPT
            !.stages.task = None, !.stages.revision = 0,
            !.stages.visible = FALSE, !.stages.account = None]
    IN  [PanelBusy(next, FALSE) EXCEPT !.stages.shows = None]

\* clearProjectLibrary, and the first section of loadProjectLibrary
LibraryCleared(w) ==
    [Superseded(w, "library") EXCEPT
        !.library = [tasks |-> Unlisted, loading |-> TRUE]]

\* A load that an account switch awaits holds the flags of the page; if the
\* scope of the switch has been left by then it does not give them back.  With
\* no brand selected nothing is asked and the list stays empty: that is a call
\* that fails before anything else happens.
LibraryLoad(w, step) ==
    Calling(LibraryCleared(w), Await(w, "library", step, None, None, 0))

----------------------------------------------------------------------------
WebTypeOK ==
    /\ web.account \in DevAccounts
    /\ web.agent.task \in Tasks \cup {None}
    /\ web.frame.task \in Tasks \cup {None}
    /\ web.frame.view \in {"closed", "overview", "assets", "planning"}
    /\ web.library.tasks \in [Tasks -> 0 .. MaxRevision]
    /\ \A b \in {web.busy, web.workflow, web.hydrating, web.entry,
                 web.center, web.stages.busy, web.assets.busy,
                 web.escaped} : b \in BOOLEAN
    /\ revision \in [Tasks -> 1 .. MaxRevision]
    /\ sessions \subseteq
           [account : DevAccounts, task : Tasks, id : 1 .. MaxSessions]

\* The page after initialize(): an account, its library, nothing selected.
WebInit ==
    /\ revision = [t \in Tasks |-> 1]
    /\ sessions = {}
    /\ events = 0
    /\ \E a \in DevAccounts :
        web = [account |-> a, busy |-> FALSE, workflow |-> FALSE, hydrating |-> FALSE,
               entry |-> a \in DevAdmins, center |-> FALSE,
               library |-> [tasks |-> revision, loading |-> FALSE],
               frame |-> [task |-> None, view |-> "closed",
                          listed |-> Unlisted],
               agent |-> [task |-> None, session |-> None, revision |-> 0],
               card |-> 0, escaped |-> FALSE,
               assets |-> [key |-> <<>>, task |-> None, busy |-> FALSE, shows |-> None],
               stages |-> [account |-> None, task |-> None, revision |-> 0,
                           visible |-> FALSE, busy |-> FALSE, shows |-> None],
               calls |-> {}]

\* What a user does: one more event.
Does(w) ==
    /\ events < MaxEvents
    /\ events' = events + 1
    /\ web' = w
    /\ UNCHANGED <<revision, sessions>>

InFrame == web.frame.view # "closed"
InLibrary == ~InFrame /\ ~web.center

----------------------------------------------------------------------------
\* The library and the frame.

\* A card of the library: the project's overview, or one of "my tasks".
OpenFromLibrary ==
    /\ InLibrary
    /\ \E t \in Tasks \cup {None} :
        Does(Opened(web, t, IF t = None THEN "overview"
                            ELSE ModuleAt(web.library.tasks[t])))

\* selectTask: from the frame's own project, whatever the library lists now.
SelectTask(t) ==
    /\ InFrame
    /\ Locked(web) => t = web.frame.task
    /\ Does(FrameShown(web, t, ModuleAt(web.frame.listed[t])))

\* The module buttons ask for no lock, and choose a task when none is.
ShowModule(module) ==
    /\ InFrame
    /\ Does(FrameShown(web, IF web.frame.task = None THEN FirstTask
                       ELSE web.frame.task, module))

ShowOverview ==
    /\ InFrame
    /\ Locked(web) => web.frame.task = None
    /\ Does(FrameShown(web, None, "overview"))

ShowProjectAssets ==
    /\ InFrame /\ ~Locked(web)
    /\ Does(FrameShown(web, FirstTask, "assets"))

Back == InFrame /\ ~Locked(web) /\ Does(FrameClosed(web))

\* restoreFromLocation: the browser goes to an address it has been at.  An
\* address that cannot be opened because no library is there closes the frame,
\* locked or not.
Navigate ==
    /\ ~web.center
    /\ \/ /\ Locked(web) => web.frame.view = "closed"
          /\ Does(FrameClosed(web))
       \/ \E t \in Tasks \cup {None}, module \in {"assets", "planning"} :
            /\ Locked(web) => InFrame /\ t = web.frame.task
            /\ CASE CanOpen(web, t) -> Does(Opened(web, t, module))
                 [] ~CanOpen(web, t) /\ ~web.library.loading ->
                        Does(Escaped(web))
                 [] OTHER -> FALSE

\* selectNavigationBrand: the library is filtered by another brand.
SelectNavigationBrand ==
    /\ ~web.busy /\ ~web.workflow /\ ~web.hydrating
    /\ Does(AgentCleared(FrameClosed(web)))

\* The retry button of the library, a project created, a catalog changed.
ReloadLibrary == ~InFrame /\ Does(LibraryLoad(web, "load"))

\* The answer of getProjectLibrary, or its failure.
LibraryAnswered(c) ==
    /\ c.flow = "library"
    /\ LET current == c.newest /\ c.scope
           loaded == IF current THEN [web EXCEPT !.library.loading = FALSE]
                     ELSE web
           freed == IF c.step = "switch" /\ c.scope
                    THEN AccountRendered([loaded EXCEPT
                            !.hydrating = FALSE, !.workflow = FALSE,
                            !.busy = FALSE])
                    ELSE loaded
       IN  \/ web' = Answered(freed, c)
           \/ /\ current
              /\ web' = Answered([freed EXCEPT !.library.tasks = revision], c)
    /\ UNCHANGED <<revision, sessions, events>>

\* The management center is opened by its entry in the top bar, and is told
\* of an account only by AccountRendered.  So the entry may still be enabled
\* while the selection is locked.
OpenManagementCenter ==
    /\ web.entry /\ ~web.center
    /\ Does([Escaped(web) EXCEPT !.center = TRUE])

CloseManagementCenter == web.center /\ Does([web EXCEPT !.center = FALSE])

----------------------------------------------------------------------------
\* switchWorkspaceAccount

SwitchAccount(a) ==
    /\ a # web.account
    /\ ~Locked(web) /\ ~web.hydrating
    /\ LET held == NewScope([web EXCEPT !.hydrating = TRUE, !.busy = TRUE,
                                        !.workflow = TRUE])
       IN  Does(Calling(LibraryCleared(AccountRendered(held)),
                [flow |-> "switch", step |-> "session", account |-> web.account,
                 to |-> a, listed |-> web.library.tasks,
                 scope |-> TRUE, newest |-> TRUE]))

\* applyWorkspaceSession and resetWorkspaceContext; then the library is read.
SessionSwitched(c) ==
    /\ c.flow = "switch" /\ c.step = "session"
    /\ LET signedIn == [Answered(web, c) EXCEPT !.account = c.to,
                                               !.center = FALSE]
           applied == NewScope(FrameClosed(StagesReset(signedIn)))
       IN  web' = LibraryLoad(AgentCleared(AccountRendered(applied)), "switch")
    /\ UNCHANGED <<revision, sessions, events>>

\* The library is put back, then the brands and the library are read again.
SwitchFailed(c) ==
    /\ c.flow = "switch" /\ c.step = "session"
    /\ web' = [AccountRendered(Answered(web, c)) EXCEPT
                !.library = [tasks |-> c.listed, loading |-> FALSE],
                !.calls = @ \cup {[c EXCEPT !.step = "brands"]}]
    /\ UNCHANGED <<revision, sessions, events>>

\* The library is read in the scope of that moment; the flags are given back
\* only if that is the scope the switch began in.
BrandsReadAgain(c) ==
    /\ c.flow = "switch" /\ c.step = "brands"
    /\ web' = LibraryLoad(Answered(web, c),
                          IF c.scope THEN "switch" ELSE "load")
    /\ UNCHANGED <<revision, sessions, events>>

----------------------------------------------------------------------------
\* The agent panel.  It is part of the frame, and its controls are disabled
\* while the selection is locked.

AgentFree == InFrame /\ ~Locked(web)

SessionsOf(a, t) == {s \in sessions : s.account = a /\ s.task = t}

\* What the server creates for the account and the task of a call.
SessionFor(c) ==
    [account |-> c.account, task |-> c.task, id |-> Cardinality(sessions) + 1]

\* A restoration or a choice goes on to its next request.
GoesOn(w, c, step, session) ==
    Calling(Answered(w, c), [c EXCEPT !.step = step, !.session = session])

\* Mutant: a restoration that ends without a session gives nothing back
EndsWithSession(w, c) ==
    Answered(IF w.agent.session # None THEN [w EXCEPT !.busy = FALSE] ELSE w, c)

\* The finally of synchronizeAgentWorkspaceSelection asks whether the
\* selection is still its own; those of selectSession, of the new and of the
\* reset session ask nothing.
FlowEnds(w, c) ==
    LET owns == \/ c.flow # "restore"
                \/ c.newest /\ c.scope /\ w.agent.task = c.task
    IN  Answered(IF owns THEN [w EXCEPT !.busy = FALSE] ELSE w, c)

SelectionIs(w, c) == c.scope /\ w.agent.task = c.task

Holding(flow, step, session) ==
    Does(Calling([web EXCEPT !.busy = TRUE],
                 Await(web, flow, step, web.agent.task, session, 0)))

\* selectSession, the new session and the reset session
SelectSession ==
    /\ AgentFree
    /\ \E s \in SessionsOf(web.account, web.agent.task) :
        s # web.agent.session /\ Holding("select", "get", s)

NewSession ==
    /\ AgentFree /\ web.agent.task # None
    /\ Cardinality(sessions) < MaxSessions
    /\ Holding("select", "create", None)

ResetSession ==
    /\ AgentFree /\ web.agent.session # None
    /\ Holding("reset", "reset", web.agent.session)

\* loadTaskSessions, and the choice of a saved session or the newest; without
\* any a session is created.
SessionsListed(c) ==
    /\ c.flow = "restore" /\ c.step = "list"
    /\ IF ~SelectionIs(web, c) THEN web' = FlowEnds(web, c)
       ELSE IF SessionsOf(c.account, c.task) = {}
            THEN web' = GoesOn(web, c, "create", None)
            ELSE \E s \in SessionsOf(c.account, c.task) : web' = GoesOn(web, c, "get", s)
    /\ UNCHANGED <<revision, sessions, events>>

\* createSession
SessionCreated(c) ==
    /\ c.flow \in {"restore", "select"} /\ c.step = "create"
    /\ Cardinality(sessions) < MaxSessions
    /\ sessions' = sessions \cup {SessionFor(c)}
    /\ LET shown == [SessionShown(web, SessionFor(c), revision[c.task])
                     EXCEPT !.card = 0]
       IN  web' = FlowEnds(IF SelectionIs(web, c)
                              /\ Binds(web, SessionFor(c))
                           THEN shown ELSE web, c)
    /\ UNCHANGED <<revision, events>>

\* activateSession: the session, then its transcript.
SessionGot(c) ==
    /\ c.flow \in {"restore", "select"} /\ c.step = "get"
    /\ web' = IF SelectionIs(web, c) /\ Binds(web, c.session)
              THEN GoesOn(SessionShown(web, c.session, revision[c.task]), c,
                         "transcript", c.session)
              ELSE FlowEnds(web, c)
    /\ UNCHANGED <<revision, sessions, events>>

TranscriptRead(c) ==
    /\ c.flow \in {"restore", "select"} /\ c.step = "transcript"
    /\ web' = FlowEnds(web, c)
    /\ UNCHANGED <<revision, sessions, events>>

\* The answer of a reset is shown whatever was selected meanwhile, if
\* updateSession takes it.
SessionReset(c) ==
    /\ c.flow = "reset"
    /\ web' = FlowEnds(IF Binds(web, c.session)
                       THEN [SessionShown(web, c.session, revision[c.task])
                             EXCEPT !.card = 0]
                       ELSE web, c)
    /\ UNCHANGED <<revision, sessions, events>>

\* A request of these flows fails.  A restoration of a task that is not
\* available any more goes to the overview of the project.
SessionFailed(c) ==
    /\ c.flow \in {"restore", "select", "reset"}
    /\ \/ web' = FlowEnds(web, c)
       \/ /\ c.flow = "restore"
          /\ c.newest /\ c.scope
          /\ web' = Opened([Answered(web, c) EXCEPT !.busy = FALSE], None,
                           "overview")
    /\ UNCHANGED <<revision, sessions, events>>

\* sendMessage
SendMessage ==
    /\ AgentFree /\ web.agent.session # None
    /\ Does(Calling([web EXCEPT !.busy = TRUE],
            Await(web, "send", "run", web.agent.task, web.agent.session,
                 revision[web.agent.task])))

\* isCurrentTurn
IsCurrentTurn(w, c) ==
    SelectionIs(w, c) /\ w.agent.session = c.session

\* The run ends, with a summary read at some moment of it and perhaps with a
\* card for the revision the agent saw, or its request fails.
RunEnded(c) ==
    /\ c.flow = "send"
    /\ \E seen \in c.revision .. revision[c.task], carded \in BOOLEAN :
        LET shown == [SessionShown(web, c.session, seen) EXCEPT
                        !.card = IF carded THEN seen ELSE @]
            freed == [IF Binds(web, c.session) THEN shown ELSE web
                      EXCEPT !.busy = FALSE]
        IN  web' = Answered(IF IsCurrentTurn(web, c) THEN freed ELSE web, c)
    /\ UNCHANGED <<revision, sessions, events>>

RunFailed(c) ==
    /\ c.flow = "send"
    /\ web' = Answered(IF IsCurrentTurn(web, c)
                       THEN [web EXCEPT !.busy = FALSE] ELSE web, c)
    /\ UNCHANGED <<revision, sessions, events>>

\* executeActionProposal: the card is of the revision that is shown.
ExecuteCard ==
    /\ InFrame
    /\ ~web.busy /\ ~web.workflow
    /\ web.agent.session # None
    /\ web.card # 0 /\ web.card = web.agent.revision
    /\ Does(Calling([web EXCEPT !.workflow = TRUE],
            Await(web, "execute", "command", web.agent.task,
                 web.agent.session, web.card)))

\* isCurrentAgentActionContext
ActionContextIs(w, c) == IsCurrentTurn(w, c) /\ w.agent.revision # 0

\* applyAgentCommandRevision, and the refresh it leaves behind
CommandApplied(w, c, rev) ==
    LET next == IF rev < w.agent.revision THEN w
                ELSE TaskUpdated([w EXCEPT !.agent.revision = rev], c.task, rev)
    IN  Calling([next EXCEPT !.card = 0],
                Await(next, "refresh", "command", c.task, c.session, 0))

\* The server runs the command if the revision is still the card's; whatever
\* the answer, the flag is given back by the execution that is active.
CommandAnswered(c) ==
    /\ c.flow = "execute"
    /\ LET done == /\ c.revision = revision[c.task]
                   /\ revision[c.task] < MaxRevision
           moved == [revision EXCEPT ![c.task] = @ + 1]
           freed(w) == Answered([w EXCEPT !.workflow = FALSE], c)
       IN  \/ /\ done /\ revision' = moved
              /\ web' = freed(IF ActionContextIs(web, c)
                              THEN CommandApplied(web, c, moved[c.task])
                              ELSE web)
           \/ /\ revision' = IF done THEN moved ELSE revision
              /\ web' = freed(web)
    /\ UNCHANGED <<sessions, events>>

\* refreshAgentContextForWorkspaceTask, and the refresh after a command,
\* which takes what is at least what is shown by then.
ContextRefreshed(c) ==
    /\ c.flow = "refresh"
    /\ LET least == IF c.step = "task" THEN c.revision ELSE web.agent.revision
           taken == /\ IsCurrentTurn(web, c) /\ Binds(web, c.session)
                    /\ revision[c.task] >= least
       IN  web' = Answered(IF taken
                           THEN SessionShown(web, c.session, revision[c.task])
                           ELSE web, c)
    /\ UNCHANGED <<revision, sessions, events>>

RefreshFailed(c) ==
    /\ c.flow = "refresh"
    /\ web' = Answered(IF c.step = "task" /\ SelectionIs(web, c)
                       THEN [web EXCEPT !.agent.revision = 0] ELSE web, c)
    /\ UNCHANGED <<revision, sessions, events>>

----------------------------------------------------------------------------
\* The asset page.  It has a flag of its own, which locks no selection.

View(c) == [account |-> c.account, task |-> c.task]

CallingAssets(step) ==
    Does(Calling([web EXCEPT !.assets.busy = TRUE],
                 Await(web, "asset work", step, web.assets.task, None,
                      web.frame.listed[web.assets.task])))

\* confirmSelection, which confirms the shown selection or reopens the
\* matching, and submitUpload.
UseAssets ==
    /\ web.frame.view = "assets"
    /\ web.assets.task # None /\ web.assets.shows # None /\ ~web.assets.busy
    /\ \E step \in {"confirm", "reopen", "upload"} : CallingAssets(step)

\* load() answers to the newest request only.
AssetsLoaded(c) ==
    /\ c.flow = "assets"
    /\ LET freed == IF c.step = "reload" THEN [web EXCEPT !.assets.busy = FALSE]
                    ELSE web
       IN  \/ web' = Answered(freed, c)
           \/ /\ c.newest
              /\ web' = Answered([freed EXCEPT !.assets.shows = View(c)], c)
    /\ UNCHANGED <<revision, sessions, events>>

\* The answer of a confirmation becomes the view and the task is opened,
\* whatever the page shows by then; a reopening reads the page anew.
AssetsConfirmed(c) ==
    /\ c.flow = "asset work" /\ c.step \in {"confirm", "reopen"}
    /\ c.revision = revision[c.task] /\ revision[c.task] < MaxRevision
    /\ LET rev == revision[c.task] + 1
           next == Answered(web, c)
           viewed == [next EXCEPT !.assets.shows = View(c)]
       IN  /\ revision' = [revision EXCEPT ![c.task] = rev]
           /\ web' = IF c.step = "reopen"
                     THEN AssetLoad(TaskUpdated(next, c.task, rev), "reload")
                     ELSE [TaskUpdated(viewed, c.task, rev)
                           EXCEPT !.assets.busy = FALSE]
    /\ UNCHANGED <<sessions, events>>

\* An upload is stored for the project, then the view of the task the page
\* is on by then is read, and shown whatever the page is on when it comes.
AssetUploaded(c) ==
    /\ c.flow = "asset work" /\ c.step = "upload"
    /\ web.assets.task # None
    /\ web' = Calling(Answered(web, c),
                      Await(web, "asset work", "view", web.assets.task,
                           None, 0))
    /\ UNCHANGED <<revision, sessions, events>>

UploadViewed(c) ==
    /\ c.flow = "asset work" /\ c.step = "view"
    /\ web' = Answered([web EXCEPT !.assets.shows = View(c),
                                   !.assets.busy = FALSE], c)
    /\ UNCHANGED <<revision, sessions, events>>

AssetsFailed(c) ==
    /\ c.flow = "asset work"
    /\ web' = Answered([web EXCEPT !.assets.busy = FALSE], c)
    /\ UNCHANGED <<revision, sessions, events>>

----------------------------------------------------------------------------
\* The stage page: a confirmation, a rollback or a simulated stage changes
\* the task, the generation of videos does not.

CallingStages(step) ==
    Does(Calling(PanelBusy(web, TRUE),
            Await(web, "stage work", step, web.stages.task, None,
                 web.stages.revision)))

UseStages ==
    /\ web.frame.view = "planning" /\ web.stages.visible
    /\ web.stages.task # None /\ web.stages.shows # None /\ ~web.stages.busy
    /\ \E step \in {"mutate", "video"} : CallingStages(step)

\* The context a call of the page was made in is still there.
StageContextIs(w, c) ==
    c.scope /\ c.task = w.stages.task

StageFreed(w, c) == IF StageContextIs(w, c) THEN PanelBusy(w, FALSE) ELSE w

StagesLoaded(c) ==
    /\ c.flow = "stages"
    /\ LET freed == IF c.step = "reload" THEN StageFreed(web, c) ELSE web
       IN  \/ web' = Answered(freed, c)
           \/ /\ c.newest /\ c.scope
              /\ web' = Answered([freed EXCEPT
                            !.stages.shows = View(c),
                            !.stages.revision = revision[c.task]], c)
    /\ UNCHANGED <<revision, sessions, events>>

\* The server changes the task at the revision the page was at.
StageMutated(c) ==
    /\ c.flow = "stage work" /\ c.step = "mutate"
    /\ c.revision = revision[c.task] /\ revision[c.task] < MaxRevision
    /\ LET rev == revision[c.task] + 1
           next == Answered(web, c)
           shown == [next EXCEPT !.stages.revision = rev]
       IN  /\ revision' = [revision EXCEPT ![c.task] = rev]
           /\ web' = IF StageContextIs(web, c)
                     THEN StageLoad(TaskUpdated(shown, c.task, rev), "reload")
                     ELSE next
    /\ UNCHANGED <<sessions, events>>

\* The other ends: the videos are there, or the request failed.
StageEnded(c) ==
    /\ c.flow = "stage work" /\ c.step \in {"mutate", "video"}
    /\ web' = Answered(StageFreed(web, c), c)
    /\ UNCHANGED <<revision, sessions, events>>

----------------------------------------------------------------------------
\* Somebody else, or the agent's owner elsewhere, changes a task.
ChangedElsewhere(t) ==
    /\ events < MaxEvents
    /\ revision[t] < MaxRevision
    /\ revision' = [revision EXCEPT ![t] = @ + 1]
    /\ events' = events + 1
    /\ UNCHANGED <<web, sessions>>

UserActs ==
    \/ OpenFromLibrary \/ (\E t \in Tasks : SelectTask(t))
    \/ (\E module \in {"assets", "planning"} : ShowModule(module))
    \/ ShowOverview \/ ShowProjectAssets \/ Back \/ Navigate
    \/ SelectNavigationBrand \/ ReloadLibrary
    \/ OpenManagementCenter \/ CloseManagementCenter
    \/ (\E a \in DevAccounts : SwitchAccount(a))
    \/ SelectSession \/ NewSession \/ ResetSession
    \/ SendMessage \/ ExecuteCard \/ UseAssets \/ UseStages
    \/ (\E t \in Tasks : ChangedElsewhere(t))

AwaitEnds(c) ==
    \/ LibraryAnswered(c)
    \/ SessionSwitched(c) \/ SwitchFailed(c) \/ BrandsReadAgain(c)
    \/ SessionsListed(c) \/ SessionCreated(c) \/ SessionGot(c)
    \/ TranscriptRead(c) \/ SessionReset(c) \/ SessionFailed(c)
    \/ RunEnded(c) \/ RunFailed(c) \/ CommandAnswered(c)
    \/ ContextRefreshed(c) \/ RefreshFailed(c)
    \/ AssetsLoaded(c) \/ AssetsConfirmed(c) \/ AssetUploaded(c)
    \/ UploadViewed(c) \/ AssetsFailed(c)
    \/ StagesLoaded(c) \/ StageMutated(c) \/ StageEnded(c)

Answers == \E c \in web.calls : AwaitEnds(c)

WebNext == UserActs \/ Answers

WebSpec == WebInit /\ [][WebNext]_webVars

\* Every request is answered or fails in the end: WF_webVars(Answers), written
\* out.  A request can be answered as long as it is in web.calls, and a step
\* that is not an event is an answer.
FairSpec ==
    WebSpec /\ ([]<>(web.calls = {}) \/ []<><<UNCHANGED events>>_webVars)

----------------------------------------------------------------------------
\* The task of the frame, the agent's session and the stage page are of one
\* task and of the account that is signed in, whatever is answered late: no
\* session or stage of a task or an account that was left is shown
\* (updateSession, isCurrentWorkspaceScope and the generations of the pages).
\* updateSession does not compare accounts: that a session is of the account
\* rests on nobody having left a locked selection.
PanelsFollowSelection ==
    /\ WebTypeOK
    /\ web.frame.task \in {None, web.agent.task}
    /\ web.agent.session # None =>
        /\ web.agent.session.task = web.agent.task
        /\ ~web.escaped => web.agent.session.account = web.account
    /\ web.stages.shows # None =>
        web.stages.shows = [account |-> web.account, task |-> web.stages.task]
    /\ web.frame.view = "planning" => web.stages.task = web.frame.task

\* The page is on the task of every agent run and command under way.
TaskIsKept ==
    \A c \in web.calls : c.flow \in {"send", "execute"} =>
        web.agent.task = c.task

\* While an agent run or a command of the page is under way, the page stays
\* on its task, whoever clicks what in whatever order (isSelectionLocked),
\* unless it was left by a way out that does not ask for the lock.
RunKeepsTask == ~web.escaped => TaskIsKept

\* Whoever is on a task and finds the controls locked gets them back, however
\* the requests end (the finally blocks of the flows), unless the task was left
\* by a way out that does not ask for the lock: then the flow does not give them
\* back, and the page may stay locked.  An account switch is apart.
ControlsComeBack ==
    \A t \in Tasks :
        (web.agent.task = t /\ Locked(web) /\ ~web.hydrating) ~>
        (~Locked(web) \/ (web.agent.task # t /\ web.escaped))
=============================================================================
