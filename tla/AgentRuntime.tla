---------------------------- MODULE AgentRuntime ----------------------------
(***************************************************************************)
(* One agent session of a video task: its prompts, its file, its lock.    *)
(*                                                                         *)
(* The runtime keeps a session in memory as an object that is replaced    *)
(* when the task has changed, and writes it to a file after every run.    *)
(* A call passes the session's lock to be authorized and again to do its  *)
(* work; a run, once started, goes on without it.  Browsers post a prompt *)
(* again when its answer is lost, and reconnect to a run.                  *)
(*                                                                         *)
(* What a prompt and an answer say is left out: a transcript is the       *)
(* sequence of the runs whose messages it holds.  All calls come from the *)
(* account and the task the session is bound to.  The events of a run     *)
(* reach its observers in one synchronous step and are left out.           *)
(***************************************************************************)
EXTENDS Naturals, Sequences, FiniteSets

CONSTANTS
    Calls,        \* the calls the server works at
    Requests,     \* prompts, by the identity their browser gives them
    Retained,     \* ended runs the journal keeps (20 in the code)
    MaxRevision,  \* bound: revisions of the task
    MaxCalls,     \* bound: calls
    MaxLost,      \* bound: answers lost, writes failed, servers stopped
    Nobody,       \* a browser awaits no call
    NoFile        \* the session has no file

ASSUME AgentAssumption ==
    /\ Retained \in Nat \ {0}
    /\ Nobody \notin Calls

VARIABLES
    revision,  \* the revision of the task in the workspace
    file,      \* the session file
    active,    \* the object of the session in memory, or 0
    objects,   \* the objects made so far
    runs,      \* the runs started so far
    journal,   \* the runs the runtime remembers
    expired,   \* the prompts whose runs were dropped from the journal
    tail,      \* the calls that hold or await the session's lock, in order
    calls,     \* the calls
    client,    \* the browser of each prompt
    sent,      \* how many calls were sent
    lost,      \* how much was lost
    crossed    \* history: a load was overtaken, or a creation was listed half way

memory == <<active, objects, journal, expired>>
agentVars == <<revision, file, memory, runs, tail, calls, client, sent, lost, crossed>>

-----------------------------------------------------------------------------
\* What the file holds, and what a write of it takes along when it begins
Transcript == [messages: Seq(Nat), context: Nat]

CopyOf(o) == [messages |-> objects[o].messages, context |-> objects[o].context]

Working(r) == runs[r].at \in {"prompting", "saving", "failing"}

NoCall == [kind |-> "none", request |-> Nobody, run |-> 0, context |-> 0,
           phase |-> "", at |-> "", object |-> 0, copy |-> NoFile]

Idle(k) == calls[k] = NoCall

IsAt(k, phase, at) == calls[k].phase = phase /\ calls[k].at = at

To(k, at) == calls' = [calls EXCEPT ![k].at = at]

Holds(k) == tail # <<>> /\ Head(tail) = k

\* Authorization holds the lock, and so does the work of these kinds
Locks(k) ==
    \/ calls[k].phase = "authorize"
    \/ calls[k].phase = "operate" /\ calls[k].kind \in {"prompt", "reset", "delete"}

Released(k) == IF Holds(k) THEN Tail(tail) ELSE tail

\* A call ends, and a browser that still waits for it goes on
Answer(k, at, r) ==
    /\ calls' = [calls EXCEPT ![k] = NoCall]
    /\ tail' = Released(k)
    /\ client' = [q \in Requests |->
           IF client[q].awaits = k THEN [at |-> at, run |-> r, awaits |-> Nobody]
           ELSE client[q]]

RefuseCall(k) == Answer(k, "failed", calls[k].run)

-----------------------------------------------------------------------------
(* Calls arrive, and read the context of the task before all else *)

Creating == \E k \in Calls : calls[k].kind = "create"

\* The identifier of the session is answered when it was written, or by a list
\* before; a list itself needs none.
Known == file # NoFile \/ (objects # <<>> /\ (Creating => crossed))

Arrive(k, kind, q, r) ==
    /\ Idle(k)
    /\ kind = "list" \/ Known
    /\ sent < MaxCalls
    /\ sent' = sent + 1
    /\ calls' = [calls EXCEPT ![k] =
           [NoCall EXCEPT !.kind = kind, !.request = q, !.run = r, !.context = revision,
                          !.phase = IF kind = "list" THEN "look" ELSE "authorize",
                          !.at = "seek"]]
    /\ tail' = IF kind = "list" THEN tail ELSE Append(tail, k)
    /\ UNCHANGED <<revision, file, memory, runs, lost, crossed>>

PostPrompt(q, k) ==
    /\ client[q].at \in {"new", "unsure"}
    /\ Arrive(k, "prompt", q, 0)
    /\ client' = [client EXCEPT ![q].at = "posted", ![q].awaits = k]

WatchRun(q, k) ==
    /\ client[q].at = "started"
    /\ client[q].awaits = Nobody
    /\ Arrive(k, "events", q, client[q].run)
    /\ client' = [client EXCEPT ![q].awaits = k]

CancelRun(q, k) ==
    /\ client[q].at = "started"
    /\ Arrive(k, "abort", q, client[q].run)
    /\ UNCHANGED client

AskFor(kind, k) ==
    /\ Arrive(k, kind, Nobody, 0)
    /\ UNCHANGED client

\* A connection breaks: the prompt is posted again, the run is watched again
LoseAnswer(q) ==
    /\ client[q].awaits # Nobody
    /\ lost < MaxLost
    /\ lost' = lost + 1
    /\ client' = [client EXCEPT ![q].awaits = Nobody,
                                ![q].at = IF @ = "posted" THEN "unsure" ELSE @]
    /\ UNCHANGED <<revision, file, memory, runs, tail, calls, sent, crossed>>

\* The session is made, and written before its identifier is answered
CreateSession(k) ==
    /\ Idle(k)
    /\ objects = <<>> /\ file = NoFile
    /\ objects' = <<[messages |-> <<>>, context |-> revision, run |-> 0]>>
    /\ active' = 1
    /\ calls' = [calls EXCEPT ![k] =
           [NoCall EXCEPT !.kind = "create", !.phase = "operate", !.at = "save",
                          !.copy = [messages |-> <<>>, context |-> revision]]]
    /\ UNCHANGED <<revision, file, runs, journal, expired, tail, client, sent, lost, crossed>>

-----------------------------------------------------------------------------
(* A call finds the session in memory, or loads it *)

MayGoOn(k) == Locks(k) => Holds(k)

Object(k) == IF calls[k].object # 0 THEN calls[k].object ELSE active

Found(k, phase) == IsAt(k, phase, "seek") /\ MayGoOn(k) /\ Object(k) # 0

\* The run a cancellation is for is remembered and can still be cancelled
Cancellable(k) ==
    calls[k].run \in journal /\ Working(calls[k].run) /\ ~runs[calls[k].run].cancelled

\* The session is needed: not for a removal, nor to observe a run
Needs(k) ==
    calls[k].phase = "operate" =>
        \/ calls[k].kind \in {"prompt", "reset", "get", "list"}
        \/ calls[k].kind = "abort" /\ Cancellable(k)

Load(k) ==
    /\ calls[k].at = "seek"
    /\ MayGoOn(k)
    /\ Object(k) = 0
    /\ Needs(k)
    /\ IF file = NoFile
       THEN RefuseCall(k)
       ELSE /\ calls' = [calls EXCEPT ![k].copy = file, ![k].at = "install"]
            /\ UNCHANGED <<tail, client>>
    /\ UNCHANGED <<revision, file, memory, runs, sent, lost, crossed>>

\* While the file was read, another call put an object in place, or the
\* session was written, or it is removed: nothing keeps loads apart
Overtaken(k) ==
    \/ active # 0
    \/ file # calls[k].copy
    \/ \E o \in Calls : calls[o].at = "remove"

\* The object takes the place of whatever is there by now
Install(k) ==
    /\ calls[k].at = "install"
    /\ crossed' = (crossed \/ Overtaken(k))
    /\ objects' = Append(objects, [messages |-> calls[k].copy.messages,
                                   context |-> calls[k].copy.context, run |-> 0])
    /\ active' = Len(objects')
    /\ calls' = [calls EXCEPT ![k].at = "seek", ![k].object = Len(objects')]
    /\ UNCHANGED <<revision, file, runs, journal, expired, tail, client, sent, lost>>

-----------------------------------------------------------------------------
(* Authorization, under the lock *)

Stale(k) == calls[k].context < objects[Object(k)].context

\* Mutant: a session at work is not compared with the task
ChangedAtRest(k) ==
    calls[k].context > objects[Object(k)].context /\ objects[Object(k)].run = 0

Changed(k) == calls[k].context > objects[Object(k)].context

\* Mutant: the session is free
NeverBusy(o) == FALSE

Busy(o) == objects[o].run # 0

\* Mutant: the new agent knows nothing
StartedAnew(o) == <<>>

\* What the new agent of a changed task knows of the session
TakenOver(o) == objects[o].messages

\* The call goes on, without the lock
Proceed(k) ==
    /\ calls' = [calls EXCEPT ![k].phase = "between", ![k].at = "", ![k].object = 0, ![k].copy = NoFile]
    /\ tail' = Released(k)
    /\ UNCHANGED client

Authorize(k) ==
    /\ Found(k, "authorize")
    /\ \/ ~Stale(k) /\ ~Changed(k) /\ Proceed(k)
       \/ Stale(k) /\ RefuseCall(k)
       \/ Changed(k) /\ Busy(Object(k)) /\ RefuseCall(k)
    /\ UNCHANGED <<revision, file, memory, runs, sent, lost, crossed>>

\* The task has changed and nothing runs: a new agent takes the messages over
Refresh(k) ==
    /\ Found(k, "authorize")
    /\ Changed(k)
    /\ ~Busy(Object(k))
    /\ objects' = Append(objects, [messages |-> TakenOver(Object(k)),
                                   context |-> calls[k].context, run |-> 0])
    /\ calls' = [calls EXCEPT ![k].at = "refresh", ![k].object = Len(objects'),
                     ![k].copy = [messages |-> TakenOver(Object(k)),
                                  context |-> calls[k].context]]
    /\ UNCHANGED <<revision, file, active, runs, journal, expired, tail, client, sent, lost, crossed>>

InstallRefreshed(k) ==
    /\ calls[k].at = "refresh"
    /\ file' = calls[k].copy
    /\ active' = calls[k].object
    /\ Proceed(k)
    /\ UNCHANGED <<revision, objects, runs, journal, expired, sent, lost, crossed>>

\* The request body is read; then some calls take the lock again.  A list
\* looks for the session it has authorized once more, without the lock.
Continue(k) ==
    /\ calls[k].phase = "between"
    /\ calls' = [calls EXCEPT ![k].phase = "operate", ![k].at = "seek"]
    /\ tail' = IF calls[k].kind \in {"prompt", "reset", "delete"}
               THEN Append(tail, k) ELSE tail
    /\ UNCHANGED <<revision, file, memory, runs, client, sent, lost, crossed>>

\* A list looks without the lock, and authorizes the sessions that are idle,
\* also one that is still being written for the first time
ListSession(k) ==
    /\ Found(k, "look")
    /\ crossed' = (crossed \/ Creating)
    /\ IF ~Busy(Object(k))
       THEN /\ calls' = [calls EXCEPT ![k].phase = "authorize", ![k].object = 0]
            /\ tail' = Append(tail, k)
            /\ UNCHANGED client
       ELSE Answer(k, "done", 0)
    /\ UNCHANGED <<revision, file, memory, runs, sent, lost>>

\* A summary or the transcript is read
GetSession(k) ==
    /\ Found(k, "operate")
    /\ calls[k].kind \in {"get", "list"}
    /\ Answer(k, "done", 0)
    /\ UNCHANGED <<revision, file, memory, runs, sent, lost, crossed>>

-----------------------------------------------------------------------------
(* Runs *)

Remembered(q) == {r \in journal : runs[r].request = q}

NewRun(q, o) ==
    [request |-> q, object |-> o, at |-> "prompting", copy |-> NoFile, cancelled |-> FALSE,
     result |-> "none", cleared |-> FALSE, forgotten |-> FALSE]

\* A prompt posted again gets its run
ReplayRun(k) ==
    /\ Found(k, "operate")
    /\ calls[k].kind = "prompt"
    /\ calls[k].request \notin expired
    /\ \E r \in Remembered(calls[k].request) : Answer(k, "started", r)
    /\ UNCHANGED <<revision, file, memory, runs, sent, lost, crossed>>

RefusePrompt(k) ==
    /\ Found(k, "operate")
    /\ calls[k].kind = "prompt"
    /\ \/ calls[k].request \in expired
       \/ Remembered(calls[k].request) = {} /\ Busy(Object(k))
    /\ RefuseCall(k)
    /\ UNCHANGED <<revision, file, memory, runs, sent, lost, crossed>>

StartPromptRun(k) ==
    LET q == calls[k].request
        r == Len(runs) + 1
    IN
        /\ Found(k, "operate")
        /\ calls[k].kind = "prompt"
        /\ q \notin expired /\ Remembered(q) = {}
        /\ ~Busy(Object(k))
        /\ runs' = Append(runs, NewRun(q, Object(k)))
        /\ objects' = [objects EXCEPT ![Object(k)].run = r]
        /\ journal' = journal \cup {r}
        /\ Answer(k, "started", r)
        /\ UNCHANGED <<revision, file, active, expired, sent, lost, crossed>>

\* The agent's answer, or what an abort left of it, is in its messages
AgentAnswers(r) ==
    LET o == runs[r].object IN
        /\ runs[r].at = "prompting"
        /\ objects' = [objects EXCEPT ![o].messages = Append(@, r)]
        /\ runs' = [runs EXCEPT ![r].at = "saving",
                        ![r].copy = [messages |-> Append(objects[o].messages, r),
                                     context |-> objects[o].context]]
        /\ UNCHANGED <<revision, file, active, journal, expired, tail, calls, client, sent, lost, crossed>>

\* The prompt throws, or the file cannot be written
RunFails(r) ==
    /\ runs[r].at \in {"prompting", "saving"}
    /\ lost < MaxLost
    /\ lost' = lost + 1
    /\ runs' = [runs EXCEPT ![r].at = "failing", ![r].copy = CopyOf(runs[r].object)]
    /\ UNCHANGED <<revision, file, memory, tail, calls, client, sent, crossed>>

\* The journal drops the runs that ended before the last ones it retains
Dropped(r) ==
    LET ended == {o \in journal : o = r \/ ~Working(o)} IN
        {o \in ended : Cardinality({p \in ended : p > o}) >= Retained}

\* The prompts that will not run again, though their runs were dropped
Expired(set) == {runs[o].request : o \in set}

EndRun(r, result) ==
    /\ runs' = [runs EXCEPT ![r].at = "ended", ![r].result = result, ![r].copy = NoFile]
    /\ objects' = [objects EXCEPT ![runs[r].object].run = IF @ = r THEN 0 ELSE @]
    /\ journal' = journal \ Dropped(r)
    /\ expired' = expired \cup Expired(Dropped(r))
    /\ UNCHANGED <<revision, active, tail, calls, client, sent, lost, crossed>>

CompleteRun(r) ==
    /\ runs[r].at = "saving"
    /\ file' = runs[r].copy
    /\ EndRun(r, IF runs[r].cancelled THEN "aborted" ELSE "completed")

\* A failure is written as well, if it can be
FailRun(r) ==
    /\ runs[r].at = "failing"
    /\ file' \in {file, runs[r].copy}
    /\ EndRun(r, "failed")

\* An observer gets the events so far and those to come, and the outcome
ObserveRun(k) ==
    /\ IsAt(k, "operate", "seek")
    /\ calls[k].kind = "events"
    /\ IF calls[k].run \in journal
       THEN To(k, "stream") /\ UNCHANGED <<tail, client>>
       ELSE RefuseCall(k)
    /\ UNCHANGED <<revision, file, memory, runs, sent, lost, crossed>>

Over(k) == ~Working(calls[k].run)

SendOutcome(k) ==
    /\ calls[k].at = "stream"
    /\ Over(k)
    /\ Answer(k, "done", calls[k].run)
    /\ UNCHANGED <<revision, file, memory, runs, sent, lost, crossed>>

-----------------------------------------------------------------------------
(* Cancellation, reset and removal *)

LookUpRun(k) ==
    /\ IsAt(k, "operate", "seek")
    /\ calls[k].kind = "abort"
    /\ \/ ~Cancellable(k) /\ Answer(k, "done", 0)
       \/ /\ Cancellable(k) /\ Object(k) # 0
          /\ calls' = [calls EXCEPT ![k].at = "abort", ![k].object = Object(k)]
          /\ UNCHANGED <<tail, client>>
    /\ UNCHANGED <<revision, file, memory, runs, sent, lost, crossed>>

\* The session is looked up in between, and the run may have ended
AbortRun(k) ==
    LET r == calls[k].run IN
        /\ calls[k].at = "abort"
        /\ \/ /\ objects[calls[k].object].run # r
              /\ RefuseCall(k)
              /\ UNCHANGED runs
           \/ /\ objects[calls[k].object].run = r
              /\ runs' = [runs EXCEPT ![r].cancelled = TRUE]
              /\ IF calls[k].kind = "abort"
                 THEN Answer(k, "done", r)
                 ELSE To(k, "wait") /\ UNCHANGED <<tail, client>>
        /\ UNCHANGED <<revision, file, memory, sent, lost, crossed>>

\* A reset, or a removal, of a session that is at work cancels and waits
Interrupt(k) ==
    LET o == Object(k) IN
        /\ IsAt(k, "operate", "seek") /\ MayGoOn(k)
        /\ calls[k].kind \in {"reset", "delete"}
        /\ o # 0
        /\ Busy(o)
        /\ \/ /\ objects[o].run \notin journal
              /\ RefuseCall(k)
           \/ /\ objects[o].run \in journal
              /\ calls' = [calls EXCEPT ![k].object = o, ![k].run = objects[o].run,
                     ![k].at = IF runs[objects[o].run].cancelled THEN "wait" ELSE "abort"]
              /\ UNCHANGED <<tail, client>>
        /\ UNCHANGED <<revision, file, memory, runs, sent, lost, crossed>>

\* Mutant: whatever runs
AtOnce(k) == IsAt(k, "operate", "seek") /\ MayGoOn(k)

\* Nothing runs in the session, or no longer
AtRest(k) ==
    \/ calls[k].at = "wait" /\ ~Working(calls[k].run)
    \/ /\ IsAt(k, "operate", "seek") /\ MayGoOn(k)
       /\ Object(k) # 0 => ~Busy(Object(k))

Forget == [r \in DOMAIN runs |-> [runs[r] EXCEPT !.cleared = TRUE]]

ResetSession(k) ==
    /\ calls[k].kind = "reset" /\ AtRest(k) /\ Object(k) # 0
    /\ objects' = [objects EXCEPT ![Object(k)].messages = <<>>]
    /\ calls' = [calls EXCEPT ![k].at = "save",
           ![k].copy = [messages |-> <<>>, context |-> objects[Object(k)].context]]
    /\ journal' = {} /\ expired' = {} /\ runs' = Forget
    /\ UNCHANGED <<revision, file, active, tail, client, sent, lost, crossed>>

DeleteSession(k) ==
    /\ calls[k].kind = "delete" /\ AtRest(k)
    /\ active' = 0
    /\ To(k, "remove")
    /\ journal' = {} /\ expired' = {} /\ runs' = Forget
    /\ UNCHANGED <<revision, file, objects, tail, client, sent, lost, crossed>>

Save(k) ==
    /\ calls[k].at = "save"
    /\ file' = calls[k].copy
    /\ Answer(k, "done", 0)
    /\ UNCHANGED <<revision, memory, runs, sent, lost, crossed>>

Remove(k) ==
    /\ calls[k].at = "remove"
    /\ file' = NoFile
    /\ Answer(k, "done", 0)
    /\ UNCHANGED <<revision, memory, runs, sent, lost, crossed>>

FailWrite(k) ==
    /\ calls[k].at \in {"save", "refresh", "remove"}
    /\ lost < MaxLost
    /\ lost' = lost + 1
    /\ RefuseCall(k)
    /\ UNCHANGED <<revision, file, memory, runs, sent, crossed>>

-----------------------------------------------------------------------------
TaskChanges ==
    /\ revision < MaxRevision
    /\ revision' = revision + 1
    /\ UNCHANGED <<file, memory, runs, tail, calls, client, sent, lost, crossed>>

\* The server stops: what is not in the file is gone
Restart ==
    /\ lost < MaxLost
    /\ lost' = lost + 1
    /\ active' = 0 /\ journal' = {} /\ expired' = {} /\ tail' = <<>>
    /\ calls' = [k \in Calls |-> NoCall]
    /\ runs' = [r \in DOMAIN runs |->
           [runs[r] EXCEPT !.forgotten = TRUE, !.copy = NoFile,
                           !.at = IF Working(r) THEN "gone" ELSE @]]
    /\ client' = [q \in Requests |->
           [client[q] EXCEPT !.awaits = Nobody, !.at = IF @ = "posted" THEN "unsure" ELSE @]]
    /\ UNCHANGED <<revision, file, objects, sent, crossed>>

AgentInit ==
    /\ revision = 1
    /\ file \in {NoFile, [messages |-> <<>>, context |-> 1]}
    /\ active = 0 /\ objects = <<>> /\ runs = <<>>
    /\ journal = {} /\ expired = {} /\ tail = <<>>
    /\ calls = [k \in Calls |-> NoCall]
    /\ client = [q \in Requests |-> [at |-> "new", run |-> 0, awaits |-> Nobody]]
    /\ sent = 0 /\ lost = 0 /\ crossed = FALSE

CallStep(k) ==
    \/ Load(k) \/ Install(k) \/ Authorize(k) \/ Refresh(k) \/ InstallRefreshed(k)
    \/ Continue(k) \/ ListSession(k) \/ GetSession(k)
    \/ ReplayRun(k) \/ RefusePrompt(k) \/ StartPromptRun(k)
    \/ ObserveRun(k) \/ SendOutcome(k) \/ LookUpRun(k) \/ AbortRun(k) \/ Interrupt(k)
    \/ ResetSession(k) \/ DeleteSession(k) \/ Save(k) \/ Remove(k)

\* Mutant: a run goes on when nobody holds the session's lock or awaits it
RunStepUnderLock(r) == tail = <<>> /\ (AgentAnswers(r) \/ CompleteRun(r) \/ FailRun(r))

RunStep(r) == AgentAnswers(r) \/ CompleteRun(r) \/ FailRun(r)

Browse ==
    \/ \E q \in Requests, k \in Calls : PostPrompt(q, k) \/ WatchRun(q, k) \/ CancelRun(q, k)
    \/ \E kind \in {"list", "get", "reset", "delete"}, k \in Calls : AskFor(kind, k)
    \/ \E k \in Calls : CreateSession(k)

AgentNext ==
    \/ Browse
    \/ \E q \in Requests : LoseAnswer(q)
    \/ \E k \in Calls : CallStep(k) \/ FailWrite(k)
    \/ \E r \in DOMAIN runs : RunStep(r) \/ RunFails(r)
    \/ TaskChanges
    \/ Restart

AgentSpec == AgentInit /\ [][AgentNext]_agentVars

\* The server goes on with its calls, and the model answers or gives up
FairSpec ==
    /\ AgentSpec
    /\ \A k \in Calls : WF_agentVars(CallStep(k))
    /\ WF_agentVars(\E r \in DOMAIN runs : RunStep(r))

-----------------------------------------------------------------------------
(* Properties *)

AgentTypeOK ==
    /\ file \in {NoFile} \cup Transcript
    /\ active \in 0 .. Len(objects)
    /\ \A o \in DOMAIN objects :
          CopyOf(o) \in Transcript /\ objects[o].run \in 0 .. Len(runs)
    /\ \A r \in DOMAIN runs : runs[r].object \in DOMAIN objects
    /\ journal \subseteq DOMAIN runs
    /\ expired \subseteq Requests
    /\ tail \in Seq(Calls)
    /\ \A i, j \in DOMAIN tail : ~Idle(tail[i]) /\ (tail[i] = tail[j] => i = j)
    /\ \A k \in Calls : calls[k].copy \in {NoFile} \cup Transcript

\* What the documentation says and the code does not keep: within one process,
\* two prompts of one session are never at work together.
RefusesConcurrentPrompts ==
    \A r, o \in DOMAIN runs : r < o => ~(Working(r) /\ Working(o))

\* A session answers one prompt at a time, as long as no load was overtaken and
\* no creation listed half way; and however often a prompt is posted, it is
\* answered once, whatever was overtaken, until the session is reset or the
\* server stops, also when its run was dropped from the journal.
OneRunAtATime ==
    /\ ~crossed => RefusesConcurrentPrompts
    /\ \A r, o \in DOMAIN runs :
          r < o /\ runs[r].request = runs[o].request =>
              runs[r].cleared \/ runs[r].forgotten

Contains(messages, r) == \E i \in DOMAIN messages : messages[i] = r

\* What a run has answered stays in the session and in its file, whoever
\* loads, refreshes or writes the session afterwards, until it is reset; only
\* a load that was overtaken, or a creation listed half way, may undo it.
\* (And every variable has a value of its kind.)
AnswersAreKept ==
    AgentTypeOK /\ \A r \in DOMAIN runs :
        ~crossed /\ runs[r].result \in {"completed", "aborted"} /\ ~runs[r].cleared =>
            /\ active # 0 => Contains(objects[active].messages, r)
            /\ file # NoFile => Contains(file.messages, r)

\* A run works with a task context that is not older than the one its caller
\* was authorized with, as long as no load was overtaken.
RunsOnCurrentContext ==
    [][Len(runs') > Len(runs) /\ ~crossed =>
        /\ tail # <<>>
        /\ objects[runs'[Len(runs')].object].context >= calls[Head(tail)].context]_agentVars

\* A session that was removed does not come back, unless a load that read it
\* before is overtaken by the removal, or a list had found it half made.
RemovedStaysRemoved ==
    [][objects # <<>> /\ file = NoFile /\ active = 0 /\ ~crossed' =>
          file' = NoFile /\ active' = 0]_agentVars

\* Every call is answered: nobody waits for ever for the lock, or for a run
\* that waits for the lock.
CallsAreAnswered == \A k \in Calls : ~Idle(k) ~> Idle(k)
=============================================================================
