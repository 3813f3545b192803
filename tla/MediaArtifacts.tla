--------------------------- MODULE MediaArtifacts ---------------------------
(***************************************************************************)
(* The media artifacts of video tasks: MediaArtifactRuntime over a private *)
(* bucket (S3MediaObjectStorage) and the table media_artifacts (Postgres-  *)
(* MediaArtifactStore).  A producer puts a file into the bucket and        *)
(* registers it; a browser asks for a signed address.  A call is authorized *)
(* in one transaction, asks the bucket outside of any, and registers in    *)
(* another, which takes four advisory locks one after the other; every     *)
(* statement of it sees what is committed by then.                         *)
(*                                                                         *)
(* The bucket may keep the versions of an object or not: the code takes    *)
(* both, a head has a version or none.  The program never writes an object *)
(* twice (If-None-Match); somebody else may overwrite or delete it, and    *)
(* without versions that is what is served then.  No producer is in the    *)
(* repository: one may register any candidate for an object.  The key of   *)
(* an object is made of the task and the id, so a candidate whose key is   *)
(* another's is refused and not modelled.                                  *)
(***************************************************************************)
EXTENDS Integers, Sequences

CONSTANTS
    Accounts,    \* the accounts with the role creator
    Tasks,       \* the video tasks of a project
    Ids,         \* the artifact ids that are proposed
    Stages,      \* video_preview and delivery; a stage has one role
    Requests,    \* the request ids
    Contents,    \* what a head compares: size, media type and checksum
    None,
    Calls,       \* names of the calls that are made
    MaxWrites    \* bound on what is written to the bucket

ASSUME MediaAssumption ==
    /\ None \notin Accounts \cup Contents \cup Nat
    /\ MaxWrites \in Nat

VARIABLES
    versioning, \* whether the bucket keeps versions
    bucket,   \* what was written to each object, the newest last; None: deleted
    foreign,  \* the objects somebody else has written to
    rows,     \* media_artifacts
    owner,    \* the owner of each task
    granted,  \* the accounts with access to the project
    calls,    \* the calls, and what they were answered
    writes    \* how often the bucket was written

storage == <<versioning, bucket, foreign, writes>>
vars == <<storage, rows, owner, granted, calls>>

----------------------------------------------------------------------------
\* What a producer registers; the version of the object is optional.
Candidates ==
    [task : Tasks, id : Ids, stage : Stages, content : Contents,
     objectVersion : (1 .. MaxWrites) \cup {None}]

\* A row: the candidate, the version it was given and its creation.
Rows ==
    [media : Candidates, version : Nat \ {0}, actor : Accounts,
     request : Requests]

Unused ==
    [kind |-> "unused", step |-> "ended", actor |-> None, media |-> None,
     request |-> None, locks |-> 0, number |-> 0, answer |-> "none",
     reference |-> None]

\* The object of a task and an id (mediaArtifactObjectKey).
Keys == Tasks \X Ids
Key(media) == <<media.task, media.id>>

\* headObject: the newest version, or OBJECT_NOT_FOUND.
Newest(k) == bucket[k][Len(bucket[k])]
Stored(k) == bucket[k] # <<>> /\ Newest(k) # None
HeadVersion(k) == IF versioning THEN Len(bucket[k]) ELSE None

\* Mutant: a head is compared without the version of the object.
NewestMatches(media) ==
    /\ Stored(Key(media))
    /\ Newest(Key(media)) = media.content

\* headMatchesArtifact
HeadMatches(media) ==
    /\ Stored(Key(media))
    /\ HeadVersion(Key(media)) = media.objectVersion
    /\ Newest(Key(media)) = media.content

\* load, and decodeRow, which finds the task and the id it asked for.
Loaded(task, id) == {r \in rows : r.media.task = task /\ r.media.id = id}

\* mediaArtifactContentReference: the hash is of the whole public record.
Reference(row) == row

\* verifyStageArtifact
Verifies(reference) ==
    \E r \in Loaded(reference.media.task, reference.media.id) :
        /\ r.media.stage = reference.media.stage
        /\ Reference(r) = reference

\* #authorizedTask: the grants are of this moment, whatever the session says.
Authorized(a) == a \in granted

----------------------------------------------------------------------------
\* Mutant: no lock for the versions of a stage.
KeysWithoutVersion(c) ==
    <<<<"request", c.media.task, c.actor, c.request>>,
      <<"id", c.media.id>>,
      <<"object", Key(c.media)>>,
      <<"creator", c.media.id>>>>

\* The advisory locks of a registration, in the order it takes them.
LockKeys(c) ==
    <<<<"request", c.media.task, c.actor, c.request>>,
      <<"version", c.media.task, c.media.stage>>,
      <<"id", c.media.id>>,
      <<"object", Key(c.media)>>>>

Holds(c) == {LockKeys(c)[i] : i \in 1 .. c.locks}

LockIsFree(n, key) == \A m \in Calls \ {n} : key \notin Holds(calls[m])

\* The locks go with the transaction.
Ended(c, answer) ==
    [c EXCEPT !.step = "ended", !.locks = 0, !.number = 0, !.answer = answer]

\* A failure tells nothing; the name of the call is used up.
Fails(n, answer) ==
    calls' = [calls EXCEPT ![n] =
        [Ended(@, answer) EXCEPT !.kind = "failed", !.actor = None,
                                 !.media = None, !.request = None]]

\* Mutant: the locks are those of the database session.
TellsHolding(n, answer, row) ==
    calls' = [calls EXCEPT ![n] =
        [@ EXCEPT !.step = "ended", !.number = 0, !.answer = answer,
                  !.reference = Reference(row)]]

Tells(n, answer, row) ==
    calls' = [calls EXCEPT ![n] =
        [Ended(@, answer) EXCEPT !.reference = Reference(row)]]

Goes(n, step) == calls' = [calls EXCEPT ![n].step = step]

\* Mutant: the request of whoever owned the task.
AnybodysRequest(c) ==
    {r \in rows : r.media.task = c.media.task /\ r.request = c.request}

Replays(c) ==
    {r \in rows : /\ r.media.task = c.media.task
                  /\ r.actor = c.actor /\ r.request = c.request}

VersionsOf(task, stage) ==
    {r.version : r \in {s \in rows : s.media.task = task
                                     /\ s.media.stage = stage}}

\* COALESCE(MAX(artifact_version), 0) + 1
NextVersion(task, stage) ==
    LET versions == VersionsOf(task, stage)
    IN  IF versions = {} THEN 1
        ELSE 1 + CHOOSE v \in versions : \A w \in versions : w <= v

\* The row of a registration that has its number.
RowOf(c) ==
    [media |-> c.media, version |-> c.number, actor |-> c.actor,
     request |-> c.request]

\* The unique constraints of the table.
Collides(row) ==
    \E r \in rows :
        \/ r.media.id = row.media.id
        \/ Key(r.media) = Key(row.media)
        \/ /\ r.media.task = row.media.task
           /\ \/ r.media.stage = row.media.stage /\ r.version = row.version
              \/ r.actor = row.actor /\ r.request = row.request

----------------------------------------------------------------------------
TypeOK ==
    /\ versioning \in BOOLEAN
    /\ bucket \in [Keys -> Seq(Contents \cup {None})]
    /\ foreign \subseteq Keys
    /\ rows \subseteq Rows
    /\ owner \in [Tasks -> Accounts]
    /\ granted \subseteq Accounts
    /\ writes \in 0 .. MaxWrites
    /\ \A n \in Calls : calls[n].locks \in 0 .. 4 /\ calls[n].number \in Nat

Init ==
    /\ versioning \in BOOLEAN
    /\ bucket = [k \in Keys |-> <<>>]
    /\ foreign = {}
    /\ rows = {}
    /\ owner \in [Tasks -> Accounts]
    /\ granted = Accounts
    /\ writes = 0
    /\ calls = [n \in Calls |-> Unused]

Written(k, content) ==
    /\ writes < MaxWrites
    /\ writes' = writes + 1
    /\ bucket' = [bucket EXCEPT ![k] = Append(@, content)]
    /\ UNCHANGED <<versioning, rows, owner, granted, calls>>

\* putObject: an object that exists is not written again, so that a producer
\* whose answer was lost finds it stored when it puts it once more.
PutObject(k, content) ==
    /\ ~Stored(k)
    /\ Written(k, content)
    /\ UNCHANGED foreign

\* Somebody else overwrites or deletes an object.
Overwritten(k, content) ==
    /\ Stored(k)
    /\ Written(k, content)
    /\ foreign' = foreign \cup {k}

\* The task is taken over, and an account loses its access to the project.
TakenOver(t, a) ==
    /\ owner' = [owner EXCEPT ![t] = a]
    /\ UNCHANGED <<storage, rows, granted, calls>>

Revoked(a) ==
    /\ granted' = granted \ {a}
    /\ UNCHANGED <<storage, rows, owner, calls>>

----------------------------------------------------------------------------
\* registerReadyArtifact.  A retry is another call with the same request.

\* Only the owner of the task registers; the call is authorized at once, and
\* what follows does not look at the owner again.  A version that a candidate
\* names is one the object has, or its producer could not have been told it.
Register(n, a, media, request) ==
    /\ calls[n].kind = "unused"
    /\ media.objectVersion # None => media.objectVersion <= Len(bucket[Key(media)])
    /\ Authorized(a) /\ owner[media.task] = a
    /\ calls' = [calls EXCEPT ![n] =
            [Unused EXCEPT !.kind = "register", !.step = "authorized",
                           !.actor = a, !.media = media,
                           !.request = request]]
    /\ UNCHANGED <<storage, rows, owner, granted>>

Registering(n, step) == calls[n].kind = "register" /\ calls[n].step = step

\* The head of the object; one that is not there or another is not ready.
Verify(n) ==
    /\ Registering(n, "authorized")
    /\ IF HeadMatches(calls[n].media) THEN Goes(n, "locking")
       ELSE Fails(n, "not ready")
    /\ UNCHANGED <<storage, rows, owner, granted>>

\* The first lock, and what the same account's request made before: the same
\* answer if the candidate is the same (payloadHash), else a conflict.
LockRequest(n) ==
    LET c == calls[n]
    IN  /\ Registering(n, "locking") /\ c.locks = 0
        /\ LockIsFree(n, LockKeys(c)[1])
        /\ \/ /\ Replays(c) = {}
              /\ calls' = [calls EXCEPT ![n].locks = 1]
           \/ \E r \in Replays(c) :
                IF r.media = c.media THEN Tells(n, "replayed", r)
                ELSE Fails(n, "conflict")
        /\ UNCHANGED <<storage, rows, owner, granted>>

\* The other locks, one statement each.
Lock(n) ==
    LET c == calls[n]
    IN  /\ Registering(n, "locking") /\ c.locks \in 1 .. 3
        /\ LockIsFree(n, LockKeys(c)[c.locks + 1])
        /\ calls' = [calls EXCEPT ![n].locks = @ + 1,
                        ![n].step = IF c.locks = 3 THEN "locked" ELSE @]
        /\ UNCHANGED <<storage, rows, owner, granted>>

\* The artifact or its object is registered already.
FindConflicts(n) ==
    LET c == calls[n]
    IN  /\ Registering(n, "locked")
        /\ IF \E r \in rows : \/ r.media.id = c.media.id
                              \/ Key(r.media) = Key(c.media)
           THEN Fails(n, "conflict")
           ELSE Goes(n, "checked")
        /\ UNCHANGED <<storage, rows, owner, granted>>

AllocateVersion(n) ==
    LET m == calls[n].media
    IN  /\ Registering(n, "checked")
        /\ calls' = [calls EXCEPT ![n].step = "numbered",
                        ![n].number = NextVersion(m.task, m.stage)]
        /\ UNCHANGED <<storage, rows, owner, granted>>

\* The insert and the commit.  A row the table refuses is an error: the
\* database has wrapped it when createWithResult looks for its code, 23505,
\* so that it is not told as the conflict it is.  The commit may be there
\* although its answer is lost.
Insert(n) ==
    LET row == RowOf(calls[n])
    IN  /\ Registering(n, "numbered")
        /\ IF Collides(row)
           THEN Fails(n, "collision") /\ UNCHANGED rows
           ELSE /\ rows' = rows \cup {row}
                /\ Tells(n, "created", row) \/ Fails(n, "none")
        /\ UNCHANGED <<storage, owner, granted>>

----------------------------------------------------------------------------
\* createAccess: authorized, the row loaded, the head compared with it, and
\* an address signed for the version of the object the row names, if any.

CreateAccess(n, a, row) ==
    /\ calls[n].kind = "unused"
    /\ Authorized(a)
    /\ row \in Loaded(row.media.task, row.media.id)
    /\ calls' = [calls EXCEPT ![n] =
            [Unused EXCEPT !.kind = "access", !.step = "loaded",
                           !.actor = a, !.media = row.media]]
    /\ UNCHANGED <<storage, rows, owner, granted>>

CompareHead(n) ==
    /\ calls[n].kind = "access" /\ calls[n].step = "loaded"
    /\ IF HeadMatches(calls[n].media) THEN Goes(n, "compared")
       ELSE Fails(n, "not ready")
    /\ UNCHANGED <<storage, rows, owner, granted>>

\* createReadAccess asks the bucket nothing.
SignAddress(n) ==
    /\ calls[n].kind = "access" /\ calls[n].step = "compared"
    /\ calls' = [calls EXCEPT ![n] = Ended(@, "signed")]
    /\ UNCHANGED <<storage, rows, owner, granted>>

----------------------------------------------------------------------------
\* A statement fails, the bucket is unavailable or the server dies: the
\* transaction is rolled back.
Broken(n) ==
    /\ calls[n].step # "ended"
    /\ Fails(n, "none")
    /\ UNCHANGED <<storage, rows, owner, granted>>

CallStep(n) ==
    \/ Verify(n) \/ LockRequest(n) \/ Lock(n) \/ FindConflicts(n)
    \/ AllocateVersion(n) \/ Insert(n)
    \/ CompareHead(n) \/ SignAddress(n)

Starts(n) ==
    \/ \E a \in Accounts, media \in Candidates, request \in Requests :
        Register(n, a, media, request)
    \/ \E a \in Accounts, row \in rows : CreateAccess(n, a, row)

Next ==
    \/ \E n \in Calls : Starts(n) \/ CallStep(n) \/ Broken(n)
    \/ \E k \in Keys, c \in Contents : PutObject(k, c)
    \/ \E k \in Keys, c \in Contents \cup {None} : Overwritten(k, c)
    \/ \E t \in Tasks, a \in Accounts : TakenOver(t, a)
    \/ \E a \in Accounts : Revoked(a)

Spec == Init /\ [][Next]_vars

----------------------------------------------------------------------------
\* The versions of a stage are 1, 2, ... without a gap, an id, an object and
\* a request of an account have one row, and it is the locks that see to it:
\* the table never has to refuse an insert (createWithResult).
VersionsAreDense ==
    /\ \A t \in Tasks, s \in Stages :
        \E n \in {0} \cup VersionsOf(t, s) : VersionsOf(t, s) = 1 .. n
    /\ \A r \in rows, q \in rows : r # q =>
        /\ r.media.id # q.media.id
        /\ r.media.task = q.media.task =>
            /\ r.media.stage = q.media.stage => r.version # q.version
            /\ <<r.actor, r.request>> # <<q.actor, q.request>>
    /\ \A n \in Calls : calls[n].answer # "collision"

Registered(n) == calls[n].answer \in {"created", "replayed"}

\* Whoever sends a request again, while it runs or after its answer was lost,
\* is told the one artifact it made, once as new; and a reference that was
\* told is verified for its stage ever after (registerReadyArtifact,
\* verifyStageArtifact).
AnswersAgree ==
    /\ TypeOK
    /\ \A m \in Calls, n \in Calls :
        /\ m # n /\ Registered(m) /\ Registered(n)
        /\ calls[m].media.task = calls[n].media.task
        /\ calls[m].actor = calls[n].actor
        /\ calls[m].request = calls[n].request
        => /\ calls[m].reference = calls[n].reference
           /\ "replayed" \in {calls[m].answer, calls[n].answer}
    /\ \A n \in Calls : Registered(n) => Verifies(calls[n].reference)

\* What an address that was signed for a candidate serves
Served(media) ==
    IF media.objectVersion = None THEN Newest(Key(media))
    ELSE bucket[Key(media)][media.objectVersion]

\* A signed address serves the content that was registered: with the version
\* of the object even when that is overwritten or deleted between the head and
\* the use of it, without it unless somebody else writes to the object.
ServedAsRegistered ==
    \A n \in Calls :
        calls[n].answer = "signed" =>
            LET media == calls[n].media
            IN  \/ Served(media) = media.content
                \/ media.objectVersion = None /\ Key(media) \in foreign

\* The locks of registrations never wait for each other in a circle, nor for
\* a call that has ended: as long as a call has not, one can go on.
Waits(n) ==
    /\ calls[n].step = "locking"
    /\ ~LockIsFree(n, LockKeys(calls[n])[calls[n].locks + 1])

SomeCallGoesOn ==
    (\E n \in Calls : calls[n].step # "ended") =>
        \E n \in Calls : calls[n].step # "ended" /\ ~Waits(n)
=============================================================================
