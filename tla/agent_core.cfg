CONSTANTS
    k1 = k1
    k2 = k2
    q1 = q1
    q2 = q2
    Calls = {k1, k2}
    Requests = {q1, q2}
    Retained = 1
    MaxRevision = 2
    MaxCalls = 3
    MaxLost = 1
    Nobody = Nobody
    NoFile = NoFile
SPECIFICATION FairSpec
ACTION_CONSTRAINT FirstFirst
CHECK_DEADLOCK FALSE
INVARIANTS
    OneRunAtATime
    AnswersAreKept
PROPERTIES
    RunsOnCurrentContext
    RemovedStaysRemoved
    CallsAreAnswered
