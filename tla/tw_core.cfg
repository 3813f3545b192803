CONSTANTS
    u1 = u1
    u2 = u2
    Accounts = {u1, u2}
    MaxRevision = 13
    MaxPool = 2
    MaxTransfers = 1
    NoCommand = NoCommand
SPECIFICATION Spec
SYMMETRY Colleagues
CHECK_DEADLOCK FALSE
INVARIANTS
    ValidRestsOnSelected
    WorkIsSelected
    ConfirmedAsSeen
    ContentIsFresh
