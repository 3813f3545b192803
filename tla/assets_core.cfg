CONSTANTS
    v1 = v1
    v2 = v2
    p1 = p1
    f1 = f1
    k1 = k1
    k2 = k2
    t1 = t1
    t2 = t2
    Vehicles = {v1, v2}
    Persons = {p1}
    Scripts <- TwoScripts
    Tasks = {t1, t2}
    Files = {f1}
    Calls = {k1, k2}
    MaxEvents = 3
    MaxChosen = 1
    None = None
SPECIFICATION MCSpec
CHECK_DEADLOCK FALSE
SYMMETRY Symmetry
CONSTRAINTS
    RanksPacked
    OneLoads
    SomethingGoesOn
ACTION_CONSTRAINTS
    LoadsCount
INVARIANTS
    PoolIsSound
    ConfirmedAsShown
    ReplayIsRecognized
