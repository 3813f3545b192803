CONSTANTS
    m1 = m1
    m2 = m2
    m3 = m3
    a1 = a1
    a2 = a2
    Migrators = {m1, m2, m3}
    Apis = {a1}
    None = None
    MaxEdits = 1
    MaxCrashes = 1
    MaxFaults = 1
SPECIFICATION Spec
SYMMETRY Processes
CONSTRAINTS
    TwoAtATime
    TwoAccidents
    UntilUsurped
CHECK_DEADLOCK FALSE
INVARIANTS
    Exclusive
    OriginalsKept
PROPERTIES
    OutcomeIsWhole
    BusinessKept
