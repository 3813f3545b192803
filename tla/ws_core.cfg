CONSTANTS
    m1 = m1
    m2 = m2
    c1 = c1
    k1 = k1
    k2 = k2
    n1 = n1
    n2 = n2
    x = x
    y = y
    Admins = {m1, m2}
    Creators = {c1}
    BrandNames = {n1, n2}
    VehicleKeys = {x, y}
    VehicleIds <- Vehicles
    Seeds <- Tenants
    Postgres = TRUE
    MaxBrands = 2
    MaxVersions = 2
    MaxGrants = 6
    MaxChanges = 2
    NoSwitch = NoSwitch
    NoRequest = NoRequest
    Calls = {k1, k2}
    BatchNames = {"t1"}
    Forms = {"f1", "f2"}
    WizardCost = 1
    MaxLost = 1
    Nobody = Nobody
    Unread = Unread
    Unnamed = Unnamed
SPECIFICATION Spec
CHECK_DEADLOCK FALSE
INVARIANTS
    AdministrationIsValid
    OneProjectAsShown
PROPERTIES
    NoChangeIsLost
    CreatedFromCurrent
