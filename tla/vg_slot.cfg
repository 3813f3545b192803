SPECIFICATION FairSpec
CONSTANTS
  p1 = p1
  p2 = p2
  r1 = r1
  r2 = r2
  Accounts = {a}
  Tasks = {t}
  Requests = {r1}
  Shots = {0}
  Procs <- MCProcs
  None = None
  Price = 2
  Limits = {4}
  MaxOps = 2
  MaxTaskRevision = 2
  MaxRevision = 3
  MaxCrashes = 0
  MaxFaults = 0
  MaxLost = 1
INVARIANTS
  RecordCitesAuthorizedRevision
PROPERTIES
  GenerationSettles
