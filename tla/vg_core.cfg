SPECIFICATION Spec
CONSTANTS
  p1 = p1
  p2 = p2
  r1 = r1
  r2 = r2
  Accounts = {a}
  Tasks = {t}
  Requests <- MCRequests
  Shots = {0}
  Procs <- MCProcs
  None = None
  Price = 2
  Limits = {3, 4}
  MaxOps = 2
  MaxTaskRevision = 1
  MaxRevision = 3
  MaxCrashes = 1
  MaxFaults = 1
  MaxLost = 1
SYMMETRY Symmetry
INVARIANTS
  WithinLimit
  OneOperationPerAccount
  HeldReservationHoldsSlot
  OutcomeMatchesLedger
  RequestSubmittedOnce
PROPERTIES
  ImplementsBudget
  TerminalIsFinal
