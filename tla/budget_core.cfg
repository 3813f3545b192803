SPECIFICATION Spec
CONSTANTS
  p1 = p1
  p2 = p2
  m1 = m1
  m2 = m2
  Executions <- MCExecutions
  Admins <- MCAdmins
  None = None
  Quotes = {2}
  Limits = {3, 4}
  MaxEntries = 4
  MaxUpdates = 1
  MaxCrashes = 1
  MaxFaults = 1
  MaxOverruns = 1
SYMMETRY Symmetry
INVARIANTS
  LedgerReplays
PROPERTIES
  ImplementsBudget
