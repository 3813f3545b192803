SPECIFICATION Spec
CONSTANTS
  i1 = i1
  i2 = i2
  n1 = n1
  Transactions = {t1, t2, t3}
  Stores = {s1, s2}
  Ids = {i1, i2}
  Names = {n1}
  Wanted <- Both
  None = None
  MaxFaults = 1
SYMMETRY Symmetric
INVARIANTS
  EndedLeavesNothing
PROPERTIES
  WritesBuildOnFile
CHECK_DEADLOCK FALSE
