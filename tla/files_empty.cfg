SPECIFICATION Spec
CONSTANTS
  i1 = i1
  i2 = i2
  n1 = n1
  Transactions = {t1, t2}
  Stores = {s1, s2}
  Ids = {i1}
  Names = {n1}
  Wanted <- Updates
  None = None
  MaxFaults = 0
PROPERTIES
  RecoversSafely
CHECK_DEADLOCK FALSE
