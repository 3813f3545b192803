SPECIFICATION Spec
CONSTANTS
  a1 = a1
  a2 = a2
  t1 = t1
  m1 = m1
  m2 = m2
  preview = preview
  r1 = r1
  c1 = c1
  c2 = c2
  n1 = n1
  n2 = n2
  n3 = n3
  None = None
  Accounts = {a1, a2}
  Tasks = {t1}
  Ids = {m1, m2}
  Stages = {preview}
  Requests = {r1}
  Contents = {c1, c2}
  Calls = {n1, n2, n3}
  MaxWrites = 2
SYMMETRY Symmetric
CONSTRAINTS Fitting
INVARIANTS VersionsAreDense AnswersAgree ServedAsRegistered SomeCallGoesOn
CHECK_DEADLOCK FALSE
