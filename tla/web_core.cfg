SPECIFICATION FairSpec
CONSTANTS
  a1 = a1
  a2 = a2
  t1 = t1
  t2 = t2
  None = None
  DevAccounts = {a1, a2}
  DevAdmins = {a1}
  Tasks = {t1, t2}
  FirstTask = t1
  AssetRevisions = {2}
  MaxRevision = 3
  MaxSessions = 2
  MaxEvents = 4
INVARIANTS PanelsFollowSelection RunKeepsTask
PROPERTIES ControlsComeBack
CHECK_DEADLOCK FALSE
