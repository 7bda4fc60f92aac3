CONSTANTS
  t1 = t1
  t2 = t2
  t3 = t3
  j1 = j1
  j2 = j2
  Tasks = {t1, t2, t3}
  None = None
  Jobs = {j1, j2}
  Worlds <- MCWorlds
SPECIFICATION FairSpec
INVARIANT TypeOK
INVARIANT NobodyWaitsForItself
INVARIANT EndsAgree
INVARIANT ImportInOrder
PROPERTY EveryTaskAnalysed
CHECK_DEADLOCK FALSE
