CONSTANTS
  t1 = t1
  t2 = t2
  Tasks = {t1, t2}
  Jobs = {j1, j2, j3}
  None = None
  Kept = Kept
  BlockedBy <- Independent
  MaxInProgress = 2
  PoolSize = 2
  Steps = 1
  InGit = FALSE
  Gated = FALSE
  ApiOps = {"cancel"}
  CanCrash = FALSE
SPECIFICATION Spec
PROPERTY CancelledOnlyToBacklog
