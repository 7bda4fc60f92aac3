CONSTANTS
  t1 = t1
  t2 = t2
  Tasks = {t1}
  Jobs = {j1, j2}
  None = None
  Kept = Kept
  BlockedBy <- Alone
  MaxInProgress = 2
  PoolSize = 2
  Steps = 1
  InGit = TRUE
  Gated = TRUE
  ApiOps <- SomeOps
  CanCrash = FALSE
SPECIFICATION FairSpec
INVARIANT OneExecutionPerTask
INVARIANT WorktreeHasOwner
PROPERTY RunReturns
