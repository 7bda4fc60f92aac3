CONSTANTS
  t1 = t1
  t2 = t2
  Tasks = {t1, t2}
  Jobs = {j1, j2, j3}
  None = None
  Kept = Kept
  BlockedBy <- Chain
  MaxInProgress = 2
  PoolSize = 2
  Steps = 1
  InGit = FALSE
  Gated = FALSE
  ApiOps = {"approve_review", "request_changes"}
  CanCrash = TRUE
SPECIFICATION FairSpec
INVARIANT InProgressHasOwner
INVARIANT BlockersFinishFirst
PROPERTY DoneIsFinal
PROPERTY RunnableSettles
