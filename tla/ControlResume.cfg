CONSTANTS
  Tasks = {t1}
  None = None
  Jobs = {j1, j2}
  Limits = {1}
  ApiOps <- MCFlow
  CliOps = {}
  CanCrash = FALSE
SPECIFICATION FairSpec
PROPERTY RunningRuns
CHECK_DEADLOCK FALSE
