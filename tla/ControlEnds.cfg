CONSTANTS
  Tasks = {t1}
  None = None
  Jobs = {j1, j2}
  Limits = {1}
  ApiOps <- MCAll
  CliOps = {}
  CanCrash = FALSE
SPECIFICATION FairSpec
PROPERTY StopEnds
PROPERTY DrainEnds
CHECK_DEADLOCK FALSE
