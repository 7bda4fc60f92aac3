CONSTANTS
  Tasks = {t1, t2}
  None = None
  Jobs = {j1, j2}
  Limits = {1}
  ApiOps <- MCDrain
  CliOps = {"pause", "resume"}
  CanCrash = TRUE
SPECIFICATION Spec
SYMMETRY MCSymmetry
INVARIANT PauseTakesHold
 
CHECK_DEADLOCK FALSE
