CONSTANTS
  Providers = {"cli", "ollama"}
  Categories = {"review", "verification", "implementation"}
  Timeout = 7
  Grace = 3
  Poll = 3
  Term = 1
  Sock = 3
  PromptFits = TRUE
  Horizon = 14
SPECIFICATION FairSpec
INVARIANT RunBounded
INVARIANT SilenceEnds
INVARIANT NothingLeft
INVARIANT OkMeansFinished
PROPERTY Ends
CHECK_DEADLOCK FALSE
