CONSTANTS
  Providers = {"cli", "ollama"}
  Categories = {"dependency_analysis"}
  Timeout = 7
  Grace = 3
  Poll = 3
  Term = 1
  Sock = 3
  PromptFits = TRUE
  Horizon = 0
SPECIFICATION Spec
CHECK_DEADLOCK FALSE
INVARIANT AnswersHeard
