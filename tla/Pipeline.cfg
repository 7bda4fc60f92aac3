CONSTANTS
  Types <- MCTypes
  Modes <- MCModes
  Approvals <- AllApprovals
  Gits = {TRUE, FALSE}
  MaxReview = 2
  MaxRuns = 2
  MaxRetries = 1
  UserOps <- AllUserOps
  CommitFails = FALSE
  CanRaise = TRUE
  CanCrash = TRUE
SPECIFICATION FairSpec
INVARIANT TypeOK
INVARIANT ReviewedCommit
INVARIANT FixesBetweenReviews
INVARIANT ReviewsBounded
INVARIANT CompletedMeansLanded
INVARIANT RunMatchesTask
INVARIANT BranchKept
INVARIANT LandedSettles
PROPERTY NothingLeftBehind
PROPERTY LedgerKept
PROPERTY Ends
CHECK_DEADLOCK FALSE
