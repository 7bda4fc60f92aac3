CONSTANTS
  c1 = c1
  c2 = c2
  q1 = q1
  q2 = q2
  x1 = x1
  Clients = {c1, c2}
  Projects = {"here", "there"}
  Here = "here"
  MaxArrivals = 2
  MaxPubs = 2
  Messages <- MCMessages
  ServerRuns = {q1, q2}
  CliRuns = {x1}
  None = None
  MaxPending = 1
  Worlds <- MCWorlds
SPECIFICATION FairSpec
INVARIANT EventOnItsWay
INVARIANT LimitHolds
INVARIANT PromotedOnce
PROPERTY RunEnds
PROPERTY CatchesUp
CHECK_DEADLOCK FALSE
