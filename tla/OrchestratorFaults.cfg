SPECIFICATION Spec
CONSTANTS
  t1 = t1
  t2 = t2
  NoTask = NoTask
  NoRun = NoRun
  Task <- TwoTasks
  Copies = 2
  Requests = 1
  RedisUp <- Connected
  Lossy <- Executors
  MaxLost = 1
  Failing <- Reviewers
  MaxFails = 1
SYMMETRY Symmetry
CONSTRAINT InOrder
CHECK_DEADLOCK FALSE
INVARIANT ApprovedIsTrue
INVARIANT SuccessMeansWork
INVARIANT OneFinaliser
