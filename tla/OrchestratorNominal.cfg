SPECIFICATION FairSpec
CONSTANTS
  t1 = t1
  t2 = t2
  NoTask = NoTask
  NoRun = NoRun
  Task <- TwoTasks
  Copies = 2
  Requests = 1
  RedisUp <- Connected
  Lossy <- Nobody
  MaxLost = 0
  Failing <- Nobody
  MaxFails = 0
CHECK_DEADLOCK FALSE
PROPERTY PublishesOnce
PROPERTY RequestFinishes
