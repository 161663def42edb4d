SPECIFICATION Spec
CONSTANTS
  s1 = s1
  s2 = s2
  e1 = e1
  w1 = w1
  w2 = w2
  NoSession = NoSession
  Sessions <- TwoSessions
  MaxMsgs = 2
  MaxTasks = 2
  Sweeps <- OneSweep
  Workers <- TwoWorkers
  Limit = 2
  Count = 2
  ReadMax = 2
  TextMax = 1
  Decodes = {TRUE, FALSE}
  Aware = {TRUE, FALSE}
  MaxFaults = 1
SYMMETRY Symmetry
CHECK_DEADLOCK FALSE
INVARIANT NothingForgotten
INVARIANT AckedIsSettled
INVARIANT SilenceQueuedOnce
