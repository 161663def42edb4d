SPECIFICATION Spec
CONSTANTS
  f1 = f1
  f2 = f2
  f3 = f3
  t1 = t1
  t2 = t2
  u = u
  v = v
  x = x
  w1 = w1
  w2 = w2
  NoTask = NoTask
  NoFlow = NoFlow
  Files = {x}
  Workers <- TwoWorkers
  FlowOf <- MCFlowOf
  Rank <- MCRank
  Flows <- ThreeFlows
  Branches <- TwoBranches
  Tasks <- OneAndTwo
  Needs <- AllNeed
  Copies = {2}
  MaxAttempts = 2
  HumanOps = {"rewind"}
  MaxHuman = 0
  MaxCrashes = 0
  SlowRuns = FALSE
SYMMETRY WorkerSymmetry
INVARIANT LockExclusive
