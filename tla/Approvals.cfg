SPECIFICATION Spec
CONSTANTS
  c1 = c1
  c2 = c2
  c3 = c3
  a1 = a1
  a2 = a2
  h1 = h1
  h2 = h2
  q1 = q1
  q2 = q2
  NoRun = NoRun
  NoAgent = NoAgent
  NoRequest = NoRequest
  Runs <- ThreeRuns
  Agents <- TwoAgents
  Handlers <- TwoHandlers
  Requests <- TwoRequests
  Budgets <- AllBudgets
SYMMETRY Symmetry
CHECK_DEADLOCK FALSE
INVARIANT LeftForAHuman
INVARIANT OneExecution
 
PROPERTY DecisionStands
