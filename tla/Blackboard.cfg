SPECIFICATION Spec
CONSTANTS
  a1 = a1
  a2 = a2
  h1 = h1
  h2 = h2
  NoAgent = NoAgent
  Agents <- TwoAgents
  Handlers <- TwoHandlers
  NumSteps = 2
  ScanLimit = 2
  EarlyClaims = FALSE
  MaxTokens = 3
  MaxFaults = 1
SYMMETRY Symmetry
CHECK_DEADLOCK FALSE
INVARIANT BoardCompletedIsDone
INVARIANT BoardGetsClosed
PROPERTY CompletedIsFinal
PROPERTY LiveClaimIsKept
PROPERTY CompletedByLastClaim
