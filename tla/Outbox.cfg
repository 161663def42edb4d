SPECIFICATION Spec
CONSTANTS
  e1 = e1
  e2 = e2
  e3 = e3
  task1 = task1
  d1 = d1
  d2 = d2
  h1 = h1
  h2 = h2
  NoTask = NoTask
  NoEvent = NoEvent
  NoHandler = NoHandler
  Events <- MCEvents
  NameOf <- MCNameOf
  TaskOf <- MCTaskOf
  Direct = {e3}
  Dispatchers <- TwoDispatchers
  Handlers <- TwoHandlers
  Origins = 2
  Modes <- AllModes
  BatchSize = 2
  MaxFaults = 1
SYMMETRY Symmetry
CHECK_DEADLOCK FALSE
INVARIANT ClaimedByOne
INVARIANT AcceptedIsKept
INVARIANT DeliveryCount
INVARIANT AttemptAgrees
PROPERTY ShadowIsLegal
