SPECIFICATION Spec
CONSTANTS
  Clients = {c1, c2}
  Requests = {q1, q2, q3}
  Contents = {d1, d2}
  MaxInflight = 2
  MaxPosts = 3
  MaxFaults = 1
  MaxTimeouts = 1
  NoClient = NoClient
  NoDraft = NoDraft
SYMMETRY Symmetry
CHECK_DEADLOCK FALSE
INVARIANT ApprovedIsShown
INVARIANT OneMailPerAnswer
INVARIANT ApprovalSendsOnce
INVARIANT GuardCountsRequests
