SPECIFICATION Spec
CONSTANTS
  f1 = f1
  f2 = f2
  u1 = u1
  u2 = u2
  u3 = u3
  p1 = p1
  r1 = r1
  r2 = r2
  NoFlow = NoFlow
  NoUser = NoUser
  NoPerm = NoPerm
  Flows <- TwoFlows
  Users <- ThreeUsers
  Perms <- OnePerm
  Requests <- Two
  Approvers <- ThreeUsers
  Required = 3
  Mixes <- AllMixes
  MaxFaults = 1
  MaxNow = 1
SYMMETRY Symmetry
CONSTRAINT InTurn
CHECK_DEADLOCK FALSE
INVARIANT LaunchedOnceSigned
INVARIANT NoTwinFlows
INVARIANT LaunchIsPermitted
INVARIANT MissionOncePerPeriod
INVARIANT SwitchIsKept
PROPERTY AbortedStays
