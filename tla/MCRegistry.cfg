CONSTANTS
  Keys = {k1}
  Devices = {d1, d2, d3, d4}
  None = None
  MaxMembers = 3
  MaxPendingJoins = 2
  MaxJoinSeq = 6
SPECIFICATION Spec
SYMMETRY Symmetry
INVARIANTS
  TypeOK
  OwnerIsMostSenior
  SeniorityIsStrict
  OneStandingPerDevice
  WithinLimits
PROPERTY
  NoRequestReturns
  OwnerYieldsOnlyToSenior
  ImplementsLiveRoom
