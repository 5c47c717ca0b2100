CONSTANTS
  Keys = {k1}
  Devices = {d1, d2}
  Conns = {c1, c2, c3}
  None = None
  MaxMembers = 2
  MaxPendingJoins = 1
  MaxJoinSeq = 2
  MaxCallbacks = 0
SPECIFICATION RelaySpec
SYMMETRY Symmetry
INVARIANTS
  OwnerKnowsJoins
  DecisionMeetsItsRequest
  PendingIsServed
