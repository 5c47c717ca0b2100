CONSTANTS
  Keys = {k1}
  Devices = {d1}
  Conns = {c1, c2, c3}
  None = None
  MaxMembers = 1
  MaxPendingJoins = 1
  MaxJoinSeq = 0
  MaxCallbacks = 2
SPECIFICATION LiveRelaySpec
PROPERTY OwnerlessChannelEnds
