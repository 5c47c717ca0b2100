CONSTANTS
  Keys = {k1}
  Devices = {d1, d2}
  Conns = {c1, c2}
  None = None
  MaxMembers = 2
  MaxPendingJoins = 1
  MaxJoinSeq = 1
  MaxCallbacks = 0
SPECIFICATION LiveRelaySpec
PROPERTY AdmittedHearsOfIt
