SPECIFICATION Spec
CONSTANTS
  MaxOps = 1
  Conns = {c1, c2}
  Names = {n1}
  Pins = {p1, p2}
  Requests = {r1}
  None = None
INVARIANTS
  PendingOfChannel
