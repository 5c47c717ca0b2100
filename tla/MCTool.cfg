SPECIFICATION Spec
CONSTANTS
  MaxOps = 2
  Conns = {c1, c2}
  Names = {n1, n2}
  Pins = {p1}
  Requests = {r1}
  None = None
INVARIANTS
  ToolTypeOK
  WaiterHasSocket
  WaiterWillHear
  OperationKeepsChannel
  NothingIsMissed
PROPERTIES
  ImplementsCourier
