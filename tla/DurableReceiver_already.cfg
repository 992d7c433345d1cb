CONSTANTS
  Receivers = {r1}
  Names = {n1}
  SafeNames = {n1}
  b0 = b0
  b1 = b1
  b2 = b2
  Bodies = {b2}
  Size <- MCSize
  Pids = {1}
  TempIds = 2
  MaxLeftovers = 1
  NameReuse = FALSE
  PowerMayFail = FALSE
  None = None
SPECIFICATION Spec
PROPERTY DeletesOnlyDurable
