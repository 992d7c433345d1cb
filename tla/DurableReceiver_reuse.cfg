CONSTANTS
  Receivers = {r1, r2}
  Names = {n1, n2}
  SafeNames = {n1}
  b0 = b0
  b1 = b1
  b2 = b2
  Bodies = {b1, b2}
  Size <- MCEqualSize
  Pids = {1}
  TempIds = 2
  MaxLeftovers = 1
  NameReuse = TRUE
  PowerMayFail = TRUE
  None = None
SPECIFICATION Spec
PROPERTY DeletesOnlyCopied
PROPERTY PublishedNeverReplaced
SYMMETRY Symmetry
