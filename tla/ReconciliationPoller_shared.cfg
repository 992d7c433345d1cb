CONSTANTS
  Receivers = {r1, r2}
  Names = {1}
  SafeNames = {1}
  b0 = b0
  b1 = b1
  b2 = b2
  Bodies = {b1, b2}
  Size <- MCUnitSize
  Pids = {1, 2}
  TempIds = 2
  MaxLeftovers = 1
  NameReuse = FALSE
  PowerMayFail = FALSE
  None = None
  ResultNames = {1}
  Malformed = {b1}
SPECIFICATION PollSpec
INVARIANT HandedAtMostOnce
INVARIANT HandedIsSaved
INVARIANT TypeOK
INVARIANT AcceptedNeverLost
INVARIANT TempsExclusive

SYMMETRY Symmetry
