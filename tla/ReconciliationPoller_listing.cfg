CONSTANTS
  Receivers = {r1}
  Names = {1, 2}
  SafeNames = {1, 2}
  b0 = b0
  b1 = b1
  b2 = b2
  Bodies = {b0, b1}
  Size <- MCSize
  Pids = {1}
  TempIds = 2
  MaxLeftovers = 1
  NameReuse = FALSE
  PowerMayFail = TRUE
  None = None
  ResultNames = {2}
  Malformed = {b1}
SPECIFICATION FairPollSpec
INVARIANT PublishedIntact
INVARIANT PersistedIsDurable
INVARIANT PollTypeOK
INVARIANT EveryObjectAttempted
PROPERTY Spec
PROPERTY OutDrained
