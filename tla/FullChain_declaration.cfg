CONSTANTS
  good = good
  twin = twin
  wrong = wrong
  mute = mute
  dead = dead
  Servers = {good, twin, wrong, mute, dead}
  Down = {dead}
  HostKey <- MCHostKey
  NoKey = "no key"
  KnownKeys = {"key"}
  Half = 4096
  MaxPayloads = 2
  MaxProductItems = 2
  MaxSignedSource = 1179
  Requests <- MCMarkedRequests
  Environment <- MCEnvironment
  Credentials <- MCCredentials
  Resolved <- MCResolved
  Verdicts <- MCVerdicts
SPECIFICATION Spec
INVARIANT NoDeclarationInside
CHECK_DEADLOCK FALSE
