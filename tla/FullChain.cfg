CONSTANTS
  good = good
  twin = twin
  wrong = wrong
  mute = mute
  dead = dead
  Servers = {good, twin, wrong, mute, dead}
  Down = {dead}
  HostKey <- MCHostKey
  NoKey = "no key"
  KnownKeys = {"key"}
  Half = 4096
  MaxPayloads = 2
  MaxProductItems = 2
  MaxSignedSource = 1179
  Requests <- MCRequests
  Environment <- MCEnvironment
  Credentials <- MCCredentials
  Resolved <- MCResolved
  Verdicts <- MCVerdicts
SPECIFICATION Spec
INVARIANT TypeOK
INVARIANT CalendarExact
INVARIANT WholeTaxAmounts
INVARIANT InvoiceReadBack
INVARIANT SignatureHolds
INVARIANT NotifiedAsUploaded
INVARIANT OneIdentity
INVARIANT NameRightAnchored
INVARIANT SecretsToKnownHost
INVARIANT ResultReadBack
PROPERTY SessionEnds
CHECK_DEADLOCK FALSE
