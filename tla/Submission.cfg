CONSTANTS
  Half = 4
  OverflowChecks = FALSE
  own = own
  other = other
  inv1 = inv1
  inv2 = inv2
  ok = ok
  warn = warn
  Ids = {own, other}
  MessageId = own
  Invoices = {inv1, inv2}
  Diagnostics = {ok, warn}
  None = None
  Quantities = {0, 1, 2, 3, 6}
  Progress = {1, 2, 3}
  ProcessResults <- Processes
  SummaryMessages <- Entries
  SummaryResults <- Results
SPECIFICATION Spec
INVARIANT TypeOK
INVARIANT TerminalTruthful
INVARIANT NoReplayListed
INVARIANT OrderIrrelevant
PROPERTY RecordOnlyGrows
