CONSTANTS
  Workers = {w1, w2}
  Half = 4
  OverflowChecks = TRUE
  own = own
  other = other
  ok = ok
  warn = warn
  Ids = {own, other}
  MessageId = own
  Invoices = {}
  Diagnostics = {ok, warn}
  None = None
  Quantities = {2}
  Progress = {1}
  ProcessResults <- OneProcess
  SummaryMessages <- NoMessages
  SummaryResults <- Results
SPECIFICATION FairSpec
INVARIANT TypeOK
INVARIANT AckedStaysTold
INVARIANT RevisionNamesRecord
PROPERTY AtomicSpec
PROPERTY TasksEnd
