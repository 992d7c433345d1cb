-------------------------- MODULE SubmissionRecord --------------------------
(***************************************************************************)
(* SubmissionRecord of crates/einvoice-state: the durable record of one    *)
(* submitted message, and what its operations make of it.  An operation is *)
(* a function from a record and its argument to the record it leaves and   *)
(* the Ok or Err variant it returns.                                       *)
(***************************************************************************)
EXTENDS ResultMessages

CONSTANTS
  MessageId,  \* the id of the submission on the platform
  None        \* no record, no terminal summary

\* TransportState, in the order that it derives.
Created         == 0
Prepared        == 1
Uploaded        == 2
Enqueued        == 3
ProcessObserved == 4
SummaryObserved == 5

TransportState == Created .. SummaryObserved

Dispositions == {"AllGood", "AllFailed", "PartialSuccess"}

TerminalSummary == [disposition : Dispositions, message : SummaryMessage]

ASSUME RecordAssumption ==
  /\ MessageId \in Ids
  /\ None \notin TerminalSummary

SubmissionRecord ==
  [expected       : UInt32,
   transport      : TransportState,
   processResults : Seq(ProcessResult),
   terminal       : TerminalSummary \cup {None}]

ASSUME NoRecordAssumption == None \notin SubmissionRecord

NewRecord(quantity) ==
  [expected       |-> quantity,
   transport      |-> Created,
   processResults |-> <<>>,
   terminal       |-> None]

-----------------------------------------------------------------------------

\* The return of an operation.
Returned(rec, result) == [record |-> rec, result |-> result]

\* Mutant of AdvanceTransport: takes the state to the one behind the target.
AdvanceBeyond(rec, target) ==
  IF target > rec.transport
  THEN Returned([rec EXCEPT !.transport = target + 1], "Advanced")
  ELSE Returned(rec, "IgnoredStale")

\* advance_transport: states may be skipped, never taken back.
AdvanceTransport(rec, target) ==
  IF target > rec.transport
  THEN Returned([rec EXCEPT !.transport = target], "Advanced")
  ELSE Returned(rec, IF target = rec.transport THEN "Unchanged"
                                               ELSE "IgnoredStale")

\* Mutant of ApplyProcessResult: replays are not recognised.
AppendProcessResult(rec, p) ==
  IF p.id # MessageId THEN Returned(rec, "MessageIdMismatch")
  ELSE LET listed == [rec EXCEPT !.processResults = Append(@, p)]
       IN  Returned(AdvanceTransport(listed, ProcessObserved).record, "Changed")

ApplyProcessResult(rec, p) ==
  IF p.id # MessageId THEN Returned(rec, "MessageIdMismatch")
  ELSE IF p \in Range(rec.processResults) THEN Returned(rec, "UnchangedReplay")
  ELSE LET listed == [rec EXCEPT !.processResults = Append(@, p)]
       IN  Returned(AdvanceTransport(listed, ProcessObserved).record, "Changed")

\* TerminalSummary::from_validated_message.
Terminal(m) ==
  [disposition |-> IF m.failed.count = 0 THEN "AllGood"
                   ELSE IF m.good.count = 0 THEN "AllFailed"
                   ELSE "PartialSuccess",
   message     |-> m]

\* Mutant of ApplySummaryMessage: the last summary wins.
ReplaceSummary(rec, m) ==
  IF m.id # MessageId THEN Returned(rec, "MessageIdMismatch")
  ELSE IF SumPanics(m) THEN Returned(rec, "panic")
  ELSE IF ValidationIssues(m, rec.expected) # {}
       THEN Returned(rec, "InconsistentSummary")
  ELSE LET closed == [rec EXCEPT !.terminal = Terminal(m)]
       IN  Returned(AdvanceTransport(closed, SummaryObserved).record, "Changed")

ApplySummaryMessage(rec, m) ==
  IF m.id # MessageId THEN Returned(rec, "MessageIdMismatch")
  ELSE IF SumPanics(m) THEN Returned(rec, "panic")
  ELSE IF ValidationIssues(m, rec.expected) # {}
       THEN Returned(rec, "InconsistentSummary")
  ELSE IF rec.terminal = Terminal(m) THEN Returned(rec, "UnchangedReplay")
  ELSE IF rec.terminal # None THEN Returned(rec, "ConflictingTerminalSummary")
  ELSE LET closed == [rec EXCEPT !.terminal = Terminal(m)]
       IN  Returned(AdvanceTransport(closed, SummaryObserved).record, "Changed")

\* The entries of a SummaryResult that are about this submission.
Matching(messages) == {i \in DOMAIN messages : messages[i].id = MessageId}

\* Mutant of ApplySummaryResult: the first of several entries is taken.
ApplyFirstSummary(rec, messages) ==
  IF Matching(messages) = {} THEN Returned(rec, "SummaryMessageMissing")
  ELSE ApplySummaryMessage(rec,
         messages[CHOOSE i \in Matching(messages) :
                    \A j \in Matching(messages) : i <= j])

\* A SummaryResult is applied when it has exactly one entry for the message.
ApplySummaryResult(rec, messages) ==
  IF Matching(messages) = {} THEN Returned(rec, "SummaryMessageMissing")
  ELSE IF \E i, j \in Matching(messages) : i # j
       THEN Returned(rec, "DuplicateSummaryMessage")
  ELSE ApplySummaryMessage(rec, messages[CHOOSE i \in Matching(messages) : TRUE])

-----------------------------------------------------------------------------
(* Events: what a record is told, in whatever order and however often.     *)

Event(kind, arguments) == [kind : {kind}, of : arguments]

Apply(rec, e) ==
  CASE e.kind = "advance"        -> AdvanceTransport(rec, e.of)
    [] e.kind = "process"        -> ApplyProcessResult(rec, e.of)
    [] e.kind = "summaryMessage" -> ApplySummaryMessage(rec, e.of)
    [] e.kind = "summaryResult"  -> ApplySummaryResult(rec, e.of)

\* The operation succeeded, or found that it had succeeded before.
Done == {"Advanced", "Unchanged", "IgnoredStale", "Changed", "UnchangedReplay"}

\* What an operation may do to a record: add to it.
Grows(old, new) ==
  /\ new.expected = old.expected
  /\ new.transport >= old.transport
  /\ \A i \in DOMAIN old.processResults :
       /\ i \in DOMAIN new.processResults
       /\ new.processResults[i] = old.processResults[i]
  /\ old.terminal # None => new.terminal = old.terminal
=============================================================================
