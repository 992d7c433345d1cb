----------------------------- MODULE Submission -----------------------------
(***************************************************************************)
(* What the state layer promises: one record per submission to which       *)
(* events are applied one after the other, in any order and any number of  *)
(* times.  Transport progress, process results and summaries reach it from *)
(* the submitter and from the results in `/out`, late, twice or not at     *)
(* all.                                                                    *)
(***************************************************************************)
EXTENDS SubmissionRecord

CONSTANTS
  Quantities,      \* invoice counts that submissions are created with
  Progress,        \* transport states that a submitter reports
  ProcessResults,  \* process results that arrive
  SummaryMessages, \* summary entries that are applied by themselves
  SummaryResults   \* summary results that arrive: sequences of entries

ASSUME SubmissionAssumption ==
  /\ Quantities \subseteq UInt32
  /\ Progress \subseteq Prepared .. Enqueued
  /\ ProcessResults \subseteq ProcessResult
  /\ SummaryMessages \subseteq SummaryMessage
  /\ SummaryResults \subseteq Seq(SummaryMessage)

VARIABLES
  record,  \* the SubmissionRecord, or None
  told     \* history: the events that were applied, or found applied

vars == <<record, told>>

Events ==
  Event("advance", Progress) \cup Event("process", ProcessResults)
    \cup Event("summaryMessage", SummaryMessages)
    \cup Event("summaryResult", SummaryResults)

TypeOK ==
  /\ record \in SubmissionRecord \cup {None}
  /\ told \subseteq Events

Init ==
  /\ record = None
  /\ told = {}

\* SubmissionRecord::new refuses a submission of no invoices.
Create(quantity) ==
  /\ record = None
  /\ quantity > 0
  /\ record' = NewRecord(quantity)
  /\ UNCHANGED told

\* An operation succeeds.  One that fails leaves the record as it was.
Handle(e) ==
  LET applied == Apply(record, e) IN
  /\ record # None
  /\ applied.result \in Done
  /\ record' = applied.record
  /\ told' = told \cup {e}

Next ==
  \/ \E quantity \in Quantities : Create(quantity)
  \/ \E e \in Events : Handle(e)

Spec == Init /\ [][Next]_vars

-----------------------------------------------------------------------------
(* Properties *)

\* A terminal summary adds up over the whole numbers, to the quantity that
\* was submitted, although validation_issues adds with 32 bits; and its
\* disposition is the one that the counts say.
TerminalTruthful ==
  record # None /\ record.terminal # None =>
    LET t == record.terminal
        m == t.message
    IN  /\ m.id = MessageId
        /\ AddsUp(m, record.expected)
        /\ t.disposition = "AllGood"   <=> m.good.count = record.expected
        /\ t.disposition = "AllFailed" <=> m.failed.count = record.expected

\* A process result that is delivered again is not listed again
\* (apply_process_result, UnchangedReplay).
NoReplayListed ==
  record # None =>
    \A i, j \in DOMAIN record.processResults :
      record.processResults[i] = record.processResults[j] => i = j

ToldOf(kind) == {e.of : e \in {d \in told : d.kind = kind}}

\* Every entry for this submission in a summary that was applied.
ToldEntries ==
  {m \in ToldOf("summaryMessage") \cup UNION {Range(s) : s \in ToldOf("summaryResult")} :
     m.id = MessageId}

\* The record is what its events say, whatever their order and number: the
\* furthest transport state that any of them implies, each process result,
\* and the one summary, which all summaries that succeeded agree on.
OrderIrrelevant ==
  record # None =>
    LET implied == {Created} \cup ToldOf("advance")
          \cup {ProcessObserved : p \in ToldOf("process")}
          \cup {SummaryObserved : m \in ToldEntries}
    IN  /\ record.transport \in implied
        /\ \A state \in implied : record.transport >= state
        /\ Range(record.processResults) = ToldOf("process")
        /\ ToldEntries =
             IF record.terminal = None THEN {} ELSE {record.terminal.message}

\* A record never loses what it was told: its transport state does not go
\* back, its process results are only added to, and a terminal summary is
\* final ("must not overwrite history", docs/state-persistence.md).
RecordOnlyGrows ==
  [][record # None => record' # None /\ Grows(record, record')]_vars
=============================================================================
