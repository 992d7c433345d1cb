---------------------------- MODULE RecordProofs ----------------------------
(***************************************************************************)
(* Lemmas about the operations of SubmissionRecord, for any width of the   *)
(* counts: what the checks of a summary accept adds up; each operation     *)
(* maps a sound record to a sound one that has grown; and an event that a  *)
(* record was told is found applied from then on.                          *)
(***************************************************************************)
EXTENDS SubmissionRecord, TLAPS

-----------------------------------------------------------------------------
(* The checks of a summary *)

\* validation_issues finds nothing exactly when the summary adds up over the
\* whole numbers, for every width of the counts, in a build that wraps.
THEOREM ChecksExact ==
  ASSUME NEW m \in SummaryMessage, NEW expected \in UInt32
  PROVE  ValidationIssues(m, expected) = {} <=> AddsUp(m, expected)
<1> DEFINE negative == {<<"NegativeCount", b>> :
                          b \in {c \in Buckets : m[c].count < 0}}
           listed == {<<"InvoiceListCountMismatch", b>> :
                        b \in {c \in Buckets : /\ m[c].invoices # <<>>
                                               /\ m[c].count # Len(m[c].invoices)}}
           total == {<<"TotalMismatch", b>> :
                       b \in {c \in {"total"} :
                                m[c].count # WrappingSum(m.good.count, m.failed.count)}}
           quantity == {<<"ExpectedQuantityMismatch", b>> :
                          b \in {c \in {"total"} : m[c].count # expected}}
<1>0. /\ m.total.count \in Int32
      /\ m.good.count \in Int32
      /\ m.failed.count \in Int32
      /\ m["total"] = m.total /\ m["good"] = m.good /\ m["failed"] = m.failed
  BY DEF SummaryMessage, ResultDetail
<1>1. \A b \in Buckets : m[b].count \in Int /\ m[b].count \in Int32
  BY <1>0, ResultsAssumption DEF Buckets, Int32
<1>2. negative = {} <=> \A b \in Buckets : m[b].count >= 0
  <2>1. negative = {} <=> \A b \in Buckets : ~(m[b].count < 0)
    OBVIOUS
  <2> QED
    BY <1>1, <2>1
<1>3. listed = {} <=> \A b \in Buckets :
                        m[b].invoices = <<>> \/ m[b].count = Len(m[b].invoices)
  OBVIOUS
<1>4. total = {} <=> m.total.count = WrappingSum(m.good.count, m.failed.count)
  BY <1>0
<1>5. quantity = {} <=> m.total.count = expected
  BY <1>0
<1>6. ValidationIssues(m, expected) = {} <=>
        negative = {} /\ listed = {} /\ total = {} /\ quantity = {}
  BY DEF ValidationIssues
<1>7. ASSUME m.total.count >= 0, m.good.count >= 0, m.failed.count >= 0
      PROVE  m.total.count = WrappingSum(m.good.count, m.failed.count) <=>
               m.total.count = m.good.count + m.failed.count
  BY <1>0, <1>7, ResultsAssumption DEF WrappingSum, Int32
<1>8. (\A b \in Buckets : m[b].count >= 0) =>
        m.total.count >= 0 /\ m.good.count >= 0 /\ m.failed.count >= 0
  BY <1>0 DEF Buckets
<1> HIDE DEF negative, listed, total, quantity
<1> QED
  BY <1>2, <1>3, <1>4, <1>5, <1>6, <1>7, <1>8 DEF AddsUp

-----------------------------------------------------------------------------
(* Sound records *)

\* The terminal summary of a record is what TerminalTruthful says.
Truthful(rec) ==
  rec.terminal # None =>
    LET m == rec.terminal.message IN
    /\ m.id = MessageId
    /\ AddsUp(m, rec.expected)
    /\ rec.terminal.disposition = "AllGood"   <=> m.good.count = rec.expected
    /\ rec.terminal.disposition = "AllFailed" <=> m.failed.count = rec.expected

Distinct(rec) ==
  \A i, j \in DOMAIN rec.processResults :
    rec.processResults[i] = rec.processResults[j] => i = j

Sound(rec) ==
  /\ rec \in SubmissionRecord
  /\ rec.expected > 0
  /\ Truthful(rec)
  /\ Distinct(rec)

\* Operations that call one another add up.
LEMMA GrowsTransitive ==
  ASSUME NEW a \in SubmissionRecord, NEW b \in SubmissionRecord,
         NEW c \in SubmissionRecord, Grows(a, b), Grows(b, c)
  PROVE  Grows(a, c)
BY DEF Grows, SubmissionRecord, TransportState, Created, SummaryObserved

\* The types of a record's fields.
LEMMA RecordFields ==
  ASSUME NEW rec \in SubmissionRecord
  PROVE  /\ rec.expected \in UInt32
         /\ rec.transport \in TransportState /\ rec.transport \in Int
         /\ rec.processResults \in Seq(ProcessResult)
         /\ rec.terminal \in TerminalSummary \cup {None}
         /\ rec # None
BY NoRecordAssumption DEF SubmissionRecord, TransportState, Created, SummaryObserved

\* advance_transport keeps a record sound and never takes it back.
LEMMA AdvanceKeeps ==
  ASSUME NEW rec, Sound(rec), NEW target \in TransportState
  PROVE  LET new == AdvanceTransport(rec, target).record
         IN  Sound(new) /\ Grows(rec, new)
<1> DEFINE new == AdvanceTransport(rec, target).record
<1>0. rec \in SubmissionRecord /\ target \in Int
  BY DEF Sound, TransportState, Created, SummaryObserved
<1>1. new = rec \/ (target > rec.transport /\ new = [rec EXCEPT !.transport = target])
  BY DEF AdvanceTransport, Returned
<1>2. CASE new = rec
  BY <1>0, <1>2, RecordFields DEF Grows
<1>3. CASE target > rec.transport /\ new = [rec EXCEPT !.transport = target]
  <2>1. /\ new \in SubmissionRecord
        /\ new.expected = rec.expected
        /\ new.transport = target
        /\ new.processResults = rec.processResults
        /\ new.terminal = rec.terminal
    BY <1>0, <1>3 DEF SubmissionRecord
  <2>2. new.transport >= rec.transport
    BY <1>0, <1>3, <2>1, RecordFields
  <2>3. Sound(new)
    <3> HIDE DEF new
    <3>1. Truthful(new)
      BY <2>1 DEF Sound, Truthful
    <3>2. Distinct(new)
      BY <2>1 DEF Sound, Distinct
    <3> QED
      BY <2>1, <3>1, <3>2 DEF Sound
  <2>4. Grows(rec, new)
    <3> HIDE DEF new
    <3> QED
      BY <2>1, <2>2 DEF Grows
  <2> QED
    BY <2>3, <2>4
<1> QED
  BY <1>1, <1>2, <1>3

\* So does apply_process_result, which lists only what it does not list yet.
LEMMA ProcessKeeps ==
  ASSUME NEW rec, Sound(rec), NEW p \in ProcessResult
  PROVE  LET new == ApplyProcessResult(rec, p).record
         IN  Sound(new) /\ Grows(rec, new)
<1> DEFINE new == ApplyProcessResult(rec, p).record
           listed == [rec EXCEPT !.processResults = Append(@, p)]
<1>0. rec \in SubmissionRecord
  BY DEF Sound
<1>1. CASE p.id # MessageId \/ p \in Range(rec.processResults)
  <2>1. new = rec
    BY <1>1 DEF ApplyProcessResult, Returned
  <2> QED
    BY <1>0, <2>1, RecordFields DEF Grows
<1>2. CASE p.id = MessageId /\ p \notin Range(rec.processResults)
  <2>1. new = AdvanceTransport(listed, ProcessObserved).record
    BY <1>2 DEF ApplyProcessResult, Returned
  <2>2. /\ listed \in SubmissionRecord
        /\ listed.expected = rec.expected
        /\ listed.transport = rec.transport
        /\ listed.processResults = Append(rec.processResults, p)
        /\ listed.terminal = rec.terminal
    BY <1>0, RecordFields DEF SubmissionRecord
  <2>3. \A i \in DOMAIN rec.processResults : rec.processResults[i] # p
    BY <1>2 DEF Range
  <2>4. Distinct(listed)
    BY <1>0, <2>2, <2>3, RecordFields DEF Sound, Distinct
  <2>5. Grows(rec, listed)
    BY <1>0, <2>2, RecordFields DEF Grows
  <2>6. Sound(listed)
    BY <2>2, <2>4 DEF Sound, Truthful
  <2>7. ProcessObserved \in TransportState
    BY DEF ProcessObserved, TransportState, Created, SummaryObserved
  <2>8. Sound(new) /\ Grows(listed, new)
    BY <2>1, <2>6, <2>7, AdvanceKeeps
  <2> QED
    BY <1>0, <2>2, <2>5, <2>8, GrowsTransitive DEF Sound
<1> QED
  BY <1>1, <1>2

\* Terminal(m) of a message that adds up names the disposition that its
\* counts say, since a submission is of at least one invoice.
LEMMA TerminalOf ==
  ASSUME NEW m \in SummaryMessage, NEW expected \in UInt32, expected > 0,
         AddsUp(m, expected)
  PROVE  /\ Terminal(m) \in TerminalSummary
         /\ Terminal(m).message = m
         /\ Terminal(m).disposition = "AllGood"   <=> m.good.count = expected
         /\ Terminal(m).disposition = "AllFailed" <=> m.failed.count = expected
<1>1. /\ m.good.count \in Int /\ m.failed.count \in Int /\ expected \in Int
      /\ m.total.count \in Int
  BY ResultsAssumption DEF SummaryMessage, ResultDetail, Int32, UInt32
<1>2. expected = m.good.count + m.failed.count
  BY <1>1 DEF AddsUp
<1>3. /\ Terminal(m) \in TerminalSummary
      /\ Terminal(m).message = m
  BY DEF Terminal, TerminalSummary, Dispositions
<1>4. /\ m.failed.count = 0 => Terminal(m).disposition = "AllGood"
      /\ m.failed.count # 0 /\ m.good.count = 0 =>
           Terminal(m).disposition = "AllFailed"
      /\ m.failed.count # 0 /\ m.good.count # 0 =>
           Terminal(m).disposition = "PartialSuccess"
  BY DEF Terminal
<1>5. /\ m.failed.count = 0 <=> m.good.count = expected
      /\ m.good.count = 0 <=> m.failed.count = expected
      /\ ~(m.failed.count = 0 /\ m.good.count = 0)
  BY <1>1, <1>2
<1> QED
  BY <1>3, <1>4, <1>5

\* So does apply_summary_message, which closes an open record only with a
\* message that its checks accept.
LEMMA SummaryKeeps ==
  ASSUME NEW rec, Sound(rec), NEW m \in SummaryMessage
  PROVE  LET new == ApplySummaryMessage(rec, m).record
         IN  Sound(new) /\ Grows(rec, new)
<1> DEFINE new == ApplySummaryMessage(rec, m).record
           closed == [rec EXCEPT !.terminal = Terminal(m)]
           accepted == /\ m.id = MessageId
                       /\ ValidationIssues(m, rec.expected) = {}
                       /\ rec.terminal = None
<1>0. rec \in SubmissionRecord /\ rec.expected \in UInt32 /\ rec.expected > 0
  BY RecordFields DEF Sound
<1>1. new = rec \/ (accepted /\ new = AdvanceTransport(closed, SummaryObserved).record)
  BY DEF ApplySummaryMessage, Returned
<1>2. CASE new = rec
  BY <1>0, <1>2, RecordFields DEF Grows
<1>3. CASE accepted /\ new = AdvanceTransport(closed, SummaryObserved).record
  <2>1. AddsUp(m, rec.expected)
    BY <1>0, <1>3, ChecksExact
  <2>2. /\ Terminal(m) \in TerminalSummary
        /\ Terminal(m).message = m
        /\ Terminal(m).disposition = "AllGood"   <=> m.good.count = rec.expected
        /\ Terminal(m).disposition = "AllFailed" <=> m.failed.count = rec.expected
    BY <1>0, <2>1, TerminalOf
  <2>3. /\ closed \in SubmissionRecord
        /\ closed.expected = rec.expected
        /\ closed.transport = rec.transport
        /\ closed.processResults = rec.processResults
        /\ closed.terminal = Terminal(m)
    BY <1>0, <2>2 DEF SubmissionRecord
  <2>4. Sound(closed)
    BY <1>0, <1>3, <2>1, <2>2, <2>3 DEF Sound, Truthful, Distinct
  <2>5. Grows(rec, closed)
    BY <1>0, <1>3, <2>3, RecordFields DEF Grows
  <2>6. SummaryObserved \in TransportState
    BY DEF TransportState, Created, SummaryObserved
  <2>7. Sound(new) /\ Grows(closed, new)
    BY <1>3, <2>4, <2>6, AdvanceKeeps
  <2> QED
    BY <1>0, <2>3, <2>5, <2>7, GrowsTransitive DEF Sound
<1> QED
  BY <1>1, <1>2, <1>3

\* Any event that a record may be told.
AnyEvent ==
  Event("advance", Prepared .. Enqueued) \cup Event("process", ProcessResult)
    \cup Event("summaryMessage", SummaryMessage)
    \cup Event("summaryResult", Seq(SummaryMessage))

\* Every operation keeps a record sound and never takes it back.
LEMMA ApplyKeeps ==
  ASSUME NEW rec, Sound(rec), NEW e \in AnyEvent
  PROVE  LET new == Apply(rec, e).record
         IN  Sound(new) /\ Grows(rec, new)
<1>0. rec \in SubmissionRecord
  BY DEF Sound
<1>1. CASE e \in Event("advance", Prepared .. Enqueued)
  <2>1. e.kind = "advance" /\ e.of \in TransportState
    BY <1>1 DEF Event, TransportState, Created, Prepared, Enqueued, SummaryObserved
  <2>2. Apply(rec, e) = AdvanceTransport(rec, e.of)
    BY <2>1 DEF Apply
  <2> QED
    BY <2>1, <2>2, AdvanceKeeps
<1>2. CASE e \in Event("process", ProcessResult)
  <2>1. e.kind = "process" /\ e.of \in ProcessResult
    BY <1>2 DEF Event
  <2>2. Apply(rec, e) = ApplyProcessResult(rec, e.of)
    BY <2>1 DEF Apply
  <2> QED
    BY <2>1, <2>2, ProcessKeeps
<1>3. CASE e \in Event("summaryMessage", SummaryMessage)
  <2>1. e.kind = "summaryMessage" /\ e.of \in SummaryMessage
    BY <1>3 DEF Event
  <2>2. Apply(rec, e) = ApplySummaryMessage(rec, e.of)
    BY <2>1 DEF Apply
  <2> QED
    BY <2>1, <2>2, SummaryKeeps
<1>4. CASE e \in Event("summaryResult", Seq(SummaryMessage))
  <2>1. e.kind = "summaryResult" /\ e.of \in Seq(SummaryMessage)
    BY <1>4 DEF Event
  <2>2. Apply(rec, e) = ApplySummaryResult(rec, e.of)
    BY <2>1 DEF Apply
  <2>3. CASE ApplySummaryResult(rec, e.of).record = rec
    BY <1>0, <2>2, <2>3, RecordFields DEF Grows
  <2>4. CASE ApplySummaryResult(rec, e.of).record # rec
    <3>1. PICK i \in Matching(e.of) :
            ApplySummaryResult(rec, e.of) = ApplySummaryMessage(rec, e.of[i])
      BY <2>4 DEF ApplySummaryResult, Returned
    <3>2. e.of[i] \in SummaryMessage
      BY <2>1, <3>1 DEF Matching
    <3> QED
      BY <2>2, <3>1, <3>2, SummaryKeeps
  <2> QED
    BY <2>3, <2>4
<1> QED
  BY <1>1, <1>2, <1>3, <1>4 DEF AnyEvent

-----------------------------------------------------------------------------
(* What a record was told *)

\* The entry m for this submission closed the record.
Closes(rec, m) ==
  /\ m.id = MessageId
  /\ rec.terminal = Terminal(m)

\* The record shows that it was told e.
Says(rec, e) ==
  CASE e.kind = "advance"        -> rec.transport >= e.of
    [] e.kind = "process"        -> /\ e.of.id = MessageId
                                    /\ e.of \in Range(rec.processResults)
    [] e.kind = "summaryMessage" -> Closes(rec, e.of)
    [] e.kind = "summaryResult"  ->
         \E i \in Matching(e.of) : /\ \A j \in Matching(e.of) : j = i
                                   /\ Closes(rec, e.of[i])

\* What a record was told it goes on to say.
LEMMA SaysStays ==
  ASSUME NEW old \in SubmissionRecord, NEW new \in SubmissionRecord, Grows(old, new),
         NEW e \in AnyEvent, Says(old, e)
  PROVE  Says(new, e)
<1>1. /\ old.transport \in Int /\ new.transport \in Int /\ new.transport >= old.transport
      /\ Range(old.processResults) \subseteq Range(new.processResults)
      /\ old.terminal # None => new.terminal = old.terminal
  BY RecordFields DEF Grows, Range
<1>2. \A m \in SummaryMessage : Closes(old, m) => Closes(new, m)
  <2>1. \A m \in SummaryMessage : Terminal(m) # None
    BY RecordAssumption DEF Terminal, TerminalSummary, Dispositions
  <2> QED  BY <1>1, <2>1 DEF Closes
<1>3. CASE e \in Event("advance", Prepared .. Enqueued)
  <2>1. e.kind = "advance" /\ e.of \in Int
    BY <1>3 DEF Event, Prepared, Enqueued
  <2> QED  BY <1>1, <2>1 DEF Says
<1>4. CASE e \in Event("process", ProcessResult)
  <2>1. e.kind = "process"
    BY <1>4 DEF Event
  <2> QED  BY <1>1, <2>1 DEF Says
<1>5. CASE e \in Event("summaryMessage", SummaryMessage)
  <2>1. e.kind = "summaryMessage" /\ e.of \in SummaryMessage
    BY <1>5 DEF Event
  <2> QED  BY <1>2, <2>1 DEF Says
<1>6. CASE e \in Event("summaryResult", Seq(SummaryMessage))
  <2>1. e.kind = "summaryResult" /\ \A i \in Matching(e.of) : e.of[i] \in SummaryMessage
    BY <1>6 DEF Event, Matching
  <2> QED  BY <1>2, <2>1 DEF Says
<1> QED  BY <1>3, <1>4, <1>5, <1>6 DEF AnyEvent

\* advance_transport.
LEMMA AdvanceTells ==
  ASSUME NEW rec \in SubmissionRecord, NEW target \in Int
  PROVE  LET applied == AdvanceTransport(rec, target) IN
         /\ applied.result \in Done
         /\ applied.record.transport >= target
         /\ rec.transport >= target => applied.record = rec
<1>1. rec.transport \in Int
  BY RecordFields
<1>2. CASE target > rec.transport
  <2>1. [rec EXCEPT !.transport = target].transport = target
    BY DEF SubmissionRecord
  <2> QED  BY <1>1, <1>2, <2>1 DEF AdvanceTransport, Returned, Done
<1>3. CASE ~ (target > rec.transport)
  BY <1>1, <1>3 DEF AdvanceTransport, Returned, Done
<1> QED  BY <1>2, <1>3

\* apply_process_result: what was listed is found listed.
LEMMA ProcessTells ==
  ASSUME NEW rec \in SubmissionRecord, NEW p \in ProcessResult
  PROVE  LET applied == ApplyProcessResult(rec, p)
             Lists(r) == p.id = MessageId /\ p \in Range(r.processResults)
         IN  /\ applied.result \in Done => Lists(applied.record)
             /\ Lists(rec) => applied.result \in Done /\ applied.record = rec
<1> DEFINE applied == ApplyProcessResult(rec, p)
           listed  == [rec EXCEPT !.processResults = Append(@, p)]
<1>1. CASE p.id # MessageId
  BY <1>1 DEF ApplyProcessResult, Returned, Done
<1>2. CASE p.id = MessageId /\ p \in Range(rec.processResults)
  BY <1>2 DEF ApplyProcessResult, Returned, Done
<1>3. CASE p.id = MessageId /\ p \notin Range(rec.processResults)
  <2>1. applied.record = AdvanceTransport(listed, ProcessObserved).record
    BY <1>3 DEF ApplyProcessResult, Returned
  <2>2. listed.processResults = Append(rec.processResults, p)
    BY DEF SubmissionRecord
  <2>3. AdvanceTransport(listed, ProcessObserved).record.processResults = listed.processResults
    <3>1. listed \in SubmissionRecord
      <4>1. Append(rec.processResults, p) \in Seq(ProcessResult)
        BY RecordFields
      <4> QED  BY <4>1 DEF SubmissionRecord
    <3> HIDE DEF listed
    <3> QED  BY <3>1 DEF AdvanceTransport, Returned, SubmissionRecord
  <2>4. Append(rec.processResults, p)[Len(rec.processResults) + 1] = p
        /\ Len(rec.processResults) + 1 \in DOMAIN Append(rec.processResults, p)
    BY RecordFields
  <2>5. p \in Range(applied.record.processResults)
    BY <2>1, <2>2, <2>3, <2>4 DEF Range
  <2> HIDE DEF listed
  <2> QED  BY <1>3, <2>5
<1> QED  BY <1>1, <1>2, <1>3

\* apply_summary_message: what closed the record is found to have closed it.
LEMMA SummaryTells ==
  ASSUME NEW rec, Sound(rec), NEW m \in SummaryMessage
  PROVE  LET applied == ApplySummaryMessage(rec, m)
         IN  /\ applied.result \in Done => Closes(applied.record, m)
             /\ Closes(rec, m) => applied.result \in Done /\ applied.record = rec
<1> DEFINE applied == ApplySummaryMessage(rec, m)
           closed  == [rec EXCEPT !.terminal = Terminal(m)]
<1>0. rec \in SubmissionRecord /\ rec.expected \in UInt32
  BY RecordFields DEF Sound
<1>1. applied.result \in Done => Closes(applied.record, m)
  <2>1. SUFFICES ASSUME applied.result \in Done
                 PROVE  Closes(applied.record, m)
    OBVIOUS
  <2>2. m.id = MessageId
    BY <2>1 DEF ApplySummaryMessage, Returned, Done
  <2>3. \/ applied.record = rec /\ rec.terminal = Terminal(m)
        \/ /\ applied.record = AdvanceTransport(closed, SummaryObserved).record
           /\ ValidationIssues(m, rec.expected) = {}
    BY <2>1 DEF ApplySummaryMessage, Returned, Done
  <2>4. CASE applied.record = rec /\ rec.terminal = Terminal(m)
    BY <2>2, <2>4 DEF Closes
  <2>5. CASE applied.record = AdvanceTransport(closed, SummaryObserved).record
             /\ ValidationIssues(m, rec.expected) = {}
    <3>1. Terminal(m) \in TerminalSummary
      BY DEF Terminal, TerminalSummary, Dispositions
    <3>2. closed \in SubmissionRecord /\ closed.terminal = Terminal(m)
      BY <1>0, <3>1 DEF SubmissionRecord
    <3>3. AdvanceTransport(closed, SummaryObserved).record.terminal = closed.terminal
      <4> HIDE DEF closed
      <4> QED  BY <3>2 DEF AdvanceTransport, Returned, SubmissionRecord
    <3> QED  BY <2>2, <2>5, <3>2, <3>3 DEF Closes
  <2> QED  BY <2>3, <2>4, <2>5
<1>2. ASSUME Closes(rec, m)  PROVE applied.result \in Done /\ applied.record = rec
  <2>1. rec.terminal = Terminal(m) /\ m.id = MessageId
    BY <1>2 DEF Closes
  <2>2. Terminal(m) # None /\ Terminal(m).message = m
    BY RecordAssumption DEF Terminal, TerminalSummary, Dispositions
  <2>3. AddsUp(m, rec.expected)
    BY <2>1, <2>2 DEF Sound, Truthful
  <2>4. ValidationIssues(m, rec.expected) = {}
    BY <1>0, <2>3, ChecksExact
  <2>5. ~ SumPanics(m)
    <3>1. m.total.count \in Int32 /\ m.total.count = m.good.count + m.failed.count
      BY <2>3 DEF AddsUp, SummaryMessage, ResultDetail
    <3> QED  BY <3>1 DEF SumPanics
  <2> QED  BY <2>1, <2>4, <2>5 DEF ApplySummaryMessage, Returned, Done
<1> QED  BY <1>1, <1>2

\* apply_summary_result: its one entry for the submission is applied.
LEMMA ResultTells ==
  ASSUME NEW rec, Sound(rec), NEW s \in Seq(SummaryMessage)
  PROVE  LET applied == ApplySummaryResult(rec, s)
             Closed(r) == \E i \in Matching(s) : /\ \A j \in Matching(s) : j = i
                                                 /\ Closes(r, s[i])
         IN  /\ applied.result \in Done => Closed(applied.record)
             /\ Closed(rec) => applied.result \in Done /\ applied.record = rec
<1> DEFINE i == CHOOSE k \in Matching(s) : TRUE
<1>1. CASE Matching(s) = {}
  BY <1>1 DEF ApplySummaryResult, Returned, Done
<1>2. CASE \E j, k \in Matching(s) : j # k
  BY <1>2 DEF ApplySummaryResult, Returned, Done
<1>3. CASE Matching(s) # {} /\ \A j, k \in Matching(s) : j = k
  <2>1. i \in Matching(s) /\ \A j \in Matching(s) : j = i
    BY <1>3
  <2>2. ApplySummaryResult(rec, s) = ApplySummaryMessage(rec, s[i])
    BY <1>3 DEF ApplySummaryResult
  <2>3. s[i] \in SummaryMessage
    BY <2>1 DEF Matching
  <2> HIDE DEF i
  <2> QED  BY <2>1, <2>2, <2>3, SummaryTells
<1> QED  BY <1>1, <1>2, <1>3

\* An operation that succeeds leaves a record that says so, and is found done
\* by the record that says so.
LEMMA ApplyTells ==
  ASSUME NEW rec, Sound(rec), NEW e \in AnyEvent
  PROVE  /\ Apply(rec, e).result \in Done => Says(Apply(rec, e).record, e)
         /\ Says(rec, e) => Apply(rec, e).result \in Done /\ Apply(rec, e).record = rec
<1>0. rec \in SubmissionRecord
  BY DEF Sound
<1>1. CASE e \in Event("advance", Prepared .. Enqueued)
  <2>1. e.kind = "advance" /\ e.of \in Int
    BY <1>1 DEF Event, Prepared, Enqueued
  <2> QED  BY <1>0, <2>1, AdvanceTells DEF Apply, Says
<1>2. CASE e \in Event("process", ProcessResult)
  <2>1. e.kind = "process" /\ e.of \in ProcessResult
    BY <1>2 DEF Event
  <2> QED  BY <1>0, <2>1, ProcessTells DEF Apply, Says
<1>3. CASE e \in Event("summaryMessage", SummaryMessage)
  <2>1. e.kind = "summaryMessage" /\ e.of \in SummaryMessage
    BY <1>3 DEF Event
  <2> QED  BY <2>1, SummaryTells DEF Apply, Says
<1>4. CASE e \in Event("summaryResult", Seq(SummaryMessage))
  <2>1. e.kind = "summaryResult" /\ e.of \in Seq(SummaryMessage)
    BY <1>4 DEF Event
  <2> QED  BY <2>1, ResultTells DEF Apply, Says
<1> QED  BY <1>1, <1>2, <1>3, <1>4 DEF AnyEvent

-----------------------------------------------------------------------------
(* How far an operation takes a record *)

\* The transport state that an event implies.
Level(e) == CASE e.kind = "advance" -> e.of
              [] e.kind = "process" -> ProcessObserved
              [] OTHER              -> SummaryObserved

\* What was received was observed.
Observed(rec) ==
  /\ rec.processResults # <<>> => rec.transport >= ProcessObserved
  /\ rec.terminal # None => rec.transport >= SummaryObserved

\* A record goes to the level of the event, unless it is there or beyond.
LEMMA AdvanceLevels ==
  ASSUME NEW rec \in SubmissionRecord, NEW target \in TransportState
  PROVE  LET new == AdvanceTransport(rec, target).record
         IN  /\ new.transport = IF target > rec.transport THEN target ELSE rec.transport
             /\ new.processResults = rec.processResults
             /\ new.terminal = rec.terminal
BY DEF AdvanceTransport, Returned, SubmissionRecord

\* The same for a result of the platform; it adds itself to what is listed.
LEMMA ProcessLevels ==
  ASSUME NEW rec \in SubmissionRecord, Observed(rec), NEW p \in ProcessResult,
         ApplyProcessResult(rec, p).result \in Done
  PROVE  LET new == ApplyProcessResult(rec, p).record
         IN  /\ new.transport >= ProcessObserved
             /\ new.transport = rec.transport \/ new.transport = ProcessObserved
             /\ Observed(new)
             /\ Range(new.processResults) \subseteq Range(rec.processResults) \cup {p}
             /\ new.terminal = rec.terminal
<1> DEFINE new    == ApplyProcessResult(rec, p).record
           listed == [rec EXCEPT !.processResults = Append(@, p)]
<1>0. rec.transport \in Int /\ rec.processResults \in Seq(ProcessResult)
  BY RecordFields
<1>1. CASE p \in Range(rec.processResults)
  <2>1. new = rec
    BY <1>1 DEF ApplyProcessResult, Returned, Done
  <2>2. rec.processResults # <<>>
    BY <1>1 DEF Range
  <2> QED  BY <2>1, <2>2 DEF Observed
<1>2. CASE p \notin Range(rec.processResults)
  <2>1. new = AdvanceTransport(listed, ProcessObserved).record
    BY <1>2 DEF ApplyProcessResult, Returned, Done
  <2>2. /\ listed \in SubmissionRecord /\ listed.transport = rec.transport
        /\ listed.processResults = Append(rec.processResults, p)
        /\ listed.terminal = rec.terminal
    <3>1. Append(rec.processResults, p) \in Seq(ProcessResult)
      BY <1>0
    <3> QED  BY <3>1 DEF SubmissionRecord
  <2>3. ProcessObserved \in TransportState
    BY DEF ProcessObserved, TransportState, Created, SummaryObserved
  <2> HIDE DEF listed
  <2>4. /\ new.transport = IF ProcessObserved > rec.transport THEN ProcessObserved
                           ELSE rec.transport
        /\ new.processResults = Append(rec.processResults, p)
        /\ new.terminal = rec.terminal
    BY <2>1, <2>2, <2>3, AdvanceLevels
  <2>5. Range(new.processResults) \subseteq Range(rec.processResults) \cup {p}
    BY <1>0, <2>4 DEF Range
  <2>6. new.transport >= ProcessObserved /\ new.transport >= rec.transport
    BY <1>0, <2>4 DEF ProcessObserved
  <2>7. rec.terminal # None => new.transport >= SummaryObserved
    BY <1>0, <2>4, <2>6 DEF Observed, SummaryObserved, ProcessObserved
  <2> QED  BY <2>4, <2>5, <2>6, <2>7 DEF Observed
<1> QED  BY <1>1, <1>2

\* The same for a summary.
LEMMA SummaryLevels ==
  ASSUME NEW rec, Sound(rec), Observed(rec), NEW m \in SummaryMessage,
         ApplySummaryMessage(rec, m).result \in Done
  PROVE  LET new == ApplySummaryMessage(rec, m).record
         IN  /\ new.transport >= SummaryObserved
             /\ new.transport = rec.transport \/ new.transport = SummaryObserved
             /\ Observed(new)
             /\ new.processResults = rec.processResults
<1> DEFINE new    == ApplySummaryMessage(rec, m).record
           closed == [rec EXCEPT !.terminal = Terminal(m)]
<1>0. /\ rec \in SubmissionRecord /\ rec.transport \in Int
      /\ Terminal(m) \in TerminalSummary /\ Terminal(m) # None
  BY RecordFields, RecordAssumption DEF Sound, Terminal, TerminalSummary, Dispositions
<1>1. \/ new = rec /\ rec.terminal = Terminal(m)
      \/ new = AdvanceTransport(closed, SummaryObserved).record
  BY DEF ApplySummaryMessage, Returned, Done
<1>2. CASE new = rec /\ rec.terminal = Terminal(m)
  BY <1>0, <1>2 DEF Observed
<1>3. CASE new = AdvanceTransport(closed, SummaryObserved).record
  <2>1. /\ closed \in SubmissionRecord /\ closed.transport = rec.transport
        /\ closed.processResults = rec.processResults
    BY <1>0 DEF SubmissionRecord
  <2>2. SummaryObserved \in TransportState
    BY DEF TransportState, Created, SummaryObserved
  <2> HIDE DEF closed
  <2>3. /\ new.transport = IF SummaryObserved > rec.transport THEN SummaryObserved
                           ELSE rec.transport
        /\ new.processResults = rec.processResults
    BY <1>3, <2>1, <2>2, AdvanceLevels
  <2>4. new.transport >= SummaryObserved /\ new.transport >= ProcessObserved
    BY <1>0, <2>3 DEF SummaryObserved, ProcessObserved
  <2> QED  BY <2>3, <2>4 DEF Observed
<1> QED  BY <1>1, <1>2, <1>3

LEMMA ApplyLevels ==
  ASSUME NEW rec, Sound(rec), Observed(rec), NEW e \in AnyEvent,
         Apply(rec, e).result \in Done
  PROVE  LET new == Apply(rec, e).record
         IN  /\ new.transport >= Level(e)
             /\ new.transport = rec.transport \/ new.transport = Level(e)
             /\ Observed(new)
             /\ Range(new.processResults) \subseteq
                  Range(rec.processResults) \cup (IF e.kind = "process" THEN {e.of} ELSE {})
             /\ new.terminal # rec.terminal => e.kind \in {"summaryMessage", "summaryResult"}
<1>0. rec \in SubmissionRecord /\ rec.transport \in Int
  BY RecordFields DEF Sound
<1>1. CASE e \in Event("advance", Prepared .. Enqueued)
  <2>1. e.kind = "advance" /\ e.of \in TransportState /\ e.of \in Int
    BY <1>1 DEF Event, TransportState, Created, Prepared, Enqueued, SummaryObserved
  <2> DEFINE new == AdvanceTransport(rec, e.of).record
  <2>2. Apply(rec, e).record = new /\ Level(e) = e.of
    BY <2>1 DEF Apply, Level
  <2>3. /\ new.transport = IF e.of > rec.transport THEN e.of ELSE rec.transport
        /\ new.processResults = rec.processResults /\ new.terminal = rec.terminal
    BY <1>0, <2>1, AdvanceLevels
  <2> HIDE DEF new
  <2>4. Observed(new)
    BY <1>0, <2>1, <2>3 DEF Observed, ProcessObserved, SummaryObserved
  <2> QED  BY <1>0, <2>1, <2>2, <2>3, <2>4
<1>2. CASE e \in Event("process", ProcessResult)
  <2>1. e.kind = "process" /\ e.of \in ProcessResult
    BY <1>2 DEF Event
  <2>2. Apply(rec, e) = ApplyProcessResult(rec, e.of) /\ Level(e) = ProcessObserved
    BY <2>1 DEF Apply, Level
  <2> QED  BY <1>0, <2>1, <2>2, ProcessLevels
<1>3. CASE e \in Event("summaryMessage", SummaryMessage)
  <2>1. e.kind = "summaryMessage" /\ e.of \in SummaryMessage
    BY <1>3 DEF Event
  <2>2. Apply(rec, e) = ApplySummaryMessage(rec, e.of) /\ Level(e) = SummaryObserved
    BY <2>1 DEF Apply, Level
  <2> QED  BY <2>1, <2>2, SummaryLevels
<1>4. CASE e \in Event("summaryResult", Seq(SummaryMessage))
  <2>1. e.kind = "summaryResult" /\ e.of \in Seq(SummaryMessage)
    BY <1>4 DEF Event
  <2>2. Apply(rec, e) = ApplySummaryResult(rec, e.of) /\ Level(e) = SummaryObserved
    BY <2>1 DEF Apply, Level
  <2>3. PICK i \in Matching(e.of) :
          ApplySummaryResult(rec, e.of) = ApplySummaryMessage(rec, e.of[i])
    BY <2>2 DEF ApplySummaryResult, Returned, Done
  <2>4. e.of[i] \in SummaryMessage
    BY <2>1, <2>3 DEF Matching
  <2> QED  BY <2>1, <2>2, <2>3, <2>4, SummaryLevels
<1> QED  BY <1>1, <1>2, <1>3, <1>4 DEF AnyEvent
=============================================================================
