-------------------------- MODULE SubmissionProofs --------------------------
(***************************************************************************)
(* Theorems about Submission, for any width of the counts, any quantities  *)
(* and any events: a record is truthful, keeps no replay twice, only       *)
(* grows, and is what its events say, whatever their order.                *)
(*                                                                         *)
(* The lemmas about each operation are in RecordProofs; the theorems       *)
(* follow, since Next only applies operations.                             *)
(***************************************************************************)
EXTENDS Submission, RecordProofs

LEMMA EventsOfAnyKind == Events \subseteq AnyEvent
BY SubmissionAssumption DEF Events, AnyEvent, Event

-----------------------------------------------------------------------------
(* Theorems *)

SoundSubmission ==
  /\ record # None => Sound(record)
  /\ told \subseteq Events

\* There is no record at first.
LEMMA SoundInit == Init => SoundSubmission
BY DEF Init, SoundSubmission

\* A step creates a sound record or lets one grow.
LEMMA SoundStep ==
  ASSUME SoundSubmission, [Next]_vars
  PROVE  /\ SoundSubmission'
         /\ record # None => record' # None /\ Grows(record, record')
<1>1. ASSUME NEW quantity \in Quantities, Create(quantity)
      PROVE  /\ SoundSubmission'
             /\ record # None => record' # None /\ Grows(record, record')
  <2>1. record = None /\ record' = NewRecord(quantity) /\ quantity > 0
        /\ told' = told /\ quantity \in UInt32
    BY <1>1, SubmissionAssumption DEF Create
  <2>2. Sound(NewRecord(quantity))
    BY <2>1 DEF Sound, Truthful, Distinct, NewRecord, SubmissionRecord,
                TransportState, Created, SummaryObserved
  <2> QED
    BY <2>1, <2>2 DEF SoundSubmission
<1>2. ASSUME NEW e \in Events, Handle(e)
      PROVE  /\ SoundSubmission'
             /\ record # None => record' # None /\ Grows(record, record')
  <2>1. /\ record # None /\ record' = Apply(record, e).record
        /\ told' = told \cup {e}
    BY <1>2 DEF Handle
  <2>2. Sound(record') /\ Grows(record, record')
    BY <2>1, ApplyKeeps, EventsOfAnyKind DEF SoundSubmission
  <2>3. record' # None
    BY <2>2, RecordFields DEF Sound
  <2> QED
    BY <2>1, <2>2, <2>3 DEF SoundSubmission
<1>3. CASE UNCHANGED vars
  <2>1. record # None => Grows(record, record)
    BY RecordFields DEF SoundSubmission, Sound, Grows
  <2> QED
    BY <1>3, <2>1 DEF vars, SoundSubmission
<1> QED
  BY <1>1, <1>2, <1>3 DEF Next

\* The record is sound from its creation on, whatever it is told.
THEOREM SubmissionSound == Spec => []SoundSubmission
BY SoundInit, SoundStep, PTL DEF Spec

\* Type correctness of the record and of the events it was told.
THEOREM TypeCorrect == Spec => []TypeOK
<1>1. SoundSubmission => TypeOK
  BY DEF SoundSubmission, Sound, TypeOK
<1> QED
  BY <1>1, SubmissionSound, PTL

\* No summary closes a record unless it adds up over the whole numbers to
\* the submitted quantity, whatever the width of the counts.
THEOREM SummariesTruthful == Spec => []TerminalTruthful
<1>1. SoundSubmission => TerminalTruthful
  BY DEF SoundSubmission, Sound, Truthful, TerminalTruthful
<1> QED
  BY <1>1, SubmissionSound, PTL

\* A process result that comes again is listed once.
THEOREM ReplaysListedOnce == Spec => []NoReplayListed
<1>1. SoundSubmission => NoReplayListed
  BY DEF SoundSubmission, Sound, Distinct, NoReplayListed
<1> QED
  BY <1>1, SubmissionSound, PTL

\* Nothing that a record was told is ever taken back or overwritten.
THEOREM HistoryKept == Spec => RecordOnlyGrows
<1>1. SoundSubmission /\ [Next]_vars =>
        [record # None => record' # None /\ Grows(record, record')]_vars
  BY SoundStep
<1> QED
  BY <1>1, SubmissionSound, PTL DEF Spec, RecordOnlyGrows

-----------------------------------------------------------------------------
(* The record is what its events say *)

\* Every event that was told is in the record, and the record has nothing
\* that no event told it.
Accounted ==
  /\ record = None => told = {}
  /\ record # None =>
       /\ Observed(record)
       /\ \A e \in told : Says(record, e) /\ record.transport >= Level(e)
       /\ record.transport = Created \/ \E e \in told : record.transport = Level(e)
       /\ Range(record.processResults) \subseteq ToldOf("process")
       /\ record.terminal # None =>
            \E e \in told : e.kind \in {"summaryMessage", "summaryResult"}

LEMMA AccountedInit == Init => Accounted
BY DEF Init, Accounted

LEMMA AccountedCreate ==
  ASSUME Accounted, NEW quantity \in Quantities, Create(quantity)
  PROVE  Accounted'
<1>1. /\ told' = {} /\ record' = NewRecord(quantity) /\ record' # None
  <2>1. NewRecord(quantity) \in SubmissionRecord
    BY SubmissionAssumption
       DEF NewRecord, SubmissionRecord, TransportState, Created, SummaryObserved
  <2> QED  BY <2>1, RecordFields DEF Create, Accounted
<1>2. /\ record'.transport = Created /\ record'.processResults = <<>>
      /\ record'.terminal = None
  BY <1>1 DEF NewRecord
<1> QED  BY <1>1, <1>2 DEF Accounted, Observed, Range

LEMMA AccountedHandle ==
  ASSUME SoundSubmission, Accounted, NEW e \in Events, Handle(e)
  PROVE  Accounted'
<1>1. /\ record # None /\ Sound(record) /\ e \in AnyEvent /\ told \subseteq AnyEvent
      /\ Apply(record, e).result \in Done
      /\ record' = Apply(record, e).record /\ told' = told \cup {e}
  BY EventsOfAnyKind DEF SoundSubmission, Handle
<1>2. /\ Sound(record') /\ Grows(record, record') /\ Says(record', e)
      /\ record \in SubmissionRecord /\ record' \in SubmissionRecord
      /\ record.transport \in Int /\ record'.transport \in Int /\ record' # None
      /\ record'.transport >= record.transport
  <2>1. Sound(record') /\ Grows(record, record') /\ Says(record', e)
    BY <1>1, ApplyKeeps, ApplyTells
  <2> QED  BY <1>1, <2>1, RecordFields DEF Sound, Grows
<1>3. /\ record'.transport >= Level(e)
      /\ record'.transport = record.transport \/ record'.transport = Level(e)
      /\ Observed(record')
      /\ Range(record'.processResults) \subseteq
           Range(record.processResults) \cup (IF e.kind = "process" THEN {e.of} ELSE {})
      /\ record'.terminal # record.terminal => e.kind \in {"summaryMessage", "summaryResult"}
  BY <1>1, ApplyLevels DEF Accounted
<1>4. ASSUME NEW d \in told'  PROVE Says(record', d) /\ record'.transport >= Level(d)
  <2>1. CASE d = e
    BY <1>2, <1>3, <2>1
  <2>2. CASE d \in told
    <3>1. Says(record, d) /\ record.transport >= Level(d) /\ d \in AnyEvent
      BY <1>1, <2>2 DEF Accounted
    <3>2. Level(d) \in Int
      BY <3>1 DEF Level, AnyEvent, Event, Prepared, Enqueued, ProcessObserved, SummaryObserved
    <3> QED  BY <1>2, <3>1, <3>2, SaysStays
  <2> QED  BY <1>1, <1>4, <2>1, <2>2
<1>5. record'.transport = Created \/ \E d \in told' : record'.transport = Level(d)
  BY <1>1, <1>3 DEF Accounted
<1>6. Range(record'.processResults) \subseteq ToldOf("process")'
  BY <1>1, <1>3 DEF Accounted, ToldOf
<1>7. record'.terminal # None =>
        \E d \in told' : d.kind \in {"summaryMessage", "summaryResult"}
  BY <1>1, <1>3 DEF Accounted
<1> QED  BY <1>2, <1>3, <1>4, <1>5, <1>6, <1>7 DEF Accounted

LEMMA AccountedStep == SoundSubmission /\ Accounted /\ [Next]_vars => Accounted'
<1> SUFFICES ASSUME SoundSubmission, Accounted, [Next]_vars  PROVE Accounted'
  OBVIOUS
<1>1. CASE UNCHANGED vars
  BY <1>1 DEF vars, Accounted, ToldOf
<1>2. CASE Next
  BY <1>2, AccountedCreate, AccountedHandle DEF Next
<1> QED  BY <1>1, <1>2

\* The one entry that closed the record is the entry of every summary that
\* was told.
LEMMA EntriesAgree ==
  ASSUME SoundSubmission, Accounted, record # None
  PROVE  ToldEntries = IF record.terminal = None THEN {} ELSE {record.terminal.message}
<1> USE DEF SoundSubmission
<1>1. told \subseteq AnyEvent
  BY EventsOfAnyKind
<1>2. \A m \in SummaryMessage : Terminal(m) # None /\ Terminal(m).message = m
  BY RecordAssumption DEF Terminal, TerminalSummary, Dispositions
<1>3. ASSUME NEW m \in ToldEntries  PROVE record.terminal # None /\ m = record.terminal.message
  <2>1. CASE \E e \in told : e.kind = "summaryMessage" /\ e.of = m
    <3>1. PICK e \in told : e.kind = "summaryMessage" /\ e.of = m
      BY <2>1
    <3>2. m \in SummaryMessage
      BY <1>1, <3>1 DEF AnyEvent, Event
    <3>3. Closes(record, m)
      BY <3>1 DEF Accounted, Says
    <3> QED  BY <1>2, <3>2, <3>3 DEF Closes
  <2>2. CASE \E e \in told : e.kind = "summaryResult" /\ m \in Range(e.of)
    <3>1. PICK e \in told : e.kind = "summaryResult" /\ m \in Range(e.of)
      BY <2>2
    <3>2. e.of \in Seq(SummaryMessage)
      BY <1>1, <3>1 DEF AnyEvent, Event
    <3>3. PICK j \in DOMAIN e.of : m = e.of[j]
      BY <3>1 DEF Range
    <3>4. j \in Matching(e.of) /\ m \in SummaryMessage
      BY <3>2, <3>3 DEF ToldEntries, Matching
    <3>5. Closes(record, m)
      <4>1. Says(record, e)
        BY DEF Accounted
      <4>2. \E i \in Matching(e.of) : /\ \A k \in Matching(e.of) : k = i
                                      /\ Closes(record, e.of[i])
        BY <3>1, <4>1 DEF Says
      <4> QED  BY <3>3, <3>4, <4>2
    <3> QED  BY <1>2, <3>4, <3>5 DEF Closes
  <2> QED  BY <2>1, <2>2 DEF ToldEntries, ToldOf
<1>4. ASSUME record.terminal # None  PROVE \E m : m \in ToldEntries
  <2>1. PICK e \in told : e.kind \in {"summaryMessage", "summaryResult"}
    BY <1>4 DEF Accounted
  <2>2. Says(record, e)
    BY DEF Accounted
  <2>3. CASE e.kind = "summaryMessage"
    <3>1. e.of.id = MessageId
      BY <2>2, <2>3 DEF Says, Closes
    <3> QED  BY <2>3, <3>1 DEF ToldEntries, ToldOf
  <2>4. CASE e.kind = "summaryResult"
    <3>1. PICK i \in Matching(e.of) : Closes(record, e.of[i])
      BY <2>2, <2>4 DEF Says
    <3>2. e.of[i] \in Range(e.of) /\ e.of[i].id = MessageId
      BY <3>1 DEF Matching, Range, Closes
    <3> QED  BY <2>4, <3>2 DEF ToldEntries, ToldOf
  <2> QED  BY <2>1, <2>3, <2>4
<1> QED  BY <1>3, <1>4

\* A record is what its events say: neither their order nor their number can
\* be told from it.
THEOREM OrderTellsNothing == Spec => []OrderIrrelevant
<1>1. ASSUME SoundSubmission, Accounted, record # None
      PROVE  LET implied == {Created} \cup ToldOf("advance")
                   \cup {ProcessObserved : p \in ToldOf("process")}
                   \cup {SummaryObserved : m \in ToldEntries}
             IN  /\ record.transport \in implied
                 /\ \A state \in implied : record.transport >= state
                 /\ Range(record.processResults) = ToldOf("process")
  <2> DEFINE implied == {Created} \cup ToldOf("advance")
               \cup {ProcessObserved : p \in ToldOf("process")}
               \cup {SummaryObserved : m \in ToldEntries}
  <2>1. record.transport \in Int /\ record.transport >= Created /\ told \subseteq AnyEvent
    BY <1>1, EventsOfAnyKind, RecordFields
    DEF SoundSubmission, Sound, TransportState, Created, SummaryObserved
  <2>2. \A e \in told : e.kind \in {"advance", "process", "summaryMessage", "summaryResult"}
    BY <2>1 DEF AnyEvent, Event
  <2>3. ToldEntries # {} <=> \E e \in told : e.kind \in {"summaryMessage", "summaryResult"}
    <3>1. ToldEntries # {} => \E e \in told : e.kind \in {"summaryMessage", "summaryResult"}
      BY DEF ToldEntries, ToldOf
    <3>2. ASSUME NEW e \in told, e.kind \in {"summaryMessage", "summaryResult"}
          PROVE  ToldEntries # {}
      <4>1. Says(record, e)
        BY <1>1 DEF Accounted
      <4>2. \E m : Closes(record, m) /\ Terminal(m) # None
        <5>1. \A m \in SummaryMessage : Terminal(m) # None
          BY RecordAssumption DEF Terminal, TerminalSummary, Dispositions
        <5>2. CASE e.kind = "summaryMessage"
          BY <2>1, <4>1, <5>1, <5>2 DEF Says, AnyEvent, Event
        <5>3. CASE e.kind = "summaryResult"
          <6>1. e.of \in Seq(SummaryMessage)
            BY <2>1, <5>3 DEF AnyEvent, Event
          <6>2. PICK i \in Matching(e.of) : Closes(record, e.of[i])
            BY <4>1, <5>3 DEF Says
          <6> QED  BY <5>1, <6>1, <6>2 DEF Matching
        <5> QED  BY <3>2, <5>2, <5>3
      <4> QED  BY <1>1, <4>2, EntriesAgree DEF Closes
    <3> QED  BY <3>1, <3>2
  <2>4. implied = {Created} \cup {Level(e) : e \in told}
    <3>1. \A e \in told : Level(e) \in implied
      BY <2>2, <2>3 DEF Level, ToldOf
    <3>2. \A state \in implied : state = Created \/ \E e \in told : state = Level(e)
      BY <2>3 DEF Level, ToldOf
    <3> QED  BY <3>1, <3>2
  <2>5. record.transport \in implied /\ \A state \in implied : record.transport >= state
    BY <1>1, <2>1, <2>4 DEF Accounted
  <2>6. Range(record.processResults) = ToldOf("process")
    BY <1>1 DEF Accounted, ToldOf, Says
  <2> QED  BY <2>5, <2>6
<1>2. SoundSubmission /\ Accounted => OrderIrrelevant
  BY <1>1, EntriesAgree DEF OrderIrrelevant
<1> QED
  BY <1>2, AccountedInit, AccountedStep, SubmissionSound, PTL DEF Spec
=============================================================================
