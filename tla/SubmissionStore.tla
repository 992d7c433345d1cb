--------------------------- MODULE SubmissionStore ---------------------------
(***************************************************************************)
(* Workers that apply events to one submission through the SubmissionStore *)
(* of crates/einvoice-state: load, apply, compare_and_swap, and again from *)
(* the load when another worker was faster.  The store is that of the      *)
(* trait's documentation and of the tests (MemoryStore); a write may fail, *)
(* with or without effect, and a worker may die at any step.               *)
(*                                                                         *)
(* The loop around load and compare_and_swap belongs to the caller of the  *)
(* crate; the model has the one that the trait is made for.  All workers   *)
(* together implement Submission, where each event is applied at once.     *)
(***************************************************************************)
EXTENDS SubmissionRecord

CONSTANTS
  Workers,
  Quantities, Progress, ProcessResults, SummaryMessages, SummaryResults

VARIABLES
  row,      \* the VersionedSubmission in the store, or None
  told,     \* history: the events the row was told
  acked,    \* history: the events whose workers reported success
  pc,       \* where each worker is
  task,     \* the event a worker applies, or the creation of the record
  loaded,   \* the VersionedSubmission it loaded, or None
  draft     \* the SubmissionRecord it is about to write

workerVars == <<pc, task, loaded, draft>>

vars == <<row, told, acked, workerVars>>

StoredRecord == IF row = None THEN None ELSE row.record

Atomic == INSTANCE Submission WITH record <- StoredRecord

Events == Atomic!Events

VersionedSubmission == [revision : Nat, record : SubmissionRecord]

ASSUME StoreAssumption ==
  /\ Quantities \subseteq UInt32
  /\ Progress \subseteq Prepared .. Enqueued
  /\ ProcessResults \subseteq ProcessResult
  /\ SummaryMessages \subseteq SummaryMessage
  /\ SummaryResults \subseteq Seq(SummaryMessage)
  /\ None \notin Nat \cup VersionedSubmission

Tasks == Events \cup Event("create", Quantities)

TypeOK ==
  /\ row    \in VersionedSubmission \cup {None}
  /\ told   \subseteq Events
  /\ acked  \subseteq Events
  /\ pc     \in [Workers -> {"idle", "loading", "applying", "writing"}]
  /\ task   \in [Workers -> Tasks \cup {None}]
  /\ loaded \in [Workers -> VersionedSubmission \cup {None}]
  /\ draft  \in [Workers -> SubmissionRecord \cup {None}]

Init ==
  /\ row    = None
  /\ told   = {}
  /\ acked  = {}
  /\ pc     = [w \in Workers |-> "idle"]
  /\ task   = [w \in Workers |-> None]
  /\ loaded = [w \in Workers |-> None]
  /\ draft  = [w \in Workers |-> None]

-----------------------------------------------------------------------------
(* One worker *)

Goto(w, there) == pc' = [pc EXCEPT ![w] = there]

\* The worker is done with its task and forgets about it.
Rest(w) ==
  /\ Goto(w, "idle")
  /\ task'   = [task EXCEPT ![w] = None]
  /\ loaded' = [loaded EXCEPT ![w] = None]
  /\ draft'  = [draft EXCEPT ![w] = None]

\* A new submission is written create-only; there is nothing to load.
BeginCreate(w, quantity) ==
  /\ pc[w] = "idle"
  /\ quantity > 0
  /\ task'  = [task EXCEPT ![w] = [kind |-> "create", of |-> quantity]]
  /\ draft' = [draft EXCEPT ![w] = NewRecord(quantity)]
  /\ Goto(w, "writing")
  /\ UNCHANGED <<row, told, acked, loaded>>

\* An event arrives: a new one, a late one or one that arrived before.
Deliver(w, e) ==
  /\ pc[w] = "idle"
  /\ task' = [task EXCEPT ![w] = e]
  /\ Goto(w, "loading")
  /\ UNCHANGED <<row, told, acked, loaded, draft>>

Load(w) ==
  /\ pc[w] = "loading"
  /\ loaded' = [loaded EXCEPT ![w] = row]
  /\ Goto(w, "applying")
  /\ UNCHANGED <<row, told, acked, task, draft>>

\* There is no such submission, or the operation fails or panics: the worker
\* gives the event up.
GiveUp(w) ==
  /\ pc[w] = "applying"
  /\ loaded[w] # None => Apply(loaded[w].record, task[w]).result \notin Done
  /\ Rest(w)
  /\ UNCHANGED <<row, told, acked>>

\* The record was told before; there is nothing to write.
FindDone(w) ==
  LET applied == Apply(loaded[w].record, task[w]) IN
  /\ pc[w] = "applying" /\ loaded[w] # None
  /\ applied.result \in Done /\ applied.record = loaded[w].record
  /\ told'  = told \cup {task[w]}
  /\ acked' = acked \cup {task[w]}
  /\ Rest(w)
  /\ UNCHANGED row

MakeDraft(w) ==
  LET applied == Apply(loaded[w].record, task[w]) IN
  /\ pc[w] = "applying" /\ loaded[w] # None
  /\ applied.result \in Done /\ applied.record # loaded[w].record
  /\ draft' = [draft EXCEPT ![w] = applied.record]
  /\ Goto(w, "writing")
  /\ UNCHANGED <<row, told, acked, task, loaded>>

-----------------------------------------------------------------------------
(* compare_and_swap *)

Revision(stored) == IF stored = None THEN None ELSE stored.revision

\* Mutant of Matches: any row is there to be updated.
MatchesAny(w) == loaded[w] = None <=> row = None

\* The expected revision is the one of the row; None means create-only.
Matches(w) == Revision(loaded[w]) = Revision(row)

\* Mutant of Swapped: an update does not advance the revision.
SwappedInPlace(w) ==
  [revision |-> IF row = None THEN 0 ELSE row.revision, record |-> draft[w]]

Swapped(w) ==
  [revision |-> IF row = None THEN 0 ELSE row.revision + 1, record |-> draft[w]]

\* The events that a write of the worker tells the row.
TaskEvents(w) == {task[w]} \cap Events

StoreDraft(w) ==
  /\ row'  = Swapped(w)
  /\ told' = told \cup TaskEvents(w)

\* Stored.
Swap(w) ==
  /\ pc[w] = "writing" /\ Matches(w)
  /\ StoreDraft(w)
  /\ acked' = acked \cup TaskEvents(w)
  /\ Rest(w)

\* Mutant of Retry: the event is applied to the old snapshot again.
RetryStale(w) ==
  /\ pc[w] = "writing" /\ ~Matches(w) /\ loaded[w] # None
  /\ Goto(w, "applying")
  /\ UNCHANGED <<row, told, acked, task, loaded, draft>>

\* Conflict: another worker wrote since the load; load again.
Retry(w) ==
  /\ pc[w] = "writing" /\ ~Matches(w) /\ loaded[w] # None
  /\ Goto(w, "loading")
  /\ UNCHANGED <<row, told, acked, task, loaded, draft>>

\* Conflict of a creation: there is such a submission.
CreateConflict(w) ==
  /\ pc[w] = "writing" /\ ~Matches(w) /\ loaded[w] = None
  /\ Rest(w)
  /\ UNCHANGED <<row, told, acked>>

\* The write fails; it may have taken effect.  The worker tries again.
WriteUnknown(w) ==
  /\ pc[w] = "writing"
  /\ \/ Matches(w) /\ StoreDraft(w)
     \/ UNCHANGED <<row, told>>
  /\ IF loaded[w] = None THEN UNCHANGED pc ELSE Goto(w, "loading")
  /\ UNCHANGED <<acked, task, loaded, draft>>

\* The worker dies; its event may be delivered again, or never.
Crash(w) ==
  /\ pc[w] # "idle"
  /\ Rest(w)
  /\ UNCHANGED <<row, told, acked>>

-----------------------------------------------------------------------------
(* Specification *)

Progresses(w) ==
  \/ Load(w) \/ GiveUp(w) \/ FindDone(w) \/ MakeDraft(w)
  \/ Swap(w) \/ Retry(w) \/ CreateConflict(w)

Next ==
  \E w \in Workers :
    \/ \E quantity \in Quantities : BeginCreate(w, quantity)
    \/ \E e \in Events : Deliver(w, e)
    \/ Progresses(w)
    \/ WriteUnknown(w)
    \/ Crash(w)

Spec == Init /\ [][Next]_vars

\* A worker that has a task works on it until it is done or dies.
FairSpec == Spec /\ \A w \in Workers : WF_vars(Progresses(w))

-----------------------------------------------------------------------------
(* Properties *)

\* The workers together are one record to which each event is applied at
\* once: whatever they interleave, lose and repeat can be told in some order
\* as steps of Submission.
AtomicSpec == Atomic!Spec

\* What a worker reported as applied is in the record, although others wrote
\* since it loaded (compare_and_swap: no lost update).
AckedStaysTold ==
  row # None =>
    \A e \in acked :
      LET again == Apply(row.record, e) IN
      again.result \in Done /\ again.record = row.record

\* A revision names one record, so that a matching revision means that
\* nothing was written since the load.
RevisionNamesRecord ==
  LET versions == ({row} \cup {loaded[w] : w \in Workers}) \ {None} IN
  \A v, u \in versions : v.revision = u.revision => v = u

\* Once writes fail no more, no worker retries for ever: every conflict means
\* that another worker made progress.
TasksEnd ==
  <>[][~ \E w \in Workers : Matches(w) /\ WriteUnknown(w)]_vars =>
    \A w \in Workers : pc[w] # "idle" ~> pc[w] = "idle"
=============================================================================
