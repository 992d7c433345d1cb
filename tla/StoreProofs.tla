---------------------------- MODULE StoreProofs ----------------------------
(***************************************************************************)
(* Theorems about SubmissionStore, for any number of workers: a revision   *)
(* names one record, what a worker reported stays told, and the workers    *)
(* together implement Submission.                                          *)
(***************************************************************************)
EXTENDS SubmissionStore, RecordProofs

-----------------------------------------------------------------------------
(* The inductive invariant *)

LEMMA EventsOfAnyKind == Events \subseteq AnyEvent
BY StoreAssumption DEF Events, Atomic!Events, Atomic!Event, AnyEvent, Event

Versioned(v) == v \in VersionedSubmission /\ Sound(v.record)

\* What was loaded is the row, or an older one that it has grown from.
Snapshot(v) ==
  /\ Versioned(v)
  /\ row # None
  /\ v.revision <= row.revision
  /\ v.revision = row.revision => v = row
  /\ Grows(v.record, row.record)

\* What a worker is about to write, and from what it made it.
Drafted(w) ==
  IF loaded[w] = None
  THEN \E quantity \in Quantities :
         /\ quantity > 0
         /\ task[w] = [kind |-> "create", of |-> quantity]
         /\ draft[w] = NewRecord(quantity)
  ELSE /\ task[w] \in Events
       /\ Apply(loaded[w].record, task[w]).result \in Done
       /\ draft[w] = Apply(loaded[w].record, task[w]).record

\* What the row was told it says.
RowKept ==
  /\ row # None => Versioned(row)
  /\ row = None => acked = {}
  /\ acked \subseteq Events
  /\ \A e \in acked : Says(row.record, e)

Ready(w) ==
  /\ loaded[w] # None => Snapshot(loaded[w])
  /\ pc[w] \in {"loading", "applying"} => task[w] \in Events
  /\ pc[w] = "idle" => loaded[w] = None
  /\ pc[w] = "writing" => Drafted(w)

StoreInv ==
  /\ TypeOK
  /\ RowKept
  /\ \A w \in Workers : Ready(w)
  /\ \A w, x \in Workers :
       loaded[w] # None /\ loaded[x] # None /\ loaded[w].revision = loaded[x].revision
         => loaded[w] = loaded[x]

-----------------------------------------------------------------------------
(* What the steps rest on *)

LEMMA VersionFields ==
  ASSUME NEW v, Versioned(v)
  PROVE  /\ v # None /\ v.revision \in Nat /\ v.revision # None
         /\ v.record \in SubmissionRecord /\ v.record # None /\ Sound(v.record)
BY StoreAssumption, NoRecordAssumption DEF Versioned, VersionedSubmission

LEMMA NewIsSound ==
  ASSUME NEW quantity \in Quantities, quantity > 0
  PROVE  Sound(NewRecord(quantity))
BY StoreAssumption DEF Sound, Truthful, Distinct, NewRecord, SubmissionRecord,
                       TransportState, Created, SummaryObserved

LEMMA GrowsReflexive == ASSUME NEW rec \in SubmissionRecord  PROVE Grows(rec, rec)
BY RecordFields DEF Grows

\* A draft is sound.
LEMMA DraftIsSound ==
  ASSUME StoreInv, NEW w \in Workers, Drafted(w)
  PROVE  Sound(draft[w]) /\ draft[w] \in SubmissionRecord
<1>1. CASE loaded[w] = None
  BY <1>1, NewIsSound DEF Drafted, Sound
<1>2. CASE loaded[w] # None
  <2>1. Sound(loaded[w].record)
    BY <1>2, VersionFields DEF StoreInv, Ready, Snapshot
  <2> QED  BY <1>2, <2>1, ApplyKeeps, EventsOfAnyKind DEF Drafted, Sound
<1> QED  BY <1>1, <1>2

\* A write that matches creates the row, or tells the row of now one event.
LEMMA MatchIsCurrent ==
  ASSUME StoreInv, NEW w \in Workers, pc[w] = "writing", Matches(w)
  PROVE  \/ /\ row = None /\ TaskEvents(w) = {}
            /\ \A x \in Workers : loaded[x] = None
            /\ \E quantity \in Quantities : quantity > 0 /\ draft[w] = NewRecord(quantity)
         \/ /\ row # None /\ TaskEvents(w) = {task[w]} /\ task[w] \in Events
            /\ Apply(row.record, task[w]).result \in Done
            /\ draft[w] = Apply(row.record, task[w]).record
<1>1. Drafted(w) /\ Ready(w) /\ RowKept
  BY DEF StoreInv, Ready
<1>2. CASE loaded[w] = None
  <2>1. row = None
    BY <1>1, <1>2, VersionFields DEF Matches, Revision, RowKept
  <2>2. task[w].kind = "create" /\ \A e \in Events : e.kind # "create"
    <3>1. \A e \in AnyEvent : e.kind # "create"
      BY DEF AnyEvent, Event
    <3>2. PICK quantity \in Quantities : task[w] = [kind |-> "create", of |-> quantity]
      BY <1>1, <1>2 DEF Drafted
    <3>3. task[w].kind = "create"
      BY <3>2
    <3> QED  BY <3>1, <3>3, EventsOfAnyKind
  <2>3. \A x \in Workers : loaded[x] = None
    BY <2>1 DEF StoreInv, Ready, Snapshot
  <2> QED  BY <1>1, <1>2, <2>1, <2>2, <2>3 DEF Drafted, TaskEvents
<1>3. CASE loaded[w] # None
  <2>1. Snapshot(loaded[w])
    BY <1>1, <1>3 DEF Ready
  <2>2. loaded[w] = row
    BY <1>3, <2>1 DEF Matches, Revision, Snapshot
  <2> QED  BY <1>1, <1>3, <2>1, <2>2 DEF Drafted, TaskEvents, Snapshot
<1> QED  BY <1>2, <1>3

\* The row that such a write leaves.
LEMMA SwapGrows ==
  ASSUME StoreInv, NEW w \in Workers, pc[w] = "writing", Matches(w), row' = Swapped(w)
  PROVE  /\ Versioned(row') /\ row' # None
         /\ row # None => row'.revision = row.revision + 1 /\ Grows(row.record, row'.record)
         /\ \A e \in TaskEvents(w) : Says(row'.record, e)
<1>1. Drafted(w) /\ Sound(draft[w]) /\ draft[w] \in SubmissionRecord
  BY DraftIsSound DEF StoreInv, Ready
<1>2. row # None => Versioned(row)
  BY DEF StoreInv, RowKept
<1>3. /\ row'.record = draft[w]
      /\ row'.revision = IF row = None THEN 0 ELSE row.revision + 1
      /\ row' \in VersionedSubmission
  <2>1. row = None \/ row.revision \in Nat
    BY <1>2, VersionFields
  <2> QED  BY <1>1, <2>1 DEF Swapped, VersionedSubmission
<1>4. Versioned(row') /\ row' # None
  BY <1>1, <1>3, StoreAssumption DEF Versioned
<1>5. row # None => /\ Grows(row.record, draft[w])
                    /\ \A e \in TaskEvents(w) : Says(draft[w], e)
  <2>1. SUFFICES ASSUME row # None
                 PROVE  /\ Grows(row.record, draft[w])
                        /\ \A e \in TaskEvents(w) : Says(draft[w], e)
    OBVIOUS
  <2>2. /\ TaskEvents(w) = {task[w]} /\ task[w] \in AnyEvent /\ Sound(row.record)
        /\ Apply(row.record, task[w]).result \in Done
        /\ draft[w] = Apply(row.record, task[w]).record
    BY <1>2, <2>1, MatchIsCurrent, EventsOfAnyKind, VersionFields
  <2> QED  BY <2>2, ApplyKeeps, ApplyTells
<1>6. row = None => TaskEvents(w) = {}
  BY MatchIsCurrent
<1> QED  BY <1>3, <1>4, <1>5, <1>6

-----------------------------------------------------------------------------
(* The steps *)

LEMMA InitKeeps == Init => StoreInv
<1> SUFFICES ASSUME Init  PROVE StoreInv
  OBVIOUS
<1>1. TypeOK /\ RowKept
  BY DEF Init, TypeOK, RowKept
<1>2. \A w \in Workers : Ready(w)
  BY DEF Init, Ready
<1> QED  BY <1>1, <1>2 DEF Init, StoreInv

\* Only worker w moves.
Alone(w) ==
  \A x \in Workers \ {w} : /\ pc'[x] = pc[x] /\ task'[x] = task[x]
                           /\ loaded'[x] = loaded[x] /\ draft'[x] = draft[x]

LEMMA WorkerTypes ==
  ASSUME StoreInv, NEW w \in Workers,
         \/ \E quantity \in Quantities : BeginCreate(w, quantity)
         \/ \E e \in Events : Deliver(w, e)
         \/ Load(w) \/ GiveUp(w) \/ FindDone(w) \/ MakeDraft(w)
         \/ Retry(w) \/ CreateConflict(w) \/ Crash(w)
  PROVE  TypeOK' /\ Alone(w)
<1>1. TypeOK
  BY DEF StoreInv
<1>2. ASSUME NEW quantity \in Quantities, BeginCreate(w, quantity)  PROVE TypeOK' /\ Alone(w)
  <2>1. NewRecord(quantity) \in SubmissionRecord
    BY <1>2, NewIsSound DEF BeginCreate, Sound
  <2>2. [kind |-> "create", of |-> quantity] \in Tasks
    BY DEF Tasks, Event
  <2> QED  BY <1>1, <1>2, <2>1, <2>2 DEF BeginCreate, TypeOK, Goto, Alone
<1>3. ASSUME NEW e \in Events, Deliver(w, e)  PROVE TypeOK' /\ Alone(w)
  BY <1>1, <1>3 DEF Deliver, TypeOK, Tasks, Goto, Alone
<1>4. CASE Load(w)
  BY <1>1, <1>4 DEF Load, TypeOK, Goto, Alone
<1>5. CASE FindDone(w)
  <2>1. task[w] \in Events
    BY <1>5 DEF StoreInv, Ready, FindDone
  <2> QED  BY <1>1, <1>5, <2>1 DEF FindDone, TypeOK, Rest, Goto, Alone
<1>6. CASE MakeDraft(w)
  <2>1. task[w] \in AnyEvent /\ Sound(loaded[w].record)
    BY <1>6, EventsOfAnyKind, VersionFields DEF StoreInv, Ready, Snapshot, MakeDraft
  <2>2. Apply(loaded[w].record, task[w]).record \in SubmissionRecord
    BY <2>1, ApplyKeeps DEF Sound
  <2> QED  BY <1>1, <1>6, <2>2 DEF MakeDraft, TypeOK, Goto, Alone
<1>7. CASE GiveUp(w) \/ CreateConflict(w) \/ Crash(w)
  BY <1>1, <1>7 DEF GiveUp, CreateConflict, Crash, TypeOK, Rest, Goto, Alone
<1>8. CASE Retry(w)
  BY <1>1, <1>8 DEF Retry, TypeOK, Goto, Alone
<1> QED  BY <1>2, <1>3, <1>4, <1>5, <1>6, <1>7, <1>8

\* A worker that does not write: it loads the row, keeps what it loaded, or
\* forgets it.
LEMMA RowUntouched ==
  ASSUME StoreInv, NEW w \in Workers, TypeOK', Alone(w), row' = row,
         acked' \subseteq Events,
         \A e \in acked' : e \in acked \/ (row # None /\ Says(row.record, e)),
         loaded'[w] \in {loaded[w], row, None},
         pc'[w] \in {"loading", "applying"} => task'[w] \in Events,
         pc'[w] = "idle" => loaded'[w] = None,
         pc'[w] = "writing" => Drafted(w)'
  PROVE  StoreInv'
<1>1. row # None => Snapshot(row)
  <2>1. row # None => Versioned(row) /\ row.revision \in Nat /\ row.record \in SubmissionRecord
    BY VersionFields DEF StoreInv, RowKept
  <2> QED  BY <2>1, GrowsReflexive DEF Snapshot
<1>2. \A x \in Workers : loaded'[x] # None =>
        Snapshot(loaded'[x]) /\ \/ loaded'[x] = row
                                \/ loaded'[x] = loaded[x]
  BY <1>1 DEF StoreInv, Ready, Alone
<1>3. RowKept'
  BY DEF StoreInv, RowKept
<1>4. \A x \in Workers : Ready(x)'
  <2>1. \A x \in Workers : loaded'[x] # None => Snapshot(loaded[x])'
    BY <1>2 DEF Snapshot
  <2>2. \A x \in Workers \ {w} : Drafted(x) => Drafted(x)'
    BY DEF Drafted, Alone
  <2> QED  BY <2>1, <2>2 DEF StoreInv, Ready, Alone
<1>5. \A x, y \in Workers :
        loaded'[x] # None /\ loaded'[y] # None /\ loaded'[x].revision = loaded'[y].revision
          => loaded'[x] = loaded'[y]
  BY <1>2 DEF StoreInv, Snapshot
<1> QED  BY <1>3, <1>4, <1>5 DEF StoreInv

LEMMA WorkerKeeps ==
  ASSUME StoreInv, NEW w \in Workers,
         \/ \E quantity \in Quantities : BeginCreate(w, quantity)
         \/ \E e \in Events : Deliver(w, e)
         \/ Load(w) \/ GiveUp(w) \/ FindDone(w) \/ MakeDraft(w)
         \/ Retry(w) \/ CreateConflict(w) \/ Crash(w)
  PROVE  StoreInv'
<1>1. TypeOK' /\ Alone(w) /\ TypeOK /\ Ready(w) /\ acked \subseteq Events
  BY WorkerTypes DEF StoreInv, RowKept
<1>2. ASSUME NEW quantity \in Quantities, BeginCreate(w, quantity)  PROVE StoreInv'
  <2>1. /\ row' = row /\ acked' = acked /\ loaded' = loaded /\ pc'[w] = "writing"
        /\ task'[w] = [kind |-> "create", of |-> quantity] /\ draft'[w] = NewRecord(quantity)
        /\ loaded[w] = None /\ quantity > 0
    BY <1>1, <1>2 DEF BeginCreate, Goto, TypeOK, Ready
  <2>2. Drafted(w)'
    BY <2>1 DEF Drafted
  <2> QED  BY <1>1, <2>1, <2>2, RowUntouched
<1>3. ASSUME NEW e \in Events, Deliver(w, e)  PROVE StoreInv'
  <2>1. /\ row' = row /\ acked' = acked /\ loaded' = loaded /\ pc'[w] = "loading"
        /\ task'[w] = e
    BY <1>1, <1>3 DEF Deliver, Goto, TypeOK
  <2> QED  BY <1>1, <2>1, RowUntouched
<1>4. CASE Load(w)
  <2>1. /\ row' = row /\ acked' = acked /\ loaded'[w] = row /\ pc'[w] = "applying"
        /\ task' = task /\ task[w] \in Events
    BY <1>1, <1>4 DEF Load, Goto, TypeOK, Ready
  <2> QED  BY <1>1, <2>1, RowUntouched
<1>5. CASE GiveUp(w) \/ CreateConflict(w) \/ Crash(w)
  <2>1. row' = row /\ acked' = acked /\ loaded'[w] = None /\ pc'[w] = "idle"
    BY <1>1, <1>5 DEF GiveUp, CreateConflict, Crash, Rest, Goto, TypeOK
  <2> QED  BY <1>1, <2>1, RowUntouched
<1>6. CASE FindDone(w)
  <2>1. /\ row' = row /\ acked' = acked \cup {task[w]} /\ loaded'[w] = None /\ pc'[w] = "idle"
        /\ task[w] \in Events /\ Snapshot(loaded[w])
        /\ Apply(loaded[w].record, task[w]).result \in Done
        /\ Apply(loaded[w].record, task[w]).record = loaded[w].record
    BY <1>1, <1>6 DEF FindDone, Rest, Goto, TypeOK, Ready
  <2>2. row # None /\ Says(row.record, task[w])
    <3>1. /\ Sound(loaded[w].record) /\ loaded[w].record \in SubmissionRecord /\ row # None
          /\ Grows(loaded[w].record, row.record) /\ row.record \in SubmissionRecord
          /\ task[w] \in AnyEvent
      BY <2>1, VersionFields, EventsOfAnyKind DEF Snapshot, StoreInv, RowKept
    <3>2. Says(loaded[w].record, task[w])
      BY <2>1, <3>1, ApplyTells
    <3> QED  BY <3>1, <3>2, SaysStays
  <2> QED  BY <1>1, <2>1, <2>2, RowUntouched
<1>7. CASE MakeDraft(w)
  <2>1. /\ row' = row /\ acked' = acked /\ loaded' = loaded /\ pc'[w] = "writing"
        /\ task' = task /\ task[w] \in Events /\ loaded[w] # None
        /\ Apply(loaded[w].record, task[w]).result \in Done
        /\ draft'[w] = Apply(loaded[w].record, task[w]).record
    BY <1>1, <1>7 DEF MakeDraft, Goto, TypeOK, Ready
  <2>2. Drafted(w)'
    BY <2>1 DEF Drafted
  <2> QED  BY <1>1, <2>1, <2>2, RowUntouched
<1>8. CASE Retry(w)
  <2>1. /\ row' = row /\ acked' = acked /\ loaded' = loaded /\ pc'[w] = "loading"
        /\ task' = task /\ task[w] \in Events
    BY <1>1, <1>8 DEF Retry, Goto, TypeOK, Ready, Drafted
  <2> QED  BY <1>1, <2>1, RowUntouched
<1> QED  BY <1>2, <1>3, <1>4, <1>5, <1>6, <1>7, <1>8

\* compare_and_swap takes effect: every snapshot is older than the new row.
LEMMA WriteKeeps ==
  ASSUME StoreInv, NEW w \in Workers, pc[w] = "writing",
         Swap(w) \/ WriteUnknown(w)
  PROVE  StoreInv'
<1>1. TypeOK /\ RowKept /\ Ready(w) /\ Drafted(w)
      /\ TaskEvents(w) \subseteq Events
  BY DEF StoreInv, Ready, TaskEvents
<1>2. /\ Alone(w) /\ loaded'[w] \in {loaded[w], None}
      /\ pc'[w] \in {"idle", "loading", "writing"}
      /\ pc'[w] = "idle" => loaded'[w] = None
      /\ pc'[w] = "loading" => task'[w] = task[w] /\ loaded[w] # None
      /\ pc'[w] = "writing" => /\ task'[w] = task[w] /\ loaded'[w] = loaded[w]
                               /\ draft'[w] = draft[w]
      /\ acked' = acked \/ (acked' = acked \cup TaskEvents(w) /\ Swap(w))
  BY <1>1 DEF Swap, WriteUnknown, StoreDraft, Rest, Goto, TypeOK, Alone
<1>3. /\ pc'[w] = "loading" => task'[w] \in Events
      /\ pc'[w] = "writing" => Drafted(w)'
  BY <1>1, <1>2 DEF Drafted
<1>4. row' = row \/ (row' = Swapped(w) /\ Matches(w))
  BY DEF Swap, WriteUnknown, StoreDraft
<1>5. TypeOK'
  <2>1. row' \in VersionedSubmission \cup {None}
    BY <1>1, <1>4, SwapGrows DEF TypeOK, Versioned
  <2> QED
    BY <1>1, <2>1 DEF Swap, WriteUnknown, StoreDraft, Rest, Goto, TypeOK
<1>6. CASE row' = row /\ acked' = acked
  BY <1>1, <1>2, <1>3, <1>5, <1>6, RowUntouched DEF RowKept
<1>7. CASE row' = Swapped(w) /\ Matches(w)
  <2>1. /\ Versioned(row') /\ row' # None
        /\ row # None => row'.revision = row.revision + 1 /\ Grows(row.record, row'.record)
        /\ \A e \in TaskEvents(w) : Says(row'.record, e)
    BY <1>7, SwapGrows
  <2>2. row # None => Versioned(row) /\ row.revision \in Nat /\ row.record \in SubmissionRecord
    BY <1>1, VersionFields DEF RowKept
  <2>3. row'.record \in SubmissionRecord
    BY <2>1, VersionFields
  <2>4. RowKept'
    <3>1. \A e \in acked : Says(row'.record, e)
      <4>1. ASSUME NEW e \in acked  PROVE Says(row'.record, e)
        <5>1. row # None /\ Says(row.record, e) /\ e \in AnyEvent
          BY <1>1, EventsOfAnyKind DEF RowKept
        <5> QED  BY <2>1, <2>2, <2>3, <5>1, SaysStays
      <4> QED  BY <4>1
    <3> QED  BY <1>1, <1>2, <2>1, <3>1 DEF RowKept
  <2>5. ASSUME NEW x \in Workers, loaded'[x] # None  PROVE Snapshot(loaded[x])'
    <3>1. loaded'[x] = loaded[x] /\ Snapshot(loaded[x])
      BY <1>2, <2>5 DEF StoreInv, Ready, Alone
    <3>2. loaded[x].revision \in Nat /\ loaded[x].record \in SubmissionRecord
      BY <3>1, VersionFields DEF Snapshot
    <3>3. /\ loaded[x].revision <= row'.revision /\ loaded[x].revision # row'.revision
      BY <2>1, <2>2, <3>1, <3>2 DEF Snapshot
    <3>4. Grows(loaded[x].record, row'.record)
      BY <2>1, <2>2, <2>3, <3>1, <3>2, GrowsTransitive DEF Snapshot
    <3> QED  BY <2>1, <3>1, <3>3, <3>4 DEF Snapshot
  <2>6. \A x \in Workers : Ready(x)'
    <3>1. \A x \in Workers \ {w} : Drafted(x) => Drafted(x)'
      BY <1>2 DEF Drafted, Alone
    <3> QED  BY <1>2, <1>3, <2>5, <3>1 DEF StoreInv, Ready, Alone
  <2>7. \A x, y \in Workers :
          loaded'[x] # None /\ loaded'[y] # None /\ loaded'[x].revision = loaded'[y].revision
            => loaded'[x] = loaded'[y]
    BY <1>2 DEF StoreInv, Alone
  <2> QED  BY <1>5, <2>4, <2>6, <2>7 DEF StoreInv
<1> QED  BY <1>2, <1>4, <1>6, <1>7 DEF Swap, StoreDraft

LEMMA StepKeeps == StoreInv /\ [Next]_vars => StoreInv'
<1> SUFFICES ASSUME StoreInv, [Next]_vars  PROVE StoreInv'
  OBVIOUS
<1>1. CASE UNCHANGED vars
  BY <1>1 DEF vars, workerVars, StoreInv, TypeOK, RowKept, Ready, Snapshot, Drafted
<1>2. CASE Next
  BY <1>2, WorkerKeeps, WriteKeeps DEF Next, Progresses, Swap, WriteUnknown
<1> QED  BY <1>1, <1>2

-----------------------------------------------------------------------------
(* Theorems *)

LEMMA StoreInvariant == Spec => []StoreInv
BY InitKeeps, StepKeeps, PTL DEF Spec

\* Type correctness of the store and of its workers.
THEOREM TypeCorrect == Spec => []TypeOK
<1>1. StoreInv => TypeOK
  BY DEF StoreInv
<1> QED  BY <1>1, StoreInvariant, PTL

\* A revision names one record, among the row and all that workers loaded.
THEOREM RevisionsAreNames == Spec => []RevisionNamesRecord
<1>1. StoreInv => RevisionNamesRecord
  <2>1. SUFFICES ASSUME StoreInv,
                        NEW v \in ({row} \cup {loaded[w] : w \in Workers}) \ {None},
                        NEW u \in ({row} \cup {loaded[w] : w \in Workers}) \ {None},
                        v.revision = u.revision
                 PROVE  v = u
    BY DEF RevisionNamesRecord
  <2>2. \A w \in Workers : loaded[w] # None /\ loaded[w].revision = row.revision
                             => loaded[w] = row
    <3>1. ASSUME NEW w \in Workers, loaded[w] # None, loaded[w].revision = row.revision
          PROVE  loaded[w] = row
      <4>1. Ready(w)
        BY <2>1 DEF StoreInv
      <4> QED  BY <3>1, <4>1 DEF Ready, Snapshot
    <3> QED  BY <3>1
  <2> QED  BY <2>1, <2>2 DEF StoreInv
<1> QED  BY <1>1, StoreInvariant, PTL

\* No update is lost: the record goes on to say what a worker reported.
THEOREM NoLostUpdate == Spec => []AckedStaysTold
<1>1. StoreInv => AckedStaysTold
  <2>1. SUFFICES ASSUME StoreInv, row # None, NEW e \in acked
                 PROVE  /\ Apply(row.record, e).result \in Done
                        /\ Apply(row.record, e).record = row.record
    BY DEF AckedStaysTold
  <2>2. Sound(row.record) /\ Says(row.record, e) /\ e \in AnyEvent
    BY <2>1, VersionFields, EventsOfAnyKind DEF StoreInv, RowKept
  <2> QED  BY <2>2, ApplyTells
<1> QED  BY <1>1, StoreInvariant, PTL

-----------------------------------------------------------------------------
(* The workers implement Submission *)

\* Submission applies the operations that the workers apply.
LEMMA SameOperations ==
  /\ Atomic!Done = Done /\ Atomic!Events = Events
  /\ \A quantity : Atomic!NewRecord(quantity) = NewRecord(quantity)
  /\ \A rec, e : Atomic!Apply(rec, e) = Apply(rec, e)
<1>1. /\ Atomic!Done = Done /\ Atomic!Events = Events
      /\ \A quantity : Atomic!NewRecord(quantity) = NewRecord(quantity)
  BY DEF Atomic!Done, Done, Events, Atomic!NewRecord, NewRecord, Atomic!Created, Created
<1>2. \A rec, target : Atomic!AdvanceTransport(rec, target) = AdvanceTransport(rec, target)
  BY DEF Atomic!AdvanceTransport, AdvanceTransport, Atomic!Returned, Returned
<1>3. \A rec, p : Atomic!ApplyProcessResult(rec, p) = ApplyProcessResult(rec, p)
  BY <1>2 DEF Atomic!ApplyProcessResult, ApplyProcessResult, Atomic!Returned, Returned,
              Atomic!Range, Range, Atomic!ProcessObserved, ProcessObserved
<1>4. \A m, expected : Atomic!ValidationIssues(m, expected) = ValidationIssues(m, expected)
  BY DEF Atomic!ValidationIssues, ValidationIssues, Atomic!Buckets, Buckets,
         Atomic!WrappingSum, WrappingSum
<1>5. \A m : Atomic!SumPanics(m) = SumPanics(m)
  BY DEF Atomic!SumPanics, SumPanics, Atomic!Int32, Int32
<1>6. \A m : Atomic!Terminal(m) = Terminal(m)
  BY DEF Atomic!Terminal, Terminal
<1>7. \A rec, m : Atomic!ApplySummaryMessage(rec, m) = ApplySummaryMessage(rec, m)
  BY <1>2, <1>4, <1>5, <1>6 DEF Atomic!ApplySummaryMessage, ApplySummaryMessage,
     Atomic!Returned, Returned, Atomic!SummaryObserved, SummaryObserved
<1>8. \A rec, s : Atomic!ApplySummaryResult(rec, s) = ApplySummaryResult(rec, s)
  BY <1>7 DEF Atomic!ApplySummaryResult, ApplySummaryResult, Atomic!Returned, Returned,
              Atomic!Matching, Matching
<1>9. \A rec, e : Atomic!Apply(rec, e) = Apply(rec, e)
  BY <1>2, <1>3, <1>7, <1>8 DEF Atomic!Apply, Apply
<1> QED  BY <1>1, <1>9

LEMMA InitImplements == Init => Atomic!Init
BY DEF Init, Atomic!Init, StoredRecord

\* To find an event applied in a snapshot is to find it applied in the row.
LEMMA FindDoneImplements ==
  ASSUME StoreInv, NEW w \in Workers, FindDone(w)
  PROVE  Atomic!Next
<1> DEFINE e == task[w]
<1>1. Ready(w) /\ pc[w] = "applying" /\ loaded[w] # None
  BY DEF StoreInv, FindDone
<1>2. Snapshot(loaded[w]) /\ e \in Events /\ e \in AnyEvent
  BY <1>1, EventsOfAnyKind DEF Ready
<1>3. /\ row # None /\ Versioned(row) /\ Versioned(loaded[w])
      /\ Grows(loaded[w].record, row.record)
  BY <1>2 DEF Snapshot, StoreInv, RowKept
<1>4. /\ Sound(loaded[w].record) /\ loaded[w].record \in SubmissionRecord
      /\ Sound(row.record) /\ row.record \in SubmissionRecord /\ row.record # None
  BY <1>3, VersionFields
<1>5. Says(loaded[w].record, e)
  BY <1>2, <1>4, ApplyTells DEF FindDone
<1>6. Says(row.record, e)
  BY <1>2, <1>3, <1>4, <1>5, SaysStays
<1>7. Apply(row.record, e).result \in Done /\ Apply(row.record, e).record = row.record
  BY <1>2, <1>4, <1>6, ApplyTells
<1>8. row' = row /\ told' = told \cup {e}
  BY DEF FindDone
<1>9. StoredRecord = row.record /\ StoredRecord' = row.record
  BY <1>3, <1>8 DEF StoredRecord
<1>10. Atomic!Handle(e)
  BY <1>4, <1>7, <1>8, <1>9, SameOperations DEF Atomic!Handle
<1> QED  BY <1>2, <1>10, SameOperations DEF Atomic!Next

\* A write that takes effect is the creation, or applies the worker's event.
LEMMA StoreDraftImplements ==
  ASSUME StoreInv, NEW w \in Workers, pc[w] = "writing", Matches(w), StoreDraft(w)
  PROVE  Atomic!Next
<1>1. row' # None /\ row'.record = draft[w] /\ told' = told \cup TaskEvents(w)
  BY SwapGrows DEF StoreDraft, Swapped
<1>2. StoredRecord' = draft[w]
  BY <1>1 DEF StoredRecord
<1>3. CASE row = None /\ TaskEvents(w) = {}
  <2>1. PICK quantity \in Quantities : quantity > 0 /\ draft[w] = NewRecord(quantity)
    BY <1>3, MatchIsCurrent
  <2>2. Atomic!Create(quantity)
    BY <1>1, <1>2, <1>3, <2>1, SameOperations DEF Atomic!Create, StoredRecord
  <2> QED  BY <2>2 DEF Atomic!Next
<1>4. CASE row # None
  <2>1. /\ TaskEvents(w) = {task[w]} /\ task[w] \in Events
        /\ Apply(row.record, task[w]).result \in Done
        /\ draft[w] = Apply(row.record, task[w]).record
    BY <1>4, MatchIsCurrent
  <2>2. StoredRecord = row.record /\ row.record # None
    BY <1>4, VersionFields DEF StoredRecord, StoreInv, RowKept
  <2>3. Atomic!Handle(task[w])
    BY <1>1, <1>2, <2>1, <2>2, SameOperations DEF Atomic!Handle
  <2> QED  BY <2>1, <2>3, SameOperations DEF Atomic!Next
<1> QED  BY <1>3, <1>4, MatchIsCurrent

LEMMA StepImplements == StoreInv /\ [Next]_vars => [Atomic!Next]_(Atomic!vars)
<1> SUFFICES ASSUME StoreInv, [Next]_vars  PROVE [Atomic!Next]_(Atomic!vars)
  OBVIOUS
<1>1. CASE UNCHANGED <<row, told>>
  BY <1>1 DEF Atomic!vars, StoredRecord
<1>2. ASSUME NEW w \in Workers, FindDone(w)  PROVE Atomic!Next
  BY <1>2, FindDoneImplements
<1>3. ASSUME NEW w \in Workers, Swap(w) \/ WriteUnknown(w)
      PROVE  Atomic!Next \/ UNCHANGED <<row, told>>
  BY <1>3, StoreDraftImplements DEF Swap, WriteUnknown
<1>4. CASE UNCHANGED vars
  BY <1>1, <1>4 DEF vars
<1>5. CASE Next
  <2>1. PICK w \in Workers :
          \/ FindDone(w) \/ Swap(w) \/ WriteUnknown(w)
          \/ UNCHANGED <<row, told>>
    BY <1>5 DEF Next, Progresses, BeginCreate, Deliver, Load, GiveUp, MakeDraft,
                Retry, CreateConflict, Crash
  <2> QED  BY <1>1, <1>2, <1>3, <2>1
<1> QED  BY <1>4, <1>5

\* The workers together are one record to which each event is applied at
\* once: every step is a step of Submission, or leaves its record alone.
THEOREM WorkersImplementSubmission == Spec => AtomicSpec
BY InitImplements, StepImplements, StoreInvariant, PTL DEF Spec, AtomicSpec, Atomic!Spec
=============================================================================
