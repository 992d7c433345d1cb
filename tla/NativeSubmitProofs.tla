------------------------- MODULE NativeSubmitProofs -------------------------
(***************************************************************************)
(* Theorems about NativeSubmit, for any number of commands, plans and      *)
(* artifacts.                                                              *)
(***************************************************************************)
EXTENDS NativeSubmit, TLAPS

\* The artifact of c was fsynced and c, or the holder of the
\* PreparedSubmission, may still submit it.
Persisted(c) ==
  \/ pc[c] \in {"configuring", "checking"} \cup OnNetwork
  \/ pc[c] = "ended" /\ result[c] \in {"Upload", "Notify", "GatewayRejected"}

\* The artifact file of its submission is the one that c created.
Holding(c) == pc[c] \in {"writing", "syncing"} \/ Persisted(c)

Held(c) ==
  /\ Consistent(plan[c])
  /\ file[Name(c)] # None /\ file[Name(c)].artifact = signed[c]
  /\ \A d \in Commands : Holding(d) /\ Name(d) = Name(c) => d = c

\* What c relies on, at every place of run_submit.
Knows(c) ==
  /\ pc[c] # "idle"          => plan[c] \in Plans /\ signed[c] \in Artifacts
  /\ pc[c] = "opening"       => Consistent(plan[c])
  /\ Holding(c)              => Held(c)
  /\ pc[c] = "syncing"       => file[Name(c)].len = Len[signed[c]]
  /\ Persisted(c)            => WholeFile(Name(c))
  /\ pc[c] \in OnNetwork     => Len[signed[c]] <= MaxSource
  /\ pc[c] = "sending" /\ remote[Name(c)] # None
                             => remote[Name(c)].artifact = signed[c]

Inv == TypeOK /\ \A c \in Commands : Knows(c)

-----------------------------------------------------------------------------
(* Types *)

LEMMA NamesOfPlans == \A p \in Plans : p.name \in Names
BY DEF Names

LEMMA InitKeeps == Init => Inv
<1> SUFFICES ASSUME Init  PROVE Inv
  OBVIOUS
<1>1. TypeOK
  BY DEF Init, TypeOK, Locations, Results
<1>2. ASSUME NEW c \in Commands  PROVE Knows(c)
  BY DEF Init, Knows, Holding, Persisted, OnNetwork
<1> QED  BY <1>1, <1>2 DEF Inv

\* A running command has a plan and an artifact.
LEMMA Busy ==
  ASSUME Inv, NEW c \in Commands, pc[c] # "idle"
  PROVE  /\ plan[c] \in Plans /\ signed[c] \in Artifacts /\ Name(c) \in Names
         /\ Len[signed[c]] \in Nat \ {0}
BY NamesOfPlans, PlansAssumption DEF Inv, Knows, Name

LEMMA PrepareTypes ==
  ASSUME Inv, NEW c \in Commands, NEW p \in Plans, NEW a \in Artifacts, Prepare(c, p, a)
  PROVE  TypeOK'
BY DEF Inv, TypeOK, Prepare, platformVars, Goto, End, Locations, Persisting, Results

\* Steps of persist_artifact.
LEMMA PersistTypes ==
  ASSUME Inv, NEW c \in Commands,
         OpenArtifact(c) \/ WriteArtifact(c) \/ SyncArtifact(c) \/ PersistFails(c)
  PROVE  TypeOK'
<1> DEFINE n == Name(c)
<1>1. plan[c] \in Plans /\ signed[c] \in Artifacts /\ n \in Names /\ Len[signed[c]] \in Nat \ {0}
  BY Busy DEF OpenArtifact, WriteArtifact, SyncArtifact, PersistFails, At, Persisting
<1>2. UNCHANGED <<reply, platformVars, plan, signed>>
  BY DEF OpenArtifact, WriteArtifact, SyncArtifact, PersistFails, End
<1>3. pc' \in [Commands -> Locations] /\ result' \in [Commands -> Results]
  BY DEF Inv, TypeOK, OpenArtifact, WriteArtifact, SyncArtifact, PersistFails, Goto, End,
         Locations, Persisting, Results
<1>4. file' \in [Names -> File \cup {None}]
  <2>1. CASE OpenArtifact(c)
    <3>1. [artifact |-> signed[c], len |-> 0, flushed |-> FALSE] \in File
      BY <1>1 DEF File
    <3> QED  BY <2>1, <3>1 DEF Inv, TypeOK, OpenArtifact
  <2>2. CASE WriteArtifact(c)
    <3>1. file[n] \in File /\ file[n].artifact = signed[c]
      BY <1>1, <2>2 DEF Inv, TypeOK, Knows, Holding, Held, WriteArtifact, At
    <3>2. CASE file[n].len < Len[signed[c]]
      <4>1. [file[n] EXCEPT !.len = @ + 1] \in File
        BY <1>1, <3>1, <3>2 DEF File
      <4> QED  BY <1>1, <2>2, <3>2, <4>1 DEF Inv, TypeOK, WriteArtifact
    <3> QED  BY <2>2, <3>2 DEF Inv, TypeOK, WriteArtifact
  <2>3. CASE SyncArtifact(c)
    <3>1. file[n] \in File
      BY <1>1, <2>3 DEF Inv, TypeOK, Knows, Holding, Held, SyncArtifact, At
    <3>2. [file[n] EXCEPT !.flushed = TRUE] \in File
      BY <3>1 DEF File
    <3> QED  BY <1>1, <2>3, <3>2 DEF Inv, TypeOK, SyncArtifact
  <2>4. CASE PersistFails(c)
    BY <2>4 DEF Inv, TypeOK, PersistFails
  <2> QED  BY <2>1, <2>2, <2>3, <2>4
<1> QED  BY <1>2, <1>3, <1>4 DEF Inv, TypeOK, platformVars

\* Steps of the network phase.
LEMMA NetworkTypes ==
  ASSUME Inv, NEW c \in Commands,
         \/ Configure(c) \/ Check(c) \/ CreateRemote(c) \/ SendChunk(c) \/ CloseRemote(c)
         \/ UploadFails(c) \/ Notify(c) \/ Answered(c) \/ NotifyFails(c) \/ Retry(c)
  PROVE  TypeOK'
<1> DEFINE n == Name(c)
<1>1. plan[c] \in Plans /\ signed[c] \in Artifacts /\ n \in Names /\ Len[signed[c]] \in Nat \ {0}
  BY Busy DEF Configure, Check, CreateRemote, SendChunk, CloseRemote, UploadFails, Notify,
              Answered, NotifyFails, Retry, At
<1>2. UNCHANGED <<file, jobs, accepted, plan, signed>>
  BY DEF Configure, Check, CreateRemote, SendChunk, CloseRemote, UploadFails, Notify,
         Answered, NotifyFails, Retry, platformVars, localVars
<1>3. pc' \in [Commands -> Locations] /\ result' \in [Commands -> Results]
  BY DEF Inv, TypeOK, Configure, Check, CreateRemote, SendChunk, CloseRemote, UploadFails,
         Notify, Answered, NotifyFails, Retry, localVars, Goto, End, Locations, OnNetwork, Results
<1>4. reply' \in [Commands -> {"none", "accepted", "rejected"}]
  BY DEF Inv, TypeOK, Configure, Check, CreateRemote, SendChunk, CloseRemote, UploadFails,
         Notify, Answered, NotifyFails, Retry
<1>5. remote' \in [Names -> Contents \cup {None}]
  <2>1. CASE CreateRemote(c)
    <3>1. [artifact |-> signed[c], len |-> 0] \in Contents
      BY <1>1 DEF Contents
    <3> QED  BY <2>1, <3>1 DEF Inv, TypeOK, CreateRemote
  <2>2. CASE SendChunk(c)
    <3>1. remote[n] \in Contents /\ remote[n].artifact = signed[c] /\ remote[n].len < Len[signed[c]]
      BY <1>1, <2>2 DEF Inv, TypeOK, Knows, SendChunk, At
    <3>2. [remote[n] EXCEPT !.len = @ + 1] \in Contents
      BY <1>1, <3>1 DEF Contents
    <3> QED  BY <1>1, <2>2, <3>2 DEF Inv, TypeOK, SendChunk
  <2>3. CASE UNCHANGED remote
    BY <2>3 DEF Inv, TypeOK
  <2> QED
    BY <2>1, <2>2, <2>3 DEF Configure, Check, CloseRemote, UploadFails, Notify, Answered,
                           NotifyFails, Retry, platformVars
<1>6. requests' \subseteq Request
  <2>1. CASE Notify(c) /\ Encodable(c)
    <3>1. plan[c].payloads \in 0 .. Int32Max /\ Len[signed[c]] \in 0 .. Int32Max
      BY <1>1, <2>1, PlansAssumption DEF Encodable
    <3>2. [by |-> c, name |-> n, quantity |-> plan[c].payloads, size |-> Len[signed[c]]] \in Request
      BY <1>1, <3>1 DEF Request
    <3> QED  BY <2>1, <3>2 DEF Inv, TypeOK, Notify
  <2>2. CASE NotifyFails(c)
    BY <2>2 DEF Inv, TypeOK, NotifyFails, Orphaned, Request
  <2>3. CASE UNCHANGED requests
    BY <2>3 DEF Inv, TypeOK
  <2> QED
    BY <2>1, <2>2, <2>3 DEF Configure, Check, CreateRemote, SendChunk, CloseRemote, UploadFails,
                           Notify, Answered, Retry, platformVars
<1> QED  BY <1>2, <1>3, <1>4, <1>5, <1>6 DEF Inv, TypeOK

\* Steps of the crash, of the platform and of the machine.
LEMMA WorldTypes ==
  ASSUME Inv,
         \/ \E c \in Commands : Crash(c)
         \/ \E r \in requests :
              Lose(r) \/ \E verdict \in {"accepted", "rejected"} : Handle(r, verdict)
         \/ \E n \in Names : Process(n)
         \/ \E lost \in SUBSET Names : PowerLoss(lost)
  PROVE  TypeOK'
<1>1. ASSUME NEW c \in Commands, Crash(c)  PROVE TypeOK'
  BY <1>1 DEF Inv, TypeOK, Crash, Goto, Orphaned, Request, Locations, Results
<1>2. ASSUME NEW r \in requests, Lose(r)  PROVE TypeOK'
  BY <1>2 DEF Inv, TypeOK, Lose, localVars
<1>3. ASSUME NEW r \in requests, NEW verdict \in {"accepted", "rejected"}, Handle(r, verdict)
      PROVE TypeOK'
  BY <1>3 DEF Inv, TypeOK, Handle, localVars, Request
<1>4. ASSUME NEW n \in Names, Process(n)  PROVE TypeOK'
  BY <1>4 DEF Inv, TypeOK, Process, localVars
<1>5. ASSUME NEW lost \in SUBSET Names, PowerLoss(lost)  PROVE TypeOK'
  <2>1. ASSUME NEW n \in Names, file[n] # None
        PROVE  file[n] \in File /\ [artifact |-> file[n].artifact, len |-> 0, flushed |-> TRUE] \in File
    <3>1. file[n] \in File
      BY <2>1 DEF Inv, TypeOK
    <3>2. Len[file[n].artifact] \in Nat
      BY <3>1, PlansAssumption DEF File
    <3> QED  BY <3>1, <3>2 DEF File
  <2>2. file' \in [Names -> File \cup {None}]
    BY <1>5, <2>1 DEF PowerLoss
  <2>3. requests' \subseteq Request
    <3>1. \A r \in Request : [r EXCEPT !.by = None] \in Request
      BY DEF Request
    <3> QED  BY <1>5, <3>1 DEF Inv, TypeOK, PowerLoss
  <2> QED  BY <1>5, <2>2, <2>3 DEF Inv, TypeOK, PowerLoss, Locations, Results
<1> QED  BY <1>1, <1>2, <1>3, <1>4, <1>5

-----------------------------------------------------------------------------
(* What a command knows *)

\* A step of the others leaves d what it knows: its own places, its artifact
\* file, and that it alone holds it.
LEMMA Elsewhere ==
  ASSUME Inv, NEW d \in Commands,
         pc'[d] = pc[d], plan'[d] = plan[d], signed'[d] = signed[d], result'[d] = result[d],
         Holding(d) => file'[Name(d)] = file[Name(d)],
         pc[d] = "sending" => remote'[Name(d)] \in {remote[Name(d)], None},
         Holding(d) => \A e \in Commands : Holding(e)' /\ Name(e)' = Name(d) => e = d
  PROVE  Knows(d)'
<1>1. Knows(d)
  BY DEF Inv
<1>2. Name(d)' = Name(d) /\ (Holding(d)' <=> Holding(d)) /\ (Persisted(d)' <=> Persisted(d))
  BY DEF Name, Holding, Persisted
<1>3. Holding(d) => Held(d)'
  BY <1>1, <1>2 DEF Knows, Held, Name
<1>4. Persisted(d) => WholeFile(Name(d))'
  BY <1>1, <1>2 DEF Knows, WholeFile, Holding
<1>5. pc[d] = "sending" /\ remote'[Name(d)] # None => remote'[Name(d)].artifact = signed[d]
  BY <1>1 DEF Knows
<1>6. pc[d] = "syncing" => file'[Name(d)].len = Len[signed[d]]
  BY <1>1 DEF Knows, Holding
<1> QED  BY <1>1, <1>2, <1>3, <1>4, <1>5, <1>6 DEF Knows

\* Steps of c that only move it on, or end it.
Moves(c) ==
  \/ PersistFails(c) \/ Configure(c) \/ Check(c) \/ CloseRemote(c) \/ UploadFails(c)
  \/ Notify(c) \/ Answered(c) \/ NotifyFails(c) \/ Retry(c)

LEMMA MovesKeep ==
  ASSUME Inv, NEW c \in Commands, Moves(c)  PROVE \A d \in Commands : Knows(d)'
<1>1. UNCHANGED <<plan, signed, file, remote>>
  BY DEF Moves, PersistFails, Configure, Check, CloseRemote, UploadFails, Notify, Answered,
         NotifyFails, Retry, platformVars, localVars
<1>2. \A d \in Commands : d # c => pc'[d] = pc[d] /\ result'[d] = result[d]
  BY DEF Inv, TypeOK, Moves, PersistFails, Configure, Check, CloseRemote, UploadFails, Notify,
         Answered, NotifyFails, Retry, Goto, End
<1>3. /\ pc[c] # "idle"
      /\ pc'[c] \notin {"opening", "writing", "syncing", "sending"}
      /\ Holding(c)' => Holding(c) /\ Persisted(c)
      /\ pc'[c] \in OnNetwork => pc[c] \in OnNetwork \/ Len[signed[c]] <= MaxSource
  BY DEF Inv, TypeOK, Moves, PersistFails, Configure, Check, CloseRemote, UploadFails, Notify,
         Answered, NotifyFails, Retry, Goto, End, At, Holding, Persisted, OnNetwork, Persisting
<1>4. \A d \in Commands : Name(d)' = Name(d) /\ (Holding(d)' => Holding(d))
  BY <1>1, <1>2, <1>3 DEF Name, Holding, Persisted
<1>5. Knows(c)'
  <2>1. Knows(c)
    BY DEF Inv
  <2>2. Holding(c)' => Held(c)'
    BY <1>1, <1>3, <1>4, <2>1 DEF Knows, Held
  <2>3. Persisted(c)' => WholeFile(Name(c))'
    BY <1>1, <1>3, <1>4, <2>1 DEF Knows, WholeFile, Holding
  <2> QED  BY <1>1, <1>3, <2>1, <2>2, <2>3 DEF Knows
<1>6. ASSUME NEW d \in Commands, d # c  PROVE Knows(d)'
  <2>1. Holding(d) => \A e \in Commands : Holding(e)' /\ Name(e)' = Name(d) => e = d
    BY <1>4 DEF Inv, Knows, Held
  <2> QED  BY <1>1, <1>2, <1>6, <2>1, Elsewhere
<1> QED  BY <1>5, <1>6

LEMMA PrepareKeeps ==
  ASSUME Inv, NEW c \in Commands, NEW p \in Plans, NEW a \in Artifacts, Prepare(c, p, a)
  PROVE  \A d \in Commands : Knows(d)'
<1>1. /\ UNCHANGED <<file, remote>>
      /\ \A d \in Commands : d # c => /\ pc'[d] = pc[d] /\ result'[d] = result[d]
                                      /\ plan'[d] = plan[d] /\ signed'[d] = signed[d]
  BY DEF Inv, TypeOK, Prepare, Goto, End, platformVars
<1>2. /\ plan'[c] = p /\ signed'[c] = a
      /\ \/ pc'[c] = "opening" /\ Consistent(p)
         \/ pc'[c] = "ended" /\ result'[c] = "Consistency"
  BY DEF Inv, TypeOK, Prepare, Goto, End
<1>3. ~ Holding(c)'
  BY <1>2 DEF Holding, Persisted, OnNetwork
<1>4. Knows(c)'
  BY <1>2, <1>3 DEF Knows, Holding, Persisted, OnNetwork
<1>5. ASSUME NEW d \in Commands, d # c  PROVE Knows(d)'
  <2>1. Holding(d) => \A e \in Commands : Holding(e)' /\ Name(e)' = Name(d) => e = d
    BY <1>1, <1>3 DEF Inv, Knows, Held, Holding, Persisted, Name
  <2> QED  BY <1>1, <1>5, <2>1, Elsewhere
<1> QED  BY <1>4, <1>5

\* create_new finds no file, so nobody holds one; --force-output may take one,
\* but then there is no other command.
LEMMA OpenKeeps ==
  ASSUME Inv, NEW c \in Commands, OpenArtifact(c)  PROVE \A d \in Commands : Knows(d)'
<1>1. /\ UNCHANGED <<remote, plan, signed>> /\ pc[c] = "opening"
      /\ \A d \in Commands : /\ d # c => pc'[d] = pc[d] /\ result'[d] = result[d]
                             /\ Name(d)' = Name(d)
  BY DEF Inv, TypeOK, OpenArtifact, Goto, End, platformVars, At, Name
<1>2. /\ plan[c] \in Plans /\ signed[c] \in Artifacts /\ Name(c) \in Names /\ Consistent(plan[c])
  BY <1>1, Busy DEF Inv, Knows
<1>3. CASE file[Name(c)] # None /\ ~plan[c].force
  <2>1. UNCHANGED file /\ pc'[c] = "ended" /\ result'[c] = "Io"
    BY <1>3 DEF Inv, TypeOK, OpenArtifact, End, Goto
  <2>2. Knows(c)' /\ ~ Holding(c)'
    BY <1>1, <1>2, <2>1 DEF Knows, Holding, Persisted, OnNetwork
  <2>3. ASSUME NEW d \in Commands, d # c  PROVE Knows(d)'
    <3>1. Holding(d) => \A e \in Commands : Holding(e)' /\ Name(e)' = Name(d) => e = d
      BY <1>1, <2>2 DEF Inv, Knows, Held, Holding, Persisted
    <3> QED  BY <1>1, <2>1, <2>3, <3>1, Elsewhere
  <2> QED  BY <2>2, <2>3
<1>4. CASE ~ (file[Name(c)] # None /\ ~plan[c].force)
  <2>1. /\ pc'[c] = "writing"
        /\ file' = [file EXCEPT ![Name(c)] =
                      [artifact |-> signed[c], len |-> 0, flushed |-> FALSE]]
    BY <1>4 DEF Inv, TypeOK, OpenArtifact, Goto
  <2>2. ASSUME NEW d \in Commands, d # c, Name(d) = Name(c)  PROVE ~ Holding(d)
    <3>1. CASE file[Name(c)] = None
      BY <2>2, <3>1 DEF Inv, Knows, Held
    <3>2. CASE plan[c].force
      BY <1>2, <2>2, <3>2, PlansAssumption, ForceAssumption
    <3> QED  BY <1>4, <3>1, <3>2
  <2>3. file'[Name(c)] = [artifact |-> signed[c], len |-> 0, flushed |-> FALSE]
    BY <1>2, <2>1 DEF Inv, TypeOK
  <2>4. [artifact |-> signed[c], len |-> 0, flushed |-> FALSE] # None
    <3>1. Len[signed[c]] \in Nat
      BY <1>2, PlansAssumption
    <3>2. [artifact |-> signed[c], len |-> 0, flushed |-> FALSE] \in File
      BY <1>2, <3>1 DEF File
    <3> QED  BY <3>2, NoneAssumption
  <2>5. \A e \in Commands : Holding(e)' /\ Name(e)' = Name(c) => e = c
    BY <1>1, <2>2 DEF Holding, Persisted
  <2>6. Knows(c)'
    BY <1>1, <1>2, <2>1, <2>3, <2>4, <2>5 DEF Knows, Held, Holding, Persisted, OnNetwork
  <2>7. ASSUME NEW d \in Commands, d # c  PROVE Knows(d)'
    <3>1. Holding(d) => file'[Name(d)] = file[Name(d)]
      BY <2>1, <2>2, <2>7 DEF Inv, TypeOK
    <3>2. Holding(d) => \A e \in Commands : Holding(e)' /\ Name(e)' = Name(d) => e = d
      BY <1>1, <2>2, <2>7 DEF Inv, Knows, Held, Holding, Persisted
    <3> QED  BY <1>1, <2>7, <3>1, <3>2, Elsewhere
  <2> QED  BY <2>6, <2>7
<1> QED  BY <1>3, <1>4

\* write_all and sync_all, on the file that c alone holds.
LEMMA WriteKeeps ==
  ASSUME Inv, NEW c \in Commands, WriteArtifact(c) \/ SyncArtifact(c)
  PROVE  \A d \in Commands : Knows(d)'
<1> DEFINE n == Name(c)
<1>1. /\ UNCHANGED <<remote, plan, signed, result>> /\ pc[c] \in {"writing", "syncing"}
      /\ \A d \in Commands : /\ d # c => pc'[d] = pc[d]
                             /\ Name(d)' = Name(d)
  BY DEF Inv, TypeOK, WriteArtifact, SyncArtifact, Goto, platformVars, At, Name
<1>2. /\ Knows(c) /\ Held(c) /\ n \in Names /\ signed[c] \in Artifacts
      /\ file[n] \in File /\ file[n].artifact = signed[c] /\ file[n].len <= Len[signed[c]]
      /\ file[n].len \in Nat /\ Len[signed[c]] \in Nat
  BY <1>1, Busy DEF Inv, TypeOK, Knows, Held, Holding, File
<1>3. /\ \A m \in Names : m # n => file'[m] = file[m]
      /\ file'[n] # None /\ file'[n].artifact = signed[c]
  <2>1. CASE WriteArtifact(c)
    BY <1>2, <2>1, PersistTypes, NoneAssumption DEF Inv, TypeOK, WriteArtifact, File
  <2>2. CASE SyncArtifact(c)
    <3>1. /\ \A m \in Names : m # n => file'[m] = file[m]
          /\ file'[n] = [file[n] EXCEPT !.flushed = TRUE]
      BY <1>2, <2>2 DEF Inv, TypeOK, SyncArtifact
    <3>2. file'[n].artifact = signed[c] /\ file'[n] \in File
      BY <1>2, <3>1 DEF File
    <3> QED  BY <3>1, <3>2, NoneAssumption
  <2> QED  BY <2>1, <2>2
<1>4. \/ pc'[c] = "writing"
      \/ pc'[c] = "syncing" /\ file'[n].len = Len[signed[c]]
      \/ /\ pc'[c] = "configuring"
         /\ file'[n].len = Len[signed[c]] /\ file'[n].flushed
  <2>1. CASE WriteArtifact(c)
    BY <1>2, <2>1 DEF Inv, TypeOK, WriteArtifact, Goto, At
  <2>2. CASE SyncArtifact(c)
    <3>1. file[n].len = Len[signed[c]]
      BY <1>2, <2>2 DEF SyncArtifact, At, Knows
    <3>2. file'[n] = [file[n] EXCEPT !.flushed = TRUE] /\ pc'[c] = "configuring"
      BY <1>2, <2>2 DEF Inv, TypeOK, SyncArtifact, Goto
    <3> QED  BY <1>2, <3>1, <3>2 DEF File
  <2> QED  BY <2>1, <2>2
<1>5. \A d \in Commands : Holding(d)' <=> Holding(d)
  BY <1>1, <1>4 DEF Holding, Persisted
<1>6. Knows(c)'
  <2>1. Held(c)'
    BY <1>1, <1>2, <1>3, <1>5 DEF Held
  <2>2. Persisted(c)' => WholeFile(Name(c))'
    BY <1>1, <1>3, <1>4 DEF Persisted, WholeFile, OnNetwork
  <2> QED  BY <1>1, <1>2, <1>4, <2>1, <2>2 DEF Knows, OnNetwork
<1>7. ASSUME NEW d \in Commands, d # c  PROVE Knows(d)'
  <2>1. Holding(d) => Name(d) # n
    BY <1>2, <1>7 DEF Held
  <2>2. Holding(d) => file'[Name(d)] = file[Name(d)]
    BY <1>3, <2>1, Busy DEF Holding, Persisted, OnNetwork
  <2>3. Holding(d) => \A e \in Commands : Holding(e)' /\ Name(e)' = Name(d) => e = d
    BY <1>1, <1>5 DEF Inv, Knows, Held
  <2> QED  BY <1>1, <1>7, <2>2, <2>3, Elsewhere
<1> QED  BY <1>6, <1>7

\* sftp.create and write_all, on the object that c alone writes.
LEMMA SendKeeps ==
  ASSUME Inv, NEW c \in Commands, CreateRemote(c) \/ SendChunk(c)
  PROVE  \A d \in Commands : Knows(d)'
<1> DEFINE n == Name(c)
<1>1. /\ UNCHANGED <<file, plan, signed, result>> /\ pc[c] \in {"uploading", "sending"}
      /\ pc'[c] = "sending"
      /\ \A d \in Commands : /\ d # c => pc'[d] = pc[d]
                             /\ Name(d)' = Name(d)
  BY DEF Inv, TypeOK, CreateRemote, SendChunk, localVars, Goto, At, Name
<1>2. Knows(c) /\ Held(c) /\ n \in Names /\ signed[c] \in Artifacts
  BY <1>1, Busy DEF Inv, Knows, Holding, Persisted, OnNetwork
<1>3. /\ \A m \in Names : m # n => remote'[m] = remote[m]
      /\ remote'[n].artifact = signed[c]
  <2>1. CASE CreateRemote(c)
    BY <1>2, <2>1 DEF Inv, TypeOK, CreateRemote
  <2>2. CASE SendChunk(c)
    <3>1. remote[n] \in Contents /\ remote[n].artifact = signed[c]
      BY <1>2, <2>2 DEF Inv, TypeOK, Knows, SendChunk, At
    <3> QED  BY <1>2, <2>2, <3>1 DEF Inv, TypeOK, SendChunk, Contents
  <2> QED  BY <2>1, <2>2
<1>4. \A d \in Commands : (Holding(d)' <=> Holding(d)) /\ (Persisted(d)' <=> Persisted(d))
  BY <1>1 DEF Holding, Persisted, OnNetwork
<1>5. Knows(c)'
  <2>1. Held(c)' /\ WholeFile(Name(c))'
    BY <1>1, <1>2, <1>4 DEF Knows, Held, WholeFile, Persisted, OnNetwork
  <2> QED  BY <1>1, <1>2, <1>3, <2>1 DEF Knows, OnNetwork
<1>6. ASSUME NEW d \in Commands, d # c  PROVE Knows(d)'
  <2>1. pc[d] = "sending" => remote'[Name(d)] = remote[Name(d)]
    BY <1>2, <1>3, <1>6, Busy DEF Held, Holding, Persisted, OnNetwork
  <2>2. Holding(d) => \A e \in Commands : Holding(e)' /\ Name(e)' = Name(d) => e = d
    BY <1>1, <1>4 DEF Inv, Knows, Held
  <2> QED  BY <1>1, <1>6, <2>1, <2>2, Elsewhere
<1> QED  BY <1>5, <1>6

LEMMA CrashKeeps ==
  ASSUME Inv, NEW c \in Commands, Crash(c)  PROVE \A d \in Commands : Knows(d)'
<1>1. /\ UNCHANGED <<file, remote>> /\ pc'[c] = "idle"
      /\ \A d \in Commands : d # c => /\ pc'[d] = pc[d] /\ result'[d] = result[d]
                                      /\ plan'[d] = plan[d] /\ signed'[d] = signed[d]
  BY DEF Inv, TypeOK, Crash, Goto
<1>2. Knows(c)' /\ ~ Holding(c)'
  BY <1>1 DEF Knows, Holding, Persisted, OnNetwork
<1>3. ASSUME NEW d \in Commands, d # c  PROVE Knows(d)'
  <2>1. Holding(d) => \A e \in Commands : Holding(e)' /\ Name(e)' = Name(d) => e = d
    BY <1>1, <1>2 DEF Inv, Knows, Held, Holding, Persisted, Name
  <2> QED  BY <1>1, <1>3, <2>1, Elsewhere
<1> QED  BY <1>2, <1>3

\* The platform only takes objects away.
LEMMA PlatformKeeps ==
  ASSUME Inv,
         \/ \E r \in requests :
              Lose(r) \/ \E verdict \in {"accepted", "rejected"} : Handle(r, verdict)
         \/ \E n \in Names : Process(n)
  PROVE  \A d \in Commands : Knows(d)'
<1>1. UNCHANGED <<file, localVars>>
  BY DEF Lose, Handle, Process
<1>2. \A n \in Names : remote'[n] \in {remote[n], None}
  BY DEF Inv, TypeOK, Lose, Handle, Process
<1>3. ASSUME NEW d \in Commands  PROVE Knows(d)'
  <2>1. Holding(d) => \A e \in Commands : Holding(e)' /\ Name(e)' = Name(d) => e = d
    BY <1>1 DEF Inv, Knows, Held, Holding, Persisted, Name, localVars
  <2>2. pc[d] = "sending" => remote'[Name(d)] \in {remote[Name(d)], None}
    BY <1>2, Busy
  <2> QED  BY <1>1, <2>1, <2>2, Elsewhere DEF localVars
<1> QED  BY <1>3

LEMMA PowerLossKeeps ==
  ASSUME NEW lost \in SUBSET Names, PowerLoss(lost)  PROVE \A d \in Commands : Knows(d)'
BY DEF PowerLoss, Knows, Holding, Persisted, OnNetwork

LEMMA StepKeeps == Inv /\ [Next]_vars => Inv'
<1> SUFFICES ASSUME Inv, [Next]_vars  PROVE Inv'
  OBVIOUS
<1>1. ASSUME NEW c \in Commands, NEW p \in Plans, NEW a \in Artifacts, Prepare(c, p, a)
      PROVE Inv'
  BY <1>1, PrepareTypes, PrepareKeeps DEF Inv
<1>2. ASSUME NEW c \in Commands, OpenArtifact(c)  PROVE Inv'
  BY <1>2, PersistTypes, OpenKeeps DEF Inv
<1>3. ASSUME NEW c \in Commands, WriteArtifact(c) \/ SyncArtifact(c)  PROVE Inv'
  BY <1>3, PersistTypes, WriteKeeps DEF Inv
<1>4. ASSUME NEW c \in Commands, CreateRemote(c) \/ SendChunk(c)  PROVE Inv'
  BY <1>4, NetworkTypes, SendKeeps DEF Inv
<1>5. ASSUME NEW c \in Commands, Moves(c)  PROVE Inv'
  BY <1>5, PersistTypes, NetworkTypes, MovesKeep DEF Inv, Moves
<1>6. ASSUME NEW c \in Commands, Crash(c)  PROVE Inv'
  BY <1>6, WorldTypes, CrashKeeps DEF Inv
<1>7. ASSUME \/ \E r \in requests :
                  Lose(r) \/ \E verdict \in {"accepted", "rejected"} : Handle(r, verdict)
             \/ \E n \in Names : Process(n)
      PROVE Inv'
  BY <1>7, WorldTypes, PlatformKeeps DEF Inv
<1>8. ASSUME NEW lost \in SUBSET Names, PowerLoss(lost)  PROVE Inv'
  BY <1>8, WorldTypes, PowerLossKeeps DEF Inv
<1>9. CASE UNCHANGED vars
  BY <1>9 DEF Inv, TypeOK, Knows, Held, Holding, Persisted, WholeFile, Name, vars,
              platformVars, localVars
<1> QED
  BY <1>1, <1>2, <1>3, <1>4, <1>5, <1>6, <1>7, <1>8, <1>9 DEF Next, RunSubmit, Moves

LEMMA Invariance == Spec => []Inv
BY InitKeeps, StepKeeps, PTL DEF Spec

-----------------------------------------------------------------------------
(* Theorems *)

\* Every file and every object is a prefix of a signed artifact, and every
\* request states numbers of 32 bits.
THEOREM TypeCorrect == Spec => []TypeOK
<1>1. Inv => TypeOK
  BY DEF Inv
<1> QED  BY <1>1, Invariance, PTL

\* No command is on the network before its artifact was written whole and
\* fsynced, nor without that file, with --force-output and power failures too
\* (run_submit calls persist_artifact before it builds any client).
THEOREM BoundaryKept == Spec => []DurabilityBoundary
<1>1. Inv => DurabilityBoundary
  BY DEF Inv, Knows, Held, Holding, Persisted, DurabilityBoundary
<1> QED  BY <1>1, Invariance, PTL

\* Behind an upload checked_i32 never fails: validate_plan compared the number
\* of payloads with a count of 32 bits, and the source has at most
\* MAX_SIGNED_SOURCE_BYTES.
THEOREM UploadsCanBeNotified == Spec => []UploadsNotifiable
<1>1. ASSUME Inv, NEW c \in Commands, pc[c] \in OnNetwork  PROVE Encodable(c)
  <2>1. plan[c] \in Plans /\ signed[c] \in Artifacts /\ Len[signed[c]] \in Nat
    BY <1>1, Busy DEF OnNetwork
  <2>2. Consistent(plan[c]) /\ Len[signed[c]] <= MaxSource
    BY <1>1 DEF Inv, Knows, Held, Holding, Persisted
  <2>3. plan[c].payloads <= Int32Max
    BY <2>1, <2>2, PlansAssumption DEF Consistent
  <2> QED  BY <2>1, <2>2, <2>3, PlansAssumption DEF Encodable
<1>2. Inv => UploadsNotifiable
  BY <1>1 DEF UploadsNotifiable
<1> QED  BY <1>2, Invariance, PTL

-----------------------------------------------------------------------------
(* Without force, power failures and retries *)

\* What is promised of commands without --force-output, on a machine that
\* does not lose power: the artifact file outlives whatever the platform was
\* given.  When no submission is retried either, a queued object stays whole
\* and every command reports what happened.

\* A notification about n is under way.
Requested(n) == \E r \in requests : r.name = n

\* The platform has, or will have, something of n.
Given(n) == remote[n] # None \/ n \in accepted \/ Requested(n)

Kept ==
  /\ \A c \in Commands : pc[c] \in {"writing", "syncing"} => ~file[Name(c)].flushed
  /\ \A n \in Names : /\ Given(n) => WholeFile(n)
                      /\ remote[n] # None => remote[n].artifact = file[n].artifact

-----------------------------------------------------------------------------
(* The artifact outlives the upload *)

LEMMA OrphansAreRequests ==
  ASSUME requests \subseteq Request, NEW c \in Commands
  PROVE  /\ \A n \in Names : (\E r \in Orphaned(c) : r.name = n) => Requested(n)
         /\ \A r \in Orphaned(c) : r.by # None => r \in requests /\ r.by # c
         /\ (\A r, s \in requests : r.name = s.name => r = s)
              => \A r, s \in Orphaned(c) : r.name = s.name => r = s
<1> DEFINE Off(r) == [r EXCEPT !.by = IF @ = c THEN None ELSE @]
<1>1. c # None
  BY PlansAssumption
<1>2. ASSUME NEW r \in requests
      PROVE  /\ Off(r).name = r.name /\ Off(r).by # c
             /\ Off(r).by # None => Off(r) = r
  <2>1. r \in Request
    OBVIOUS
  <2>2. CASE r.by = c
    <3>1. Off(r) = [r EXCEPT !.by = None]
      BY <2>2
    <3>2. [r EXCEPT !.by = None].name = r.name /\ [r EXCEPT !.by = None].by = None
      BY <2>1 DEF Request
    <3> HIDE DEF Off
    <3> QED  BY <1>1, <3>1, <3>2
  <2>3. CASE r.by # c
    <3>1. Off(r) = [r EXCEPT !.by = r.by]
      BY <2>3
    <3>2. [r EXCEPT !.by = r.by] = r
      BY <2>1 DEF Request
    <3> HIDE DEF Off
    <3> QED  BY <2>3, <3>1, <3>2
  <2> QED  BY <2>2, <2>3
<1>3. Orphaned(c) = {Off(r) : r \in requests}
  BY DEF Orphaned
<1> HIDE DEF Off
<1> QED  BY <1>2, <1>3 DEF Requested

LEMMA InitKept == Init => Kept
BY DEF Init, Kept, Given, Requested

\* A step that leaves the files alone keeps them whole when what it gives
\* the platform is of a whole file.
LEMMA FilesUntouched ==
  ASSUME Kept, UNCHANGED file,
         \A c \in Commands : pc'[c] \in {"writing", "syncing"}
                               => pc[c] \in {"writing", "syncing"} /\ Name(c)' = Name(c),
         \A n \in Names : /\ Given(n)' => Given(n) \/ WholeFile(n)
                          /\ remote'[n] # None => \/ remote'[n] = remote[n]
                                                  \/ remote'[n].artifact = file[n].artifact
  PROVE  Kept'
BY DEF Kept, WholeFile

LEMMA MovesKept ==
  ASSUME Inv, Kept, NEW c \in Commands, Moves(c)  PROVE Kept'
<1>1. UNCHANGED <<plan, signed, file, remote, accepted>>
  BY DEF Moves, PersistFails, Configure, Check, CloseRemote, UploadFails, Notify, Answered,
         NotifyFails, Retry, platformVars, localVars
<1>2. \A d \in Commands : pc'[d] \in {"writing", "syncing"} => pc'[d] = pc[d]
  BY DEF Inv, TypeOK, Moves, PersistFails, Configure, Check, CloseRemote, UploadFails, Notify,
         Answered, NotifyFails, Retry, Goto, End
<1>3. \A n \in Names : Requested(n)' => Requested(n) \/ WholeFile(n)
  <2>1. CASE UNCHANGED requests
    BY <2>1 DEF Requested
  <2>2. CASE Notify(c)
    <3>1. WholeFile(Name(c))
      BY <2>2 DEF Inv, Knows, Persisted, OnNetwork, Notify, At
    <3>2. UNCHANGED requests \/
          requests' = requests \cup
            {[by |-> c, name |-> Name(c),
              quantity |-> plan[c].payloads, size |-> Len[signed[c]]]}
      BY <2>2 DEF Notify
    <3> QED  BY <3>1, <3>2 DEF Requested
  <2>3. CASE NotifyFails(c)
    BY <2>3, OrphansAreRequests DEF NotifyFails, Requested, Inv, TypeOK
  <2> QED
    BY <2>1, <2>2, <2>3 DEF Moves, PersistFails, Configure, Check, CloseRemote, UploadFails,
                           Answered, Retry, platformVars
<1> QED  BY <1>1, <1>2, <1>3, FilesUntouched DEF Given, Name

LEMMA SendKept ==
  ASSUME Inv, Kept, NEW c \in Commands, CreateRemote(c) \/ SendChunk(c)  PROVE Kept'
<1>1. /\ UNCHANGED <<plan, signed, file, requests, accepted>>
      /\ \A d \in Commands : pc'[d] \in {"writing", "syncing"} => pc'[d] = pc[d]
      /\ \A m \in Names : m # Name(c) => remote'[m] = remote[m]
  BY DEF Inv, TypeOK, CreateRemote, SendChunk, Goto, localVars
<1>2. Knows(c) /\ Held(c) /\ WholeFile(Name(c)) /\ Name(c) \in Names
  BY Busy DEF Inv, Knows, Holding, Persisted, OnNetwork, CreateRemote, SendChunk, At
<1>3. remote'[Name(c)] # None => remote'[Name(c)].artifact = signed[c]
  <2>1. Knows(c)' /\ pc'[c] = "sending"
    BY SendKeeps DEF Inv, TypeOK, CreateRemote, SendChunk, Goto, At, localVars
  <2> QED  BY <1>1, <2>1 DEF Knows, Name
<1>4. \A n \in Names : Given(n)' => Given(n) \/ WholeFile(n)
  BY <1>1, <1>2 DEF Given, Requested
<1>5. \A n \in Names : remote'[n] # None => \/ remote'[n] = remote[n]
                                            \/ remote'[n].artifact = file[n].artifact
  BY <1>1, <1>2, <1>3 DEF Held
<1> QED  BY <1>1, <1>4, <1>5, FilesUntouched DEF Name

\* persist_artifact only writes a file that is not whole.
LEMMA PersistKept ==
  ASSUME Inv, Kept, ~MayForce, NEW c \in Commands,
         OpenArtifact(c) \/ WriteArtifact(c) \/ SyncArtifact(c)
  PROVE  Kept'
<1>1. /\ UNCHANGED <<plan, signed, remote, requests, accepted>>
      /\ \A d \in Commands : d # c => pc'[d] = pc[d]
      /\ \A m \in Names : m # Name(c) => file'[m] = file[m]
  BY DEF Inv, TypeOK, OpenArtifact, WriteArtifact, SyncArtifact, Goto, End, platformVars
<1>2. /\ pc[c] \in {"opening", "writing", "syncing"} /\ Name(c) \in Names
      /\ plan[c] \in Plans /\ ~plan[c].force
  BY Busy, PlansAssumption DEF OpenArtifact, WriteArtifact, SyncArtifact, At
<1>3. CASE UNCHANGED file /\ pc'[c] \notin {"writing", "syncing"}
  BY <1>1, <1>3, FilesUntouched DEF Given, Requested, Name
<1>4. CASE file[Name(c)] = None \/ pc[c] \in {"writing", "syncing"}
  <2>1. ~WholeFile(Name(c)) /\ ~Given(Name(c))
    BY <1>2, <1>4 DEF Kept, WholeFile
  <2>2. pc'[c] \in {"writing", "syncing"} => ~file'[Name(c)].flushed
    <3>1. CASE OpenArtifact(c)
      BY <1>2, <1>4, <3>1 DEF Inv, TypeOK, OpenArtifact, Goto, End, At
    <3>2. CASE WriteArtifact(c)
      <4>1. file[Name(c)] \in File /\ ~file[Name(c)].flushed
        BY <1>2, <3>2 DEF Inv, TypeOK, Knows, Holding, Held, Kept, WriteArtifact, At
      <4>2. UNCHANGED file \/ file'[Name(c)] = [file[Name(c)] EXCEPT !.len = @ + 1]
        BY <1>2, <3>2 DEF Inv, TypeOK, WriteArtifact
      <4> QED  BY <4>1, <4>2 DEF File
    <3>3. CASE SyncArtifact(c)
      BY <3>3 DEF Inv, TypeOK, SyncArtifact, Goto
    <3> QED  BY <3>1, <3>2, <3>3
  <2>3. ASSUME NEW d \in Commands, d # c, pc'[d] \in {"writing", "syncing"}
        PROVE  ~file'[Name(d)].flushed
    <3>1. Name(d) # Name(c)
      <4>1. CASE pc[c] = "opening"
        BY <1>1, <1>4, <2>3, <4>1 DEF Inv, Knows, Holding, Held
      <4>2. CASE pc[c] # "opening"
        BY <1>1, <1>2, <2>3, <4>2 DEF Inv, Knows, Holding, Held
      <4> QED  BY <4>1, <4>2
    <3>2. Name(d) \in Names
      BY <1>1, <2>3, Busy
    <3> QED  BY <1>1, <2>3, <3>1, <3>2 DEF Kept
  <2>4. \A n \in Names : Given(n)' => n # Name(c) /\ Given(n) /\ file'[n] = file[n]
    BY <1>1, <2>1 DEF Given, Requested
  <2>5. \A n \in Names : remote'[n] # None => Given(n)'
    BY DEF Given
  <2>6. \A n \in Names : /\ Given(n)' => WholeFile(n)'
                         /\ remote'[n] # None => remote'[n].artifact = file'[n].artifact
    BY <1>1, <2>4, <2>5 DEF Kept, WholeFile
  <2>7. \A d \in Commands : Name(d)' = Name(d)
    BY <1>1 DEF Name
  <2> QED  BY <2>2, <2>3, <2>6, <2>7 DEF Kept
<1> QED
  BY <1>2, <1>3, <1>4 DEF Inv, TypeOK, OpenArtifact, WriteArtifact, SyncArtifact, End, Goto, At

LEMMA OthersKept ==
  ASSUME Inv, Kept,
         \/ \E c \in Commands : Crash(c) \/ \E p \in Plans, a \in Artifacts : Prepare(c, p, a)
         \/ \E r \in requests :
              Lose(r) \/ \E verdict \in {"accepted", "rejected"} : Handle(r, verdict)
         \/ \E n \in Names : Process(n)
  PROVE  Kept'
<1>1. UNCHANGED file
  BY DEF Crash, Prepare, Lose, Handle, Process
<1>2. \A d \in Commands : pc'[d] \in {"writing", "syncing"}
                            => pc[d] \in {"writing", "syncing"} /\ Name(d)' = Name(d)
  BY DEF Inv, TypeOK, Crash, Prepare, Lose, Handle, Process, localVars, Goto, End, Name
<1>3. \A n \in Names : remote'[n] \in {remote[n], None}
  BY DEF Inv, TypeOK, Crash, Prepare, Lose, Handle, Process, platformVars
<1>4. \A n \in Names : Requested(n)' => Requested(n)
  BY OrphansAreRequests
  DEF Inv, TypeOK, Crash, Prepare, Lose, Handle, Process, platformVars, Requested
<1>5. \A n \in Names : n \in accepted' => n \in accepted \/ Requested(n)
  BY DEF Crash, Prepare, Lose, Handle, Process, platformVars, Requested
<1> QED  BY <1>1, <1>2, <1>3, <1>4, <1>5, FilesUntouched DEF Given

LEMMA StepKept == ASSUME ~MayForce, ~PowerMayFail  PROVE Inv /\ Kept /\ [Next]_vars => Kept'
<1> SUFFICES ASSUME Inv, Kept, [Next]_vars  PROVE Kept'
  OBVIOUS
<1>1. CASE UNCHANGED vars
  BY <1>1 DEF Kept, Given, Requested, WholeFile, Name, vars, platformVars, localVars
<1>2. CASE Next
  BY <1>2, MovesKept, SendKept, PersistKept, OthersKept DEF Next, RunSubmit, Moves, PowerLoss
<1> QED  BY <1>1, <1>2

\* Without --force-output and power failures, whatever the platform has of a
\* submission the local artifact file has (create_new of persist_artifact).
THEOREM ArtifactKept ==
  ASSUME ~MayForce, ~PowerMayFail  PROVE Spec => []ArtifactOutlivesUpload
<1>1. Inv /\ Kept => ArtifactOutlivesUpload
  BY DEF Kept, Given, ArtifactOutlivesUpload
<1>2. Init => Kept
  BY InitKept
<1>3. Inv /\ Kept /\ [Next]_vars => Kept'
  BY StepKept
<1> QED  BY <1>1, <1>2, <1>3, Invariance, PTL DEF Spec

-----------------------------------------------------------------------------
(* One upload, one notification *)

\* The gateway was never told of n.
Fresh(n) == n \notin accepted /\ ~Requested(n)

WholeObject(n) == remote[n] # None /\ remote[n].len = Len[remote[n].artifact]

\* The platform has the objects that requests and jobs are about, and at most
\* one request per name, which somebody waits for, or nobody.
Announced ==
  /\ jobs \subseteq accepted
  /\ \A n \in Names : /\ Requested(n) \/ n \in jobs => WholeObject(n)
                      /\ Requested(n) => n \notin accepted
  /\ \A r, s \in requests : r.name = s.name => r = s
  /\ \A r \in requests : r.by # None =>
       pc[r.by] = "waiting" /\ Name(r.by) = r.name /\ reply[r.by] = "none"

\* What a command was told, and has not told the gateway yet.
Told(c) ==
  /\ pc[c] \in {"configuring", "checking", "uploading", "sending", "notifying"}
                          => Fresh(Name(c))
  /\ pc[c] = "sending"    => remote[Name(c)] # None
  /\ pc[c] = "notifying"  => WholeObject(Name(c))
  /\ reply[c] # "none"    => pc[c] = "waiting"
  /\ result[c] \in {"Receipt", "GatewayRejected"} => pc[c] = "ended"
  /\ reply[c] = "accepted" \/ result[c] = "Receipt" => Name(c) \in accepted
  /\ reply[c] = "rejected" \/ result[c] = "GatewayRejected" => Fresh(Name(c))

OnceOnly == Announced /\ \A c \in Commands : Told(c)

LEMMA InitOnce == Init => OnceOnly
BY DEF Init, OnceOnly, Announced, Told, Requested

\* A step that tells the platform nothing leaves d what it was told.
LEMMA NothingTold ==
  ASSUME NEW d \in Commands, Told(d), accepted' = accepted,
         pc'[d] = pc[d], Name(d)' = Name(d), reply'[d] = reply[d], result'[d] = result[d],
         Requested(Name(d))' => Requested(Name(d)),
         pc[d] \in {"sending", "notifying"} => remote'[Name(d)] = remote[Name(d)]
  PROVE  Told(d)'
BY DEF Told, Fresh, WholeObject

\* Requests that stay, are lost, or are orphaned.
LEMMA NothingAnnounced ==
  ASSUME Announced, UNCHANGED <<remote, jobs, accepted>>,
         \A n \in Names : Requested(n)' => Requested(n),
         \A r, s \in requests' : r.name = s.name => r = s,
         \A r \in requests' : r.by # None =>
           /\ r \in requests
           /\ UNCHANGED <<pc[r.by], plan[r.by], reply[r.by]>>
  PROVE  Announced'
BY DEF Announced, WholeObject, Name

LEMMA OrphanedOnce ==
  ASSUME Inv, OnceOnly, NEW c \in Commands, Crash(c) \/ NotifyFails(c)  PROVE OnceOnly'
<1>1. /\ UNCHANGED <<file, remote, jobs, accepted>> /\ requests' = Orphaned(c)
      /\ \A d \in Commands : d # c => /\ pc'[d] = pc[d] /\ result'[d] = result[d]
                                      /\ plan'[d] = plan[d] /\ reply'[d] = reply[d]
      /\ pc'[c] \in {"idle", "ended"} /\ result'[c] \in {"none", "Notify"} /\ reply'[c] = "none"
  BY DEF Inv, TypeOK, Crash, NotifyFails, Goto, End
<1>2. /\ \A n \in Names : Requested(n)' => Requested(n)
      /\ \A r, s \in requests' : r.name = s.name => r = s
      /\ \A r \in requests' : r.by # None => r \in requests /\ r.by \in Commands \ {c}
  BY <1>1, OrphansAreRequests DEF Inv, TypeOK, OnceOnly, Announced, Requested, Request
<1>3. Announced'
  BY <1>1, <1>2, NothingAnnounced DEF OnceOnly
<1>4. Told(c)'
  BY <1>1 DEF Told
<1>5. ASSUME NEW d \in Commands, d # c  PROVE Told(d)'
  <2>1. Name(d)' = Name(d)
    BY <1>1, <1>5 DEF Name
  <2>2. Requested(Name(d))' => Requested(Name(d))
    BY <1>1, <2>1, OrphansAreRequests DEF Inv, TypeOK, Requested, Orphaned, Request
  <2> QED  BY <1>1, <1>5, <2>1, <2>2, NothingTold DEF OnceOnly
<1> QED  BY <1>3, <1>4, <1>5 DEF OnceOnly

\* Steps before the upload, and returns.
Local(c) ==
  \/ \E p \in Plans, a \in Artifacts : Prepare(c, p, a)
  \/ OpenArtifact(c) \/ WriteArtifact(c) \/ SyncArtifact(c) \/ PersistFails(c)
  \/ Configure(c) \/ Check(c) \/ UploadFails(c) \/ Answered(c) \/ CloseRemote(c)

LEMMA LocalOnce ==
  ASSUME Inv, Kept, OnceOnly, NEW c \in Commands, Local(c)  PROVE OnceOnly'
<1>1. /\ UNCHANGED <<remote, requests, jobs, accepted>>
      /\ \A d \in Commands : d # c => /\ pc'[d] = pc[d] /\ result'[d] = result[d]
                                      /\ plan'[d] = plan[d] /\ reply'[d] = reply[d]
  BY DEF Inv, TypeOK, Local, Prepare, OpenArtifact, WriteArtifact, SyncArtifact, PersistFails,
         Configure, Check, UploadFails, Answered, CloseRemote, Goto, End, platformVars
<1>2. Told(c)
  BY DEF OnceOnly
<1>3. \A n \in Names : Requested(n)' <=> Requested(n)
  BY <1>1 DEF Requested
<1>4. \A r \in requests : r.by # None => r.by \in Commands \ {c}
  <2>1. pc[c] = "waiting" => reply[c] # "none"
    BY DEF Local, Prepare, OpenArtifact, WriteArtifact, SyncArtifact, PersistFails,
           Configure, Check, UploadFails, Answered, CloseRemote, At, Persisting
  <2> QED  BY <2>1 DEF Inv, TypeOK, Request, OnceOnly, Announced
<1>5. Announced'
  BY <1>1, <1>3, <1>4, NothingAnnounced DEF OnceOnly, Announced
<1>6. ASSUME NEW d \in Commands, d # c  PROVE Told(d)'
  <2>1. Name(d)' = Name(d) /\ (Requested(Name(d))' => Requested(Name(d)))
    BY <1>1, <1>6 DEF Name, Requested
  <2> QED  BY <1>1, <1>6, <2>1, NothingTold DEF OnceOnly
<1>7. Told(c)'
  <2>1. CASE \E p \in Plans, a \in Artifacts : Prepare(c, p, a)
    <3>1. /\ pc'[c] \in {"opening", "ended"} /\ reply'[c] = reply[c]
          /\ result'[c] \in {"none", "Consistency"} /\ pc[c] # "waiting"
      BY <2>1 DEF Inv, TypeOK, Prepare, Goto, End
    <3> QED  BY <1>2, <3>1 DEF Inv, TypeOK, Told
  <2>2. CASE ~ \E p \in Plans, a \in Artifacts : Prepare(c, p, a)
    <3>1. UNCHANGED plan /\ Name(c)' = Name(c) /\ Name(c) \in Names
      <4>1. UNCHANGED plan /\ pc[c] # "idle"
        BY <2>2 DEF Local, OpenArtifact, WriteArtifact, SyncArtifact, PersistFails, Configure,
                    Check, UploadFails, Answered, CloseRemote, At, Persisting
      <4> QED  BY <4>1, Busy DEF Name
    <3>2. Fresh(Name(c))' <=> Fresh(Name(c))
      BY <1>1, <3>1 DEF Fresh, Requested
    <3>3. CASE SyncArtifact(c)
      <4>1. ~WholeFile(Name(c))
        BY <3>3 DEF Kept, SyncArtifact, At, WholeFile
      <4>2. Fresh(Name(c))
        BY <3>1, <4>1 DEF Kept, Given, Fresh
      <4>3. pc'[c] = "configuring" /\ result'[c] = result[c] /\ reply'[c] = reply[c]
            /\ pc[c] = "syncing"
        BY <3>3 DEF Inv, TypeOK, SyncArtifact, Goto, At
      <4> QED  BY <1>2, <3>2, <4>2, <4>3 DEF Told
    <3>4. CASE Answered(c)
      <4>1. /\ pc'[c] = "ended" /\ reply'[c] = "none" /\ reply[c] # "none"
            /\ reply[c] = "accepted" => result'[c] = "Receipt"
            /\ reply[c] # "accepted" => result'[c] = "GatewayRejected"
        BY <3>4 DEF Inv, TypeOK, Answered, End, Goto
      <4> QED  BY <1>1, <1>2, <3>1, <3>2, <4>1 DEF Inv, TypeOK, Told
    <3>5. CASE CloseRemote(c)
      <4>1. WholeObject(Name(c))
        <5>1. pc[c] = "sending" /\ remote[Name(c)] # None
          BY <1>2, <3>5 DEF CloseRemote, At, Told
        <5>2. remote[Name(c)].artifact = signed[c] /\ remote[Name(c)].len = Len[signed[c]]
          BY <3>5, <5>1 DEF Inv, Knows, CloseRemote
        <5> QED  BY <5>1, <5>2 DEF WholeObject
      <4>2. pc'[c] = "notifying" /\ result'[c] = result[c] /\ reply'[c] = reply[c]
            /\ pc[c] = "sending"
        BY <3>5 DEF Inv, TypeOK, CloseRemote, Goto, At
      <4> QED  BY <1>1, <1>2, <3>1, <3>2, <4>1, <4>2 DEF Told, WholeObject
    <3>6. CASE OpenArtifact(c) \/ WriteArtifact(c) \/ PersistFails(c)
      <4>1. /\ pc'[c] \in {"writing", "syncing", "ended"} /\ reply'[c] = reply[c]
            /\ result'[c] \in {result[c], "Io"} /\ pc[c] \in {"opening", "writing", "syncing"}
        BY <3>6 DEF Inv, TypeOK, OpenArtifact, WriteArtifact, PersistFails, Persisting,
                    Goto, End, At
      <4> QED  BY <1>2, <4>1 DEF Inv, TypeOK, Told
    <3>7. CASE Configure(c) \/ Check(c) \/ UploadFails(c)
      <4>1. /\ pc'[c] \in {"checking", "uploading", "ended"} /\ reply'[c] = reply[c]
            /\ result'[c] \in {result[c], "Configuration", "Prepare", "Upload"}
            /\ pc[c] \in {"configuring", "checking", "uploading", "sending"}
        BY <3>7 DEF Inv, TypeOK, Configure, Check, UploadFails, Goto, End, At
      <4> QED  BY <1>2, <3>2, <4>1 DEF Inv, TypeOK, Told
    <3> QED  BY <2>2, <3>3, <3>4, <3>5, <3>6, <3>7 DEF Local
  <2> QED  BY <2>1, <2>2
<1> QED  BY <1>5, <1>6, <1>7 DEF OnceOnly

\* Only an object that the gateway was not told of is created or written.
LEMMA SendOnce ==
  ASSUME Inv, OnceOnly, NEW c \in Commands, CreateRemote(c) \/ SendChunk(c)  PROVE OnceOnly'
<1>1. /\ UNCHANGED <<plan, signed, reply, requests, jobs, accepted, result>>
      /\ pc[c] \in {"uploading", "sending"} /\ pc'[c] = "sending"
      /\ \A d \in Commands : d # c => pc'[d] = pc[d]
      /\ \A m \in Names : m # Name(c) => remote'[m] = remote[m]
  BY DEF Inv, TypeOK, CreateRemote, SendChunk, Goto, At, localVars
<1>2. Told(c) /\ Fresh(Name(c)) /\ Held(c) /\ Name(c) \in Names /\ signed[c] \in Artifacts
  BY <1>1, Busy DEF Inv, Knows, Holding, Persisted, OnNetwork, OnceOnly, Told
<1>3. remote'[Name(c)] # None
  <2>1. CASE CreateRemote(c)
    <3>1. [artifact |-> signed[c], len |-> 0] \in Contents
      <4>1. Len[signed[c]] \in Nat
        BY <1>2, PlansAssumption
      <4> QED  BY <1>2, <4>1 DEF Contents
    <3> QED  BY <1>2, <2>1, <3>1, NoneAssumption DEF Inv, TypeOK, CreateRemote
  <2>2. CASE SendChunk(c)
    <3>1. remote[Name(c)] \in Contents /\ remote[Name(c)].artifact = signed[c]
          /\ remote[Name(c)].len < Len[signed[c]] /\ Len[signed[c]] \in Nat
      BY <1>2, <2>2, PlansAssumption DEF Inv, TypeOK, Knows, SendChunk, At
    <3>2. [remote[Name(c)] EXCEPT !.len = @ + 1] \in Contents
      BY <3>1 DEF Contents
    <3> QED  BY <1>2, <2>2, <3>2, NoneAssumption DEF Inv, TypeOK, SendChunk
  <2> QED  BY <2>1, <2>2
<1>4. Announced'
  <2>1. \A n \in Names : Requested(n) \/ n \in jobs => n # Name(c)
    BY <1>2 DEF OnceOnly, Announced, Fresh
  <2>2. \A r \in requests : r.by # None => pc'[r.by] = "waiting"
    BY <1>1 DEF Inv, TypeOK, Request, OnceOnly, Announced
  <2> QED  BY <1>1, <2>1, <2>2 DEF OnceOnly, Announced, Requested, WholeObject, Name
<1>5. Told(c)'
  BY <1>1, <1>2, <1>3 DEF Told, Fresh, Requested, Name
<1>6. ASSUME NEW d \in Commands, d # c  PROVE Told(d)'
  <2>1. pc[d] \in {"sending", "notifying"} => remote'[Name(d)] = remote[Name(d)]
    BY <1>1, <1>2, <1>6, Busy DEF Held, Holding, Persisted, OnNetwork
  <2>2. Name(d)' = Name(d) /\ (Requested(Name(d))' => Requested(Name(d)))
    BY <1>1 DEF Name, Requested
  <2> QED  BY <1>1, <1>6, <2>1, <2>2, NothingTold DEF OnceOnly
<1> QED  BY <1>4, <1>5, <1>6 DEF OnceOnly

LEMMA NotifyOnce ==
  ASSUME Inv, OnceOnly, NEW c \in Commands, Notify(c)  PROVE OnceOnly'
<1> DEFINE new == [by |-> c, name |-> Name(c),
                   quantity |-> plan[c].payloads, size |-> Len[signed[c]]]
<1>1. /\ UNCHANGED <<plan, signed, reply, remote, jobs, accepted>>
      /\ pc[c] = "notifying" /\ \A d \in Commands : d # c => pc'[d] = pc[d] /\ result'[d] = result[d]
      /\ \/ /\ requests' = requests \cup {new} /\ pc'[c] = "waiting" /\ UNCHANGED result
         \/ UNCHANGED requests /\ pc'[c] = "ended" /\ result'[c] = "Encode"
  BY DEF Inv, TypeOK, Notify, Goto, End, At
<1>2. Told(c) /\ Fresh(Name(c)) /\ WholeObject(Name(c)) /\ Held(c) /\ Name(c) \in Names
      /\ reply[c] = "none"
  BY <1>1, Busy DEF Inv, Knows, Holding, Persisted, OnNetwork, OnceOnly, Told
<1>3. Announced'
  <2>1. \A r \in requests : /\ r.name # Name(c)
                            /\ r.by # None => r.by \in Commands \ {c}
    BY <1>1, <1>2 DEF Inv, TypeOK, Request, OnceOnly, Announced, Fresh, Requested
  <2>2. \A r \in requests' : r \in requests \/ r = new
    BY <1>1
  <2>3. new.by = c /\ new.name = Name(c)
    OBVIOUS
  <2>4. \A r, s \in requests' : r.name = s.name => r = s
    BY <2>1, <2>2, <2>3 DEF OnceOnly, Announced
  <2>5. \A r \in requests' : r.by # None =>
          pc'[r.by] = "waiting" /\ Name(r.by)' = r.name /\ reply'[r.by] = "none"
    <3>1. \A r \in requests : r.by # None =>
            pc'[r.by] = "waiting" /\ Name(r.by)' = r.name /\ reply'[r.by] = "none"
      BY <1>1, <2>1 DEF OnceOnly, Announced, Name
    <3>2. new \in requests' /\ new \notin requests => pc'[c] = "waiting"
      BY <1>1
    <3> QED  BY <1>1, <1>2, <2>2, <2>3, <3>1, <3>2 DEF Name
  <2>6. \A n \in Names : Requested(n)' => Requested(n) \/ n = Name(c)
    BY <2>2, <2>3 DEF Requested
  <2> HIDE DEF new
  <2> QED  BY <1>1, <1>2, <2>4, <2>5, <2>6 DEF OnceOnly, Announced, WholeObject, Fresh
<1>4. Told(c)'
  BY <1>1, <1>2 DEF Told, Name
<1>5. ASSUME NEW d \in Commands, d # c  PROVE Told(d)'
  <2>1. CASE Name(d) = Name(c)
    <3>1. ~ Holding(d)
      BY <1>2, <1>5, <2>1 DEF Held
    <3>2. Told(d) /\ pc[d] \notin {"configuring", "checking", "uploading", "sending",
                                   "notifying", "waiting"}
      BY <3>1 DEF OnceOnly, Holding, Persisted, OnNetwork
    <3>3. result[d] # "GatewayRejected"
      BY <3>1, <3>2 DEF Told, Holding, Persisted
    <3> QED  BY <1>1, <1>5, <3>2, <3>3 DEF Told, Name
  <2>2. CASE Name(d) # Name(c)
    <3>1. Name(d)' = Name(d) /\ (Requested(Name(d))' => Requested(Name(d)))
      BY <1>1, <2>2 DEF Name, Requested
    <3> QED  BY <1>1, <1>5, <3>1, NothingTold DEF OnceOnly
  <2> QED  BY <2>1, <2>2
<1> QED  BY <1>3, <1>4, <1>5 DEF OnceOnly

LEMMA HandleOnce ==
  ASSUME Inv, OnceOnly, NEW r \in requests, NEW verdict \in {"accepted", "rejected"},
         Handle(r, verdict)
  PROVE  OnceOnly'
<1>1. /\ UNCHANGED <<remote, pc, plan, signed, result>> /\ requests' = requests \ {r}
      /\ r.by \in Commands \cup {None} /\ r.name \in Names
      /\ \A d \in Commands : reply'[d] = IF d = r.by THEN verdict ELSE reply[d]
      /\ \A n \in Names : n \in accepted' <=> n \in accepted \/ (verdict = "accepted" /\ n = r.name)
      /\ \A n \in Names : n \in jobs' <=> n \in jobs \/ (verdict = "accepted" /\ n = r.name)
      /\ jobs' \subseteq Names
  BY PlansAssumption DEF Inv, TypeOK, Request, Handle, localVars
<1>2. /\ Requested(r.name) /\ WholeObject(r.name) /\ r.name \notin accepted
      /\ \A s \in requests' : s.name # r.name /\ (s.by # None => s.by # r.by)
      /\ r.by # None => pc[r.by] = "waiting" /\ Name(r.by) = r.name
  BY <1>1 DEF OnceOnly, Announced, Requested
<1>3. \A n \in Names : Requested(n)' => Requested(n) /\ n # r.name
  BY <1>1, <1>2 DEF Requested
<1>4. Announced'
  <2>1. \A s \in requests' : s.by # None => s.by \in Commands /\ reply'[s.by] = reply[s.by]
    BY <1>1, <1>2 DEF Inv, TypeOK, Request
  <2> QED  BY <1>1, <1>2, <1>3, <2>1 DEF OnceOnly, Announced, WholeObject, Name
<1>5. ASSUME NEW d \in Commands  PROVE Told(d)'
  <2>1. Told(d) /\ Name(d)' = Name(d)
    BY <1>1 DEF OnceOnly, Name
  <2>2. CASE d = r.by
    <3>1. Name(d) = r.name /\ pc[d] = "waiting" /\ result[d] \notin {"Receipt", "GatewayRejected"}
          /\ reply'[d] = verdict
      BY <1>1, <1>2, <2>1, <2>2, PlansAssumption DEF Told
    <3>2. ~Requested(r.name)'
      BY <1>1, <1>3
    <3> QED  BY <1>1, <1>2, <2>1, <3>1, <3>2 DEF Told, Fresh
  <2>3. CASE d # r.by /\ pc[d] # "idle"
    <3>1. Name(d) \in Names
      BY <2>3, Busy
    <3>2. Fresh(Name(d)) => Fresh(Name(d))'
      BY <1>1, <1>2, <1>3, <2>1, <3>1 DEF Fresh
    <3> QED  BY <1>1, <2>1, <2>3, <3>1, <3>2 DEF Told, WholeObject
  <2>4. CASE d # r.by /\ pc[d] = "idle"
    BY <1>1, <2>1, <2>4 DEF Inv, TypeOK, Told
  <2> QED  BY <2>2, <2>3, <2>4
<1> QED  BY <1>4, <1>5 DEF OnceOnly

LEMMA PlatformOnce ==
  ASSUME Inv, OnceOnly, (\E r \in requests : Lose(r)) \/ \E n \in Names : Process(n)
  PROVE  OnceOnly'
<1>1. ASSUME NEW r \in requests, Lose(r)  PROVE OnceOnly'
  <2>1. /\ UNCHANGED <<remote, jobs, accepted, pc, plan, reply, result>>
        /\ requests' \subseteq requests
        /\ \A n : Requested(n)' => Requested(n)
    BY <1>1 DEF Lose, localVars, Requested
  <2>2. Announced'
    BY <2>1, NothingAnnounced DEF OnceOnly, Announced
  <2>3. ASSUME NEW d \in Commands  PROVE Told(d)'
    BY <2>1, NothingTold DEF OnceOnly, Name
  <2> QED  BY <2>2, <2>3 DEF OnceOnly
<1>2. ASSUME NEW n \in Names, Process(n)  PROVE OnceOnly'
  <2>1. /\ UNCHANGED <<requests, accepted, pc, plan, reply, result>>
        /\ jobs' = jobs \ {n} /\ n \in accepted /\ ~ Requested(n)
        /\ \A m \in Names : m # n => remote'[m] = remote[m]
    BY <1>2 DEF Inv, TypeOK, Process, localVars, OnceOnly, Announced
  <2>2. Announced'
    BY <2>1 DEF Inv, TypeOK, OnceOnly, Announced, Requested, WholeObject, Name
  <2>3. ASSUME NEW d \in Commands  PROVE Told(d)'
    <3>1. pc[d] \in {"sending", "notifying"} => remote'[Name(d)] = remote[Name(d)]
      BY <2>1, Busy DEF OnceOnly, Told, Fresh
    <3>2. Name(d)' = Name(d) /\ (Requested(Name(d))' => Requested(Name(d)))
      BY <2>1 DEF Name, Requested
    <3> QED  BY <2>1, <3>1, <3>2, NothingTold DEF OnceOnly
  <2> QED  BY <2>2, <2>3 DEF OnceOnly
<1> QED  BY <1>1, <1>2

LEMMA StepOnce ==
  ASSUME ~PowerMayFail, ~Retries  PROVE Inv /\ Kept /\ OnceOnly /\ [Next]_vars => OnceOnly'
<1> SUFFICES ASSUME Inv, Kept, OnceOnly, [Next]_vars  PROVE OnceOnly'
  OBVIOUS
<1>1. CASE UNCHANGED vars
  BY <1>1 DEF OnceOnly, Announced, Told, Fresh, Requested, WholeObject, Name, vars,
              platformVars, localVars
<1>2. CASE Next
  BY <1>2, OrphanedOnce, LocalOnce, SendOnce, NotifyOnce, HandleOnce, PlatformOnce
  DEF Next, RunSubmit, Local, Retry, PowerLoss
<1> QED  BY <1>1, <1>2

LEMMA Once ==
  ASSUME ~MayForce, ~PowerMayFail, ~Retries  PROVE Spec => [](Inv /\ Kept /\ OnceOnly)
<1>1. Init => Inv /\ Kept /\ OnceOnly
  BY InitKeeps, InitKept, InitOnce
<1>2. Inv /\ Kept /\ OnceOnly /\ [Next]_vars => (Inv /\ Kept /\ OnceOnly)'
  BY StepKeeps, StepKept, StepOnce
<1> QED  BY <1>1, <1>2, PTL DEF Spec

\* Without --force-output, retries and power failures the object of a queued
\* job is whole when the platform comes for it, and stays whole.
THEOREM QueueKeptWhole ==
  ASSUME ~MayForce, ~PowerMayFail, ~Retries  PROVE Spec => []QueuedWhole
<1>1. Inv /\ OnceOnly => QueuedWhole
  BY DEF OnceOnly, Announced, QueuedWhole, WholeObject, Inv, TypeOK
<1> QED  BY <1>1, Once, PTL

\* Under the same conditions a receipt means that the gateway took the
\* submission, and GatewayRejected that it did not.
THEOREM ReportsAreTrue ==
  ASSUME ~MayForce, ~PowerMayFail, ~Retries  PROVE Spec => []ReportsTrue
<1>1. OnceOnly => ReportsTrue
  BY DEF OnceOnly, Told, Fresh, ReportsTrue
<1> QED  BY <1>1, Once, PTL
=============================================================================
