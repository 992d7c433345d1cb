---------------------------- MODULE NativeSubmit ----------------------------
(***************************************************************************)
(* The submit command: apps/einvoice-cli/src/main.rs over the client,      *)
(* packed, package, native, sftp and gateway modules.                      *)
(*                                                                         *)
(* A command checks a submission plan, signs it, writes the signed         *)
(* artifact to a local file and fsyncs it, uploads it to the platform's    *)
(* SFTP directory `/in`, and only then notifies the gateway over HTTP      *)
(* (PFS001), which puts a job on the platform's queue.  Commands crash,    *)
(* uploads stop halfway, and a notification may take effect although its   *)
(* answer is lost, even long after its command gave up.                    *)
(*                                                                         *)
(* A name is the common name of a submission: it names the remote object   *)
(* and the local artifact, since every submission has an --output of its   *)
(* own.                                                                    *)
(***************************************************************************)
EXTENDS Integers

CONSTANTS
  Commands,      \* processes that run submit, or hold a PreparedSubmission
  Plans,         \* what commands are asked to submit
  Artifacts,     \* signed artifacts: signing again makes another one
  Len,           \* Len[a] is the number of bytes (chunks) of artifact a
  MaxSource,     \* MAX_SIGNED_SOURCE_BYTES
  Int32Max,      \* the largest number that PFS001 can say
  MayForce,      \* commands may be given --force-output
  Retries,       \* PreparedSubmission::submit is called again after an error
  PowerMayFail,  \* power failures are part of the model
  None           \* no file, no object, no plan, no command

Names == {p.name : p \in Plans}

\* Of the duplicated fields that validate_plan compares only the counts are
\* numbers that PFS001 has to say; a plan is taken to agree on the others.
ASSUME PlansAssumption ==
  /\ \A p \in Plans : /\ DOMAIN p = {"name", "packCount", "payloads", "force"}
                      /\ p.packCount \in -Int32Max - 1 .. Int32Max
                      /\ p.payloads \in Nat \ {0}
                      /\ p.force \in BOOLEAN
                      /\ p.force => MayForce
  /\ None \notin Plans \cup Commands \cup Artifacts
  /\ Len \in [Artifacts -> Nat \ {0}]
  /\ MaxSource \in Nat /\ Int32Max \in Nat /\ MaxSource <= Int32Max
  /\ {MayForce, Retries, PowerMayFail} \subseteq BOOLEAN

\* The model of two writers of one remote object would need the mixtures
\* that they produce; without --force-output only one command per name
\* reaches the network.
ASSUME ForceAssumption == MayForce => \A c, d \in Commands : c = d

VARIABLES
  file,      \* file[n]: the artifact file of n
  remote,    \* remote[n]: the object of `/in` named n
  requests,  \* notifications on their way to the gateway
  reply,     \* the gateway's answer on its way to the command
  jobs,      \* names on the queue of the platform
  accepted,  \* history: names the gateway ever accepted
  pc,        \* where each command is in run_submit
  plan,      \* the SubmissionPlan of the command
  signed,    \* the SignedArtifact of the command
  result     \* the Ok or Err variant of the last submission

localVars    == <<pc, plan, signed, result>>
platformVars == <<remote, requests, jobs, accepted>>
vars         == <<file, reply, platformVars, localVars>>

-----------------------------------------------------------------------------
(* Types *)

\* What was written is a prefix of an artifact.
Contents == {f \in [artifact : Artifacts, len : Nat] : f.len <= Len[f.artifact]}

File == {f \in [artifact : Artifacts, len : Nat, flushed : BOOLEAN] :
           f.len <= Len[f.artifact]}

\* A command that gave up is no longer there for the answer.
Request == [by : Commands \cup {None}, name : Names,
            quantity : 0 .. Int32Max, size : 0 .. Int32Max]

ASSUME NoneAssumption == None \notin File \cup Contents

Persisting == {"opening", "writing", "syncing"}
OnNetwork  == {"uploading", "sending", "notifying", "waiting"}
Locations  == {"idle", "configuring", "checking", "ended"} \cup Persisting \cup OnNetwork

Results == {"none", "Receipt", "Consistency", "Io", "Configuration", "Prepare",
            "Upload", "Encode", "Notify", "GatewayRejected"}

TypeOK ==
  /\ file     \in [Names -> File \cup {None}]
  /\ remote   \in [Names -> Contents \cup {None}]
  /\ requests \subseteq Request
  /\ reply    \in [Commands -> {"none", "accepted", "rejected"}]
  /\ jobs     \subseteq Names
  /\ accepted \subseteq Names
  /\ pc       \in [Commands -> Locations]
  /\ plan     \in [Commands -> Plans \cup {None}]
  /\ signed   \in [Commands -> Artifacts \cup {None}]
  /\ result   \in [Commands -> Results]

Init ==
  /\ file     = [n \in Names |-> None]
  /\ remote   = [n \in Names |-> None]
  /\ requests = {}
  /\ reply    = [c \in Commands |-> "none"]
  /\ jobs     = {}
  /\ accepted = {}
  /\ pc       = [c \in Commands |-> "idle"]
  /\ plan     = [c \in Commands |-> None]
  /\ signed   = [c \in Commands |-> None]
  /\ result   = [c \in Commands |-> "none"]

At(c, here) == pc[c] = here

Goto(c, there) == pc' = [pc EXCEPT ![c] = there]

\* submit returns; the command prints the receipt or the error.
End(c, res) ==
  /\ Goto(c, "ended")
  /\ result' = [result EXCEPT ![c] = res]

Name(c) == plan[c].name

-----------------------------------------------------------------------------
(* prepare: checks and signs, without network *)

\* validate_plan on the counts.
Consistent(p) == p.packCount > 0 /\ p.packCount = p.payloads

\* A command that fails earlier, reading its inputs or signing, touches
\* nothing and is no step of the model.
Prepare(c, p, a) ==
  /\ pc[c] \in {"idle", "ended"}
  /\ plan'   = [plan EXCEPT ![c] = p]
  /\ signed' = [signed EXCEPT ![c] = a]
  /\ IF Consistent(p)
     THEN /\ Goto(c, "opening")
          /\ result' = [result EXCEPT ![c] = "none"]
     ELSE End(c, "Consistency")
  /\ UNCHANGED <<file, reply, platformVars>>

-----------------------------------------------------------------------------
(* persist_artifact *)

\* Mutant of OpenArtifact: an existing file is always taken.
OpenArtifactShared(c) ==
  /\ At(c, "opening")
  /\ file' = [file EXCEPT ![Name(c)] =
                [artifact |-> signed[c], len |-> 0, flushed |-> FALSE]]
  /\ Goto(c, "writing")
  /\ UNCHANGED <<reply, platformVars, plan, signed, result>>

\* Mutant of OpenArtifact: --force-output does not truncate.
OpenArtifactUntruncated(c) ==
  LET old == file[Name(c)] IN
  /\ At(c, "opening")
  /\ IF old # None /\ ~plan[c].force
     THEN End(c, "Io") /\ UNCHANGED file
     ELSE /\ file' = [file EXCEPT ![Name(c)] =
                        [artifact |-> signed[c],
                         len      |-> IF old = None THEN 0 ELSE old.len,
                         flushed  |-> FALSE]]
          /\ Goto(c, "writing")
          /\ UNCHANGED result
  /\ UNCHANGED <<reply, platformVars, plan, signed>>

\* create_new refuses an existing file; --force-output truncates it.
OpenArtifact(c) ==
  /\ At(c, "opening")
  /\ IF file[Name(c)] # None /\ ~plan[c].force
     THEN End(c, "Io") /\ UNCHANGED file
     ELSE /\ file' = [file EXCEPT ![Name(c)] =
                        [artifact |-> signed[c], len |-> 0, flushed |-> FALSE]]
          /\ Goto(c, "writing")
          /\ UNCHANGED result
  /\ UNCHANGED <<reply, platformVars, plan, signed>>

\* write_all, chunk by chunk.
WriteArtifact(c) ==
  /\ At(c, "writing")
  /\ IF file[Name(c)].len < Len[signed[c]]
     THEN file' = [file EXCEPT ![Name(c)].len = @ + 1] /\ UNCHANGED pc
     ELSE Goto(c, "syncing") /\ UNCHANGED file
  /\ UNCHANGED <<reply, platformVars, plan, signed, result>>

\* Mutant of SyncArtifact: without the fsync.
SyncArtifactSkipped(c) ==
  /\ At(c, "syncing")
  /\ Goto(c, "configuring")
  /\ UNCHANGED <<file, reply, platformVars, plan, signed, result>>

\* sync_all of the file.  Its directory is not fsynced.
SyncArtifact(c) ==
  /\ At(c, "syncing")
  /\ file' = [file EXCEPT ![Name(c)].flushed = TRUE]
  /\ Goto(c, "configuring")
  /\ UNCHANGED <<reply, platformVars, plan, signed, result>>

\* open, write_all or sync_all fails; what was written stays.
PersistFails(c) ==
  /\ pc[c] \in Persisting
  /\ End(c, "Io")
  /\ UNCHANGED <<file, reply, platformVars, plan, signed>>

\* The transport password is read and the clients are built, after the
\* artifact was persisted.
Configure(c) ==
  /\ At(c, "configuring")
  /\ \/ Goto(c, "checking") /\ UNCHANGED result
     \/ End(c, "Configuration")
  /\ UNCHANGED <<file, reply, platformVars, plan, signed>>

-----------------------------------------------------------------------------
(* submit: the network phase *)

\* Mutant of Check: the limit of 20 MiB is not checked.
CheckUnlimited(c) ==
  /\ At(c, "checking")
  /\ Goto(c, "uploading")
  /\ UNCHANGED <<file, reply, platformVars, plan, signed, result>>

\* submit_pack_artifact and prepare_upload_object.  The counts were compared
\* by validate_plan, so only the length of the signed source is left.
Check(c) ==
  /\ At(c, "checking")
  /\ IF Len[signed[c]] <= MaxSource
     THEN Goto(c, "uploading") /\ UNCHANGED result
     ELSE End(c, "Prepare")
  /\ UNCHANGED <<file, reply, platformVars, plan, signed>>

\* sftp.create: creates the remote object, or truncates it.
CreateRemote(c) ==
  /\ At(c, "uploading")
  /\ remote' = [remote EXCEPT ![Name(c)] = [artifact |-> signed[c], len |-> 0]]
  /\ Goto(c, "sending")
  /\ UNCHANGED <<file, reply, requests, jobs, accepted, plan, signed, result>>

\* write_all, chunk by chunk.
SendChunk(c) ==
  /\ At(c, "sending")
  /\ remote[Name(c)] # None /\ remote[Name(c)].len < Len[signed[c]]
  /\ remote' = [remote EXCEPT ![Name(c)].len = @ + 1]
  /\ UNCHANGED <<file, reply, requests, jobs, accepted, localVars>>

\* flush and close.  An object that the platform took away meanwhile is
\* written on where nobody sees it.
CloseRemote(c) ==
  /\ At(c, "sending")
  /\ remote[Name(c)] # None => remote[Name(c)].len = Len[signed[c]]
  /\ Goto(c, "notifying")
  /\ UNCHANGED <<file, reply, platformVars, plan, signed, result>>

\* Mutant of UploadFails: the notification is sent all the same.
UploadFailsSilently(c) ==
  /\ pc[c] \in {"uploading", "sending"}
  /\ Goto(c, "notifying")
  /\ UNCHANGED <<file, reply, platformVars, plan, signed, result>>

\* Connecting or creating fails, or the connection breaks and leaves what
\* had arrived.
UploadFails(c) ==
  /\ pc[c] \in {"uploading", "sending"}
  /\ End(c, "Upload")
  /\ UNCHANGED <<file, reply, platformVars, plan, signed>>

Encodable(c) == plan[c].payloads <= Int32Max /\ Len[signed[c]] <= Int32Max

\* notify: to_pfs001_json checks the numbers, then the request is sent.
Notify(c) ==
  /\ At(c, "notifying")
  /\ IF Encodable(c)
     THEN /\ requests' = requests \cup
               {[by |-> c, name |-> Name(c),
                 quantity |-> plan[c].payloads, size |-> Len[signed[c]]]}
          /\ Goto(c, "waiting")
          /\ UNCHANGED result
     ELSE End(c, "Encode") /\ UNCHANGED requests
  /\ UNCHANGED <<file, reply, remote, jobs, accepted, plan, signed>>

\* The gateway's verdict is in the JSON body of an HTTP success.
Answered(c) ==
  /\ At(c, "waiting") /\ reply[c] # "none"
  /\ End(c, IF reply[c] = "accepted" THEN "Receipt" ELSE "GatewayRejected")
  /\ reply' = [reply EXCEPT ![c] = "none"]
  /\ UNCHANGED <<file, platformVars, plan, signed>>

\* The requests once command c has closed its connection.
Orphaned(c) == {[r EXCEPT !.by = IF @ = c THEN None ELSE @] : r \in requests}

\* Mutant of NotifyFails: a timeout is reported as a rejection.
TimeoutRejects(c) ==
  /\ At(c, "waiting")
  /\ requests' = Orphaned(c)
  /\ reply' = [reply EXCEPT ![c] = "none"]
  /\ End(c, "GatewayRejected")
  /\ UNCHANGED <<file, remote, jobs, accepted, plan, signed>>

\* No connection, a timeout, an HTTP error status or a body that does not
\* decode.  The request may have arrived, or may still arrive.
NotifyFails(c) ==
  /\ At(c, "waiting")
  /\ requests' = Orphaned(c)
  /\ reply' = [reply EXCEPT ![c] = "none"]
  /\ End(c, "Notify")
  /\ UNCHANGED <<file, remote, jobs, accepted, plan, signed>>

\* The holder of the PreparedSubmission calls submit again after a failure.
Retry(c) ==
  /\ Retries
  /\ At(c, "ended") /\ result[c] \in {"Upload", "Notify", "GatewayRejected"}
  /\ Goto(c, "checking")
  /\ result' = [result EXCEPT ![c] = "none"]
  /\ UNCHANGED <<file, reply, platformVars, plan, signed>>

\* The process dies.
Crash(c) ==
  /\ pc[c] # "idle"
  /\ Goto(c, "idle")
  /\ requests' = Orphaned(c)
  /\ reply'  = [reply EXCEPT ![c] = "none"]
  /\ plan'   = [plan EXCEPT ![c] = None]
  /\ signed' = [signed EXCEPT ![c] = None]
  /\ result' = [result EXCEPT ![c] = "none"]
  /\ UNCHANGED <<file, remote, jobs, accepted>>

-----------------------------------------------------------------------------
(* The platform and the machine *)

\* The gateway handles a notification; it may refuse it for reasons of its own.
Handle(r, verdict) ==
  /\ r \in requests
  /\ requests' = requests \ {r}
  /\ reply' = IF r.by = None THEN reply ELSE [reply EXCEPT ![r.by] = verdict]
  /\ IF verdict = "accepted"
     THEN jobs' = jobs \cup {r.name} /\ accepted' = accepted \cup {r.name}
     ELSE UNCHANGED <<jobs, accepted>>
  /\ UNCHANGED <<file, remote, localVars>>

\* A request is lost on its way.
Lose(r) ==
  /\ r \in requests
  /\ requests' = requests \ {r}
  /\ UNCHANGED <<file, reply, remote, jobs, accepted, localVars>>

\* A job of the queue takes its object out of `/in`.
Process(n) ==
  /\ n \in jobs
  /\ jobs' = jobs \ {n}
  /\ remote' = [remote EXCEPT ![n] = None]
  /\ UNCHANGED <<file, reply, requests, accepted, localVars>>

\* A power failure of the machine that runs the commands: a directory entry
\* that was never fsynced may be lost, and so may data.
PowerLoss(lost) ==
  /\ PowerMayFail
  /\ file' = [n \in Names |->
                IF n \in lost \/ file[n] = None THEN None
                ELSE IF file[n].flushed THEN file[n]
                ELSE [artifact |-> file[n].artifact, len |-> 0, flushed |-> TRUE]]
  /\ requests' = {[r EXCEPT !.by = None] : r \in requests}
  /\ reply'  = [c \in Commands |-> "none"]
  /\ pc'     = [c \in Commands |-> "idle"]
  /\ plan'   = [c \in Commands |-> None]
  /\ signed' = [c \in Commands |-> None]
  /\ result' = [c \in Commands |-> "none"]
  /\ UNCHANGED <<remote, jobs, accepted>>

-----------------------------------------------------------------------------
(* Specification *)

RunSubmit(c) ==
  \/ \E p \in Plans, a \in Artifacts : Prepare(c, p, a)
  \/ OpenArtifact(c) \/ WriteArtifact(c) \/ SyncArtifact(c)
  \/ PersistFails(c)
  \/ Configure(c)
  \/ Check(c) \/ CreateRemote(c) \/ SendChunk(c) \/ CloseRemote(c)
  \/ UploadFails(c)
  \/ Notify(c) \/ Answered(c) \/ NotifyFails(c)

Next ==
  \/ \E c \in Commands : RunSubmit(c) \/ Retry(c) \/ Crash(c)
  \/ \E r \in requests :
       Lose(r) \/ \E verdict \in {"accepted", "rejected"} : Handle(r, verdict)
  \/ \E n \in Names : Process(n)
  \/ \E lost \in SUBSET Names : PowerLoss(lost)

Spec == Init /\ [][Next]_vars

-----------------------------------------------------------------------------
(* Properties *)

WholeFile(n) == file[n] # None /\ file[n].len = Len[file[n].artifact] /\ file[n].flushed

\* "no SFTP or HTTP client is invoked before the exact signed artifact has
\* been written and fsync'd successfully" (main.rs, run_submit), and the
\* artifact stays while the command is on the network.
DurabilityBoundary ==
  \A c \in Commands :
    pc[c] \in OnNetwork => WholeFile(Name(c)) /\ file[Name(c)].artifact = signed[c]

\* Whatever the platform was given, the local artifact file has: an object
\* in `/in` is a part of it, and a job is of a submission whose artifact can
\* still be read ("Persist the prepared/signed submission before network
\* I/O", docs/state-persistence.md).
ArtifactOutlivesUpload ==
  \A n \in Names :
    /\ remote[n] # None => WholeFile(n) /\ remote[n].artifact = file[n].artifact
    /\ n \in accepted => WholeFile(n)

\* The object of a queued job is whole when the platform comes for it, since
\* the gateway is notified only after the upload succeeded (native.rs,
\* submit), and it stays whole (no "silently destroying the artifact needed
\* by the platform").
QueuedWhole ==
  \A n \in jobs : remote[n] # None /\ remote[n].len = Len[remote[n].artifact]

\* What a command reports is what happened: a receipt means that the gateway
\* took the submission, a rejection that it did not.  An unknown outcome is
\* neither ("must never be represented as `Rejected`",
\* docs/protocol-boundaries.md).
ReportsTrue ==
  \A c \in Commands :
    /\ result[c] = "Receipt" => Name(c) \in accepted
    /\ result[c] = "GatewayRejected" => Name(c) \notin accepted

\* No object is uploaded that no notification can be encoded for: pack
\* counts have 32 bits and the limit of the source fits them (checked_i32
\* never fails behind an upload).
UploadsNotifiable ==
  \A c \in Commands : pc[c] \in OnNetwork => Encodable(c)
=============================================================================
