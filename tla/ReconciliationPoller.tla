------------------------ MODULE ReconciliationPoller ------------------------
(***************************************************************************)
(* poll_once of crates/einvoice-transport/src/reconciliation.rs over       *)
(* DurableReceiver.  A poller takes one listing of `/out` (sftp.rs), gives *)
(* every object of it to DurableReceiver::receive, loads and parses what   *)
(* was received, and returns one attempt per object to its caller.  The    *)
(* CLI's receive command is a process that polls once; a process of the    *)
(* model that polls again stands for the next run of the command.          *)
(*                                                                         *)
(* Names are numbers, which stand for file names in their byte order.      *)
(***************************************************************************)
EXTENDS DurableReceiver, Sequences, Functions

CONSTANTS
  ResultNames,  \* names that end with ProcessResult or SummaryResult
  Malformed     \* bodies that do not parse as a result

ASSUME PollerAssumption ==
  /\ Names \subseteq Nat /\ IsFiniteSet(Names)
  /\ ResultNames \subseteq Names
  /\ Malformed \subseteq Bodies

VARIABLES
  phase,     \* where each process is in poll_once
  listing,   \* history: the listing the poll works on
  queue,     \* the objects of the listing that are still to be received
  attempts,  \* the PollAttempts collected so far
  handed     \* history: how many records of each name went to the callers

pollerVars == <<phase, listing, queue, attempts>>

pollVars == <<vars, pollerVars, handed>>

Attempt == [name : Names, result : {"Ok", "Receive", "Io", "Parse"}]

PollTypeOK ==
  /\ phase    \in [Receivers -> {"resting", "polling", "receiving"}]
  /\ listing  \in [Receivers -> Seq(RemoteObject)]
  /\ queue    \in [Receivers -> Seq(RemoteObject)]
  /\ attempts \in [Receivers -> Seq(Attempt)]
  /\ handed   \in [Names -> Nat]

PollInit ==
  /\ Init
  /\ phase    = [r \in Receivers |-> "resting"]
  /\ listing  = [r \in Receivers |-> <<>>]
  /\ queue    = [r \in Receivers |-> <<>>]
  /\ attempts = [r \in Receivers |-> <<>>]
  /\ handed   = [n \in Names |-> 0]

-----------------------------------------------------------------------------
(* The steps of poll_once *)

Listed == {n \in Names : remote[n] # None}

\* Mutant of Listings: a size that the server does not tell counts as zero.
ListingsUnsized ==
  {l \in [1 .. Cardinality(Listed) -> {[name |-> n, size |-> 0] : n \in Listed}] :
     \A i, j \in DOMAIN l : i < j => l[i].name < l[j].name}

\* Ssh2RemoteInbox::list: every object of `/out` with its size, sorted by
\* name.  There is one such sequence.
Listings ==
  {l \in [1 .. Cardinality(Listed) ->
            {[name |-> n, size |-> Size[remote[n]]] : n \in Listed}] :
     \A i, j \in DOMAIN l : i < j => l[i].name < l[j].name}

\* One entry with a name that is no basename fails the whole listing.  A
\* listing that fails ends the poll and changes nothing: it is a stutter.
ListOut(r) ==
  /\ At(r, "idle") /\ phase[r] = "resting"
  /\ Listed \subseteq SafeNames
  /\ \E l \in Listings : /\ listing' = [listing EXCEPT ![r] = l]
                         /\ queue'   = [queue EXCEPT ![r] = l]
  /\ attempts' = [attempts EXCEPT ![r] = <<>>]
  /\ phase'    = [phase EXCEPT ![r] = "polling"]
  /\ UNCHANGED <<vars, handed>>

ReceiveNext(r) ==
  /\ phase[r] = "polling" /\ queue[r] # <<>>
  /\ Begin(r, Head(queue[r]))
  /\ queue' = [queue EXCEPT ![r] = Tail(@)]
  /\ phase' = [phase EXCEPT ![r] = "receiving"]
  /\ UNCHANGED <<listing, attempts, handed>>

Receiving(r) ==
  /\ phase[r] = "receiving"
  /\ Receive(r)
  /\ UNCHANGED <<pollerVars, handed>>

\* The attempt for the current object is recorded and the loop goes on.
Record(r, result) ==
  /\ phase[r] = "receiving" /\ At(r, "idle")
  /\ attempts' = [attempts EXCEPT ![r] =
                    Append(@, [name |-> object[r].name, result |-> result])]
  /\ phase' = [phase EXCEPT ![r] = "polling"]
  /\ UNCHANGED <<vars, listing, queue, handed>>

\* Mutant of RecordReceiveError: the first error ends the poll.
RecordErrorAndStop(r) ==
  /\ outcome[r] \notin Received
  /\ phase[r] = "receiving" /\ At(r, "idle")
  /\ attempts' = [attempts EXCEPT ![r] =
                    Append(@, [name |-> object[r].name, result |-> "Receive"])]
  /\ queue' = [queue EXCEPT ![r] = <<>>]
  /\ phase' = [phase EXCEPT ![r] = "polling"]
  /\ UNCHANGED <<vars, listing, handed>>

\* Mutant of RecordReceiveError: the receiver's error is passed on as it is.
RecordRawError(r) ==
  /\ outcome[r] \notin Received
  /\ Record(r, outcome[r])

RecordReceiveError(r) ==
  /\ outcome[r] \notin Received
  /\ Record(r, "Receive")

\* classify_remote_name and parse_reconciliation: only results are parsed.
Parses(n, b) == n \in ResultNames => b \notin Malformed

\* Mutant of Load: a record that does not parse is returned all the same.
LoadUnparsed(r) ==
  /\ outcome[r] \in Received
  /\ Record(r, "Ok")

\* DurableInboundRecord::load of the published file.
Load(r) ==
  LET name == object[r].name IN
  /\ outcome[r] \in Received
  /\ Record(r, IF Parses(name, inbox[name].body) THEN "Ok" ELSE "Parse")

LoadFails(r) ==
  /\ outcome[r] \in Received
  /\ Record(r, "Io")

\* Names of the records that were received, loaded and parsed.
Succeeded(r) == {a.name : a \in {b \in Range(attempts[r]) : b.result = "Ok"}}

\* poll_once returns its attempts.
ReturnAttempts(r) ==
  /\ phase[r] = "polling" /\ queue[r] = <<>>
  /\ handed' = [n \in Names |->
                  IF n \in Succeeded(r) THEN handed[n] + 1 ELSE handed[n]]
  /\ phase' = [phase EXCEPT ![r] = "resting"]
  /\ UNCHANGED <<vars, listing, queue, attempts>>

-----------------------------------------------------------------------------
(* The environment *)

ForgetPoll(rs) ==
  /\ phase'    = [r \in Receivers |-> IF r \in rs THEN "resting" ELSE phase[r]]
  /\ listing'  = [r \in Receivers |-> IF r \in rs THEN <<>> ELSE listing[r]]
  /\ queue'    = [r \in Receivers |-> IF r \in rs THEN <<>> ELSE queue[r]]
  /\ attempts' = [r \in Receivers |-> IF r \in rs THEN <<>> ELSE attempts[r]]
  /\ UNCHANGED handed

CrashPoll(r) == Crash(r) /\ ForgetPoll({r})

StartPoller(r) ==
  /\ \E p \in Pids : Start(r, p)
  /\ UNCHANGED <<pollerVars, handed>>

PostOut ==
  /\ \E n \in Names, b \in Bodies : Post(n, b)
  /\ UNCHANGED <<pollerVars, handed>>

PowerLossPoll ==
  /\ \E lost \in SUBSET Unsynced, leftovers \in SUBSET TempNames, b \in Bodies :
       \E cut \in 0 .. Size[b] : PowerLoss(lost, leftovers, cut)
  /\ ForgetPoll(Receivers)

-----------------------------------------------------------------------------
(* Specification *)

Progress(r) ==
  \/ ListOut(r) \/ ReceiveNext(r) \/ Receiving(r)
  \/ RecordReceiveError(r) \/ Load(r) \/ LoadFails(r)
  \/ ReturnAttempts(r)

PollNext ==
  \/ PostOut
  \/ \E r \in Receivers : StartPoller(r) \/ Progress(r) \/ CrashPoll(r)
  \/ PowerLossPoll

PollSpec == PollInit /\ [][PollNext]_pollVars

\* The receive command is run again and again, and a process that runs keeps
\* running.  Nothing is fair about the platform, crashes and power failures.
Fairness ==
  \A r \in Receivers : /\ WF_pollVars(StartPoller(r))
                       /\ WF_pollVars(Progress(r))

FairPollSpec == PollSpec /\ Fairness

-----------------------------------------------------------------------------
(* Properties *)

\* "One bad object does not prevent the poller from attempting other files
\* returned by the same `/out` listing snapshot" (reconciliation.rs): the
\* attempts, the object in hand and the queue are together the listing.
EveryObjectAttempted ==
  \A r \in Receivers :
    [i \in DOMAIN listing[r] |-> listing[r][i].name] =
      [i \in DOMAIN attempts[r] |-> attempts[r][i].name]
        \o (IF phase[r] = "receiving" THEN <<object[r].name>> ELSE <<>>)
        \o [i \in DOMAIN queue[r] |-> queue[r][i].name]

\* When names are used once, a record is returned at most once, by whichever
\* poller: a retry can "finish deletion without applying domain state twice"
\* (receiver.rs, receive).
HandedAtMostOnce == \A n \in Names : handed[n] <= 1

\* What poll_once returned as received is gone from `/out` and stands, whole
\* and parsed, in the inbox.
HandedIsSaved ==
  \A n \in Names : handed[n] > 0 =>
    /\ remote[n] = None
    /\ \E b \in posted[n] : IsCopy(inbox[n], b) /\ Parses(n, b)

\* An error that the environment could have avoided.
Fault(r) ==
  LET b == remote[object[r].name] IN
  \/ CreateFails(r) \/ LocalIoFails(r)
  \/ /\ pc[r] \in {"downloading", "deleting"} /\ b # None
     /\ \/ DownloadFails(r) \/ DeleteFails(r)
        \/ \E len \in 0 .. Size[b] - 1 : Download(r, len)
  \/ pc[r] # "down" /\ pc'[r] = "down"

Receivable(n) == remote[n] # None /\ Size[remote[n]] > 0

\* Once the errors stop, the polls empty `/out` of every object that is not
\* empty, even beside an empty one that fails in each poll.
OutDrained ==
  <>[][~ \E r \in Receivers : Fault(r)]_pollVars =>
    \A n \in Names : Receivable(n) ~> remote[n] = None
=============================================================================
