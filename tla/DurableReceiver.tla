--------------------------- MODULE DurableReceiver ---------------------------
(***************************************************************************)
(* The durable receive worker of crates/einvoice-transport/src/receiver.rs *)
(*                                                                         *)
(* Receiver processes consume objects that the platform posts in its       *)
(* remote `/out` directory.  Each of them downloads an object into a       *)
(* temporary file of a local inbox directory, fsyncs it, publishes it      *)
(* under its own name with a hard link, fsyncs the directory, and only     *)
(* then deletes the remote object.  Every process of the model shares one  *)
(* inbox directory and one `/out`; each may crash at any step, any I/O may *)
(* fail, a deletion may take effect and still be reported as failed, and   *)
(* the power of the local machine may fail.                                *)
(*                                                                         *)
(* The published entries of the inbox have two images: what the processes  *)
(* see (inbox) and what is known to survive a power failure (disk).  A     *)
(* directory fsync copies the first to the second.  A file's data is       *)
(* durable once the file has been fsynced.                                 *)
(***************************************************************************)
EXTENDS Naturals, FiniteSets

CONSTANTS
  Receivers,      \* receiver processes that share the inbox directory
  Names,          \* names of objects in `/out`
  SafeNames,      \* the names that validate_remote_name accepts
  Bodies,         \* contents the platform posts
  Size,           \* Size[b] is the number of bytes (chunks) of body b
  Pids,           \* process identifiers; containers may share one
  TempIds,        \* NEXT_TEMP_ID counts modulo TempIds (2^64 in the code)
  NameReuse,      \* the platform may post again under a name it deleted
  MaxLeftovers,   \* bound: temporary files that dead processes left behind
  PowerMayFail,   \* power failures are part of the model
  None            \* no object, no file, no path, no body

\* The temporary file `.incoming-<pid>-<id>`.
TempNames == Pids \X (0 .. TempIds - 1)

ASSUME ConstantsAssumption ==
  /\ SafeNames \subseteq Names
  /\ None \notin Bodies \cup TempNames
  /\ Size \in [Bodies -> Nat]
  /\ TempIds \in Nat \ {0}
  /\ MaxLeftovers \in Nat
  /\ NameReuse \in BOOLEAN
  /\ PowerMayFail \in BOOLEAN

VARIABLES
  remote,   \* remote[n]: the body posted in `/out` under n, or None
  posted,   \* history: posted[n] is every body ever posted under n
  inbox,    \* inbox[n]: the file published under name n, as processes see it
  disk,     \* the published entries as the last directory fsync left them
  temps,    \* the temporary files of the inbox directory
  pc,       \* where each receiver is in DurableReceiver::receive
  object,   \* the RemoteObject argument of the receiver's last call
  temp,     \* path of the receiver's IncomingFile
  pid,      \* std::process::id of the receiver
  nextId,   \* the NEXT_TEMP_ID of the receiver's process
  outcome   \* the Ok or Err variant of the receiver's last call

vars == <<remote, posted, inbox, disk, temps,
          pc, object, temp, pid, nextId, outcome>>

localVars == <<pc, object, temp, pid, nextId, outcome>>

-----------------------------------------------------------------------------
(* Types *)

\* A file's content is a prefix of a body; flushed once it was fsynced.
File == [body : Bodies \cup {None}, len : Nat, flushed : BOOLEAN]

RemoteObject == [name : Names, size : Nat]

ASSUME NoneAssumption == None \notin File \cup RemoteObject

Inside == {"downloading", "syncing", "publishing", "syncingDir", "comparing",
           "deleting", "returning"}

Locations == {"down", "idle", "creating"} \cup Inside

Received == {"Persisted", "AlreadyPersisted"}

Errors == {"InvalidRemoteName", "Io", "Remote", "EmptyObject",
           "SizeMismatch", "ConflictingLocalObject"}

TypeOK ==
  /\ remote  \in [Names -> Bodies \cup {None}]
  /\ posted  \in [Names -> SUBSET Bodies]
  /\ inbox   \in [Names -> File \cup {None}]
  /\ disk    \in [Names -> File \cup {None}]
  /\ temps   \in [TempNames -> File \cup {None}]
  /\ pc      \in [Receivers -> Locations]
  /\ object  \in [Receivers -> RemoteObject \cup {None}]
  /\ temp    \in [Receivers -> TempNames \cup {None}]
  /\ pid     \in [Receivers -> Pids]
  /\ nextId  \in [Receivers -> 0 .. TempIds - 1]
  /\ outcome \in [Receivers -> {"none"} \cup Received \cup Errors]

Init ==
  /\ remote  = [n \in Names |-> None]
  /\ posted  = [n \in Names |-> {}]
  /\ inbox   = [n \in Names |-> None]
  /\ disk    = [n \in Names |-> None]
  /\ temps   = [t \in TempNames |-> None]
  /\ pc      = [r \in Receivers |-> "down"]
  /\ object  = [r \in Receivers |-> None]
  /\ temp    = [r \in Receivers |-> None]
  /\ pid     \in [Receivers -> Pids]
  /\ nextId  = [r \in Receivers |-> 0]
  /\ outcome = [r \in Receivers |-> "none"]

-----------------------------------------------------------------------------
(* The platform: posts an object in `/out`, whole and at once.             *)

Post(n, b) ==
  /\ remote[n] = None
  /\ NameReuse \/ posted[n] = {}
  /\ remote' = [remote EXCEPT ![n] = b]
  /\ posted' = [posted EXCEPT ![n] = @ \cup {b}]
  /\ UNCHANGED <<inbox, disk, temps, localVars>>

\* What some listing of `/out`, current or stale, has shown.
Listable == {o \in [name : Names, size : {Size[b] : b \in Bodies}] :
               \E b \in posted[o.name] : o.size = Size[b]}

-----------------------------------------------------------------------------
(* One receiver process *)

At(r, here) == pc[r] = here

Goto(r, there) == pc' = [pc EXCEPT ![r] = there]

\* Ends the call with result res; the IncomingFile is still to be dropped.
Return(r, res) ==
  /\ Goto(r, "returning")
  /\ outcome' = [outcome EXCEPT ![r] = res]

\* The process starts: a new pid, a NEXT_TEMP_ID that counts from 0 again.
Start(r, p) ==
  /\ At(r, "down")
  /\ Goto(r, "idle")
  /\ pid' = [pid EXCEPT ![r] = p]
  /\ nextId' = [nextId EXCEPT ![r] = 0]
  /\ UNCHANGED <<remote, posted, inbox, disk, temps, object, temp, outcome>>

\* receive(object) is called; a name that is no plain basename is refused
\* before anything is touched.
Begin(r, o) ==
  /\ At(r, "idle")
  /\ object' = [object EXCEPT ![r] = o]
  /\ IF o.name \in SafeNames
     THEN /\ Goto(r, "creating")
          /\ outcome' = [outcome EXCEPT ![r] = "none"]
     ELSE /\ outcome' = [outcome EXCEPT ![r] = "InvalidRemoteName"]
          /\ UNCHANGED pc
  /\ UNCHANGED <<remote, posted, inbox, disk, temps, temp, pid, nextId>>

Fresh == [body |-> None, len |-> 0, flushed |-> FALSE]

\* Mutant of CreateTemp: without create_new, a taken name is opened.
CreateTempTaken(r) ==
  LET name == <<pid[r], nextId[r]>> IN
  /\ At(r, "creating")
  /\ nextId' = [nextId EXCEPT ![r] = (@ + 1) % TempIds]
  /\ temps' = [temps EXCEPT ![name] = Fresh]
  /\ temp' = [temp EXCEPT ![r] = name]
  /\ Goto(r, "downloading")
  /\ UNCHANGED <<remote, posted, inbox, disk, object, pid, outcome>>

\* Mutant of CreateTemp: the counter of names does not wrap around.
CreateTempUnwrapped(r) ==
  LET name == <<pid[r], nextId[r]>> IN
  /\ At(r, "creating")
  /\ nextId' = [nextId EXCEPT ![r] = @ + 1]
  /\ IF temps[name] = None
     THEN /\ temps' = [temps EXCEPT ![name] = Fresh]
          /\ temp' = [temp EXCEPT ![r] = name]
          /\ Goto(r, "downloading")
     ELSE UNCHANGED <<temps, temp, pc>>
  /\ UNCHANGED <<remote, posted, inbox, disk, object, pid, outcome>>

\* One turn of the loop of IncomingFile::create: O_CREAT|O_EXCL on the next
\* name; a name that is taken, by a live process or by the leftover of a
\* dead one, is skipped.
CreateTemp(r) ==
  LET name == <<pid[r], nextId[r]>> IN
  /\ At(r, "creating")
  /\ nextId' = [nextId EXCEPT ![r] = (@ + 1) % TempIds]
  /\ IF temps[name] = None
     THEN /\ temps' = [temps EXCEPT ![name] = Fresh]
          /\ temp' = [temp EXCEPT ![r] = name]
          /\ Goto(r, "downloading")
     ELSE UNCHANGED <<temps, temp, pc>>
  /\ UNCHANGED <<remote, posted, inbox, disk, object, pid, outcome>>

\* Any other error of open(2): there is no file to drop.
CreateFails(r) ==
  /\ At(r, "creating")
  /\ Goto(r, "idle")
  /\ outcome' = [outcome EXCEPT ![r] = "Io"]
  /\ UNCHANGED <<remote, posted, inbox, disk, temps, object, temp, pid, nextId>>

\* The object is copied into the temporary file; the stream may end early
\* without an error.
Download(r, len) ==
  LET b == remote[object[r].name] IN
  /\ At(r, "downloading")
  /\ b # None
  /\ len \in 0 .. Size[b]
  /\ temps' = [temps EXCEPT ![temp[r]] =
                 [body |-> b, len |-> len, flushed |-> FALSE]]
  /\ Goto(r, "syncing")
  /\ UNCHANGED <<remote, posted, inbox, disk, object, temp, pid, nextId, outcome>>

\* The backend reports an error: no such object, a broken connection, a
\* timeout.  Whatever was written will be dropped.
DownloadFails(r) ==
  /\ At(r, "downloading")
  /\ Return(r, "Remote")
  /\ UNCHANGED <<remote, posted, inbox, disk, temps, object, temp, pid, nextId>>

\* Mutant of SyncTemp: without the size checks.
SyncTempUnmeasured(r) ==
  /\ At(r, "syncing")
  /\ temps' = [temps EXCEPT ![temp[r]].flushed = TRUE]
  /\ Goto(r, "publishing")
  /\ UNCHANGED <<remote, posted, inbox, disk, object, temp, pid, nextId, outcome>>

\* Mutant of SyncTemp: without the fsync.
SyncTempUnflushed(r) ==
  LET len == temps[temp[r]].len IN
  /\ At(r, "syncing")
  /\ IF len = 0 THEN Return(r, "EmptyObject")
     ELSE IF len # object[r].size THEN Return(r, "SizeMismatch")
     ELSE Goto(r, "publishing") /\ UNCHANGED outcome
  /\ UNCHANGED <<remote, posted, inbox, disk, temps, object, temp, pid, nextId>>

\* flush_and_sync, then the size checks.
SyncTemp(r) ==
  LET len == temps[temp[r]].len IN
  /\ At(r, "syncing")
  /\ temps' = [temps EXCEPT ![temp[r]].flushed = TRUE]
  /\ IF len = 0 THEN Return(r, "EmptyObject")
     ELSE IF len # object[r].size THEN Return(r, "SizeMismatch")
     ELSE Goto(r, "publishing") /\ UNCHANGED outcome
  /\ UNCHANGED <<remote, posted, inbox, disk, object, temp, pid, nextId>>

\* Mutant of Publish: rename(2), which replaces an existing file.
PublishByRename(r) ==
  /\ At(r, "publishing")
  /\ inbox' = [inbox EXCEPT ![object[r].name] = temps[temp[r]]]
  /\ Goto(r, "syncingDir")
  /\ UNCHANGED <<remote, posted, disk, temps, object, temp, pid, nextId, outcome>>

\* hard_link(2): atomic, and refused when the name exists.
Publish(r) ==
  LET name == object[r].name IN
  /\ At(r, "publishing")
  /\ IF inbox[name] = None
     THEN /\ inbox' = [inbox EXCEPT ![name] = temps[temp[r]]]
          /\ Goto(r, "syncingDir")
     ELSE /\ Goto(r, "comparing")
          /\ UNCHANGED inbox
  /\ UNCHANGED <<remote, posted, disk, temps, object, temp, pid, nextId, outcome>>

\* Mutant of SyncDirectory: without the fsync of the directory.
SyncDirectorySkipped(r) ==
  /\ At(r, "syncingDir")
  /\ Goto(r, "deleting")
  /\ outcome' = [outcome EXCEPT ![r] = "Persisted"]
  /\ UNCHANGED <<remote, posted, inbox, disk, temps, object, temp, pid, nextId>>

\* sync_parent_directory: every entry of the inbox becomes durable.
SyncDirectory(r) ==
  /\ At(r, "syncingDir")
  /\ disk' = inbox
  /\ Goto(r, "deleting")
  /\ outcome' = [outcome EXCEPT ![r] = "Persisted"]
  /\ UNCHANGED <<remote, posted, inbox, temps, object, temp, pid, nextId>>

SameData(f, g) == f.body = g.body /\ f.len = g.len

\* Mutant of Compare: an existing file is taken for a copy of the object.
CompareNothing(r) ==
  /\ At(r, "comparing")
  /\ Goto(r, "deleting")
  /\ outcome' = [outcome EXCEPT ![r] = "AlreadyPersisted"]
  /\ UNCHANGED <<remote, posted, inbox, disk, temps, object, temp, pid, nextId>>

\* files_equal of the temporary file and the file published before.
Compare(r) ==
  LET final == inbox[object[r].name] IN
  /\ At(r, "comparing")
  /\ IF SameData(final, temps[temp[r]])
     THEN /\ Goto(r, "deleting")
          /\ outcome' = [outcome EXCEPT ![r] = "AlreadyPersisted"]
     ELSE Return(r, "ConflictingLocalObject")
  /\ UNCHANGED <<remote, posted, inbox, disk, temps, object, temp, pid, nextId>>

\* Local I/O fails: fsync, metadata, link, directory fsync or comparison.
\* A failed fsync leaves the data where it was.
LocalIoFails(r) ==
  /\ pc[r] \in {"syncing", "publishing", "syncingDir", "comparing"}
  /\ Return(r, "Io")
  /\ UNCHANGED <<remote, posted, inbox, disk, temps, object, temp, pid, nextId>>

\* Mutant of Delete: succeeds also when the object is gone already.
DeleteIdempotent(r) ==
  LET name == object[r].name IN
  /\ At(r, "deleting")
  /\ remote' = [remote EXCEPT ![name] = None]
  /\ Goto(r, "returning")
  /\ UNCHANGED <<posted, inbox, disk, temps, object, temp, pid, nextId, outcome>>

\* remote.delete succeeds.
Delete(r) ==
  LET name == object[r].name IN
  /\ At(r, "deleting")
  /\ remote[name] # None
  /\ remote' = [remote EXCEPT ![name] = None]
  /\ Goto(r, "returning")
  /\ UNCHANGED <<posted, inbox, disk, temps, object, temp, pid, nextId, outcome>>

\* remote.delete reports an error.  The object may be gone all the same: the
\* answer was lost, or another receiver deleted it first.
DeleteFails(r) ==
  LET name == object[r].name IN
  /\ At(r, "deleting")
  /\ remote' \in {remote, [remote EXCEPT ![name] = None]}
  /\ Return(r, "Remote")
  /\ UNCHANGED <<posted, inbox, disk, temps, object, temp, pid, nextId>>

\* Temporary files that no running receiver owns.
Leftovers ==
  {t \in TempNames : temps[t] # None /\ \A r \in Receivers : temp[r] # t}

MayLeave(r) == temp[r] # None => Cardinality(Leftovers) < MaxLeftovers

\* receive returns: IncomingFile::drop unlinks the temporary file and ignores
\* an error of the unlink.
Drop(r) ==
  /\ At(r, "returning")
  /\ \/ temps' = [temps EXCEPT ![temp[r]] = None]
     \/ MayLeave(r) /\ UNCHANGED temps
  /\ temp' = [temp EXCEPT ![r] = None]
  /\ Goto(r, "idle")
  /\ UNCHANGED <<remote, posted, inbox, disk, object, pid, nextId, outcome>>

\* The process dies: no destructor runs, its temporary file stays.
Crash(r) ==
  /\ pc[r] # "down"
  /\ MayLeave(r)
  /\ Goto(r, "down")
  /\ object'  = [object EXCEPT ![r] = None]
  /\ temp'    = [temp EXCEPT ![r] = None]
  /\ outcome' = [outcome EXCEPT ![r] = "none"]
  /\ UNCHANGED <<remote, posted, inbox, disk, temps, pid, nextId>>

-----------------------------------------------------------------------------
(* A power failure of the machine: all processes die; each published entry *)
(* that is newer than the last directory fsync either made it to the disk  *)
(* or did not; data that was never fsynced is cut short anywhere.  The     *)
(* temporary names that survive, or come back because their unlink did     *)
(* not, are any (leftovers); nobody reads such a file, so it stands empty. *)

Survivor(f, cut) ==
  IF f = None THEN None
  ELSE IF f.flushed THEN f
  ELSE [f EXCEPT !.len = IF cut < @ THEN cut ELSE @, !.flushed = TRUE]

Unsynced == {n \in Names : inbox[n] # disk[n]}

PowerLoss(lost, leftovers, cut) ==
  /\ PowerMayFail
  /\ Cardinality(leftovers) <= MaxLeftovers
  /\ inbox' = [n \in Names |->
                 Survivor(IF n \in lost THEN disk[n] ELSE inbox[n], cut)]
  /\ disk'    = inbox'
  /\ temps'   = [t \in TempNames |-> IF t \in leftovers THEN Fresh ELSE None]
  /\ pc'      = [r \in Receivers |-> "down"]
  /\ object'  = [r \in Receivers |-> None]
  /\ temp'    = [r \in Receivers |-> None]
  /\ outcome' = [r \in Receivers |-> "none"]
  /\ UNCHANGED <<remote, posted, pid, nextId>>

-----------------------------------------------------------------------------
(* Specification *)

Receive(r) ==
  \/ CreateTemp(r) \/ CreateFails(r)
  \/ (\E b \in Bodies : \E len \in 0 .. Size[b] : Download(r, len))
  \/ DownloadFails(r)
  \/ SyncTemp(r) \/ Publish(r) \/ SyncDirectory(r) \/ Compare(r)
  \/ LocalIoFails(r)
  \/ Delete(r) \/ DeleteFails(r)
  \/ Drop(r)

Next ==
  \/ \E n \in Names, b \in Bodies : Post(n, b)
  \/ \E r \in Receivers :
       \/ \E p \in Pids : Start(r, p)
       \/ \E o \in Listable : Begin(r, o)
       \/ Receive(r)
       \/ Crash(r)
  \/ \E lost \in SUBSET Unsynced, leftovers \in SUBSET TempNames, b \in Bodies :
       \E cut \in 0 .. Size[b] : PowerLoss(lost, leftovers, cut)

Spec == Init /\ [][Next]_vars

-----------------------------------------------------------------------------
(* Properties *)

\* A whole, fsynced copy of body b.
IsCopy(f, b) == f = [body |-> b, len |-> Size[b], flushed |-> TRUE]

\* Whatever stands under a published name, before and after a power failure,
\* is the whole of a non-empty object that the platform posted under that
\* name: fsync, the size checks and the hard link keep torn and short
\* downloads out (receiver.rs, receive).
PublishedIntact ==
  \A n \in Names : \A f \in {inbox[n], disk[n]} \ {None} :
    \E b \in posted[n] : IsCopy(f, b) /\ Size[b] > 0

\* Every object the platform posted is still in `/out` or stands, whole, in
\* the inbox, however the receivers interleave, fail and crash (the crash
\* safety that DurableReceiver promises).  It needs a machine that keeps its
\* power and a platform that uses a name once.
AcceptedNeverLost ==
  \A n \in Names : \A b \in posted[n] :
    remote[n] = b \/ IsCopy(inbox[n], b)

\* A receive that published the file itself deletes the remote object only
\* when the directory entry is durable (sync_parent_directory comes first).
PersistedIsDurable ==
  \A r \in Receivers :
    At(r, "deleting") /\ outcome[r] = "Persisted" =>
      /\ inbox[object[r].name] # None
      /\ disk[object[r].name] = inbox[object[r].name]

\* Two running receivers never write, compare or unlink the same temporary
\* file, even when they run under one process id beside the leftovers of
\* earlier processes (create_new in IncomingFile::create).
TempsExclusive ==
  \A r, s \in Receivers :
    /\ temp[r] # None => temps[temp[r]] # None
    /\ r # s /\ temp[r] # None => temp[r] # temp[s]

\* A published file may be lost with the power, but it is never replaced by
\* another one (publish_no_clobber, ConflictingLocalObject).
PublishedNeverReplaced ==
  [][\A n \in Names :
       inbox[n] # None /\ inbox'[n] # None => inbox'[n] = inbox[n]]_vars

\* Receiver r, which deletes the object n, has a whole copy of its download in
\* the inbox.  The deletion names a path, not a content (receiver.rs:241): only
\* where the platform uses names again and r is not alone may the object be one
\* that was posted since, behind another receiver's deletion.
DeletesDownload(r, n) ==
  LET downloaded == temps[temp[r]].body
  IN  /\ At(r, "deleting") /\ object[r].name = n
      /\ IsCopy(inbox[n], downloaded)
      /\ downloaded # remote[n] => NameReuse /\ Receivers # {r}

\* Receivers delete what they downloaded and hold whole, so that an object which
\* conflicts with a published file stays in `/out` for review.
DeletesOnlyCopied ==
  [][\A n \in Names : remote[n] # None /\ remote'[n] = None =>
       \E r \in Receivers : DeletesDownload(r, n)]_vars

\* "Deletes `object` after a durable local copy is known to exist"
\* (receiver.rs, RemoteInbox::delete): the directory entry of the copy has
\* been fsynced when the object goes.  The AlreadyExists branch of receive
\* deletes without a directory fsync.
DeletesOnlyDurable ==
  [][\A n \in Names :
       remote[n] # None /\ remote'[n] = None => IsCopy(disk[n], remote[n])]_vars
=============================================================================
