---------------------------- MODULE PollerProofs ----------------------------
(***************************************************************************)
(* Proofs about DurableReceiver and about the pollers that call it.        *)
(*                                                                         *)
(* First, for any receivers, names, bodies, sizes and temporary ids, the   *)
(* type invariant of DurableReceiver, the safety of the temporary and      *)
(* published files, and the safety of the accepted objects.  The inductive *)
(* invariant has three layers.  Owned says who holds which temporary file, *)
(* Landed how a download, its published file and the durable image of the  *)
(* latter agree, Genuine that all of them are what the platform posted.    *)
(* Each layer is inductive given those before it.                          *)
(*                                                                         *)
(* Then theorems about ReconciliationPoller, for any number of pollers,    *)
(* names and bodies.  The pollers use receivers as DurableReceiver allows, *)
(* so that its theorems hold of them; every object of a listing is         *)
(* attempted; and what a poll returns was returned once and is saved.      *)
(***************************************************************************)
EXTENDS ReconciliationPoller, FiniteSetTheorems, SequenceTheorems, TLAPS

-----------------------------------------------------------------------------
(* The inductive invariant, in three layers                                *)

\* A receiver inside a call owns a temporary file of its own.
Owned ==
  /\ \A r \in Receivers :
       /\ pc[r] \in Inside <=> temp[r] # None
       /\ temp[r] # None => temps[temp[r]] # None
       /\ pc[r] \in Inside \cup {"creating"} => object[r] # None
  /\ \A r, s \in Receivers : r # s /\ temp[r] # None => temp[r] # temp[s]

Typed == TypeOK /\ Owned

\* After SyncTemp accepted the download, and while its file is published.
Accepted(r) == pc[r] \in {"publishing", "syncingDir", "comparing", "deleting"}

\* A published file was fsynced first, and the durable image of an entry is
\* the entry.
FileLanded(n) ==
  /\ inbox[n] # None => inbox[n].flushed
  /\ disk[n] # None => disk[n] = inbox[n]

\* A receiver that deletes has its own download's data published.
CallLanded(r) ==
  /\ Accepted(r) => temps[temp[r]].flushed
  /\ pc[r] \in {"syncingDir", "comparing", "deleting"} =>
       inbox[object[r].name] # None
  /\ pc[r] \in {"syncingDir", "deleting"} =>
       SameData(inbox[object[r].name], temps[temp[r]])
  /\ pc[r] = "deleting" /\ outcome[r] = "Persisted" =>
       disk[object[r].name] = inbox[object[r].name]

Landed ==
  /\ \A n \in Names : FileLanded(n)
  /\ \A r \in Receivers : CallLanded(r)

\* What is published under a name is what was posted under it, provided that
\* a name is used once.
FileGenuine(n) ==
  /\ remote[n] # None => remote[n] \in posted[n]
  /\ \A b, c \in posted[n] : b = c
  /\ inbox[n] # None =>
       \E b \in posted[n] : IsCopy(inbox[n], b) /\ Size[b] > 0

\* What is downloaded and accepted is what was posted.
CallGenuine(r) ==
  /\ pc[r] \in Inside \cup {"creating"} =>
       \E b \in posted[object[r].name] : object[r].size = Size[b]
  /\ pc[r] = "syncing" => temps[temp[r]].body \in posted[object[r].name]
  /\ Accepted(r) =>
       \E b \in posted[object[r].name] :
         IsCopy(temps[temp[r]], b) /\ Size[b] > 0

Genuine ==
  /\ \A n \in Names : FileGenuine(n)
  /\ \A r \in Receivers : CallGenuine(r)

-----------------------------------------------------------------------------
(* Files and temporary ids *)

LEMMA NextIdInRange ==
  ASSUME NEW i \in 0 .. TempIds - 1
  PROVE  (i + 1) % TempIds \in 0 .. TempIds - 1
BY ConstantsAssumption

LEMMA FileFields ==
  ASSUME NEW f \in File
  PROVE  /\ f # None
         /\ f.body \in Bodies \cup {None}
         /\ f.len \in Nat
         /\ f.flushed \in BOOLEAN
         /\ [f EXCEPT !.flushed = TRUE] \in File
         /\ \A k \in Nat : [f EXCEPT !.len = k, !.flushed = TRUE] \in File
BY NoneAssumption DEF File

LEMMA FreshFile == Fresh \in File /\ Fresh # None
<1>1. Fresh \in File
  BY DEF Fresh, File
<1> QED
  BY <1>1, NoneAssumption

\* A power failure spares a file that was fsynced.
LEMMA SurvivorFile ==
  ASSUME NEW f \in File \cup {None}, NEW k \in Nat
  PROVE  /\ Survivor(f, k) \in File \cup {None}
         /\ f # None /\ f.flushed => Survivor(f, k) = f
         /\ f = None => Survivor(f, k) = None
BY FileFields DEF Survivor, File

-----------------------------------------------------------------------------
(* Types and ownership of the temporary files *)

LEMMA TypedInit == Init => Typed
BY ConstantsAssumption
   DEF Init, Typed, TypeOK, Owned, Locations, Inside, Received, Errors

LEMMA TypedStep == Typed /\ [Next]_vars => Typed'
<1> SUFFICES ASSUME Typed, [Next]_vars
             PROVE  Typed'
  OBVIOUS
<1> USE ConstantsAssumption, NoneAssumption DEF Typed
<1>0. \A r \in Receivers : pc[r] \in Inside =>
        /\ temp[r] \in TempNames
        /\ temps[temp[r]] \in File
  BY DEF TypeOK, Owned
<1>1. ASSUME NEW n \in Names, NEW b \in Bodies,
             Post(n, b)
      PROVE  Typed'
  BY <1>1, <1>0 DEF Post, localVars, TypeOK, Owned, Locations, Inside, Received, Errors
<1>2. ASSUME NEW r \in Receivers, NEW p \in Pids,
             Start(r, p)
      PROVE  Typed'
  BY <1>2, <1>0 DEF Start, At, Goto, TypeOK, Owned, Locations, Inside, Received, Errors
<1>3. ASSUME NEW r \in Receivers, NEW o \in Listable,
             Begin(r, o)
      PROVE  Typed'
  <2>1. o \in RemoteObject
    BY DEF Listable, RemoteObject
  <2> QED
    BY <1>3, <2>1 DEF Begin, At, Goto, TypeOK, Owned, Locations, Inside, Errors
<1>4. ASSUME NEW r \in Receivers,
             CreateTemp(r)
      PROVE  Typed'
  <2>1. <<pid[r], nextId[r]>> \in TempNames
    BY DEF TypeOK, TempNames
  <2>2. nextId' \in [Receivers -> 0 .. TempIds - 1]
    BY <1>4, NextIdInRange DEF CreateTemp, TypeOK
  <2>3. temps' \in [TempNames -> File \cup {None}]
    BY <1>4, <2>1, FreshFile DEF CreateTemp, TypeOK
  <2>4. /\ temp' \in [Receivers -> TempNames \cup {None}]
        /\ pc' \in [Receivers -> Locations]
    BY <1>4, <2>1 DEF CreateTemp, Goto, TypeOK, Locations, Inside
  <2> DEFINE name == <<pid[r], nextId[r]>>
  <2>5. Owned'
    <3>1. pc[r] = "creating" /\ name \in TempNames /\ name # None
      BY <1>4, <2>1 DEF CreateTemp, At
    <3>2. UNCHANGED object
      BY <1>4 DEF CreateTemp
    <3>3. CASE temps[name] # None
      BY <1>4, <3>2, <3>3 DEF CreateTemp, Owned
    <3>4. CASE temps[name] = None
      <4>1. /\ temps' = [temps EXCEPT ![name] = Fresh]
            /\ temp' = [temp EXCEPT ![r] = name]
            /\ pc' = [pc EXCEPT ![r] = "downloading"]
        BY <1>4, <3>4 DEF CreateTemp, Goto
      <4> HIDE DEF name
      <4> QED
        BY <3>1, <3>2, <3>4, <4>1, FreshFile DEF TypeOK, Owned, Inside
    <3> QED
      BY <3>3, <3>4
  <2>6. UNCHANGED <<remote, posted, inbox, disk, object, pid, outcome>>
    BY <1>4 DEF CreateTemp
  <2>7. TypeOK'
    BY <2>2, <2>3, <2>4, <2>6 DEF TypeOK
  <2> QED
    BY <2>5, <2>7
<1>5. ASSUME NEW r \in Receivers,
             CreateFails(r)
      PROVE  Typed'
  BY <1>5, <1>0 DEF CreateFails, At, Goto, TypeOK, Owned, Locations, Inside, Received, Errors
<1>6. ASSUME NEW r \in Receivers, NEW b \in Bodies, NEW len \in 0 .. Size[b],
             Download(r, len)
      PROVE  Typed'
  <2> DEFINE f == [body |-> remote[object[r].name], len |-> len, flushed |-> FALSE]
  <2>a. object[r].name \in Names
    BY <1>6 DEF Download, At, Owned, TypeOK, Inside, RemoteObject
  <2>b. remote[object[r].name] \in Bodies
    BY <1>6, <2>a DEF Download, TypeOK
  <2>c. f \in File
    BY <1>6, <2>b DEF File
  <2>1. f \in File /\ f # None
    BY <2>c
  <2>2. temps' = [temps EXCEPT ![temp[r]] = f]
    BY <1>6 DEF Download
  <2>3. temps' \in [TempNames -> File \cup {None}]
    BY <2>1, <2>2 DEF TypeOK
  <2>4. TypeOK'
    BY <1>6, <2>3 DEF Download, Goto, TypeOK, Locations, Inside
  <2>5. Owned'
    BY <1>6, <1>0, <2>1, <2>2 DEF Download, At, Goto, TypeOK, Owned, Inside
  <2> QED
    BY <2>4, <2>5
<1>7. ASSUME NEW r \in Receivers,
             DownloadFails(r)
      PROVE  Typed'
  BY <1>7, <1>0 DEF DownloadFails, Return, At, Goto, TypeOK, Owned, Locations, Inside, Received, Errors
<1>8. ASSUME NEW r \in Receivers,
             SyncTemp(r)
      PROVE  Typed'
  <2>1. temp[r] \in TempNames /\ temps[temp[r]] \in File
    BY <1>8, <1>0 DEF SyncTemp, At, Inside
  <2>2. temps' \in [TempNames -> File \cup {None}]
    BY <1>8, <2>1, FileFields DEF SyncTemp, TypeOK
  <2>3. /\ pc' \in [Receivers -> Locations]
        /\ outcome' \in [Receivers -> {"none"} \cup Received \cup Errors]
    BY <1>8 DEF SyncTemp, Return, Goto, TypeOK, Locations, Inside, Errors
  <2>4. temps'[temp[r]] # None /\ \A t \in TempNames : t # temp[r] => temps'[t] = temps[t]
    BY <1>8, <2>1, FileFields DEF SyncTemp, TypeOK
  <2>5. Owned'
    BY <1>8, <2>1, <2>4 DEF SyncTemp, Return, At, Goto, TypeOK, Owned, Inside
  <2> QED
    BY <1>8, <2>2, <2>3, <2>5 DEF SyncTemp, TypeOK
<1>9. ASSUME NEW r \in Receivers,
             Publish(r)
      PROVE  Typed'
  <2>1. temps[temp[r]] \in File
    BY <1>9, <1>0 DEF Publish, At, Inside
  <2>2. inbox' \in [Names -> File \cup {None}]
    BY <1>9, <2>1 DEF Publish, TypeOK
  <2>3. pc' \in [Receivers -> Locations]
    BY <1>9 DEF Publish, Goto, TypeOK, Locations, Inside
  <2>4. Owned'
    BY <1>9 DEF Publish, At, Goto, TypeOK, Owned, Inside
  <2> QED
    BY <1>9, <2>2, <2>3, <2>4 DEF Publish, TypeOK
<1>10. ASSUME NEW r \in Receivers,
             SyncDirectory(r)
      PROVE  Typed'
  BY <1>10, <1>0 DEF SyncDirectory, At, Goto, TypeOK, Owned, Locations, Inside, Received, Errors
<1>11. ASSUME NEW r \in Receivers,
             Compare(r)
      PROVE  Typed'
  BY <1>11, <1>0 DEF Compare, Return, At, Goto, TypeOK, Owned, Locations, Inside, Received, Errors
<1>12. ASSUME NEW r \in Receivers,
             LocalIoFails(r)
      PROVE  Typed'
  BY <1>12, <1>0 DEF LocalIoFails, Return, Goto, TypeOK, Owned, Locations, Inside, Received, Errors
<1>13. ASSUME NEW r \in Receivers,
             Delete(r)
      PROVE  Typed'
  BY <1>13, <1>0 DEF Delete, At, Goto, TypeOK, Owned, Locations, Inside, Received, Errors
<1>14. ASSUME NEW r \in Receivers,
             DeleteFails(r)
      PROVE  Typed'
  BY <1>14, <1>0 DEF DeleteFails, Return, At, Goto, TypeOK, Owned, Locations, Inside, Received, Errors
<1>15. ASSUME NEW r \in Receivers,
             Drop(r)
      PROVE  Typed'
  BY <1>15, <1>0 DEF Drop, At, Goto, TypeOK, Owned, Locations, Inside, Received, Errors
<1>16. ASSUME NEW r \in Receivers,
             Crash(r)
      PROVE  Typed'
  BY <1>16, <1>0 DEF Crash, Goto, TypeOK, Owned, Locations, Inside, Received, Errors
<1>17. ASSUME NEW lost \in SUBSET Unsynced,
             NEW leftovers \in SUBSET TempNames,
             NEW b \in Bodies, NEW cut \in 0 .. Size[b],
             PowerLoss(lost, leftovers, cut)
      PROVE  Typed'
  <2>1. \A n \in Names :
          Survivor(IF n \in lost THEN disk[n] ELSE inbox[n], cut) \in File \cup {None}
    BY SurvivorFile DEF TypeOK
  <2>2. inbox' \in [Names -> File \cup {None}]
    BY <1>17, <2>1 DEF PowerLoss
  <2>3. temps' \in [TempNames -> File \cup {None}]
    BY <1>17, FreshFile DEF PowerLoss
  <2>4. Owned'
    BY <1>17 DEF PowerLoss, Owned, Inside
  <2> QED
    BY <1>17, <2>2, <2>3, <2>4 DEF PowerLoss, TypeOK, Locations
<1>18. CASE UNCHANGED vars
  BY <1>18 DEF vars, TypeOK, Owned
<1> QED
  BY <1>1, <1>2, <1>3, <1>4, <1>5, <1>6, <1>7, <1>8, <1>9, <1>10, <1>11, <1>12, <1>13, <1>14, <1>15, <1>16, <1>17, <1>18
     DEF Next, Receive

\* Every variable of the receivers, the platform and the file system keeps
\* its type.
THEOREM TypeCorrect == Spec => []TypeOK
<1>1. Typed => TypeOK
  BY DEF Typed
<1> QED
  BY <1>1, TypedInit, TypedStep, PTL DEF Spec

\* No two running receivers share a temporary file, whatever process ids
\* they run under (the create_new loop of IncomingFile::create).
THEOREM TempFilesSafe == Spec => []TempsExclusive
<1>1. Typed => TempsExclusive
  BY DEF Typed, Owned, TempsExclusive
<1> QED
  BY <1>1, TypedInit, TypedStep, PTL DEF Spec

-----------------------------------------------------------------------------
(* Publication                                                             *)

\* A turn of the create loop touches no file that a receiver owns.
LEMMA CreateTempEffect ==
  ASSUME Typed, NEW r \in Receivers, CreateTemp(r)
  PROVE  /\ pc[r] = "creating" /\ pc'[r] \in {"creating", "downloading"}
         /\ UNCHANGED <<remote, posted, inbox, disk, object, pid, outcome>>
         /\ \A s \in Receivers : s # r => pc'[s] = pc[s]
         /\ \A s \in Receivers : s # r /\ pc[s] \in Inside =>
              temp'[s] = temp[s] /\ temps'[temp'[s]] = temps[temp[s]]
<1> DEFINE name == <<pid[r], nextId[r]>>
<1>1. pc[r] = "creating" /\ UNCHANGED <<remote, posted, inbox, disk, object, pid, outcome>>
  BY DEF CreateTemp, At
<1>2. CASE temps[name] # None
  BY <1>1, <1>2 DEF CreateTemp
<1>3. CASE temps[name] = None
  <2>1. /\ temps' = [temps EXCEPT ![name] = Fresh]
        /\ pc' = [pc EXCEPT ![r] = "downloading"]
        /\ temp' = [temp EXCEPT ![r] = name]
    BY <1>3 DEF CreateTemp, Goto
  <2> HIDE DEF name
  <2>2. \A s \in Receivers : s # r /\ pc[s] \in Inside =>
          temp'[s] = temp[s] /\ temps'[temp[s]] = temps[temp[s]]
    BY <1>3, <2>1 DEF Typed, TypeOK, Owned
  <2> QED
    BY <1>1, <2>1, <2>2 DEF Typed, TypeOK
<1> QED
  BY <1>2, <1>3

LEMMA LandedInit == Init => Landed
BY DEF Init, Landed, FileLanded, CallLanded, Accepted, At

\* Since published files were fsynced, a power failure leaves each name with
\* the file it had, or with none.
LEMMA PowerLossEffect ==
  ASSUME Typed, Landed, NEW lost, NEW leftovers, NEW cut \in Nat,
         PowerLoss(lost, leftovers, cut)
  PROVE  /\ \A n \in Names : /\ inbox'[n] \in {inbox[n], disk[n]}
                             /\ disk'[n] = inbox'[n]
         /\ \A s \in Receivers : pc'[s] = "down"
         /\ UNCHANGED <<remote, posted>>
<1>1. \A n \in Names : /\ Survivor(inbox[n], cut) = inbox[n]
                        /\ Survivor(disk[n], cut) = disk[n]
  BY SurvivorFile DEF Typed, TypeOK, Landed, FileLanded
<1> QED
  BY <1>1 DEF PowerLoss

LEMMA LandedStep == Typed /\ Landed /\ [Next]_vars => Landed'
<1> SUFFICES ASSUME Typed, Landed, [Next]_vars
             PROVE  Landed'
  OBVIOUS
<1> USE ConstantsAssumption, NoneAssumption
<1>0. \A r \in Receivers : pc[r] \in Inside =>
        /\ temp[r] \in TempNames
        /\ temps[temp[r]] \in File
        /\ object[r].name \in Names
  BY DEF Typed, TypeOK, Owned, RemoteObject
<1>1. ASSUME NEW n \in Names, NEW b \in Bodies,
             Post(n, b)
      PROVE  Landed'
  BY <1>1 DEF Post, localVars, Landed, FileLanded, CallLanded, Accepted, At
<1>2. ASSUME NEW r \in Receivers, NEW p \in Pids,
             Start(r, p)
      PROVE  Landed'
  BY <1>2 DEF Start, Goto, Typed, TypeOK, Owned, Landed, FileLanded, CallLanded, Accepted, At, Inside
<1>3. ASSUME NEW r \in Receivers, NEW o \in Listable,
             Begin(r, o)
      PROVE  Landed'
  BY <1>3 DEF Begin, Listable, Goto, Typed, TypeOK, Owned, Landed, FileLanded, CallLanded, Accepted, At, Inside
<1>4. ASSUME NEW r \in Receivers,
             CreateTemp(r)
      PROVE  Landed'
  BY <1>4, <1>0, CreateTempEffect DEF Landed, FileLanded, CallLanded, Accepted, At, Inside
<1>5. ASSUME NEW r \in Receivers,
             CreateFails(r)
      PROVE  Landed'
  BY <1>5 DEF CreateFails, Goto, Typed, TypeOK, Owned, Landed, FileLanded, CallLanded, Accepted, At, Inside
<1>6. ASSUME NEW r \in Receivers, NEW b \in Bodies, NEW len \in 0 .. Size[b],
             Download(r, len)
      PROVE  Landed'
  BY <1>6 DEF Download, Goto, Typed, TypeOK, Owned, Landed, FileLanded, CallLanded, Accepted, At, Inside
<1>7. ASSUME NEW r \in Receivers,
             DownloadFails(r)
      PROVE  Landed'
  BY <1>7 DEF DownloadFails, Return, Goto, Typed, TypeOK, Owned, Landed, FileLanded, CallLanded, Accepted, At, Inside
<1>8. ASSUME NEW r \in Receivers,
             SyncTemp(r)
      PROVE  Landed'
  BY <1>8 DEF SyncTemp, Return, Goto, Typed, TypeOK, Owned, Landed, FileLanded, CallLanded, Accepted, At, Inside
<1>9. ASSUME NEW r \in Receivers,
             Publish(r)
      PROVE  Landed'
  <2> DEFINE name == object[r].name
             f == temps[temp[r]]
  <2>1. /\ pc[r] = "publishing"
        /\ name \in Names /\ f \in File /\ f # None /\ f.flushed
        /\ UNCHANGED <<disk, temps, object, temp, outcome>>
    BY <1>9, <1>0 DEF Publish, At, Landed, CallLanded, Accepted, Inside
  <2>2. CASE inbox[name] # None
    <3>1. pc' = [pc EXCEPT ![r] = "comparing"] /\ UNCHANGED inbox
      BY <1>9, <2>2 DEF Publish, Goto
    <3> QED
      BY <2>1, <2>2, <3>1 DEF Typed, TypeOK, Landed, FileLanded, CallLanded, Accepted, At
  <2>3. CASE inbox[name] = None
    <3>1. /\ inbox' = [inbox EXCEPT ![name] = f]
          /\ pc' = [pc EXCEPT ![r] = "syncingDir"]
      BY <1>9, <2>3 DEF Publish, Goto
    <3>2. inbox'[name] = f /\ \A n \in Names : n # name => inbox'[n] = inbox[n]
      BY <2>1, <3>1 DEF Typed, TypeOK
    <3>3. \A n \in Names : FileLanded(n)'
      BY <2>1, <2>3, <3>2 DEF Landed, FileLanded
    <3>4. pc'[r] = "syncingDir" /\ \A s \in Receivers : s # r => pc'[s] = pc[s]
      BY <3>1 DEF Typed, TypeOK
    <3>5. \A s \in Receivers :
            s # r /\ pc[s] \in {"syncingDir", "comparing", "deleting"} =>
              inbox'[object[s].name] = inbox[object[s].name]
      BY <1>0, <2>3, <3>2 DEF Landed, CallLanded, Inside
    <3>6. ASSUME NEW s \in Receivers, s # r
          PROVE  CallLanded(s)'
      BY <2>1, <3>4, <3>5, <3>6 DEF Landed, CallLanded, Accepted, SameData
    <3>7. CallLanded(r)'
      BY <2>1, <3>2, <3>4 DEF CallLanded, Accepted, SameData
    <3> QED
      BY <3>3, <3>6, <3>7 DEF Landed
  <2> QED
    BY <2>2, <2>3
<1>10. ASSUME NEW r \in Receivers,
             SyncDirectory(r)
      PROVE  Landed'
  BY <1>10 DEF SyncDirectory, Goto, Typed, TypeOK, Owned, Landed, FileLanded, CallLanded, Accepted, At, Inside
<1>11. ASSUME NEW r \in Receivers,
             Compare(r)
      PROVE  Landed'
  BY <1>11 DEF Compare, Return, Goto, Typed, TypeOK, Owned, Landed, FileLanded, CallLanded, Accepted, At, Inside
<1>12. ASSUME NEW r \in Receivers,
             LocalIoFails(r)
      PROVE  Landed'
  BY <1>12 DEF LocalIoFails, Return, Goto, Typed, TypeOK, Owned, Landed, FileLanded, CallLanded, Accepted, At, Inside
<1>13. ASSUME NEW r \in Receivers,
             Delete(r)
      PROVE  Landed'
  BY <1>13 DEF Delete, Goto, Typed, TypeOK, Owned, Landed, FileLanded, CallLanded, Accepted, At, Inside
<1>14. ASSUME NEW r \in Receivers,
             DeleteFails(r)
      PROVE  Landed'
  BY <1>14 DEF DeleteFails, Return, Goto, Typed, TypeOK, Owned, Landed, FileLanded, CallLanded, Accepted, At, Inside
<1>15. ASSUME NEW r \in Receivers,
             Drop(r)
      PROVE  Landed'
  BY <1>15 DEF Drop, Goto, Typed, TypeOK, Owned, Landed, FileLanded, CallLanded, Accepted, At, Inside
<1>16. ASSUME NEW r \in Receivers,
             Crash(r)
      PROVE  Landed'
  BY <1>16 DEF Crash, Goto, Typed, TypeOK, Owned, Landed, FileLanded, CallLanded, Accepted, At, Inside
<1>17. ASSUME NEW lost \in SUBSET Unsynced,
             NEW leftovers \in SUBSET TempNames,
             NEW b \in Bodies, NEW cut \in 0 .. Size[b],
             PowerLoss(lost, leftovers, cut)
      PROVE  Landed'
  BY <1>17, PowerLossEffect DEF Landed, FileLanded, CallLanded, Accepted
<1>18. CASE UNCHANGED vars
  BY <1>18 DEF vars, Landed, FileLanded, CallLanded, Accepted, At
<1> QED
  BY <1>1, <1>2, <1>3, <1>4, <1>5, <1>6, <1>7, <1>8, <1>9, <1>10, <1>11, <1>12, <1>13, <1>14, <1>15, <1>16, <1>17, <1>18
     DEF Next, Receive

\* A receive that published the file deletes the remote object only after
\* the directory entry is durable.
THEOREM OwnPublicationDurable == Spec => []PersistedIsDurable
<1>1. Landed => PersistedIsDurable
  BY DEF Landed, CallLanded, PersistedIsDurable, At
<1> QED
  BY <1>1, TypedInit, TypedStep, LandedInit, LandedStep, PTL DEF Spec

-----------------------------------------------------------------------------
(* Authenticity                                                            *)

LEMMA GenuineInit == Init => Genuine
BY DEF Init, Genuine, FileGenuine, CallGenuine, Accepted, Inside

LEMMA GenuineStep ==
  ~NameReuse /\ Typed /\ Landed /\ Genuine /\ [Next]_vars => Genuine'
<1> SUFFICES ASSUME ~NameReuse, Typed, Landed, Genuine, [Next]_vars
             PROVE  Genuine'
  OBVIOUS
<1> USE ConstantsAssumption, NoneAssumption
<1>0. \A r \in Receivers : pc[r] \in Inside \cup {"creating"} =>
        /\ object[r] \in RemoteObject /\ object[r].name \in Names
        /\ pc[r] \in Inside => temp[r] \in TempNames /\ temps[temp[r]] \in File
  BY DEF Typed, TypeOK, Owned, RemoteObject
<1>1. ASSUME NEW n \in Names, NEW b \in Bodies,
             Post(n, b)
      PROVE  Genuine'
  BY <1>1, <1>0 DEF Post, localVars, Typed, TypeOK, Owned, Genuine, FileGenuine, CallGenuine, Accepted, At, Inside
<1>2. ASSUME NEW r \in Receivers, NEW p \in Pids,
             Start(r, p)
      PROVE  Genuine'
  BY <1>2, <1>0 DEF Start, Goto, Typed, TypeOK, Owned, Genuine, FileGenuine, CallGenuine, Accepted, At, Inside
<1>3. ASSUME NEW r \in Receivers, NEW o \in Listable,
             Begin(r, o)
      PROVE  Genuine'
  BY <1>3, <1>0 DEF Begin, Listable, Goto, Typed, TypeOK, Owned, Genuine, FileGenuine, CallGenuine, Accepted, At, Inside
<1>4. ASSUME NEW r \in Receivers,
             CreateTemp(r)
      PROVE  Genuine'
  BY <1>4, <1>0, CreateTempEffect DEF Genuine, FileGenuine, CallGenuine, Accepted, Inside
<1>5. ASSUME NEW r \in Receivers,
             CreateFails(r)
      PROVE  Genuine'
  BY <1>5, <1>0 DEF CreateFails, Goto, Typed, TypeOK, Owned, Genuine, FileGenuine, CallGenuine, Accepted, At, Inside
<1>6. ASSUME NEW r \in Receivers, NEW b \in Bodies, NEW len \in 0 .. Size[b],
             Download(r, len)
      PROVE  Genuine'
  BY <1>6, <1>0 DEF Download, Goto, Typed, TypeOK, Owned, Genuine, FileGenuine, CallGenuine, Accepted, At, Inside
<1>7. ASSUME NEW r \in Receivers,
             DownloadFails(r)
      PROVE  Genuine'
  BY <1>7, <1>0 DEF DownloadFails, Return, Goto, Typed, TypeOK, Owned, Genuine, FileGenuine, CallGenuine, Accepted, At, Inside
<1>8. ASSUME NEW r \in Receivers,
             SyncTemp(r)
      PROVE  Genuine'
  <2> DEFINE f == temps[temp[r]]
             name == object[r].name
  <2>1. /\ pc[r] = "syncing" /\ temp[r] \in TempNames /\ f \in File
        /\ temps' = [temps EXCEPT ![temp[r]].flushed = TRUE]
        /\ UNCHANGED <<remote, posted, inbox, object, temp>>
    BY <1>8, <1>0 DEF SyncTemp, At, Inside
  <2>2. f.body \in posted[name] /\ object[r].size = Size[f.body]
    BY <1>0, <2>1 DEF Genuine, FileGenuine, CallGenuine, Inside
  <2>3. \A s \in Receivers : s # r =>
          pc'[s] = pc[s] /\ (pc[s] \in Inside => temps'[temp[s]] = temps[temp[s]])
    BY <1>8, <1>0, <2>1 DEF SyncTemp, Return, Goto, Typed, TypeOK, Owned
  <2>4. \A n \in Names : FileGenuine(n)'
    BY <2>1 DEF Genuine, FileGenuine, IsCopy
  <2>5. ASSUME NEW s \in Receivers, s # r
        PROVE  CallGenuine(s)'
    <3>1. /\ pc'[s] = pc[s] /\ object'[s] = object[s] /\ temp'[s] = temp[s]
          /\ posted' = posted
          /\ pc[s] \in Inside => temps'[temp[s]] = temps[temp[s]]
      BY <2>1, <2>3, <2>5
    <3>2. CallGenuine(s)
      BY DEF Genuine
    <3> QED
      BY <3>1, <3>2 DEF CallGenuine, Accepted, IsCopy, Inside
  <2>6. pc'[r] \in {"publishing", "returning"}
    BY <1>8 DEF SyncTemp, Return, Goto, Typed, TypeOK
  <2>7. pc'[r] = "publishing" => f.len # 0 /\ f.len = object[r].size
    BY <1>8 DEF SyncTemp, Return, Goto, Typed, TypeOK
  <2>8. temps'[temp[r]] = [body |-> f.body, len |-> f.len, flushed |-> TRUE]
    BY <2>1 DEF Typed, TypeOK, File
  <2>9. CallGenuine(r)'
    <3>1. object[r].size = Size[f.body] /\ Size[f.body] \in Nat
      BY <1>0, <2>1, <2>2 DEF Typed, TypeOK, Inside
    <3>2. ASSUME pc'[r] = "publishing"
          PROVE  IsCopy(temps'[temp'[r]], f.body) /\ Size[f.body] > 0
      <4>1. f.len = Size[f.body] /\ Size[f.body] # 0
        BY <2>7, <3>1, <3>2
      <4>2. Size[f.body] > 0
        BY <3>1, <4>1
      <4>3. temp'[r] = temp[r]
        BY <2>1
      <4> QED
        BY <2>8, <4>1, <4>2, <4>3 DEF IsCopy
    <3> QED
      BY <2>1, <2>2, <2>6, <3>1, <3>2 DEF CallGenuine, Accepted, Inside
  <2> QED
    BY <2>4, <2>5, <2>9 DEF Genuine
<1>9. ASSUME NEW r \in Receivers,
             Publish(r)
      PROVE  Genuine'
  BY <1>9, <1>0 DEF Publish, Goto, Typed, TypeOK, Owned, Genuine, FileGenuine, CallGenuine, Accepted, At, Inside
<1>10. ASSUME NEW r \in Receivers,
             SyncDirectory(r)
      PROVE  Genuine'
  BY <1>10, <1>0 DEF SyncDirectory, Goto, Typed, TypeOK, Owned, Genuine, FileGenuine, CallGenuine, Accepted, At, Inside
<1>11. ASSUME NEW r \in Receivers,
             Compare(r)
      PROVE  Genuine'
  BY <1>11, <1>0 DEF Compare, Return, Goto, Typed, TypeOK, Owned, Genuine, FileGenuine, CallGenuine, Accepted, At, Inside
<1>12. ASSUME NEW r \in Receivers,
             LocalIoFails(r)
      PROVE  Genuine'
  BY <1>12, <1>0 DEF LocalIoFails, Return, Goto, Typed, TypeOK, Owned, Genuine, FileGenuine, CallGenuine, Accepted, At, Inside
<1>13. ASSUME NEW r \in Receivers,
             Delete(r)
      PROVE  Genuine'
  BY <1>13, <1>0 DEF Delete, Goto, Typed, TypeOK, Owned, Genuine, FileGenuine, CallGenuine, Accepted, At, Inside
<1>14. ASSUME NEW r \in Receivers,
             DeleteFails(r)
      PROVE  Genuine'
  BY <1>14, <1>0 DEF DeleteFails, Return, Goto, Typed, TypeOK, Owned, Genuine, FileGenuine, CallGenuine, Accepted, At, Inside
<1>15. ASSUME NEW r \in Receivers,
             Drop(r)
      PROVE  Genuine'
  BY <1>15, <1>0 DEF Drop, Goto, Typed, TypeOK, Owned, Genuine, FileGenuine, CallGenuine, Accepted, At, Inside
<1>16. ASSUME NEW r \in Receivers,
             Crash(r)
      PROVE  Genuine'
  BY <1>16, <1>0 DEF Crash, Goto, Typed, TypeOK, Owned, Genuine, FileGenuine, CallGenuine, Accepted, At, Inside
<1>17. ASSUME NEW lost \in SUBSET Unsynced,
             NEW leftovers \in SUBSET TempNames,
             NEW b \in Bodies, NEW cut \in 0 .. Size[b],
             PowerLoss(lost, leftovers, cut)
      PROVE  Genuine'
  <2>1. \A n \in Names : FileGenuine(n)'
    BY <1>17, PowerLossEffect DEF Genuine, FileGenuine, Landed, FileLanded
  <2>2. \A s \in Receivers : CallGenuine(s)'
    BY <1>17, PowerLossEffect DEF CallGenuine, Accepted, Inside
  <2> QED
    BY <2>1, <2>2 DEF Genuine
<1>18. CASE UNCHANGED vars
  BY <1>18 DEF vars, Genuine, FileGenuine, CallGenuine, Accepted, At, Inside, IsCopy
<1> QED
  BY <1>1, <1>2, <1>3, <1>4, <1>5, <1>6, <1>7, <1>8, <1>9, <1>10, <1>11, <1>12, <1>13, <1>14, <1>15, <1>16, <1>17, <1>18
     DEF Next, Receive

-----------------------------------------------------------------------------
(* What may happen to published files and to objects in `/out`             *)

LEMMA InboxChanges ==
  ASSUME [Next]_vars
  PROVE  \/ UNCHANGED inbox
         \/ \E r \in Receivers : Publish(r)
         \/ \E lost \in SUBSET Unsynced, leftovers \in SUBSET TempNames, b \in Bodies :
              \E cut \in 0 .. Size[b] : PowerLoss(lost, leftovers, cut)
BY DEF Next, Receive, vars, Post, Start, Begin, CreateTemp, CreateFails,
       Download, DownloadFails, SyncTemp, SyncDirectory, Compare,
       LocalIoFails, Delete, DeleteFails, Drop, Crash

LEMMA RemoteChanges ==
  ASSUME [Next]_vars
  PROVE  \/ UNCHANGED <<remote, posted>>
         \/ \E n \in Names, b \in Bodies : Post(n, b)
         \/ \E r \in Receivers : Delete(r) \/ DeleteFails(r)
BY DEF Next, Receive, vars, Start, Begin, CreateTemp, CreateFails,
       Download, DownloadFails, SyncTemp, Publish, SyncDirectory, Compare,
       LocalIoFails, Drop, Crash, PowerLoss

LEMMA InboxStep ==
  ASSUME Typed, Landed, [Next]_vars, NEW n \in Names, inbox[n] # None
  PROVE  /\ inbox'[n] \in {inbox[n], None}
         /\ ~PowerMayFail => inbox'[n] = inbox[n]
<1>1. CASE UNCHANGED inbox
  BY <1>1
<1>2. ASSUME NEW r \in Receivers, Publish(r)
      PROVE  inbox'[n] = inbox[n]
  BY <1>2 DEF Publish, Typed, TypeOK
<1>3. ASSUME NEW lost, NEW leftovers, NEW b \in Bodies, NEW cut \in 0 .. Size[b],
             PowerLoss(lost, leftovers, cut)
      PROVE  inbox'[n] \in {inbox[n], None} /\ PowerMayFail
  <2>1. inbox'[n] \in {inbox[n], disk[n]}
    BY <1>3, PowerLossEffect, ConstantsAssumption
  <2> QED
    BY <1>3, <2>1 DEF PowerLoss, Landed, FileLanded
<1> QED
  BY <1>1, <1>2, <1>3, InboxChanges

\* Whoever deletes an object has a copy of all that was posted under its name.
LEMMA DeleterHasCopy ==
  ASSUME Typed, Landed, Genuine, NEW r \in Receivers, pc[r] = "deleting"
  PROVE  /\ object[r].name \in Names
         /\ \A b \in posted[object[r].name] : IsCopy(inbox[object[r].name], b)
<1> DEFINE name == object[r].name
           f == temps[temp[r]]
<1>1. name \in Names
  BY DEF Typed, TypeOK, Owned, Inside, RemoteObject
<1>2. inbox[name] \in File /\ inbox[name].flushed /\ SameData(inbox[name], f)
  BY <1>1 DEF Typed, TypeOK, Landed, FileLanded, CallLanded
<1>3. PICK b \in posted[name] : IsCopy(f, b)
  BY DEF Genuine, CallGenuine, Accepted
<1>4. inbox[name] = [body |-> b, len |-> Size[b], flushed |-> TRUE]
  <2> DEFINE g == inbox[name]
  <2>1. g.flushed = TRUE
    BY <1>2, FileFields
  <2>2. g.body = b /\ g.len = Size[b]
    BY <1>2, <1>3 DEF SameData, IsCopy
  <2>3. g = [body |-> g.body, len |-> g.len, flushed |-> g.flushed]
    BY <1>2 DEF File
  <2> QED
    BY <2>1, <2>2, <2>3
<1> QED
  BY <1>1, <1>3, <1>4 DEF Genuine, FileGenuine, IsCopy

-----------------------------------------------------------------------------
(* The main results                                                        *)

LEMMA Invariants == ~NameReuse => (Spec => [](Typed /\ Landed /\ Genuine))
<1> SUFFICES ASSUME ~NameReuse
             PROVE  Spec => [](Typed /\ Landed /\ Genuine)
  OBVIOUS
<1>1. Init => Typed /\ Landed /\ Genuine
  BY TypedInit, LandedInit, GenuineInit
<1>2. Typed /\ Landed /\ Genuine /\ [Next]_vars => (Typed /\ Landed /\ Genuine)'
  BY TypedStep, LandedStep, GenuineStep
<1> QED
  BY <1>1, <1>2, PTL DEF Spec

\* When the platform uses a name once, a published file is the whole of what
\* was posted under its name, before and after any power failure.
THEOREM PublishedFilesIntact == ~NameReuse => (Spec => []PublishedIntact)
<1>1. Typed /\ Landed /\ Genuine => PublishedIntact
  BY DEF Landed, FileLanded, Genuine, FileGenuine, PublishedIntact
<1> QED
  BY <1>1, Invariants, PTL

\* A published file is never replaced, not even through a power failure.
THEOREM NoClobber == Spec => PublishedNeverReplaced
<1>1. Typed /\ Landed /\ [Next]_vars =>
        [\A n \in Names :
           inbox[n] # None /\ inbox'[n] # None => inbox'[n] = inbox[n]]_vars
  BY InboxStep
<1> QED
  BY <1>1, TypedInit, TypedStep, LandedInit, LandedStep, PTL
     DEF Spec, PublishedNeverReplaced

\* All contents that are not empty have one size.
OneSize == \A b, c \in Bodies : Size[b] > 0 /\ Size[c] > 0 => Size[b] = Size[c]

\* An advertised size is that of some content, and a download of that size is
\* whole, if there is but one.
CallMeasured(r) ==
  LET f == temps[temp[r]] IN
  /\ pc[r] \in Inside \cup {"creating"} => \E b \in Bodies : object[r].size = Size[b]
  /\ pc[r] = "syncing" => f.body \in Bodies /\ f.len <= Size[f.body]
  /\ Accepted(r) => f.body \in Bodies /\ IsCopy(f, f.body)

\* What a receiver that works alone has downloaded is still in `/out`.
CallCurrent(r) ==
  Receivers = {r} /\ (pc[r] = "syncing" \/ Accepted(r)) =>
    temps[temp[r]].body = remote[object[r].name]

Measured == \A r \in Receivers : CallMeasured(r) /\ CallCurrent(r)

LEMMA MeasuredInit == Init => Measured
BY DEF Init, Measured, CallMeasured, CallCurrent, Accepted, Inside

LEMMA MeasuredStep == OneSize /\ Typed /\ Measured /\ [Next]_vars => Measured'
<1> SUFFICES ASSUME OneSize, Typed, Measured, [Next]_vars, NEW r \in Receivers
             PROVE  CallMeasured(r)' /\ CallCurrent(r)'
  BY DEF Measured
<1> USE ConstantsAssumption, NoneAssumption
<1>0. /\ CallMeasured(r) /\ CallCurrent(r)
      /\ pc[r] \in Inside \cup {"creating"} =>
           object[r] \in RemoteObject /\ object[r].name \in Names
      /\ pc[r] \in Inside => temp[r] \in TempNames /\ temps[temp[r]] \in File
  BY DEF Measured, Typed, TypeOK, Owned, RemoteObject
<1>1. ASSUME NEW n \in Names, NEW b \in Bodies, Post(n, b)
      PROVE  CallMeasured(r)' /\ CallCurrent(r)'
  <2>1. UNCHANGED <<temps, localVars>> /\ remote[n] = None /\ remote' = [remote EXCEPT ![n] = b]
    BY <1>1 DEF Post
  <2>2. CallMeasured(r)'
    BY <1>0, <2>1 DEF localVars, CallMeasured, Accepted
  <2>3. pc[r] = "syncing" \/ Accepted(r) => temps[temp[r]].body # None
    BY <1>0 DEF CallMeasured
  <2>4. CallCurrent(r)'
    BY <1>0, <2>1, <2>3 DEF localVars, CallCurrent, Accepted, Inside, Typed, TypeOK
  <2> QED BY <2>2, <2>4
<1>2. ASSUME NEW s \in Receivers, NEW p \in Pids, Start(s, p)
      PROVE  CallMeasured(r)' /\ CallCurrent(r)'
  BY <1>2, <1>0 DEF Start, Goto, Typed, TypeOK, CallMeasured, CallCurrent, Accepted, At, Inside
<1>3. ASSUME NEW s \in Receivers, NEW o \in Listable, Begin(s, o)
      PROVE  CallMeasured(r)' /\ CallCurrent(r)'
  <2>1. \E b \in Bodies : o.size = Size[b]
    BY DEF Listable
  <2> QED
    BY <1>3, <1>0, <2>1 DEF Begin, Goto, Typed, TypeOK, CallMeasured, CallCurrent, Accepted, At, Inside
<1>4. ASSUME NEW s \in Receivers, CreateTemp(s)
      PROVE  CallMeasured(r)' /\ CallCurrent(r)'
  BY <1>4, <1>0, CreateTempEffect DEF CallMeasured, CallCurrent, Accepted, Inside
<1>5. ASSUME NEW s \in Receivers, CreateFails(s)
      PROVE  CallMeasured(r)' /\ CallCurrent(r)'
  BY <1>5, <1>0 DEF CreateFails, Goto, Typed, TypeOK, CallMeasured, CallCurrent, Accepted, At, Inside
<1>6. ASSUME NEW s \in Receivers, NEW b \in Bodies, NEW len \in 0 .. Size[b], Download(s, len)
      PROVE  CallMeasured(r)' /\ CallCurrent(r)'
  BY <1>6, <1>0 DEF Download, Goto, Typed, TypeOK, Owned, CallMeasured, CallCurrent, Accepted, At, Inside
<1>7. ASSUME NEW s \in Receivers, DownloadFails(s)
      PROVE  CallMeasured(r)' /\ CallCurrent(r)'
  BY <1>7, <1>0 DEF DownloadFails, Return, Goto, Typed, TypeOK, Owned, CallMeasured, CallCurrent, Accepted, At, Inside
<1>8. ASSUME NEW s \in Receivers, SyncTemp(s)
      PROVE  CallMeasured(r)' /\ CallCurrent(r)'
  <2> DEFINE f == temps[temp[r]]
  <2>1. /\ UNCHANGED <<remote, object, temp>> /\ pc[s] = "syncing"
        /\ temps' = [temps EXCEPT ![temp[s]].flushed = TRUE]
    BY <1>8 DEF SyncTemp, At
  <2>2. CASE s # r
    <3>1. pc'[r] = pc[r] /\ (pc[r] \in Inside => temps'[temp[r]] = f)
      BY <1>8, <1>0, <2>1, <2>2 DEF SyncTemp, Return, Goto, Typed, TypeOK, Owned, Inside
    <3> QED
      BY <1>0, <2>1, <3>1 DEF CallMeasured, CallCurrent, Accepted, IsCopy, Inside
  <2>3. CASE s = r
    <3>1. f \in File /\ f.body \in Bodies /\ f.len <= Size[f.body]
      BY <1>0, <2>1, <2>3 DEF CallMeasured, Inside
    <3>2. temps'[temp[r]] = [body |-> f.body, len |-> f.len, flushed |-> TRUE]
      BY <1>0, <2>1, <2>3, <3>1 DEF Typed, TypeOK, File, Inside
    <3>3. pc'[r] \in {"publishing", "returning"}
      BY <1>8, <2>3 DEF SyncTemp, Return, Goto, Typed, TypeOK
    <3>4. pc'[r] = "publishing" => f.len # 0 /\ f.len = object[r].size
      BY <1>8, <2>3 DEF SyncTemp, Return, Goto, Typed, TypeOK
    <3>5. PICK b \in Bodies : object[r].size = Size[b]
      BY <1>0, <2>1, <2>3 DEF CallMeasured, Inside
    <3>6. pc'[r] = "publishing" => f.len = Size[f.body]
      <4>1. Size[b] \in Nat /\ Size[f.body] \in Nat /\ f.len \in Nat
        BY <3>1, <3>5, FileFields
      <4> QED BY <3>1, <3>4, <3>5, <4>1 DEF OneSize
    <3>7. pc'[r] = "publishing" => IsCopy(temps'[temp[r]], f.body)
      BY <3>2, <3>6 DEF IsCopy
    <3>8. temps'[temp[r]].body = f.body  BY <3>2
    <3>9. CallMeasured(r)'
      BY <2>1, <3>1, <3>3, <3>5, <3>7, <3>8 DEF CallMeasured, Accepted
    <3>10. CallCurrent(r)'
      BY <1>0, <2>1, <2>3, <3>8 DEF CallCurrent
    <3> QED BY <3>9, <3>10
  <2> QED BY <2>2, <2>3
<1>9. ASSUME NEW s \in Receivers, Publish(s)
      PROVE  CallMeasured(r)' /\ CallCurrent(r)'
  BY <1>9, <1>0 DEF Publish, Goto, Typed, TypeOK, CallMeasured, CallCurrent, Accepted, At, Inside
<1>10. ASSUME NEW s \in Receivers, SyncDirectory(s)
      PROVE  CallMeasured(r)' /\ CallCurrent(r)'
  BY <1>10, <1>0 DEF SyncDirectory, Goto, Typed, TypeOK, CallMeasured, CallCurrent, Accepted, At, Inside
<1>11. ASSUME NEW s \in Receivers, Compare(s)
      PROVE  CallMeasured(r)' /\ CallCurrent(r)'
  BY <1>11, <1>0 DEF Compare, Return, Goto, Typed, TypeOK, CallMeasured, CallCurrent, Accepted, At, Inside
<1>12. ASSUME NEW s \in Receivers, LocalIoFails(s)
      PROVE  CallMeasured(r)' /\ CallCurrent(r)'
  BY <1>12, <1>0 DEF LocalIoFails, Return, Goto, Typed, TypeOK, CallMeasured, CallCurrent, Accepted, At, Inside
<1>13. ASSUME NEW s \in Receivers, Delete(s)
      PROVE  CallMeasured(r)' /\ CallCurrent(r)'
  BY <1>13, <1>0 DEF Delete, Goto, Typed, TypeOK, CallMeasured, CallCurrent, Accepted, At, Inside
<1>14. ASSUME NEW s \in Receivers, DeleteFails(s)
      PROVE  CallMeasured(r)' /\ CallCurrent(r)'
  BY <1>14, <1>0 DEF DeleteFails, Return, Goto, Typed, TypeOK, CallMeasured, CallCurrent, Accepted, At, Inside
<1>15. ASSUME NEW s \in Receivers, Drop(s)
      PROVE  CallMeasured(r)' /\ CallCurrent(r)'
  BY <1>15, <1>0 DEF Drop, Goto, Typed, TypeOK, Owned, CallMeasured, CallCurrent, Accepted, At, Inside
<1>16. ASSUME NEW s \in Receivers, Crash(s)
      PROVE  CallMeasured(r)' /\ CallCurrent(r)'
  BY <1>16, <1>0 DEF Crash, Goto, Typed, TypeOK, Owned, CallMeasured, CallCurrent, Accepted, At, Inside
<1>17. ASSUME NEW lost \in SUBSET Unsynced, NEW leftovers \in SUBSET TempNames,
             NEW b \in Bodies, NEW cut \in 0 .. Size[b], PowerLoss(lost, leftovers, cut)
      PROVE  CallMeasured(r)' /\ CallCurrent(r)'
  BY <1>17 DEF PowerLoss, CallMeasured, CallCurrent, Accepted, Inside
<1>18. CASE UNCHANGED vars
  BY <1>0, <1>18 DEF vars, CallMeasured, CallCurrent, Accepted, Inside
<1> QED
  BY <1>1, <1>2, <1>3, <1>4, <1>5, <1>6, <1>7, <1>8, <1>9, <1>10, <1>11, <1>12, <1>13, <1>14, <1>15, <1>16, <1>17, <1>18
     DEF Next, Receive

\* A receiver that deletes has what the property says of it.
DeleterHolds(r) ==
  LET n == object[r].name
  IN  pc[r] = "deleting" /\ remote[n] # None => DeletesDownload(r, n)

\* A deletion is of one of these receivers.
LEMMA DeleterDeletes ==
  ASSUME Typed, \A r \in Receivers : DeleterHolds(r), [Next]_vars,
         NEW n \in Names, remote[n] # None, remote'[n] = None
  PROVE  \E r \in Receivers : DeletesDownload(r, n)
<1>1. PICK r \in Receivers : Delete(r) \/ DeleteFails(r)
  <2>1. ASSUME NEW m \in Names, NEW b \in Bodies, Post(m, b)
        PROVE  FALSE
    BY <2>1, ConstantsAssumption DEF Post, Typed, TypeOK
  <2> QED
    BY <2>1, RemoteChanges
<1>2. At(r, "deleting") /\ object[r].name = n
  BY <1>1 DEF Delete, DeleteFails, At, Typed, TypeOK
<1> QED
  BY <1>2 DEF DeleterHolds, At

\* The file that a deleting receiver finds published has its download's data.
LEMMA DeleterPublished ==
  ASSUME Typed, Landed, NEW r \in Receivers, pc[r] = "deleting",
         NEW b, IsCopy(temps[temp[r]], b)
  PROVE  IsCopy(inbox[object[r].name], b)
<1> DEFINE name == object[r].name
           g == inbox[name]
<1>1. name \in Names
  BY DEF Typed, TypeOK, Owned, Inside, RemoteObject
<1>2. g \in File /\ g.flushed /\ SameData(g, temps[temp[r]])
  BY <1>1 DEF Typed, TypeOK, Landed, FileLanded, CallLanded
<1>3. g.flushed = TRUE
  BY <1>2, FileFields
<1>4. g.body = b /\ g.len = Size[b]
  BY <1>2 DEF SameData, IsCopy
<1>5. g = [body |-> g.body, len |-> g.len, flushed |-> g.flushed]
  BY <1>2 DEF File
<1> QED
  BY <1>3, <1>4, <1>5 DEF IsCopy

\* A receiver deletes what it downloaded, and only while the inbox holds the
\* whole of it.  Where names are used again, this takes contents of one size (a
\* cut download of another content may have the size of a stale listing), and
\* a receiver that is not alone may delete, unread, what was posted since.
THEOREM NoDeleteWithoutCopy == ~NameReuse \/ OneSize => (Spec => DeletesOnlyCopied)
<1>1. ASSUME Typed, Landed, Genuine, ~NameReuse, NEW r \in Receivers
      PROVE  DeleterHolds(r)
  <2> SUFFICES ASSUME pc[r] = "deleting", remote[object[r].name] # None
               PROVE  DeletesDownload(r, object[r].name)
    BY DEF DeleterHolds
  <2> DEFINE n == object[r].name
  <2>1. n \in Names /\ \A b \in posted[n] : IsCopy(inbox[n], b)
    BY <1>1, DeleterHasCopy
  <2>2. PICK b \in posted[n] : IsCopy(temps[temp[r]], b)
    BY <1>1 DEF Genuine, CallGenuine, Accepted
  <2>3. temps[temp[r]].body = b  BY <2>2 DEF IsCopy
  <2>4. remote[n] # None => remote[n] = b
    BY <1>1, <2>1 DEF Genuine, FileGenuine
  <2> QED
    BY <2>1, <2>3, <2>4 DEF DeletesDownload, At
<1>2. ASSUME Typed, Landed, Measured, NEW r \in Receivers
      PROVE  pc[r] = "deleting" =>
               /\ IsCopy(inbox[object[r].name], temps[temp[r]].body)
               /\ Receivers = {r} => temps[temp[r]].body = remote[object[r].name]
  <2>1. pc[r] = "deleting" => IsCopy(temps[temp[r]], temps[temp[r]].body)
    BY <1>2 DEF Measured, CallMeasured, Accepted
  <2>2. pc[r] = "deleting" /\ Receivers = {r} => temps[temp[r]].body = remote[object[r].name]
    BY <1>2 DEF Measured, CallCurrent, Accepted
  <2> QED
    BY <1>2, <2>1, <2>2, DeleterPublished
<1>3. Typed /\ Landed /\ Genuine /\ ~NameReuse => \A r \in Receivers : DeleterHolds(r)
  BY <1>1
<1>4. Typed /\ Landed /\ Measured /\ NameReuse => \A r \in Receivers : DeleterHolds(r)
  BY <1>2 DEF DeleterHolds, DeletesDownload, At
<1>5. Typed /\ (\A r \in Receivers : DeleterHolds(r)) /\ [Next]_vars =>
        [\A n \in Names : remote[n] # None /\ remote'[n] = None =>
           \E r \in Receivers : DeletesDownload(r, n)]_vars
  BY DeleterDeletes
<1>6. CASE ~NameReuse
  BY <1>3, <1>5, <1>6, Invariants, PTL DEF Spec, DeletesOnlyCopied
<1>7. CASE NameReuse
  <2> SUFFICES ASSUME OneSize
               PROVE  Spec => DeletesOnlyCopied
    BY <1>7
  <2>1. Init => Typed /\ Landed /\ Measured
    BY TypedInit, LandedInit, MeasuredInit
  <2>2. Typed /\ Landed /\ Measured /\ [Next]_vars => (Typed /\ Landed /\ Measured)'
    BY TypedStep, LandedStep, MeasuredStep
  <2> QED
    BY <1>4, <1>5, <1>7, <2>1, <2>2, PTL DEF Spec, DeletesOnlyCopied
<1> QED
  BY <1>6, <1>7

\* While the power holds and names are used once, no posted object is ever
\* lost: it is in `/out` or, whole, in the inbox.
THEOREM NothingLost ==
  ~NameReuse /\ ~PowerMayFail => (Spec => []AcceptedNeverLost)
<1> SUFFICES ASSUME ~NameReuse, ~PowerMayFail
             PROVE  Spec => []AcceptedNeverLost
  OBVIOUS
<1>1. Init => AcceptedNeverLost
  BY DEF Init, AcceptedNeverLost
<1>2. ASSUME Typed, Landed, Genuine, AcceptedNeverLost, [Next]_vars
      PROVE  AcceptedNeverLost'
  <2>1. \A n \in Names : \A b \in posted[n] :
          IsCopy(inbox[n], b) => IsCopy(inbox'[n], b)
    <3> SUFFICES ASSUME NEW n \in Names, NEW b \in posted[n], IsCopy(inbox[n], b)
                 PROVE  IsCopy(inbox'[n], b)
      OBVIOUS
    <3>1. inbox[n] # None
      <4>1. b \in Bodies /\ Size[b] \in Nat
        BY <1>2, ConstantsAssumption DEF Typed, TypeOK
      <4>2. [body |-> b, len |-> Size[b], flushed |-> TRUE] \in File
        BY <4>1 DEF File
      <4> QED
        BY <4>2, NoneAssumption DEF IsCopy
    <3> QED
      BY <1>2, <3>1, InboxStep
  <2>2. CASE UNCHANGED <<remote, posted>>
    BY <1>2, <2>1, <2>2 DEF AcceptedNeverLost
  <2>3. ASSUME NEW m \in Names, NEW c \in Bodies, Post(m, c)
        PROVE  AcceptedNeverLost'
    <3>1. posted[m] = {} /\ inbox' = inbox
      BY <2>3 DEF Post
    <3> QED
      BY <1>2, <2>3, <3>1 DEF Post, AcceptedNeverLost, Typed, TypeOK
  <2>4. ASSUME NEW r \in Receivers, Delete(r) \/ DeleteFails(r)
        PROVE  AcceptedNeverLost'
    <3>1. pc[r] = "deleting" /\ UNCHANGED <<posted, inbox>>
      BY <2>4 DEF Delete, DeleteFails, At
    <3>2. \A n \in Names : n # object[r].name => remote'[n] = remote[n]
      BY <1>2, <2>4 DEF Delete, DeleteFails, Typed, TypeOK
    <3> QED
      BY <1>2, <3>1, <3>2, DeleterHasCopy DEF AcceptedNeverLost
  <2> QED
    BY <1>2, <2>2, <2>3, <2>4, RemoteChanges
<1>3. Typed /\ Landed /\ Genuine /\ AcceptedNeverLost /\ [Next]_vars
        => AcceptedNeverLost'
  BY <1>2
<1> QED
  BY <1>1, <1>3, Invariants, PTL DEF Spec

-----------------------------------------------------------------------------
(* The pollers implement DurableReceiver *)

\* A poll works on objects that a listing has shown.
Sensible(r) ==
  /\ \A i \in DOMAIN queue[r] : queue[r][i] \in Listable
  /\ phase[r] = "receiving" => object[r] # None
  /\ pc[r] = "down" => phase[r] = "resting"

Polling ==
  /\ Typed
  /\ PollTypeOK
  /\ \A n \in Names : remote[n] # None => remote[n] \in posted[n]
  /\ \A r \in Receivers : Sensible(r)

LEMMA PollingInit == PollInit => Polling
<1> SUFFICES ASSUME PollInit  PROVE Polling
  OBVIOUS
<1>1. Typed
  BY TypedInit DEF PollInit
<1>2. PollTypeOK
  BY DEF PollInit, PollTypeOK
<1> QED  BY <1>1, <1>2 DEF Polling, PollInit, Init, Sensible

\* A listing shows what is in `/out`.
LEMMA ListingsShow ==
  ASSUME Polling, NEW l \in Listings
  PROVE  l \in Seq(RemoteObject) /\ \A i \in DOMAIN l : l[i] \in Listable
<1> DEFINE shown == {[name |-> n, size |-> Size[remote[n]]] : n \in Listed}
<1>1. Cardinality(Listed) \in Nat
  <2>1. Listed \subseteq Names
    BY DEF Listed
  <2> QED  BY <2>1, PollerAssumption, FS_Subset, FS_CardinalityType
<1>2. l \in [1 .. Cardinality(Listed) -> shown]
  BY DEF Listings
<1>3. \A o \in shown : o \in RemoteObject /\ o \in Listable
  <2>1. SUFFICES ASSUME NEW n \in Listed
                 PROVE  LET o == [name |-> n, size |-> Size[remote[n]]]
                        IN  o \in RemoteObject /\ o \in Listable
    OBVIOUS
  <2>2. n \in Names /\ remote[n] \in posted[n] /\ remote[n] \in Bodies
    BY <2>1 DEF Listed, Polling, Typed, TypeOK
  <2>3. Size[remote[n]] \in Nat
    BY <2>2, ConstantsAssumption
  <2> QED  BY <2>2, <2>3 DEF RemoteObject, Listable
<1> QED  BY <1>1, <1>2, <1>3

\* What some step leaves alone.
LEMMA HeadAndTail ==
  ASSUME NEW S, NEW s \in Seq(S), s # <<>>
  PROVE  /\ Head(s) = s[1] /\ 1 \in DOMAIN s /\ Head(s) \in S
         /\ Tail(s) \in Seq(S) /\ Len(Tail(s)) = Len(s) - 1
         /\ \A i \in DOMAIN Tail(s) : i + 1 \in DOMAIN s /\ Tail(s)[i] = s[i + 1]
OBVIOUS

\* Every step of the pollers is a step of the receivers, or leaves them alone.
LEMMA StepReceives ==
  ASSUME Polling, [PollNext]_pollVars
  PROVE  [Next]_vars
<1>1. ASSUME NEW r \in Receivers, ReceiveNext(r)  PROVE Next
  <2>1. Head(queue[r]) \in Listable
    BY <1>1, HeadAndTail DEF ReceiveNext, Polling, Sensible, PollTypeOK
  <2> QED  BY <1>1, <2>1 DEF ReceiveNext, Next
<1>2. ASSUME NEW r \in Receivers, Receiving(r) \/ CrashPoll(r) \/ StartPoller(r)
      PROVE  Next
  BY <1>2 DEF Receiving, CrashPoll, StartPoller, Next
<1>3. ASSUME NEW r \in Receivers,
             ListOut(r) \/ RecordReceiveError(r) \/ Load(r) \/ LoadFails(r) \/ ReturnAttempts(r)
      PROVE  UNCHANGED vars
  BY <1>3 DEF ListOut, RecordReceiveError, Load, LoadFails, Record, ReturnAttempts
<1>4. PostOut \/ PowerLossPoll => Next
  BY DEF PostOut, PowerLossPoll, Next
<1> QED  BY <1>1, <1>2, <1>3, <1>4 DEF PollNext, Progress, pollVars

\* Objects that were listed stay listable.
LEMMA PostedGrows ==
  ASSUME Typed, [Next]_vars
  PROVE  /\ \A n \in Names : posted[n] \subseteq posted'[n]
         /\ Listable \subseteq Listable'
         /\ (\A n \in Names : remote[n] # None => remote[n] \in posted[n])
              => \A n \in Names : remote'[n] # None => remote'[n] \in posted'[n]
<1>1. /\ \A n \in Names : posted[n] \subseteq posted'[n]
      /\ \A n \in Names : remote'[n] \in {remote[n], None} \cup (posted'[n])
  <2>1. CASE UNCHANGED <<remote, posted>>
    BY <2>1
  <2>2. ASSUME NEW n \in Names, NEW b \in Bodies, Post(n, b)
        PROVE  \A m \in Names : /\ posted[m] \subseteq posted'[m]
                                /\ remote'[m] \in {remote[m], None} \cup posted'[m]
    BY <2>2 DEF Post, Typed, TypeOK
  <2>3. ASSUME NEW r \in Receivers, Delete(r) \/ DeleteFails(r)
        PROVE  \A m \in Names : /\ posted[m] \subseteq posted'[m]
                                /\ remote'[m] \in {remote[m], None}
    BY <2>3 DEF Delete, DeleteFails, Typed, TypeOK
  <2> QED  BY <2>1, <2>2, <2>3, RemoteChanges
<1>2. Listable \subseteq Listable'
  BY <1>1 DEF Listable
<1> QED  BY <1>1, <1>2

\* The steps in which a receiver that is in a call moves on.
LEMMA ReceiveEffect ==
  ASSUME Typed, NEW r \in Receivers, Receive(r)
  PROVE  /\ object' = object /\ pc[r] \notin {"down", "idle"} /\ pc'[r] # "down"
         /\ \A s \in Receivers : s # r => pc'[s] = pc[s] /\ outcome'[s] = outcome[s]
         /\ \/ outcome'[r] \notin Received
            \/ pc'[r] \notin {"returning", "idle"}
            \/ outcome'[r] = outcome[r] /\ (pc[r] = "returning" \/ Delete(r))
BY DEF Receive, CreateTemp, CreateFails, Download, DownloadFails, SyncTemp,
       Publish, SyncDirectory, Compare, LocalIoFails, Delete, DeleteFails, Drop,
       At, Goto, Return, Received, Typed, TypeOK

\* The attempt that ends the work on an object.
LEMMA RecordEffect ==
  ASSUME Polling, NEW r \in Receivers,
         RecordReceiveError(r) \/ Load(r) \/ LoadFails(r)
  PROVE  \E result \in {"Ok", "Receive", "Io", "Parse"} :
           /\ Record(r, result)
           /\ [name |-> object[r].name, result |-> result] \in Attempt
           /\ result = "Ok" => /\ outcome[r] \in Received
                               /\ Parses(object[r].name, inbox[object[r].name].body)
<1>1. ASSUME phase[r] = "receiving"  PROVE object[r].name \in Names
  BY <1>1 DEF Polling, Sensible, Typed, TypeOK, RemoteObject
<1> QED  BY <1>1 DEF RecordReceiveError, Load, LoadFails, Record, Attempt

LEMMA PollingStep == Polling /\ [PollNext]_pollVars => Polling'
<1> SUFFICES ASSUME Polling, [PollNext]_pollVars  PROVE Polling'
  OBVIOUS
<1>1. Typed' /\ [Next]_vars
  BY StepReceives, TypedStep DEF Polling
<1>2. /\ \A n \in Names : remote'[n] # None => remote'[n] \in posted'[n]
      /\ Listable \subseteq Listable'
  BY <1>1, PostedGrows DEF Polling
<1>3. SUFFICES PollTypeOK' /\ \A s \in Receivers : Sensible(s)'
  BY <1>1, <1>2 DEF Polling
<1> USE DEF Polling
<1>4. ASSUME NEW r \in Receivers, ListOut(r)
      PROVE  PollTypeOK' /\ \A s \in Receivers : Sensible(s)'
  <2>1. PICK l \in Listings : /\ listing' = [listing EXCEPT ![r] = l]
                              /\ queue' = [queue EXCEPT ![r] = l]
    BY <1>4 DEF ListOut
  <2>2. l \in Seq(RemoteObject) /\ \A i \in DOMAIN l : l[i] \in Listable
    BY ListingsShow
  <2>3. PollTypeOK'
    BY <1>4, <2>1, <2>2 DEF ListOut, PollTypeOK
  <2> QED  BY <1>2, <1>4, <2>1, <2>2, <2>3 DEF ListOut, PollTypeOK, Sensible, vars, At
<1>5. ASSUME NEW r \in Receivers, ReceiveNext(r)
      PROVE  PollTypeOK' /\ \A s \in Receivers : Sensible(s)'
  <2> DEFINE q == queue[r]
  <2>1. /\ q # <<>> /\ q \in Seq(RemoteObject) /\ Head(q) \in RemoteObject
        /\ Tail(q) \in Seq(RemoteObject)
        /\ \A i \in DOMAIN Tail(q) : i + 1 \in DOMAIN q /\ Tail(q)[i] = q[i + 1]
    BY <1>5, HeadAndTail DEF ReceiveNext, PollTypeOK
  <2>2. PollTypeOK'
    BY <1>5, <2>1 DEF ReceiveNext, PollTypeOK
  <2>3. /\ object' = [object EXCEPT ![r] = Head(q)] /\ Head(q) # None
        /\ \A s \in Receivers : pc'[s] = "down" => pc[s] = "down" /\ s # r
    BY <1>5, <2>1, NoneAssumption DEF ReceiveNext, Begin, At, Goto, Typed, TypeOK
  <2>4. \A s \in Receivers : s # r => queue'[s] = queue[s] /\ phase'[s] = phase[s]
                                       /\ object'[s] = object[s]
    BY <1>5, <2>3 DEF ReceiveNext, PollTypeOK, Typed, TypeOK
  <2>5. queue'[r] = Tail(q) /\ object'[r] = Head(q)
    BY <1>5, <2>3 DEF ReceiveNext, PollTypeOK, Typed, TypeOK
  <2>6. Sensible(r)'
    BY <1>2, <2>1, <2>3, <2>5 DEF Sensible
  <2>7. \A s \in Receivers : s # r => Sensible(s)'
    BY <1>2, <2>3, <2>4 DEF Sensible
  <2> QED  BY <2>2, <2>6, <2>7
<1>6. ASSUME NEW r \in Receivers, Receiving(r)
      PROVE  PollTypeOK' /\ \A s \in Receivers : Sensible(s)'
  BY <1>2, <1>6, ReceiveEffect DEF Receiving, pollerVars, PollTypeOK, Sensible
<1>7. ASSUME NEW r \in Receivers, RecordReceiveError(r) \/ Load(r) \/ LoadFails(r)
      PROVE  PollTypeOK' /\ \A s \in Receivers : Sensible(s)'
  <2>1. PICK result : /\ Record(r, result)
                      /\ [name |-> object[r].name, result |-> result] \in Attempt
    BY <1>7, RecordEffect
  <2>2. PollTypeOK'
    BY <2>1 DEF Record, PollTypeOK
  <2> QED  BY <1>2, <2>1, <2>2 DEF Record, PollTypeOK, Sensible, vars, At
<1>8. ASSUME NEW r \in Receivers, ReturnAttempts(r)
      PROVE  PollTypeOK' /\ \A s \in Receivers : Sensible(s)'
  BY <1>2, <1>8 DEF ReturnAttempts, PollTypeOK, Sensible, vars
<1>9. ASSUME NEW r \in Receivers, CrashPoll(r)
      PROVE  PollTypeOK' /\ \A s \in Receivers : Sensible(s)'
  BY <1>2, <1>9 DEF CrashPoll, Crash, ForgetPoll, Goto, PollTypeOK, Sensible, Typed, TypeOK
<1>10. ASSUME NEW r \in Receivers, StartPoller(r)
       PROVE  PollTypeOK' /\ \A s \in Receivers : Sensible(s)'
  BY <1>2, <1>10 DEF StartPoller, Start, Goto, pollerVars, PollTypeOK, Sensible, Typed, TypeOK
<1>11. CASE PostOut
  BY <1>2, <1>11 DEF PostOut, Post, localVars, pollerVars, PollTypeOK, Sensible
<1>12. CASE PowerLossPoll
  BY <1>12 DEF PowerLossPoll, ForgetPoll, PollTypeOK, Sensible
<1>13. CASE UNCHANGED pollVars
  BY <1>2, <1>13 DEF pollVars, pollerVars, vars, PollTypeOK, Sensible
<1> QED
  BY <1>4, <1>5, <1>6, <1>7, <1>8, <1>9, <1>10, <1>11, <1>12, <1>13 DEF PollNext, Progress

LEMMA PollInvariant == PollSpec => []Polling
BY PollingInit, PollingStep, PTL DEF PollSpec

\* Type correctness of the pollers, for any number of them.
THEOREM PollTypeCorrect == PollSpec => []PollTypeOK
<1>1. Polling => PollTypeOK
  BY DEF Polling
<1> QED  BY <1>1, PollInvariant, PTL

\* The pollers use their receivers as DurableReceiver allows: on objects that
\* a listing showed, one after the other.  All its theorems hold of them.
THEOREM PollsAreReceives == PollSpec => Spec
<1>1. PollInit => Init
  BY DEF PollInit
<1> QED  BY <1>1, StepReceives, PollInvariant, PTL DEF PollSpec, Spec

-----------------------------------------------------------------------------
(* Every object of a listing is attempted *)

\* A listing is the attempts that were made, the name in hand and the objects
\* that are left, place by place.
Parts(l, tried, hand, left) ==
  /\ Len(l) = Len(tried) + Len(hand) + Len(left)
  /\ \A i \in 1 .. Len(tried) : l[i].name = tried[i].name
  /\ \A i \in 1 .. Len(hand) : l[Len(tried) + i].name = hand[i]
  /\ \A i \in 1 .. Len(left) : l[Len(tried) + Len(hand) + i].name = left[i].name

Hand(r) == IF phase[r] = "receiving" THEN <<object[r].name>> ELSE <<>>

Partitioned(r) == Parts(listing[r], attempts[r], Hand(r), queue[r])

LEMMA FreshParts == ASSUME NEW l \in Seq(RemoteObject)  PROVE Parts(l, <<>>, <<>>, l)
BY DEF Parts

LEMMA NoParts == Parts(<<>>, <<>>, <<>>, <<>>)
BY DEF Parts

LEMMA TakeInHand ==
  ASSUME NEW l \in Seq(RemoteObject), NEW tried \in Seq(Attempt),
         NEW left \in Seq(RemoteObject), left # <<>>, Parts(l, tried, <<>>, left)
  PROVE  Parts(l, tried, <<Head(left).name>>, Tail(left))
<1>1. /\ Head(left) = left[1] /\ Len(left) \in Nat \ {0} /\ Len(tried) \in Nat
      /\ Len(Tail(left)) = Len(left) - 1
      /\ \A i \in 1 .. Len(Tail(left)) : Tail(left)[i] = left[i + 1]
  OBVIOUS
<1>2. /\ Len(l) = Len(tried) + Len(left)
      /\ \A i \in 1 .. Len(tried) : l[i].name = tried[i].name
      /\ \A i \in 1 .. Len(left) : l[Len(tried) + i].name = left[i].name
  BY <1>1 DEF Parts
<1>3. ASSUME NEW i \in 1 .. Len(Tail(left))
      PROVE  l[Len(tried) + 1 + i].name = Tail(left)[i].name
  <2>1. i + 1 \in 1 .. Len(left) /\ Len(tried) + 1 + i = Len(tried) + (i + 1)
    BY <1>1
  <2>2. l[Len(tried) + (i + 1)].name = left[i + 1].name
    BY <1>2, <2>1
  <2> QED  BY <1>1, <2>1, <2>2
<1>4. l[Len(tried) + 1].name = Head(left).name
  BY <1>1, <1>2
<1> DEFINE hand == <<Head(left).name>>
<1>5. Len(hand) = 1 /\ \A i \in 1 .. 1 : hand[i] = Head(left).name
  OBVIOUS
<1> HIDE DEF hand
<1>6. \A i \in 1 .. Len(hand) : l[Len(tried) + i].name = hand[i]
  BY <1>4, <1>5
<1>7. Len(l) = Len(tried) + Len(hand) + Len(Tail(left))
  BY <1>1, <1>2, <1>5
<1>8. Parts(l, tried, hand, Tail(left))
  BY <1>2, <1>3, <1>5, <1>6, <1>7 DEF Parts
<1> QED  BY <1>8 DEF hand

LEMMA LayAside ==
  ASSUME NEW l \in Seq(RemoteObject), NEW tried \in Seq(Attempt),
         NEW left \in Seq(RemoteObject), NEW a \in Attempt,
         Parts(l, tried, <<a.name>>, left)
  PROVE  Parts(l, Append(tried, a), <<>>, left)
<1> DEFINE now == Append(tried, a)
<1>1. /\ Len(tried) \in Nat /\ Len(left) \in Nat /\ Len(now) = Len(tried) + 1
      /\ \A i \in 1 .. Len(tried) : now[i] = tried[i]
      /\ now[Len(tried) + 1] = a
  OBVIOUS
<1>2. /\ Len(l) = Len(tried) + 1 + Len(left)
      /\ \A i \in 1 .. Len(tried) : l[i].name = tried[i].name
      /\ l[Len(tried) + 1].name = a.name
      /\ \A i \in 1 .. Len(left) : l[Len(tried) + 1 + i].name = left[i].name
  BY DEF Parts
<1> HIDE DEF now
<1>3. \A i \in 1 .. Len(now) : l[i].name = now[i].name
  BY <1>1, <1>2
<1>4. Parts(l, now, <<>>, left)
  BY <1>1, <1>2, <1>3 DEF Parts
<1> QED  BY <1>4 DEF now

LEMMA NamesOf ==
  ASSUME NEW S, NEW s \in Seq(S), \A x \in S : x.name \in Names
  PROVE  LET names == [i \in DOMAIN s |-> s[i].name]
         IN  names \in Seq(Names) /\ Len(names) = Len(s)
<1> DEFINE names == [i \in DOMAIN s |-> s[i].name]
<1>1. Len(s) \in Nat /\ DOMAIN s = 1 .. Len(s) /\ \A i \in 1 .. Len(s) : s[i] \in S
  OBVIOUS
<1>2. names \in [1 .. Len(s) -> Names]
  BY <1>1
<1>3. names \in Seq(Names)
  BY <1>1, <1>2, SeqDef
<1>4. Len(names) = Len(s)
  <2> HIDE DEF names
  <2> QED  BY <1>1, <1>2, <1>3
<1> QED  BY <1>3, <1>4

\* The place by place account as the equation of EveryObjectAttempted.
LEMMA PartsMakeTheWhole ==
  ASSUME NEW l \in Seq(RemoteObject), NEW tried \in Seq(Attempt), NEW hand \in Seq(Names),
         NEW left \in Seq(RemoteObject), Parts(l, tried, hand, left)
  PROVE  [i \in DOMAIN l |-> l[i].name] =
           [i \in DOMAIN tried |-> tried[i].name] \o hand \o [i \in DOMAIN left |-> left[i].name]
<1> DEFINE all  == [i \in DOMAIN l |-> l[i].name]
           past == [i \in DOMAIN tried |-> tried[i].name]
           next == [i \in DOMAIN left |-> left[i].name]
<1>1. /\ \A x \in RemoteObject : x.name \in Names
      /\ \A x \in Attempt : x.name \in Names
  BY DEF RemoteObject, Attempt
<1>4. all \in Seq(Names) /\ Len(all) = Len(l)
  BY ONLY <1>1, NamesOf, l \in Seq(RemoteObject)
<1>5. past \in Seq(Names) /\ Len(past) = Len(tried)
  BY ONLY <1>1, NamesOf, tried \in Seq(Attempt)
<1>6. next \in Seq(Names) /\ Len(next) = Len(left)
  BY ONLY <1>1, NamesOf, left \in Seq(RemoteObject)
<1>7. /\ \A i \in 1 .. Len(l) : all[i] = l[i].name
      /\ \A i \in 1 .. Len(tried) : past[i] = tried[i].name
      /\ \A i \in 1 .. Len(left) : next[i] = left[i].name
  OBVIOUS
<1> HIDE DEF all, past, next
<1> DEFINE front == past \o hand
           parts == front \o next
<1>8. /\ front \in Seq(Names) /\ Len(front) = Len(past) + Len(hand)
      /\ \A i \in 1 .. Len(past) + Len(hand) :
           front[i] = IF i <= Len(past) THEN past[i] ELSE hand[i - Len(past)]
  BY <1>5, ConcatProperties
<1> HIDE DEF front
<1>9. /\ parts \in Seq(Names) /\ Len(parts) = Len(front) + Len(next)
      /\ \A i \in 1 .. Len(front) + Len(next) :
           parts[i] = IF i <= Len(front) THEN front[i] ELSE next[i - Len(front)]
  <2>1. front \in Seq(Names) /\ next \in Seq(Names)
    BY <1>6, <1>8
  <2> QED  BY ONLY <2>1, ConcatProperties DEF parts
<1> HIDE DEF parts
<1>0. /\ Len(l) \in Nat /\ Len(tried) \in Nat /\ Len(hand) \in Nat /\ Len(left) \in Nat
      /\ Len(l) = Len(tried) + Len(hand) + Len(left)
  BY DEF Parts
<1>10. ASSUME NEW i \in 1 .. Len(l)  PROVE l[i].name = parts[i]
  <2>1. CASE i \in 1 .. Len(tried)
    <3>1. parts[i] = past[i]
      BY <1>0, <1>5, <1>6, <1>8, <1>9, <2>1
    <3> QED  BY <1>7, <2>1, <3>1 DEF Parts
  <2>2. CASE i - Len(tried) \in 1 .. Len(hand)
    <3> DEFINE k == i - Len(tried)
    <3>1. parts[i] = hand[k]
      BY <1>0, <1>5, <1>6, <1>8, <1>9, <2>2
    <3>2. l[Len(tried) + k].name = hand[k] /\ Len(tried) + k = i
      BY <1>0, <1>10, <2>2 DEF Parts
    <3> QED  BY <3>1, <3>2
  <2>3. CASE i - Len(tried) - Len(hand) \in 1 .. Len(left)
    <3> DEFINE k == i - Len(tried) - Len(hand)
    <3>1. parts[i] = next[k]
      <4>1. k = i - Len(front) /\ ~ i <= Len(front) /\ i \in 1 .. Len(front) + Len(next)
        BY <1>0, <1>5, <1>6, <1>8, <1>10, <2>3
      <4> QED  BY <1>9, <4>1
    <3>2. l[Len(tried) + Len(hand) + k].name = left[k].name
      BY <2>3 DEF Parts
    <3>3. Len(tried) + Len(hand) + k = i
      BY <1>0, <1>10
    <3> QED  BY <1>7, <2>3, <3>1, <3>2, <3>3
  <2> QED  BY <1>0, <1>10, <2>1, <2>2, <2>3
<1>11. all = parts
  <2>1. Len(all) = Len(parts)
    BY <1>0, <1>4, <1>5, <1>6, <1>8, <1>9
  <2>2. \A i \in 1 .. Len(all) : all[i] = parts[i]
    BY <1>4, <1>7, <1>10
  <2> QED  BY <1>4, <1>9, <2>1, <2>2, SeqEqual
<1> QED  BY <1>11 DEF all, past, next, front, parts

\* Nobody but r moves.
Others(r) ==
  \A s \in Receivers : s # r =>
    /\ phase'[s] = phase[s] /\ listing'[s] = listing[s] /\ queue'[s] = queue[s]
    /\ attempts'[s] = attempts[s] /\ object'[s] = object[s]

LEMMA OthersPartitioned ==
  ASSUME NEW r \in Receivers, Others(r), Partitioned(r)',
         \A s \in Receivers : Partitioned(s)
  PROVE  \A s \in Receivers : Partitioned(s)'
BY DEF Others, Partitioned, Hand

LEMMA PartitionedStep ==
  ASSUME Polling, [PollNext]_pollVars, \A s \in Receivers : Partitioned(s)
  PROVE  \A s \in Receivers : Partitioned(s)'
<1> USE DEF Polling
<1>1. ASSUME NEW r \in Receivers, ListOut(r)
      PROVE  \A s \in Receivers : Partitioned(s)'
  <2>1. PICK l \in Listings : /\ listing' = [listing EXCEPT ![r] = l]
                              /\ queue' = [queue EXCEPT ![r] = l]
    BY <1>1 DEF ListOut
  <2>2. Others(r)
    BY <1>1, <2>1 DEF ListOut, Others, PollTypeOK, vars
  <2>3. /\ listing'[r] = l /\ queue'[r] = l /\ attempts'[r] = <<>>
        /\ phase'[r] = "polling"
    BY <1>1, <2>1 DEF ListOut, PollTypeOK
  <2>4. Partitioned(r)'
    BY <2>3, ListingsShow, FreshParts DEF Partitioned, Hand
  <2> QED  BY <2>2, <2>4, OthersPartitioned
<1>2. ASSUME NEW r \in Receivers, ReceiveNext(r)
      PROVE  \A s \in Receivers : Partitioned(s)'
  <2> DEFINE q == queue[r]
  <2>1. q # <<>> /\ q \in Seq(RemoteObject)
    BY <1>2 DEF ReceiveNext, PollTypeOK
  <2>2. /\ phase[r] = "polling" /\ phase'[r] = "receiving"
        /\ listing'[r] = listing[r] /\ attempts'[r] = attempts[r]
        /\ queue'[r] = Tail(q) /\ object'[r] = Head(q)
    BY <1>2, <2>1 DEF ReceiveNext, Begin, PollTypeOK, Typed, TypeOK
  <2>3. Others(r)
    BY <1>2 DEF ReceiveNext, Begin, Others, PollTypeOK, Typed, TypeOK
  <2>4. Parts(listing[r], attempts[r], <<>>, q)
    BY <2>2 DEF Partitioned, Hand
  <2>5. Parts(listing[r], attempts[r], <<Head(q).name>>, Tail(q))
    BY <2>1, <2>4, TakeInHand DEF PollTypeOK
  <2>6. Partitioned(r)'
    BY <2>2, <2>5 DEF Partitioned, Hand
  <2> QED  BY <2>3, <2>6, OthersPartitioned
<1>3. ASSUME NEW r \in Receivers, Receiving(r)
      PROVE  \A s \in Receivers : Partitioned(s)'
  BY <1>3, ReceiveEffect DEF Receiving, pollerVars, Partitioned, Hand
<1>4. ASSUME NEW r \in Receivers, RecordReceiveError(r) \/ Load(r) \/ LoadFails(r)
      PROVE  \A s \in Receivers : Partitioned(s)'
  <2>1. PICK result : /\ Record(r, result)
                      /\ [name |-> object[r].name, result |-> result] \in Attempt
    BY <1>4, RecordEffect
  <2> DEFINE a == [name |-> object[r].name, result |-> result]
  <2>2. /\ phase[r] = "receiving" /\ phase'[r] = "polling"
        /\ listing'[r] = listing[r] /\ queue'[r] = queue[r]
        /\ attempts'[r] = Append(attempts[r], a)
    BY <2>1 DEF Record, PollTypeOK, vars
  <2>3. Others(r)
    BY <2>1 DEF Record, Others, PollTypeOK, vars
  <2>4. Parts(listing[r], attempts[r], <<a.name>>, queue[r])
    BY <2>2 DEF Partitioned, Hand
  <2>5. Parts(listing[r], Append(attempts[r], a), <<>>, queue[r])
    <3> HIDE DEF a
    <3> QED  BY <2>1, <2>4, LayAside DEF PollTypeOK, a
  <2>6. Partitioned(r)'
    BY <2>2, <2>5 DEF Partitioned, Hand
  <2> QED  BY <2>3, <2>6, OthersPartitioned
<1>5. ASSUME NEW r \in Receivers, ReturnAttempts(r)
      PROVE  \A s \in Receivers : Partitioned(s)'
  BY <1>5 DEF ReturnAttempts, vars, Partitioned, Hand, PollTypeOK
<1>6. ASSUME NEW r \in Receivers, CrashPoll(r)
      PROVE  \A s \in Receivers : Partitioned(s)'
  <2>1. Others(r) /\ phase'[r] = "resting"
        /\ listing'[r] = <<>> /\ queue'[r] = <<>> /\ attempts'[r] = <<>>
    BY <1>6 DEF CrashPoll, Crash, ForgetPoll, Others, Typed, TypeOK
  <2>2. Partitioned(r)'
    BY <2>1, NoParts DEF Partitioned, Hand
  <2> QED  BY <2>1, <2>2, OthersPartitioned
<1>7. ASSUME NEW r \in Receivers, StartPoller(r)
      PROVE  \A s \in Receivers : Partitioned(s)'
  BY <1>7 DEF StartPoller, Start, pollerVars, Partitioned, Hand
<1>8. CASE PostOut
  BY <1>8 DEF PostOut, Post, localVars, pollerVars, Partitioned, Hand
<1>9. CASE PowerLossPoll
  <2>1. \A s \in Receivers : /\ phase'[s] = "resting" /\ listing'[s] = <<>>
                             /\ queue'[s] = <<>> /\ attempts'[s] = <<>>
    BY <1>9 DEF PowerLossPoll, ForgetPoll
  <2> QED  BY <2>1, NoParts DEF Partitioned, Hand
<1>10. CASE UNCHANGED pollVars
  BY <1>10 DEF pollVars, pollerVars, vars, Partitioned, Hand
<1> QED
  BY <1>1, <1>2, <1>3, <1>4, <1>5, <1>6, <1>7, <1>8, <1>9, <1>10 DEF PollNext, Progress

\* One bad object does not keep a poll from the others of its listing: the
\* attempts, the object in hand and the queue are the listing.
THEOREM BadObjectsHoldNoneBack == PollSpec => []EveryObjectAttempted
<1> DEFINE Inv == Polling /\ \A s \in Receivers : Partitioned(s)
<1>1. PollInit => \A s \in Receivers : Partitioned(s)
  BY NoParts DEF PollInit, Partitioned, Hand
<1>2. Inv /\ [PollNext]_pollVars => Inv'
  BY PollingStep, PartitionedStep
<1>3. Inv => EveryObjectAttempted
  <2>1. SUFFICES ASSUME Polling, NEW r \in Receivers, Partitioned(r)
                 PROVE  [i \in DOMAIN listing[r] |-> listing[r][i].name] =
                          [i \in DOMAIN attempts[r] |-> attempts[r][i].name]
                            \o Hand(r) \o [i \in DOMAIN queue[r] |-> queue[r][i].name]
    BY DEF EveryObjectAttempted, Hand
  <2>2. /\ listing[r] \in Seq(RemoteObject) /\ queue[r] \in Seq(RemoteObject)
        /\ attempts[r] \in Seq(Attempt)
        /\ phase[r] = "receiving" => object[r].name \in Names
    BY <2>1 DEF Polling, PollTypeOK, Sensible, Typed, TypeOK, RemoteObject
  <2>3. Hand(r) \in Seq(Names)
    BY <2>2 DEF Hand
  <2> HIDE DEF Hand
  <2> QED  BY <2>1, <2>2, <2>3, PartsMakeTheWhole DEF Partitioned
<1> QED  BY <1>1, <1>2, <1>3, PollingInit, PTL DEF PollSpec

-----------------------------------------------------------------------------
(* What a poll returns *)

\* r received n in its poll: its deletion succeeded.
Holds(r, n) ==
  \/ /\ phase[r] # "resting"
     /\ \E i \in DOMAIN attempts[r] : attempts[r][i] = [name |-> n, result |-> "Ok"]
  \/ /\ phase[r] = "receiving" /\ object[r].name = n
     /\ pc[r] \in {"returning", "idle"} /\ outcome[r] \in Received

\* n is gone from `/out` for good.
Gone(n) == remote[n] = None /\ posted[n] # {}

HandedOnce ==
  /\ \A n \in Names : handed[n] \in {0, 1} /\ (handed[n] = 1 => Gone(n))
  /\ \A r \in Receivers, n \in Names : Holds(r, n) => Gone(n) /\ handed[n] = 0
  /\ \A r, s \in Receivers, n \in Names : Holds(r, n) /\ Holds(s, n) => r = s

\* What is gone stays gone.
LEMMA GoneStays ==
  ASSUME ~NameReuse, Polling, [Next]_vars, NEW n \in Names, Gone(n)
  PROVE  Gone(n)'
<1>1. CASE UNCHANGED <<remote, posted>>
  BY <1>1 DEF Gone
<1>2. ASSUME NEW m \in Names, NEW b \in Bodies, Post(m, b)  PROVE Gone(n)'
  BY <1>2 DEF Post, Gone, Polling, Typed, TypeOK
<1>3. ASSUME NEW r \in Receivers, Delete(r) \/ DeleteFails(r)  PROVE Gone(n)'
  BY <1>3 DEF Delete, DeleteFails, Gone, Polling, Typed, TypeOK
<1> QED  BY <1>1, <1>2, <1>3, RemoteChanges

\* When nothing is newly held and nothing is handed over.
LEMMA NothingHanded ==
  ASSUME ~NameReuse, Polling, HandedOnce, [Next]_vars, handed' = handed,
         \A r \in Receivers, n \in Names : Holds(r, n)' => Holds(r, n)
  PROVE  HandedOnce'
BY GoneStays DEF HandedOnce

\* A receiver comes to hold an object when it deletes it, and only then.
LEMMA HoldsByDeleting ==
  ASSUME Polling, NEW r \in Receivers, Receiving(r), NEW s \in Receivers, NEW n \in Names,
         Holds(s, n)', ~Holds(s, n)
  PROVE  s = r /\ Delete(r) /\ object[r].name = n
<1>1. /\ UNCHANGED <<phase, attempts, object>>
      /\ phase[r] = "receiving"
  BY ReceiveEffect DEF Receiving, pollerVars, Polling
<1>2. /\ phase[s] = "receiving" /\ object[s].name = n
      /\ pc'[s] \in {"returning", "idle"} /\ outcome'[s] \in Received
      /\ ~ (pc[s] \in {"returning", "idle"} /\ outcome[s] \in Received)
  BY <1>1 DEF Holds
<1>3. s = r
  BY <1>2, ReceiveEffect DEF Receiving, Polling
<1> QED  BY <1>2, <1>3, ReceiveEffect DEF Receiving, Polling

LEMMA HandedOnceStep ==
  ASSUME ~NameReuse, Polling, HandedOnce, [PollNext]_pollVars
  PROVE  HandedOnce'
<1> USE DEF Polling
<1>1. [Next]_vars
  BY StepReceives
<1>2. ASSUME NEW r \in Receivers, ListOut(r)  PROVE HandedOnce'
  <2>1. \A s \in Receivers, n \in Names : Holds(s, n)' => Holds(s, n)
    BY <1>2 DEF ListOut, Holds, PollTypeOK, vars
  <2> QED  BY <1>1, <1>2, <2>1, NothingHanded DEF ListOut
<1>3. ASSUME NEW r \in Receivers, ReceiveNext(r)  PROVE HandedOnce'
  <2>1. \A s \in Receivers, n \in Names : Holds(s, n)' => Holds(s, n)
    <3>1. /\ phase[r] = "polling" /\ attempts' = attempts
          /\ pc'[r] = "creating" \/ outcome'[r] = "InvalidRemoteName"
          /\ \A s \in Receivers : s # r =>
               /\ phase'[s] = phase[s] /\ object'[s] = object[s]
               /\ pc'[s] = pc[s] /\ outcome'[s] = outcome[s]
      BY <1>3 DEF ReceiveNext, Begin, At, Goto, PollTypeOK, Typed, TypeOK
    <3> QED  BY <3>1 DEF Holds, Received
  <2> QED  BY <1>1, <1>3, <2>1, NothingHanded DEF ReceiveNext
<1>4. ASSUME NEW r \in Receivers, Receiving(r)  PROVE HandedOnce'
  <2>1. handed' = handed
    BY <1>4 DEF Receiving
  <2>2. CASE \A s \in Receivers, n \in Names : Holds(s, n)' => Holds(s, n)
    BY <1>1, <2>1, <2>2, NothingHanded
  <2>3. ASSUME NEW s \in Receivers, NEW n \in Names, Holds(s, n)', ~Holds(s, n)
        PROVE  HandedOnce'
    <3>1. s = r /\ Delete(r) /\ object[r].name = n
      BY <1>4, <2>3, HoldsByDeleting
    <3>2. remote[n] # None /\ posted[n] # {}
      BY <3>1 DEF Delete
    <3>3. /\ handed[n] = 0 /\ \A x \in Receivers : ~Holds(x, n)
      BY <3>2 DEF HandedOnce, Gone
    <3>4. Gone(n)'
      BY <3>1, <3>2 DEF Delete, Gone, Typed, TypeOK
    <3>5. \A x \in Receivers, m \in Names : Holds(x, m)' => Holds(x, m) \/ (x = r /\ m = n)
      BY <1>4, <3>1, HoldsByDeleting
    <3> QED  BY <1>1, <2>1, <3>3, <3>4, <3>5, GoneStays DEF HandedOnce
  <2> QED  BY <2>2, <2>3
<1>5. ASSUME NEW r \in Receivers, RecordReceiveError(r) \/ Load(r) \/ LoadFails(r)
      PROVE  HandedOnce'
  <2>1. PICK result : /\ Record(r, result)
                      /\ result = "Ok" => outcome[r] \in Received
    BY <1>5, RecordEffect
  <2> DEFINE a == [name |-> object[r].name, result |-> result]
  <2>2. /\ phase[r] = "receiving" /\ pc[r] = "idle" /\ phase'[r] = "polling"
        /\ UNCHANGED <<pc, object, outcome>> /\ attempts'[r] = Append(attempts[r], a)
        /\ \A s \in Receivers : s # r => phase'[s] = phase[s] /\ attempts'[s] = attempts[s]
    BY <2>1 DEF Record, PollTypeOK, vars, At
  <2>3. \A i \in DOMAIN Append(attempts[r], a) :
          \/ i \in DOMAIN attempts[r] /\ Append(attempts[r], a)[i] = attempts[r][i]
          \/ Append(attempts[r], a)[i] = a
    <3> HIDE DEF a
    <3> QED  BY DEF PollTypeOK
  <2>4. ASSUME NEW n \in Names, Holds(r, n)'  PROVE Holds(r, n)
    <3>1. PICK i \in DOMAIN Append(attempts[r], a) :
            Append(attempts[r], a)[i] = [name |-> n, result |-> "Ok"]
      BY <2>2, <2>4 DEF Holds
    <3>2. CASE a = [name |-> n, result |-> "Ok"]
      BY <2>1, <2>2, <3>2 DEF Holds
    <3>3. CASE a # [name |-> n, result |-> "Ok"]
      BY <2>2, <2>3, <3>1, <3>3 DEF Holds
    <3> QED  BY <3>2, <3>3
  <2>5. \A s \in Receivers, n \in Names : Holds(s, n)' => Holds(s, n)
    BY <2>2, <2>4 DEF Holds
  <2> QED  BY <1>1, <2>1, <2>5, NothingHanded DEF Record
<1>6. ASSUME NEW r \in Receivers, ReturnAttempts(r)  PROVE HandedOnce'
  <2>1. /\ phase[r] = "polling" /\ phase'[r] = "resting"
        /\ UNCHANGED <<remote, posted, attempts, object, pc, outcome>>
        /\ \A s \in Receivers : s # r => phase'[s] = phase[s]
    BY <1>6 DEF ReturnAttempts, vars, PollTypeOK
  <2>2. \A s \in Receivers, n \in Names : Holds(s, n)' => Holds(s, n) /\ s # r
    BY <2>1 DEF Holds
  <2>3. \A n \in Names : n \in Succeeded(r) => Holds(r, n)
    <3> SUFFICES ASSUME NEW n \in Names, n \in Succeeded(r)
                 PROVE  Holds(r, n)
      OBVIOUS
    <3>1. PICK i \in DOMAIN attempts[r] : attempts[r][i].name = n /\ attempts[r][i].result = "Ok"
      BY DEF Succeeded, Range
    <3>2. attempts[r][i] \in Attempt
      BY <3>1 DEF PollTypeOK
    <3>3. attempts[r][i] = [name |-> n, result |-> "Ok"]
      BY <3>1, <3>2 DEF Attempt
    <3> QED  BY <2>1, <3>3 DEF Holds
  <2>4. \A n \in Names : \/ handed'[n] = handed[n]
                         \/ handed'[n] = handed[n] + 1 /\ Holds(r, n)
    BY <1>6, <2>3 DEF ReturnAttempts
  <2> QED  BY <2>1, <2>2, <2>4 DEF HandedOnce, Gone
<1>7. ASSUME NEW r \in Receivers, CrashPoll(r)  PROVE HandedOnce'
  <2>1. \A s \in Receivers, n \in Names : Holds(s, n)' => Holds(s, n)
    BY <1>7 DEF CrashPoll, Crash, ForgetPoll, Goto, Holds, Typed, TypeOK
  <2> QED  BY <1>1, <1>7, <2>1, NothingHanded DEF CrashPoll, ForgetPoll
<1>8. ASSUME NEW r \in Receivers, StartPoller(r)  PROVE HandedOnce'
  <2>1. \A s \in Receivers, n \in Names : Holds(s, n)' => Holds(s, n)
    BY <1>8 DEF StartPoller, Start, At, Goto, pollerVars, Holds, Sensible, Typed, TypeOK
  <2> QED  BY <1>1, <1>8, <2>1, NothingHanded DEF StartPoller
<1>9. CASE PostOut
  <2>1. \A s \in Receivers, n \in Names : Holds(s, n)' => Holds(s, n)
    BY <1>9 DEF PostOut, Post, localVars, pollerVars, Holds
  <2> QED  BY <1>1, <1>9, <2>1, NothingHanded DEF PostOut
<1>10. CASE PowerLossPoll
  <2>1. \A s \in Receivers, n \in Names : Holds(s, n)' => Holds(s, n)
    BY <1>10 DEF PowerLossPoll, ForgetPoll, Holds
  <2> QED  BY <1>1, <1>10, <2>1, NothingHanded DEF PowerLossPoll, ForgetPoll
<1>11. CASE UNCHANGED pollVars
  <2>1. \A s \in Receivers, n \in Names : Holds(s, n)' => Holds(s, n)
    BY <1>11 DEF pollVars, pollerVars, vars, Holds
  <2> QED  BY <1>1, <1>11, <2>1, NothingHanded DEF pollVars
<1> QED
  BY <1>2, <1>3, <1>4, <1>5, <1>6, <1>7, <1>8, <1>9, <1>10, <1>11 DEF PollNext, Progress

LEMMA HandedOnceInit == PollInit => HandedOnce
BY DEF PollInit, Init, HandedOnce, Holds

\* When names are used once, a record is returned at most once, by whichever
\* poller and through any crash: only one deletion of an object succeeds.
THEOREM RecordsHandedOnce == ~NameReuse => (PollSpec => []HandedAtMostOnce)
<1> SUFFICES ASSUME ~NameReuse  PROVE PollSpec => []HandedAtMostOnce
  OBVIOUS
<1>1. Polling /\ HandedOnce /\ [PollNext]_pollVars => HandedOnce'
  BY HandedOnceStep
<1>2. HandedOnce => HandedAtMostOnce
  BY DEF HandedOnce, HandedAtMostOnce
<1> QED  BY <1>1, <1>2, HandedOnceInit, PollInvariant, PTL DEF PollSpec

-----------------------------------------------------------------------------
(* What was returned is saved *)

Parsed(n) == \E b \in posted[n] : Parses(n, b)

LoadedOk(r, n) ==
  /\ phase[r] # "resting"
  /\ \E i \in DOMAIN attempts[r] : attempts[r][i] = [name |-> n, result |-> "Ok"]

HandedParsed ==
  \A n \in Names :
    /\ handed[n] > 0 => Parsed(n)
    /\ \A r \in Receivers : LoadedOk(r, n) => Parsed(n)

LEMMA ParsedStays ==
  ASSUME Polling, [Next]_vars, NEW n \in Names, Parsed(n)
  PROVE  Parsed(n)'
BY PostedGrows DEF Parsed, Parses, Polling

\* When nothing was loaded and nothing is handed over.
LEMMA NothingLoaded ==
  ASSUME Polling, HandedParsed, [Next]_vars, handed' = handed,
         \A r \in Receivers, n \in Names : LoadedOk(r, n)' => LoadedOk(r, n)
  PROVE  HandedParsed'
BY ParsedStays DEF HandedParsed

LEMMA HandedParsedStep ==
  ASSUME Polling, HandedOnce, AcceptedNeverLost, HandedParsed, [PollNext]_pollVars
  PROVE  HandedParsed'
<1> USE DEF Polling
<1>1. [Next]_vars
  BY StepReceives
<1>2. ASSUME NEW r \in Receivers,
             ListOut(r) \/ ReceiveNext(r) \/ Receiving(r) \/ CrashPoll(r) \/ StartPoller(r)
      PROVE  HandedParsed'
  <2>1. handed' = handed
    BY <1>2 DEF ListOut, ReceiveNext, Receiving, CrashPoll, ForgetPoll, StartPoller
  <2>2. \A s \in Receivers, n \in Names : LoadedOk(s, n)' => LoadedOk(s, n)
    BY <1>2 DEF ListOut, ReceiveNext, Receiving, CrashPoll, ForgetPoll, StartPoller,
                pollerVars, LoadedOk, PollTypeOK
  <2> QED  BY <1>1, <2>1, <2>2, NothingLoaded
<1>3. ASSUME NEW r \in Receivers, RecordReceiveError(r) \/ Load(r) \/ LoadFails(r)
      PROVE  HandedParsed'
  <2> DEFINE name == object[r].name
  <2>1. PICK result : /\ Record(r, result)
                      /\ result = "Ok" => /\ outcome[r] \in Received
                                          /\ Parses(name, inbox[name].body)
    BY <1>3, RecordEffect
  <2> DEFINE a == [name |-> name, result |-> result]
  <2>2. /\ phase[r] = "receiving" /\ pc[r] = "idle" /\ phase'[r] = "polling"
        /\ UNCHANGED <<posted, handed>> /\ attempts'[r] = Append(attempts[r], a)
        /\ \A s \in Receivers : s # r => phase'[s] = phase[s] /\ attempts'[s] = attempts[s]
    BY <2>1 DEF Record, PollTypeOK, vars, At
  <2>3. \A i \in DOMAIN Append(attempts[r], a) :
          \/ i \in DOMAIN attempts[r] /\ Append(attempts[r], a)[i] = attempts[r][i]
          \/ Append(attempts[r], a)[i] = a
    <3> HIDE DEF a
    <3> QED  BY DEF PollTypeOK
  <2>4. result = "Ok" => Parsed(name)
    <3>1. SUFFICES ASSUME result = "Ok"  PROVE Parsed(name)
      OBVIOUS
    <3>2. name \in Names
      BY <2>2 DEF Sensible, Typed, TypeOK, RemoteObject
    <3>3. Gone(name)
      BY <2>1, <2>2, <3>1, <3>2 DEF HandedOnce, Holds
    <3>4. PICK b \in posted[name] : TRUE
      BY <3>3 DEF Gone
    <3>5. IsCopy(inbox[name], b)
      <4>1. b \in Bodies
        BY <3>2 DEF Typed, TypeOK
      <4> QED  BY <3>2, <3>3, <3>4, <4>1, ConstantsAssumption DEF AcceptedNeverLost, Gone
    <3>6. inbox[name].body = b
      BY <3>5 DEF IsCopy
    <3> QED  BY <2>1, <3>1, <3>6 DEF Parsed
  <2>5. ASSUME NEW n \in Names, LoadedOk(r, n)'  PROVE LoadedOk(r, n) \/ Parsed(n)
    <3>1. PICK i \in DOMAIN Append(attempts[r], a) :
            Append(attempts[r], a)[i] = [name |-> n, result |-> "Ok"]
      BY <2>2, <2>5 DEF LoadedOk
    <3>2. CASE a = [name |-> n, result |-> "Ok"]
      BY <2>4, <3>2
    <3>3. CASE a # [name |-> n, result |-> "Ok"]
      BY <2>2, <2>3, <3>1, <3>3 DEF LoadedOk
    <3> QED  BY <3>2, <3>3
  <2>6. \A s \in Receivers, n \in Names : LoadedOk(s, n)' => LoadedOk(s, n) \/ Parsed(n)
    BY <2>2, <2>5 DEF LoadedOk
  <2>7. \A n \in Names : Parsed(n)' = Parsed(n)
    BY <2>2 DEF Parsed, Parses
  <2> QED  BY <2>2, <2>6, <2>7 DEF HandedParsed
<1>4. ASSUME NEW r \in Receivers, ReturnAttempts(r)  PROVE HandedParsed'
  <2>1. /\ phase[r] = "polling"
        /\ UNCHANGED <<posted, attempts>>
        /\ \A s \in Receivers : phase'[s] \in {phase[s], "resting"}
    BY <1>4 DEF ReturnAttempts, vars, PollTypeOK
  <2>2. \A n \in Names : n \in Succeeded(r) => LoadedOk(r, n)
    <3> SUFFICES ASSUME NEW n \in Names, n \in Succeeded(r)
                 PROVE  LoadedOk(r, n)
      OBVIOUS
    <3>1. PICK i \in DOMAIN attempts[r] : attempts[r][i].name = n /\ attempts[r][i].result = "Ok"
      BY DEF Succeeded, Range
    <3>2. attempts[r][i] \in Attempt
      BY <3>1 DEF PollTypeOK
    <3>3. attempts[r][i] = [name |-> n, result |-> "Ok"]
      BY <3>1, <3>2 DEF Attempt
    <3> QED  BY <2>1, <3>3 DEF LoadedOk
  <2>3. \A n \in Names : handed'[n] = handed[n] \/ LoadedOk(r, n)
    BY <1>4, <2>2 DEF ReturnAttempts
  <2>4. \A s \in Receivers, n \in Names : LoadedOk(s, n)' => LoadedOk(s, n)
    BY <2>1 DEF LoadedOk
  <2>5. \A n \in Names : Parsed(n)' = Parsed(n)
    BY <2>1 DEF Parsed, Parses
  <2> QED  BY <2>3, <2>4, <2>5 DEF HandedParsed
<1>5. CASE PostOut
  BY <1>1, <1>5, NothingLoaded DEF PostOut, pollerVars, LoadedOk
<1>6. CASE PowerLossPoll
  BY <1>1, <1>6, NothingLoaded DEF PowerLossPoll, ForgetPoll, LoadedOk
<1>7. CASE UNCHANGED pollVars
  BY <1>1, <1>7, NothingLoaded DEF pollVars, pollerVars, LoadedOk
<1> QED
  BY <1>2, <1>3, <1>4, <1>5, <1>6, <1>7 DEF PollNext, Progress

\* When names are used once and the machine keeps its power, what a poll
\* returned as received is gone from `/out` and stands, whole and parsed, in
\* the inbox.
THEOREM RecordsHandedAreSaved ==
  ~NameReuse /\ ~PowerMayFail => (PollSpec => []HandedIsSaved)
<1> SUFFICES ASSUME ~NameReuse, ~PowerMayFail
             PROVE  PollSpec => []HandedIsSaved
  OBVIOUS
<1>1. PollInit => HandedParsed
  BY DEF PollInit, HandedParsed, LoadedOk
<1>2. Polling /\ HandedOnce /\ AcceptedNeverLost /\ HandedParsed /\ [PollNext]_pollVars
        => HandedParsed'
  BY HandedParsedStep
<1>3. Polling /\ HandedOnce /\ [PollNext]_pollVars => HandedOnce'
  BY HandedOnceStep
<1>4. Polling /\ HandedOnce /\ AcceptedNeverLost /\ HandedParsed => HandedIsSaved
  <2>1. SUFFICES ASSUME Polling, HandedOnce, AcceptedNeverLost, HandedParsed,
                        NEW n \in Names, handed[n] > 0
                 PROVE  /\ remote[n] = None
                        /\ \E b \in posted[n] : IsCopy(inbox[n], b) /\ Parses(n, b)
    BY DEF HandedIsSaved
  <2>2. remote[n] = None
    BY <2>1 DEF HandedOnce, Gone
  <2>3. PICK b \in posted[n] : Parses(n, b)
    BY <2>1 DEF HandedParsed, Parsed
  <2>4. b # None
    BY <2>1, ConstantsAssumption DEF Polling, Typed, TypeOK
  <2> QED  BY <2>1, <2>2, <2>3, <2>4 DEF AcceptedNeverLost
<1>5. PollSpec => []AcceptedNeverLost
  BY PollsAreReceives, NothingLost
<1> QED  BY <1>1, <1>2, <1>3, <1>4, <1>5, HandedOnceInit, PollInvariant, PTL DEF PollSpec
=============================================================================
