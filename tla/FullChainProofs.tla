--------------------------- MODULE FullChainProofs ---------------------------
(***************************************************************************)
(* Theorems about FullChain, for any requests, results, limits, servers,   *)
(* keys and addresses.  The last of them, about what the platform reads,   *)
(* rest on what the XML of an invoice and of an envelope show to a reader. *)
(***************************************************************************)
EXTENDS FullChain, ReadBackProofs, FiniteSetTheorems

-----------------------------------------------------------------------------
(* Secrets *)

\* A session that is past the host key talks to one server, which showed a
\* key from the file.
Verified ==
  /\ \A s, t \in server : s = t
  /\ link \in {"authenticating", "open"} => \A s \in server : HostKey[s] \in KnownKeys
  /\ SecretsToKnownHost

\* check_port answers Match for keys of the file only.
LEMMA MatchIsKnown ==
  ASSUME NEW key, CheckPort(key) = "Match"
  PROVE  key \in KnownKeys
BY DEF CheckPort

\* A step of a session keeps what is known of the key of its server.
LEMMA SessionKeepsVerified ==
  ASSUME Verified, ConnectSession
  PROVE  Verified'
<1> USE DEF Verified, SecretsToKnownHost
<1>1. CASE NoAddress
  BY <1>1 DEF NoAddress, Fail
<1>2. CASE AddressRefused
  BY <1>2 DEF AddressRefused
<1>3. CASE Connect
  BY <1>3 DEF Connect
<1>4. CASE Handshake
  BY <1>4 DEF Handshake
<1>5. CASE VerifyHostKey
  BY <1>5, MatchIsKnown DEF VerifyHostKey, Fail
<1>6. CASE Authenticate
  BY <1>6 DEF Authenticate, Fail
<1>7. CASE SessionFails
  BY <1>7 DEF SessionFails, Fail
<1> QED  BY <1>1, <1>2, <1>3, <1>4, <1>5, <1>6, <1>7 DEF ConnectSession

\* What the rest of a chain does to its sessions: open one, close it, or
\* nothing.
LEMMA StepsOfSessions ==
  ASSUME [Next]_vars
  PROVE  \/ ConnectSession \/ Close
         \/ \E r \in Resolved : Resolve(r)
         \/ UNCHANGED sessionVars
<1>1. CASE ComposeInvoice  BY <1>1 DEF ComposeInvoice
<1>2. CASE PackageByCli    BY <1>2 DEF PackageByCli
<1>3. CASE PackageByClient BY <1>3 DEF PackageByClient
<1>4. CASE ReadFails       BY <1>4 DEF ReadFails
<1>5. CASE BeginUpload     BY <1>5 DEF BeginUpload
<1>6. CASE InSession       BY <1>6 DEF InSession
<1>7. CASE Upload          BY <1>7 DEF Upload
<1>8. CASE Notify          BY <1>8 DEF Notify
<1>9. CASE PlatformAnswers BY <1>9 DEF PlatformAnswers
<1>10. CASE BeginDownload  BY <1>10 DEF BeginDownload
<1>11. CASE Download       BY <1>11 DEF Download
<1>12. CASE UNCHANGED vars BY <1>12 DEF vars
<1> QED
  BY <1>1, <1>2, <1>3, <1>4, <1>5, <1>6, <1>7, <1>8, <1>9, <1>10, <1>11, <1>12 DEF Next

\* The password only ever goes to servers that showed a key from the
\* known_hosts file (connect_session of sftp.rs), in uploads and downloads,
\* whatever the host resolves to and wherever a session fails.
THEOREM PasswordStaysHome == Spec => []SecretsToKnownHost
<1>1. Init => Verified
  BY DEF Init, SessionInit, Verified, SecretsToKnownHost
<1>2. Verified /\ [Next]_vars => Verified'
  <2> SUFFICES ASSUME Verified, [Next]_vars  PROVE Verified'
    OBVIOUS
  <2>1. CASE ConnectSession
    BY <2>1, SessionKeepsVerified
  <2>2. CASE Close
    BY <2>2 DEF Close, Verified, SecretsToKnownHost
  <2>3. ASSUME NEW r, Resolve(r)  PROVE Verified'
    BY <2>3 DEF Resolve, Verified, SecretsToKnownHost
  <2>4. CASE UNCHANGED sessionVars
    BY <2>4 DEF sessionVars, Verified, SecretsToKnownHost
  <2> QED  BY <2>1, <2>2, <2>3, <2>4, StepsOfSessions
<1>3. Verified => SecretsToKnownHost
  BY DEF Verified
<1> QED  BY <1>1, <1>2, <1>3, PTL DEF Spec

-----------------------------------------------------------------------------
(* Types *)

\* How a chain may end.
Endings == Outcomes \ {"running"}

\* The errors that the calls of a chain return.
LEMMA ErrorsOfInvoices ==
  ASSUME NEW details
  PROVE  NewInvoice(details) \in Endings \cup {"Ok"}
BY DEF NewInvoice, Endings, Outcomes

\* What the parsers of names return is an error of names or none.
LEMMA ErrorsOfNames ==
  ASSUME NEW text
  PROVE  /\ CommonNameError(text) \in FilenameErrors \cup {"Ok"}
         /\ PackFilenameError(text) \in FilenameErrors \cup {"Ok"}
BY DEF CommonNameError, PackFilenameError, FilenameErrors

\* What the checks of envelopes return is an outcome of a chain or none.
LEMMA ErrorsOfEnvelopes ==
  ASSUME NEW payloads
  PROVE  /\ NewEnvelope(payloads) \in Endings \cup {"Ok"}
         /\ SerializeError(payloads) \in Endings \cup {"Ok"}
BY DEF NewEnvelope, SerializeError, Endings, Outcomes

\* So is what the steps up to the package return.
LEMMA ErrorsOfPackaging ==
  /\ \A name : SecretError(name, Environment) \in Endings \cup {"Ok"}
  /\ \A pfx : PfxFromDer(pfx) \in Endings \cup {"Ok"}
  /\ \A args : PlanError(args) \in Endings \cup {"Ok"}
  /\ \A parts : FromPartsError(parts) \in Endings \cup {"Ok"}
  /\ \A plan : PrepareError(plan) \in Endings \cup {"Ok"}
<1>1. \A name : SecretError(name, Environment) \in Endings \cup {"Ok"}
  BY DEF SecretError, Endings, Outcomes
<1>2. \A pfx : PfxFromDer(pfx) \in Endings \cup {"Ok"}
  BY DEF PfxFromDer, Endings, Outcomes
<1>3. FilenameErrors \subseteq Endings /\ PrepareErrors \subseteq Endings
  BY DEF Endings, Outcomes, FilenameErrors, PrepareErrors
<1>4. \A args : PlanError(args) \in Endings \cup {"Ok"}
  BY <1>3, ErrorsOfNames, ErrorsOfEnvelopes DEF PlanError
<1>5. \A parts : FromPartsError(parts) \in Endings \cup {"Ok"}
  BY <1>3, ErrorsOfNames DEF FromPartsError
<1>6. \A plan : ValidatePlan(plan) \in PrepareErrors \cup {"Ok"}
  BY DEF ValidatePlan, PrepareErrors
<1>7. \A plan : PrepareError(plan) \in Endings \cup {"Ok"}
  BY <1>3, <1>6, ErrorsOfEnvelopes DEF PrepareError
<1> QED  BY <1>1, <1>2, <1>4, <1>5, <1>7

\* So is what the upload, the notification and the parsing of results return.
LEMMA ErrorsOfTransport ==
  /\ \A p : UploadError(p) \in Endings \cup {"Ok"}
  /\ \A n : EncodeError(n) \in Endings \cup {"Ok"}
  /\ \A kind, tokens : ParseError(kind, tokens) \in Endings \cup {"Ok"}
<1>1. \A p : UploadError(p) \in Endings \cup {"Ok"}
  BY DEF UploadError, Endings, Outcomes
<1>2. \A n : EncodeError(n) \in Endings \cup {"Ok"}
  BY DEF EncodeError, Endings, Outcomes
<1>3. \A kind, tokens : ParseError(kind, tokens) \in Endings \cup {"Ok"}
  BY DEF ParseError, Endings, Outcomes
<1> QED  BY <1>1, <1>2, <1>3

\* Every variable but the session's holds at most one value.
AtMostOne(S) == S = {} \/ \E x : S = {x}

Shape ==
  /\ stage \in Stages
  /\ outcome \in Outcomes
  /\ (stage = "done") = (outcome # "running")
  /\ AtMostOne(payload) /\ AtMostOne(prepared) /\ AtMostOne(inbound)
  /\ AtMostOne(wire) /\ AtMostOne(verdict) /\ AtMostOne(parsed)

\* The shape that is proved invariant contains the type invariant.
LEMMA ShapeIsType == Shape /\ SessionTypeOK => TypeOK
<1>1. \A S : AtMostOne(S) => Cardinality(S) <= 1
  BY FS_EmptySet, FS_Singleton DEF AtMostOne
<1> QED  BY <1>1 DEF Shape, TypeOK

\* A chain that stops has an outcome.
LEMMA StopKeeps ==
  ASSUME NEW reason \in Endings, Stop(reason)
  PROVE  /\ stage' \in Stages /\ outcome' \in Outcomes
         /\ (stage' = "done") = (outcome' # "running")
BY DEF Stop, Stages, Endings

\* A chain that goes on has none.
LEMMA ContinueKeeps ==
  ASSUME Shape, stage # "done", NEW next \in Stages \ {"done"}, Continue(next)
  PROVE  /\ stage' \in Stages /\ outcome' \in Outcomes
         /\ (stage' = "done") = (outcome' # "running")
BY DEF Continue, Shape

\* A session that fails has a failure and keeps the types.
LEMMA FailKeepsType ==
  ASSUME SessionTypeOK, NEW error \in Failures, Fail(error), told' \subseteq Servers
  PROVE  SessionTypeOK' /\ failure' \in Failures
BY DEF SessionTypeOK, Fail, Links

\* Every step of a session keeps the types.
LEMMA SessionKeepsType ==
  ASSUME SessionTypeOK, ConnectSession
  PROVE  SessionTypeOK' /\ failure' \in Failures
<1>1. CASE NoAddress
  <2>1. Fail("Io") /\ told' \subseteq Servers
    BY <1>1 DEF NoAddress, SessionTypeOK
  <2> QED  BY <2>1, FailKeepsType DEF Failures
<1>2. CASE AddressRefused
  BY <1>2 DEF AddressRefused, SessionTypeOK
<1>3. CASE Connect
  BY <1>3 DEF Connect, SessionTypeOK, Links
<1>4. CASE Handshake
  BY <1>4 DEF Handshake, SessionTypeOK, Links
<1>5. CASE VerifyHostKey
  <2>1. PICK s \in server :
          \/ link' = "authenticating" /\ UNCHANGED <<addresses, server, failure>>
          \/ CheckPort(HostKey[s]) # "Match" /\ Fail(CheckPort(HostKey[s]))
    BY <1>5 DEF VerifyHostKey
  <2>2. told' \subseteq Servers
    BY <1>5 DEF VerifyHostKey, SessionTypeOK
  <2>3. CASE link' = "authenticating" /\ UNCHANGED <<addresses, server, failure>>
    BY <2>2, <2>3 DEF SessionTypeOK, Links
  <2>4. CASE CheckPort(HostKey[s]) # "Match" /\ Fail(CheckPort(HostKey[s]))
    <3>1. CheckPort(HostKey[s]) \in Failures
      BY <2>4 DEF CheckPort, Failures
    <3> QED  BY <2>2, <2>4, <3>1, FailKeepsType
  <2> QED  BY <2>1, <2>3, <2>4
<1>6. CASE Authenticate
  <2>1. told' \subseteq Servers
    BY <1>6 DEF Authenticate, SessionTypeOK
  <2>2. CASE link' = "open" /\ UNCHANGED <<addresses, server, failure>>
    BY <2>1, <2>2 DEF SessionTypeOK, Links
  <2>3. CASE Fail("AuthenticationFailed")
    BY <2>1, <2>3, FailKeepsType DEF Failures
  <2> QED  BY <1>6, <2>2, <2>3 DEF Authenticate
<1>7. CASE SessionFails
  <2>1. told' \subseteq Servers
    BY <1>7 DEF SessionFails, SessionTypeOK
  <2>2. \E error \in {"Ssh", "Io", "HostKeyCheckFailed"} : Fail(error)
    BY <1>7 DEF SessionFails
  <2> QED  BY <2>1, <2>2, FailKeepsType DEF Failures
<1> QED  BY <1>1, <1>2, <1>3, <1>4, <1>5, <1>6, <1>7 DEF ConnectSession

\* The part of the shape that Stop and Continue are about.
Ended == /\ stage \in Stages /\ outcome \in Outcomes
         /\ (stage = "done") = (outcome # "running")

\* Every step of a chain keeps the shape of its variables.
LEMMA ChainKeepsShape ==
  ASSUME Shape, SessionTypeOK, Next
  PROVE  Shape'
<1> USE DEF Shape, AtMostOne
<1> DEFINE Kept(S, T) == T = S \/ \E x : T = {x}
<1>1. CASE ComposeInvoice
  <2>1. /\ Kept(payload, payload')
        /\ UNCHANGED <<prepared, inbound, wire, verdict, parsed>>
    BY <1>1 DEF ComposeInvoice
  <2>2. /\ stage = "invoice"
        /\ \/ \E reason \in Endings : Stop(reason)
           \/ Continue("package")
    BY <1>1, ErrorsOfInvoices DEF ComposeInvoice, Endings, Outcomes
  <2>3. Ended'
    BY <2>2, StopKeeps, ContinueKeeps DEF Stages, Ended
  <2> QED  BY <2>1, <2>3 DEF Ended
<1>2. ASSUME NEW plan, Packaged(plan)
      PROVE  /\ Kept(prepared, prepared')
             /\ (\E reason \in Endings : Stop(reason)) \/ Continue("upload")
  BY <1>2, ErrorsOfPackaging DEF Packaged
<1>3. CASE PackageByCli
  <2>1. /\ Kept(prepared, prepared')
        /\ UNCHANGED <<payload, inbound, wire, verdict, parsed>>
    BY <1>2, <1>3 DEF PackageByCli
  <2>2. /\ stage = "package"
        /\ (\E reason \in Endings : Stop(reason)) \/ Continue("upload")
    BY <1>2, <1>3, ErrorsOfPackaging DEF PackageByCli
  <2>3. Ended'
    BY <2>2, StopKeeps, ContinueKeeps DEF Stages, Ended
  <2> QED  BY <2>1, <2>3 DEF Ended
<1>4. CASE PackageByClient
  <2>1. /\ Kept(prepared, prepared')
        /\ UNCHANGED <<payload, inbound, wire, verdict, parsed>>
    BY <1>2, <1>4 DEF PackageByClient
  <2>2. /\ stage = "package"
        /\ (\E reason \in Endings : Stop(reason)) \/ Continue("upload")
    BY <1>2, <1>4, ErrorsOfPackaging, ErrorsOfEnvelopes DEF PackageByClient
  <2>3. Ended'
    BY <2>2, StopKeeps, ContinueKeeps DEF Stages, Ended
  <2> QED  BY <2>1, <2>3 DEF Ended
<1>5. CASE ReadFails
  <2>1. "Io" \in Endings
    BY DEF Endings, Outcomes
  <2>2. Ended'
    BY <1>5, <2>1, StopKeeps DEF ReadFails, Ended
  <2> QED  BY <1>5, <2>2 DEF ReadFails, Ended
<1>6. CASE BeginUpload
  <2>1. \/ \E reason \in Endings : Stop(reason)
        \/ UNCHANGED <<stage, outcome>>
    BY <1>6, ErrorsOfTransport DEF BeginUpload
  <2>2. Ended'
    BY <2>1, StopKeeps DEF Ended
  <2> QED  BY <1>6, <2>2 DEF BeginUpload, Ended
<1>7. CASE InSession
  <2>1. failure' \in Failures
    BY <1>7, SessionKeepsType DEF InSession
  <2>2. failure' # "none" => failure' \in Endings
    BY <2>1 DEF Endings, Outcomes, Failures
  <2>3. Ended'
    BY <1>7, <2>2, StopKeeps DEF InSession, Ended
  <2> QED  BY <1>7, <2>3 DEF InSession, Ended
<1>8. CASE Upload
  <2>1. stage = "upload" /\ Continue("notify")
    BY <1>8 DEF Upload
  <2>2. Ended'
    BY <2>1, ContinueKeeps DEF Stages, Ended
  <2> QED  BY <1>8, <2>2 DEF Upload, Ended
<1>9. CASE Notify
  <2>1. /\ stage = "notify"
        /\ (\E reason \in Endings : Stop(reason)) \/ Continue("platform")
    BY <1>9, ErrorsOfTransport DEF Notify, Endings, Outcomes
  <2>2. Ended'
    BY <2>1, StopKeeps, ContinueKeeps DEF Stages, Ended
  <2>3. Kept(wire, wire') /\ UNCHANGED <<payload, prepared, inbound, verdict, parsed>>
    BY <1>9 DEF Notify
  <2> QED  BY <2>2, <2>3 DEF Ended
<1>10. CASE PlatformAnswers
  <2>1. stage = "platform" /\ Continue("download")
    BY <1>10 DEF PlatformAnswers
  <2>2. Ended'
    BY <2>1, ContinueKeeps DEF Stages, Ended
  <2> QED  BY <1>10, <2>2 DEF PlatformAnswers, Ended
<1>11. CASE BeginDownload
  BY <1>11 DEF BeginDownload, chainVars
<1>12. CASE Download
  <2>1. \E reason \in Endings : Stop(reason)
    BY <1>12, ErrorsOfTransport DEF Download, Endings, Outcomes
  <2>2. Ended'
    BY <2>1, StopKeeps DEF Ended
  <2>3. Kept(parsed, parsed') /\ UNCHANGED <<payload, prepared, inbound, wire, verdict>>
    BY <1>12 DEF Download
  <2> QED  BY <2>2, <2>3 DEF Ended
<1> QED
  BY <1>1, <1>3, <1>4, <1>5, <1>6, <1>7, <1>8, <1>9, <1>10, <1>11, <1>12 DEF Next

\* What every step of a chain keeps of its types.
LEMMA TypesKept == Shape /\ SessionTypeOK /\ [Next]_vars => (Shape /\ SessionTypeOK)'
<1> SUFFICES ASSUME Shape, SessionTypeOK, [Next]_vars
             PROVE  Shape' /\ SessionTypeOK'
  OBVIOUS
<1>1. Shape'
  <2>1. CASE UNCHANGED vars
    BY <2>1 DEF vars, chainVars, Shape, AtMostOne
  <2> QED  BY <2>1, ChainKeepsShape
<1>2. CASE ConnectSession
  BY <1>1, <1>2, SessionKeepsType
<1>3. CASE Close
  BY <1>1, <1>3 DEF Close, SessionTypeOK, Links
<1>4. ASSUME NEW r \in Resolved, Resolve(r)  PROVE SessionTypeOK'
  BY <1>4, ChainAssumption DEF Resolve, SessionTypeOK, Links, Failures
<1>5. CASE UNCHANGED sessionVars
  BY <1>1, <1>5 DEF sessionVars, SessionTypeOK
<1> QED  BY <1>1, <1>2, <1>3, <1>4, <1>5, StepsOfSessions

\* Type correctness: whatever is asked for, a chain ends with one of the
\* errors that its calls document, or with a result, and holds one value of
\* each kind at most.
THEOREM TypeCorrect == Spec => []TypeOK
<1>1. Init => Shape /\ SessionTypeOK
  BY DEF Init, SessionInit, Shape, AtMostOne, Stages, Outcomes, SessionTypeOK, Links, Failures
<1>2. Shape /\ SessionTypeOK /\ [Next]_vars => (Shape /\ SessionTypeOK)'
  BY TypesKept
<1> QED  BY <1>1, <1>2, ShapeIsType, PTL DEF Spec

-----------------------------------------------------------------------------
(* Where the parts of a chain come from *)

\* A session belongs to a call that is under way, and has not failed yet.
Busy ==
  link # "closed" =>
    /\ failure = "none" /\ stage \in {"upload", "download"}
    /\ stage = "upload" => \A p \in prepared : UploadError(p) = "Ok"

\* The issues and the XML are those of the invoice that was asked for.
Composed ==
  LET invoice == request.invoice
  IN  /\ request \in Requests
      /\ \/ stage = "invoice" /\ issues = {} /\ payload = {}
         \/ /\ stage # "invoice" /\ payload = {}
            /\ issues = UnreadableTexts(invoice) /\ issues # {}
         \/ /\ stage = "done" /\ payload = {} /\ issues = {}
            /\ outcome = NewInvoice(invoice.details) /\ outcome # "Ok"
         \/ /\ stage # "invoice" /\ UnreadableTexts(invoice) = {}
            /\ NewInvoice(invoice.details) = "Ok"
            /\ issues = Validate(invoice)
            /\ payload # {} => issues = {}

\* Every step keeps Busy.
LEMMA BusyKept ==
  ASSUME Shape, Busy, [Next]_vars
  PROVE  Busy'
<1> USE DEF Busy
<1>1. CASE ComposeInvoice
  BY <1>1 DEF ComposeInvoice, sessionVars
<1>2. CASE PackageByCli
  BY <1>2 DEF PackageByCli, sessionVars
<1>3. CASE PackageByClient
  BY <1>3 DEF PackageByClient, sessionVars
<1>4. CASE ReadFails
  BY <1>4 DEF ReadFails, sessionVars
<1>5. CASE BeginUpload
  <2>1. PICK p \in prepared :
          \/ UploadError(p) # "Ok" /\ UNCHANGED sessionVars
          \/ UploadError(p) = "Ok" /\ (\E r \in Resolved : Resolve(r)) /\ UNCHANGED <<stage, outcome>>
    BY <1>5 DEF BeginUpload
  <2>2. stage = "upload" /\ prepared' = prepared /\ prepared = {p}
    BY <1>5 DEF BeginUpload, Shape, AtMostOne
  <2>3. CASE UploadError(p) # "Ok" /\ UNCHANGED sessionVars
    BY <2>2, <2>3 DEF sessionVars
  <2>4. CASE UploadError(p) = "Ok" /\ (\E r \in Resolved : Resolve(r)) /\ UNCHANGED <<stage, outcome>>
    BY <2>2, <2>4 DEF Resolve
  <2> QED BY <2>1, <2>3, <2>4
<1>6. CASE InSession
  <2>1. link # "closed" /\ (link' = "closed" \/ failure' = failure)
    BY <1>6 DEF InSession, ConnectSession, NoAddress, AddressRefused, Connect, Handshake,
                VerifyHostKey, Authenticate, SessionFails, Fail
  <2>2. failure' = "none" => UNCHANGED <<stage, prepared>>
    BY <1>6 DEF InSession
  <2> QED BY <2>1, <2>2
<1>7. CASE Upload
  BY <1>7 DEF Upload, Close
<1>8. CASE Notify
  BY <1>8 DEF Notify, sessionVars
<1>9. CASE PlatformAnswers
  BY <1>9 DEF PlatformAnswers, sessionVars
<1>10. CASE BeginDownload
  BY <1>10 DEF BeginDownload, chainVars, Resolve
<1>11. CASE Download
  BY <1>11 DEF Download, Close
<1>12. CASE UNCHANGED vars
  BY <1>12 DEF vars, chainVars, sessionVars
<1> QED
  BY <1>1, <1>2, <1>3, <1>4, <1>5, <1>6, <1>7, <1>8, <1>9, <1>10, <1>11, <1>12 DEF Next

\* Only ComposeInvoice writes them, and a chain that has ended stays as it is.
LEMMA WhatStaysAsItIs ==
  ASSUME Busy, [Next]_vars
  PROVE  /\ request' = request
         /\ \/ ComposeInvoice
            \/ issues' = issues /\ payload' = payload /\ (stage' = "invoice") = (stage = "invoice")
         /\ stage = "done" => stage' = "done" /\ outcome' = outcome
<1>1. ASSUME NEW next \in {"package", "upload", "notify", "platform", "download", "done"},
             stage' = next
      PROVE  stage' # "invoice"
  BY <1>1
<1>2. CASE ComposeInvoice
  BY <1>2 DEF ComposeInvoice
<1>3. CASE PackageByCli
  BY <1>3 DEF PackageByCli, Packaged, Stop, Continue
<1>4. CASE PackageByClient
  BY <1>4 DEF PackageByClient, Packaged, Stop, Continue
<1>5. CASE ReadFails
  BY <1>5 DEF ReadFails, Stop
<1>6. CASE BeginUpload
  BY <1>6 DEF BeginUpload, Stop
<1>7. CASE InSession
  <2>1. link # "closed"
    BY <1>7 DEF InSession, ConnectSession, NoAddress, AddressRefused, Connect, Handshake,
                VerifyHostKey, Authenticate, SessionFails
  <2> QED BY <1>7, <2>1 DEF InSession, Stop, Busy
<1>8. CASE Upload
  BY <1>8 DEF Upload, Continue
<1>9. CASE Notify
  BY <1>9 DEF Notify, Stop, Continue
<1>10. CASE PlatformAnswers
  BY <1>10 DEF PlatformAnswers, Continue
<1>11. CASE BeginDownload
  BY <1>11 DEF BeginDownload, chainVars
<1>12. CASE Download
  BY <1>12 DEF Download, Stop
<1>13. CASE UNCHANGED vars
  BY <1>13 DEF vars, chainVars
<1> QED
  BY <1>2, <1>3, <1>4, <1>5, <1>6, <1>7, <1>8, <1>9, <1>10, <1>11, <1>12, <1>13 DEF Next

\* Every step keeps Composed.
LEMMA ComposedKept ==
  ASSUME Busy, Composed, [Next]_vars
  PROVE  Composed'
<1>1. request' = request
  BY WhatStaysAsItIs
<1>2. CASE ComposeInvoice
  BY <1>1, <1>2 DEF ComposeInvoice, Composed, Stop, Continue
<1>3. CASE ~ ComposeInvoice
  <2>1. /\ issues' = issues /\ payload' = payload /\ (stage' = "invoice") = (stage = "invoice")
        /\ stage = "done" => stage' = "done" /\ outcome' = outcome
    BY <1>3, WhatStaysAsItIs
  <2> QED BY <1>1, <2>1 DEF Composed
<1> QED BY <1>2, <1>3

-----------------------------------------------------------------------------
(* The calendar *)

\* The three terms of leap years in DayNumber.
Leaps(y) == y \div 4 - y \div 100 + y \div 400

\* A day more in a leap year.
LEMMA LeapSteps ==
  ASSUME NEW y \in Nat
  PROVE  Leaps(y + 4800) - Leaps(y + 4799) = IF IsLeapYear(y) THEN 1 ELSE 0
<1>1. (y + 4800) \div 4 - (y + 4799) \div 4 = IF y % 4 = 0 THEN 1 ELSE 0
  OBVIOUS
<1>2. (y + 4800) \div 100 - (y + 4799) \div 100 = IF y % 100 = 0 THEN 1 ELSE 0
  OBVIOUS
<1>3. (y + 4800) \div 400 - (y + 4799) \div 400 = IF y % 400 = 0 THEN 1 ELSE 0
  OBVIOUS
<1>4. (y % 400 = 0 => y % 100 = 0) /\ (y % 100 = 0 => y % 4 = 0)
  OBVIOUS
<1> DEFINE q4 == (y + 4800) \div 4      p4 == (y + 4799) \div 4
           q1 == (y + 4800) \div 100    p1 == (y + 4799) \div 100
           q0 == (y + 4800) \div 400    p0 == (y + 4799) \div 400
<1>5. q4 \in Int /\ p4 \in Int /\ q1 \in Int /\ p1 \in Int /\ q0 \in Int /\ p0 \in Int
  OBVIOUS
<1>6. Leaps(y + 4800) = q4 - q1 + q0 /\ Leaps(y + 4799) = p4 - p1 + p0
  BY DEF Leaps
<1> HIDE DEF q4, p4, q1, p1, q0, p0
<1> QED BY <1>1, <1>2, <1>3, <1>4, <1>5, <1>6 DEF IsLeapYear, q4, p4, q1, p1, q0, p0

\* The first day of every month, by the years before it.
LEMMA MonthsAdd ==
  ASSUME NEW y \in Nat
  PROVE  /\ DayNumber(y, 1, 1) = 365 * (y + 4799) + Leaps(y + 4799) + 307
         /\ DayNumber(y, 2, 1) = 365 * (y + 4799) + Leaps(y + 4799) + 338
         /\ DayNumber(y, 3, 1) = 365 * (y + 4800) + Leaps(y + 4800) + 1
         /\ DayNumber(y, 4, 1) = 365 * (y + 4800) + Leaps(y + 4800) + 32
         /\ DayNumber(y, 5, 1) = 365 * (y + 4800) + Leaps(y + 4800) + 62
         /\ DayNumber(y, 6, 1) = 365 * (y + 4800) + Leaps(y + 4800) + 93
         /\ DayNumber(y, 7, 1) = 365 * (y + 4800) + Leaps(y + 4800) + 123
         /\ DayNumber(y, 8, 1) = 365 * (y + 4800) + Leaps(y + 4800) + 154
         /\ DayNumber(y, 9, 1) = 365 * (y + 4800) + Leaps(y + 4800) + 185
         /\ DayNumber(y, 10, 1) = 365 * (y + 4800) + Leaps(y + 4800) + 215
         /\ DayNumber(y, 11, 1) = 365 * (y + 4800) + Leaps(y + 4800) + 246
         /\ DayNumber(y, 12, 1) = 365 * (y + 4800) + Leaps(y + 4800) + 276
         /\ DayNumber(y + 1, 1, 1) = 365 * (y + 4800) + Leaps(y + 4800) + 307
BY DEF DayNumber, Leaps

\* The table of is_calendar_date (primitives.rs) is the length of each month.
LEMMA CalendarOfMonths ==
  ASSUME NEW y \in Nat, NEW m \in 1 .. 12, NEW d \in Int
  PROVE  DayNumber(y, m, 1) + d - 1 <
           (IF m = 12 THEN DayNumber(y + 1, 1, 1) ELSE DayNumber(y, m + 1, 1))
         <=> d <= CASE m \in {1, 3, 5, 7, 8, 10, 12} -> 31
                    [] m \in {4, 6, 9, 11}           -> 30
                    [] m = 2 -> IF IsLeapYear(y) THEN 29 ELSE 28
<1> DEFINE a == Leaps(y + 4799)
           b == Leaps(y + 4800)
<1>1. a \in Int /\ b \in Int
  BY DEF Leaps
<1>2. b - a = IF IsLeapYear(y) THEN 1 ELSE 0
  BY LeapSteps
<1> DEFINE Days(n) == CASE n \in {1, 3, 5, 7, 8, 10, 12} -> 31
                        [] n \in {4, 6, 9, 11}           -> 30
                        [] n = 2 -> IF IsLeapYear(y) THEN 29 ELSE 28
           Next1(n) == IF n = 12 THEN DayNumber(y + 1, 1, 1) ELSE DayNumber(y, n + 1, 1)
<1>3. /\ Days(1) = 31 /\ Days(3) = 31 /\ Days(5) = 31 /\ Days(7) = 31 /\ Days(8) = 31
      /\ Days(10) = 31 /\ Days(12) = 31 /\ Days(4) = 30 /\ Days(6) = 30 /\ Days(9) = 30
      /\ Days(11) = 30 /\ Days(2) = IF IsLeapYear(y) THEN 29 ELSE 28
  OBVIOUS
<1> DEFINE Far == 365 * (y + 4799)
           Near == 365 * (y + 4800)
<1>6. Far \in Int /\ Near \in Int /\ Near = Far + 365
  OBVIOUS
<1>7. /\ DayNumber(y, 1, 1) = Far + a + 307  /\ DayNumber(y, 2, 1) = Far + a + 338
      /\ DayNumber(y, 3, 1) = Near + b + 1   /\ DayNumber(y, 4, 1) = Near + b + 32
      /\ DayNumber(y, 5, 1) = Near + b + 62  /\ DayNumber(y, 6, 1) = Near + b + 93
      /\ DayNumber(y, 7, 1) = Near + b + 123 /\ DayNumber(y, 8, 1) = Near + b + 154
      /\ DayNumber(y, 9, 1) = Near + b + 185 /\ DayNumber(y, 10, 1) = Near + b + 215
      /\ DayNumber(y, 11, 1) = Near + b + 246 /\ DayNumber(y, 12, 1) = Near + b + 276
      /\ DayNumber(y + 1, 1, 1) = Near + b + 307
  BY MonthsAdd DEF a, b, Far, Near
<1> HIDE DEF a, b, Far, Near
<1>4. \A n \in 1 .. 12 : Next1(n) = DayNumber(y, n, 1) + Days(n) /\ DayNumber(y, n, 1) \in Int /\ Days(n) \in Int
  <2> SUFFICES ASSUME NEW n \in 1 .. 12
               PROVE  Next1(n) = DayNumber(y, n, 1) + Days(n) /\ DayNumber(y, n, 1) \in Int /\ Days(n) \in Int
    OBVIOUS
  <2>1. /\ Next1(1) = DayNumber(y, 2, 1) /\ Next1(2) = DayNumber(y, 3, 1)
        /\ Next1(3) = DayNumber(y, 4, 1) /\ Next1(4) = DayNumber(y, 5, 1)
        /\ Next1(5) = DayNumber(y, 6, 1) /\ Next1(6) = DayNumber(y, 7, 1)
        /\ Next1(7) = DayNumber(y, 8, 1) /\ Next1(8) = DayNumber(y, 9, 1)
        /\ Next1(9) = DayNumber(y, 10, 1) /\ Next1(10) = DayNumber(y, 11, 1)
        /\ Next1(11) = DayNumber(y, 12, 1) /\ Next1(12) = DayNumber(y + 1, 1, 1)
    OBVIOUS
  <2> HIDE DEF Next1, Days
  <2>2. Next1(1) = DayNumber(y, 1, 1) + Days(1) /\ DayNumber(y, 1, 1) \in Int /\ Days(1) \in Int
    BY <1>1, <1>2, <1>3, <2>1, <1>6, <1>7
  <2>3. Next1(2) = DayNumber(y, 2, 1) + Days(2) /\ DayNumber(y, 2, 1) \in Int /\ Days(2) \in Int
    BY <1>1, <1>2, <1>3, <2>1, <1>6, <1>7
  <2>4. Next1(3) = DayNumber(y, 3, 1) + Days(3) /\ DayNumber(y, 3, 1) \in Int /\ Days(3) \in Int
    BY <1>1, <1>2, <1>3, <2>1, <1>6, <1>7
  <2>5. Next1(4) = DayNumber(y, 4, 1) + Days(4) /\ DayNumber(y, 4, 1) \in Int /\ Days(4) \in Int
    BY <1>1, <1>2, <1>3, <2>1, <1>6, <1>7
  <2>6. Next1(5) = DayNumber(y, 5, 1) + Days(5) /\ DayNumber(y, 5, 1) \in Int /\ Days(5) \in Int
    BY <1>1, <1>2, <1>3, <2>1, <1>6, <1>7
  <2>7. Next1(6) = DayNumber(y, 6, 1) + Days(6) /\ DayNumber(y, 6, 1) \in Int /\ Days(6) \in Int
    BY <1>1, <1>2, <1>3, <2>1, <1>6, <1>7
  <2>8. Next1(7) = DayNumber(y, 7, 1) + Days(7) /\ DayNumber(y, 7, 1) \in Int /\ Days(7) \in Int
    BY <1>1, <1>2, <1>3, <2>1, <1>6, <1>7
  <2>9. Next1(8) = DayNumber(y, 8, 1) + Days(8) /\ DayNumber(y, 8, 1) \in Int /\ Days(8) \in Int
    BY <1>1, <1>2, <1>3, <2>1, <1>6, <1>7
  <2>10. Next1(9) = DayNumber(y, 9, 1) + Days(9) /\ DayNumber(y, 9, 1) \in Int /\ Days(9) \in Int
    BY <1>1, <1>2, <1>3, <2>1, <1>6, <1>7
  <2>11. Next1(10) = DayNumber(y, 10, 1) + Days(10) /\ DayNumber(y, 10, 1) \in Int /\ Days(10) \in Int
    BY <1>1, <1>2, <1>3, <2>1, <1>6, <1>7
  <2>12. Next1(11) = DayNumber(y, 11, 1) + Days(11) /\ DayNumber(y, 11, 1) \in Int /\ Days(11) \in Int
    BY <1>1, <1>2, <1>3, <2>1, <1>6, <1>7
  <2>13. Next1(12) = DayNumber(y, 12, 1) + Days(12) /\ DayNumber(y, 12, 1) \in Int /\ Days(12) \in Int
    BY <1>1, <1>2, <1>3, <2>1, <1>6, <1>7
  <2> QED BY <2>2, <2>3, <2>4, <2>5, <2>6, <2>7, <2>8, <2>9, <2>10, <2>11, <2>12, <2>13
<1> HIDE DEF Next1, Days
<1>5. DayNumber(y, m, 1) + d - 1 < Next1(m) <=> d <= Days(m)
  BY <1>4
<1> QED BY <1>5 DEF Next1, Days

\* is_calendar_date accepts the days that the count of days knows, in any year.
LEMMA CalendarRules ==
  ASSUME NEW date \in Texts, IsMigDate(date)
  PROVE  IsCalendarDate(date) <=> OnCalendar(date)
<1>1. \A i \in 1 .. 8 : date[i] \in Digits
  <2>1. DOMAIN date = 1 .. 8
    BY DEF IsMigDate, Texts
  <2> QED BY <2>1 DEF IsMigDate, AllDigits, ToSet
<1>2. \A i \in 1 .. 7 : ParseTwo(date, i) \in Nat
  <2> SUFFICES ASSUME NEW i \in 1 .. 7  PROVE ParseTwo(date, i) \in Nat
    OBVIOUS
  <2>1. i \in 1 .. 8 /\ i + 1 \in 1 .. 8  OBVIOUS
  <2>2. DigitValue[date[i]] \in 0 .. 9 /\ DigitValue[date[i + 1]] \in 0 .. 9
    BY <1>1, <2>1, DigitsHaveValues
  <2> QED BY <2>2 DEF ParseTwo
<1>3. Year(date) \in Nat /\ Month(date) \in 1 .. 12 /\ Day(date) \in Int
  <2>1. Year(date) \in Nat  BY <1>2 DEF Year
  <2>2. Day(date) \in Int  BY <1>2 DEF Day
  <2>3. Month(date) \in 1 .. 12  BY DEF IsMigDate
  <2> QED BY <2>1, <2>2, <2>3
<1> DEFINE y == Year(date)  m == Month(date)  d == Day(date)
<1> HIDE DEF y, m, d
<1>4. y \in Nat /\ m \in 1 .. 12 /\ d \in Int
  BY <1>3 DEF y, m, d
<1>5. DayNumber(y, m, 1) + d - 1 <
           (IF m = 12 THEN DayNumber(y + 1, 1, 1) ELSE DayNumber(y, m + 1, 1))
         <=> d <= CASE m \in {1, 3, 5, 7, 8, 10, 12} -> 31
                    [] m \in {4, 6, 9, 11}           -> 30
                    [] m = 2 -> IF IsLeapYear(y) THEN 29 ELSE 28
  BY <1>4, CalendarOfMonths
<1> QED BY <1>5 DEF IsCalendarDate, OnCalendar, y, m, d

-----------------------------------------------------------------------------
(* Decimals of an invoice *)

\* MigDecimal accepts what none of its checks refuses.
LEMMA DecimalAccepted ==
  ASSUME NEW text, NEW facets
  PROVE  LET negative == text # <<>> /\ text[1] = "-"
             unsigned == IF negative THEN Tail(text) ELSE text
             parts    == Split(unsigned, ".")
             fraction == IF Len(parts) = 2 THEN Len(parts[2]) ELSE 0
         IN  MigDecimal(text, facets) = "Ok" <=>
               /\ ~ (unsigned = <<>> \/ text[1] = "+")
               /\ ~ (facets.nonNegative /\ negative)
               /\ ~ (\/ Len(parts) > 2
                     \/ \E i \in DOMAIN parts : parts[i] = <<>> \/ ~ AllDigits(parts[i]))
               /\ ~ (\/ Len(parts[1]) + fraction > facets.total
                     \/ fraction > facets.fraction)
<1> DEFINE negative == text # <<>> /\ text[1] = "-"
           unsigned == IF negative THEN Tail(text) ELSE text
           parts    == Split(unsigned, ".")
           fraction == IF Len(parts) = 2 THEN Len(parts[2]) ELSE 0
           c1 == unsigned = <<>> \/ text[1] = "+"
           c2 == facets.nonNegative /\ negative
           c3 == \/ Len(parts) > 2
                 \/ \E i \in DOMAIN parts : parts[i] = <<>> \/ ~ AllDigits(parts[i])
           c4 == \/ Len(parts[1]) + fraction > facets.total
                 \/ fraction > facets.fraction
<1>1. MigDecimal(text, facets) =
        CASE c1 -> "InvalidDecimal" [] c2 -> "NegativeDecimal" [] c3 -> "InvalidDecimal"
          [] c4 -> "DecimalPrecision" [] OTHER -> "Ok"
  BY Zenon DEF MigDecimal
<1> HIDE DEF c1, c2, c3, c4
<1>2. (CASE c1 -> "InvalidDecimal" [] c2 -> "NegativeDecimal" [] c3 -> "InvalidDecimal"
          [] c4 -> "DecimalPrecision" [] OTHER -> "Ok") = "Ok" <=> ~ c1 /\ ~ c2 /\ ~ c3 /\ ~ c4
  <2>1. CASE c1 \/ c2 \/ c3 \/ c4
   <3> DEFINE v == CASE c1 -> "InvalidDecimal" [] c2 -> "NegativeDecimal" [] c3 -> "InvalidDecimal"
          [] c4 -> "DecimalPrecision" [] OTHER -> "Ok"
   <3>1. v \in {"InvalidDecimal", "NegativeDecimal", "DecimalPrecision"}
     BY <2>1, Zenon
   <3> QED BY <2>1, <3>1
  <2>2. CASE ~ c1 /\ ~ c2 /\ ~ c3 /\ ~ c4
   BY <2>2, Zenon
  <2> QED BY <2>1, <2>2, Zenon
<1> QED BY <1>1, <1>2, Zenon DEF c1, c2, c3, c4

\* The facets of a tax amount: no fraction, no sign.
LEMMA TaxFacets ==
  /\ "tax_amount" \in DOMAIN AmountFacets
  /\ AmountFacets["tax_amount"] = Facets(20, 0, TRUE)
<1>1. "tax_amount" \in DOMAIN AmountFacets
  BY DEF AmountFacets
<1>2. AmountFacets["tax_amount"] = CASE "tax_amount" = "tax_amount"    -> Facets(20, 0, TRUE)
       [] "tax_amount" = "exchange_rate" -> Facets(13, 5, TRUE)
       [] OTHER               -> Facets(20, 7, TRUE)
  BY Zenon DEF AmountFacets
<1>3. "tax_amount" # "exchange_rate" OBVIOUS
<1> QED BY <1>1, <1>2, <1>3, Zenon

\* The provers take a bounded length for a type, and forget the bounds.
LEMMA LengthBound == \A n : n \in 1 .. 20 <=> n \in Nat /\ n # 0 /\ ~ (n > 20)
OBVIOUS

\* AllDigits, place by place.
LEMMA DigitsArePiece ==
  ASSUME NEW text \in Words
  PROVE  AllDigits(text) <=> \A i \in DOMAIN text : text[i] \in Digits
BY DEF AllDigits, ToSet

\* Under the facets of a tax amount, MigDecimal accepts the whole numbers of
\* at most 20 digits; and it does not refuse them under those of the caller.
LEMMA WholeNumbers ==
  ASSUME NEW text \in Words
  PROVE  /\ MigDecimal(text, Facets(20, 0, TRUE)) = "Ok"
              => Len(text) \in 1 .. 20 /\ AllDigits(text)
         /\ Len(text) \in 1 .. 20 /\ AllDigits(text)
              => /\ MigDecimal(text, Facets(20, 0, TRUE)) = "Ok"
                 /\ MigDecimal(text, CallerFacets) = "Ok"
<1> DEFINE negative == text # <<>> /\ text[1] = "-"
           unsigned == IF negative THEN Tail(text) ELSE text
           parts    == Split(unsigned, ".")
           fraction == IF Len(parts) = 2 THEN Len(parts[2]) ELSE 0
           Accepts(facets) ==
               /\ ~ (unsigned = <<>> \/ text[1] = "+")
               /\ ~ (facets.nonNegative /\ negative)
               /\ ~ (\/ Len(parts) > 2
                     \/ \E i \in DOMAIN parts : parts[i] = <<>> \/ ~ AllDigits(parts[i]))
               /\ ~ (\/ Len(parts[1]) + fraction > facets.total
                     \/ fraction > facets.fraction)
<1>1. \A facets : MigDecimal(text, facets) = "Ok" <=> Accepts(facets)
  BY DecimalAccepted, Zenon
<1>2. /\ Facets(20, 0, TRUE).total = 20 /\ Facets(20, 0, TRUE).fraction = 0
      /\ Facets(20, 0, TRUE).nonNegative
      /\ CallerFacets.total = 20 /\ CallerFacets.fraction = 7 /\ ~ CallerFacets.nonNegative
  BY DEF Facets, CallerFacets
<1>3. "." \in Char
  BY TextsAreWords
<1>4. ASSUME Accepts(Facets(20, 0, TRUE))
      PROVE  Len(text) \in 1 .. 20 /\ AllDigits(text)
  <2>1. ~ negative /\ unsigned = text /\ text # <<>>
    BY <1>2, <1>4
  <2>2. parts \in Lists \ {<<>>} /\ Join(parts, ".") = text
    BY <1>3, <2>1, SplitPieces
  <2>3. Len(parts) \in Nat /\ Len(parts) <= 2 /\ DOMAIN parts = 1 .. Len(parts) /\ Len(parts) # 0
    <3>1. Len(parts) \in Nat /\ DOMAIN parts = 1 .. Len(parts) /\ Len(parts) # 0
      <4> HIDE DEF parts
      <4> QED BY <2>2 DEF Lists
    <3>2. ~ (Len(parts) > 2)
      BY <1>4
    <3> QED BY <3>1, <3>2
  <2>4. /\ \A i \in DOMAIN parts : parts[i] # <<>> /\ AllDigits(parts[i])
        /\ ~ (Len(parts[1]) + fraction > 20) /\ ~ (fraction > 0)
    BY <1>2, <1>4
  <2>5. Len(parts) # 2
    <3> SUFFICES ASSUME Len(parts) = 2  PROVE FALSE
      OBVIOUS
    <3>1. parts[2] \in Words /\ parts[2] # <<>> /\ ~ (Len(parts[2]) > 0)
      <4>1. 2 \in DOMAIN parts  BY <2>3
      <4>2. fraction = Len(parts[2])  OBVIOUS
      <4>3. parts[2] \in Words  BY <2>2, <4>1 DEF Lists
      <4> QED BY <2>4, <4>1, <4>2, <4>3
    <3> HIDE DEF parts
    <3> QED BY <3>1, WordsOfChars
  <2>6. Len(parts) = 1 /\ 1 \in DOMAIN parts /\ fraction = 0
    <3>1. Len(parts) = 1
      <4> HIDE DEF parts
      <4> QED BY <2>3, <2>5
    <3> QED BY <2>3, <3>1
  <2>7. parts = <<parts[1]>> /\ parts[1] \in Words
    <3> HIDE DEF parts
    <3> QED BY <2>2, <2>6 DEF Lists
  <2>8. text = parts[1]
    <3> HIDE DEF parts
    <3> QED BY <1>3, <2>2, <2>7, JoinSteps
  <2>9. AllDigits(text) /\ ~ (Len(text) > 20)
    <3>1. Len(parts[1]) + 0 = Len(parts[1])
      <4> HIDE DEF parts
      <4> QED BY <2>7, WordsOfChars
    <3>2. Len(parts[1]) \in Nat
      <4> HIDE DEF parts
      <4> QED BY <2>7, WordsOfChars
    <3> HIDE DEF parts, fraction
    <3> QED BY <2>4, <2>6, <2>8, <3>1, <3>2
  <2> HIDE DEF parts, fraction, negative, unsigned, Accepts
  <2>10. Len(text) \in Nat /\ Len(text) # 0
    BY <2>1, WordsOfChars
  <2> QED BY <2>9, <2>10, LengthBound, Zenon
<1>5. ASSUME Len(text) \in 1 .. 20, AllDigits(text)
      PROVE  Accepts(Facets(20, 0, TRUE)) /\ Accepts(CallerFacets)
  <2>1. \A i \in DOMAIN text : text[i] \in Digits
    BY <1>5, DigitsArePiece
  <2>2. text # <<>> /\ 1 \in DOMAIN text
    BY <1>5, WordsOfChars
  <2>3. \A d \in Digits : d # "-" /\ d # "+" /\ d # "."
    BY DEF Digits
  <2>4. ~ negative /\ unsigned = text /\ text[1] # "+"
    BY <2>1, <2>2, <2>3
  <2>5. IsPiece(text, ".")
    BY <2>1, <2>3 DEF IsPiece
  <2>6. parts = <<text>>
    BY <1>3, <2>4, <2>5, SplitOfPiece
  <2>7. Len(parts) = 1 /\ parts[1] = text /\ DOMAIN parts = {1} /\ fraction = 0
    <3>1. Len(<<text>>) = 1 /\ <<text>>[1] = text /\ DOMAIN <<text>> = {1}
      OBVIOUS
    <3> QED BY <2>6, <3>1
  <2>8. ~ (Len(parts[1]) + fraction > 20) /\ ~ (fraction > 0) /\ ~ (fraction > 7) /\ ~ (Len(parts) > 2)
    <3> HIDE DEF parts, fraction, negative, unsigned, Accepts
    <3>1. Len(text) \in Nat /\ ~ (Len(text) > 20)  BY <1>5, LengthBound, Zenon
    <3> QED BY <2>7, <3>1
  <2> HIDE DEF parts, fraction, negative, unsigned
  <2> QED BY <1>2, <1>5, <2>2, <2>4, <2>7, <2>8
<1> HIDE DEF Accepts
<1> QED BY <1>1, <1>4, <1>5

-----------------------------------------------------------------------------
(* The date and the tax amount of an invoice *)

\* The two fields that the theorems below are about are texts.
LEMMA RequestTypes ==
  ASSUME request \in Requests
  PROVE  /\ "invoice_date" \in DOMAIN request.invoice.main
         /\ request.invoice.main.invoice_date \in Texts
         /\ "tax_amount" \in DOMAIN request.invoice.amount
         /\ request.invoice.amount.tax_amount \in Texts
<1> DEFINE invoice == request.invoice
           main == invoice.main
           amount == invoice.amount
<1>1. IsMain(main) /\ IsAmount(amount)
  BY RequestAssumption DEF IsF0401
<1> HIDE DEF main, amount
<1>2. "invoice_date" \notin DOMAIN WireValues /\ "tax_amount" \notin DOMAIN WireValues
  BY DEF WireValues
<1>3. "invoice_date" \in DOMAIN main /\ main["invoice_date"] \in Texts
  BY <1>1, <1>2 DEF IsMain, IsPart
<1>4. "tax_amount" \in DOMAIN amount /\ amount["tax_amount"] \in Texts
  BY <1>1, <1>2 DEF IsAmount, IsPart
<1> QED BY <1>3, <1>4 DEF main, amount

\* What the checks of the schema have to say is never about the calendar.
LEMMA IssuesOfSchema ==
  ASSUME NEW invoice, NEW issue \in ValidateSchemaConstraints(invoice)
  PROVE  issue[4] # "MIG_DATE_NOT_GREGORIAN"
<1>1. \A part, item, rec, lengths : \A i \in LengthIssues(part, item, rec, lengths) :
        i[4] = "MIG_STRING_LENGTH" /\ i[3] \in DOMAIN lengths /\ i[1] = part
  BY DEF LengthIssues
<1>2. \A part, item, rec, facets : \A i \in DecimalIssues(part, item, rec, facets) :
        i[4] = "MIG_DECIMAL_CONSTRAINT"
  BY DEF DecimalIssues
<1>3. \A i \in MainIssues(invoice.main) : i[4] # "MIG_DATE_NOT_GREGORIAN"
  BY <1>1 DEF MainIssues
<1>4. \A i \in DetailsIssues(invoice.details) : i[4] # "MIG_DATE_NOT_GREGORIAN"
  BY <1>1, <1>2 DEF DetailsIssues
<1>5. \A i \in DecimalIssues("Amount", 0, invoice.amount, AmountFacets) : i[4] # "MIG_DATE_NOT_GREGORIAN"
  BY <1>2
<1> QED BY <1>3, <1>4, <1>5 DEF ValidateSchemaConstraints

\* Validate complains of a date exactly if it is not on the calendar.
LEMMA DateIssue ==
  ASSUME NEW invoice
  PROVE  (\E i \in Validate(invoice) : i[4] = "MIG_DATE_NOT_GREGORIAN")
           <=> ~ IsCalendarDate(invoice.main.invoice_date)
<1> DEFINE bad == ~ IsCalendarDate(invoice.main.invoice_date)
<1>1. (\E i \in DocumentRules(invoice) : i[4] = "MIG_DATE_NOT_GREGORIAN") <=> bad
  <2>1. \A condition, issue : \A i \in When(condition, issue) : i = issue /\ condition
    BY DEF When
  <2>2. \A issue : issue \in When(TRUE, issue)
    BY DEF When
  <2>3. \A i \in DocumentRules(invoice) : i[4] = "MIG_DATE_NOT_GREGORIAN" => bad
    BY DEF DocumentRules, When
  <2>4. bad => <<"Main", 0, "invoice_date", "MIG_DATE_NOT_GREGORIAN">> \in DocumentRules(invoice)
    BY DEF DocumentRules, When
  <2> QED BY <2>3, <2>4
<1>2. \A i \in ItemRules(invoice.details) : i[4] # "MIG_DATE_NOT_GREGORIAN"
  BY DEF ItemRules
<1> QED BY <1>1, <1>2, IssuesOfSchema DEF Validate, ValidateSemantics

\* The date of a readable invoice has the form of one.
LEMMA ReadableDate ==
  ASSUME NEW invoice, "invoice_date" \in DOMAIN invoice.main, UnreadableTexts(invoice) = {}
  PROVE  IsMigDate(invoice.main.invoice_date)
<1>1. TextIssues("Main", 0, invoice.main, {"invoice_date"}, IsMigDate) = {}
  BY DEF UnreadableTexts
<1> QED BY <1>1 DEF TextIssues

\* The issues of unreadable texts have a code of their own.
LEMMA TextCodes ==
  ASSUME NEW invoice, NEW i \in UnreadableTexts(invoice)
  PROVE  i[4] = "Text"
BY DEF UnreadableTexts, TextIssues

\* CalendarExact, from what was composed.
LEMMA CalendarFollows == Composed => CalendarExact
<1> SUFFICES ASSUME Composed, Validated
             PROVE  (\E i \in issues : i[4] = "MIG_DATE_NOT_GREGORIAN")
                      = ~ OnCalendar(request.invoice.main.invoice_date)
  BY DEF CalendarExact
<1> DEFINE invoice == request.invoice
           date == invoice.main.invoice_date
<1>1. NewInvoice(invoice.details) \in {"NoProductItems", "TooManyProductItems", "Ok"}
  BY DEF NewInvoice
<1>2. UnreadableTexts(invoice) = {} /\ issues = Validate(invoice)
  BY <1>1, TextCodes DEF Composed, Validated
<1>3. "invoice_date" \in DOMAIN invoice.main /\ date \in Texts
  BY RequestTypes DEF Composed
<1>4. IsMigDate(date)
  BY <1>2, <1>3, ReadableDate
<1>5. (\E i \in issues : i[4] = "MIG_DATE_NOT_GREGORIAN") <=> ~ IsCalendarDate(date)
  BY <1>2, DateIssue
<1>6. IsCalendarDate(date) <=> OnCalendar(date)
  BY <1>3, <1>4, CalendarRules
<1>7. IsCalendarDate(date) \in BOOLEAN /\ OnCalendar(date) \in BOOLEAN
  BY DEF IsCalendarDate, OnCalendar
<1> QED BY <1>5, <1>6, <1>7

\* Issues about a tax amount: what the parser or check_decimal says of it.
LEMMA TaxIssues ==
  ASSUME NEW invoice
  PROVE  /\ \A i \in UnreadableTexts(invoice) : i[3] = "tax_amount" =>
              MigDecimal(invoice.amount["tax_amount"], CallerFacets) # "Ok"
         /\ \A i \in Validate(invoice) : i[3] = "tax_amount" =>
              MigDecimal(invoice.amount["tax_amount"], AmountFacets["tax_amount"]) # "Ok"
<1> DEFINE tax == invoice.amount["tax_amount"]
<1>1. ASSUME NEW i \in UnreadableTexts(invoice), i[3] = "tax_amount"
      PROVE  MigDecimal(tax, CallerFacets) # "Ok"
  <2> DEFINE IsDecimal(text) == MigDecimal(text, CallerFacets) = "Ok"
             Mine(j) == j[3] = "tax_amount" => ~ IsDecimal(tax)
  <2>1. /\ \A j \in TextIssues("Main", 0, invoice.main, {"invoice_number"}, IsInvoiceNumber) : Mine(j)
        /\ \A j \in TextIssues("Main", 0, invoice.main, {"invoice_date"}, IsMigDate) : Mine(j)
        /\ \A j \in TextIssues("Main", 0, invoice.main, {"invoice_time"}, IsMigTime) : Mine(j)
        /\ \A j \in TextIssues("Main", 0, invoice.main, {"npo_ban"}, IsBan) : Mine(j)
        /\ \A j \in TextIssues("Seller", 0, invoice.main.seller, {"identifier"}, IsBan) : Mine(j)
        /\ \A j \in TextIssues("Buyer", 0, invoice.main.buyer, {"identifier"}, IsBan) : Mine(j)
        /\ \A j \in TextIssues("Amount", 0, invoice.amount, {"currency"}, IsCurrencyCode) : Mine(j)
    <3> HIDE DEF IsDecimal
    <3> QED BY DEF TextIssues
  <2>2. \A j \in TextIssues("Amount", 0, invoice.amount, DOMAIN AmountFacets, IsDecimal) : Mine(j)
    <3> HIDE DEF IsDecimal
    <3> QED BY DEF TextIssues
  <2>3. \A k \in DOMAIN invoice.details :
          \A j \in TextIssues("ProductItem", k, invoice.details[k], DOMAIN ItemFacets, IsDecimal) :
            Mine(j)
    <3>1. "tax_amount" \notin DOMAIN ItemFacets  BY DEF ItemFacets
    <3> HIDE DEF IsDecimal
    <3> QED BY <3>1 DEF TextIssues
  <2>4. Mine(i)
    <3> HIDE DEF Mine, IsDecimal
    <3> QED BY <2>1, <2>2, <2>3, <1>1 DEF UnreadableTexts, IsDecimal
  <2> QED BY <1>1, <2>4
<1>2. \A part, item, rec, lengths : \A i \in LengthIssues(part, item, rec, lengths) :
        i[3] \in DOMAIN lengths
  BY DEF LengthIssues
<1>3. \A part, item, rec, facets : \A i \in DecimalIssues(part, item, rec, facets) :
        i[3] \in DOMAIN facets /\ MigDecimal(rec[i[3]], facets[i[3]]) # "Ok"
  BY DEF DecimalIssues
<1>4. /\ "tax_amount" \notin DOMAIN RoleLengths /\ "tax_amount" \notin DOMAIN MainLengths
      /\ "tax_amount" \notin DOMAIN ItemLengths /\ "tax_amount" \notin DOMAIN ItemFacets
  BY DEF RoleLengths, MainLengths, ItemLengths, ItemFacets
<1>5. \A i \in MainIssues(invoice.main) : i[3] # "tax_amount"
  BY <1>2, <1>4 DEF MainIssues
<1>6. \A i \in DetailsIssues(invoice.details) : i[3] # "tax_amount"
  BY <1>2, <1>3, <1>4 DEF DetailsIssues
<1>7. \A i \in ValidateSemantics(invoice) : i[3] # "tax_amount"
  BY DEF ValidateSemantics, DocumentRules, When, ItemRules
<1>8. \A i \in DecimalIssues("Amount", 0, invoice.amount, AmountFacets) : i[3] = "tax_amount" =>
        MigDecimal(tax, AmountFacets["tax_amount"]) # "Ok"
  BY <1>3
<1> QED BY <1>1, <1>5, <1>6, <1>7, <1>8 DEF Validate, ValidateSchemaConstraints

\* A tax amount that check_decimal refuses is an issue.
LEMMA RefusedTax ==
  ASSUME NEW invoice, "tax_amount" \in DOMAIN invoice.amount, Validate(invoice) = {}
  PROVE  MigDecimal(invoice.amount["tax_amount"], AmountFacets["tax_amount"]) = "Ok"
<1>1. DecimalIssues("Amount", 0, invoice.amount, AmountFacets) = {}
  BY DEF Validate, ValidateSchemaConstraints
<1> QED BY <1>1, TaxFacets DEF DecimalIssues

\* WholeTaxAmounts, from what was composed.
LEMMA WholeFollows == Composed => WholeTaxAmounts
<1> SUFFICES ASSUME Composed  PROVE WholeTaxAmounts
  OBVIOUS
<1> DEFINE invoice == request.invoice
           tax == invoice.amount.tax_amount
           whole == Len(tax) \in 1 .. 20 /\ AllDigits(tax)
<1>1. "tax_amount" \in DOMAIN invoice.amount /\ tax \in Words
  BY RequestTypes, TextsAreWords DEF Composed
<1>2. MigDecimal(tax, AmountFacets["tax_amount"]) = "Ok" => whole
  BY <1>1, WholeNumbers, TaxFacets
<1>3. whole => /\ MigDecimal(tax, AmountFacets["tax_amount"]) = "Ok"
               /\ MigDecimal(tax, CallerFacets) = "Ok"
  BY <1>1, WholeNumbers, TaxFacets
<1>4. payload # {} => Validate(invoice) = {}
  BY DEF Composed
<1>5. payload # {} => whole
  BY <1>1, <1>2, <1>4, RefusedTax
<1>6. issues = {} \/ issues = UnreadableTexts(invoice) \/ issues = Validate(invoice)
  BY DEF Composed
<1>7. whole => ~ \E i \in issues : i[3] = "tax_amount"
  BY <1>3, <1>6, TaxIssues
<1> QED BY <1>5, <1>7 DEF WholeTaxAmounts

-----------------------------------------------------------------------------
(* What is packed, and under which name *)

\* What a request gives the packaging.
LEMMA TextsOfRequests ==
  ASSUME request \in Requests
  PROVE  /\ request.args.filename \in Texts
         /\ \A payloads : [request.args EXCEPT !.mig = payloads].filename = request.args.filename
         /\ request.args.zip \in {"Plain", "Zip"} /\ request.plan.zip \in {"Plain", "Zip"}
         /\ \A payloads : [request.args EXCEPT !.mig = payloads].zip = request.args.zip
         /\ RenderCommonName(request.plan.filename.common_name) \in Words
<1>1. IsSubmissionArguments(request.args) /\ IsSubmissionPlan(request.plan)
  BY RequestAssumption
<1>2. /\ request.args.filename \in Texts
      /\ request.args.zip \in {"Plain", "Zip"} /\ request.plan.zip \in {"Plain", "Zip"}
  BY <1>1 DEF IsSubmissionArguments, IsSubmissionPlan
<1>3. \A payloads : [request.args EXCEPT !.mig = payloads].filename = request.args.filename
  BY <1>1 DEF IsSubmissionArguments
<1>4. \A payloads : [request.args EXCEPT !.mig = payloads].zip = request.args.zip
  BY <1>1 DEF IsSubmissionArguments
<1>5. \A parts : {parts.mig_version, parts.message_type, parts.date, parts.time, parts.uuid}
                   \subseteq Texts => RenderCommonName(parts) \in Words
  <2>1. "-" \in Char
    BY TextsAreWords
  <2>2. \A v, w, x, y, z \in Words : Join(<<v, w, x, y, z>>, "-") \in Words
    <3>1. \A v, w, x, y, z \in Words : <<v, w, x, y, z>> \in Lists
      BY DEF Lists
    <3> QED BY <2>1, <3>1, JoinSteps
  <2> QED BY <2>2, TextsAreWords, Zenon DEF RenderCommonName
<1>6. RenderCommonName(request.plan.filename.common_name) \in Words
  BY <1>1, <1>5 DEF IsSubmissionPlan
<1> QED BY <1>2, <1>3, <1>4, <1>6

\* What a plan that may be prepared says twice, it says in the same way.
SaysOnce(p) ==
  /\ p.filename.pack_count > 0
  /\ p.metadata.message.quantity = p.filename.pack_count
  /\ p.metadata.message.message_type = p.filename.common_name.message_type
  /\ p.metadata.message.mig_version = p.filename.common_name.mig_version
  /\ p.metadata.from.party.identifier = p.filename.from_party
  /\ p.metadata.to.party.identifier = p.filename.to_party

\* validate_plan (submission.rs) refuses a plan that says it in two ways.
LEMMA PreparedSaysOnce ==
  ASSUME NEW plan, NEW pfx, PrepareError(plan) = "Ok", plan.filename.pack_count \in Int
  PROVE  LET p == PrepareSubmission(plan, pfx)
         IN  p.filename = plan.filename /\ p.zip = plan.zip /\ SaysOnce(p)
<1> DEFINE p == PrepareSubmission(plan, pfx)
<1>1. ValidatePlan(plan) = "Ok"
  BY DEF PrepareError
<1>2. /\ ~ (plan.filename.pack_count <= 0)
      /\ plan.filename.pack_count = Len(plan.envelope.payloads)
      /\ plan.filename.common_name.message_type = plan.envelope.messageType
      /\ plan.filename.common_name.mig_version = MigVersion
      /\ plan.filename.from_party = plan.envelope.routing.from.identifier
      /\ plan.filename.to_party = plan.envelope.routing.to.identifier
  BY <1>1 DEF ValidatePlan
<1>3. /\ p.filename = plan.filename /\ p.zip = plan.zip
      /\ p.metadata.message.quantity = Len(plan.envelope.payloads)
      /\ p.metadata.message.message_type = plan.envelope.messageType
      /\ p.metadata.message.mig_version = MigVersion
      /\ p.metadata.from.party.identifier = plan.envelope.routing.from.identifier
      /\ p.metadata.to.party.identifier = plan.envelope.routing.to.identifier
  BY DEF PrepareSubmission, GatewayParty
<1> HIDE DEF p
<1>4. plan.filename.pack_count > 0
  BY <1>2
<1> QED BY <1>2, <1>3, <1>4 DEF SaysOnce, p

\* Where the file name of a submission comes from.
Named(p) ==
  /\ \E text \in Words :
       CommonNameError(text) = "Ok" /\ p.filename.common_name = CommonName(text)
  /\ p.zip \in {"Plain", "Zip"}
  /\ request.by = "cli" =>
       /\ PackFilenameError(request.args.filename) = "Ok"
       /\ p.filename = PackFilename(request.args.filename)

\* A package says everything once, and its name came from a text or was read
\* back from one.
PackedAs ==
  /\ stage \in {"invoice", "package"} => prepared = {}
  /\ \A p \in prepared : SaysOnce(p) /\ Named(p)

\* The parts of a name that could be parsed.
LEMMA PartsThatParse ==
  ASSUME NEW text \in Words, PackFilenameError(text) = "Ok"
  PROVE  /\ PackFilename(text).pack_count \in Int32
         /\ \E f, a, b, c, d \in Words :
              /\ NameParts(text, f, a, b, c, d)
              /\ CommonNameError(c) = "Ok"
              /\ PackFilename(text).common_name = CommonName(c)
<1>1. ~ (Len(RightPieces(text)) < 5)
  BY DEF PackFilenameError
<1>2. PICK f, a, b, c, d \in Words : NameParts(text, f, a, b, c, d)
  BY <1>1, PartsOfName
<1>3. RightPieces(text) = <<f, a, b, c, d>>
  BY <1>2, PiecesOfName
<1>4. /\ PackFilenameError(text) = IF f = <<>> THEN "InvalidPackFilename"
                                   ELSE IF ~ IsI32(d) THEN "InvalidPackCount"
                                   ELSE CommonNameError(c)
      /\ PackFilename(text) =
           [source_name |-> f, from_party |-> a, to_party |-> b,
            common_name |-> CommonName(c), pack_count |-> I32Value(d)]
  BY <1>3, PackOfPieces
<1>5. IsI32(d) /\ CommonNameError(c) = "Ok"
  BY <1>4
<1>6. I32Value(d) \in Int32
  BY <1>5, Zenon DEF IsI32
<1>7. PackFilename(text).pack_count = I32Value(d) /\ PackFilename(text).common_name = CommonName(c)
  BY <1>4
<1> QED BY <1>2, <1>5, <1>6, <1>7

\* Only the two ways to make a package write it, and they end the stage.
LEMMA WhoPacks ==
  ASSUME Busy, PackedAs, [Next]_vars
  PROVE  \/ PackageByCli \/ PackageByClient
         \/ prepared' = prepared /\ (stage' \in {"invoice", "package"} => prepared = {})
<1> USE DEF PackedAs
<1>1. CASE ComposeInvoice
  BY <1>1 DEF ComposeInvoice
<1>2. CASE ReadFails
  BY <1>2 DEF ReadFails, Stop
<1>3. CASE BeginUpload
  BY <1>3 DEF BeginUpload, Stop
<1>4. CASE InSession
  BY <1>4 DEF InSession, Stop
<1>5. CASE Upload
  BY <1>5 DEF Upload, Continue
<1>6. CASE Notify
  BY <1>6 DEF Notify, Stop, Continue
<1>7. CASE PlatformAnswers
  BY <1>7 DEF PlatformAnswers, Continue
<1>8. CASE BeginDownload
  BY <1>8 DEF BeginDownload, chainVars
<1>9. CASE Download
  BY <1>9 DEF Download, Stop
<1>10. CASE UNCHANGED vars
  BY <1>10 DEF vars, chainVars
<1> QED
  BY <1>1, <1>2, <1>3, <1>4, <1>5, <1>6, <1>7, <1>8, <1>9, <1>10 DEF Next

\* Every step keeps PackedAs.
LEMMA PackedKept ==
  ASSUME Busy, Composed, PackedAs, [Next]_vars
  PROVE  PackedAs'
<1>0. request' = request /\ request \in Requests
  BY WhatStaysAsItIs DEF Composed
<1>1. ASSUME NEW plan, Packaged(plan), stage = "package", plan.filename.pack_count \in Int,
             \A p : p.filename = plan.filename /\ p.zip = plan.zip => Named(p)
      PROVE  PackedAs'
  <2>1. CASE PrepareError(plan) # "Ok"
    BY <1>1, <2>1 DEF Packaged, Stop, PackedAs
  <2>2. CASE PrepareError(plan) = "Ok"
    <3>0. PICK p : p = PrepareSubmission(plan, request.pfx)
      OBVIOUS
    <3>1. p.filename = plan.filename /\ p.zip = plan.zip /\ SaysOnce(p)
      BY <1>1, <2>2, <3>0, PreparedSaysOnce
    <3>2. stage' = "upload" /\ prepared' = {p}
      BY <1>1, <2>2, <3>0 DEF Packaged, Continue
    <3>3. Named(p)
      BY <1>1, <3>1
    <3>5. Named(p)' <=> Named(p)
      BY <1>0 DEF Named
    <3> QED BY <3>1, <3>2, <3>3, <3>5 DEF PackedAs, SaysOnce
  <2> QED BY <2>1, <2>2
<1>2. CASE PackageByCli
  <2> DEFINE args == [request.args EXCEPT !.mig = SetToSeq(payload) \o @]
  <2>1. args.filename = request.args.filename /\ args.zip = request.args.zip
    BY <1>0, TextsOfRequests
  <2>2. stage = "package" /\ request.by = "cli"
    BY <1>2 DEF PackageByCli
  <2>3. CASE prepared' = prepared /\ \E reason : Stop(reason)
    BY <2>2, <2>3 DEF Stop, PackedAs
  <2>4. CASE PlanError(args) = "Ok" /\ Packaged(BuildSubmissionPlan(args))
    <3> DEFINE plan == BuildSubmissionPlan(args)
               name == request.args.filename
    <3>1. plan.filename = PackFilename(args.filename) /\ plan.zip = args.zip
      BY DEF BuildSubmissionPlan
    <3>2. PackFilenameError(args.filename) = "Ok"
      BY <2>4 DEF PlanError
    <3>3. name \in Words
      BY <1>0, TextsOfRequests, TextsAreWords
    <3>4. Packaged(plan)
      BY <2>4
    <3> HIDE DEF plan, args, name
    <3>5. PackFilenameError(name) = "Ok" /\ plan.filename = PackFilename(name)
      BY <2>1, <3>1, <3>2 DEF name
    <3>6. /\ PackFilename(name).pack_count \in Int32
          /\ \E text \in Words :
                CommonNameError(text) = "Ok" /\ PackFilename(name).common_name = CommonName(text)
      BY <3>3, <3>5, PartsThatParse
    <3>7. plan.zip \in {"Plain", "Zip"}
      BY <1>0, <2>1, <3>1, TextsOfRequests
    <3>8. \A p : p.filename = plan.filename /\ p.zip = plan.zip => Named(p)
      BY <3>5, <3>6, <3>7 DEF Named, name
    <3>9. plan.filename.pack_count \in Int
      BY <3>5, <3>6 DEF Int32
    <3> QED BY <1>1, <2>2, <3>4, <3>8, <3>9
  <2> HIDE DEF args
  <2>5. \/ prepared' = prepared /\ \E reason : Stop(reason)
        \/ PlanError(args) = "Ok" /\ Packaged(BuildSubmissionPlan(args))
    BY <1>2, Zenon DEF PackageByCli, args
  <2> QED BY <2>3, <2>4, <2>5
<1>3. CASE PackageByClient
  <2> DEFINE parts    == request.plan.filename.common_name
             payloads == SetToSeq(payload) \o request.args.mig
             plan     == [request.plan EXCEPT !.envelope.payloads = payloads,
                                              !.filename.common_name = FromParts(parts)]
  <2>2. stage = "package" /\ request.by = "client"
    BY <1>3 DEF PackageByClient
  <2>3. CASE prepared' = prepared /\ \E reason : Stop(reason)
    BY <2>2, <2>3 DEF Stop, PackedAs
  <2>4. CASE FromPartsError(parts) = "Ok" /\ Packaged(plan)
    <3>1. IsSubmissionPlan(request.plan)
      BY <1>0, RequestAssumption
    <3>2. /\ plan.filename.common_name = FromParts(parts) /\ plan.zip = request.plan.zip
          /\ plan.filename.pack_count = request.plan.filename.pack_count
      BY <3>1 DEF IsSubmissionPlan
    <3>3. plan.filename.pack_count \in Int /\ plan.zip \in {"Plain", "Zip"}
      BY <3>1, <3>2 DEF IsSubmissionPlan, Int32
    <3> HIDE DEF plan
    <3>4. RenderCommonName(parts) \in Words
      BY <1>0, TextsOfRequests
    <3>5. \A p : p.filename = plan.filename /\ p.zip = plan.zip => Named(p)
      BY <2>2, <2>4, <3>2, <3>3, <3>4 DEF Named, FromParts, FromPartsError
    <3> QED BY <1>1, <2>2, <2>4, <3>3, <3>5
  <2> HIDE DEF plan
  <2>5. \/ prepared' = prepared /\ \E reason : Stop(reason)
        \/ FromPartsError(parts) = "Ok" /\ Packaged(plan)
    BY <1>3, Zenon DEF PackageByClient, plan
  <2> QED BY <2>3, <2>4, <2>5
<1>4. CASE prepared' = prepared /\ (stage' \in {"invoice", "package"} => prepared = {})
  <2>1. \A p : Named(p)' <=> Named(p)
    BY <1>0 DEF Named
  <2> QED BY <1>4, <2>1 DEF PackedAs, SaysOnce
<1> QED BY <1>2, <1>3, <1>4, WhoPacks

\* A pack filename that parses is split at its last four bars, and rendering it
\* gives a name that parses to the same (filename.rs).
LEMMA Anchored ==
  ASSUME NEW text \in Words, PackFilenameError(text) = "Ok", PackFilename(text).pack_count > 0
  PROVE  LET rendered == RenderPackFilename(PackFilename(text))
         IN  /\ SplitsAtLastFour(text, PackFilename(text))
             /\ PackFilenameError(rendered) = "Ok"
             /\ PackFilename(rendered) = PackFilename(text)
<1> DEFINE name == PackFilename(text)
           rendered == RenderPackFilename(name)
<1>1. ~ (Len(RightPieces(text)) < 5)
  BY DEF PackFilenameError
<1>2. PICK f, a, b, c, d \in Words : NameParts(text, f, a, b, c, d)
  BY <1>1, PartsOfName
<1>3. /\ PackFilenameError(rendered) = "Ok" /\ PackFilename(rendered) = name
      /\ RenderCommonName(CommonName(c)) = c
  BY <1>2, NameReadBack
<1>4. RightPieces(text) = <<f, a, b, c, d>>
  BY <1>2, PiecesOfName
<1>5. name = [source_name |-> f, from_party |-> a, to_party |-> b,
              common_name |-> CommonName(c), pack_count |-> I32Value(d)]
  BY <1>4, PackOfPieces
<1>6. "_" \in Char
  BY TextsAreWords
<1>7. IsPiece(a, "_") /\ IsPiece(b, "_") /\ IsPiece(c, "_") /\ IsPiece(d, "_")
  BY <1>2 DEF NameParts
<1>8. text = FourMore(f, "_", a, b, c, d)
  BY <1>2, Zenon DEF NameParts
<1> DEFINE From(k) == FromRight(Marks(text, "_"), k)
<1>9. /\ f = Part(text, 1, From(4) - 1)
      /\ a = Part(text, From(4) + 1, From(3) - 1)
      /\ b = Part(text, From(3) + 1, From(2) - 1)
      /\ c = Part(text, From(2) + 1, From(1) - 1)
  <2>1. \A bar \in Char :
          IsPiece(a, bar) /\ IsPiece(b, bar) /\ IsPiece(c, bar) /\ IsPiece(d, bar) =>
            LET whole == FourMore(f, bar, a, b, c, d)
                At(k) == FromRight(Marks(whole, bar), k)
            IN  /\ f = Part(whole, 1, At(4) - 1)
                /\ a = Part(whole, At(4) + 1, At(3) - 1)
                /\ b = Part(whole, At(3) + 1, At(2) - 1)
                /\ c = Part(whole, At(2) + 1, At(1) - 1)
    BY PartsAtMarks
  <2>2. LET whole == FourMore(f, "_", a, b, c, d)
            At(k) == FromRight(Marks(whole, "_"), k)
        IN  /\ f = Part(whole, 1, At(4) - 1)
            /\ a = Part(whole, At(4) + 1, At(3) - 1)
            /\ b = Part(whole, At(3) + 1, At(2) - 1)
            /\ c = Part(whole, At(2) + 1, At(1) - 1)
    BY <1>6, <1>7, <2>1, Zenon
  <2> QED BY <1>8, <2>2, Zenon
<1>10. /\ name.source_name = f /\ name.from_party = a /\ name.to_party = b
       /\ name.common_name = CommonName(c)
  BY <1>5
<1> HIDE DEF name
<1>11. SplitsAtLastFour(text, name)
  BY <1>3, <1>9, <1>10, Zenon DEF SplitsAtLastFour, FromRight, Marks, Part
<1> QED BY <1>3, <1>11 DEF name

\* NameRightAnchored, from what was packed.
LEMMA AnchoredFollows == Composed /\ PackedAs => NameRightAnchored
<1> SUFFICES ASSUME Composed, PackedAs, request.by = "cli", NEW p \in prepared
             PROVE  /\ SplitsAtLastFour(request.args.filename, p.filename)
                    /\ PackFilenameError(RenderPackFilename(p.filename)) = "Ok"
                    /\ PackFilename(RenderPackFilename(p.filename)) = p.filename
  BY DEF NameRightAnchored
<1>1. request.args.filename \in Words
  BY TextsOfRequests, TextsAreWords DEF Composed
<1>2. /\ PackFilenameError(request.args.filename) = "Ok"
      /\ p.filename = PackFilename(request.args.filename)
      /\ p.filename.pack_count > 0
  BY DEF PackedAs, Named, SaysOnce
<1> QED BY <1>1, <1>2, Anchored

-----------------------------------------------------------------------------
(* The object and the notification *)

\* The object in the inbox and the notification on the wire are those of one
\* prepared submission.
Transported ==
  /\ \A o \in inbound : \E p \in prepared :
       LET object == PrepareUploadObject(p)
       IN  o = [name |-> object.remote_filename, bytes |-> object.uploaded_bytes]
  /\ \A w \in wire : \E p \in prepared :
       w = ToPfs001Json(UploadNotification(p), Credentials)

\* Every step keeps Transported.
LEMMA TransportedKept ==
  ASSUME Busy, PackedAs, Transported, [Next]_vars
  PROVE  Transported'
<1> USE DEF Transported
<1>1. CASE inbound' = inbound /\ wire' = wire /\ prepared' = prepared
  BY <1>1
<1>2. ASSUME stage = "package", inbound' = inbound, wire' = wire
      PROVE  Transported'
  <2>1. inbound = {} /\ wire = {}
    BY <1>2 DEF PackedAs
  <2> QED BY <1>2, <2>1
<1>3. CASE Upload
  BY <1>3 DEF Upload
<1>4. CASE Notify
  BY <1>4 DEF Notify
<1>5. CASE PackageByCli
  BY <1>2, <1>5 DEF PackageByCli
<1>6. CASE PackageByClient
  BY <1>2, <1>6 DEF PackageByClient
<1>7. CASE ComposeInvoice \/ ReadFails \/ BeginUpload \/ InSession \/ PlatformAnswers
           \/ BeginDownload \/ Download \/ UNCHANGED vars
  BY <1>1, <1>7 DEF ComposeInvoice, ReadFails, BeginUpload, InSession, PlatformAnswers,
                    BeginDownload, Download, vars, chainVars
<1> QED BY <1>3, <1>4, <1>5, <1>6, <1>7 DEF Next

\* The party of a notification.
LEMMA PartyOnTheWire ==
  ASSUME NEW trans
  PROVE  WireTrans(trans).partyInfo["partyId"] = trans.party.identifier
BY DEF WireTrans

\* NotifiedAsUploaded, from what was packed and transported.
LEMMA NotifiedFollows == Composed /\ PackedAs /\ Transported /\ Shape => NotifiedAsUploaded
<1> SUFFICES ASSUME Composed, PackedAs, Transported, Shape, NEW w \in wire, NEW o \in inbound
             PROVE  LET common == CommonName(o.name)
                        local  == PackFilename(o.bytes.entry)
                    IN  /\ w.filename = o.name /\ CommonNameError(o.name) = "Ok"
                        /\ w.zip = (IF o.bytes.zipped THEN "1" ELSE "0")
                        /\ w.size = Len(o.bytes.bytes) /\ w.quantity > 0
                        /\ w.messageType = common.message_type /\ w.migVersion = common.mig_version
                        /\ o.bytes.zipped /\ request.by = "cli" =>
                             /\ PackFilenameError(o.bytes.entry) = "Ok"
                             /\ RenderCommonName(local.common_name) = o.name
                             /\ local.from_party = w.transFrom.partyInfo.partyId
                             /\ local.to_party = w.transTo.partyInfo.partyId
                             /\ local.pack_count = w.quantity
  BY DEF NotifiedAsUploaded
<1>1. PICK p \in prepared :
        /\ o = [name  |-> PrepareUploadObject(p).remote_filename,
                bytes |-> PrepareUploadObject(p).uploaded_bytes]
        /\ w = ToPfs001Json(UploadNotification(p), Credentials)
  BY DEF Transported, Shape, AtMostOne
<1>2. SaysOnce(p) /\ Named(p)
  BY DEF PackedAs
<1>3. PICK text \in Words : CommonNameError(text) = "Ok" /\ p.filename.common_name = CommonName(text)
  BY <1>2 DEF Named
<1>4. o.name = RenderCommonName(p.filename.common_name)
  BY <1>1 DEF PrepareUploadObject, RemoteFilename
<1>5. o.name = text
  BY <1>3, <1>4, CommonNameRendered
<1>6. /\ w.filename = RemoteFilename(p.filename) /\ w.size = Len(p.artifact.bytes)
      /\ w.messageType = p.metadata.message.message_type
      /\ w.migVersion = p.metadata.message.mig_version
      /\ w.quantity = p.metadata.message.quantity
      /\ w.zip = [Plain |-> "0", Zip |-> "1"][p.zip]
      /\ w.transFrom = WireTrans(p.metadata.from) /\ w.transTo = WireTrans(p.metadata.to)
  BY <1>1 DEF ToPfs001Json, UploadNotification, PrepareUploadObject
<1>7. o.bytes = IF p.zip = "Zip"
                THEN ZipSingleEntry(RenderPackFilename(p.filename), p.artifact.bytes)
                ELSE Plain(p.artifact.bytes)
  BY <1>1 DEF PrepareUploadObject
<1>8. /\ o.bytes.bytes = p.artifact.bytes
      /\ p.zip = "Zip" => o.bytes.zipped = TRUE /\ o.bytes.entry = RenderPackFilename(p.filename)
      /\ p.zip # "Zip" => o.bytes.zipped = FALSE
  <2>1. \A n, b : /\ ZipSingleEntry(n, b).bytes = b /\ ZipSingleEntry(n, b).entry = n
                  /\ ZipSingleEntry(n, b).zipped = TRUE
                  /\ Plain(b).bytes = b /\ Plain(b).zipped = FALSE
    BY Zenon DEF ZipSingleEntry, Plain
  <2>2. p.zip = "Zip" => o.bytes = ZipSingleEntry(RenderPackFilename(p.filename), p.artifact.bytes)
    BY <1>7, Zenon
  <2>3. p.zip # "Zip" => o.bytes = Plain(p.artifact.bytes)
    BY <1>7, Zenon
  <2>4. CASE p.zip = "Zip"
    <3> DEFINE z == ZipSingleEntry(RenderPackFilename(p.filename), p.artifact.bytes)
    <3>0. /\ z.bytes = p.artifact.bytes /\ z.entry = RenderPackFilename(p.filename)
          /\ z.zipped = TRUE
      BY <2>1, Zenon
    <3>1. o.bytes = z
      BY <2>2, <2>4, Zenon
    <3> HIDE DEF z
    <3>2. o.bytes.bytes = p.artifact.bytes
      BY <3>0, <3>1, Zenon
    <3>3. o.bytes.entry = RenderPackFilename(p.filename)
      BY <3>0, <3>1, Zenon
    <3>4. o.bytes.zipped = TRUE
      BY <3>0, <3>1, Zenon
    <3> QED BY <2>4, <3>2, <3>3, <3>4, Zenon
  <2>5. CASE p.zip # "Zip"
    <3>1. o.bytes = Plain(p.artifact.bytes)
      BY <2>3, <2>5, Zenon
    <3>2. o.bytes.bytes = p.artifact.bytes
      BY <2>1, <3>1, Zenon
    <3>3. o.bytes.zipped = FALSE
      BY <2>1, <3>1, Zenon
    <3> QED BY <2>5, <3>2, <3>3, Zenon
  <2> QED BY <2>4, <2>5, Zenon
<1>9. w.zip = (IF o.bytes.zipped THEN "1" ELSE "0")
  <2>1. CASE p.zip = "Zip"
    <3>1. w.zip = "1"
      BY <1>6, <2>1
    <3> QED BY <1>8, <2>1, <3>1, Zenon
  <2>2. CASE p.zip = "Plain"
    <3>1. w.zip = "0" /\ p.zip # "Zip"
      BY <1>6, <2>2
    <3> QED BY <1>8, <3>1, Zenon
  <2> QED BY <1>2, <2>1, <2>2 DEF Named
<1>10. /\ w.filename = o.name /\ CommonNameError(o.name) = "Ok"
       /\ w.size = Len(o.bytes.bytes) /\ w.quantity > 0
       /\ w.messageType = CommonName(o.name).message_type
       /\ w.migVersion = CommonName(o.name).mig_version
  BY <1>2, <1>3, <1>4, <1>5, <1>6, <1>8 DEF SaysOnce, RemoteFilename
<1>11. ASSUME o.bytes.zipped, request.by = "cli"
       PROVE  LET local == PackFilename(o.bytes.entry)
              IN  /\ PackFilenameError(o.bytes.entry) = "Ok"
                  /\ RenderCommonName(local.common_name) = o.name
                  /\ local.from_party = w.transFrom.partyInfo.partyId
                  /\ local.to_party = w.transTo.partyInfo.partyId
                  /\ local.pack_count = w.quantity
  <2>1. request.args.filename \in Words
    BY TextsOfRequests, TextsAreWords DEF Composed
  <2>2. /\ PackFilenameError(request.args.filename) = "Ok"
        /\ p.filename = PackFilename(request.args.filename)
        /\ p.filename.pack_count > 0
    BY <1>2, <1>11 DEF Named, SaysOnce
  <2>3. o.bytes.entry = RenderPackFilename(p.filename)
    BY <1>8, <1>11, Zenon
  <2>4. PackFilenameError(o.bytes.entry) = "Ok" /\ PackFilename(o.bytes.entry) = p.filename
    BY <2>1, <2>2, <2>3, Anchored
  <2>5. /\ p.filename.from_party = w.transFrom.partyInfo.partyId
        /\ p.filename.to_party = w.transTo.partyInfo.partyId
    BY <1>2, <1>6, PartyOnTheWire DEF SaysOnce
  <2> QED BY <1>2, <1>4, <1>6, <2>4, <2>5 DEF SaysOnce
<1> QED BY <1>9, <1>10, <1>11

-----------------------------------------------------------------------------
(* The invariant of a chain *)

\* What the theorems below rest on.  None of them is inductive by itself: the
\* name on the wire is right because the name that was packed came from a
\* text that parsed, and that one because of what the request gave.
ChainInv == Shape /\ SessionTypeOK /\ Busy /\ Composed /\ PackedAs /\ Transported

\* Before its first step, a chain has nothing but its request.
LEMMA ChainBegins == Init => ChainInv
<1> SUFFICES ASSUME Init  PROVE ChainInv
  OBVIOUS
<1>1. Shape /\ SessionTypeOK
  BY DEF Init, SessionInit, Shape, AtMostOne, Stages, Outcomes, SessionTypeOK, Links, Failures
<1>2. Busy
  BY DEF Init, SessionInit, Busy
<1>3. Composed
  BY DEF Init, Composed
<1>4. PackedAs /\ Transported
  BY DEF Init, PackedAs, Transported
<1> QED BY <1>1, <1>2, <1>3, <1>4 DEF ChainInv

\* Every step of a chain keeps its invariant.
LEMMA ChainKept == ChainInv /\ [Next]_vars => ChainInv'
<1> SUFFICES ASSUME ChainInv, [Next]_vars  PROVE ChainInv'
  OBVIOUS
<1>1. (Shape /\ SessionTypeOK)'
  BY TypesKept DEF ChainInv
<1>2. Busy'
  BY BusyKept DEF ChainInv
<1>3. Composed'
  BY ComposedKept DEF ChainInv
<1>4. PackedAs'
  BY PackedKept DEF ChainInv
<1>5. Transported'
  BY TransportedKept DEF ChainInv
<1> QED BY <1>1, <1>2, <1>3, <1>4, <1>5 DEF ChainInv

\* So it holds always.
LEMMA ChainAlways == Spec => []ChainInv
BY ChainBegins, ChainKept, PTL DEF Spec

\* The date check (is_calendar_date of primitives.rs) lets an invoice pass
\* exactly if its date is a day of the Gregorian calendar, in any year.
THEOREM CalendarIsExact == Spec => []CalendarExact
<1>1. ChainInv => CalendarExact
  BY CalendarFollows DEF ChainInv
<1> QED BY <1>1, ChainAlways, PTL

\* The tax amount of an invoice that passed (check_decimal of f0401.rs) is a
\* whole number of one to twenty digits, without a sign, whatever text the
\* caller gave; and no such amount is refused.
THEOREM TaxAmountsAreWhole == Spec => []WholeTaxAmounts
<1>1. ChainInv => WholeTaxAmounts
  BY WholeFollows DEF ChainInv
<1> QED BY <1>1, ChainAlways, PTL

\* The name of a file given to the command line (PackFilename of filename.rs)
\* is split at its last four bars, however many there are, and the name in
\* the package reads back as the same parts.
THEOREM NamesAreRightAnchored == Spec => []NameRightAnchored
<1>1. ChainInv => NameRightAnchored
  BY AnchoredFollows DEF ChainInv
<1> QED BY <1>1, ChainAlways, PTL

\* PFS001 tells the platform of the object that was uploaded: its name reads
\* back as the type and the version, its size and its compression are the
\* object's, and the name inside a zip gives the parties and the quantity
\* (filename.rs, submission.rs and gateway.rs).
THEOREM NotificationsTell == Spec => []NotifiedAsUploaded
<1>1. ChainInv => NotifiedAsUploaded
  BY NotifiedFollows DEF ChainInv
<1> QED BY <1>1, ChainAlways, PTL

-----------------------------------------------------------------------------
(* The result *)

\* An object of the platform is classified by the end of its name.
LEMMA ResultClassified ==
  ASSUME NEW v \in Results
  PROVE  ClassifyRemoteName(ResultName(v)) = v.kind
<1>1. PICK front : front = MigVersion \o <<"-">>  OBVIOUS
<1>2. IsSeq(front)
  <2>1. IsSeq(MigVersion) /\ IsSeq(<<"-">>)
    <3>1. MigVersion \in Seq({"4", ".", "1"}) /\ <<"-">> \in Seq({"-"})  BY DEF MigVersion
    <3> QED BY <3>1 DEF IsSeq
  <2> QED BY <1>1, <2>1, CatFacts, Zenon DEF Cat
<1>3. ResultName(v) = front \o NameSuffixes[v.kind]  BY <1>1, Zenon DEF ResultName
<1>4. v.kind = "ProcessResult" \/ v.kind = "SummaryResult"  BY DEF Results
<1> QED BY <1>2, <1>3, <1>4, ResultNames, Zenon DEF ClassifyRemoteName

RootOf(v) == ReadXml(ResultXml(v))[1]

ParsedOf(kind, root) ==
  [kind  |-> kind,
   value |-> IF kind = "SummaryResult" THEN SummaryResultOf(root) ELSE ProcessResultOf(root)]

\* Some count of the result is no i32.
TooGreat(v) ==
  /\ v.kind = "SummaryResult"
  /\ \E i \in DOMAIN v.value.messages :
       ~ \A b \in {"total", "good", "failed"} : Representable(v.value.messages[i].result[b])

\* What one node is read from has this node, and no bytes.
LEMMA OneIsRead ==
  ASSUME NEW tokens, NEW node, One(tokens, node)
  PROVE  /\ Len(ReadXml(tokens)) = 1 /\ ReadXml(tokens)[1] = node
         /\ <<"byte", "ff">> \notin ToSet(tokens)
<1>1. Reads(tokens, <<node>>, <<>>)  BY DEF One, Writes
<1>2. PICK kids : kids = <<node>> /\ ReadXml(tokens) = kids  BY <1>1, XmlRead
<1>3. Len(kids) = 1 /\ kids[1] = node  BY <1>2
<1>4. \A i \in DOMAIN tokens : tokens[i][1] # "byte"  BY <1>1, ReadHasNoBytes
<1>5. <<"byte", "ff">>[1] = "byte"  OBVIOUS
<1>6. <<"byte", "ff">> \notin ToSet(tokens)  BY <1>4, <1>5, Zenon DEF ToSet
<1> QED BY <1>2, <1>3, <1>6

\* It is parsed as it was, unless a count is no i32.
LEMMA ResultParsed ==
  ASSUME NEW v \in Results
  PROVE  LET error == ParseError(v.kind, ResultXml(v))
         IN  /\ error \in {"Ok", "Xml"}
             /\ error = "Ok" => ParsedOf(v.kind, RootOf(v)) = v
             /\ error = "Xml" => TooGreat(v)
<1>1. PICK P, S : P = ProcessResults /\ S = SummaryResults  OBVIOUS
<1>2. v \in [kind : {"ProcessResult"}, value : P] \cup [kind : {"SummaryResult"}, value : S]
  BY <1>1 DEF Results
<1>3. v = [kind |-> v.kind, value |-> v.value]  BY <1>2
<1>4. \/ v.kind = "ProcessResult" /\ v.value \in P
      \/ v.kind = "SummaryResult" /\ v.value \in S
  BY <1>2
<1>5. CASE v.kind = "ProcessResult" /\ v.value \in P
  <2>1. IsProcess(v.value)  BY <1>1, <1>5, ProcessesAre, Zenon
  <2>2. PICK node : One(ProcessXml(v.value), node) /\ ProcessNode(node, v.value)
    BY <2>1, ProcessRead, Zenon
  <2>3. ResultXml(v) = ProcessXml(v.value)  BY <1>5 DEF ResultXml
  <2>4. /\ Len(ReadXml(ResultXml(v))) = 1 /\ RootOf(v) = node
        /\ <<"byte", "ff">> \notin ToSet(ResultXml(v))
    BY <2>2, <2>3, OneIsRead, Zenon DEF RootOf
  <2>5. ParseError(v.kind, ResultXml(v)) = "Ok"
    BY <1>5, <2>2, <2>4, Zenon DEF ParseError, RootOf, ProcessNode
  <2>6. ParsedOf(v.kind, RootOf(v)) = v
    <3>1. "ProcessResult" # "SummaryResult"  OBVIOUS
    <3>2. ParsedOf(v.kind, node) = [kind |-> v.kind, value |-> ProcessResultOf(node)]
      BY <1>5, <3>1, Zenon DEF ParsedOf
    <3> QED BY <1>3, <2>2, <2>4, <3>2, Zenon DEF ProcessNode
  <2> QED BY <2>5, <2>6
<1>6. CASE v.kind = "SummaryResult" /\ v.value \in S
  <2>1. IsSummary(v.value)  BY <1>1, <1>6, SummariesAre, Zenon
  <2>2. PICK node : One(SummaryXml(v.value), node) /\ SummaryNode(node, v.value)
    BY <2>1, SummaryRead, Zenon
  <2>3. ResultXml(v) = SummaryXml(v.value)  BY <1>6 DEF ResultXml
  <2>4. /\ Len(ReadXml(ResultXml(v))) = 1 /\ RootOf(v) = node
        /\ <<"byte", "ff">> \notin ToSet(ResultXml(v))
    BY <2>2, <2>3, OneIsRead, Zenon DEF RootOf
  <2>5. ParseError(v.kind, ResultXml(v)) = IF IsWireSummaryResult(node) THEN "Ok" ELSE "Xml"
    <3>1. "ProcessResult" # "SummaryResult"  OBVIOUS
    <3> QED BY <1>6, <2>4, <3>1, Zenon DEF ParseError, RootOf
  <2>6. ParsedOf(v.kind, RootOf(v)) = v
    <3>1. ParsedOf(v.kind, node) = [kind |-> v.kind, value |-> SummaryResultOf(node)]
      BY <1>6, Zenon DEF ParsedOf
    <3> QED BY <1>3, <2>2, <2>4, <3>1, Zenon DEF SummaryNode
  <2>7. ~ IsWireSummaryResult(node) => TooGreat(v)
    <3>1. ASSUME ~ IsWireSummaryResult(node)  PROVE TooGreat(v)
      <4>1. PICK i \in DOMAIN v.value.messages : ~ AllFit(v.value.messages[i].result)
        BY <2>2, <3>1, Zenon DEF SummaryNode
      <4>2. ~ \A b \in {"total", "good", "failed"} : Representable(v.value.messages[i].result[b])
        BY <4>1, Zenon DEF AllFit, Representable
      <4> QED BY <1>6, <4>1, <4>2, Zenon DEF TooGreat
    <3> QED BY <3>1
  <2> QED BY <2>5, <2>6, <2>7, Zenon
<1> QED BY <1>4, <1>5, <1>6

\* What is known of an answer; no step but a download makes a result of it.
Answered ==
  /\ verdict # {} => stage \in {"download", "done"}
  /\ \A v \in verdict :
       /\ v \in Results
       /\ outcome = "Received" => parsed = {v}
       /\ outcome = "Xml" => TooGreat(v)

\* A download ends with the result that was given, or with the reason.
LEMMA DownloadAnswers ==
  ASSUME Shape, Answered, Download
  PROVE  Answered'
<1>1. PICK v \in verdict :
        LET kind  == ClassifyRemoteName(ResultName(v))
            error == ParseError(kind, ResultXml(v))
            root  == ReadXml(ResultXml(v))[1]
        IN  IF error = "Ok"
            THEN /\ Stop("Received")
                 /\ parsed' = {[kind  |-> kind,
                                value |-> IF kind = "SummaryResult" THEN SummaryResultOf(root)
                                          ELSE ProcessResultOf(root)]}
            ELSE Stop(error) /\ UNCHANGED parsed
  BY Zenon DEF Download
<1>2. v \in Results /\ verdict = {v} /\ verdict' = verdict
  BY Zenon DEF Download, Answered, Shape, AtMostOne
<1>3. ClassifyRemoteName(ResultName(v)) = v.kind  BY <1>2, ResultClassified
<1>4. PICK error : error = ParseError(v.kind, ResultXml(v))  OBVIOUS
<1>5. IF error = "Ok" THEN Stop("Received") /\ parsed' = {ParsedOf(v.kind, RootOf(v))}
      ELSE Stop(error) /\ UNCHANGED parsed
  BY <1>1, <1>3, <1>4, Zenon DEF ParsedOf, RootOf
<1>6. /\ error \in {"Ok", "Xml"}
      /\ error = "Ok" => ParsedOf(v.kind, RootOf(v)) = v
      /\ error = "Xml" => TooGreat(v)
  BY <1>2, <1>4, ResultParsed, Zenon
<1>7. stage' = "done" /\ TooGreat(v)' = TooGreat(v)
  BY <1>5, Zenon DEF Stop, TooGreat
<1>8. outcome' = "Received" => parsed' = {v}
  <2>1. "Xml" # "Received"  OBVIOUS
  <2> QED BY <1>5, <1>6, <2>1, Zenon DEF Stop
<1>9. outcome' = "Xml" => TooGreat(v)
  <2>1. "Xml" # "Received"  OBVIOUS
  <2> QED BY <1>5, <1>6, <2>1, Zenon DEF Stop
<1> QED BY <1>2, <1>7, <1>8, <1>9, Zenon DEF Answered

\* Every step keeps Answered.
LEMMA AnsweredKept ==
  ASSUME Shape, Shape', SessionTypeOK', Busy, Answered, [Next]_vars
  PROVE  Answered'
<1>1. CASE verdict' = verdict /\ verdict = {}
  BY <1>1 DEF Answered
<1>2. CASE stage \notin {"download", "done"} /\ verdict' = verdict
  BY <1>1, <1>2 DEF Answered
<1>3. CASE ComposeInvoice
  BY <1>2, <1>3 DEF ComposeInvoice
<1>4. CASE PackageByCli \/ PackageByClient
  BY <1>2, <1>4 DEF PackageByCli, PackageByClient
<1>5. CASE ReadFails
  BY <1>2, <1>5 DEF ReadFails
<1>6. CASE BeginUpload
  BY <1>2, <1>6 DEF BeginUpload
<1>7. CASE InSession
  <2>1. verdict' = verdict /\ parsed' = parsed  BY <1>7 DEF InSession
  <2>2. CASE failure' # "none"
    <3>1. outcome' = failure' /\ stage' = "done"  BY <1>7, <2>2 DEF InSession, Stop
    <3>2. outcome' # "Received" /\ outcome' # "Xml"
      BY <3>1 DEF SessionTypeOK, Failures
    <3> QED BY <2>1, <3>1, <3>2 DEF Answered
  <2>3. CASE failure' = "none"
    <3>1. UNCHANGED <<stage, outcome>>  BY <1>7, <2>3 DEF InSession
    <3> QED BY <2>1, <3>1 DEF Answered, TooGreat
  <2> QED BY <2>2, <2>3
<1>8. CASE Upload
  BY <1>2, <1>8 DEF Upload
<1>9. CASE Notify
  BY <1>2, <1>9 DEF Notify
<1>10. CASE PlatformAnswers
  <2>1. PICK v : v \in Results /\ verdict' = {v}  BY <1>10 DEF PlatformAnswers
  <2>2. stage = "platform" /\ stage' = "download" /\ outcome' = outcome
    BY <1>10 DEF PlatformAnswers, Continue
  <2>3. outcome = "running"  BY <2>2 DEF Shape
  <2> QED BY <2>1, <2>2, <2>3 DEF Answered
<1>11. CASE BeginDownload
  BY <1>11 DEF BeginDownload, chainVars, Answered, TooGreat
<1>12. CASE Download
  BY <1>12, DownloadAnswers
<1>13. CASE UNCHANGED vars
  BY <1>13 DEF vars, chainVars, Answered, TooGreat
<1> QED BY <1>3, <1>4, <1>5, <1>6, <1>7, <1>8, <1>9, <1>10, <1>11, <1>12, <1>13 DEF Next

\* What the platform said of a submission is what the caller gets from
\* poll_reconciliation (inbound.rs and the parsers of einvoice-results):
\* field by field, or an error because a count does not fit.  Texts are those
\* that quick-xml hands over; what it does to white space is not modelled.
THEOREM ResultsReadBack == Spec => []ResultReadBack
<1>1. Init => Answered  BY DEF Init, Answered
<1>2. ChainInv /\ ChainInv' /\ Answered /\ [Next]_vars => Answered'
  BY AnsweredKept DEF ChainInv
<1>3. Answered => ResultReadBack  BY DEF Answered, ResultReadBack, TooGreat
<1> QED BY <1>1, <1>2, <1>3, ChainAlways, PTL DEF Spec

-----------------------------------------------------------------------------
(* The signature *)

\* The names and the type in a file name are texts.
LEMMA NamesAreTexts ==
  ASSUME NEW text \in Words, PackFilenameError(text) = "Ok"
  PROVE  LET name == PackFilename(text)
         IN  IsSeq(name.from_party) /\ IsSeq(name.to_party) /\ IsSeq(name.common_name.message_type)
<1>1. ~ (Len(RightPieces(text)) < 5)
  BY DEF PackFilenameError
<1>2. PICK f, a, b, c, d \in Words : NameParts(text, f, a, b, c, d)
  BY <1>1, PartsOfName
<1>3. RightPieces(text) = <<f, a, b, c, d>>
  BY <1>2, PiecesOfName
<1>4. /\ PackFilenameError(text) = IF f = <<>> THEN "InvalidPackFilename"
                                   ELSE IF ~ IsI32(d) THEN "InvalidPackCount"
                                   ELSE CommonNameError(c)
      /\ PackFilename(text) =
           [source_name |-> f, from_party |-> a, to_party |-> b,
            common_name |-> CommonName(c), pack_count |-> I32Value(d)]
  BY <1>3, PackOfPieces
<1>5. CommonNameError(c) = "Ok"
  BY <1>4
<1>6. IsSeq(CommonName(c).message_type)
  <2>1. "-" \in Char  BY TextsAreWords
  <2>2. PICK parts : parts = Split(c, "-") /\ parts \in Seq(Words)
    BY <2>1, SplitSteps DEF Lists
  <2>3. Len(parts) = Len(SegmentLengths)  BY <1>5, <2>2 DEF CommonNameError
  <2>4. 2 \in 1 .. Len(parts)  BY <2>3 DEF SegmentLengths
  <2>5. parts[2] \in Words  BY <2>2, <2>4, ElementOfSeq
  <2>6. CommonName(c).message_type = parts[2]  BY <2>2, Zenon DEF CommonName
  <2> QED BY <2>5, <2>6 DEF Words, IsSeq
<1>7. IsSeq(a) /\ IsSeq(b)  BY DEF Words, IsSeq
<1> QED BY <1>4, <1>6, <1>7

\* What is put in a sequence comes in places of its own.
LEMMA OneInSeq ==
  ASSUME NEW S, S = {} \/ \E x : S = {x}
  PROVE  IsSeq(SetToSeq(S)) /\ \A i \in DOMAIN SetToSeq(S) : SetToSeq(S)[i] \in S
<1>1. PICK n \in Nat : n = Cardinality(S) /\ (S = {} => n = 0) /\ (\A x : S = {x} => n = 1)
  <2>1. S = {} => Cardinality(S) = 0  BY FS_EmptySet
  <2>2. ASSUME NEW x, S = {x}  PROVE Cardinality(S) = 1
    <3>1. Cardinality({x}) = 1  BY FS_Singleton
    <3> QED BY <2>2, <3>1
  <2>3. Cardinality(S) \in Nat  BY <2>1, <2>2
  <2> QED BY <2>1, <2>2, <2>3
<1>2. \E f \in [1 .. n -> S] : IsInjective(f)
  <2>1. CASE S = {}
    <3>1. PICK f : f = [i \in 1 .. n |-> 0]  OBVIOUS
    <3>2. f \in [1 .. n -> S] /\ IsInjective(f)  BY <1>1, <2>1, <3>1 DEF IsInjective
    <3> QED BY <3>2
  <2>2. ASSUME NEW x, S = {x}  PROVE \E f \in [1 .. n -> S] : IsInjective(f)
    <3>1. PICK f : f = [i \in 1 .. n |-> x]  OBVIOUS
    <3>2. n = 1  BY <1>1, <2>2
    <3>3. f \in [1 .. n -> S]  BY <2>2, <3>1
    <3>4. \A a, b \in 1 .. n : a = b  BY <3>2
    <3>5. DOMAIN f = 1 .. n  BY <3>1
    <3>6. IsInjective(f)  BY <3>4, <3>5, Zenon DEF IsInjective
    <3> QED BY <3>3, <3>6
  <2> QED BY <2>1, <2>2
<1>3. SetToSeq(S) \in [1 .. n -> S]  BY <1>1, <1>2 DEF SetToSeq
<1>4. PICK f : f = SetToSeq(S)  OBVIOUS
<1>5. f \in Seq(S) /\ DOMAIN f = 1 .. n /\ f \in [1 .. n -> S]  BY <1>3, <1>4
<1>6. \A i \in DOMAIN f : f[i] \in S  BY <1>5
<1> QED BY <1>4, <1>5, <1>6 DEF IsSeq

\* A party or a route with its description is one of texts.
LEMMA PartyHasTexts ==
  ASSUME NEW id, IsSeq(id), NEW who, NEW descriptions,
         \A w \in DOMAIN descriptions : descriptions[w] \in Texts
  PROVE  HasTexts(Party(id, who, descriptions))
<1>1. CASE who \in DOMAIN descriptions
  <2>1. Party(id, who, descriptions) = [identifier |-> id, description |-> descriptions[who]]
    BY <1>1 DEF Party
  <2>2. IsSeq(descriptions[who])  BY <1>1, TextsAreSeqs
  <2> QED BY <2>1, <2>2 DEF HasTexts
<1>2. CASE who \notin DOMAIN descriptions
  <2>1. Party(id, who, descriptions) = [identifier |-> id]  BY <1>2 DEF Party
  <2> QED BY <2>1 DEF HasTexts
<1> QED BY <1>1, <1>2

\* An artifact that this identity signed, whatever the XML in it.
SignedBy(p, pfx) ==
  /\ PfxFromDer(pfx) = "Ok"
  /\ \E xml : IsSeq(xml) /\ p.artifact.bytes = ToTurnkeyArmored(SignAttached(pfx, xml))

\* What was written is a document, and what was packed is signed by the
\* identity of the request.
Written ==
  /\ \A xml \in payload : IsSeq(xml)
  /\ \A p \in prepared : SignedBy(p, request.pfx)

\* The documents of an envelope: the invoice, and the files given with it.
LEMMA PayloadsAreSeqs ==
  ASSUME Shape, Written, request \in Requests, NEW payloads,
         payloads = SetToSeq(payload) \o request.args.mig
  PROVE  IsSeq(payloads) /\ \A i \in DOMAIN payloads : IsSeq(payloads[i])
<1>1. PICK a, b : a = SetToSeq(payload) /\ b = request.args.mig  OBVIOUS
<1>2. IsSeq(a) /\ \A i \in DOMAIN a : a[i] \in payload
  BY <1>1, OneInSeq DEF Shape, AtMostOne
<1>3. b \in Seq(Documents)
  BY <1>1, RequestAssumption DEF IsSubmissionArguments
<1>4. IsSeq(b) /\ \A i \in DOMAIN b : IsSeq(b[i])
  <2>1. \A d \in Documents : IsSeq(d)  BY DEF Documents, IsSeq
  <2> QED BY <1>3, <2>1, SeqOver
<1>5. PICK D : D = {d \in payload \cup {b[i] : i \in DOMAIN b} : IsSeq(d)}  OBVIOUS
<1>6. a \in Seq(D)
  <2>1. \A i \in DOMAIN a : a[i] \in D  BY <1>2, <1>5 DEF Written
  <2> QED BY <1>2, <2>1 DEF IsSeq
<1>7. b \in Seq(D)
  <2>1. \A i \in DOMAIN b : b[i] \in D  BY <1>4, <1>5
  <2> QED BY <1>4, <2>1 DEF IsSeq
<1>8. payloads \in Seq(D)  BY <1>1, <1>6, <1>7
<1>9. \A i \in DOMAIN payloads : payloads[i] \in D  BY <1>8, SeqOver
<1> QED BY <1>5, <1>8, <1>9 DEF IsSeq

\* The envelope that the command line makes.
LEMMA CliEnvelope ==
  ASSUME Shape, Written, request \in Requests,
         NEW args, args = [request.args EXCEPT !.mig = SetToSeq(payload) \o @],
         PlanError(args) = "Ok"
  PROVE  IsEnvelope(BuildSubmissionPlan(args).envelope)
<1>1. IsSubmissionArguments(request.args)  BY RequestAssumption
<1>2. /\ args.filename = request.args.filename /\ args.descriptions = request.args.descriptions
      /\ args.from_vac = request.args.from_vac /\ args.to_vac = request.args.to_vac
      /\ args.mig = SetToSeq(payload) \o request.args.mig
  BY <1>1 DEF IsSubmissionArguments
<1>3. PICK name : name = PackFilename(args.filename)  OBVIOUS
<1>4. IsSeq(name.from_party) /\ IsSeq(name.to_party) /\ IsSeq(name.common_name.message_type)
  <2>1. args.filename \in Words  BY <1>2, TextsOfRequests, TextsAreWords
  <2>2. PackFilenameError(args.filename) = "Ok"  BY DEF PlanError
  <2> QED BY <1>3, <2>1, <2>2, NamesAreTexts
<1>5. IsSeq(args.mig) /\ \A i \in DOMAIN args.mig : IsSeq(args.mig[i])
  BY <1>2, PayloadsAreSeqs
<1>6. IsSeq(args.from_vac) /\ IsSeq(args.to_vac)
  BY <1>1, <1>2, TextsAreSeqs DEF IsSubmissionArguments
<1>7. \A w \in DOMAIN args.descriptions : args.descriptions[w] \in Texts
  BY <1>1, <1>2 DEF IsSubmissionArguments
<1>8. PICK a, b, c, d : /\ a = Party(name.from_party, "from", args.descriptions)
                        /\ b = Party(args.from_vac, "from_vac", args.descriptions)
                        /\ c = Party(name.to_party, "to", args.descriptions)
                        /\ d = Party(args.to_vac, "to_vac", args.descriptions)
  OBVIOUS
<1>9. HasTexts(a) /\ HasTexts(b) /\ HasTexts(c) /\ HasTexts(d)
  BY <1>4, <1>6, <1>7, <1>8, PartyHasTexts
<1>10. PICK e : e = BuildSubmissionPlan(args).envelope  OBVIOUS
<1>11. e = [routing |-> [from |-> a, from_vac |-> b, to |-> c, to_vac |-> d],
            messageType |-> name.common_name.message_type, payloads |-> args.mig]
  BY <1>3, <1>8, <1>10 DEF BuildSubmissionPlan
<1>12. /\ e.routing.from = a /\ e.routing.from_vac = b /\ e.routing.to = c /\ e.routing.to_vac = d
       /\ e.messageType = name.common_name.message_type /\ e.payloads = args.mig
  BY <1>11
<1> QED BY <1>4, <1>5, <1>9, <1>10, <1>12 DEF IsEnvelope

\* The envelope that a client of the library makes.
LEMMA ClientEnvelope ==
  ASSUME Shape, Written, request \in Requests, NEW payloads, NEW name, NEW plan,
         payloads = SetToSeq(payload) \o request.args.mig,
         plan = [request.plan EXCEPT !.envelope.payloads = payloads, !.filename.common_name = name]
  PROVE  IsEnvelope(plan.envelope)
<1>1. IsSubmissionPlan(request.plan)  BY RequestAssumption
<1>2. PICK e, r : e = plan.envelope /\ r = request.plan.envelope.routing  OBVIOUS
<1>3. e.routing = r /\ e.messageType = request.plan.envelope.messageType /\ e.payloads = payloads
  BY <1>1, <1>2 DEF IsSubmissionPlan
<1>4. ASSUME NEW side \in {r.from, r.from_vac, r.to, r.to_vac}  PROVE HasTexts(side)
  <2>1. \A f \in {"identifier"} \cup ({"description"} \cap DOMAIN side) : side[f] \in Texts
    BY <1>1, <1>2, <1>4, Zenon DEF IsSubmissionPlan
  <2>2. side["identifier"] \in Texts /\ ("description" \in DOMAIN side => side["description"] \in Texts)
    BY <2>1
  <2> QED BY <2>2, TextsAreSeqs DEF HasTexts
<1>5. IsSeq(e.messageType)  BY <1>1, <1>3, TextsAreSeqs DEF IsSubmissionPlan
<1>6. IsSeq(payloads) /\ \A i \in DOMAIN payloads : IsSeq(payloads[i])  BY PayloadsAreSeqs
<1> QED BY <1>2, <1>3, <1>4, <1>5, <1>6 DEF IsEnvelope

\* A package is signed by the identity that it was asked for.
LEMMA PackageIsSigned ==
  ASSUME NEW plan, NEW pfx, PfxFromDer(pfx) = "Ok", IsEnvelope(plan.envelope)
  PROVE  SignedBy(PrepareSubmission(plan, pfx), pfx)
<1>1. PICK xml : xml = ToTurnkeyXml(plan.envelope) /\ IsSeq(xml)  BY EnvelopeIsSeq
<1>2. PICK p : p = PrepareSubmission(plan, pfx)  OBVIOUS
<1>3. p.artifact = PackAndSign(plan.envelope, pfx)  BY <1>2 DEF PrepareSubmission
<1>4. p.artifact.bytes = ToTurnkeyArmored(SignAttached(pfx, xml))  BY <1>1, <1>3 DEF PackAndSign
<1> QED BY <1>1, <1>2, <1>4 DEF SignedBy

\* Every step keeps Written.
LEMMA WrittenKept ==
  ASSUME Shape, Busy, Composed, PackedAs, Written, [Next]_vars
  PROVE  Written'
<1>0. request' = request /\ request \in Requests
  BY WhatStaysAsItIs DEF Composed
<1>1. \A p : SignedBy(p, request.pfx)' <=> SignedBy(p, request.pfx)
  BY <1>0 DEF SignedBy
<1>2. ASSUME NEW plan, Packaged(plan), IsEnvelope(plan.envelope), PfxFromDer(request.pfx) = "Ok",
             payload' = payload
      PROVE  Written'
  <2>1. CASE prepared' = prepared
    BY <1>0, <1>1, <1>2, <2>1 DEF Written
  <2>2. CASE prepared' = {PrepareSubmission(plan, request.pfx)}
    <3>1. PICK p : p = PrepareSubmission(plan, request.pfx)  OBVIOUS
    <3>2. SignedBy(p, request.pfx)  BY <1>2, <3>1, PackageIsSigned
    <3>3. prepared' = {p}  BY <2>2, <3>1
    <3> QED BY <1>1, <1>2, <3>2, <3>3 DEF Written
  <2>3. prepared' = prepared \/ prepared' = {PrepareSubmission(plan, request.pfx)}
    BY <1>2, Zenon DEF Packaged
  <2> QED BY <2>1, <2>2, <2>3
<1>3. CASE ComposeInvoice
  <2>1. prepared' = prepared  BY <1>3 DEF ComposeInvoice
  <2>2. payload' = payload \/ payload' = {ToXml(request.invoice)}
    BY <1>3, Zenon DEF ComposeInvoice
  <2>3. IsSeq(ToXml(request.invoice))  BY <1>0, RequestAssumption, InvoiceIsSeq
  <2> QED BY <1>1, <2>1, <2>2, <2>3 DEF Written
<1>4. CASE PackageByCli
  <2>1. PICK args : args = [request.args EXCEPT !.mig = SetToSeq(payload) \o @]  OBVIOUS
  <2>2. payload' = payload  BY <1>4 DEF PackageByCli
  <2>3. \/ prepared' = prepared
        \/ /\ PfxFromDer(request.pfx) = "Ok" /\ PlanError(args) = "Ok"
           /\ Packaged(BuildSubmissionPlan(args))
    BY <1>4, <2>1, Zenon DEF PackageByCli
  <2>4. CASE prepared' = prepared  BY <1>1, <2>2, <2>4 DEF Written
  <2>5. CASE /\ PfxFromDer(request.pfx) = "Ok" /\ PlanError(args) = "Ok"
             /\ Packaged(BuildSubmissionPlan(args))
    <3>1. PICK plan : plan = BuildSubmissionPlan(args)  OBVIOUS
    <3>2. IsEnvelope(plan.envelope)  BY <1>0, <2>1, <2>5, <3>1, CliEnvelope
    <3>3. Packaged(plan)  BY <2>5, <3>1
    <3> QED BY <1>2, <2>2, <2>5, <3>2, <3>3
  <2> QED BY <2>3, <2>4, <2>5
<1>5. CASE PackageByClient
  <2>1. PICK payloads, name : /\ payloads = SetToSeq(payload) \o request.args.mig
                              /\ name = FromParts(request.plan.filename.common_name)
    OBVIOUS
  <2>2. PICK plan : plan = [request.plan EXCEPT !.envelope.payloads = payloads,
                                                !.filename.common_name = name]
    OBVIOUS
  <2>3. payload' = payload  BY <1>5 DEF PackageByClient
  <2>4. prepared' = prepared \/ (PfxFromDer(request.pfx) = "Ok" /\ Packaged(plan))
    BY <1>5, <2>1, <2>2, Zenon DEF PackageByClient
  <2>5. CASE prepared' = prepared  BY <1>1, <2>3, <2>5 DEF Written
  <2>6. CASE PfxFromDer(request.pfx) = "Ok" /\ Packaged(plan)
    <3>1. IsEnvelope(plan.envelope)  BY <1>0, <2>1, <2>2, ClientEnvelope
    <3> QED BY <1>2, <2>3, <2>6, <3>1
  <2> QED BY <2>4, <2>5, <2>6
<1>6. CASE ~ ComposeInvoice /\ ~ PackageByCli /\ ~ PackageByClient
  <2>1. prepared' = prepared  BY <1>6, WhoPacks
  <2>2. payload' = payload  BY <1>6, WhatStaysAsItIs
  <2> QED BY <1>1, <2>1, <2>2 DEF Written
<1> QED BY <1>3, <1>4, <1>5, <1>6

\* What an identity that PfxSigner::from_der accepts signs with.
LEMMA IdentitySigns ==
  ASSUME NEW pfx, IsPfx(pfx), PfxFromDer(pfx) = "Ok", NEW content, IsSeq(content),
         NEW parts, parts = [content     |-> content,
                             certificate |-> pfx.certificate.der,
                             issuer      |-> pfx.certificate.issuer,
                             serial      |-> pfx.certificate.serial,
                             algorithm   |-> SignatureAlgorithms[pfx.key.kind],
                             signature   |-> [i \in 1 .. pfx.key.size |-> <<"key", pfx.key.public>>]]
  PROVE  /\ Signable(parts) /\ SignAttached(pfx, content) = EncodeTurnkeySignedData(parts)
         /\ parts.certificate = pfx.certificate.der /\ parts.issuer = pfx.certificate.issuer
         /\ parts.serial = pfx.certificate.serial
         /\ parts.algorithm = SignatureAlgorithms[pfx.key.kind]
         /\ parts.signature # <<>> /\ ToSet(parts.signature) = {<<"key", pfx.certificate.public>>}
<1>1. "key" \in DOMAIN pfx /\ "certificate" \in DOMAIN pfx /\ pfx.certificate.public = pfx.key.public
  BY DEF PfxFromDer
<1>2. /\ pfx.key.size \in Nat \ {0}
      /\ IsDerSequence(pfx.certificate.der) /\ IsDerSequence(pfx.certificate.issuer)
      /\ pfx.certificate.serial \in Seq({Octet(n) : n \in 0 .. 255})
  BY <1>1 DEF IsPfx
<1>3. PICK n \in Nat \ {0} : n = pfx.key.size  BY <1>2
<1>4. PICK key : key = <<"key", pfx.certificate.public>>  OBVIOUS
<1>5. PICK s : s = [i \in 1 .. n |-> key]  OBVIOUS
<1>6. /\ parts.content = content /\ parts.certificate = pfx.certificate.der
      /\ parts.issuer = pfx.certificate.issuer /\ parts.serial = pfx.certificate.serial
      /\ parts.algorithm = SignatureAlgorithms[pfx.key.kind] /\ parts.signature = s
  BY <1>1, <1>3, <1>4, <1>5
<1>7. s = [i \in 1 .. n |-> s[i]]  BY <1>5
<1>8. IsSeq(s) /\ Len(s) = n  BY <1>7, PlacesSeq
<1>9. s # <<>>  BY <1>3, <1>8
<1>10. DOMAIN s = 1 .. n /\ 1 \in 1 .. n  BY <1>3, <1>5
<1>11. ToSet(s) = {key}  BY <1>5, <1>10 DEF ToSet
<1>12. SignAttached(pfx, content) = EncodeTurnkeySignedData(parts)
  BY Zenon DEF SignAttached
<1>13. Signable(parts)  BY <1>2, <1>6, <1>8 DEF Signable, Octets
<1> QED BY <1>4, <1>6, <1>9, <1>11, <1>12, <1>13

\* What an object in the inbox carries, zipped or not, is an artifact.
LEMMA ObjectIsArtifact ==
  ASSUME Transported, NEW o \in inbound
  PROVE  \E p \in prepared : o.bytes.bytes = p.artifact.bytes
<1>1. PICK p \in prepared : o = [name  |-> PrepareUploadObject(p).remote_filename,
                                 bytes |-> PrepareUploadObject(p).uploaded_bytes]
  BY DEF Transported
<1>2. PICK bytes : bytes = p.artifact.bytes  OBVIOUS
<1>3. \/ PrepareUploadObject(p).uploaded_bytes = ZipSingleEntry(RenderPackFilename(p.filename), bytes)
      \/ PrepareUploadObject(p).uploaded_bytes = Plain(bytes)
  <2>1. PICK z : z = ZipSingleEntry(RenderPackFilename(p.filename), bytes)  OBVIOUS
  <2>2. PICK u : u = Plain(bytes)  OBVIOUS
  <2>3. PrepareUploadObject(p).uploaded_bytes = IF p.zip = "Zip" THEN z ELSE u
    BY <1>2, <2>1, <2>2 DEF PrepareUploadObject
  <2> QED BY <2>1, <2>2, <2>3, Zenon
<1>4. \A name : ZipSingleEntry(name, bytes).bytes = bytes /\ Plain(bytes).bytes = bytes
  BY DEF ZipSingleEntry, Plain
<1>5. o.bytes = PrepareUploadObject(p).uploaded_bytes  BY <1>1
<1> QED BY <1>2, <1>3, <1>4, <1>5, Zenon

\* What any reader of the formats finds in an artifact of this identity.
SignatureOf(s, pfx) ==
  /\ s.signature # <<>> /\ ToSet(s.signature) = {<<"key", pfx.certificate.public>>}
  /\ s.algorithm = <<<<"oid", SignatureAlgorithms[pfx.key.kind]>>>>
  /\ s.certificate = pfx.certificate.der
  /\ s.issuer = Body(pfx.certificate.issuer, 1, \h30)
  /\ Positive(s.serial)
  /\ Magnitude(s.serial) = Magnitude(pfx.certificate.serial)

\* It is the identity and its signature.
LEMMA ArtifactOpened ==
  ASSUME NEW pfx, IsPfx(pfx), NEW p, SignedBy(p, pfx)
  PROVE  SignatureOf(ReadSignedData(DecodeArmor(p.artifact.bytes)), pfx)
<1>1. PICK xml : IsSeq(xml) /\ p.artifact.bytes = ToTurnkeyArmored(SignAttached(pfx, xml))
  BY DEF SignedBy
<1>2. PICK parts :
        parts = [content     |-> xml,
                 certificate |-> pfx.certificate.der,
                 issuer      |-> pfx.certificate.issuer,
                 serial      |-> pfx.certificate.serial,
                 algorithm   |-> SignatureAlgorithms[pfx.key.kind],
                 signature   |-> [i \in 1 .. pfx.key.size |-> <<"key", pfx.key.public>>]]
  OBVIOUS
<1>3. /\ Signable(parts) /\ SignAttached(pfx, xml) = EncodeTurnkeySignedData(parts)
      /\ parts.certificate = pfx.certificate.der /\ parts.issuer = pfx.certificate.issuer
      /\ parts.serial = pfx.certificate.serial
      /\ parts.algorithm = SignatureAlgorithms[pfx.key.kind]
      /\ parts.signature # <<>> /\ ToSet(parts.signature) = {<<"key", pfx.certificate.public>>}
  <2>1. PfxFromDer(pfx) = "Ok"  BY DEF SignedBy
  <2> QED BY <1>1, <1>2, <2>1, IdentitySigns, ZenonT(40)
<1>4. PICK cms : cms = EncodeTurnkeySignedData(parts)  OBVIOUS
<1>5. IsSeq(cms) /\ cms # <<>>
  <2>1. IsValue(cms)  BY <1>3, <1>4, MessageForm
  <2>2. IsSeq(cms)  BY <2>1, ValueFacts
  <2>3. Len(cms) >= 2  BY <2>1 DEF IsValue
  <2> QED BY <2>2, <2>3
<1>6. DecodeArmor(p.artifact.bytes) = cms
  BY <1>1, <1>3, <1>4, <1>5, ArmorReadBack, Zenon
<1>7. Encodes(cms, parts)  BY <1>4 DEF Encodes
<1>8. PICK s : s = ReadSignedData(cms)  OBVIOUS
<1>9. /\ s.certificate = parts.certificate /\ s.issuer = Body(parts.issuer, 1, \h30)
      /\ Positive(s.serial) /\ Magnitude(s.serial) = Magnitude(parts.serial)
      /\ s.algorithm = <<<<"oid", parts.algorithm>>>> /\ s.signature = parts.signature
  BY <1>3, <1>7, <1>8, SignedDataRead, Zenon
<1> QED BY <1>3, <1>6, <1>8, <1>9, Zenon DEF SignatureOf

\* Whatever is submitted, the certificate in the signed message is that of
\* the key that signed it, named by its issuer and its serial number, and the
\* algorithm is the one for the key: PfxSigner::from_der of pfx.rs lets no
\* other pair through, and ber.rs and to_turnkey_armored write it such that
\* it can be read, for any document, any length and any serial number.
THEOREM SignaturesHold == Spec => []SignatureHolds
<1>1. Init => Written  BY DEF Init, Written
<1>2. ChainInv /\ Written /\ [Next]_vars => Written'
  BY WrittenKept DEF ChainInv
<1>3. ChainInv /\ Written => SignatureHolds
  <2> SUFFICES ASSUME ChainInv, Written, NEW s \in Opened
               PROVE  SignatureOf(s, request.pfx)
    BY Zenon DEF SignatureHolds, SignatureOf
  <2>1. PICK o \in inbound : s = ReadSignedData(DecodeArmor(o.bytes.bytes))  BY DEF Opened
  <2>2. PICK p \in prepared : o.bytes.bytes = p.artifact.bytes
    BY ObjectIsArtifact DEF ChainInv
  <2>3. IsPfx(request.pfx)  BY RequestAssumption DEF ChainInv, Composed
  <2>4. SignedBy(p, request.pfx)  BY DEF Written
  <2> QED BY <2>1, <2>2, <2>3, <2>4, ArtifactOpened, Zenon
<1> QED BY <1>1, <1>2, <1>3, ChainAlways, PTL DEF Spec

-----------------------------------------------------------------------------
(* Line ends *)

\* How many of them come before a place.
CountBefore(D, i) == Cardinality({j \in D : j < i})

\* Of the places that are left without those of a set, the k-th one.
PlaceIn(D, k) == CHOOSE i \in (k .. k + Cardinality(D)) \ D : i = k + CountBefore(D, i)

\* Sets of places, and how many are before a place.
LEMMA PlacesBefore ==
  ASSUME NEW n \in Nat, NEW D, D \subseteq 1 .. n
  PROVE  /\ IsFiniteSet(D) /\ Cardinality(D) \in Nat /\ Cardinality(D) <= n
         /\ \A i : CountBefore(D, i) \in Nat /\ CountBefore(D, i) <= Cardinality(D)
         /\ CountBefore(D, n + 1) = Cardinality(D)
<1>1. PICK I : I = 1 .. n  OBVIOUS
<1>2. IsFiniteSet(I) /\ Cardinality(I) = n  BY <1>1, FS_Interval
<1>3. IsFiniteSet(D) /\ Cardinality(D) \in Nat /\ Cardinality(D) <= n
  BY <1>1, <1>2, FS_Subset, FS_CardinalityType
<1>4. ASSUME NEW i  PROVE CountBefore(D, i) \in Nat /\ CountBefore(D, i) <= Cardinality(D)
  <2>1. PICK E : E = {j \in D : j < i}  OBVIOUS
  <2>2. E \subseteq D  BY <2>1
  <2>3. IsFiniteSet(E) /\ Cardinality(E) \in Nat /\ Cardinality(E) <= Cardinality(D)
    BY <1>3, <2>2, FS_Subset, FS_CardinalityType
  <2> QED BY <2>1, <2>3 DEF CountBefore
<1>5. CountBefore(D, n + 1) = Cardinality(D)
  <2>1. \A j \in D : j \in 1 .. n /\ j < n + 1  OBVIOUS
  <2>2. {j \in D : j < n + 1} = D  BY <2>1
  <2> QED BY <2>2 DEF CountBefore
<1> QED BY <1>3, <1>4, <1>5

\* A last place that is taken away, or that stays.
LEMMA LastPlace ==
  ASSUME NEW last \in Nat \ {0}, NEW D, D \subseteq 1 .. last
  PROVE  /\ D \ {last} \subseteq 1 .. last - 1
         /\ \A i \in 1 .. last : CountBefore(D, i) = CountBefore(D \ {last}, i)
         /\ last \in D => Cardinality(D) = Cardinality(D \ {last}) + 1
         /\ last \notin D => D \ {last} = D
<1>0. PICK E : E = D \ {last}  OBVIOUS
<1>1. E \subseteq 1 .. last - 1  BY <1>0
<1>2. ASSUME NEW i \in 1 .. last  PROVE CountBefore(D, i) = CountBefore(E, i)
  <2>1. {j \in D : j < i} = {j \in E : j < i}  BY <1>0, <1>2
  <2> QED BY <2>1 DEF CountBefore
<1>3. ASSUME last \in D  PROVE Cardinality(D) = Cardinality(E) + 1
  <2>1. IsFiniteSet(E)
    <3>1. last - 1 \in Nat  OBVIOUS
    <3> QED BY <1>1, <3>1, PlacesBefore
  <2>2. last \notin E /\ D = E \cup {last}  BY <1>0, <1>3
  <2> QED BY <2>1, <2>2, FS_AddElement
<1>4. last \notin D => E = D  BY <1>0
<1> QED BY <1>0, <1>1, <1>2, <1>3, <1>4, Zenon

\* The k-th place that is left.
IsKth(D, n, k, i) == i \in (1 .. n) \ D /\ i = k + CountBefore(D, i)

\* There is one for every number, and each is the one of its number.
LEMMA KthPlaces ==
  ASSUME NEW n \in Nat
  PROVE  \A D : D \subseteq 1 .. n =>
           /\ \A i \in (1 .. n) \ D : i - CountBefore(D, i) \in 1 .. n - Cardinality(D)
           /\ \A k \in 1 .. n - Cardinality(D) : \E i : IsKth(D, n, k, i)
           /\ \A k \in Int : \A i, j : IsKth(D, n, k, i) /\ IsKth(D, n, k, j) => i = j
<1> DEFINE Q(m, D) == /\ \A i \in (1 .. m) \ D : i - CountBefore(D, i) \in 1 .. m - Cardinality(D)
                      /\ \A k \in 1 .. m - Cardinality(D) : \E i : IsKth(D, m, k, i)
                      /\ \A k \in Int : \A i, j : IsKth(D, m, k, i) /\ IsKth(D, m, k, j) => i = j
           N == {m \in Nat : \A D : D \subseteq 1 .. m => Q(m, D)}
<1>1. 0 \in N
  <2>1. ASSUME NEW D, D \subseteq 1 .. 0  PROVE Q(0, D)
    <3>1. 1 .. 0 = {}  OBVIOUS
    <3>2. D = {} /\ Cardinality(D) = 0  BY <2>1, <3>1, FS_EmptySet
    <3> QED BY <3>1, <3>2 DEF IsKth
  <2> HIDE DEF Q
  <2> QED BY <2>1
<1>2. ASSUME NEW m \in Nat, m \in N  PROVE m + 1 \in N
  <2>1. ASSUME NEW D, D \subseteq 1 .. m + 1  PROVE Q(m + 1, D)
    <3>1. PICK E : E = D \ {m + 1}  OBVIOUS
    <3>2. /\ E \subseteq 1 .. m
          /\ \A i \in 1 .. m + 1 : CountBefore(D, i) = CountBefore(E, i)
          /\ m + 1 \in D => Cardinality(D) = Cardinality(E) + 1
          /\ m + 1 \notin D => E = D
      <4>1. PICK last \in Nat \ {0} : last = m + 1  OBVIOUS
      <4>2. D \subseteq 1 .. last  BY <2>1, <4>1
      <4>3. /\ D \ {last} \subseteq 1 .. last - 1
            /\ \A i \in 1 .. last : CountBefore(D, i) = CountBefore(D \ {last}, i)
            /\ last \in D => Cardinality(D) = Cardinality(D \ {last}) + 1
            /\ last \notin D => D \ {last} = D
        BY <4>2, LastPlace, Zenon
      <4>4. last - 1 = m  BY <4>1
      <4> QED BY <3>1, <4>1, <4>3, <4>4
    <3>10. m + 1 \in Nat  OBVIOUS
    <3>11. Cardinality(D) \in Nat /\ Cardinality(D) <= m + 1
      BY <2>1, <3>10, PlacesBefore, Zenon
    <3>12. /\ Cardinality(E) \in Nat /\ Cardinality(E) <= m
           /\ \A i : CountBefore(E, i) \in Nat
           /\ CountBefore(E, m + 1) = Cardinality(E)
      BY <3>2, PlacesBefore, Zenon
    <3>3. PICK d \in Nat, e \in Nat : d = Cardinality(D) /\ e = Cardinality(E)
      BY <3>11, <3>12
    <3>4. e <= m /\ d <= m + 1 /\ \A i : CountBefore(E, i) \in Nat
      BY <3>3, <3>11, <3>12
    <3>5. CountBefore(E, m + 1) = e  BY <3>3, <3>12
    <3>6. /\ \A i \in (1 .. m) \ E : i - CountBefore(E, i) \in 1 .. m - e
          /\ \A k \in 1 .. m - e : \E i : IsKth(E, m, k, i)
          /\ \A k \in Int : \A i, j : IsKth(E, m, k, i) /\ IsKth(E, m, k, j) => i = j
      BY <1>2, <3>2, <3>3
    <3>7. ASSUME NEW i \in 1 .. m, NEW k  PROVE IsKth(D, m + 1, k, i) <=> IsKth(E, m, k, i)
      <4>1. i \in 1 .. m + 1 /\ (i \in D <=> i \in E)  BY <3>1, <3>7
      <4> QED BY <3>2, <3>7, <4>1 DEF IsKth
    <3>8. CASE m + 1 \in D
      <4>1. d = e + 1  BY <3>2, <3>3, <3>8
      <4>2. \A i : i \in (1 .. m + 1) \ D <=> i \in (1 .. m) \ E  BY <3>1, <3>8
      <4>3. \A i \in (1 .. m + 1) \ D : i - CountBefore(D, i) \in 1 .. m + 1 - d
        BY <3>2, <3>6, <4>1, <4>2
      <4>4. \A k \in 1 .. m + 1 - d : \E i : IsKth(D, m + 1, k, i)
        <5>1. ASSUME NEW k \in 1 .. m + 1 - d  PROVE \E i : IsKth(D, m + 1, k, i)
          <6>1. k \in 1 .. m - e  BY <4>1
          <6>2. PICK i : IsKth(E, m, k, i)  BY <3>6, <6>1
          <6> QED BY <3>7, <6>2 DEF IsKth
        <5> QED BY <5>1
      <4>5. \A k \in Int : \A i, j : IsKth(D, m + 1, k, i) /\ IsKth(D, m + 1, k, j) => i = j
        BY <3>6, <3>7, <4>2 DEF IsKth
      <4> QED BY <3>3, <4>3, <4>4, <4>5
    <3>9. CASE m + 1 \notin D
      <4>1. d = e /\ E = D  BY <3>2, <3>3, <3>9
      <4>2. CountBefore(D, m + 1) = d  BY <3>5, <4>1
      <4>3. ASSUME NEW i \in (1 .. m + 1) \ D  PROVE i - CountBefore(D, i) \in 1 .. m + 1 - d
        <5>1. CASE i = m + 1  BY <3>3, <3>4, <4>1, <4>2, <5>1
        <5>2. CASE i # m + 1
          <6>1. i \in (1 .. m) \ E  BY <4>1, <4>3, <5>2
          <6> QED BY <3>3, <3>4, <3>6, <4>1, <6>1
        <5> QED BY <5>1, <5>2
      <4>4. ASSUME NEW k \in 1 .. m + 1 - d  PROVE \E i : IsKth(D, m + 1, k, i)
        <5>1. CASE k = m + 1 - d
          <6>1. m + 1 = k + CountBefore(D, m + 1)  BY <3>3, <4>2, <5>1
          <6>2. IsKth(D, m + 1, k, m + 1)  BY <3>9, <6>1 DEF IsKth
          <6> QED BY <6>2
        <5>2. CASE k # m + 1 - d
          <6>1. k \in 1 .. m - e  BY <3>3, <4>1, <4>4, <5>2
          <6>2. PICK i : IsKth(E, m, k, i)  BY <3>6, <6>1
          <6>3. i \in 1 .. m  BY <6>2 DEF IsKth
          <6> QED BY <3>7, <6>2, <6>3
        <5> QED BY <5>1, <5>2
      <4>5. ASSUME NEW k \in Int, NEW i, NEW j, IsKth(D, m + 1, k, i), IsKth(D, m + 1, k, j)
            PROVE  i = j
        <5>1. i \in 1 .. m + 1 /\ j \in 1 .. m + 1  BY <4>5 DEF IsKth
        <5>2. CASE i \in 1 .. m /\ j \in 1 .. m  BY <3>6, <3>7, <4>5, <5>2
        <5>3. ASSUME NEW x \in 1 .. m, IsKth(D, m + 1, k, x), IsKth(D, m + 1, k, m + 1)
              PROVE  FALSE
          <6>1. x \in (1 .. m) \ E /\ x = k + CountBefore(E, x)
            BY <3>7, <5>3 DEF IsKth
          <6>2. m + 1 = k + e  BY <4>1, <4>2, <5>3 DEF IsKth
          <6>3. PICK b \in Nat : b = CountBefore(E, x)  BY <3>4
          <6>4. x - b \in 1 .. m - e  BY <3>6, <6>1, <6>3
          <6>5. x = k + b  BY <6>1, <6>3
          <6>6. m + 1 \in Int /\ IsKth(D, m + 1, k, x)  BY <5>3
          <6> QED BY <3>3, <4>5, <6>2, <6>3, <6>4, <6>5
        <5> QED BY <4>5, <5>1, <5>2, <5>3
      <4> QED BY <3>3, <4>3, <4>4, <4>5
    <3> QED BY <3>8, <3>9
  <2> HIDE DEF Q
  <2> QED BY <2>1
<1>3. n \in N
  <2> HIDE DEF N
  <2> QED BY <1>1, <1>2, NatInduct
<1> QED BY <1>3

\* That is the one that is chosen.
LEMMA KthIsChosen ==
  ASSUME NEW n \in Nat, NEW D, D \subseteq 1 .. n, NEW k \in 1 .. n - Cardinality(D)
  PROVE  /\ IsKth(D, n, k, PlaceIn(D, k))
         /\ \A i : IsKth(D, n, k, i) => PlaceIn(D, k) = i
<1>1. PICK i : IsKth(D, n, k, i)  BY KthPlaces
<1>2. \A j : IsKth(D, n, k, j) => j = i
  <2>1. Cardinality(D) \in Nat  BY PlacesBefore
  <2>2. k \in Int  BY <2>1
  <2> QED BY <1>1, <2>2, KthPlaces
<1>3. PICK d \in Nat : d = Cardinality(D) /\ \A j : CountBefore(D, j) \in Nat /\ CountBefore(D, j) <= d
  BY PlacesBefore
<1>4. i \in (k .. k + d) \ D /\ i = k + CountBefore(D, i)
  <2>1. PICK b \in Nat : b = CountBefore(D, i) /\ b <= d  BY <1>3
  <2>2. i \in (1 .. n) \ D /\ i = k + b  BY <1>1, <2>1 DEF IsKth
  <2> QED BY <1>3, <2>1, <2>2
<1>5. ASSUME NEW j \in (k .. k + d) \ D, j = k + CountBefore(D, j)  PROVE IsKth(D, n, k, j)
  <2>1. k + d <= n  BY <1>3
  <2>2. j \in 1 .. n  BY <1>3, <1>5, <2>1
  <2> QED BY <1>5, <2>2 DEF IsKth
<1>6. PlaceIn(D, k) = i
  <2>1. PICK S : S = (k .. k + d) \ D  OBVIOUS
  <2>2. PlaceIn(D, k) = CHOOSE j \in S : j = k + CountBefore(D, j)  BY <1>3, <2>1 DEF PlaceIn
  <2>3. i \in S /\ i = k + CountBefore(D, i)  BY <1>4, <2>1
  <2>4. \A j \in S : j = k + CountBefore(D, j) => j = i  BY <1>2, <1>5, <2>1
  <2> QED BY <2>2, <2>3, <2>4
<1> QED BY <1>1, <1>2, <1>6

\* Where a line feed follows a carriage return.
Dropped(text, cr, lf) == {i \in 1 .. Len(text) - 1 : text[i] = cr /\ text[i + 1] = lf}

\* What a character becomes.
EndOf(c, cr, lf) == IF c = cr THEN lf ELSE c

\* LineEnds, place by place.
LEMMA LineEndsPlaces ==
  ASSUME NEW text, IsSeq(text), NEW cr, NEW lf, NEW D, D = Dropped(text, cr, lf)
  PROVE  /\ D \subseteq 1 .. Len(text) /\ Len(text) - Cardinality(D) \in Nat
         /\ LineEnds(text, cr, lf) = [k \in 1 .. Len(text) - Cardinality(D) |->
                                        EndOf(text[PlaceIn(D, k)], cr, lf)]
         /\ IsSeq(LineEnds(text, cr, lf))
         /\ Len(LineEnds(text, cr, lf)) = Len(text) - Cardinality(D)
<1>1. PICK n \in Nat : n = Len(text)  BY SeqOfPlaces
<1>2. D \subseteq 1 .. n  BY <1>1 DEF Dropped
<1>3. PICK m \in Nat : m = n - Cardinality(D)
  <2>1. Cardinality(D) \in Nat /\ Cardinality(D) <= n  BY <1>2, PlacesBefore
  <2> QED BY <2>1
<1>4. PICK r : r = LineEnds(text, cr, lf)  OBVIOUS
<1>5. r = [k \in 1 .. m |-> EndOf(text[PlaceIn(D, k)], cr, lf)]
  <2>1. r = [k \in 1 .. Len(text) - Cardinality(Dropped(text, cr, lf)) |->
               EndOf(text[PlaceIn(Dropped(text, cr, lf), k)], cr, lf)]
    BY <1>4, Zenon DEF LineEnds, Dropped, PlaceIn, EndOf, CountBefore
  <2> QED BY <1>1, <1>3, <2>1
<1>6. r = [k \in 1 .. m |-> r[k]]  BY <1>5
<1>7. IsSeq(r) /\ Len(r) = m  BY <1>6, PlacesSeq
<1> QED BY <1>1, <1>2, <1>3, <1>4, <1>5, <1>7

\* One character more, at the end.
EndsWithOne(s, c) == s # <<>> /\ s[Len(s)] = c

\* A line feed behind a carriage return adds nothing, anything else itself.
LEMMA LineEndsAdd ==
  ASSUME NEW s, IsSeq(s), NEW c, NEW cr, NEW lf
  PROVE  LineEnds(Add(s, c), cr, lf) =
           IF EndsWithOne(s, cr) /\ c = lf THEN LineEnds(s, cr, lf)
           ELSE Add(LineEnds(s, cr, lf), EndOf(c, cr, lf))
<1>1. PICK n \in Nat : n = Len(s) /\ DOMAIN s = 1 .. n  BY SeqOfPlaces
<1>2. PICK t : t = Add(s, c)  OBVIOUS
<1>3. IsSeq(t) /\ Len(t) = n + 1 /\ t[n + 1] = c /\ \A i \in 1 .. n : t[i] = s[i]
  BY <1>1, <1>2, AddedLast
<1>4. PICK D : D = Dropped(s, cr, lf)  OBVIOUS
<1>5. PICK E : E = Dropped(t, cr, lf)  OBVIOUS
<1>6. PICK m \in Nat : m = n - Cardinality(D)  BY <1>1, <1>4, LineEndsPlaces
<1>7. PICK a : a = LineEnds(s, cr, lf)  OBVIOUS
<1>8. /\ D \subseteq 1 .. n /\ IsSeq(a) /\ Len(a) = m
      /\ a = [k \in 1 .. m |-> EndOf(s[PlaceIn(D, k)], cr, lf)]
  BY <1>1, <1>4, <1>6, <1>7, LineEndsPlaces
<1>9. PICK b : b = LineEnds(t, cr, lf)  OBVIOUS
<1>0. /\ E \subseteq 1 .. Len(t) /\ IsSeq(b) /\ Len(t) - Cardinality(E) \in Nat
      /\ Len(b) = Len(t) - Cardinality(E)
      /\ b = [k \in 1 .. Len(t) - Cardinality(E) |-> EndOf(t[PlaceIn(E, k)], cr, lf)]
  BY <1>3, <1>5, <1>9, LineEndsPlaces
<1>24. Cardinality(E) \in Nat /\ Cardinality(D) \in Nat
  <2>1. PICK last \in Nat : last = Len(t)  BY <1>3
  <2>2. E \subseteq 1 .. last  BY <1>0, <2>1
  <2>3. Cardinality(E) \in Nat  BY <2>2, PlacesBefore
  <2> QED BY <1>8, <2>3, PlacesBefore
<1>10. PICK l \in Nat : l = n + 1 - Cardinality(E)
  <2>1. Len(t) - Cardinality(E) = n + 1 - Cardinality(E)  BY <1>3, <1>24
  <2> QED BY <1>0, <2>1
<1>11. /\ E \subseteq 1 .. n + 1 /\ IsSeq(b) /\ Len(b) = l
       /\ b = [k \in 1 .. l |-> EndOf(t[PlaceIn(E, k)], cr, lf)]
  <2>1. Len(t) - Cardinality(E) = l  BY <1>3, <1>10, <1>24
  <2>2. E \subseteq 1 .. n + 1  BY <1>0, <1>3
  <2> QED BY <1>0, <2>1, <2>2
<1>12. \A i \in 1 .. n - 1 : i \in D <=> s[i] = cr /\ s[i + 1] = lf
  BY <1>1, <1>4 DEF Dropped
<1>13. \A i \in 1 .. n : i \in E <=> t[i] = cr /\ t[i + 1] = lf
  BY <1>3, <1>5 DEF Dropped
<1>14. D \subseteq 1 .. n - 1 /\ E \subseteq 1 .. n
  BY <1>1, <1>3, <1>4, <1>5 DEF Dropped
<1>15. \A i \in 1 .. n - 1 : i \in D <=> i \in E
  <2>1. \A i \in 1 .. n - 1 : i \in 1 .. n /\ i + 1 \in 1 .. n  OBVIOUS
  <2> QED BY <1>3, <1>12, <1>13, <2>1
<1>16. n # 0 => (n \in E <=> s[n] = cr /\ c = lf)
  <2>1. n # 0 => n \in 1 .. n  OBVIOUS
  <2> QED BY <1>3, <1>13, <2>1
<1>17. EndsWithOne(s, cr) /\ c = lf <=> n \in E
  <2>1. s = <<>> <=> n = 0  BY <1>1 DEF IsSeq
  <2>2. n \in E => n # 0  BY <1>14
  <2> QED BY <1>1, <1>16, <2>1, <2>2 DEF EndsWithOne
<1>18. \A i \in 1 .. n : CountBefore(D, i) = CountBefore(E, i)
  <2>1. ASSUME NEW i \in 1 .. n  PROVE {j \in D : j < i} = {j \in E : j < i}
    <3>1. \A j \in D \cup E : j < i => j \in 1 .. n - 1  BY <1>14
    <3> QED BY <1>15, <3>1
  <2> QED BY <2>1 DEF CountBefore
<1>19. \A k \in 1 .. m : IsKth(D, n, k, PlaceIn(D, k))
  BY <1>6, <1>8, KthIsChosen
<1>20. ASSUME NEW k \in 1 .. l, NEW i, IsKth(E, n + 1, k, i)  PROVE PlaceIn(E, k) = i
  <2>1. PICK last \in Nat : last = n + 1  OBVIOUS
  <2>2. E \subseteq 1 .. last /\ k \in 1 .. last - Cardinality(E) /\ IsKth(E, last, k, i)
    BY <1>10, <1>11, <1>20, <1>24, <2>1
  <2> QED BY <2>1, <2>2, KthIsChosen
<1>21. CountBefore(D, n + 1) = Cardinality(D) /\ CountBefore(E, n + 1) = Cardinality(E)
  BY <1>8, <1>14, PlacesBefore
<1>22. CASE n \in E
  <2>1. Cardinality(E) = Cardinality(D) + 1
    <3>1. IsFiniteSet(D)  BY <1>8, PlacesBefore
    <3>2. n \notin D  BY <1>14
    <3>3. E = D \cup {n}
      <4>1. \A i \in E : i = n \/ i \in 1 .. n - 1  BY <1>14
      <4> QED BY <1>14, <1>15, <1>22, <4>1
    <3> QED BY <3>1, <3>2, <3>3, FS_AddElement
  <2>2. l = m  BY <1>6, <1>10, <1>24, <2>1
  <2>3. s[n] = cr /\ c = lf /\ n # 0  BY <1>14, <1>16, <1>22
  <2>4. ASSUME NEW k \in 1 .. m  PROVE b[k] = a[k]
    <3>1. PICK i : i = PlaceIn(D, k) /\ IsKth(D, n, k, i)  BY <1>19, <2>4
    <3>2. i \in (1 .. n) \ D /\ i = k + CountBefore(D, i)  BY <3>1 DEF IsKth
    <3>3. CASE i = n
      <4>1. CountBefore(E, n + 1) = CountBefore(D, n) + 1
        <5>1. {j \in D : j < n} = D
          <6>1. \A j \in D : j < n  BY <1>14
          <6> QED BY <6>1
        <5>2. CountBefore(D, n) = Cardinality(D)  BY <5>1 DEF CountBefore
        <5> QED BY <1>21, <2>1, <5>2
      <4>2. CountBefore(D, n) \in Nat  BY <1>8, PlacesBefore
      <4>3. n + 1 = k + CountBefore(E, n + 1)  BY <3>2, <3>3, <4>1, <4>2
      <4>4. n + 1 \notin E  BY <1>14
      <4>5. IsKth(E, n + 1, k, n + 1)  BY <4>3, <4>4 DEF IsKth
      <4>6. PlaceIn(E, k) = n + 1  BY <1>20, <2>2, <4>5
      <4>7. b[k] = EndOf(c, cr, lf)  BY <1>3, <1>11, <2>2, <4>6
      <4>8. a[k] = EndOf(cr, cr, lf)  BY <1>8, <2>3, <3>1, <3>3
      <4> QED BY <2>3, <4>7, <4>8 DEF EndOf
    <3>4. CASE i # n
      <4>1. i \in 1 .. n - 1 /\ i \notin E  BY <1>15, <3>2, <3>4
      <4>2. i \in (1 .. n + 1) \ E /\ i = k + CountBefore(E, i)  BY <1>18, <3>2, <4>1
      <4>3. PlaceIn(E, k) = i  BY <1>20, <2>2, <4>2 DEF IsKth
      <4>4. b[k] = EndOf(s[i], cr, lf)  BY <1>3, <1>11, <2>2, <3>2, <4>3
      <4>5. a[k] = EndOf(s[i], cr, lf)  BY <1>8, <3>1
      <4> QED BY <4>4, <4>5
    <3> QED BY <3>3, <3>4
  <2>5. b = a  BY <1>8, <1>11, <2>2, <2>4
  <2> QED BY <1>2, <1>7, <1>9, <1>17, <1>22, <2>5
<1>23. CASE n \notin E
  <2>1. E = D
    <3>1. \A i \in E : i \in 1 .. n - 1  BY <1>14, <1>23
    <3> QED BY <1>14, <1>15, <3>1
  <2>2. l = m + 1  BY <1>6, <1>10, <1>24, <2>1
  <2>3. ASSUME NEW k \in 1 .. m  PROVE b[k] = a[k]
    <3>1. PICK i : i = PlaceIn(D, k) /\ IsKth(D, n, k, i)  BY <1>19, <2>3
    <3>2. i \in 1 .. n  BY <3>1 DEF IsKth
    <3>3. k \in 1 .. l  BY <2>2
    <3>4. b[k] = EndOf(t[i], cr, lf)  BY <1>11, <2>1, <3>1, <3>3
    <3>5. a[k] = EndOf(s[i], cr, lf)  BY <1>8, <3>1
    <3> QED BY <1>3, <3>2, <3>4, <3>5
  <2>4. b[m + 1] = EndOf(c, cr, lf)
    <3>1. n + 1 = m + 1 + CountBefore(E, n + 1) /\ n + 1 \notin E
      <4>1. Cardinality(D) \in Nat  BY <1>8, PlacesBefore
      <4> QED BY <1>6, <1>14, <1>21, <2>1, <4>1
    <3>2. IsKth(E, n + 1, m + 1, n + 1)  BY <3>1 DEF IsKth
    <3>3. m + 1 \in 1 .. l  BY <2>2
    <3>4. PlaceIn(E, m + 1) = n + 1  BY <1>20, <3>2, <3>3
    <3> QED BY <1>3, <1>11, <3>3, <3>4
  <2>5. PICK e, z : e = EndOf(c, cr, lf) /\ z = Add(a, e)  OBVIOUS
  <2>6. /\ IsSeq(z) /\ Len(z) = m + 1 /\ z[m + 1] = e /\ DOMAIN z = 1 .. m + 1
        /\ \A i \in 1 .. m : z[i] = a[i]
    <3>1. /\ IsSeq(z) /\ Len(z) = Len(a) + 1 /\ z[Len(a) + 1] = e /\ DOMAIN z = 1 .. Len(a) + 1
          /\ \A i \in 1 .. Len(a) : z[i] = a[i]
      <4>1. IsSeq(a)  BY <1>8
      <4> QED BY <2>5, <4>1, AddedLast, Zenon
    <3> QED BY <1>8, <3>1
  <2>7. \A k \in 1 .. m + 1 : b[k] = z[k]
    <3>1. \A k \in 1 .. m + 1 : k = m + 1 \/ k \in 1 .. m  OBVIOUS
    <3> QED BY <2>3, <2>4, <2>5, <2>6, <3>1
  <2>8. z = [k \in 1 .. m + 1 |-> z[k]]  BY <2>6 DEF IsSeq
  <2>9. b = z  BY <1>11, <2>2, <2>7, <2>8
  <2> QED BY <1>2, <1>7, <1>9, <1>17, <1>23, <2>5, <2>9
<1> QED BY <1>22, <1>23

\* Nothing has no line ends.
LEMMA LineEndsNothing ==
  ASSUME NEW cr, NEW lf
  PROVE  LineEnds(<<>>, cr, lf) = <<>>
<1>1. PICK none : none = <<>>  OBVIOUS
<1>2. IsSeq(none) /\ Len(none) = 0  BY <1>1, EmptyIsSeq
<1>3. PICK D : D = Dropped(none, cr, lf)  OBVIOUS
<1>4. D = {}
  <2>1. 1 .. Len(none) - 1 = {}  BY <1>2
  <2> QED BY <1>3, <2>1 DEF Dropped
<1>5. Cardinality(D) = 0  BY <1>4, FS_EmptySet
<1>6. PICK r : r = LineEnds(none, cr, lf)  OBVIOUS
<1>7. IsSeq(r) /\ Len(r) = Len(none) - Cardinality(D)
  BY <1>2, <1>3, <1>6, LineEndsPlaces
<1>8. Len(r) = 0  BY <1>2, <1>5, <1>7
<1>9. r = <<>>  BY <1>7, <1>8 DEF IsSeq
<1> QED BY <1>1, <1>6, <1>9

\* The last one of a sequence that is one longer.
LEMMA EndsWithAdded ==
  ASSUME NEW s, IsSeq(s), NEW c, NEW cr
  PROVE  EndsWithOne(Add(s, c), cr) <=> c = cr
<1>1. PICK t : t = Add(s, c)  OBVIOUS
<1>2. t # <<>> /\ Len(t) = Len(s) + 1 /\ t[Len(s) + 1] = c  BY <1>1, AddedLast
<1> QED BY <1>1, <1>2 DEF EndsWithOne

\* No carriage return is left.
Free(s, cr) == \A i \in 1 .. Len(s) : s[i] # cr

\* A longer text has none if the text has none and the last one is none.
LEMMA FreeAdded ==
  ASSUME NEW s, IsSeq(s), NEW c, NEW cr
  PROVE  Free(Add(s, c), cr) <=> Free(s, cr) /\ c # cr
<1>1. PICK t, n : t = Add(s, c) /\ n = Len(s)  OBVIOUS
<1>2. n \in Nat /\ Len(t) = n + 1 /\ t[n + 1] = c /\ \A i \in 1 .. n : t[i] = s[i]
  BY <1>1, AddedLast
<1>3. \A i \in 1 .. n + 1 : i = n + 1 \/ i \in 1 .. n  BY <1>2
<1>4. n + 1 \in 1 .. n + 1 /\ \A i \in 1 .. n : i \in 1 .. n + 1  BY <1>2
<1> QED BY <1>1, <1>2, <1>3, <1>4 DEF Free

\* A text whose line ends are line feeds has no carriage return.
LEMMA FreeOfCr ==
  ASSUME NEW s, IsSeq(s), NEW cr, NEW lf, cr # lf
  PROVE  Free(LineEnds(s, cr, lf), cr)
<1>0. PICK C : s \in Seq(C)  BY DEF IsSeq
<1> DEFINE Q == {u \in Seq(C) : Free(LineEnds(u, cr, lf), cr)}
<1>1. <<>> \in Q
  <2>1. LineEnds(<<>>, cr, lf) = <<>>  BY LineEndsNothing
  <2>2. Free(<<>>, cr)  BY DEF Free
  <2> QED BY <2>1, <2>2
<1>2. ASSUME NEW u \in Seq(C), NEW c \in C, u \in Q  PROVE Add(u, c) \in Q
  <2>1. IsSeq(u) /\ Free(LineEnds(u, cr, lf), cr)  BY <1>2 DEF IsSeq
  <2>2. Add(u, c) \in Seq(C)  BY CatTypes
  <2>3. PICK r : r = LineEnds(u, cr, lf)  OBVIOUS
  <2>4. IsSeq(r)  BY <2>1, <2>3, LineEndsIsSeq
  <2>5. PICK e : e = EndOf(c, cr, lf)  OBVIOUS
  <2>6. e # cr  BY <2>5 DEF EndOf
  <2>7. Free(Add(r, e), cr)  BY <2>1, <2>3, <2>4, <2>6, FreeAdded
  <2>8. LineEnds(Add(u, c), cr, lf) = r \/ LineEnds(Add(u, c), cr, lf) = Add(r, e)
    BY <2>1, <2>3, <2>5, LineEndsAdd
  <2> QED BY <2>1, <2>2, <2>3, <2>7, <2>8
<1>3. \A u \in Seq(C) : u \in Q
  <2> HIDE DEF Q
  <2> QED BY <1>1, <1>2, AddInduct
<1> QED BY <1>0, <1>3

\* Where there is none, nothing changes.
LEMMA LineEndsSame ==
  ASSUME NEW s, IsSeq(s), NEW cr, NEW lf, Free(s, cr)
  PROVE  LineEnds(s, cr, lf) = s
<1>0. PICK C : s \in Seq(C)  BY DEF IsSeq
<1> DEFINE Q == {u \in Seq(C) : Free(u, cr) => LineEnds(u, cr, lf) = u}
<1>1. <<>> \in Q
  <2>1. LineEnds(<<>>, cr, lf) = <<>>  BY LineEndsNothing
  <2> QED BY <2>1
<1>2. ASSUME NEW u \in Seq(C), NEW c \in C, u \in Q  PROVE Add(u, c) \in Q
  <2>1. IsSeq(u)  BY DEF IsSeq
  <2>2. Add(u, c) \in Seq(C)  BY CatTypes
  <2>3. SUFFICES ASSUME Free(Add(u, c), cr)  PROVE LineEnds(Add(u, c), cr, lf) = Add(u, c)
    BY <2>2
  <2>4. Free(u, cr) /\ c # cr  BY <2>1, <2>3, FreeAdded
  <2>5. LineEnds(u, cr, lf) = u  BY <1>2, <2>4
  <2>6. ~ EndsWithOne(u, cr)
    <3>1. PICK n \in Nat : n = Len(u)  BY <2>1, AddedLast
    <3>2. u # <<>> => n \in 1 .. n  BY <2>1, <3>1 DEF IsSeq
    <3> QED BY <2>4, <3>1, <3>2 DEF EndsWithOne, Free
  <2>7. EndOf(c, cr, lf) = c  BY <2>4 DEF EndOf
  <2> QED BY <2>1, <2>5, <2>6, <2>7, LineEndsAdd
<1>3. \A u \in Seq(C) : u \in Q
  <2> HIDE DEF Q
  <2> QED BY <1>1, <1>2, AddInduct
<1> QED BY <1>0, <1>3

\* What ends with something else can be looked at by itself.
LEMMA LineEndsCat ==
  ASSUME NEW a, IsSeq(a), NEW b, IsSeq(b), NEW cr, NEW lf, ~ EndsWithOne(a, cr)
  PROVE  LineEnds(Cat(a, b), cr, lf) = Cat(LineEnds(a, cr, lf), LineEnds(b, cr, lf))
<1>0. PICK C : b \in Seq(C)  BY DEF IsSeq
<1>3. PICK r : r = LineEnds(a, cr, lf) /\ IsSeq(r)  BY LineEndsIsSeq
<1> DEFINE Q == {u \in Seq(C) : LineEnds(Cat(a, u), cr, lf) = Cat(r, LineEnds(u, cr, lf))}
<1>1. <<>> \in Q
  <2>1. LineEnds(<<>>, cr, lf) = <<>>  BY LineEndsNothing
  <2>2. Cat(a, <<>>) = a /\ Cat(r, <<>>) = r  BY <1>3, CatFacts
  <2>3. <<>> \in Seq(C)  OBVIOUS
  <2> QED BY <1>3, <2>1, <2>2, <2>3
<1>2. ASSUME NEW u \in Seq(C), NEW c \in C, u \in Q  PROVE Add(u, c) \in Q
  <2>1. IsSeq(u)  BY DEF IsSeq
  <2>2. Add(u, c) \in Seq(C)  BY CatTypes
  <2>3. PICK w, s, e : w = Cat(a, u) /\ s = LineEnds(u, cr, lf) /\ e = EndOf(c, cr, lf)
    OBVIOUS
  <2>4. IsSeq(w) /\ IsSeq(s)  BY <2>1, <2>3, LineEndsIsSeq, CatFacts
  <2>5. Cat(a, Add(u, c)) = Add(w, c)
    <3>1. PICK one : one = <<c>>  OBVIOUS
    <3>2. Add(u, c) = Cat(u, one) /\ Add(w, c) = Cat(w, one) /\ IsSeq(one)
      BY <2>1, <2>4, <3>1, OneIsSeq, CatFacts
    <3> QED BY <2>1, <2>3, <3>2, CatFacts
  <2>6. Cat(r, Add(s, e)) = Add(Cat(r, s), e)
    <3>1. PICK one : one = <<e>>  OBVIOUS
    <3>2. PICK x : x = Cat(r, s) /\ IsSeq(x)  BY <1>3, <2>4, CatFacts
    <3>3. Add(s, e) = Cat(s, one) /\ Add(x, e) = Cat(x, one) /\ IsSeq(one)
      BY <2>4, <3>1, <3>2, OneIsSeq, CatFacts
    <3> QED BY <1>3, <2>4, <3>2, <3>3, CatFacts
  <2>7. LineEnds(w, cr, lf) = Cat(r, s)  BY <1>2, <2>3
  <2>8. EndsWithOne(w, cr) <=> EndsWithOne(u, cr)
    <3>1. CASE u = <<>>
      <4>1. w = a  BY <2>3, <3>1, CatFacts
      <4> QED BY <3>1, <4>1 DEF EndsWithOne
    <3>2. CASE u # <<>>
      <4>1. PICK m \in Nat, n \in Nat : m = Len(a) /\ n = Len(u)  BY <2>1, AddedLast
      <4>2. n # 0  BY <2>1, <3>2, <4>1 DEF IsSeq
      <4>3. Len(w) = m + n /\ \A i \in 1 .. n : w[m + i] = u[i]
        BY <2>1, <2>3, <4>1, CatPlaces
      <4>4. n \in 1 .. n /\ w[m + n] = u[n]  BY <4>2, <4>3
      <4>5. w # <<>>
        <5>1. Len(w) # 0  BY <4>1, <4>2, <4>3
        <5> QED BY <5>1
      <4> QED BY <3>2, <4>1, <4>3, <4>4, <4>5 DEF EndsWithOne
    <3> QED BY <3>1, <3>2
  <2>9. CASE EndsWithOne(u, cr) /\ c = lf
    <3>1. LineEnds(Add(w, c), cr, lf) = Cat(r, s)  BY <2>4, <2>7, <2>8, <2>9, LineEndsAdd
    <3>2. LineEnds(Add(u, c), cr, lf) = s  BY <2>1, <2>3, <2>9, LineEndsAdd
    <3> QED BY <2>2, <2>5, <3>1, <3>2
  <2>10. CASE ~ (EndsWithOne(u, cr) /\ c = lf)
    <3>1. LineEnds(Add(w, c), cr, lf) = Add(Cat(r, s), e)
      BY <2>3, <2>4, <2>7, <2>8, <2>10, LineEndsAdd
    <3>2. LineEnds(Add(u, c), cr, lf) = Add(s, e)  BY <2>1, <2>3, <2>10, LineEndsAdd
    <3> QED BY <2>2, <2>5, <2>6, <3>1, <3>2
  <2> QED BY <2>9, <2>10
<1>4. \A u \in Seq(C) : u \in Q
  <2> HIDE DEF Q
  <2> QED BY <1>1, <1>2, AddInduct
<1> QED BY <1>0, <1>3, <1>4

\* A carriage return, as a token.
Cr == Character("\r")

\* A line feed.
Lf == Character("\n")

\* They are tokens of their own, and no entities.
LEMMA EndsAreTokens ==
  /\ "\r" # "\n" /\ Cr # Lf
  /\ \A c : (Character(c) = Cr <=> c = "\r") /\ (Character(c) = Lf <=> c = "\n")
  /\ \A tag : Opening(tag) \notin {Cr, Lf} /\ Closing(tag) \notin {Cr, Lf}
  /\ \A e : <<"&", e>> \notin {Cr, Lf}
  /\ {"\r", "\n"} \cap (DOMAIN TextEntities \cup DOMAIN AttributeEntities) = {}
<1>1. "\r" # "\n"  OBVIOUS
<1>2. \A c : (Character(c) = Cr <=> c = "\r") /\ (Character(c) = Lf <=> c = "\n")
  BY DEF Character, Cr, Lf
<1>3. \A tag : Opening(tag) \notin {Cr, Lf} /\ Closing(tag) \notin {Cr, Lf}
  BY DEF Opening, Closing, Cr, Lf, Character
<1>4. \A e : <<"&", e>> \notin {Cr, Lf}  BY DEF Cr, Lf, Character
<1>5. {"\r", "\n"} \cap (DOMAIN TextEntities \cup DOMAIN AttributeEntities) = {}
  BY DEF TextEntities, AttributeEntities
<1> QED BY <1>1, <1>2, <1>3, <1>4, <1>5

-----------------------------------------------------------------------------
(* Line ends in documents *)

\* A text with its line ends made line feeds.
Lined(text) == LineEnds(text, "\r", "\n")

\* Line ends are the same before and after a text is escaped.
LEMMA NormalizedText ==
  ASSUME NEW entities, entities = TextEntities \/ entities = AttributeEntities,
         NEW text, IsSeq(text)
  PROVE  /\ Normalized(Escaped(text, entities)) = Escaped(Lined(text), entities)
         /\ IsSeq(Lined(text)) /\ IsSeq(Escaped(text, entities))
<1>0. PICK C : text \in Seq(C)  BY DEF IsSeq
<1>1. PICK cr, lf : cr = "\r" /\ lf = "\n"  OBVIOUS
<1>2. \A c : /\ TokenOf(c, entities) = Cr <=> c = cr
             /\ TokenOf(c, entities) = Lf <=> c = lf
  <2>1. cr \notin DOMAIN entities /\ lf \notin DOMAIN entities  BY <1>1, EndsAreTokens
  <2>2. ASSUME NEW c  PROVE /\ TokenOf(c, entities) = Cr <=> c = cr
                            /\ TokenOf(c, entities) = Lf <=> c = lf
    <3>1. CASE c \in DOMAIN entities
      <4>1. PICK e : e = entities[c]  OBVIOUS
      <4>2. TokenOf(c, entities) = <<"&", e>>  BY <3>1, <4>1 DEF TokenOf
      <4>3. <<"&", e>> # Cr /\ <<"&", e>> # Lf  BY EndsAreTokens
      <4>4. c # cr /\ c # lf  BY <2>1, <3>1
      <4> QED BY <4>2, <4>3, <4>4
    <3>2. CASE c \notin DOMAIN entities
      <4>1. TokenOf(c, entities) = Character(c)  BY <3>2 DEF TokenOf
      <4> QED BY <1>1, <4>1, EndsAreTokens
    <3> QED BY <3>1, <3>2
  <2> QED BY <2>2
<1>3. \A c : TokenOf(EndOf(c, cr, lf), entities) = EndOf(TokenOf(c, entities), Cr, Lf)
  BY <1>2 DEF EndOf
<1>4. ASSUME NEW u, IsSeq(u)  PROVE IsSeq(Escaped(u, entities))
  BY <1>4, ReadsText DEF Reads
<1>5. ASSUME NEW u, IsSeq(u)
      PROVE  EndsWithOne(Escaped(u, entities), Cr) <=> EndsWithOne(u, cr)
  <2>1. CASE u = <<>>
    <3>1. Escaped(u, entities) = <<>>  BY <2>1, EmptyIsSeq, EscapedAdd
    <3> QED BY <2>1, <3>1 DEF EndsWithOne
  <2>2. CASE u # <<>>
    <3>1. PICK K : u \in Seq(K)  BY <1>5 DEF IsSeq
    <3>2. PICK f \in Seq(K), last \in K : u = Append(f, last)
      BY <2>2, <3>1, SequenceEmptyOrAppend
    <3>3. IsSeq(f) /\ u = Add(f, last)  BY <3>2 DEF IsSeq, Add
    <3>4. PICK s, e : s = Escaped(f, entities) /\ e = TokenOf(last, entities)  OBVIOUS
    <3>5. Escaped(u, entities) = Add(s, e) /\ IsSeq(s)  BY <1>4, <3>3, <3>4, EscapedAdd
    <3>6. (EndsWithOne(Add(s, e), Cr) <=> e = Cr) /\ (EndsWithOne(u, cr) <=> last = cr)
      BY <3>3, <3>5, EndsWithAdded
    <3> QED BY <1>2, <3>4, <3>5, <3>6
  <2> QED BY <2>1, <2>2
<1>6. ASSUME NEW u, IsSeq(u)  PROVE IsSeq(LineEnds(u, cr, lf))
  BY <1>6, LineEndsIsSeq
<1> DEFINE Q == {u \in Seq(C) : LineEnds(Escaped(u, entities), Cr, Lf)
                                  = Escaped(LineEnds(u, cr, lf), entities)}
<1>7. <<>> \in Q
  <2>1. Escaped(<<>>, entities) = <<>>  BY EmptyIsSeq, EscapedAdd
  <2>2. LineEnds(<<>>, cr, lf) = <<>> /\ LineEnds(<<>>, Cr, Lf) = <<>>  BY LineEndsNothing
  <2>3. <<>> \in Seq(C)  OBVIOUS
  <2> QED BY <2>1, <2>2, <2>3
<1>8. ASSUME NEW u \in Seq(C), NEW c \in C, u \in Q  PROVE Add(u, c) \in Q
  <2>1. IsSeq(u)  BY DEF IsSeq
  <2>2. Add(u, c) \in Seq(C)  BY CatTypes
  <2>3. PICK s, e, r, d : /\ s = Escaped(u, entities) /\ e = TokenOf(c, entities)
                          /\ r = LineEnds(u, cr, lf) /\ d = EndOf(c, cr, lf)
    OBVIOUS
  <2>4. Escaped(Add(u, c), entities) = Add(s, e) /\ IsSeq(s) /\ IsSeq(r)
    BY <1>4, <1>6, <2>1, <2>3, EscapedAdd
  <2>5. LineEnds(s, Cr, Lf) = Escaped(r, entities)  BY <1>8, <2>3
  <2>6. EndsWithOne(s, Cr) /\ e = Lf <=> EndsWithOne(u, cr) /\ c = lf
    BY <1>2, <1>5, <2>1, <2>3
  <2>7. TokenOf(d, entities) = EndOf(e, Cr, Lf)  BY <1>3, <2>3
  <2>8. Escaped(Add(r, d), entities) = Add(Escaped(r, entities), EndOf(e, Cr, Lf))
    BY <2>4, <2>7, EscapedAdd
  <2>9. CASE EndsWithOne(u, cr) /\ c = lf
    <3>1. LineEnds(Add(u, c), cr, lf) = r  BY <2>1, <2>3, <2>9, LineEndsAdd
    <3>2. LineEnds(Add(s, e), Cr, Lf) = LineEnds(s, Cr, Lf)
      BY <2>4, <2>6, <2>9, LineEndsAdd
    <3> QED BY <2>2, <2>4, <2>5, <3>1, <3>2
  <2>10. CASE ~ (EndsWithOne(u, cr) /\ c = lf)
    <3>1. LineEnds(Add(u, c), cr, lf) = Add(r, d)  BY <2>1, <2>3, <2>10, LineEndsAdd
    <3>2. LineEnds(Add(s, e), Cr, Lf) = Add(LineEnds(s, Cr, Lf), EndOf(e, Cr, Lf))
      BY <2>4, <2>6, <2>10, LineEndsAdd
    <3> QED BY <2>2, <2>4, <2>5, <2>8, <3>1, <3>2
  <2> QED BY <2>9, <2>10
<1>9. \A u \in Seq(C) : u \in Q
  <2> HIDE DEF Q
  <2> QED BY <1>7, <1>8, AddInduct
<1>10. LineEnds(Escaped(text, entities), Cr, Lf) = Escaped(LineEnds(text, cr, lf), entities)
  BY <1>0, <1>9
<1> QED BY <1>1, <1>4, <1>6, <1>10 DEF Normalized, Lined, Cr, Lf

\* What comes last in a concatenation.
LEMMA CatEnds ==
  ASSUME NEW a, IsSeq(a), NEW b, IsSeq(b), NEW c, ~ EndsWithOne(a, c)
  PROVE  EndsWithOne(Cat(a, b), c) <=> EndsWithOne(b, c)
<1>1. PICK w : w = Cat(a, b)  OBVIOUS
<1>2. CASE b = <<>>
  <2>1. w = a  BY <1>1, <1>2, CatFacts
  <2> QED BY <1>1, <1>2, <2>1 DEF EndsWithOne
<1>3. CASE b # <<>>
  <2>1. PICK m \in Nat, n \in Nat : m = Len(a) /\ n = Len(b)  BY AddedLast
  <2>2. n # 0  BY <1>3, <2>1 DEF IsSeq
  <2>3. Len(w) = m + n /\ \A i \in 1 .. n : w[m + i] = b[i]
    BY <1>1, <2>1, CatPlaces
  <2>4. n \in 1 .. n /\ w[m + n] = b[n]  BY <2>2, <2>3
  <2>5. w # <<>>
    <3>1. Len(w) # 0  BY <2>1, <2>2, <2>3
    <3> QED BY <3>1
  <2> QED BY <1>1, <1>3, <2>1, <2>3, <2>4, <2>5 DEF EndsWithOne
<1> QED BY <1>2, <1>3

\* The line ends of an element are those of what is in it.
LEMMA NormalizedElement ==
  ASSUME NEW tag, NEW content, IsSeq(content)
  PROVE  /\ Normalized(Element(tag, content)) = Element(tag, Normalized(content))
         /\ IsSeq(Element(tag, content)) /\ ~ EndsWithOne(Element(tag, content), Cr)
<1>1. PICK a, z : a = Opening(tag) /\ z = Closing(tag)  OBVIOUS
<1>2. a \notin {Cr, Lf} /\ z \notin {Cr, Lf}  BY <1>1, EndsAreTokens
<1>3. PICK one, b : one = <<a>> /\ b = Cat(one, content)  OBVIOUS
<1>4. IsSeq(one) /\ IsSeq(b)  BY <1>3, OneIsSeq, CatFacts
<1>5. ASSUME NEW s, IsSeq(s)  PROVE Element(tag, s) = Add(Cat(one, s), z)
  <2>1. Element(tag, s) = Cat(one, s) \o <<z>>
    BY <1>1, <1>3 DEF Element, Opening, Closing, Cat
  <2>2. IsSeq(Cat(one, s))  BY <1>4, <1>5, CatFacts
  <2> QED BY <2>1, <2>2, AddedLast
<1>6. ~ EndsWithOne(one, Cr)
  <2>1. Len(one) = 1 /\ one[1] = a  BY <1>3
  <2> QED BY <1>2, <2>1 DEF EndsWithOne
<1>7. LineEnds(one, Cr, Lf) = one
  <2>1. \A i \in 1 .. Len(one) : one[i] # Cr
    <3>1. Len(one) = 1 /\ one[1] = a  BY <1>3
    <3> QED BY <1>2, <3>1
  <2> QED BY <1>4, <2>1, LineEndsSame DEF Free
<1>8. PICK r : r = LineEnds(content, Cr, Lf) /\ IsSeq(r)  BY LineEndsIsSeq
<1>9. LineEnds(b, Cr, Lf) = Cat(one, r)  BY <1>3, <1>4, <1>6, <1>7, <1>8, LineEndsCat
<1>10. EndOf(z, Cr, Lf) = z /\ ~ (EndsWithOne(b, Cr) /\ z = Lf)  BY <1>2 DEF EndOf
<1>11. LineEnds(Add(b, z), Cr, Lf) = Add(Cat(one, r), z)
  BY <1>4, <1>9, <1>10, LineEndsAdd
<1>12. Element(tag, content) = Add(b, z) /\ Element(tag, r) = Add(Cat(one, r), z)
  BY <1>3, <1>5, <1>8
<1>13. IsSeq(Add(b, z)) /\ ~ EndsWithOne(Add(b, z), Cr)
  BY <1>2, <1>4, AddedLast, EndsWithAdded
<1> QED BY <1>8, <1>11, <1>12, <1>13 DEF Normalized, Cr, Lf

-----------------------------------------------------------------------------
(* What a document shows once its line ends are line feeds *)

\* The tokens read as these nodes when their line ends are line feeds, and what
\* follows does not change how they end.
Shown(tokens, kids) ==
  /\ IsSeq(tokens) /\ IsSeq(kids) /\ ~ EndsWithOne(tokens, Cr)
  /\ \E words : Reads(Normalized(tokens), kids, words)

\* Nothing shows nothing.
LEMMA ShownNothing == Shown(<<>>, <<>>)
<1>1. PICK none : none = <<>>  OBVIOUS
<1>2. Normalized(none) = none  BY <1>1, LineEndsNothing DEF Normalized
<1>3. ~ EndsWithOne(none, Cr)  BY <1>1 DEF EndsWithOne
<1>4. Reads(none, none, none)  BY <1>1, ReadsNothing
<1>5. IsSeq(none)  BY <1>1, EmptyIsSeq
<1> QED BY <1>1, <1>2, <1>3, <1>4, <1>5 DEF Shown

\* One part after another.
LEMMA ShownBoth ==
  ASSUME NEW a, NEW k, Shown(a, k), NEW b, NEW l, Shown(b, l)
  PROVE  Shown(Cat(a, b), Cat(k, l))
<1>1. IsSeq(a) /\ IsSeq(k) /\ ~ EndsWithOne(a, Cr) /\ IsSeq(b) /\ IsSeq(l)
      /\ ~ EndsWithOne(b, Cr)
  BY DEF Shown
<1>2. PICK w : Reads(Normalized(a), k, w)  BY DEF Shown
<1>3. PICK v : Reads(Normalized(b), l, v)  BY DEF Shown
<1>4. Normalized(Cat(a, b)) = Cat(Normalized(a), Normalized(b))
  BY <1>1, LineEndsCat DEF Normalized, Cr, Lf
<1>5. Reads(Cat(Normalized(a), Normalized(b)), Cat(k, l), Cat(w, v))
  BY <1>2, <1>3, ReadsBoth
<1>6. IsSeq(Cat(a, b)) /\ IsSeq(Cat(k, l))  BY <1>1, CatFacts
<1>7. ~ EndsWithOne(Cat(a, b), Cr)  BY <1>1, CatEnds
<1> QED BY <1>4, <1>5, <1>6, <1>7 DEF Shown

\* One node.
ShownOne(tokens, node) == Shown(tokens, <<node>>)

\* An element shows a node with what its content shows.
LEMMA ShownElement ==
  ASSUME NEW tag, NEW content, NEW kids, Shown(content, kids)
  PROVE  \E node : /\ ShownOne(Element(tag, content), node)
                   /\ node.tag = tag /\ node.children = kids
<1>1. PICK words : Reads(Normalized(content), kids, words)  BY DEF Shown
<1>2. IsSeq(content)  BY DEF Shown
<1>3. PICK node : node = NodeOf(tag, kids, words)  OBVIOUS
<1>4. PICK one : one = <<node>>  OBVIOUS
<1>5. Reads(Element(tag, Normalized(content)), one, <<>>)
  BY <1>1, <1>3, <1>4, ReadsElement
<1>6. IsSeq(one)  BY <1>4, OneIsSeq
<1>7. Shown(Element(tag, content), one)
  BY <1>2, <1>5, <1>6, NormalizedElement DEF Shown
<1>8. node.tag = tag /\ node.children = kids  BY <1>3 DEF NodeOf
<1>9. ShownOne(Element(tag, content), node)  BY <1>4, <1>7 DEF ShownOne
<1> QED BY <1>8, <1>9

\* An element of text shows the text.
LEMMA ShownText ==
  ASSUME NEW entities, entities = TextEntities \/ entities = AttributeEntities,
         NEW tag, NEW text, IsSeq(text)
  PROVE  Shown(Element(tag, Escaped(text, entities)), <<TextNode(tag, Lined(text))>>)
<1>1. PICK s, l : s = Escaped(text, entities) /\ l = Lined(text)  OBVIOUS
<1>2. IsSeq(s) /\ IsSeq(l) /\ Normalized(s) = Escaped(l, entities)
  BY <1>1, NormalizedText
<1>3. Reads(Normalized(s), <<>>, l)  BY <1>2, ReadsText
<1>4. PICK one : one = <<TextNode(tag, l)>>  OBVIOUS
<1>5. Reads(Element(tag, Normalized(s)), one, <<>>)
  BY <1>3, <1>4, ReadsElement DEF TextNode
<1>6. IsSeq(one)  BY <1>4, OneIsSeq
<1> QED BY <1>1, <1>2, <1>4, <1>5, <1>6, NormalizedElement DEF Shown

\* Both kinds of texts that the code writes.
LEMMA ShownTexts ==
  ASSUME NEW tag, NEW text, IsSeq(text)
  PROVE  /\ Shown(Element(tag, PushTextEscaped(text)), <<TextNode(tag, Lined(text))>>)
         /\ Shown(Element(tag, PushEscaped(text)), <<TextNode(tag, Lined(text))>>)
BY ShownText DEF PushTextEscaped, PushEscaped

\* Each part is there or nothing, and shows a node of its own name.
AreShown(parts, present, tags, nodes) ==
  /\ IsSeq(parts)
  /\ \A i \in 1 .. Len(parts) :
       IF i \in present THEN nodes[i].tag = tags[i] /\ Shown(parts[i], <<nodes[i]>>)
       ELSE parts[i] = <<>>
  /\ \A i, j \in 1 .. Len(parts) : tags[i] = tags[j] => i = j

\* The children of those names are just these.
HaveShown(kids, present, tags, nodes, n) ==
  /\ \A i \in 1 .. n : IF i \in present THEN Has(kids, tags[i], nodes[i]) ELSE Lacks(kids, tags[i])
  /\ \A other : (\A i \in 1 .. n : other # tags[i]) => Lacks(kids, other)

\* One part more, which may be nothing.
LEMMA ShownMore ==
  ASSUME NEW a, NEW k, Shown(a, k), NEW b, NEW there, NEW node, NEW tag, Lacks(k, tag),
         IF there THEN node.tag = tag /\ Shown(b, <<node>>) ELSE b = <<>>
  PROVE  \E kids : /\ Shown(Cat(a, b), kids) /\ Grows(kids, k, tag)
                   /\ IF there THEN Has(kids, tag, node) ELSE Lacks(kids, tag)
<1>0. IsSeq(a) /\ IsSeq(k)  BY DEF Shown
<1>1. CASE there
  <2>1. PICK l : l = <<node>>  OBVIOUS
  <2>2. IsSeq(l) /\ Has(l, tag, node) /\ \A other : other # tag => Lacks(l, other)
    BY <1>1, <2>1, OneChild
  <2>3. Shown(Cat(a, b), Cat(k, l))  BY <1>1, <2>1, ShownBoth
  <2>4. Has(Cat(k, l), tag, node)  BY <1>0, <2>2, HasCatRight
  <2>5. ASSUME NEW other, Lacks(k, other), other # tag  PROVE Lacks(Cat(k, l), other)
    BY <1>0, <2>2, <2>5, LacksCat
  <2>6. ASSUME NEW other, NEW n, Has(k, other, n), other # tag  PROVE Has(Cat(k, l), other, n)
    BY <1>0, <2>2, <2>6, HasCatLeft
  <2>7. Grows(Cat(k, l), k, tag)  BY <2>5, <2>6 DEF Grows
  <2> QED BY <1>1, <2>3, <2>4, <2>7
<1>2. CASE ~ there
  <2>1. Cat(a, b) = a  BY <1>0, <1>2, CatFacts
  <2>2. Grows(k, k, tag)  BY DEF Grows
  <2> QED BY <1>2, <2>1, <2>2
<1> QED BY <1>1, <1>2

\* A list of parts with different names, some of which are not there.
LEMMA ShownParts ==
  ASSUME NEW parts, NEW present, NEW tags, NEW nodes, AreShown(parts, present, tags, nodes)
  PROVE  \E kids : /\ Shown(FlattenSeq(parts), kids)
                   /\ HaveShown(kids, present, tags, nodes, Len(parts))
<1>0. /\ IsSeq(parts)
      /\ \A i \in 1 .. Len(parts) :
           IF i \in present THEN nodes[i].tag = tags[i] /\ Shown(parts[i], <<nodes[i]>>)
           ELSE parts[i] = <<>>
      /\ \A i, j \in 1 .. Len(parts) : tags[i] = tags[j] => i = j
  BY DEF AreShown
<1>1. PICK K : parts \in Seq(K)  BY <1>0 DEF IsSeq
<1>2. PICK T : T = UNION {{parts[i][j] : j \in 1 .. Len(parts[i])} : i \in 1 .. Len(parts)}
  OBVIOUS
<1>3. ASSUME NEW i \in 1 .. Len(parts)  PROVE parts[i] \in Seq(T)
  <2>1. PICK p : p = parts[i]  OBVIOUS
  <2>2. IsSeq(p)
    <3>1. i \in present => Shown(p, <<nodes[i]>>)  BY <1>0, <2>1
    <3>2. i \notin present => p = <<>>  BY <1>0, <2>1
    <3> QED BY <3>1, <3>2, EmptyIsSeq DEF Shown
  <2>3. PICK L : p \in Seq(L)  BY <2>2 DEF IsSeq
  <2>4. ASSUME NEW j \in 1 .. Len(p)  PROVE p[j] \in T
    BY <1>2, <2>1
  <2> QED BY <2>1, <2>3, <2>4
<1>4. parts \in Seq(Seq(T)) /\ Len(parts) \in Nat  BY <1>1, <1>3
<1> DEFINE Prefix(n) == SubSeq(parts, 1, n)
           N == {n \in Nat : n <= Len(parts) =>
                   \E kids : /\ Shown(FlattenSeq(Prefix(n)), kids)
                             /\ HaveShown(kids, present, tags, nodes, n)}
<1>5. 0 \in N
  <2>1. Prefix(0) = <<>>  BY <1>4
  <2>2. FlattenSeq(Prefix(0)) = <<>>
    <3>1. FlattenSeq(<<>>) = <<>>  BY DEF FlattenSeq
    <3> QED BY <2>1, <3>1, Zenon
  <2>4. PICK none : none = <<>> /\ Shown(none, none)  BY ShownNothing
  <2>5. \A other : Lacks(none, other)  BY <2>4, NoChild
  <2>6. \A i \in 1 .. 0 : FALSE  OBVIOUS
  <2>7. HaveShown(none, present, tags, nodes, 0)  BY <2>5, <2>6 DEF HaveShown
  <2> QED BY <2>2, <2>4, <2>7
<1>6. ASSUME NEW n \in Nat, n \in N  PROVE n + 1 \in N
  <2>1. SUFFICES ASSUME n + 1 <= Len(parts)
                 PROVE  \E kids : /\ Shown(FlattenSeq(Prefix(n + 1)), kids)
                                  /\ HaveShown(kids, present, tags, nodes, n + 1)
    OBVIOUS
  <2>2. PICK flat, p, e : flat = FlattenSeq(p) /\ p = Prefix(n) /\ e = parts[n + 1]
    OBVIOUS
  <2>3. PICK k : Shown(flat, k) /\ HaveShown(k, present, tags, nodes, n)
    BY <1>4, <1>6, <2>1, <2>2
  <2>4. p \in Seq(Seq(T)) /\ e \in Seq(T) /\ n + 1 \in 1 .. Len(parts)
    BY <1>4, <2>1, <2>2
  <2>5. FlattenSeq(Prefix(n + 1)) = Cat(flat, e)
    <3>1. Prefix(n + 1) = Add(p, e)  BY <1>0, <2>1, <2>2, PrefixAdd
    <3> QED BY <2>2, <2>4, <3>1, FlattenAdd
  <2>6. PICK tag, node, there : /\ tag = tags[n + 1] /\ node = nodes[n + 1]
                                /\ there = (n + 1 \in present)
    OBVIOUS
  <2>7. IF there THEN node.tag = tag /\ Shown(e, <<node>>) ELSE e = <<>>
    BY <1>0, <2>2, <2>4, <2>6
  <2>8. \A i \in 1 .. n : tag # tags[i]
    <3>1. \A i \in 1 .. n : i \in 1 .. Len(parts) /\ i # n + 1  BY <1>4, <2>1
    <3> QED BY <1>0, <2>4, <2>6, <3>1
  <2>9. Lacks(k, tag)  BY <2>3, <2>8 DEF HaveShown
  <2>10. PICK kids : /\ Shown(Cat(flat, e), kids) /\ Grows(kids, k, tag)
                     /\ IF there THEN Has(kids, tag, node) ELSE Lacks(kids, tag)
    BY <2>3, <2>7, <2>9, ShownMore
  <2>11. ASSUME NEW i \in 1 .. n + 1
         PROVE  IF i \in present THEN Has(kids, tags[i], nodes[i]) ELSE Lacks(kids, tags[i])
    <3>1. CASE i = n + 1  BY <2>6, <2>10, <3>1
    <3>2. CASE i # n + 1
      <4>1. i \in 1 .. n  BY <3>2
      <4>2. PICK other, o : other = tags[i] /\ o = nodes[i]  OBVIOUS
      <4>3. other # tag /\ IF i \in present THEN Has(k, other, o) ELSE Lacks(k, other)
        BY <2>3, <2>8, <4>1, <4>2 DEF HaveShown
      <4> QED BY <2>10, <4>2, <4>3 DEF Grows
    <3> QED BY <3>1, <3>2
  <2>12. ASSUME NEW other, \A i \in 1 .. n + 1 : other # tags[i]  PROVE Lacks(kids, other)
    <3>1. n + 1 \in 1 .. n + 1 /\ \A i \in 1 .. n : i \in 1 .. n + 1  OBVIOUS
    <3>2. Lacks(k, other) /\ other # tag  BY <2>3, <2>6, <2>12, <3>1 DEF HaveShown
    <3> QED BY <2>10, <3>2 DEF Grows
  <2> QED BY <2>5, <2>10, <2>11, <2>12 DEF HaveShown
<1>7. Len(parts) \in N
  <2> HIDE DEF N
  <2> QED BY <1>4, <1>5, <1>6, NatInduct
<1>8. Prefix(Len(parts)) = parts  BY <1>4, SubSeqFull
<1>9. \E kids : /\ Shown(FlattenSeq(Prefix(Len(parts))), kids)
                /\ HaveShown(kids, present, tags, nodes, Len(parts))
  BY <1>4, <1>7
<1> QED BY <1>8, <1>9, Zenon

-----------------------------------------------------------------------------
(* The fields of one part *)

\* No two elements have the same name, and no two the same field.
AreFields(elements) ==
  /\ IsSeq(elements)
  /\ \A i, j \in DOMAIN elements :
       elements[i][1] = elements[j][1] \/ elements[i][2] = elements[j][2] => i = j

\* The lists of elements of the source are such lists.
LEMMA ElementsAreFields ==
  /\ AreFields(RoleElements) /\ AreFields(MainElements)
  /\ AreFields(ItemElements) /\ AreFields(AmountElements)
<1>1. AreFields(RoleElements)
  <2>1. DOMAIN RoleElements = 1 .. 9  BY DEF RoleElements
  <2>2. \A i, j \in 1 .. 9 : RoleElements[i][1] = RoleElements[j][1] => i = j
    BY DEF RoleElements
  <2>3. \A i, j \in 1 .. 9 : RoleElements[i][2] = RoleElements[j][2] => i = j
    BY DEF RoleElements
  <2> QED BY <2>1, <2>2, <2>3, ElementLists DEF AreFields
<1>2. AreFields(MainElements)
  <2>1. DOMAIN MainElements = 1 .. 23  BY DEF MainElements
  <2>2. \A i, j \in 1 .. 23 : MainElements[i][1] = MainElements[j][1] => i = j
    BY DEF MainElements
  <2>3. \A i, j \in 1 .. 23 : MainElements[i][2] = MainElements[j][2] => i = j
    BY DEF MainElements
  <2> QED BY <2>1, <2>2, <2>3, ElementLists DEF AreFields
<1>3. AreFields(ItemElements)
  <2>1. DOMAIN ItemElements = 1 .. 9  BY DEF ItemElements
  <2>2. \A i, j \in 1 .. 9 : ItemElements[i][1] = ItemElements[j][1] => i = j
    BY DEF ItemElements
  <2>3. \A i, j \in 1 .. 9 : ItemElements[i][2] = ItemElements[j][2] => i = j
    BY DEF ItemElements
  <2> QED BY <2>1, <2>2, <2>3, ElementLists DEF AreFields
<1>4. AreFields(AmountElements)
  <2>1. DOMAIN AmountElements = 1 .. 11  BY DEF AmountElements
  <2>2. \A i, j \in 1 .. 11 : AmountElements[i][1] = AmountElements[j][1] => i = j
    BY DEF AmountElements
  <2>3. \A i, j \in 1 .. 11 : AmountElements[i][2] = AmountElements[j][2] => i = j
    BY DEF AmountElements
  <2> QED BY <2>1, <2>2, <2>3, ElementLists DEF AreFields
<1> QED BY <1>1, <1>2, <1>3, <1>4

\* A node for each field that a part has, and nothing else.
HaveFields(kids, elements, rec, nodes) ==
  \A i \in DOMAIN elements :
    IF elements[i][2] \in DOMAIN rec THEN Has(kids, elements[i][1], nodes[elements[i][2]])
    ELSE Lacks(kids, elements[i][1])

\* The elements that were pushed show the nodes of the fields.
LEMMA PushedShows ==
  ASSUME NEW elements, AreFields(elements), NEW rec, NEW contents, NEW parts, NEW nodes,
         Pushed(parts, elements, rec, contents),
         \A i \in DOMAIN elements : elements[i][2] \in DOMAIN rec =>
           /\ nodes[elements[i][2]].tag = elements[i][1]
           /\ Shown(Element(elements[i][1], contents[elements[i][2]]), <<nodes[elements[i][2]]>>)
  PROVE  \E kids : Shown(FlattenSeq(parts), kids) /\ HaveFields(kids, elements, rec, nodes)
<1>1. IsSeq(elements)  BY DEF AreFields
<1>2. PICK n \in Nat : n = Len(elements) /\ DOMAIN elements = 1 .. n  BY <1>1, SeqOfPlaces
<1>3. parts = [i \in 1 .. n |-> parts[i]]  BY <1>2 DEF Pushed
<1>4. IsSeq(parts) /\ Len(parts) = n  BY <1>3, PlacesSeq
<1>5. PICK present, tags, these :
        /\ present = {i \in 1 .. n : elements[i][2] \in DOMAIN rec}
        /\ tags = [i \in 1 .. n |-> elements[i][1]]
        /\ these = [i \in 1 .. n |-> nodes[elements[i][2]]]
  OBVIOUS
<1>6. ASSUME NEW i \in 1 .. n
      PROVE  IF i \in present THEN these[i].tag = tags[i] /\ Shown(parts[i], <<these[i]>>)
             ELSE parts[i] = <<>>
  <2>1. CASE elements[i][2] \in DOMAIN rec
    <3>1. parts[i] = Element(elements[i][1], contents[elements[i][2]])
      BY <1>2, <2>1 DEF Pushed
    <3>2. i \in present /\ these[i] = nodes[elements[i][2]] /\ tags[i] = elements[i][1]
      BY <1>5, <2>1
    <3> QED BY <1>2, <2>1, <3>1, <3>2
  <2>2. CASE elements[i][2] \notin DOMAIN rec
    <3>1. parts[i] = <<>> /\ i \notin present  BY <1>2, <1>5, <2>2 DEF Pushed
    <3> QED BY <3>1
  <2> QED BY <2>1, <2>2
<1>7. \A i, j \in 1 .. n : tags[i] = tags[j] => i = j
  BY <1>2, <1>5 DEF AreFields
<1>8. AreShown(parts, present, tags, these)  BY <1>4, <1>6, <1>7, Zenon DEF AreShown
<1>9. PICK kids : Shown(FlattenSeq(parts), kids) /\ HaveShown(kids, present, tags, these, n)
  BY <1>4, <1>8, ShownParts
<1>10. HaveFields(kids, elements, rec, nodes)
  <2>1. ASSUME NEW i \in 1 .. n
        PROVE  IF elements[i][2] \in DOMAIN rec
               THEN Has(kids, elements[i][1], nodes[elements[i][2]])
               ELSE Lacks(kids, elements[i][1])
    <3>1. IF i \in present THEN Has(kids, tags[i], these[i]) ELSE Lacks(kids, tags[i])
      BY <1>9 DEF HaveShown
    <3>2. /\ i \in present <=> elements[i][2] \in DOMAIN rec
          /\ these[i] = nodes[elements[i][2]] /\ tags[i] = elements[i][1]
      BY <1>5
    <3> QED BY <3>1, <3>2
  <2> QED BY <1>2, <2>1, Zenon DEF HaveFields
<1> QED BY <1>9, <1>10

\* And the reader finds the texts of these nodes.
LEMMA FieldsFound ==
  ASSUME NEW elements, AreFields(elements), NEW rec, NEW nodes, NEW node, IsSeq(node.children),
         DOMAIN rec \subseteq {elements[i][2] : i \in DOMAIN elements},
         HaveFields(node.children, elements, rec, nodes)
  PROVE  ReadFields(node, elements) = [f \in DOMAIN rec |-> nodes[f].text]
<1> DEFINE present == {i \in DOMAIN elements : HasChild(node, elements[i][1])}
           Place(f) == CHOOSE j \in present : elements[j][2] = f
<1>1. ASSUME NEW i \in DOMAIN elements
      PROVE  /\ i \in present <=> elements[i][2] \in DOMAIN rec
             /\ i \in present => Child(node, elements[i][1]) = nodes[elements[i][2]]
  <2>1. PICK tag, f : tag = elements[i][1] /\ f = elements[i][2]  OBVIOUS
  <2>2. IF f \in DOMAIN rec THEN Has(node.children, tag, nodes[f]) ELSE Lacks(node.children, tag)
    BY <2>1 DEF HaveFields
  <2>3. f \in DOMAIN rec => HasChild(node, tag) /\ Child(node, tag) = nodes[f]
    BY <2>2, NodeHas
  <2>4. f \notin DOMAIN rec => ~ HasChild(node, tag)  BY <2>2, NodeLacks
  <2> QED BY <2>1, <2>3, <2>4
<1>2. {elements[i][2] : i \in present} = DOMAIN rec  BY <1>1
<1>3. ASSUME NEW f \in DOMAIN rec  PROVE Child(node, elements[Place(f)][1]).text = nodes[f].text
  <2>1. PICK i \in present : elements[i][2] = f  BY <1>2
  <2>2. \A j \in present : elements[j][2] = f => j = i  BY <2>1 DEF AreFields
  <2>3. Place(f) = i
    <3> HIDE DEF present
    <3> QED BY <2>1, <2>2
  <2>4. Child(node, elements[i][1]) = nodes[f]  BY <1>1, <2>1
  <2> QED BY <2>3, <2>4
<1>4. ReadFields(node, elements)
        = [f \in {elements[i][2] : i \in present} |-> Child(node, elements[Place(f)][1]).text]
  BY Zenon DEF ReadFields
<1> HIDE DEF present, Place
<1> QED BY <1>2, <1>3, <1>4

\* No enumeration is written as a line end.
LEMMA WireTokens ==
  \A f \in DOMAIN WireValues : \A v \in DOMAIN WireValues[f] : WireValues[f][v] # "\r"
<1>1. \A v \in DOMAIN InvoiceType : InvoiceType[v] # "\r"  BY DEF InvoiceType
<1>2. \A v \in DOMAIN DonateMark : DonateMark[v] # "\r"  BY DEF DonateMark
<1>3. \A v \in DOMAIN PrintMark : PrintMark[v] # "\r"  BY DEF PrintMark
<1>4. \A v \in DOMAIN TaxType : TaxType[v] # "\r"  BY DEF TaxType
<1>5. \A v \in DOMAIN TaxRate : TaxRate[v] # "\r"  BY DEF TaxRate
<1>6. \A v \in DOMAIN BuyerRemark : BuyerRemark[v] # "\r"  BY DEF BuyerRemark
<1>7. \A v \in DOMAIN CustomsClearanceMark : CustomsClearanceMark[v] # "\r"
  BY DEF CustomsClearanceMark
<1>8. \A v \in DOMAIN BondedArea : BondedArea[v] # "\r"  BY DEF BondedArea
<1>9. \A v \in DOMAIN ZeroTaxRateReason : ZeroTaxRateReason[v] # "\r"
  <2>1. PICK marks : marks = <<"71", "72", "73", "74", "75", "76", "77", "78", "79">>  OBVIOUS
  <2>2. \A i \in 1 .. 9 : marks[i] # "\r"  BY <2>1
  <2>3. ZeroTaxRateReason = [value \in 71 .. 79 |-> marks[value - 70]]
    BY <2>1 DEF ZeroTaxRateReason
  <2>4. \A v \in 71 .. 79 : v - 70 \in 1 .. 9  OBVIOUS
  <2> QED BY <2>2, <2>3, <2>4
<1>10. PICK wires : wires = WireValues  OBVIOUS
<1>11. /\ DOMAIN wires = {"invoice_type", "donate_mark", "print_mark", "tax_type", "tax_rate",
            "buyer_remark", "customs_clearance_mark", "bonded_area_confirm",
            "zero_tax_rate_reason"}
       /\ wires["invoice_type"] = InvoiceType /\ wires["donate_mark"] = DonateMark
       /\ wires["print_mark"] = PrintMark /\ wires["tax_type"] = TaxType
       /\ wires["tax_rate"] = TaxRate /\ wires["buyer_remark"] = BuyerRemark
       /\ wires["customs_clearance_mark"] = CustomsClearanceMark
       /\ wires["bonded_area_confirm"] = BondedArea
       /\ wires["zero_tax_rate_reason"] = ZeroTaxRateReason
  BY <1>10 DEF WireValues
<1>12. ASSUME NEW f \in DOMAIN wires, NEW v \in DOMAIN wires[f]  PROVE wires[f][v] # "\r"
  BY <1>1, <1>2, <1>3, <1>4, <1>5, <1>6, <1>7, <1>8, <1>9, <1>11, Zenon
<1> QED BY <1>10, <1>12

\* A text of one character that ends no line.
LEMMA LinedOne ==
  ASSUME NEW c, c # "\r"
  PROVE  IsSeq(<<c>>) /\ Lined(<<c>>) = <<c>>
<1>1. PICK one : one = <<c>>  OBVIOUS
<1>2. IsSeq(one) /\ Len(one) = 1 /\ one[1] = c  BY <1>1, OneIsSeq
<1>3. Free(one, "\r")  BY <1>2 DEF Free
<1>4. Lined(one) = one  BY <1>2, <1>3, LineEndsSame DEF Lined
<1> QED BY <1>1, <1>2, <1>4

\* A field shows as the platform reads it.
LEMMA FieldShown ==
  ASSUME NEW f, NEW value, NEW tag,
         IF f \in DOMAIN WireValues THEN value \in DOMAIN WireValues[f] ELSE IsSeq(value)
  PROVE  Shown(Element(tag, PushText(f, value)), <<TextNode(tag, AsRead(f, value))>>)
<1>1. CASE f \in DOMAIN WireValues
  <2>1. PICK text : text = <<WireValues[f][value]>>  OBVIOUS
  <2>2. IsSeq(text) /\ Lined(text) = text  BY <1>1, <2>1, WireTokens, LinedOne
  <2>3. PushText(f, value) = PushEscaped(text) /\ AsRead(f, value) = text
    BY <1>1, <2>1 DEF PushText, AsRead
  <2> QED BY <2>2, <2>3, ShownTexts
<1>2. CASE f \notin DOMAIN WireValues
  <2>1. PushText(f, value) = PushEscaped(value) /\ AsRead(f, value) = Lined(value)
    BY <1>2 DEF PushText, AsRead, Lined
  <2> QED BY <1>2, <2>1, ShownTexts
<1> QED BY <1>1, <1>2

\* The name of the element of a field.
TagOf(elements, f) == elements[CHOOSE i \in DOMAIN elements : elements[i][2] = f][1]

\* It is found at its place.
LEMMA TagIs ==
  ASSUME NEW elements, AreFields(elements), NEW i \in DOMAIN elements
  PROVE  TagOf(elements, elements[i][2]) = elements[i][1]
<1>1. \A j \in DOMAIN elements : elements[j][2] = elements[i][2] => j = i  BY DEF AreFields
<1>2. (CHOOSE j \in DOMAIN elements : elements[j][2] = elements[i][2]) = i  BY <1>1
<1> QED BY <1>2 DEF TagOf

\* A part without parts is read field by field.
LEMMA PartShown ==
  ASSUME NEW elements, AreFields(elements), NEW rec, NEW required,
         IsPart(rec, elements, required),
         \A i \in DOMAIN elements : elements[i][2] \notin {"seller", "buyer"}
  PROVE  \E kids : /\ Shown(PartXml(elements, rec), kids)
                   /\ \A node : node.children = kids =>
                        ReadFields(node, elements) = FieldsAsRead(rec)
<1>1. PICK contents, nodes :
        /\ contents = [f \in DOMAIN rec |-> PushText(f, rec[f])]
        /\ nodes = [f \in DOMAIN rec |-> TextNode(TagOf(elements, f), AsRead(f, rec[f]))]
  OBVIOUS
<1>2. ASSUME NEW i \in DOMAIN elements, elements[i][2] \in DOMAIN rec
      PROVE  /\ nodes[elements[i][2]].tag = elements[i][1]
             /\ Shown(Element(elements[i][1], contents[elements[i][2]]),
                      <<nodes[elements[i][2]]>>)
  <2>1. PICK tag, f : tag = elements[i][1] /\ f = elements[i][2]  OBVIOUS
  <2>2. f \in DOMAIN rec \ {"seller", "buyer"}  BY <1>2, <2>1
  <2>3. IF f \in DOMAIN WireValues THEN rec[f] \in DOMAIN WireValues[f] ELSE rec[f] \in Texts
    BY <2>2 DEF IsPart
  <2>4. IF f \in DOMAIN WireValues THEN rec[f] \in DOMAIN WireValues[f] ELSE IsSeq(rec[f])
    BY <2>3, TextsAreSeqs
  <2>5. Shown(Element(tag, PushText(f, rec[f])), <<TextNode(tag, AsRead(f, rec[f]))>>)
    BY <2>4, FieldShown
  <2>6. nodes[f] = TextNode(tag, AsRead(f, rec[f])) /\ contents[f] = PushText(f, rec[f])
    BY <1>1, <2>1, <2>2, TagIs
  <2>7. nodes[f].tag = tag  BY <2>6 DEF TextNode, NodeOf
  <2> QED BY <2>1, <2>5, <2>6, <2>7
<1>3. PICK parts : parts = [i \in DOMAIN elements |->
                              IF elements[i][2] \in DOMAIN rec
                              THEN Element(elements[i][1], PushText(elements[i][2], rec[elements[i][2]]))
                              ELSE <<>>]
  OBVIOUS
<1>4. PartXml(elements, rec) = FlattenSeq(parts)  BY <1>3, Zenon DEF PartXml, PushElements
<1>5. Pushed(parts, elements, rec, contents)
  BY <1>1, <1>3 DEF Pushed
<1>6. PICK kids : Shown(FlattenSeq(parts), kids) /\ HaveFields(kids, elements, rec, nodes)
  BY <1>2, <1>5, PushedShows
<1>7. ASSUME NEW node, node.children = kids
      PROVE  ReadFields(node, elements) = FieldsAsRead(rec)
  <2>1. IsSeq(kids)  BY <1>6 DEF Shown
  <2>2. DOMAIN rec \subseteq {elements[i][2] : i \in DOMAIN elements}  BY DEF IsPart
  <2>3. ReadFields(node, elements) = [f \in DOMAIN rec |-> nodes[f].text]
    BY <1>6, <1>7, <2>1, <2>2, FieldsFound
  <2>4. \A f \in DOMAIN rec : nodes[f].text = AsRead(f, rec[f])
    BY <1>1 DEF TextNode, NodeOf
  <2> QED BY <2>3, <2>4 DEF FieldsAsRead
<1> QED BY <1>4, <1>6, <1>7

\* A list of parts, each of which shows one node.
LEMMA ShownList ==
  ASSUME NEW parts, IsSeq(parts), NEW nodes, IsSeq(nodes), Len(nodes) = Len(parts),
         \A i \in 1 .. Len(parts) : Shown(parts[i], <<nodes[i]>>)
  PROVE  Shown(FlattenSeq(parts), nodes)
<1>1. PICK K : parts \in Seq(K)  BY DEF IsSeq
<1>2. PICK T : T = UNION {{parts[i][j] : j \in 1 .. Len(parts[i])} : i \in 1 .. Len(parts)}
  OBVIOUS
<1>3. ASSUME NEW i \in 1 .. Len(parts)  PROVE parts[i] \in Seq(T)
  <2>1. PICK p : p = parts[i]  OBVIOUS
  <2>2. IsSeq(p)  BY <2>1 DEF Shown
  <2>3. PICK L : p \in Seq(L)  BY <2>2 DEF IsSeq
  <2>4. ASSUME NEW j \in 1 .. Len(p)  PROVE p[j] \in T
    BY <1>2, <2>1
  <2> QED BY <2>1, <2>3, <2>4
<1>4. parts \in Seq(Seq(T)) /\ Len(parts) \in Nat  BY <1>1, <1>3
<1>9. PICK M : nodes \in Seq(M)  BY DEF IsSeq
<1> DEFINE Prefix(n) == SubSeq(parts, 1, n)
           Begun(n) == SubSeq(nodes, 1, n)
           N == {n \in Nat : n <= Len(parts) => Shown(FlattenSeq(Prefix(n)), Begun(n))}
<1>5. 0 \in N
  <2>1. Prefix(0) = <<>> /\ Begun(0) = <<>>  BY <1>4, <1>9
  <2>2. FlattenSeq(Prefix(0)) = <<>>
    <3>1. FlattenSeq(<<>>) = <<>>  BY DEF FlattenSeq
    <3> QED BY <2>1, <3>1, Zenon
  <2>3. Shown(FlattenSeq(Prefix(0)), Begun(0))
    BY <2>1, <2>2, ShownNothing, Zenon
  <2> QED BY <2>3
<1>6. ASSUME NEW n \in Nat, n \in N  PROVE n + 1 \in N
  <2>1. SUFFICES ASSUME n + 1 <= Len(parts)
                 PROVE  Shown(FlattenSeq(Prefix(n + 1)), Begun(n + 1))
    OBVIOUS
  <2>2. PICK flat, p, e, k, d, one :
          /\ flat = FlattenSeq(p) /\ p = Prefix(n) /\ e = parts[n + 1]
          /\ k = Begun(n) /\ d = nodes[n + 1] /\ one = <<d>>
    OBVIOUS
  <2>3. Shown(flat, k)  BY <1>4, <1>6, <2>1, <2>2
  <2>4. p \in Seq(Seq(T)) /\ e \in Seq(T) /\ n + 1 \in 1 .. Len(parts)
    BY <1>4, <2>1, <2>2
  <2>5. FlattenSeq(Prefix(n + 1)) = Cat(flat, e)
    <3>1. Prefix(n + 1) = Add(p, e)  BY <2>1, <2>2, PrefixAdd
    <3> QED BY <2>2, <2>4, <3>1, FlattenAdd
  <2>6. Begun(n + 1) = Cat(k, one)
    <3>1. Begun(n + 1) = Add(k, d)  BY <2>1, <2>2, PrefixAdd
    <3>2. IsSeq(k)  BY <2>3 DEF Shown
    <3> QED BY <2>2, <3>1, <3>2, CatFacts
  <2>7. Shown(e, one)  BY <2>2, <2>4
  <2>8. Shown(Cat(flat, e), Cat(k, one))  BY <2>3, <2>7, ShownBoth
  <2> QED BY <2>5, <2>6, <2>8
<1>7. Len(parts) \in N
  <2> HIDE DEF N
  <2> QED BY <1>4, <1>5, <1>6, NatInduct
<1>8. Prefix(Len(parts)) = parts /\ Begun(Len(parts)) = nodes  BY <1>4, <1>9, SubSeqFull
<1>10. Shown(FlattenSeq(Prefix(Len(parts))), Begun(Len(parts)))
  BY <1>4, <1>7
<1> QED BY <1>8, <1>10, Zenon

\* Where the seller and the buyer are.
LEMMA RolePlaces ==
  /\ \A i \in DOMAIN RoleElements : RoleElements[i][2] \notin {"seller", "buyer"}
  /\ \A i \in DOMAIN ItemElements : ItemElements[i][2] \notin {"seller", "buyer"}
  /\ \A i \in DOMAIN AmountElements : AmountElements[i][2] \notin {"seller", "buyer"}
  /\ 4 \in DOMAIN MainElements /\ MainElements[4] = <<"Seller", "seller">>
  /\ 5 \in DOMAIN MainElements /\ MainElements[5] = <<"Buyer", "buyer">>
<1>1. \A i \in DOMAIN RoleElements : RoleElements[i][2] \notin {"seller", "buyer"}
  BY DEF RoleElements
<1>2. \A i \in DOMAIN ItemElements : ItemElements[i][2] \notin {"seller", "buyer"}
  BY DEF ItemElements
<1>3. \A i \in DOMAIN AmountElements : AmountElements[i][2] \notin {"seller", "buyer"}
  BY DEF AmountElements
<1>4. 4 \in DOMAIN MainElements /\ MainElements[4] = <<"Seller", "seller">>
  BY DEF MainElements
<1>5. 5 \in DOMAIN MainElements /\ MainElements[5] = <<"Buyer", "buyer">>
  BY DEF MainElements
<1> QED BY <1>1, <1>2, <1>3, <1>4, <1>5

\* The seller or the buyer.
LEMMA RoleShown ==
  ASSUME NEW role, IsRole(role), NEW tag
  PROVE  \E node : /\ ShownOne(Element(tag, PushRole(role)), node) /\ node.tag = tag
                   /\ ReadFields(node, RoleElements) = FieldsAsRead(role)
<1>1. PICK kids : /\ Shown(PartXml(RoleElements, role), kids)
                  /\ \A node : node.children = kids =>
                       ReadFields(node, RoleElements) = FieldsAsRead(role)
  BY RolePlaces, ElementsAreFields, PartShown DEF IsRole
<1>2. PushRole(role) = PartXml(RoleElements, role)  BY Zenon DEF PushRole, PartXml
<1>3. PICK c : c = PushRole(role) /\ Shown(c, kids)  BY <1>1, <1>2
<1>4. PICK node : /\ ShownOne(Element(tag, c), node)
                  /\ node.tag = tag /\ node.children = kids
  BY <1>3, ShownElement
<1>5. ReadFields(node, RoleElements) = FieldsAsRead(role)  BY <1>1, <1>4
<1> QED BY <1>3, <1>4, <1>5

\* The main part as the platform reads it.
MainAsRead(main) ==
  [f \in DOMAIN main |-> IF f \in {"seller", "buyer"} THEN FieldsAsRead(main[f])
                         ELSE AsRead(f, main[f])]

\* The main part is read back field by field, push_main of f0401.rs.
LEMMA MainShown ==
  ASSUME NEW main, IsMain(main)
  PROVE  \E kids : /\ Shown(PushMain(main), kids)
                   /\ \A node : node.children = kids => ReadMain(node) = MainAsRead(main)
<1> DEFINE Content(f) == IF f \in {"seller", "buyer"} THEN PushRole(main[f]) ELSE PushText(f, main[f])
<1>0. PICK sellers, buyers : sellers = "seller" /\ buyers = "buyer" /\ sellers # buyers  OBVIOUS
<1>1. PICK seller : /\ ShownOne(Element("Seller", PushRole(main[sellers])), seller)
                    /\ seller.tag = "Seller"
                    /\ ReadFields(seller, RoleElements) = FieldsAsRead(main[sellers])
  BY <1>0, RoleShown DEF IsMain
<1>2. PICK buyer : /\ ShownOne(Element("Buyer", PushRole(main[buyers])), buyer)
                   /\ buyer.tag = "Buyer"
                   /\ ReadFields(buyer, RoleElements) = FieldsAsRead(main[buyers])
  BY <1>0, RoleShown DEF IsMain
<1>3. PICK elements : elements = MainElements /\ AreFields(elements)  BY ElementsAreFields
<1>4. PICK contents, nodes :
        /\ contents = [f \in DOMAIN main |-> Content(f)]
        /\ nodes = [f \in DOMAIN main |->
                      IF f = sellers THEN seller ELSE IF f = buyers THEN buyer
                      ELSE TextNode(TagOf(elements, f), AsRead(f, main[f]))]
  OBVIOUS
<1>5. {sellers, buyers} \subseteq DOMAIN main  BY <1>0 DEF IsMain, IsPart
<1>6. /\ 4 \in DOMAIN elements /\ elements[4][1] = "Seller" /\ elements[4][2] = sellers
      /\ 5 \in DOMAIN elements /\ elements[5][1] = "Buyer" /\ elements[5][2] = buyers
  BY <1>0, <1>3, RolePlaces
<1>7. ASSUME NEW i \in DOMAIN elements, elements[i][2] \in DOMAIN main
      PROVE  /\ nodes[elements[i][2]].tag = elements[i][1]
             /\ Shown(Element(elements[i][1], contents[elements[i][2]]),
                      <<nodes[elements[i][2]]>>)
  <2>1. PICK tag, f : tag = elements[i][1] /\ f = elements[i][2]  OBVIOUS
  <2>2. CASE f = sellers
    <3>1. tag = "Seller"  BY <1>3, <1>6, <2>1, <2>2 DEF AreFields
    <3>2. nodes[f] = seller /\ contents[f] = PushRole(main[sellers])
      BY <1>0, <1>4, <1>5, <2>2
    <3> QED BY <1>1, <2>1, <3>1, <3>2 DEF ShownOne
  <2>3. CASE f = buyers
    <3>1. tag = "Buyer"  BY <1>3, <1>6, <2>1, <2>3 DEF AreFields
    <3>2. nodes[f] = buyer /\ contents[f] = PushRole(main[buyers])
      BY <1>0, <1>4, <1>5, <2>3
    <3> QED BY <1>2, <2>1, <3>1, <3>2 DEF ShownOne
  <2>4. CASE f \notin {sellers, buyers}
    <3>1. f \in DOMAIN main \ {"seller", "buyer"}  BY <1>0, <1>7, <2>1, <2>4
    <3>2. IF f \in DOMAIN WireValues THEN main[f] \in DOMAIN WireValues[f] ELSE main[f] \in Texts
      BY <3>1 DEF IsMain, IsPart
    <3>3. IF f \in DOMAIN WireValues THEN main[f] \in DOMAIN WireValues[f] ELSE IsSeq(main[f])
      BY <3>2, TextsAreSeqs
    <3>4. Shown(Element(tag, PushText(f, main[f])), <<TextNode(tag, AsRead(f, main[f]))>>)
      BY <3>3, FieldShown
    <3>5. nodes[f] = TextNode(tag, AsRead(f, main[f])) /\ contents[f] = PushText(f, main[f])
      BY <1>0, <1>3, <1>4, <2>1, <2>4, <3>1, TagIs
    <3>6. nodes[f].tag = tag  BY <3>5 DEF TextNode, NodeOf
    <3> QED BY <2>1, <3>4, <3>5, <3>6
  <2> QED BY <2>2, <2>3, <2>4
<1>8. PICK parts : parts = [i \in DOMAIN MainElements |->
                              IF MainElements[i][2] \in DOMAIN main
                              THEN Element(MainElements[i][1], Content(MainElements[i][2]))
                              ELSE <<>>]
  OBVIOUS
<1>9. PushMain(main) = FlattenSeq(parts)  BY <1>8, Zenon DEF PushMain, PushElements
<1>10. Pushed(parts, elements, main, contents)
  <2> HIDE DEF Content
  <2> QED BY <1>3, <1>4, <1>8 DEF Pushed
<1>11. PICK kids : Shown(FlattenSeq(parts), kids) /\ HaveFields(kids, elements, main, nodes)
  <2> HIDE DEF Content
  <2> QED BY <1>3, <1>7, <1>10, PushedShows
<1>12. ASSUME NEW node, node.children = kids
       PROVE  ReadMain(node) = MainAsRead(main)
  <2>1. IsSeq(kids) /\ IsSeq(node.children)  BY <1>11, <1>12 DEF Shown
  <2>2. DOMAIN main \subseteq {elements[i][2] : i \in DOMAIN elements}
    BY <1>3 DEF IsMain, IsPart
  <2>3. PICK fields : fields = ReadFields(node, MainElements)  OBVIOUS
  <2>11. HaveFields(node.children, elements, main, nodes)  BY <1>11, <1>12
  <2>12. ReadFields(node, elements) = [f \in DOMAIN main |-> nodes[f].text]
    BY <1>3, <2>1, <2>2, <2>11, FieldsFound
  <2>4. fields = [f \in DOMAIN main |-> nodes[f].text]  BY <1>3, <2>3, <2>12
  <2>5. Has(kids, "Seller", nodes[sellers]) /\ Has(kids, "Buyer", nodes[buyers])
    BY <1>5, <1>6, <1>11, Zenon DEF HaveFields
  <2>6. nodes[sellers] = seller /\ nodes[buyers] = buyer  BY <1>0, <1>4, <1>5
  <2>7. Child(node, "Seller") = seller /\ Child(node, "Buyer") = buyer
    BY <1>12, <2>1, <2>5, <2>6, NodeHas
  <2>8. ReadMain(node)
          = [f \in DOMAIN fields |->
               IF f = sellers THEN ReadFields(seller, RoleElements)
               ELSE IF f = buyers THEN ReadFields(buyer, RoleElements) ELSE fields[f]]
    BY <1>0, <2>3, <2>7 DEF ReadMain
  <2>9. DOMAIN fields = DOMAIN main  BY <2>4
  <2>10. ASSUME NEW f \in DOMAIN main, f \notin {sellers, buyers}
         PROVE  fields[f] = AsRead(f, main[f])
    BY <1>4, <2>4, <2>10 DEF TextNode, NodeOf
  <2> QED BY <1>0, <1>1, <1>2, <2>8, <2>9, <2>10 DEF MainAsRead
<1> QED BY <1>9, <1>11, <1>12

\* The content of an element of a field list is a sequence that ends no line.
LEMMA ShownTogether ==
  ASSUME NEW a, NEW x, ShownOne(a, x), NEW b, NEW l, Shown(b, l)
  PROVE  /\ Shown(Cat(a, b), Cat(<<x>>, l)) /\ IsSeq(l)
         /\ Has(Cat(<<x>>, l), x.tag, x) \/ ~ Lacks(l, x.tag)
         /\ \A tag, node : Has(l, tag, node) /\ tag # x.tag => Has(Cat(<<x>>, l), tag, node)
         /\ \A tag : Lacks(l, tag) /\ tag # x.tag => Lacks(Cat(<<x>>, l), tag)
<1>1. PICK k : k = <<x>>  OBVIOUS
<1>2. IsSeq(k) /\ Has(k, x.tag, x) /\ \A tag : tag # x.tag => Lacks(k, tag)
  BY <1>1, OneChild
<1>3. Shown(a, k) /\ IsSeq(l)  BY <1>1 DEF ShownOne, Shown
<1>4. Shown(Cat(a, b), Cat(k, l))  BY <1>3, ShownBoth
<1>5. Lacks(l, x.tag) => Has(Cat(k, l), x.tag, x)  BY <1>2, <1>3, HasCatLeft
<1>6. ASSUME NEW tag, NEW node, Has(l, tag, node), tag # x.tag
      PROVE  Has(Cat(k, l), tag, node)
  BY <1>2, <1>3, <1>6, HasCatRight
<1>7. ASSUME NEW tag, Lacks(l, tag), tag # x.tag  PROVE Lacks(Cat(k, l), tag)
  BY <1>2, <1>3, <1>7, LacksCat
<1> QED BY <1>1, <1>3, <1>4, <1>5, <1>6, <1>7

\* The first of some elements that show one node each.
ShownNodes(tokens, nodes) ==
  \E kids : /\ Shown(tokens, kids)
            /\ \A x \in nodes : Has(kids, x.tag, x)
            /\ \A tag : (\A x \in nodes : x.tag # tag) => Lacks(kids, tag)

\* Nothing shows none.
LEMMA NoNodes == ShownNodes(<<>>, {})
<1>1. PICK none : none = <<>> /\ Shown(none, none)  BY ShownNothing
<1>2. \A tag : Lacks(none, tag)  BY <1>1, NoChild
<1> QED BY <1>1, <1>2 DEF ShownNodes

\* One element more in front shows one node more.
LEMMA OneNodeMore ==
  ASSUME NEW a, NEW x, ShownOne(a, x), NEW b, NEW nodes, ShownNodes(b, nodes),
         \A y \in nodes : y.tag # x.tag
  PROVE  ShownNodes(Cat(a, b), {x} \cup nodes)
<1>1. PICK l : /\ Shown(b, l)
               /\ \A y \in nodes : Has(l, y.tag, y)
               /\ \A tag : (\A y \in nodes : y.tag # tag) => Lacks(l, tag)
  BY DEF ShownNodes
<1>2. PICK k : k = Cat(<<x>>, l)  OBVIOUS
<1>3. /\ Shown(Cat(a, b), k) /\ (Has(k, x.tag, x) \/ ~ Lacks(l, x.tag))
      /\ \A tag, node : Has(l, tag, node) /\ tag # x.tag => Has(k, tag, node)
      /\ \A tag : Lacks(l, tag) /\ tag # x.tag => Lacks(k, tag)
  BY <1>1, <1>2, ShownTogether
<1>4. Has(k, x.tag, x)  BY <1>1, <1>3
<1>5. \A y \in {x} \cup nodes : Has(k, y.tag, y)  BY <1>1, <1>3, <1>4
<1>6. ASSUME NEW tag, \A y \in {x} \cup nodes : y.tag # tag  PROVE Lacks(k, tag)
  <2>1. x.tag # tag /\ \A y \in nodes : y.tag # tag  BY <1>6
  <2> QED BY <1>1, <1>3, <2>1
<1> QED BY <1>3, <1>5, <1>6 DEF ShownNodes

-----------------------------------------------------------------------------
(* The invoice *)

\* The items of the invoice.
LEMMA DetailsShown ==
  ASSUME NEW details, details \in Seq(ToSet(details)),
         \A i \in DOMAIN details : IsItem(details[i])
  PROVE  \E items : /\ Shown(PushDetails(details), items) /\ DOMAIN items = DOMAIN details
                    /\ \A i \in DOMAIN details :
                         ReadFields(items[i], ItemElements) = FieldsAsRead(details[i])
<1>1. PICK n \in Nat : n = Len(details) /\ DOMAIN details = 1 .. n
  OBVIOUS
<1>2. ASSUME NEW i \in 1 .. n
      PROVE  \E node : /\ ShownOne(Element("ProductItem", PartXml(ItemElements, details[i])), node)
                       /\ ReadFields(node, ItemElements) = FieldsAsRead(details[i])
  <2>1. PICK item : item = details[i] /\ IsItem(item)  BY <1>1, <1>2
  <2>2. PICK kids : /\ Shown(PartXml(ItemElements, item), kids)
                    /\ \A node : node.children = kids =>
                         ReadFields(node, ItemElements) = FieldsAsRead(item)
    BY <2>1, RolePlaces, ElementsAreFields, PartShown DEF IsItem
  <2>3. PICK c : c = PartXml(ItemElements, item) /\ Shown(c, kids)  BY <2>2
  <2>4. PICK node : ShownOne(Element("ProductItem", c), node) /\ node.children = kids
    BY <2>3, ShownElement
  <2> QED BY <2>1, <2>2, <2>3, <2>4
<1> DEFINE Item(i) == CHOOSE node :
                        /\ ShownOne(Element("ProductItem", PartXml(ItemElements, details[i])), node)
                        /\ ReadFields(node, ItemElements) = FieldsAsRead(details[i])
<1>3. PICK items : items = [i \in 1 .. n |-> Item(i)]  OBVIOUS
<1>4. PICK parts : parts = [i \in DOMAIN details |->
                              Element("ProductItem", PartXml(ItemElements, details[i]))]
  OBVIOUS
<1>5. PushDetails(details) = FlattenSeq(parts)
  BY <1>4, Zenon DEF PushDetails, PartXml
<1>6. ASSUME NEW i \in 1 .. n
      PROVE  ShownOne(parts[i], items[i])
             /\ ReadFields(items[i], ItemElements) = FieldsAsRead(details[i])
  <2>1. /\ ShownOne(Element("ProductItem", PartXml(ItemElements, details[i])), Item(i))
        /\ ReadFields(Item(i), ItemElements) = FieldsAsRead(details[i])
    BY <1>2, Zenon
  <2>2. items[i] = Item(i)  BY <1>3
  <2>3. parts[i] = Element("ProductItem", PartXml(ItemElements, details[i]))
    BY <1>1, <1>4
  <2> QED BY <2>1, <2>2, <2>3
<1> HIDE DEF Item
<1>7. parts = [i \in 1 .. n |-> parts[i]] /\ items = [i \in 1 .. n |-> items[i]]
  BY <1>1, <1>3, <1>4
<1>8. IsSeq(parts) /\ IsSeq(items) /\ Len(parts) = n /\ Len(items) = n
  BY <1>7, PlacesSeq
<1>9. \A i \in 1 .. Len(parts) : Shown(parts[i], <<items[i]>>)
  BY <1>6, <1>8 DEF ShownOne
<1>10. Shown(FlattenSeq(parts), items)  BY <1>8, <1>9, ShownList
<1> QED BY <1>1, <1>3, <1>5, <1>6, <1>10

\* The name space of a document.
LEMMA SpaceShown ==
  ASSUME NEW tag, NEW name, name \notin {"&", "<", ">", "\r"}
  PROVE  \E node : ShownOne(Element(tag, <<Character(name)>>), node) /\ node.tag = tag
<1>1. PICK text : text = <<name>>  OBVIOUS
<1>2. IsSeq(text)  BY <1>1, OneIsSeq
<1>3. PushTextEscaped(text) = <<Character(name)>>
  <2>1. DOMAIN TextEntities = {"&", "<", ">"}  BY DEF TextEntities
  <2>2. DOMAIN text = {1} /\ text[1] = name  BY <1>1
  <2>3. PushTextEscaped(text) = [i \in {1} |-> Character(name)]
    BY <2>1, <2>2 DEF PushTextEscaped, Escaped
  <2>4. PICK c : c = Character(name)  OBVIOUS
  <2>5. [i \in {1} |-> c] = <<c>>
    <3>1. {1} = 1 .. 1  OBVIOUS
    <3> QED BY <3>1
  <2> QED BY <2>3, <2>4, <2>5
<1>4. PICK node : node = TextNode(tag, Lined(text))  OBVIOUS
<1>5. ShownOne(Element(tag, PushTextEscaped(text)), node)
  BY <1>2, <1>4, ShownTexts DEF ShownOne
<1>6. node.tag = tag  BY <1>4 DEF TextNode, NodeOf
<1> QED BY <1>3, <1>5, <1>6

\* An invoice is read back from its document, to_xml of f0401.rs.
LEMMA InvoiceShown ==
  ASSUME NEW invoice, IsF0401(invoice)
  PROVE  \E node : /\ ShownOne(ToXml(invoice), node) /\ node.tag = "Invoice"
                   /\ ReadInvoice(node) = InvoiceAsRead(invoice)
<1>1. PICK mainKids : /\ Shown(PushMain(invoice.main), mainKids)
                      /\ \A node : node.children = mainKids =>
                           ReadMain(node) = MainAsRead(invoice.main)
  BY MainShown DEF IsF0401
<1>2. PICK items : /\ Shown(PushDetails(invoice.details), items)
                   /\ DOMAIN items = DOMAIN invoice.details
                   /\ \A i \in DOMAIN invoice.details :
                        ReadFields(items[i], ItemElements) = FieldsAsRead(invoice.details[i])
  BY DetailsShown DEF IsF0401
<1>3. PICK amountKids : /\ Shown(PushAmount(invoice.amount), amountKids)
                        /\ \A node : node.children = amountKids =>
                             ReadFields(node, AmountElements) = FieldsAsRead(invoice.amount)
  <2>1. PICK kids : /\ Shown(PartXml(AmountElements, invoice.amount), kids)
                    /\ \A node : node.children = kids =>
                         ReadFields(node, AmountElements) = FieldsAsRead(invoice.amount)
    BY RolePlaces, ElementsAreFields, PartShown DEF IsF0401, IsAmount
  <2>2. PushAmount(invoice.amount) = PartXml(AmountElements, invoice.amount)
    BY Zenon DEF PushAmount, PartXml
  <2> QED BY <2>1, <2>2
<1>4. PICK t0, t1, t2, t3 : /\ t0 = "@xmlns" /\ t1 = "Main" /\ t2 = "Details" /\ t3 = "Amount"
                            /\ t0 \notin {t1, t2, t3} /\ t1 \notin {t2, t3} /\ t2 # t3
  OBVIOUS
<1>5. PICK e0 : e0 = Element(t0, <<Character(F0401Namespace)>>)  OBVIOUS
<1>6. PICK space : ShownOne(e0, space) /\ space.tag = t0
  <2>1. F0401Namespace \notin {"&", "<", ">", "\r"}  BY DEF F0401Namespace
  <2> QED BY <1>5, <2>1, SpaceShown
<1>7. PICK e1, main : /\ e1 = Element(t1, PushMain(invoice.main))
                      /\ ShownOne(e1, main) /\ main.tag = t1 /\ main.children = mainKids
  <2>1. PICK c : c = PushMain(invoice.main) /\ Shown(c, mainKids)  BY <1>1
  <2> QED BY <2>1, ShownElement
<1>8. PICK e2, details : /\ e2 = Element(t2, PushDetails(invoice.details))
                         /\ ShownOne(e2, details) /\ details.tag = t2 /\ details.children = items
  <2>1. PICK c : c = PushDetails(invoice.details) /\ Shown(c, items)  BY <1>2
  <2> QED BY <2>1, ShownElement
<1>9. PICK e3, amount : /\ e3 = Element(t3, PushAmount(invoice.amount))
                        /\ ShownOne(e3, amount) /\ amount.tag = t3
                        /\ amount.children = amountKids
  <2>1. PICK c : c = PushAmount(invoice.amount) /\ Shown(c, amountKids)  BY <1>3
  <2>2. PICK node : /\ ShownOne(Element(t3, c), node) /\ node.tag = t3
                    /\ node.children = amountKids
    BY <2>1, ShownElement
  <2> QED BY <2>1, <2>2
<1>10. PICK none : none = <<>> /\ ShownNodes(none, {})  BY NoNodes
<1>11. PICK a3 : a3 = Cat(e3, none) /\ ShownNodes(a3, {amount} \cup {})
  BY <1>9, <1>10, OneNodeMore
<1>12. PICK a2 : a2 = Cat(e2, a3) /\ ShownNodes(a2, {details} \cup ({amount} \cup {}))
  <2>1. \A y \in {amount} \cup {} : y.tag # details.tag  BY <1>4, <1>8, <1>9
  <2> QED BY <1>8, <1>11, <2>1, OneNodeMore
<1>13. PICK a1 : a1 = Cat(e1, a2) /\ ShownNodes(a1, {main} \cup ({details} \cup ({amount} \cup {})))
  <2>1. \A y \in {details} \cup ({amount} \cup {}) : y.tag # main.tag
    BY <1>4, <1>7, <1>8, <1>9
  <2> QED BY <1>7, <1>12, <2>1, OneNodeMore
<1>14. PICK a0 : a0 = Cat(e0, a1)
                 /\ ShownNodes(a0, {space} \cup ({main} \cup ({details} \cup ({amount} \cup {}))))
  <2>1. \A y \in {main} \cup ({details} \cup ({amount} \cup {})) : y.tag # space.tag
    BY <1>4, <1>6, <1>7, <1>8, <1>9
  <2> QED BY <1>6, <1>13, <2>1, OneNodeMore
<1>15. PICK kids : /\ Shown(a0, kids) /\ Has(kids, t1, main) /\ Has(kids, t2, details)
                   /\ Has(kids, t3, amount)
  BY <1>7, <1>8, <1>9, <1>14 DEF ShownNodes
<1>16. a0 = e0 \o e1 \o e2 \o e3
  <2>1. IsSeq(e0) /\ IsSeq(e1) /\ IsSeq(e2) /\ IsSeq(e3)
    BY <1>6, <1>7, <1>8, <1>9 DEF ShownOne, Shown
  <2>2. a3 = e3  BY <1>10, <1>11, <2>1, CatFacts
  <2>3. Cat(e0, Cat(e1, Cat(e2, e3))) = Cat(Cat(Cat(e0, e1), e2), e3)
    <3>1. PICK e01, e23 : e01 = Cat(e0, e1) /\ e23 = Cat(e2, e3) /\ IsSeq(e01) /\ IsSeq(e23)
      BY <2>1, CatFacts
    <3>2. Cat(e0, Cat(e1, e23)) = Cat(e01, e23)  BY <2>1, <3>1, CatFacts
    <3>3. Cat(e01, e23) = Cat(Cat(e01, e2), e3)  BY <2>1, <3>1, CatFacts
    <3> QED BY <3>1, <3>2, <3>3
  <2>4. Cat(Cat(Cat(e0, e1), e2), e3) = e0 \o e1 \o e2 \o e3  BY DEF Cat
  <2> QED BY <1>12, <1>13, <1>14, <2>2, <2>3, <2>4
<1>17. ToXml(invoice) = Element("Invoice", a0)
  BY <1>4, <1>5, <1>7, <1>8, <1>9, <1>16, Zenon DEF ToXml
<1>18. PICK node : /\ ShownOne(Element("Invoice", a0), node)
                   /\ node.tag = "Invoice" /\ node.children = kids
  BY <1>15, ShownElement
<1>19. /\ Child(node, "Main") = main /\ Child(node, "Details") = details
       /\ Child(node, "Amount") = amount
  <2>1. IsSeq(node.children)  BY <1>15, <1>18 DEF Shown
  <2>2. Has(node.children, t1, main) /\ Has(node.children, t2, details)
        /\ Has(node.children, t3, amount)
    BY <1>15, <1>18
  <2>3. Child(node, t1) = main /\ Child(node, t2) = details /\ Child(node, t3) = amount
    BY <2>1, <2>2, NodeHas
  <2> QED BY <1>4, <2>3
<1>20. ReadInvoice(node) = InvoiceAsRead(invoice)
  <2>1. ReadMain(main) = MainAsRead(invoice.main)  BY <1>1, <1>7
  <2>2. ReadFields(amount, AmountElements) = FieldsAsRead(invoice.amount)  BY <1>3, <1>9
  <2>3. [i \in DOMAIN items |-> ReadFields(items[i], ItemElements)]
          = [i \in DOMAIN invoice.details |-> FieldsAsRead(invoice.details[i])]
    BY <1>2
  <2>4. ReadInvoice(node)
          = [main    |-> ReadMain(main),
             details |-> [i \in DOMAIN items |-> ReadFields(items[i], ItemElements)],
             amount  |-> ReadFields(amount, AmountElements)]
    BY <1>8, <1>19 DEF ReadInvoice
  <2>5. InvoiceAsRead(invoice)
          = [main    |-> MainAsRead(invoice.main),
             details |-> [i \in DOMAIN invoice.details |-> FieldsAsRead(invoice.details[i])],
             amount  |-> FieldsAsRead(invoice.amount)]
    BY Zenon DEF InvoiceAsRead, MainAsRead
  <2> QED BY <2>1, <2>2, <2>3, <2>4, <2>5
<1> QED BY <1>17, <1>18, <1>20

-----------------------------------------------------------------------------
(* The envelope as a document *)

\* Digits end no lines.
LEMMA LinedDecimal ==
  ASSUME NEW n \in Nat
  PROVE  IsSeq(Decimal(n)) /\ Lined(Decimal(n)) = Decimal(n)
<1>1. PICK t : t = DecimalDigits[n] /\ t \in Seq(Digits)  BY DecimalReadBack
<1>2. Decimal(n) = t  BY <1>1 DEF Decimal
<1>3. \A i \in 1 .. Len(t) : t[i] # "\r"
  <2>1. "\r" \notin Digits  BY DEF Digits
  <2> QED BY <1>1, <2>1
<1>4. IsSeq(t)  BY <1>1 DEF IsSeq
<1>5. Lined(t) = t  BY <1>3, <1>4, LineEndsSame DEF Lined, Free
<1> QED BY <1>2, <1>4, <1>5

\* A text that reads as a document shows it, spliced in line by line.
LEMMA PayloadShown ==
  ASSUME NEW text, IsSeq(text), NEW kids, NEW words,
         Reads(Normalized(text), kids, words)
  PROVE  Shown(AppendLikeJavaReadLine(text), kids)
<1>1. PICK lines : lines = Normalized(text)  OBVIOUS
<1>2. IsSeq(lines) /\ IsSeq(kids) /\ IsSeq(words) /\ Reads(lines, kids, words)
  BY <1>1 DEF Reads
<1>3. Cr # Lf  BY EndsAreTokens
<1>4. Free(lines, Cr)  BY <1>1, <1>3, FreeOfCr DEF Normalized, Cr, Lf
<1>5. ASSUME NEW s, IsSeq(s), Free(s, Cr)
      PROVE  Normalized(s) = s /\ ~ EndsWithOne(s, Cr)
  <2>1. PICK n \in Nat : n = Len(s)  BY <1>5, AddedLast
  <2>2. s # <<>> => n \in 1 .. n  BY <1>5, <2>1 DEF IsSeq
  <2>3. ~ EndsWithOne(s, Cr)  BY <1>5, <2>1, <2>2 DEF EndsWithOne, Free
  <2> QED BY <1>5, <2>3, LineEndsSame DEF Normalized, Cr
<1>6. CASE AppendLikeJavaReadLine(text) = lines
  BY <1>2, <1>4, <1>5, <1>6 DEF Shown
<1>7. CASE AppendLikeJavaReadLine(text) = Add(lines, Lf)
  <2>1. PICK s : s = Add(lines, Lf)  OBVIOUS
  <2>2. IsSeq(s) /\ Free(s, Cr)  BY <1>2, <1>3, <1>4, <2>1, AddedLast, FreeAdded
  <2>3. PICK c, none, w : c = "\n" /\ none = <<>> /\ w = <<c>>  OBVIOUS
  <2>4. PICK l : l = <<Lf>>  OBVIOUS
  <2>5. Reads(l, none, w)
    <3>1. IsSeq(l) /\ IsSeq(none) /\ IsSeq(w)  BY <2>3, <2>4, EmptyIsSeq, OneIsSeq
    <3>2. ASSUME NEW below, NEW tag, NEW k, NEW v, IsSeq(below), IsSeq(k), IsSeq(v)
          PROVE  Reading(Stack(below, tag, k, v), l) = Stack(below, tag, Cat(k, none), Cat(v, w))
      <4>1. Reading(Stack(below, tag, k, v), l) = ReadToken(Stack(below, tag, k, v), Lf)
        BY <2>4, ReadingOne
      <4>2. Lf = Character(c) /\ c \notin {"<", "&"}  BY <2>3 DEF Lf
      <4>3. ReadToken(Stack(below, tag, k, v), Character(c)) = Stack(below, tag, k, Cat(v, <<c>>))
        BY <3>2, <4>2, TokenOfCharacter
      <4>4. Cat(k, none) = k  BY <2>3, <3>2, CatFacts
      <4> QED BY <2>3, <4>1, <4>2, <4>3, <4>4
    <3> QED BY <3>1, <3>2 DEF Reads
  <2>6. Reads(Cat(lines, l), Cat(kids, none), Cat(words, w))  BY <1>2, <2>5, ReadsBoth
  <2>7. Cat(lines, l) = s /\ Cat(kids, none) = kids  BY <1>2, <2>1, <2>3, <2>4, CatFacts
  <2> QED BY <1>2, <1>5, <1>7, <2>1, <2>2, <2>6, <2>7 DEF Shown
<1>8. \/ AppendLikeJavaReadLine(text) = lines
      \/ AppendLikeJavaReadLine(text) = Add(lines, Lf)
  BY <1>1, Zenon DEF AppendLikeJavaReadLine, Add, Lf
<1> QED BY <1>6, <1>7, <1>8

\* A party or a route as the platform reads it.
PartyAsRead(party) ==
  IF "description" \in DOMAIN party
  THEN [identifier |-> Lined(party.identifier), description |-> Lined(party.description)]
  ELSE [identifier |-> Lined(party.identifier)]

\* A party or a route is read back.
LEMMA PartyShown ==
  ASSUME NEW party, HasTexts(party), NEW tag, NEW idTag, idTag # "Description"
  PROVE  \E node : /\ ShownOne(PushParty(tag, idTag, party), node) /\ node.tag = tag
                   /\ ReadParty(node, idTag) = PartyAsRead(party)
<1>1. PICK descr : descr = "Description" /\ idTag # descr  OBVIOUS
<1>2. PICK id, idElement : /\ id = TextNode(idTag, Lined(party.identifier))
                           /\ idElement = Element(idTag, PushTextEscaped(party.identifier))
  OBVIOUS
<1>3. ShownOne(idElement, id)  BY <1>2, ShownTexts DEF HasTexts, ShownOne
<1>4. id.tag = idTag /\ id.text = Lined(party.identifier)  BY <1>2 DEF TextNode, NodeOf
<1>5. PICK none : none = <<>> /\ ShownNodes(none, {})  BY NoNodes
<1>6. CASE "description" \in DOMAIN party
  <2>1. PICK d, dElement : /\ d = TextNode(descr, Lined(party.description))
                           /\ dElement = Element(descr, PushTextEscaped(party.description))
    OBVIOUS
  <2>2. ShownOne(dElement, d)  BY <1>6, <2>1, ShownTexts DEF HasTexts, ShownOne
  <2>3. d.tag = descr /\ d.text = Lined(party.description)  BY <2>1 DEF TextNode, NodeOf
  <2>4. PICK e : e = Cat(dElement, none) /\ ShownNodes(e, {d} \cup {})
    BY <1>5, <2>2, OneNodeMore
  <2>5. PICK f : f = Cat(idElement, e) /\ ShownNodes(f, {id} \cup ({d} \cup {}))
    <3>1. \A y \in {d} \cup {} : y.tag # id.tag  BY <1>1, <1>4, <2>3
    <3> QED BY <1>3, <2>4, <3>1, OneNodeMore
  <2>6. PICK kids : Shown(f, kids) /\ Has(kids, idTag, id) /\ Has(kids, descr, d)
    BY <1>4, <2>3, <2>5 DEF ShownNodes
  <2>7. PICK node : ShownOne(Element(tag, f), node) /\ node.tag = tag /\ node.children = kids
    BY <2>6, ShownElement
  <2>8. f = idElement \o dElement
    <3>1. IsSeq(dElement)  BY <2>2 DEF ShownOne, Shown
    <3>2. e = dElement  BY <1>5, <2>4, <3>1, CatFacts
    <3> QED BY <2>5, <3>2 DEF Cat
  <2>9. PushParty(tag, idTag, party) = Element(tag, f)
    BY <1>1, <1>2, <1>6, <2>1, <2>8 DEF PushParty
  <2>10. IsSeq(node.children) /\ Has(node.children, idTag, id) /\ Has(node.children, descr, d)
    BY <2>6, <2>7 DEF Shown
  <2>11. Text(node, idTag) = id.text /\ Text(node, descr) = d.text /\ HasChild(node, descr)
    BY <2>10, NodeHas
  <2>12. ReadParty(node, idTag) = PartyAsRead(party)
    BY <1>1, <1>4, <1>6, <2>3, <2>11 DEF ReadParty, PartyAsRead
  <2> QED BY <2>7, <2>9, <2>12
<1>7. CASE "description" \notin DOMAIN party
  <2>1. PICK f : f = Cat(idElement, none) /\ ShownNodes(f, {id} \cup {})
    BY <1>3, <1>5, OneNodeMore
  <2>2. PICK kids : Shown(f, kids) /\ Has(kids, idTag, id) /\ Lacks(kids, descr)
    <3>1. PICK kids : /\ Shown(f, kids)
                      /\ \A x \in {id} \cup {} : Has(kids, x.tag, x)
                      /\ \A t : (\A x \in {id} \cup {} : x.tag # t) => Lacks(kids, t)
      BY <2>1 DEF ShownNodes
    <3>2. \A x \in {id} \cup {} : x.tag # descr  BY <1>1, <1>4
    <3>3. Lacks(kids, descr) /\ Has(kids, idTag, id)  BY <1>4, <3>1, <3>2
    <3> QED BY <3>1, <3>3
  <2>3. PICK node : ShownOne(Element(tag, f), node) /\ node.tag = tag /\ node.children = kids
    BY <2>2, ShownElement
  <2>4. PushParty(tag, idTag, party) = Element(tag, f)
    BY <1>2, <1>5, <1>7, <2>1 DEF PushParty, Cat
  <2>5. IsSeq(node.children) /\ Has(node.children, idTag, id) /\ Lacks(node.children, descr)
    BY <2>2, <2>3 DEF Shown
  <2>6. Text(node, idTag) = id.text /\ ~ HasChild(node, descr)
    BY <2>5, NodeHas, NodeLacks
  <2>7. ReadParty(node, idTag) = PartyAsRead(party)
    BY <1>1, <1>4, <1>7, <2>6 DEF ReadParty, PartyAsRead
  <2> QED BY <2>3, <2>4, <2>7
<1> QED BY <1>6, <1>7

\* One element before a sequence.
Prefixed(x, s) == Cat(<<x>>, s)

\* It is the first one, and the others move by a place.
LEMMA PrefixedPlaces ==
  ASSUME NEW e, NEW s, IsSeq(s)
  PROVE  /\ IsSeq(Prefixed(e, s)) /\ Len(s) \in Nat /\ Len(Prefixed(e, s)) = Len(s) + 1
         /\ Prefixed(e, s)[1] = e
         /\ \A i \in 1 .. Len(s) : Prefixed(e, s)[i + 1] = s[i]
<1>1. IsSeq(Cat(<<e>>, s)) /\ Len(Cat(<<e>>, s)) = Len(s) + 1  BY ZeroBefore, Zenon
<1>2. Cat(<<e>>, s)[1] = e  BY ZeroBefore, Zenon
<1>4. Len(s) \in Nat  BY SeqLength
<1>3. \A i \in 1 .. Len(s) : Cat(<<e>>, s)[i + 1] = s[i]
  <2>1. PICK one : one = <<e>>  OBVIOUS
  <2>2. IsSeq(one) /\ Len(one) = 1  BY <2>1, OneIsSeq
  <2>3. IsSeq(one)  BY <2>2
  <2>4. \A i \in 1 .. Len(s) : Cat(one, s)[Len(one) + i] = s[i]  BY <2>3, CatPlaces
  <2>5. \A i \in 1 .. Len(s) : 1 + i = i + 1  BY <1>4
  <2> QED BY <2>1, <2>2, <2>4, <2>5
<1> QED BY <1>1, <1>2, <1>3, <1>4, Zenon DEF Prefixed

\* Three nodes, then others.
LEMMA AfterThree ==
  ASSUME NEW x, NEW y, NEW z, NEW nodes, IsSeq(nodes), NEW kids,
         kids = Prefixed(x, Prefixed(y, Prefixed(z, nodes)))
  PROVE  /\ IsSeq(kids) /\ Len(nodes) \in Nat /\ Len(kids) = Len(nodes) + 3
         /\ kids[1] = x /\ kids[2] = y /\ kids[3] = z
         /\ \A i \in 1 .. Len(nodes) : kids[i + 3] = nodes[i]
<1>1. PICK n \in Nat : n = Len(nodes)  BY SeqLength
<1>3. PICK c : c = Prefixed(z, nodes)  OBVIOUS
<1>4. PICK b : b = Prefixed(y, c)  OBVIOUS
<1>5. kids = Prefixed(x, b)  BY <1>3, <1>4
<1>6. /\ IsSeq(c) /\ Len(c) = n + 1 /\ c[1] = z /\ \A i \in 1 .. n : c[i + 1] = nodes[i]
  BY <1>1, <1>3, PrefixedPlaces
<1>7. /\ IsSeq(b) /\ Len(b) = n + 2 /\ b[1] = y /\ \A i \in 1 .. n + 1 : b[i + 1] = c[i]
  <2>1. PICK m \in Nat : m = n + 1  OBVIOUS
  <2>2. /\ IsSeq(Prefixed(y, c)) /\ Len(c) \in Nat /\ Len(Prefixed(y, c)) = Len(c) + 1
        /\ Prefixed(y, c)[1] = y
        /\ \A i \in 1 .. Len(c) : Prefixed(y, c)[i + 1] = c[i]
    <3>1. IsSeq(c)  BY <1>6
    <3>2. IsSeq(Prefixed(y, c)) /\ Len(c) \in Nat /\ Len(Prefixed(y, c)) = Len(c) + 1
      BY <3>1, PrefixedPlaces, Zenon
    <3>3. Prefixed(y, c)[1] = y  BY <3>1, PrefixedPlaces, Zenon
    <3>4. \A i \in 1 .. Len(c) : Prefixed(y, c)[i + 1] = c[i]  BY <3>1, PrefixedPlaces
    <3> QED BY <3>2, <3>3, <3>4
  <2>3. Len(c) = m  BY <1>6, <2>1
  <2> QED BY <1>4, <2>1, <2>2, <2>3
<1>8. /\ IsSeq(kids) /\ Len(kids) = n + 3 /\ kids[1] = x
      /\ \A i \in 1 .. n + 2 : kids[i + 1] = b[i]
  <2>1. PICK m \in Nat : m = n + 2  OBVIOUS
  <2>2. /\ IsSeq(kids) /\ Len(kids) = m + 1 /\ kids[1] = x
        /\ \A i \in 1 .. m : kids[i + 1] = b[i]
    BY <1>5, <1>7, <2>1, PrefixedPlaces
  <2> QED BY <2>1, <2>2
<1>9. kids[2] = y
  <2>1. 1 \in 1 .. n + 2 /\ 1 + 1 = 2  OBVIOUS
  <2> QED BY <1>7, <1>8, <2>1
<1>10. kids[3] = z
  <2>1. 1 \in 1 .. n + 1 /\ 2 \in 1 .. n + 2 /\ 1 + 1 = 2 /\ 2 + 1 = 3  OBVIOUS
  <2> QED BY <1>6, <1>7, <1>8, <2>1
<1>11. ASSUME NEW i \in 1 .. n  PROVE kids[i + 3] = nodes[i]
  <2>1. /\ i + 1 \in 1 .. n + 1 /\ i + 2 \in 1 .. n + 2
        /\ (i + 1) + 1 = i + 2 /\ (i + 2) + 1 = i + 3
    OBVIOUS
  <2>2. kids[i + 3] = b[i + 2]  BY <1>8, <2>1
  <2>3. b[i + 2] = c[i + 1]  BY <1>7, <2>1
  <2> QED BY <1>6, <2>2, <2>3
<1> QED BY <1>1, <1>8, <1>9, <1>10, <1>11

\* The attributes of a pack.
PackAttributes == {"@count", "@messageType", "@version"}

\* The pack of an envelope, with its attributes and its messages.
PackXml(envelope) ==
  Element("InvoicePack",
    Element("@count", PushTextEscaped(Decimal(Len(envelope.payloads))))
    \o Element("@messageType", PushEscaped(envelope.messageType))
    \o Element("@version", PushTextEscaped(<<"v", "4", "1">>))
    \o FlattenSeq([i \in DOMAIN envelope.payloads |->
         AppendLikeJavaReadLine(envelope.payloads[i])]))

\* Each payload shows its own message, which is no attribute.
AreMessages(payloads, messages) ==
  /\ IsSeq(payloads) /\ IsSeq(messages) /\ Len(messages) = Len(payloads)
  /\ \A i \in 1 .. Len(payloads) :
       /\ ShownOne(AppendLikeJavaReadLine(payloads[i]), messages[i])
       /\ messages[i].tag \notin PackAttributes

\* The pack as the platform reads it.
PackAsRead(pack, envelope, messages) ==
  /\ Text(pack, "@count") = Decimal(Len(envelope.payloads))
  /\ Text(pack, "@messageType") = Lined(envelope.messageType)
  /\ LET attributes == {i \in DOMAIN pack.children : pack.children[i].tag \in PackAttributes}
     IN  SubSeq(pack.children, Cardinality(attributes) + 1, Len(pack.children)) = messages

\* The pack is read back from its element.
LEMMA PackShown ==
  ASSUME NEW envelope, IsSeq(envelope.messageType), NEW messages,
         AreMessages(envelope.payloads, messages)
  PROVE  \E node : /\ ShownOne(PackXml(envelope), node) /\ node.tag = "InvoicePack"
                   /\ PackAsRead(node, envelope, messages)
<1>1. PICK payloads : payloads = envelope.payloads  OBVIOUS
<1>2. PICK n \in Nat : n = Len(payloads) /\ DOMAIN payloads = 1 .. n
  BY <1>1, SeqOfPlaces DEF AreMessages
<1>3. /\ IsSeq(payloads) /\ IsSeq(messages) /\ Len(messages) = n
      /\ \A i \in 1 .. n : /\ ShownOne(AppendLikeJavaReadLine(payloads[i]), messages[i])
                           /\ messages[i].tag \notin PackAttributes
  BY <1>1, <1>2 DEF AreMessages
<1>4. PICK flat, parts : /\ flat = FlattenSeq(parts)
                         /\ parts = [i \in DOMAIN payloads |-> AppendLikeJavaReadLine(payloads[i])]
  OBVIOUS
<1>5. Shown(flat, messages)
  <2>1. parts = [i \in 1 .. n |-> parts[i]]  BY <1>2, <1>4
  <2>2. IsSeq(parts) /\ Len(parts) = n  BY <2>1, PlacesSeq
  <2>3. ASSUME NEW i \in 1 .. n  PROVE Shown(parts[i], <<messages[i]>>)
    <3>1. parts[i] = AppendLikeJavaReadLine(payloads[i])  BY <1>2, <1>4
    <3> QED BY <1>3, <3>1 DEF ShownOne
  <2> QED BY <1>3, <1>4, <2>2, <2>3, ShownList
<1>6. PICK t1, t2, t3 : t1 = "@count" /\ t2 = "@messageType" /\ t3 = "@version"  OBVIOUS
<1>7. PackAttributes = {t1, t2, t3} /\ t1 # t2 /\ t1 # t3 /\ t2 # t3
  BY <1>6 DEF PackAttributes
<1>8. PICK x, e1 : /\ x = TextNode(t1, Lined(Decimal(n)))
                   /\ e1 = Element(t1, PushTextEscaped(Decimal(n))) /\ ShownOne(e1, x)
  BY LinedDecimal, ShownTexts DEF ShownOne
<1>9. PICK y, e2 : /\ y = TextNode(t2, Lined(envelope.messageType))
                   /\ e2 = Element(t2, PushEscaped(envelope.messageType)) /\ ShownOne(e2, y)
  BY ShownTexts DEF ShownOne
<1>10. PICK v : v = <<"v", "4", "1">> /\ IsSeq(v)
  <2>1. PICK v : v = <<"v", "4", "1">>  OBVIOUS
  <2>2. v = [i \in 1 .. 3 |-> v[i]]  BY <2>1
  <2> QED BY <2>1, <2>2, PlacesSeq
<1>11. PICK z, e3 : /\ z = TextNode(t3, Lined(v))
                    /\ e3 = Element(t3, PushTextEscaped(v)) /\ ShownOne(e3, z)
  BY <1>10, ShownTexts DEF ShownOne
<1>12. /\ x.tag = t1 /\ x.text = Decimal(n) /\ y.tag = t2 /\ y.text = Lined(envelope.messageType)
       /\ z.tag = t3
  BY <1>8, <1>9, <1>11, LinedDecimal DEF TextNode, NodeOf
<1>13. PICK a3, a2, a1 : a3 = Cat(e3, flat) /\ a2 = Cat(e2, a3) /\ a1 = Cat(e1, a2)  OBVIOUS
<1>14. PICK k3, k2, kids : /\ k3 = Prefixed(z, messages) /\ k2 = Prefixed(y, k3)
                           /\ kids = Prefixed(x, k2)
  OBVIOUS
<1>15. Shown(a3, k3)
  <2>1. PICK one : one = <<z>> /\ Shown(e3, one)  BY <1>11 DEF ShownOne
  <2> QED BY <1>5, <1>13, <1>14, <2>1, ShownBoth DEF Prefixed
<1>16. Shown(a2, k2)
  <2>1. PICK one : one = <<y>> /\ Shown(e2, one)  BY <1>9 DEF ShownOne
  <2> QED BY <1>13, <1>14, <1>15, <2>1, ShownBoth DEF Prefixed
<1>17. Shown(a1, kids)
  <2>1. PICK one : one = <<x>> /\ Shown(e1, one)  BY <1>8 DEF ShownOne
  <2> QED BY <1>13, <1>14, <1>16, <2>1, ShownBoth DEF Prefixed
<1>18. PICK node : /\ ShownOne(Element("InvoicePack", a1), node) /\ node.tag = "InvoicePack"
                   /\ node.children = kids
  BY <1>17, ShownElement
<1>19. PackXml(envelope) = Element("InvoicePack", a1)
  <2>1. IsSeq(e1) /\ IsSeq(e2) /\ IsSeq(e3) /\ IsSeq(flat)
    BY <1>5, <1>8, <1>9, <1>11 DEF ShownOne, Shown
  <2>2. PICK e12, e3f : e12 = Cat(e1, e2) /\ e3f = Cat(e3, flat) /\ IsSeq(e12) /\ IsSeq(e3f)
    BY <2>1, CatFacts
  <2>3. Cat(e1, Cat(e2, e3f)) = Cat(e12, e3f) /\ Cat(e12, e3f) = Cat(Cat(e12, e3), flat)
    BY <2>1, <2>2, CatFacts
  <2>4. a1 = e1 \o e2 \o e3 \o flat  BY <1>13, <2>2, <2>3 DEF Cat
  <2>5. Len(envelope.payloads) = n  BY <1>1, <1>2
  <2> QED BY <1>1, <1>4, <1>6, <1>8, <1>9, <1>10, <1>11, <2>4, <2>5, Zenon DEF PackXml
<1>20. /\ IsSeq(kids) /\ Len(kids) = n + 3
       /\ kids[1] = x /\ kids[2] = y /\ kids[3] = z
       /\ \A i \in 1 .. n : kids[i + 3] = messages[i]
  <2>1. kids = Prefixed(x, Prefixed(y, Prefixed(z, messages)))  BY <1>14
  <2> QED BY <1>3, <2>1, AfterThree
<1>21. \A i \in 1 .. n + 3 : i > 3 => kids[i].tag \notin {t1, t2, t3}
  <2>1. ASSUME NEW i \in 1 .. n + 3, i > 3  PROVE kids[i].tag \notin {t1, t2, t3}
    <3>1. PICK j \in 1 .. n : j + 3 = i
      <4>1. i - 3 \in 1 .. n /\ (i - 3) + 3 = i  BY <2>1
      <4> QED BY <4>1
    <3>2. kids[i] = messages[j]  BY <1>20, <3>1
    <3> QED BY <1>3, <1>7, <3>2
  <2> QED BY <2>1
<1>22. Has(kids, t1, x) /\ Has(kids, t2, y)
  <2>1. \A i \in 1 .. n + 3 : i = 1 \/ i = 2 \/ i = 3 \/ i > 3  OBVIOUS
  <2>2. \A i \in 1 .. n + 3 : kids[i].tag = t1 => i = 1
    BY <1>7, <1>12, <1>20, <1>21, <2>1
  <2>3. \A i \in 1 .. n + 3 : kids[i].tag = t2 => i = 2
    BY <1>7, <1>12, <1>20, <1>21, <2>1
  <2>4. 1 \in 1 .. Len(kids) /\ 2 \in 1 .. Len(kids)  BY <1>20
  <2> QED BY <1>12, <1>20, <2>2, <2>3, <2>4 DEF Has
<1>23. Text(node, t1) = Decimal(n) /\ Text(node, t2) = Lined(envelope.messageType)
  <2>1. IsSeq(node.children) /\ Has(node.children, t1, x) /\ Has(node.children, t2, y)
    BY <1>18, <1>20, <1>22
  <2> QED BY <1>12, <2>1, NodeHas
<1>24. {i \in DOMAIN kids : kids[i].tag \in PackAttributes} = 1 .. 3
  <2>1. DOMAIN kids = 1 .. n + 3  BY <1>20 DEF IsSeq
  <2>2. ASSUME NEW i \in 1 .. n + 3  PROVE kids[i].tag \in PackAttributes <=> i \in 1 .. 3
    <3>1. i = 1 \/ i = 2 \/ i = 3 \/ i > 3  OBVIOUS
    <3>2. i > 3 => i \notin 1 .. 3  OBVIOUS
    <3> QED BY <1>7, <1>12, <1>20, <1>21, <3>1, <3>2
  <2>3. \A i \in 1 .. 3 : i \in 1 .. n + 3  OBVIOUS
  <2> QED BY <2>1, <2>2, <2>3
<1>25. SubSeq(kids, 4, n + 3) = messages
  <2>1. PICK K : kids \in Seq(K)  BY <1>20 DEF IsSeq
  <2>2. PICK M : messages \in Seq(M)  BY <1>3 DEF IsSeq
  <2>3. SubSeq(kids, 4, n + 3) = [i \in 1 .. n |-> kids[i + 3]]
    BY <1>20, <2>1
  <2>4. messages = [i \in 1 .. n |-> messages[i]]  BY <1>3, <2>2
  <2> QED BY <1>20, <2>3, <2>4
<1>26. Cardinality(1 .. 3) + 1 = 4
  <2>1. \A k \in Nat : Cardinality(1 .. k) = k  BY FS_Interval
  <2>2. PICK S : S = 1 .. 3 /\ Cardinality(S) = 3  BY <2>1, 3 \in Nat
  <2> QED BY <2>1, <2>2
<1>27. PackAsRead(node, envelope, messages)
  <2>1. Text(node, "@count") = Decimal(Len(envelope.payloads))
        /\ Text(node, "@messageType") = Lined(envelope.messageType)
    BY <1>1, <1>2, <1>6, <1>23
  <2>2. SubSeq(node.children,
               Cardinality({i \in DOMAIN node.children : node.children[i].tag \in PackAttributes}) + 1,
               Len(node.children)) = messages
    BY <1>18, <1>20, <1>24, <1>25, <1>26
  <2> QED BY <2>1, <2>2 DEF PackAsRead
<1> QED BY <1>18, <1>19, <1>27

\* An envelope as the platform reads it.
EnvelopeAsRead(envelope, messages) ==
  [from        |-> [party |-> PartyAsRead(envelope.routing.from),
                    route |-> PartyAsRead(envelope.routing.from_vac)],
   to          |-> [party |-> PartyAsRead(envelope.routing.to),
                    route |-> PartyAsRead(envelope.routing.to_vac)],
   count       |-> Decimal(Len(envelope.payloads)),
   messageType |-> Lined(envelope.messageType),
   messages    |-> messages]

\* Six parts, one after another.
LEMMA SixParts ==
  ASSUME NEW a, NEW b, NEW c, NEW d, NEW e, NEW f,
         IsSeq(a), IsSeq(b), IsSeq(c), IsSeq(d), IsSeq(e), IsSeq(f)
  PROVE  Cat(a, Cat(b, Cat(c, Cat(d, Cat(e, f))))) = Cat(Cat(a, Cat(Cat(Cat(b, c), d), e)), f)
<1>1. PICK bc, bcd, bcde : /\ bc = Cat(b, c) /\ bcd = Cat(bc, d) /\ bcde = Cat(bcd, e)
                           /\ IsSeq(bc) /\ IsSeq(bcd) /\ IsSeq(bcde)
  <2>1. PICK bc : bc = Cat(b, c) /\ IsSeq(bc)  BY CatFacts
  <2>2. PICK bcd : bcd = Cat(bc, d) /\ IsSeq(bcd)  BY <2>1, CatFacts
  <2>3. IsSeq(Cat(bcd, e))  BY <2>2, CatFacts
  <2> QED BY <2>1, <2>2, <2>3
<1>2. PICK ef, def : ef = Cat(e, f) /\ def = Cat(d, ef) /\ IsSeq(ef) /\ IsSeq(def)
  <2>1. PICK ef : ef = Cat(e, f) /\ IsSeq(ef)  BY CatFacts
  <2>2. IsSeq(Cat(d, ef))  BY <2>1, CatFacts
  <2> QED BY <2>1, <2>2
<1>3. Cat(b, Cat(c, def)) = Cat(bc, def)  BY <1>1, <1>2, CatFacts
<1>4. Cat(bc, def) = Cat(bcd, ef)  BY <1>1, <1>2, CatFacts
<1>5. Cat(bcd, ef) = Cat(bcde, f)  BY <1>1, <1>2, CatFacts
<1>6. Cat(a, Cat(bcde, f)) = Cat(Cat(a, bcde), f)  BY <1>1, CatFacts
<1> QED BY <1>1, <1>2, <1>3, <1>4, <1>5, <1>6

\* An envelope is read back from its document, to_turnkey_xml of wire.rs.
LEMMA EnvelopeShown ==
  ASSUME NEW envelope, IsEnvelope(envelope), NEW messages,
         AreMessages(envelope.payloads, messages)
  PROVE  \E root : /\ ShownOne(ToTurnkeyXml(envelope), root)
                   /\ ReadEnvelope(root) = EnvelopeAsRead(envelope, messages)
<1>1. PICK routing : /\ routing = envelope.routing
                      /\ HasTexts(routing.from) /\ HasTexts(routing.from_vac)
                      /\ HasTexts(routing.to) /\ HasTexts(routing.to_vac)
  BY DEF IsEnvelope
<1>2. PICK t0, t1, t2, t3, t4, t5 :
        /\ t0 = "@xmlns" /\ t1 = "From" /\ t2 = "FromVAC" /\ t3 = "To" /\ t4 = "ToVAC"
        /\ t5 = "InvoicePack"
  OBVIOUS
<1>3. /\ t0 \notin {t1, t2, t3, t4, t5} /\ t1 \notin {t2, t3, t4, t5}
      /\ t2 \notin {t3, t4, t5} /\ t3 \notin {t4, t5} /\ t4 # t5
  BY <1>2
<1>4. PICK p, r : p = "PartyId" /\ r = "RoutingId" /\ p # "Description" /\ r # "Description"
  OBVIOUS
<1>5. PICK ns, e0, space : /\ ns = "urn:GEINV:InvoiceEnvelope:4.1"
                           /\ e0 = Element(t0, <<Character(ns)>>)
                           /\ ShownOne(e0, space) /\ space.tag = t0
  <2>1. PICK ns : ns = "urn:GEINV:InvoiceEnvelope:4.1" /\ ns \notin {"&", "<", ">", "\r"}
    OBVIOUS
  <2> QED BY <2>1, SpaceShown
<1>6. PICK e1, from : /\ e1 = PushParty(t1, p, routing.from) /\ ShownOne(e1, from)
                      /\ from.tag = t1 /\ ReadParty(from, p) = PartyAsRead(routing.from)
  BY <1>1, <1>4, PartyShown
<1>7. PICK e2, fromVac : /\ e2 = PushParty(t2, r, routing.from_vac) /\ ShownOne(e2, fromVac)
                         /\ fromVac.tag = t2
                         /\ ReadParty(fromVac, r) = PartyAsRead(routing.from_vac)
  BY <1>1, <1>4, PartyShown
<1>8. PICK e3, to : /\ e3 = PushParty(t3, p, routing.to) /\ ShownOne(e3, to)
                    /\ to.tag = t3 /\ ReadParty(to, p) = PartyAsRead(routing.to)
  BY <1>1, <1>4, PartyShown
<1>9. PICK e4, toVac : /\ e4 = PushParty(t4, r, routing.to_vac) /\ ShownOne(e4, toVac)
                       /\ toVac.tag = t4
                       /\ ReadParty(toVac, r) = PartyAsRead(routing.to_vac)
  BY <1>1, <1>4, PartyShown
<1>10. PICK e5, pack : /\ e5 = PackXml(envelope) /\ ShownOne(e5, pack) /\ pack.tag = t5
                       /\ PackAsRead(pack, envelope, messages)
  <2>1. IsSeq(envelope.messageType)  BY DEF IsEnvelope
  <2> QED BY <1>2, <2>1, PackShown
<1>11. PICK none, no : none = <<>> /\ no = {} /\ ShownNodes(none, no)  BY NoNodes
<1>12. PICK a5, n5 : a5 = Cat(e5, none) /\ n5 = {pack} \cup no /\ ShownNodes(a5, n5)
  <2>1. \A y \in no : y.tag # pack.tag  BY <1>11
  <2>2. ShownOne(e5, pack) /\ ShownNodes(none, no)  BY <1>10, <1>11
  <2>3. ShownNodes(Cat(e5, none), {pack} \cup no)  BY <2>1, <2>2, OneNodeMore
  <2> QED BY <2>3
<1>13. PICK a4, n4 : a4 = Cat(e4, a5) /\ n4 = {toVac} \cup n5 /\ ShownNodes(a4, n4)
  <2>1. \A y \in n5 : y.tag # toVac.tag  BY <1>3, <1>9, <1>10, <1>11, <1>12
  <2>2. ShownOne(e4, toVac) /\ ShownNodes(a5, n5)  BY <1>9, <1>12
  <2>3. ShownNodes(Cat(e4, a5), {toVac} \cup n5)  BY <2>1, <2>2, OneNodeMore
  <2> QED BY <2>3
<1>14. PICK a3, n3 : a3 = Cat(e3, a4) /\ n3 = {to} \cup n4 /\ ShownNodes(a3, n3)
  <2>1. \A y \in n4 : y.tag # to.tag  BY <1>3, <1>8, <1>9, <1>10, <1>11, <1>12, <1>13
  <2>2. ShownOne(e3, to) /\ ShownNodes(a4, n4)  BY <1>8, <1>13
  <2>3. ShownNodes(Cat(e3, a4), {to} \cup n4)  BY <2>1, <2>2, OneNodeMore
  <2> QED BY <2>3
<1>15. PICK a2, n2 : a2 = Cat(e2, a3) /\ n2 = {fromVac} \cup n3 /\ ShownNodes(a2, n2)
  <2>1. \A y \in n3 : y.tag # fromVac.tag
    BY <1>3, <1>7, <1>8, <1>9, <1>10, <1>11, <1>12, <1>13, <1>14
  <2>2. ShownOne(e2, fromVac) /\ ShownNodes(a3, n3)  BY <1>7, <1>14
  <2>3. ShownNodes(Cat(e2, a3), {fromVac} \cup n3)  BY <2>1, <2>2, OneNodeMore
  <2> QED BY <2>3
<1>16. PICK a1, n1 : a1 = Cat(e1, a2) /\ n1 = {from} \cup n2 /\ ShownNodes(a1, n1)
  <2>1. \A y \in n2 : y.tag # from.tag
    BY <1>3, <1>6, <1>7, <1>8, <1>9, <1>10, <1>11, <1>12, <1>13, <1>14, <1>15
  <2>2. ShownOne(e1, from) /\ ShownNodes(a2, n2)  BY <1>6, <1>15
  <2>3. ShownNodes(Cat(e1, a2), {from} \cup n2)  BY <2>1, <2>2, OneNodeMore
  <2> QED BY <2>3
<1>17. PICK a0, n0 : a0 = Cat(e0, a1) /\ n0 = {space} \cup n1 /\ ShownNodes(a0, n0)
  <2>1. \A y \in n1 : y.tag # space.tag
    BY <1>3, <1>5, <1>6, <1>7, <1>8, <1>9, <1>10, <1>11, <1>12, <1>13, <1>14, <1>15, <1>16
  <2>2. ShownOne(e0, space) /\ ShownNodes(a1, n1)  BY <1>5, <1>16
  <2>3. ShownNodes(Cat(e0, a1), {space} \cup n1)  BY <2>1, <2>2, OneNodeMore
  <2> QED BY <2>3
<1>18. {from, fromVac, to, toVac, pack} \subseteq n0
  BY <1>12, <1>13, <1>14, <1>15, <1>16, <1>17
<1>19. PICK kids : /\ Shown(a0, kids) /\ Has(kids, t1, from) /\ Has(kids, t2, fromVac)
                   /\ Has(kids, t3, to) /\ Has(kids, t4, toVac) /\ Has(kids, t5, pack)
  <2>1. PICK kids : Shown(a0, kids) /\ \A x \in n0 : Has(kids, x.tag, x)
    BY <1>17 DEF ShownNodes
  <2> QED BY <1>6, <1>7, <1>8, <1>9, <1>10, <1>18, <2>1
<1>20. a0 = e0 \o (e1 \o e2 \o e3 \o e4) \o e5
  <2>1. IsSeq(e0) /\ IsSeq(e1) /\ IsSeq(e2) /\ IsSeq(e3) /\ IsSeq(e4) /\ IsSeq(e5)
    BY <1>5, <1>6, <1>7, <1>8, <1>9, <1>10 DEF ShownOne, Shown
  <2>2. a5 = e5  BY <1>11, <1>12, <2>1, CatFacts
  <2>3. Cat(e0, Cat(e1, Cat(e2, Cat(e3, Cat(e4, e5)))))
          = Cat(Cat(e0, Cat(Cat(Cat(e1, e2), e3), e4)), e5)
    BY <2>1, SixParts
  <2>4. a0 = Cat(Cat(e0, Cat(Cat(Cat(e1, e2), e3), e4)), e5)
    BY <1>13, <1>14, <1>15, <1>16, <1>17, <2>2, <2>3
  <2> QED BY <2>4 DEF Cat
<1>21. ToTurnkeyXml(envelope) = Element("InvoiceEnvelope", a0)
  <2>1. PushRoutingInfo(routing) = e1 \o e2 \o e3 \o e4
    BY <1>2, <1>4, <1>6, <1>7, <1>8, <1>9, Zenon DEF PushRoutingInfo
  <2>2. ToTurnkeyXml(envelope)
          = Element("InvoiceEnvelope", e0 \o PushRoutingInfo(routing) \o PackXml(envelope))
    BY <1>1, <1>2, <1>5, Zenon DEF ToTurnkeyXml, PackXml
  <2> QED BY <1>10, <1>20, <2>1, <2>2
<1>22. PICK root : ShownOne(Element("InvoiceEnvelope", a0), root) /\ root.children = kids
  BY <1>19, ShownElement
<1>23. /\ Child(root, t1) = from /\ Child(root, t2) = fromVac
       /\ Child(root, t3) = to /\ Child(root, t4) = toVac /\ Child(root, t5) = pack
  <2>1. IsSeq(root.children)  BY <1>19, <1>22 DEF Shown
  <2>2. /\ Has(root.children, t1, from) /\ Has(root.children, t2, fromVac)
        /\ Has(root.children, t3, to) /\ Has(root.children, t4, toVac)
        /\ Has(root.children, t5, pack)
    BY <1>19, <1>22
  <2>3. Child(root, t1) = from /\ Child(root, t2) = fromVac  BY <2>1, <2>2, NodeHas
  <2>4. Child(root, t3) = to /\ Child(root, t4) = toVac  BY <2>1, <2>2, NodeHas
  <2>5. Child(root, t5) = pack  BY <2>1, <2>2, NodeHas
  <2> QED BY <2>3, <2>4, <2>5
<1>24. ReadEnvelope(root) = EnvelopeAsRead(envelope, messages)
  <2>1. /\ Child(root, "From") = from /\ Child(root, "FromVAC") = fromVac
        /\ Child(root, "To") = to /\ Child(root, "ToVAC") = toVac
        /\ Child(root, "InvoicePack") = pack
    BY <1>2, <1>23
  <2>2. /\ ReadParty(from, "PartyId") = PartyAsRead(routing.from)
        /\ ReadParty(fromVac, "RoutingId") = PartyAsRead(routing.from_vac)
        /\ ReadParty(to, "PartyId") = PartyAsRead(routing.to)
        /\ ReadParty(toVac, "RoutingId") = PartyAsRead(routing.to_vac)
    BY <1>4, <1>6, <1>7, <1>8, <1>9
  <2>3. /\ Text(pack, "@count") = Decimal(Len(envelope.payloads))
        /\ Text(pack, "@messageType") = Lined(envelope.messageType)
        /\ SubSeq(pack.children,
                  Cardinality({i \in DOMAIN pack.children :
                                 pack.children[i].tag \in {"@count", "@messageType", "@version"}}) + 1,
                  Len(pack.children)) = messages
    BY <1>10, Zenon DEF PackAsRead, PackAttributes
  <2> QED BY <1>1, <2>1, <2>2, <2>3, Zenon DEF ReadEnvelope, EnvelopeAsRead
<1> QED BY <1>21, <1>22, <1>24

-----------------------------------------------------------------------------
(* The effects of tokens *)

\* A sequence is empty or has a last element.
LEMMA NothingOrAdded ==
  ASSUME NEW s, IsSeq(s)
  PROVE  s = <<>> \/ \E r, x : IsSeq(r) /\ s = Add(r, x)
<1>1. PICK T : s \in Seq(T)  BY DEF IsSeq
<1> DEFINE Q == {u \in Seq(T) : u = <<>> \/ \E r, x : IsSeq(r) /\ u = Add(r, x)}
<1>2. <<>> \in Q  OBVIOUS
<1>3. ASSUME NEW u \in Seq(T), NEW e \in T, u \in Q  PROVE Add(u, e) \in Q
  <2>1. IsSeq(u) /\ Add(u, e) \in Seq(T)  BY CatTypes
  <2> QED BY <2>1
<1>4. \A u \in Seq(T) : u \in Q
  <2> HIDE DEF Q
  <2> QED BY <1>2, <1>3, AddInduct
<1> QED BY <1>1, <1>4

\* The last of a longer sequence.
LEMMA CatAdded ==
  ASSUME NEW a, IsSeq(a), NEW b, IsSeq(b), NEW x
  PROVE  Cat(a, Add(b, x)) = Add(Cat(a, b), x)
<1>1. PICK one : one = <<x>>  OBVIOUS
<1>2. IsSeq(one)  BY <1>1, OneIsSeq
<1>3. IsSeq(Cat(a, b))  BY CatFacts
<1>4. Add(b, x) = Cat(b, one) /\ Add(Cat(a, b), x) = Cat(Cat(a, b), one)
  BY <1>1, <1>3, CatFacts
<1> QED BY <1>2, <1>4, CatFacts

\* The innermost open element with one more character.
WithChar(node, c)  == [node EXCEPT !.text = Append(@, c)]

\* It with one more child.
WithChild(node, x) == [node EXCEPT !.children = Append(@, x)]

\* The innermost one is another.
Topped(s, y) == [s EXCEPT ![Len(s)] = y]

\* It is the last one that is.
LEMMA TopReplaced ==
  ASSUME NEW b, IsSeq(b), NEW x, NEW y
  PROVE  Topped(Add(b, x), y) = Add(b, y)
<1>1. PICK n \in Nat : n = Len(b)  BY AddedLast
<1>2. PICK s : s = Add(b, x)  OBVIOUS
<1>3. PICK t : t = Add(b, y)  OBVIOUS
<1>4. IsSeq(s) /\ Len(s) = n + 1 /\ DOMAIN s = 1 .. n + 1 /\ \A i \in 1 .. n : s[i] = b[i]
  <2>1. /\ IsSeq(s) /\ Len(s) = Len(b) + 1 /\ DOMAIN s = 1 .. Len(b) + 1
        /\ \A i \in 1 .. Len(b) : s[i] = b[i]
    BY <1>2, AddedLast, Zenon
  <2> QED BY <1>1, <2>1
<1>5. /\ IsSeq(t) /\ t[n + 1] = y /\ DOMAIN t = 1 .. n + 1 /\ \A i \in 1 .. n : t[i] = b[i]
  <2>1. /\ IsSeq(t) /\ t[Len(b) + 1] = y /\ DOMAIN t = 1 .. Len(b) + 1
        /\ \A i \in 1 .. Len(b) : t[i] = b[i]
    BY <1>3, AddedLast, Zenon
  <2> QED BY <1>1, <2>1
<1>6. t = [i \in 1 .. n + 1 |-> t[i]]  BY <1>5 DEF IsSeq
<1>7. s = [i \in 1 .. n + 1 |-> s[i]]  BY <1>4 DEF IsSeq
<1>8. [s EXCEPT ![n + 1] = y] = [i \in 1 .. n + 1 |-> IF i = n + 1 THEN y ELSE s[i]]
  BY <1>7
<1>9. \A i \in 1 .. n + 1 : (IF i = n + 1 THEN y ELSE s[i]) = t[i]
  BY <1>4, <1>5
<1>10. [s EXCEPT ![n + 1] = y] = t  BY <1>6, <1>8, <1>9
<1>11. Topped(s, y) = t  BY <1>4, <1>10 DEF Topped
<1> QED BY <1>2, <1>3, <1>11

\* What the innermost element gets changes that element alone.
LEMMA InnermostGets ==
  ASSUME NEW b, IsSeq(b), NEW x, NEW c
  PROVE  /\ GetsChar(Add(b, x), c) = Add(b, WithChar(x, c))
         /\ GetsChild(Add(b, x), c) = Add(b, WithChild(x, c))
<1>1. PICK s, n : s = Add(b, x) /\ n = Len(s)  OBVIOUS
<1>2. s[n] = x /\ n \in DOMAIN s
  <2>1. Len(b) \in Nat /\ n = Len(b) + 1 /\ s[Len(b) + 1] = x /\ DOMAIN s = 1 .. Len(b) + 1
    BY <1>1, AddedLast
  <2> QED BY <2>1
<1>3. PICK y : y = WithChar(x, c)  OBVIOUS
<1>4. PICK z : z = WithChild(x, c)  OBVIOUS
<1>5. GetsChar(s, c) = Topped(s, y)  BY <1>1, <1>2, <1>3 DEF GetsChar, WithChar, Topped
<1>6. GetsChild(s, c) = Topped(s, z)  BY <1>1, <1>2, <1>4 DEF GetsChild, WithChild, Topped
<1>7. Topped(Add(b, x), y) = Add(b, y) /\ Topped(Add(b, x), z) = Add(b, z)  BY TopReplaced
<1> QED BY <1>1, <1>3, <1>4, <1>5, <1>6, <1>7

\* What a token does to the innermost open element, whatever is around it.
Opens(e, t) == \A b, x : IsSeq(b) => ReadToken(Add(b, x), e) = Add(Add(b, x), Node(t))
Says(e, c)  == \A b, x : IsSeq(b) => ReadToken(Add(b, x), e) = Add(b, WithChar(x, c))
Closes(e)   == \A b, x : IsSeq(b) =>
                 ReadToken(Add(b, x), e)
                   = IF b # <<>> /\ e[2] = x.tag THEN GetsChild(b, x) ELSE <<>>
Fails(e)    == \A b, x : IsSeq(b) => ReadToken(Add(b, x), e) = <<>>

\* Every token has one of four effects, whatever is open.
LEMMA TokenEffect ==
  ASSUME NEW e
  PROVE  (\E t : Opens(e, t)) \/ (\E c : Says(e, c)) \/ Closes(e) \/ Fails(e)
<1>1. ASSUME NEW b, NEW x, IsSeq(b)
      PROVE  /\ Add(b, x) # <<>> /\ Last(Add(b, x)) = x /\ Front(Add(b, x)) = b
             /\ Append(Add(b, x), Node(e[2])) = Add(Add(b, x), Node(e[2]))
             /\ (Len(Add(b, x)) > 1) = (b # <<>>)
  <2>1. /\ Add(b, x) # <<>> /\ Len(b) \in Nat /\ Len(Add(b, x)) = Len(b) + 1
        /\ Last(Add(b, x)) = x /\ Front(Add(b, x)) = b
    BY <1>1, AddedLast
  <2>2. (Len(b) = 0) = (b = <<>>)  BY <1>1 DEF IsSeq
  <2> QED BY <2>1, <2>2 DEF Add
<1>2. CASE e[1] = "<"
  <2>1. ASSUME NEW b, NEW x, IsSeq(b)
        PROVE  ReadToken(Add(b, x), e) = Add(Add(b, x), Node(e[2]))
    BY <1>1, <1>2, <2>1 DEF ReadToken
  <2> QED BY <2>1 DEF Opens
<1>3. CASE e[1] = "</"
  <2>1. ASSUME NEW b, NEW x, IsSeq(b)
        PROVE  ReadToken(Add(b, x), e) = IF b # <<>> /\ e[2] = x.tag THEN GetsChild(b, x)
                                         ELSE <<>>
    BY <1>1, <1>3, <2>1 DEF ReadToken
  <2> QED BY <2>1 DEF Closes
<1>4. CASE e[1] = "&" /\ e[2] \in DOMAIN EntityText
  <2>1. PICK c : c = EntityText[e[2]]  OBVIOUS
  <2>2. ASSUME NEW b, NEW x, IsSeq(b)
        PROVE  ReadToken(Add(b, x), e) = Add(b, WithChar(x, c))
    <3>1. ReadToken(Add(b, x), e) = GetsChar(Add(b, x), c)
      BY <1>1, <1>4, <2>1, <2>2 DEF ReadToken
    <3> QED BY <2>2, <3>1, InnermostGets
  <2> QED BY <2>2 DEF Says
<1>5. CASE e[1] = "char" /\ e[2] \notin {"<", "&"}
  <2>1. PICK c : c = e[2]  OBVIOUS
  <2>2. ASSUME NEW b, NEW x, IsSeq(b)
        PROVE  ReadToken(Add(b, x), e) = Add(b, WithChar(x, c))
    <3>1. ReadToken(Add(b, x), e) = GetsChar(Add(b, x), c)
      BY <1>1, <1>5, <2>1, <2>2 DEF ReadToken
    <3> QED BY <2>2, <3>1, InnermostGets
  <2> QED BY <2>2 DEF Says
<1>6. CASE /\ e[1] # "<" /\ e[1] # "</" /\ ~ (e[1] = "&" /\ e[2] \in DOMAIN EntityText)
           /\ ~ (e[1] = "char" /\ e[2] \notin {"<", "&"})
  <2>1. ASSUME NEW b, NEW x, IsSeq(b)  PROVE ReadToken(Add(b, x), e) = <<>>
    BY <1>1, <1>6, <2>1 DEF ReadToken
  <2> QED BY <2>1 DEF Fails
<1> QED BY <1>2, <1>3, <1>4, <1>5, <1>6

-----------------------------------------------------------------------------
(* Every well-formed text is read alike inside any element *)

\* After these tokens, an open element has got these children and this text,
\* and the elements of rest are open inside it.
Follows(tokens, kids, words, rest) ==
  /\ IsSeq(kids) /\ IsSeq(words) /\ IsSeq(rest)
  /\ \A below, tag, k, w :
       IsSeq(below) /\ IsSeq(k) /\ IsSeq(w) =>
         Reading(Stack(below, tag, k, w), tokens)
           = Cat(Stack(below, tag, Cat(k, kids), Cat(w, words)), rest)

\* After no tokens it has got nothing.
LEMMA FollowsNothing == Follows(<<>>, <<>>, <<>>, <<>>)
<1>1. PICK none : none = <<>> /\ IsSeq(none)  BY EmptyIsSeq
<1>2. ASSUME NEW below, NEW tag, NEW k, NEW w, IsSeq(below), IsSeq(k), IsSeq(w)
      PROVE  Reading(Stack(below, tag, k, w), none)
               = Cat(Stack(below, tag, Cat(k, none), Cat(w, none)), none)
  <2>1. Cat(k, none) = k /\ Cat(w, none) = w  BY <1>1, <1>2, CatFacts
  <2>2. PICK stack : stack = Stack(below, tag, k, w) /\ IsSeq(stack)  BY <1>2, StackIsSeq
  <2>3. Cat(stack, none) = stack  BY <1>1, <2>2, CatFacts
  <2>4. Reading(stack, none) = stack  BY <1>1, ReadingNothing
  <2> QED BY <2>1, <2>2, <2>3, <2>4
<1> QED BY <1>1, <1>2 DEF Follows

\* What it says of one state of the reader, and of the next token.
LEMMA FollowsAt ==
  ASSUME NEW tokens, IsSeq(tokens), NEW kids, NEW words, NEW rest,
         Follows(tokens, kids, words, rest), NEW e,
         NEW below, NEW tag, NEW k, NEW w, IsSeq(below), IsSeq(k), IsSeq(w)
  PROVE  /\ IsSeq(Stack(below, tag, Cat(k, kids), Cat(w, words)))
         /\ Reading(Stack(below, tag, k, w), Add(tokens, e))
              = ReadToken(Cat(Stack(below, tag, Cat(k, kids), Cat(w, words)), rest), e)
<1>1. IsSeq(Stack(below, tag, Cat(k, kids), Cat(w, words)))  BY StackIsSeq
<1>2. Reading(Stack(below, tag, k, w), tokens)
        = Cat(Stack(below, tag, Cat(k, kids), Cat(w, words)), rest)
  BY DEF Follows
<1>3. PICK open : open = Stack(below, tag, k, w)  OBVIOUS
<1>4. Reading(open, Add(tokens, e)) = ReadToken(Reading(open, tokens), e)  BY ReadingAdd
<1> QED BY <1>1, <1>2, <1>3, <1>4

\* A token that opens an element.
LEMMA FollowsOpening ==
  ASSUME NEW tokens, IsSeq(tokens), NEW kids, NEW words, NEW rest,
         Follows(tokens, kids, words, rest), NEW e, NEW t, Opens(e, t)
  PROVE  Follows(Add(tokens, e), kids, words, Add(rest, Node(t)))
<1>1. PICK n, more : n = Node(t) /\ more = Add(rest, n)  OBVIOUS
<1>2. IsSeq(kids) /\ IsSeq(words) /\ IsSeq(rest) /\ IsSeq(more)
  BY <1>1, AddedLast DEF Follows
<1>3. ASSUME NEW below, NEW tag, NEW k, NEW w, IsSeq(below), IsSeq(k), IsSeq(w)
      PROVE  Reading(Stack(below, tag, k, w), Add(tokens, e))
               = Cat(Stack(below, tag, Cat(k, kids), Cat(w, words)), more)
  <2>1. PICK base : /\ base = Stack(below, tag, Cat(k, kids), Cat(w, words)) /\ IsSeq(base)
                    /\ Reading(Stack(below, tag, k, w), Add(tokens, e))
                         = ReadToken(Cat(base, rest), e)
    BY <1>3, FollowsAt
  <2>2. PICK open : open = Cat(base, rest) /\ IsSeq(open)  BY <1>2, <2>1, CatFacts
  <2>3. PICK r, x : IsSeq(r) /\ open = Add(r, x)
    <3>1. open # <<>>
      <4>1. base # <<>>  BY <1>3, <2>1, StackIsSeq
      <4>2. PICK b, y : IsSeq(b) /\ base = Add(b, y)  BY <2>1, <4>1, NothingOrAdded
      <4>3. CASE rest = <<>>  BY <2>1, <2>2, <4>1, <4>3, CatFacts
      <4>4. CASE rest # <<>>
        <5>1. PICK q, z : IsSeq(q) /\ rest = Add(q, z)  BY <1>2, <4>4, NothingOrAdded
        <5>2. open = Add(Cat(base, q), z) /\ IsSeq(Cat(base, q))
          BY <2>1, <2>2, <5>1, CatAdded, CatFacts
        <5> QED BY <5>2, AddedLast
      <4> QED BY <4>3, <4>4
    <3> QED BY <2>2, <3>1, NothingOrAdded
  <2>4. ReadToken(open, e) = Add(open, n)  BY <1>1, <2>3 DEF Opens
  <2>5. Cat(base, more) = Add(Cat(base, rest), n)  BY <1>1, <1>2, <2>1, CatAdded
  <2> QED BY <2>1, <2>2, <2>4, <2>5
<1> QED BY <1>1, <1>2, <1>3 DEF Follows

\* A token that is a character, inside an element that is open further in.
LEMMA FollowsSayingIn ==
  ASSUME NEW tokens, IsSeq(tokens), NEW kids, NEW words, NEW r, IsSeq(r), NEW x,
         Follows(tokens, kids, words, Add(r, x)), NEW e, NEW c, Says(e, c)
  PROVE  Follows(Add(tokens, e), kids, words, Add(r, WithChar(x, c)))
<1>1. PICK y, more, rest : y = WithChar(x, c) /\ more = Add(r, y) /\ rest = Add(r, x)  OBVIOUS
<1>2. IsSeq(kids) /\ IsSeq(words) /\ IsSeq(rest) /\ IsSeq(more)
  BY <1>1, AddedLast DEF Follows
<1>3. ASSUME NEW below, NEW tag, NEW k, NEW w, IsSeq(below), IsSeq(k), IsSeq(w)
      PROVE  Reading(Stack(below, tag, k, w), Add(tokens, e))
               = Cat(Stack(below, tag, Cat(k, kids), Cat(w, words)), more)
  <2>1. PICK base : /\ base = Stack(below, tag, Cat(k, kids), Cat(w, words)) /\ IsSeq(base)
                    /\ Reading(Stack(below, tag, k, w), Add(tokens, e))
                         = ReadToken(Cat(base, rest), e)
    BY <1>1, <1>3, FollowsAt
  <2>2. PICK b : b = Cat(base, r) /\ IsSeq(b)  BY <2>1, CatFacts
  <2>3. Cat(base, rest) = Add(b, x) /\ Cat(base, more) = Add(b, y)
    BY <1>1, <2>1, <2>2, CatAdded
  <2>4. ReadToken(Add(b, x), e) = Add(b, y)  BY <1>1, <2>2 DEF Says
  <2> QED BY <2>1, <2>3, <2>4
<1> QED BY <1>1, <1>2, <1>3 DEF Follows

\* A character of the element itself.
LEMMA FollowsSaying ==
  ASSUME NEW tokens, IsSeq(tokens), NEW kids, NEW words, NEW none, none = <<>>,
         Follows(tokens, kids, words, none), NEW e, NEW c, Says(e, c)
  PROVE  Follows(Add(tokens, e), kids, Add(words, c), none)
<1>1. PICK more : more = Add(words, c)  OBVIOUS
<1>2. IsSeq(kids) /\ IsSeq(words) /\ IsSeq(none) /\ IsSeq(more)
  BY <1>1, AddedLast DEF Follows
<1>3. ASSUME NEW below, NEW tag, NEW k, NEW w, IsSeq(below), IsSeq(k), IsSeq(w)
      PROVE  Reading(Stack(below, tag, k, w), Add(tokens, e))
               = Cat(Stack(below, tag, Cat(k, kids), Cat(w, more)), none)
  <2>1. PICK l, v : l = Cat(k, kids) /\ v = Cat(w, words) /\ IsSeq(l) /\ IsSeq(v)
    BY <1>2, <1>3, CatFacts
  <2>2. PICK base : /\ base = Stack(below, tag, l, v) /\ IsSeq(base)
                    /\ Reading(Stack(below, tag, k, w), Add(tokens, e))
                         = ReadToken(Cat(base, none), e)
    BY <1>3, <2>1, FollowsAt
  <2>3. PICK x : x = NodeOf(tag, l, v) /\ base = Add(below, x)  BY <2>2 DEF Stack
  <2>4. ReadToken(base, e) = Add(below, WithChar(x, c))  BY <1>3, <2>3 DEF Says
  <2>5. WithChar(x, c) = NodeOf(tag, l, Add(v, c))
    <3>1. PICK a : a = Append(v, c)  OBVIOUS
    <3>2. x.text = v  BY <2>3 DEF NodeOf
    <3>3. WithChar(x, c) = [x EXCEPT !.text = a]  BY <3>1, <3>2 DEF WithChar
    <3>4. [x EXCEPT !.text = a] = NodeOf(tag, l, a)  BY <2>3 DEF NodeOf
    <3> QED BY <3>1, <3>3, <3>4 DEF Add
  <2>6. Add(v, c) = Cat(w, more)  BY <1>1, <1>2, <1>3, <2>1, CatAdded
  <2>7. PICK after : after = Stack(below, tag, l, Cat(w, more)) /\ IsSeq(after)
    BY <1>3, StackIsSeq
  <2>8. after = Add(below, WithChar(x, c))  BY <2>5, <2>6, <2>7 DEF Stack
  <2>9. Cat(base, none) = base /\ Cat(after, none) = after  BY <2>2, <2>7, CatFacts
  <2> QED BY <2>1, <2>2, <2>4, <2>7, <2>8, <2>9
<1> QED BY <1>1, <1>2, <1>3 DEF Follows

\* An end tag inside an element that is open further in.
LEMMA FollowsClosingIn ==
  ASSUME NEW tokens, IsSeq(tokens), NEW kids, NEW words, NEW q, IsSeq(q), NEW y, NEW x,
         Follows(tokens, kids, words, Add(Add(q, y), x)), NEW e, Closes(e), e[2] = x.tag
  PROVE  Follows(Add(tokens, e), kids, words, Add(q, WithChild(y, x)))
<1>1. PICK z, more, r, rest : /\ z = WithChild(y, x) /\ more = Add(q, z)
                              /\ r = Add(q, y) /\ rest = Add(r, x)
  OBVIOUS
<1>2. IsSeq(kids) /\ IsSeq(words) /\ IsSeq(r) /\ IsSeq(rest) /\ IsSeq(more)
  BY <1>1, AddedLast DEF Follows
<1>3. ASSUME NEW below, NEW tag, NEW k, NEW w, IsSeq(below), IsSeq(k), IsSeq(w)
      PROVE  Reading(Stack(below, tag, k, w), Add(tokens, e))
               = Cat(Stack(below, tag, Cat(k, kids), Cat(w, words)), more)
  <2>1. PICK base : /\ base = Stack(below, tag, Cat(k, kids), Cat(w, words)) /\ IsSeq(base)
                    /\ Reading(Stack(below, tag, k, w), Add(tokens, e))
                         = ReadToken(Cat(base, rest), e)
    BY <1>1, <1>3, FollowsAt
  <2>2. PICK b : b = Cat(base, q) /\ IsSeq(b)  BY <2>1, CatFacts
  <2>3. PICK d : d = Add(b, y) /\ IsSeq(d) /\ d # <<>>  BY <2>2, AddedLast
  <2>4. Cat(base, r) = d /\ Cat(base, more) = Add(b, z)
    BY <1>1, <2>1, <2>2, <2>3, CatAdded
  <2>5. Cat(base, rest) = Add(d, x)  BY <1>1, <1>2, <2>1, <2>4, CatAdded
  <2>6. ReadToken(Add(d, x), e) = GetsChild(d, x)  BY <2>3 DEF Closes
  <2>7. GetsChild(d, x) = Add(b, z)  BY <1>1, <2>2, <2>3, InnermostGets
  <2> QED BY <2>1, <2>4, <2>5, <2>6, <2>7
<1> QED BY <1>1, <1>2, <1>3 DEF Follows

\* The end tag of a child.
LEMMA FollowsClosing ==
  ASSUME NEW tokens, IsSeq(tokens), NEW kids, NEW words, NEW none, none = <<>>, NEW x,
         Follows(tokens, kids, words, Add(none, x)), NEW e, Closes(e), e[2] = x.tag
  PROVE  Follows(Add(tokens, e), Add(kids, x), words, none)
<1>1. PICK more, rest : more = Add(kids, x) /\ rest = Add(none, x)  OBVIOUS
<1>2. IsSeq(kids) /\ IsSeq(words) /\ IsSeq(none) /\ IsSeq(rest) /\ IsSeq(more)
  BY <1>1, EmptyIsSeq, AddedLast DEF Follows
<1>3. ASSUME NEW below, NEW tag, NEW k, NEW w, IsSeq(below), IsSeq(k), IsSeq(w)
      PROVE  Reading(Stack(below, tag, k, w), Add(tokens, e))
               = Cat(Stack(below, tag, Cat(k, more), Cat(w, words)), none)
  <2>1. PICK l, v : l = Cat(k, kids) /\ v = Cat(w, words) /\ IsSeq(l) /\ IsSeq(v)
    BY <1>2, <1>3, CatFacts
  <2>2. PICK base : /\ base = Stack(below, tag, l, v) /\ IsSeq(base)
                    /\ Reading(Stack(below, tag, k, w), Add(tokens, e))
                         = ReadToken(Cat(base, rest), e)
    BY <1>1, <1>3, <2>1, FollowsAt
  <2>3. PICK y : y = NodeOf(tag, l, v) /\ base = Add(below, y)  BY <2>2 DEF Stack
  <2>4. base # <<>>  BY <1>3, <2>2, StackIsSeq
  <2>5. Cat(base, rest) = Add(base, x)
    <3>1. Cat(base, rest) = Add(Cat(base, none), x)  BY <1>1, <1>2, <2>2, CatAdded
    <3> QED BY <2>2, <3>1, CatFacts
  <2>6. ReadToken(Add(base, x), e) = GetsChild(base, x)  BY <2>2, <2>4 DEF Closes
  <2>7. GetsChild(base, x) = Add(below, WithChild(y, x))  BY <1>3, <2>3, InnermostGets
  <2>8. WithChild(y, x) = NodeOf(tag, Add(l, x), v)
    <3>1. PICK a : a = Append(l, x)  OBVIOUS
    <3>2. y.children = l  BY <2>3 DEF NodeOf
    <3>3. WithChild(y, x) = [y EXCEPT !.children = a]  BY <3>1, <3>2 DEF WithChild
    <3>4. [y EXCEPT !.children = a] = NodeOf(tag, a, v)  BY <2>3 DEF NodeOf
    <3> QED BY <3>1, <3>3, <3>4 DEF Add
  <2>9. Add(l, x) = Cat(k, more)  BY <1>1, <1>2, <1>3, <2>1, CatAdded
  <2>10. PICK after : after = Stack(below, tag, Cat(k, more), v) /\ IsSeq(after)
    BY <1>3, StackIsSeq
  <2>11. after = Add(below, WithChild(y, x))  BY <2>8, <2>9, <2>10 DEF Stack
  <2>12. Cat(after, none) = after  BY <2>10, CatFacts
  <2> QED BY <2>1, <2>2, <2>5, <2>6, <2>7, <2>10, <2>11, <2>12
<1> QED BY <1>1, <1>2, <1>3 DEF Follows

\* One more token, unless it is an error.
LEMMA FollowsMore ==
  ASSUME NEW tokens, IsSeq(tokens), NEW kids, NEW words, NEW rest,
         Follows(tokens, kids, words, rest), NEW e,
         Reading(Outermost, Add(tokens, e)) # <<>>
  PROVE  \E k, w, r : Follows(Add(tokens, e), k, w, r)
<1>1. IsSeq(kids) /\ IsSeq(words) /\ IsSeq(rest)  BY DEF Follows
<1>2. PICK none, name : none = <<>> /\ name = "" /\ IsSeq(none)  BY EmptyIsSeq
<1>3. Outermost = Stack(none, name, none, none)
  <2>1. Node("") = NodeOf(name, none, none)  BY <1>2 DEF Node, NodeOf
  <2>2. Append(<<>>, Node("")) = <<Node("")>>  OBVIOUS
  <2>3. Add(none, Node("")) = <<Node("")>>  BY <1>2, <2>2 DEF Add
  <2> QED BY <2>1, <2>3, Zenon DEF Outermost, Stack
<1>4. PICK base, top : /\ top = NodeOf(name, Cat(none, kids), Cat(none, words))
                       /\ base = Add(none, top) /\ IsSeq(base)
                       /\ ReadToken(Cat(base, rest), e) # <<>>
  <2>1. /\ IsSeq(Stack(none, name, Cat(none, kids), Cat(none, words)))
        /\ Reading(Stack(none, name, none, none), Add(tokens, e))
             = ReadToken(Cat(Stack(none, name, Cat(none, kids), Cat(none, words)), rest), e)
    <3>1. IsSeq(none)  BY <1>2
    <3>2. IsSeq(Stack(none, name, Cat(none, kids), Cat(none, words)))
      BY <3>1, StackIsSeq, Zenon
    <3>3. Reading(Stack(none, name, none, none), Add(tokens, e))
            = ReadToken(Cat(Stack(none, name, Cat(none, kids), Cat(none, words)), rest), e)
      <4>1. Reading(Stack(none, name, none, none), tokens)
              = Cat(Stack(none, name, Cat(none, kids), Cat(none, words)), rest)
        BY <3>1 DEF Follows
      <4>2. PICK open : open = Stack(none, name, none, none)  OBVIOUS
      <4>3. Reading(open, Add(tokens, e)) = ReadToken(Reading(open, tokens), e)
        BY ReadingAdd
      <4> QED BY <4>1, <4>2, <4>3
    <3> QED BY <3>2, <3>3
  <2> QED BY <1>3, <2>1 DEF Stack
<1>5. CASE rest = <<>>
  <2>1. Cat(base, rest) = Add(none, top)  BY <1>4, <1>5, CatFacts
  <2>2. ASSUME NEW t, Opens(e, t)  PROVE \E k, w, r : Follows(Add(tokens, e), k, w, r)
    BY <2>2, FollowsOpening
  <2>3. ASSUME NEW c, Says(e, c)  PROVE \E k, w, r : Follows(Add(tokens, e), k, w, r)
    BY <1>5, <2>3, FollowsSaying
  <2>4. ~ Closes(e)
    <3>1. Closes(e) => ReadToken(Add(none, top), e) = <<>>  BY <1>2 DEF Closes
    <3> QED BY <1>4, <2>1, <3>1
  <2>5. ~ Fails(e)
    <3>1. Fails(e) => ReadToken(Add(none, top), e) = <<>>  BY <1>2 DEF Fails
    <3> QED BY <1>4, <2>1, <3>1
  <2> QED BY <2>2, <2>3, <2>4, <2>5, TokenEffect
<1>6. CASE rest # <<>>
  <2>1. PICK r, x : IsSeq(r) /\ rest = Add(r, x)  BY <1>1, <1>6, NothingOrAdded
  <2>2. PICK b : b = Cat(base, r) /\ IsSeq(b) /\ Cat(base, rest) = Add(b, x)
    BY <1>4, <2>1, CatFacts, CatAdded
  <2>3. ASSUME NEW t, Opens(e, t)  PROVE \E k, w, q : Follows(Add(tokens, e), k, w, q)
    BY <2>3, FollowsOpening
  <2>4. ASSUME NEW c, Says(e, c)  PROVE \E k, w, q : Follows(Add(tokens, e), k, w, q)
    <3>1. Follows(tokens, kids, words, Add(r, x))  BY <2>1
    <3>2. Follows(Add(tokens, e), kids, words, Add(r, WithChar(x, c)))
      BY <2>1, <2>4, <3>1, FollowsSayingIn
    <3> QED BY <3>2
  <2>5. ASSUME Closes(e)  PROVE \E k, w, q : Follows(Add(tokens, e), k, w, q)
    <3>1. e[2] = x.tag  BY <1>4, <2>2, <2>5 DEF Closes
    <3>2. CASE r = <<>>
      <4>1. Follows(tokens, kids, words, Add(none, x))  BY <1>2, <2>1, <3>2
      <4>2. Follows(Add(tokens, e), Add(kids, x), words, none)
        BY <1>2, <2>5, <3>1, <4>1, FollowsClosing
      <4> QED BY <4>2
    <3>3. CASE r # <<>>
      <4>1. PICK q, y : IsSeq(q) /\ r = Add(q, y)  BY <2>1, <3>3, NothingOrAdded
      <4>2. Follows(tokens, kids, words, Add(Add(q, y), x))  BY <2>1, <4>1
      <4>3. Follows(Add(tokens, e), kids, words, Add(q, WithChild(y, x)))
        BY <2>5, <3>1, <4>1, <4>2, FollowsClosingIn
      <4> QED BY <4>3
    <3> QED BY <3>2, <3>3
  <2>6. ~ Fails(e)
    <3>1. Fails(e) => ReadToken(Add(b, x), e) = <<>>  BY <2>2 DEF Fails
    <3> QED BY <1>4, <2>2, <3>1
  <2> QED BY <2>3, <2>4, <2>5, <2>6, TokenEffect
<1> QED BY <1>5, <1>6

\* A text that the reader gets through.
LEMMA FollowsReading ==
  ASSUME NEW tokens, IsSeq(tokens), Reading(Outermost, tokens) # <<>>
  PROVE  \E kids, words, rest : Follows(tokens, kids, words, rest)
<1>1. PICK T : tokens \in Seq(T)  BY DEF IsSeq
<1> DEFINE Q == {u \in Seq(T) : Reading(Outermost, u) # <<>> =>
                                  \E kids, words, rest : Follows(u, kids, words, rest)}
<1>2. <<>> \in Q
  <2>1. <<>> \in Seq(T)  OBVIOUS
  <2> QED BY <2>1, FollowsNothing
<1>3. ASSUME NEW u \in Seq(T), NEW e \in T, u \in Q  PROVE Add(u, e) \in Q
  <2>1. IsSeq(u) /\ Add(u, e) \in Seq(T)  BY CatTypes
  <2>2. ASSUME Reading(Outermost, Add(u, e)) # <<>>
        PROVE  \E kids, words, rest : Follows(Add(u, e), kids, words, rest)
    <3>1. Reading(Outermost, Add(u, e)) = ReadToken(Reading(Outermost, u), e)
      BY <2>1, ReadingAdd
    <3>2. ReadToken(<<>>, e) = <<>>  BY DEF ReadToken
    <3>3. Reading(Outermost, u) # <<>>  BY <2>2, <3>1, <3>2
    <3>4. PICK kids, words, rest : Follows(u, kids, words, rest)  BY <1>3, <3>3
    <3> QED BY <2>1, <2>2, <3>4, FollowsMore
  <2> QED BY <2>1, <2>2
<1>4. \A u \in Seq(T) : u \in Q
  <2> HIDE DEF Q
  <2> QED BY <1>2, <1>3, AddInduct
<1> QED BY <1>1, <1>4

\* What a reader makes elements of is read as these elements wherever it is
\* put: the payloads that wire.rs splices into the envelope.
LEMMA ReadAnywhere ==
  ASSUME NEW tokens, IsSeq(tokens), ReadXml(tokens) # <<>>
  PROVE  \E words : Reads(tokens, ReadXml(tokens), words)
<1>1. PICK open : open = ReadAll(tokens) /\ open = Reading(Outermost, tokens)
  BY ReadAllIsReading
<1>2. Len(open) = 1  BY <1>1 DEF ReadXml
<1>3. PICK none, name : none = <<>> /\ name = "" /\ IsSeq(none)  BY EmptyIsSeq
<1>4. open # <<>>
  <2>1. Len(<<>>) = 0  OBVIOUS
  <2>2. 0 # 1  OBVIOUS
  <2> QED BY <1>2, <2>1, <2>2, Zenon
<1>5. PICK kids, words, rest : Follows(tokens, kids, words, rest)
  BY <1>1, <1>4, FollowsReading
<1>6. IsSeq(kids) /\ IsSeq(words) /\ IsSeq(rest)  BY <1>5 DEF Follows
<1>7. Outermost = Stack(none, name, none, none)
  <2>1. Node("") = NodeOf(name, none, none)  BY <1>3 DEF Node, NodeOf
  <2>2. Append(<<>>, Node("")) = <<Node("")>>  OBVIOUS
  <2>3. Add(none, Node("")) = <<Node("")>>  BY <1>3, <2>2 DEF Add
  <2> QED BY <2>1, <2>3, Zenon DEF Outermost, Stack
<1>8. rest = <<>>
  <2>1. PICK base : base = Stack(none, name, Cat(none, kids), Cat(none, words)) /\ IsSeq(base)
    BY <1>3, StackIsSeq
  <2>2. Len(base) = 1
    <3>1. Len(base) = Len(none) + 1
      <4>1. PICK top : base = Add(none, top)  BY <2>1 DEF Stack
      <4> QED BY <1>3, <4>1, AddedLast
    <3>2. Len(none) = 0  BY <1>3
    <3> QED BY <3>1, <3>2
  <2>3. open = Cat(base, rest)  BY <1>1, <1>3, <1>5, <1>7, <2>1 DEF Follows
  <2>4. Len(rest) \in Nat /\ Len(Cat(base, rest)) = Len(base) + Len(rest)
    BY <1>6, <2>1, CatPlaces, Zenon
  <2>5. Len(rest) = 0  BY <1>2, <2>2, <2>3, <2>4
  <2> QED BY <1>6, <2>5 DEF IsSeq
<1>9. Reads(tokens, kids, words)
  <2>1. ASSUME NEW below, NEW tag, NEW k, NEW w, IsSeq(below), IsSeq(k), IsSeq(w)
        PROVE  Reading(Stack(below, tag, k, w), tokens)
                 = Stack(below, tag, Cat(k, kids), Cat(w, words))
    <3>1. PICK stack : stack = Stack(below, tag, Cat(k, kids), Cat(w, words)) /\ IsSeq(stack)
      BY <2>1, StackIsSeq
    <3>2. Reading(Stack(below, tag, k, w), tokens) = Cat(stack, rest)
      BY <1>5, <2>1, <3>1 DEF Follows
    <3>3. Cat(stack, rest) = stack  BY <1>8, <3>1, CatFacts
    <3> QED BY <3>1, <3>2, <3>3
  <2> QED BY <1>6, <2>1 DEF Reads
<1>10. ReadXml(tokens) = kids  BY <1>9, XmlRead
<1> QED BY <1>9, <1>10

-----------------------------------------------------------------------------
(* Documents in an envelope *)

\* The message in a payload, if it has one.
Message(text) == ReadXml(Normalized(text))[1]

\* One element, which is no attribute of the pack.
HasMessage(text) ==
  Len(ReadXml(Normalized(text))) = 1 /\ Message(text).tag \notin PackAttributes

\* Payload by payload.
MessagesOf(payloads) == [i \in DOMAIN payloads |-> Message(payloads[i])]

\* A sequence of one element is made of it.
LEMMA OnlyOne ==
  ASSUME NEW s, IsSeq(s), Len(s) = 1
  PROVE  s = <<s[1]>>
BY DEF IsSeq

\* The message of a text is found where it is spliced in.
LEMMA MessageShown ==
  ASSUME NEW text, IsSeq(text), HasMessage(text)
  PROVE  ShownOne(AppendLikeJavaReadLine(text), Message(text))
<1>1. PICK lines : lines = Normalized(text)  OBVIOUS
<1>2. IsSeq(lines)  BY <1>1, LineEndsIsSeq DEF Normalized
<1>3. PICK document : document = ReadXml(lines) /\ Len(document) = 1
  BY <1>1 DEF HasMessage
<1>4. document # <<>>
  <2>1. Len(<<>>) = 0 /\ 0 # 1  OBVIOUS
  <2> QED BY <1>3, <2>1, Zenon
<1>5. PICK words : Reads(lines, document, words)  BY <1>2, <1>3, <1>4, ReadAnywhere
<1>6. Shown(AppendLikeJavaReadLine(text), document)  BY <1>1, <1>5, PayloadShown
<1>7. IsSeq(document)  BY <1>5 DEF Reads
<1>8. PICK x : x = document[1] /\ document = <<x>>  BY <1>3, <1>7, OnlyOne
<1> QED BY <1>1, <1>3, <1>6, <1>8 DEF Message, ShownOne

\* Every document of to_turnkey_xml (wire.rs) is read back as the envelope
\* that it was made from, whatever the parties, the routes and the messages.
LEMMA EnvelopeReadBack ==
  ASSUME NEW envelope, IsEnvelope(envelope),
         \A i \in DOMAIN envelope.payloads : HasMessage(envelope.payloads[i])
  PROVE  LET document == ReadXml(Normalized(ToTurnkeyXml(envelope)))
         IN  /\ Len(document) = 1
             /\ ReadEnvelope(document[1])
                  = EnvelopeAsRead(envelope, MessagesOf(envelope.payloads))
<1>1. PICK payloads, messages : payloads = envelope.payloads /\ messages = MessagesOf(payloads)
  OBVIOUS
<1>2. IsSeq(payloads) /\ \A i \in DOMAIN payloads : IsSeq(payloads[i]) /\ HasMessage(payloads[i])
  BY <1>1 DEF IsEnvelope
<1>3. PICK n \in Nat : n = Len(payloads) /\ DOMAIN payloads = 1 .. n
  BY <1>2, SeqOfPlaces
<1>4. messages = [i \in 1 .. n |-> Message(payloads[i])]
  BY <1>1, <1>3 DEF MessagesOf
<1>5. \A i \in 1 .. n : messages[i] = Message(payloads[i])  BY <1>4
<1>6. IsSeq(messages) /\ Len(messages) = n
  <2>1. messages = [i \in 1 .. n |-> messages[i]]  BY <1>4
  <2> QED BY <2>1, PlacesSeq
<1>7. AreMessages(payloads, messages)
  <2>1. ASSUME NEW i \in 1 .. n
        PROVE  /\ ShownOne(AppendLikeJavaReadLine(payloads[i]), messages[i])
               /\ messages[i].tag \notin PackAttributes
    <3>1. IsSeq(payloads[i]) /\ HasMessage(payloads[i])  BY <1>2, <1>3
    <3>2. ShownOne(AppendLikeJavaReadLine(payloads[i]), Message(payloads[i]))
      BY <3>1, MessageShown
    <3> QED BY <1>5, <3>1, <3>2 DEF HasMessage
  <2> QED BY <1>2, <1>3, <1>6, <2>1 DEF AreMessages
<1>8. PICK root : /\ ShownOne(ToTurnkeyXml(envelope), root)
                  /\ ReadEnvelope(root) = EnvelopeAsRead(envelope, messages)
  <2>1. AreMessages(envelope.payloads, messages)  BY <1>1, <1>7
  <2> QED BY <2>1, EnvelopeShown
<1>9. PICK one, words : one = <<root>> /\ Reads(Normalized(ToTurnkeyXml(envelope)), one, words)
  BY <1>8 DEF ShownOne, Shown
<1>10. ReadXml(Normalized(ToTurnkeyXml(envelope))) = one  BY <1>9, XmlRead
<1>11. Len(one) = 1 /\ one[1] = root  BY <1>9
<1> QED BY <1>1, <1>8, <1>10, <1>11

\* Every document of to_xml (f0401.rs) is read back as the invoice that it was
\* made from.
LEMMA InvoiceDocument ==
  ASSUME NEW invoice, IsF0401(invoice)
  PROVE  /\ HasMessage(ToXml(invoice))
         /\ ReadInvoice(Message(ToXml(invoice))) = InvoiceAsRead(invoice)
<1>1. PICK node : /\ ShownOne(ToXml(invoice), node) /\ node.tag = "Invoice"
                  /\ ReadInvoice(node) = InvoiceAsRead(invoice)
  BY InvoiceShown
<1>2. PICK one, words : one = <<node>> /\ Reads(Normalized(ToXml(invoice)), one, words)
  BY <1>1 DEF ShownOne, Shown
<1>3. ReadXml(Normalized(ToXml(invoice))) = one  BY <1>2, XmlRead
<1>4. Len(one) = 1 /\ one[1] = node  BY <1>2
<1>5. Message(ToXml(invoice)) = node  BY <1>3, <1>4 DEF Message
<1>6. "Invoice" \notin PackAttributes  BY DEF PackAttributes
<1> QED BY <1>1, <1>3, <1>4, <1>5, <1>6 DEF HasMessage

-----------------------------------------------------------------------------
(* The plan of a request *)

\* A set of one element makes a sequence of it.
LEMMA OneToSeq ==
  ASSUME NEW x
  PROVE  SetToSeq({x}) = <<x>>
<1>1. PICK S, f : S = {x} /\ f = SetToSeq(S)  OBVIOUS
<1>2. Cardinality(S) = 1  BY <1>1, FS_Singleton
<1>3. \E g \in [1 .. 1 -> S] : IsInjective(g)
  <2>1. PICK g : g = [i \in 1 .. 1 |-> x]  OBVIOUS
  <2>2. g \in [1 .. 1 -> S]  BY <1>1, <2>1
  <2>3. \A a, b \in 1 .. 1 : a = b  OBVIOUS
  <2>4. DOMAIN g = 1 .. 1  BY <2>1
  <2>5. IsInjective(g)  BY <2>3, <2>4, Zenon DEF IsInjective
  <2> QED BY <2>2, <2>5
<1>4. f \in [1 .. 1 -> S]  BY <1>1, <1>2, <1>3 DEF SetToSeq
<1>5. f[1] = x /\ f = [i \in 1 .. 1 |-> f[i]]  BY <1>1, <1>4
<1>6. f = <<x>>  BY <1>5
<1> QED BY <1>1, <1>6

\* The documents that are packed: the invoice, and the files given with it.
PayloadsOfRequest == <<ToXml(request.invoice)>> \o request.args.mig

\* The plan that is prepared for a request.
PlanOfRequest ==
  IF request.by = "cli" THEN BuildSubmissionPlan([request.args EXCEPT !.mig = PayloadsOfRequest])
  ELSE [request.plan EXCEPT !.envelope.payloads = PayloadsOfRequest,
                            !.filename.common_name = FromParts(request.plan.filename.common_name)]

\* A submission is one of this plan.
OfPlan(p) ==
  /\ PfxFromDer(request.pfx) = "Ok" /\ IsEnvelope(PlanOfRequest.envelope)
  /\ PlanOfRequest.envelope.payloads = PayloadsOfRequest
  /\ request.by = "cli" => PackFilenameError(request.args.filename) = "Ok"
  /\ PrepareError(PlanOfRequest) = "Ok" /\ p = PrepareSubmission(PlanOfRequest, request.pfx)

\* What is packaged is the invoice, and what was prepared was prepared so.
Planned ==
  /\ stage = "package" => payload = {ToXml(request.invoice)}
  /\ \A p \in prepared : OfPlan(p)

\* Only ComposeInvoice leads to the packaging.
LEMMA WhoComposes ==
  ASSUME Busy, [Next]_vars
  PROVE  \/ ComposeInvoice
         \/ stage' # "package"
         \/ stage' = stage /\ payload' = payload
<1>1. CASE PackageByCli
  BY <1>1 DEF PackageByCli, Packaged, Stop, Continue
<1>2. CASE PackageByClient
  BY <1>2 DEF PackageByClient, Packaged, Stop, Continue
<1>3. CASE ReadFails
  BY <1>3 DEF ReadFails, Stop
<1>4. CASE BeginUpload
  BY <1>4 DEF BeginUpload, Stop
<1>5. CASE InSession
  BY <1>5 DEF InSession, Stop
<1>6. CASE Upload
  BY <1>6 DEF Upload, Continue
<1>7. CASE Notify
  BY <1>7 DEF Notify, Stop, Continue
<1>8. CASE PlatformAnswers
  BY <1>8 DEF PlatformAnswers, Continue
<1>9. CASE BeginDownload
  BY <1>9 DEF BeginDownload, chainVars
<1>10. CASE Download
  BY <1>10 DEF Download, Stop
<1>11. CASE UNCHANGED vars
  BY <1>11 DEF vars, chainVars
<1> QED BY <1>1, <1>2, <1>3, <1>4, <1>5, <1>6, <1>7, <1>8, <1>9, <1>10, <1>11 DEF Next

\* What a packaging that goes on prepares.
LEMMA PackagedPlan ==
  ASSUME NEW plan, Packaged(plan)
  PROVE  \/ prepared' = prepared
         \/ PrepareError(plan) = "Ok" /\ prepared' = {PrepareSubmission(plan, request.pfx)}
BY Zenon DEF Packaged

\* The plan of the command line.
LEMMA CliPlans ==
  ASSUME Shape, Written, request \in Requests, request.by = "cli",
         payload = {ToXml(request.invoice)},
         NEW args, args = [request.args EXCEPT !.mig = SetToSeq(payload) \o @],
         PlanError(args) = "Ok"
  PROVE  /\ BuildSubmissionPlan(args) = PlanOfRequest /\ IsEnvelope(PlanOfRequest.envelope)
         /\ PlanOfRequest.envelope.payloads = PayloadsOfRequest
         /\ PackFilenameError(request.args.filename) = "Ok"
<1>1. SetToSeq(payload) \o request.args.mig = PayloadsOfRequest
  <2>1. PICK xml : xml = ToXml(request.invoice)  OBVIOUS
  <2>2. SetToSeq({xml}) = <<xml>>  BY OneToSeq
  <2> QED BY <2>1, <2>2 DEF PayloadsOfRequest
<1>2. args = [request.args EXCEPT !.mig = PayloadsOfRequest]  BY <1>1
<1>3. BuildSubmissionPlan(args) = PlanOfRequest  BY <1>2 DEF PlanOfRequest
<1>4. IsEnvelope(BuildSubmissionPlan(args).envelope)  BY CliEnvelope
<1>5. BuildSubmissionPlan(args).envelope.payloads = args.mig  BY DEF BuildSubmissionPlan
<1>6. IsSubmissionArguments(request.args)  BY RequestAssumption
<1>7. args.mig = PayloadsOfRequest /\ args.filename = request.args.filename
  BY <1>2, <1>6 DEF IsSubmissionArguments
<1>8. PackFilenameError(args.filename) = "Ok"  BY DEF PlanError
<1> QED BY <1>3, <1>4, <1>5, <1>7, <1>8

\* The plan of a client of the library.
LEMMA ClientPlans ==
  ASSUME Shape, Written, request \in Requests, request.by = "client",
         payload = {ToXml(request.invoice)},
         NEW plan,
         plan = [request.plan EXCEPT !.envelope.payloads = SetToSeq(payload) \o request.args.mig,
                   !.filename.common_name = FromParts(request.plan.filename.common_name)]
  PROVE  /\ plan = PlanOfRequest /\ IsEnvelope(PlanOfRequest.envelope)
         /\ PlanOfRequest.envelope.payloads = PayloadsOfRequest
<1>1. SetToSeq(payload) \o request.args.mig = PayloadsOfRequest
  <2>1. PICK xml : xml = ToXml(request.invoice)  OBVIOUS
  <2>2. SetToSeq({xml}) = <<xml>>  BY OneToSeq
  <2> QED BY <2>1, <2>2 DEF PayloadsOfRequest
<1>2. plan = PlanOfRequest
  <2>1. request.by # "cli"  OBVIOUS
  <2> QED BY <1>1, <2>1 DEF PlanOfRequest
<1>3. PICK payloads, name : /\ payloads = SetToSeq(payload) \o request.args.mig
                            /\ name = FromParts(request.plan.filename.common_name)
  OBVIOUS
<1>4. plan = [request.plan EXCEPT !.envelope.payloads = payloads, !.filename.common_name = name]
  BY <1>3
<1>5. IsEnvelope(plan.envelope)  BY <1>3, <1>4, ClientEnvelope
<1>6. IsSubmissionPlan(request.plan)  BY RequestAssumption
<1>7. plan.envelope.payloads = payloads
  <2>1. PICK e : e = plan.envelope  OBVIOUS
  <2>2. e.payloads = payloads  BY <1>4, <1>6, <2>1 DEF IsSubmissionPlan
  <2> QED BY <2>1, <2>2
<1> QED BY <1>1, <1>2, <1>3, <1>5, <1>7

\* Every step keeps Planned.
LEMMA PlannedKept ==
  ASSUME Shape, Busy, Composed, PackedAs, Written, Planned, [Next]_vars
  PROVE  Planned'
<1>0. request' = request /\ request \in Requests
  BY WhatStaysAsItIs DEF Composed
<1>1. \A p : OfPlan(p)' <=> OfPlan(p)
  BY <1>0 DEF OfPlan, PlanOfRequest, PayloadsOfRequest
<1>2. (stage = "package" => payload = {ToXml(request.invoice)})'
  <2>1. CASE ComposeInvoice
    <3>1. payload' = {ToXml(request.invoice)} \/ stage' = "done"
      BY <2>1, Zenon DEF ComposeInvoice, Stop
    <3> QED BY <1>0, <3>1
  <2>2. CASE ~ ComposeInvoice
    BY <1>0, <2>2, WhoComposes DEF Planned
  <2> QED BY <2>1, <2>2
<1>3. ASSUME NEW plan, Packaged(plan), plan = PlanOfRequest, IsEnvelope(PlanOfRequest.envelope),
             PfxFromDer(request.pfx) = "Ok",
             PlanOfRequest.envelope.payloads = PayloadsOfRequest,
             request.by = "cli" => PackFilenameError(request.args.filename) = "Ok"
      PROVE  Planned'
  <2>1. CASE prepared' = prepared
    BY <1>1, <1>2, <2>1 DEF Planned
  <2>2. CASE PrepareError(plan) = "Ok" /\ prepared' = {PrepareSubmission(plan, request.pfx)}
    <3>1. PICK p : p = PrepareSubmission(plan, request.pfx)  OBVIOUS
    <3>2. OfPlan(p)  BY <1>3, <2>2, <3>1 DEF OfPlan
    <3>3. prepared' = {p}  BY <2>2, <3>1
    <3> QED BY <1>1, <1>2, <3>2, <3>3 DEF Planned
  <2> QED BY <1>3, <2>1, <2>2, PackagedPlan
<1>4. CASE PackageByCli
  <2>1. PICK args : args = [request.args EXCEPT !.mig = SetToSeq(payload) \o @]  OBVIOUS
  <2>2. request.by = "cli" /\ payload = {ToXml(request.invoice)}
    BY <1>4 DEF PackageByCli, Planned
  <2>3. \/ prepared' = prepared
        \/ /\ PfxFromDer(request.pfx) = "Ok" /\ PlanError(args) = "Ok"
           /\ Packaged(BuildSubmissionPlan(args))
    BY <1>4, <2>1, Zenon DEF PackageByCli
  <2>4. CASE prepared' = prepared  BY <1>1, <1>2, <2>4 DEF Planned
  <2>5. CASE /\ PfxFromDer(request.pfx) = "Ok" /\ PlanError(args) = "Ok"
             /\ Packaged(BuildSubmissionPlan(args))
    <3>1. PICK plan : plan = BuildSubmissionPlan(args)  OBVIOUS
    <3>2. /\ plan = PlanOfRequest /\ IsEnvelope(PlanOfRequest.envelope)
          /\ PlanOfRequest.envelope.payloads = PayloadsOfRequest
          /\ PackFilenameError(request.args.filename) = "Ok"
      BY <1>0, <2>1, <2>2, <2>5, <3>1, CliPlans
    <3>3. Packaged(plan)  BY <2>5, <3>1
    <3> QED BY <1>3, <2>5, <3>2, <3>3
  <2> QED BY <2>3, <2>4, <2>5
<1>5. CASE PackageByClient
  <2>1. PICK plan :
          plan = [request.plan EXCEPT !.envelope.payloads = SetToSeq(payload) \o request.args.mig,
                    !.filename.common_name = FromParts(request.plan.filename.common_name)]
    OBVIOUS
  <2>2. request.by = "client" /\ payload = {ToXml(request.invoice)}
    BY <1>5 DEF PackageByClient, Planned
  <2>3. prepared' = prepared \/ (PfxFromDer(request.pfx) = "Ok" /\ Packaged(plan))
    BY <1>5, <2>1, Zenon DEF PackageByClient
  <2>4. CASE prepared' = prepared  BY <1>1, <1>2, <2>4 DEF Planned
  <2>5. CASE PfxFromDer(request.pfx) = "Ok" /\ Packaged(plan)
    <3>1. /\ plan = PlanOfRequest /\ IsEnvelope(PlanOfRequest.envelope)
          /\ PlanOfRequest.envelope.payloads = PayloadsOfRequest
      BY <1>0, <2>1, <2>2, ClientPlans
    <3>2. request.by # "cli"  BY <2>2
    <3> QED BY <1>3, <2>5, <3>1, <3>2
  <2> QED BY <2>3, <2>4, <2>5
<1>6. CASE ~ ComposeInvoice /\ ~ PackageByCli /\ ~ PackageByClient
  BY <1>1, <1>2, <1>6, WhoPacks DEF Planned
<1>7. CASE ComposeInvoice
  <2>1. prepared' = prepared  BY <1>7 DEF ComposeInvoice
  <2> QED BY <1>1, <1>2, <2>1 DEF Planned
<1> QED BY <1>4, <1>5, <1>6, <1>7

-----------------------------------------------------------------------------
(* The invoice that the platform reads *)

\* What any reader of the formats finds in an artifact is the XML that was
\* signed.
LEMMA ContentOpened ==
  ASSUME NEW pfx, IsPfx(pfx), PfxFromDer(pfx) = "Ok", NEW xml, IsSeq(xml),
         NEW bytes, bytes = ToTurnkeyArmored(SignAttached(pfx, xml))
  PROVE  ReadSignedData(DecodeArmor(bytes)).content = xml
<1>1. PICK parts :
        parts = [content     |-> xml,
                 certificate |-> pfx.certificate.der,
                 issuer      |-> pfx.certificate.issuer,
                 serial      |-> pfx.certificate.serial,
                 algorithm   |-> SignatureAlgorithms[pfx.key.kind],
                 signature   |-> [i \in 1 .. pfx.key.size |-> <<"key", pfx.key.public>>]]
  OBVIOUS
<1>2. Signable(parts) /\ SignAttached(pfx, xml) = EncodeTurnkeySignedData(parts)
  BY <1>1, IdentitySigns, ZenonT(40)
<1>3. parts.content = xml  BY <1>1
<1>4. PICK cms : cms = EncodeTurnkeySignedData(parts)  OBVIOUS
<1>5. IsSeq(cms) /\ cms # <<>>
  <2>1. IsValue(cms)  BY <1>2, <1>4, MessageForm
  <2>2. IsSeq(cms)  BY <2>1, ValueFacts
  <2>3. Len(cms) >= 2  BY <2>1 DEF IsValue
  <2> QED BY <2>2, <2>3
<1>6. DecodeArmor(bytes) = cms  BY <1>2, <1>4, <1>5, ArmorReadBack, Zenon
<1>7. Encodes(cms, parts)  BY <1>4 DEF Encodes
<1>8. ReadSignedData(cms).content = parts.content
  <2>1. PICK s : s = ReadSignedData(cms)  OBVIOUS
  <2>2. s.content = parts.content  BY <1>2, <1>7, <2>1, SignedDataRead, Zenon
  <2> QED BY <2>1, <2>2
<1> QED BY <1>3, <1>6, <1>8

\* What is opened is the envelope of the plan.
LEMMA EnvelopeOpened ==
  ASSUME request \in Requests, Planned, Transported, NEW s \in Opened
  PROVE  /\ IsEnvelope(PlanOfRequest.envelope)
         /\ PlanOfRequest.envelope.payloads = PayloadsOfRequest
         /\ s.content = ToTurnkeyXml(PlanOfRequest.envelope)
<1>1. PICK o \in inbound : s = ReadSignedData(DecodeArmor(o.bytes.bytes))  BY DEF Opened
<1>2. PICK p \in prepared : o.bytes.bytes = p.artifact.bytes  BY ObjectIsArtifact
<1>3. OfPlan(p)  BY DEF Planned
<1>4. PICK envelope, pfx : envelope = PlanOfRequest.envelope /\ pfx = request.pfx  OBVIOUS
<1>5. PICK xml : xml = ToTurnkeyXml(envelope) /\ IsSeq(xml)
  <2>1. IsEnvelope(envelope)  BY <1>3, <1>4 DEF OfPlan
  <2> QED BY <2>1, EnvelopeIsSeq
<1>6. p.artifact = PackAndSign(envelope, pfx)
  <2>1. PICK plan : plan = PlanOfRequest  OBVIOUS
  <2>2. p = PrepareSubmission(plan, pfx)  BY <1>3, <1>4, <2>1 DEF OfPlan
  <2>3. PrepareSubmission(plan, pfx).artifact = PackAndSign(plan.envelope, pfx)
    BY DEF PrepareSubmission
  <2> QED BY <1>4, <2>1, <2>2, <2>3
<1>7. PICK bytes : bytes = p.artifact.bytes  OBVIOUS
<1>8. bytes = ToTurnkeyArmored(SignAttached(pfx, xml))  BY <1>5, <1>6, <1>7 DEF PackAndSign
<1>9. IsPfx(pfx) /\ PfxFromDer(pfx) = "Ok"  BY <1>3, <1>4, RequestAssumption DEF OfPlan
<1>10. ReadSignedData(DecodeArmor(bytes)).content = xml  BY <1>5, <1>8, <1>9, ContentOpened
<1>11. s.content = xml  BY <1>1, <1>2, <1>7, <1>10
<1> QED BY <1>3, <1>4, <1>5, <1>11 DEF OfPlan

\* Every file that is given with the invoice is one XML document.
OthersAreDocuments == \A i \in DOMAIN request.args.mig : HasMessage(request.args.mig[i])

\* Then every payload is one, the invoice first.
LEMMA PayloadsHaveMessages ==
  ASSUME request \in Requests, OthersAreDocuments
  PROVE  /\ IsSeq(PayloadsOfRequest) /\ Len(PayloadsOfRequest) = Len(request.args.mig) + 1
         /\ PayloadsOfRequest[1] = ToXml(request.invoice)
         /\ \A i \in DOMAIN PayloadsOfRequest : HasMessage(PayloadsOfRequest[i])
<1>1. PICK xml, mig : xml = ToXml(request.invoice) /\ mig = request.args.mig  OBVIOUS
<1>2. HasMessage(xml)  BY <1>1, RequestAssumption, InvoiceDocument
<1>3. mig \in Seq(Documents)  BY <1>1, RequestAssumption DEF IsSubmissionArguments
<1>4. \A i \in DOMAIN mig : HasMessage(mig[i])  BY <1>1 DEF OthersAreDocuments
<1>5. PICK D : D = {d \in {xml} \cup Documents : HasMessage(d)}  OBVIOUS
<1>6. mig \in Seq(D)
  <2>1. \A i \in DOMAIN mig : mig[i] \in Documents  BY <1>3, SeqOver
  <2>2. \A i \in DOMAIN mig : mig[i] \in D  BY <1>4, <1>5, <2>1
  <2> QED BY <1>3, <2>2, SeqOver
<1>7. PICK one : one = <<xml>>  OBVIOUS
<1>8. one \in Seq(D) /\ Len(one) = 1 /\ one[1] = xml  BY <1>2, <1>5, <1>7
<1>9. PICK all : all = one \o mig  OBVIOUS
<1>10. all \in Seq(D) /\ Len(all) = Len(mig) + 1 /\ all[1] = xml
  <2>1. Len(mig) \in Nat  BY <1>6
  <2>3. 1 \in 1 .. Len(one) + Len(mig)  BY <1>8, <2>1
  <2>2. Len(all) = Len(one) + Len(mig) /\ all[1] = one[1]
    <3>1. /\ Len(one \o mig) = Len(one) + Len(mig)
          /\ \A i \in 1 .. Len(one) + Len(mig) :
               (one \o mig)[i] = IF i <= Len(one) THEN one[i] ELSE mig[i - Len(one)]
      <4>1. one \in Seq(D) /\ mig \in Seq(D)  BY <1>6, <1>8
      <4> QED BY <4>1, ConcatProperties, Zenon
    <3>2. /\ Len(all) = Len(one) + Len(mig)
          /\ \A i \in 1 .. Len(one) + Len(mig) :
               all[i] = IF i <= Len(one) THEN one[i] ELSE mig[i - Len(one)]
      BY <1>9, <3>1, Zenon
    <3>3. all[1] = one[1]  BY <1>8, <2>3, <3>2
    <3> QED BY <3>2, <3>3
  <2>5. all \in Seq(D)  BY <1>6, <1>8, <1>9
  <2> QED BY <1>8, <2>1, <2>2, <2>5
<1>11. \A i \in DOMAIN all : all[i] \in D  BY <1>10, SeqOver
<1>12. PayloadsOfRequest = all  BY <1>1, <1>7, <1>9 DEF PayloadsOfRequest
<1> QED BY <1>1, <1>5, <1>10, <1>11, <1>12 DEF IsSeq

\* What the platform reads in the envelope of a plan.
LEMMA EnvelopeOfRequest ==
  ASSUME request \in Requests, Planned, Transported, OthersAreDocuments, NEW s \in Opened
  PROVE  LET document == ReadXml(Normalized(s.content))
         IN  /\ Len(document) = 1
             /\ ReadEnvelope(document[1])
                  = EnvelopeAsRead(PlanOfRequest.envelope, MessagesOf(PayloadsOfRequest))
<1>1. PICK envelope, payloads : envelope = PlanOfRequest.envelope /\ payloads = PayloadsOfRequest
  OBVIOUS
<1>2. IsEnvelope(envelope) /\ envelope.payloads = payloads /\ s.content = ToTurnkeyXml(envelope)
  BY <1>1, EnvelopeOpened
<1>3. \A i \in DOMAIN envelope.payloads : HasMessage(envelope.payloads[i])
  BY <1>1, <1>2, PayloadsHaveMessages
<1>4. /\ Len(ReadXml(Normalized(ToTurnkeyXml(envelope)))) = 1
      /\ ReadEnvelope(ReadXml(Normalized(ToTurnkeyXml(envelope)))[1])
           = EnvelopeAsRead(envelope, MessagesOf(envelope.payloads))
  BY <1>2, <1>3, EnvelopeReadBack
<1> QED BY <1>1, <1>2, <1>4

\* Whatever is submitted beside it, the first message that the platform finds
\* in the object of a submission is the invoice, field by field, and the other
\* files are all there.  The code does not look into those: that each is one
\* document (OthersAreDocuments) is what its callers have to see to.
THEOREM InvoicesReadBack == Spec => [](OthersAreDocuments => InvoiceReadBack)
<1>1. Init => Written /\ Planned  BY DEF Init, Written, Planned
<1>2. ChainInv /\ Written /\ Planned /\ [Next]_vars => (Written /\ Planned)'
  BY WrittenKept, PlannedKept DEF ChainInv
<1>3. ChainInv /\ Planned => (OthersAreDocuments => InvoiceReadBack)
  <2> SUFFICES ASSUME ChainInv, Planned, OthersAreDocuments, NEW s \in Opened
               PROVE  LET document == ReadXml(Normalized(s.content))
                          messages == ReadEnvelope(document[1]).messages
                      IN  /\ Len(document) = 1
                          /\ Len(messages) = Len(request.args.mig) + 1
                          /\ ReadInvoice(messages[1]) = InvoiceAsRead(request.invoice)
    BY Zenon DEF InvoiceReadBack
  <2>1. request \in Requests /\ Transported  BY DEF ChainInv, Composed
  <2>2. PICK document : document = ReadXml(Normalized(s.content))  OBVIOUS
  <2>3. PICK payloads, messages : payloads = PayloadsOfRequest /\ messages = MessagesOf(payloads)
    OBVIOUS
  <2>4. Len(document) = 1 /\ ReadEnvelope(document[1]) = EnvelopeAsRead(PlanOfRequest.envelope, messages)
    BY <2>1, <2>2, <2>3, EnvelopeOfRequest
  <2>5. ReadEnvelope(document[1]).messages = messages
    <3>1. EnvelopeAsRead(PlanOfRequest.envelope, messages).messages = messages  BY DEF EnvelopeAsRead
    <3> QED BY <2>4, <3>1
  <2>6. /\ IsSeq(payloads) /\ Len(payloads) = Len(request.args.mig) + 1
        /\ payloads[1] = ToXml(request.invoice)
    BY <2>1, <2>3, PayloadsHaveMessages
  <2>7. PICK n \in Nat : n = Len(request.args.mig) /\ DOMAIN payloads = 1 .. n + 1
    <3>1. request.args.mig \in Seq(Documents)
      BY <2>1, RequestAssumption DEF IsSubmissionArguments
    <3> QED BY <2>6, <3>1 DEF IsSeq
  <2>8. Len(messages) = n + 1 /\ messages[1] = Message(payloads[1])
    <3>1. messages = [i \in 1 .. n + 1 |-> Message(payloads[i])]  BY <2>3, <2>7 DEF MessagesOf
    <3> QED BY <3>1
  <2>9. ReadInvoice(messages[1]) = InvoiceAsRead(request.invoice)
    BY <2>1, <2>6, <2>8, RequestAssumption, InvoiceDocument
  <2> QED BY <2>2, <2>4, <2>5, <2>7, <2>8, <2>9
<1> QED BY <1>1, <1>2, <1>3, ChainAlways, PTL DEF Spec

-----------------------------------------------------------------------------
(* The identity of a submission *)

\* No carriage return in the texts of a party or a route.
Unreturned(info) ==
  Free(info.identifier, "\r") /\ ("description" \in DOMAIN info => Free(info.description, "\r"))

\* A party or a route without one is read as it was given.
LEMMA PartyAsGiven ==
  ASSUME NEW info, HasTexts(info), Unreturned(info)
  PROVE  PartyAsRead(info) = IF "description" \in DOMAIN info
                             THEN [identifier  |-> info.identifier,
                                   description |-> info.description]
                             ELSE [identifier |-> info.identifier]
<1>1. \A text : IsSeq(text) /\ Free(text, "\r") => Lined(text) = text
  BY LineEndsSame DEF Lined
<1>2. Lined(info.identifier) = info.identifier
  BY <1>1, Zenon DEF HasTexts, Unreturned
<1>3. "description" \in DOMAIN info => Lined(info.description) = info.description
  BY <1>1, Zenon DEF HasTexts, Unreturned
<1> QED BY <1>2, <1>3, Zenon DEF PartyAsRead

\* One side of a notification says what the envelope says.
LEMMA SideOnTheWire ==
  ASSUME NEW side, HasTexts(side.party), HasTexts(side.route),
         Unreturned(side.party), Unreturned(side.route)
  PROVE  /\ Renamed(WireTrans(side).partyInfo, "partyId") = PartyAsRead(side.party)
         /\ Renamed(WireTrans(side).routingInfo, "routingId") = PartyAsRead(side.route)
<1>1. ASSUME NEW info, HasTexts(info), Unreturned(info), NEW key, key # "description",
             NEW said, said = [k \in {key} \cup ({"description"} \cap DOMAIN info) |->
                                IF k = "description" THEN info.description ELSE info.identifier]
      PROVE  Renamed(said, key) = PartyAsRead(info)
  <2>1. said[key] = info.identifier  BY <1>1
  <2>2. CASE "description" \in DOMAIN info
    <3>1. "description" \in DOMAIN said /\ said.description = info.description
      BY <1>1, <2>2
    <3> QED BY <1>1, <2>1, <2>2, <3>1, PartyAsGiven DEF Renamed
  <2>3. CASE "description" \notin DOMAIN info
    <3>1. "description" \notin DOMAIN said  BY <1>1, <2>3
    <3> QED BY <1>1, <2>1, <2>3, <3>1, PartyAsGiven DEF Renamed
  <2> QED BY <2>2, <2>3
<1>2. PICK a, b :
        /\ a = [k \in {"partyId"} \cup ({"description"} \cap DOMAIN side.party) |->
                  IF k = "description" THEN side.party.description ELSE side.party.identifier]
        /\ b = [k \in {"routingId"} \cup ({"description"} \cap DOMAIN side.route) |->
                  IF k = "description" THEN side.route.description ELSE side.route.identifier]
  OBVIOUS
<1>3. WireTrans(side).partyInfo = a /\ WireTrans(side).routingInfo = b
  BY <1>2 DEF WireTrans
<1>4. Renamed(a, "partyId") = PartyAsRead(side.party)  BY <1>1, <1>2
<1>5. Renamed(b, "routingId") = PartyAsRead(side.route)  BY <1>1, <1>2
<1> QED BY <1>3, <1>4, <1>5

\* A count that is rendered without a sign and can be parsed again.
CountReads(n) ==
  /\ Decimal(n) \in Words /\ IsI32(Decimal(n)) /\ I32Value(Decimal(n)) = n
  /\ IsPiece(Decimal(n), "_")

\* A name of five parts is rendered and parsed again, if the last four have no
\* bar.
LEMMA PartsRead ==
  ASSUME NEW parts, NEW f \in Words, NEW a \in Words, NEW b \in Words, NEW c \in Words,
         NEW n, CountReads(n), CommonNameError(c) = "Ok",
         IsPiece(a, "_"), IsPiece(b, "_"), IsPiece(c, "_"),
         parts = [source_name |-> f, from_party |-> a, to_party |-> b,
                  common_name |-> CommonName(c), pack_count |-> n]
  PROVE  PackFilename(RenderPackFilename(parts)) = parts
<1>1. PICK rendered : rendered = RenderPackFilename(parts)  OBVIOUS
<1>2. /\ Decimal(n) \in Words /\ I32Value(Decimal(n)) = n /\ IsPiece(Decimal(n), "_")
  BY Zenon DEF CountReads
<1>3. RenderCommonName(CommonName(c)) = c  BY CommonNameRendered
<1>4. rendered = FourBars(f, a, b, c, Decimal(n))
  <2>1. Decimal(n) \in Words  BY <1>2, Zenon
  <2>2. f \in Words /\ a \in Words /\ b \in Words /\ c \in Words  OBVIOUS
  <2>3. parts = [source_name |-> f, from_party |-> a, to_party |-> b,
                 common_name |-> CommonName(c), pack_count |-> n]
    OBVIOUS
  <2>4. RenderPackFilename(parts) = FourBars(f, a, b, c, Decimal(n))
    BY ONLY <1>3, <2>1, <2>2, <2>3, NameRendered
  <2> QED BY <1>1, <2>4
<1>5. NameParts(rendered, f, a, b, c, Decimal(n))
  BY <1>2, <1>4, Zenon DEF NameParts, FourBars
<1>6. RightPieces(rendered) = <<f, a, b, c, Decimal(n)>>  BY <1>5, PiecesOfName
<1>7. PackFilename(rendered) =
        [source_name |-> f, from_party |-> a, to_party |-> b,
         common_name |-> CommonName(c), pack_count |-> I32Value(Decimal(n))]
  BY <1>6, PackOfPieces
<1> QED BY <1>1, <1>2, <1>7, Zenon

\* So are the parts of any name.
LEMMA EntryRead ==
  ASSUME NEW name, name.source_name \in Words, name.from_party \in Words,
         name.to_party \in Words,
         IsPiece(name.from_party, "_"), IsPiece(name.to_party, "_"),
         NEW c \in Words, CommonNameError(c) = "Ok", name.common_name = CommonName(c),
         IsPiece(c, "_"), CountReads(name.pack_count)
  PROVE  LET local == PackFilename(RenderPackFilename(name))
         IN  /\ local.common_name = CommonName(c)
             /\ local.from_party = name.from_party /\ local.to_party = name.to_party
             /\ local.pack_count = name.pack_count
<1>1. PICK parts :
        parts = [source_name |-> name.source_name, from_party |-> name.from_party,
                 to_party |-> name.to_party, common_name |-> CommonName(c),
                 pack_count |-> name.pack_count]
  OBVIOUS
<1>2. /\ parts.source_name = name.source_name /\ parts.from_party = name.from_party
      /\ parts.to_party = name.to_party /\ parts.common_name = name.common_name
      /\ parts.pack_count = name.pack_count
  BY <1>1
<1>3. RenderPackFilename(name) = RenderPackFilename(parts)
  BY <1>2, Zenon DEF RenderPackFilename
<1>4. PackFilename(RenderPackFilename(parts)) = parts
  BY <1>1, PartsRead
<1> QED BY <1>2, <1>3, <1>4

\* The entry of a ZIP file is named as the submission.
LEMMA EntryOfObject ==
  ASSUME NEW p, NEW bytes, bytes = PrepareUploadObject(p).uploaded_bytes, bytes.zipped
  PROVE  bytes.entry = RenderPackFilename(p.filename)
<1>1. PICK name, b : name = RenderPackFilename(p.filename) /\ b = p.artifact.bytes  OBVIOUS
<1>2. PICK z, u : z = ZipSingleEntry(name, b) /\ u = Plain(b)  OBVIOUS
<1>3. PrepareUploadObject(p).uploaded_bytes = IF p.zip = "Zip" THEN z ELSE u
  BY <1>1, <1>2 DEF PrepareUploadObject
<1>4. z.entry = name /\ u.zipped = FALSE  BY <1>2 DEF ZipSingleEntry, Plain
<1>5. bytes = z \/ bytes = u  BY <1>3, Zenon
<1> QED BY <1>1, <1>4, <1>5

\* The texts of the identity have no carriage return, which XML would turn
\* into a line feed.
NoReturns ==
  LET envelope == PlanOfRequest.envelope
      routing  == envelope.routing
  IN  /\ Unreturned(routing.from) /\ Unreturned(routing.from_vac)
      /\ Unreturned(routing.to) /\ Unreturned(routing.to_vac)
      /\ Free(envelope.messageType, "\r")

\* A client that makes the file name of parts gives none with a bar.
NoBars ==
  LET name == PlanOfRequest.filename
  IN  request.by = "client" =>
        /\ IsPiece(name.from_party, "_") /\ IsPiece(name.to_party, "_")
        /\ IsPiece(RenderCommonName(name.common_name), "_")

\* The entry of a client's submission is named as its parts say.
LEMMA ClientEntry ==
  ASSUME request \in Requests, request.by = "client", NoBars, NEW p, OfPlan(p), Named(p), SaysOnce(p)
  PROVE  LET local == PackFilename(RenderPackFilename(p.filename))
         IN  /\ RenderCommonName(local.common_name) = RenderCommonName(p.filename.common_name)
             /\ local.from_party = p.filename.from_party
             /\ local.to_party = p.filename.to_party
             /\ local.pack_count = p.filename.pack_count
<1>1. PICK plan, given : plan = PlanOfRequest /\ given = request.plan  OBVIOUS
<1>2. IsSubmissionPlan(given)  BY <1>1, RequestAssumption
<1>3. request.by # "cli"  OBVIOUS
<1>4. plan = [given EXCEPT !.envelope.payloads = PayloadsOfRequest,
                           !.filename.common_name = FromParts(given.filename.common_name)]
  BY <1>1, <1>3 DEF PlanOfRequest
<1>5. PICK name : name = plan.filename  OBVIOUS
<1>6. /\ name.source_name = given.filename.source_name
      /\ name.from_party = given.filename.from_party /\ name.to_party = given.filename.to_party
      /\ name.pack_count = given.filename.pack_count
  BY <1>2, <1>4, <1>5 DEF IsSubmissionPlan
<1>7. PICK routing : routing = given.envelope.routing  OBVIOUS
<1>8. plan.envelope.routing = routing  BY <1>2, <1>4, <1>7 DEF IsSubmissionPlan
<1>9. p.filename = name
  <2>1. p = PrepareSubmission(plan, request.pfx)  BY <1>1 DEF OfPlan
  <2> QED BY <1>5, <2>1 DEF PrepareSubmission
<1>10. name.from_party = routing.from.identifier /\ name.to_party = routing.to.identifier
  <2>1. ValidatePlan(plan) = "Ok"
    <3>1. PrepareError(plan) = "Ok"  BY <1>1 DEF OfPlan
    <3> QED BY <3>1, Zenon DEF PrepareError
  <2>2. /\ plan.filename.from_party = plan.envelope.routing.from.identifier
        /\ plan.filename.to_party = plan.envelope.routing.to.identifier
    BY <2>1 DEF ValidatePlan
  <2> QED BY <1>5, <1>8, <2>2
<1>11. routing.from.identifier \in Texts /\ routing.to.identifier \in Texts
  <2>1. \A side \in {routing.from, routing.from_vac, routing.to, routing.to_vac} :
          \A f \in {"identifier"} \cup ({"description"} \cap DOMAIN side) : side[f] \in Texts
    BY <1>2, <1>7, Zenon DEF IsSubmissionPlan
  <2>2. routing.from["identifier"] \in Texts /\ routing.to["identifier"] \in Texts  BY <2>1
  <2> QED BY <2>2
<1>12. name.source_name \in Texts /\ name.pack_count \in Int32
  BY <1>2, <1>6 DEF IsSubmissionPlan
<1>13. name.source_name \in Words /\ name.from_party \in Words /\ name.to_party \in Words
  BY <1>10, <1>11, <1>12, TextsAreWords
<1>14. name.pack_count \in Nat
  <2>1. name.pack_count > 0  BY <1>9 DEF SaysOnce
  <2> QED BY <1>12, <2>1 DEF Int32
<1>15. PICK c \in Words : CommonNameError(c) = "Ok" /\ name.common_name = CommonName(c)
  BY <1>9 DEF Named
<1>16. RenderCommonName(name.common_name) = c  BY <1>15, CommonNameRendered
<1>17. IsPiece(name.from_party, "_") /\ IsPiece(name.to_party, "_") /\ IsPiece(c, "_")
  BY <1>1, <1>5, <1>16 DEF NoBars
<1>18. PICK local : local = PackFilename(RenderPackFilename(name))  OBVIOUS
<1>19. /\ local.common_name = CommonName(c)
       /\ local.from_party = name.from_party /\ local.to_party = name.to_party
       /\ local.pack_count = name.pack_count
  <2>1. CountReads(name.pack_count)
    <3>1. \A n \in Nat : n \in Int32 => CountReads(n)  BY CountReadBack, Zenon DEF CountReads
    <3> QED BY <1>12, <1>14, <3>1
  <2>2. name.common_name = CommonName(c) /\ CommonNameError(c) = "Ok"  BY <1>15
  <2> QED BY <1>13, <1>17, <1>18, <2>1, <2>2, EntryRead
<1> QED BY <1>9, <1>15, <1>18, <1>19

\* What the notification says and the envelope says.
LEMMA IdentityFollows ==
  ASSUME ChainInv, Planned, OthersAreDocuments, NoReturns, NoBars, stage = "platform",
         NEW w \in wire, NEW o \in inbound, NEW s \in Opened
  PROVE  LET envelope == ReadEnvelope(ReadXml(Normalized(s.content))[1])
             Side(trans) == [party |-> Renamed(trans.partyInfo, "partyId"),
                             route |-> Renamed(trans.routingInfo, "routingId")]
         IN  /\ w.messageType = envelope.messageType
             /\ Decimal(w.quantity) = envelope.count
             /\ w.quantity = Len(envelope.messages)
             /\ Side(w.transFrom) = envelope.from /\ Side(w.transTo) = envelope.to
             /\ o.bytes.zipped => LET local == PackFilename(o.bytes.entry)
                                  IN  /\ RenderCommonName(local.common_name) = o.name
                                      /\ local.from_party = envelope.from.party.identifier
                                      /\ local.to_party = envelope.to.party.identifier
                                      /\ local.pack_count = w.quantity
<1>1. PICK p \in prepared :
        /\ o = [name  |-> PrepareUploadObject(p).remote_filename,
                bytes |-> PrepareUploadObject(p).uploaded_bytes]
        /\ w = ToPfs001Json(UploadNotification(p), Credentials)
  BY DEF ChainInv, Transported, Shape, AtMostOne
<1>2. SaysOnce(p) /\ Named(p) /\ OfPlan(p) /\ request \in Requests
  BY DEF ChainInv, PackedAs, Composed, Planned
<1>3. PICK plan, e, routing, payloads :
        /\ plan = PlanOfRequest /\ e = plan.envelope /\ routing = e.routing
        /\ payloads = PayloadsOfRequest
  OBVIOUS
<1>4. IsEnvelope(e) /\ e.payloads = payloads  BY <1>2, <1>3 DEF OfPlan
<1>5. PICK messages : messages = MessagesOf(payloads)  OBVIOUS
<1>6. PICK envelope : envelope = ReadEnvelope(ReadXml(Normalized(s.content))[1])  OBVIOUS
<1>7. envelope = EnvelopeAsRead(e, messages)
  BY <1>2, <1>3, <1>5, <1>6, EnvelopeOfRequest DEF ChainInv
<1>8. /\ envelope.from = [party |-> PartyAsRead(routing.from), route |-> PartyAsRead(routing.from_vac)]
      /\ envelope.to = [party |-> PartyAsRead(routing.to), route |-> PartyAsRead(routing.to_vac)]
      /\ envelope.count = Decimal(Len(payloads)) /\ envelope.messageType = Lined(e.messageType)
      /\ envelope.messages = messages
  BY <1>3, <1>4, <1>7 DEF EnvelopeAsRead
<1>9. /\ HasTexts(routing.from) /\ HasTexts(routing.from_vac)
      /\ HasTexts(routing.to) /\ HasTexts(routing.to_vac) /\ IsSeq(e.messageType)
  BY <1>3, <1>4 DEF IsEnvelope
<1>10. /\ Unreturned(routing.from) /\ Unreturned(routing.from_vac)
       /\ Unreturned(routing.to) /\ Unreturned(routing.to_vac) /\ Free(e.messageType, "\r")
  BY <1>3 DEF NoReturns
<1>11. PICK from, to : /\ from = GatewayParty(routing.from, routing.from_vac)
                       /\ to = GatewayParty(routing.to, routing.to_vac)
  OBVIOUS
<1>12. /\ from.party = routing.from /\ from.route = routing.from_vac
       /\ to.party = routing.to /\ to.route = routing.to_vac
  BY <1>11 DEF GatewayParty
<1>13. p = PrepareSubmission(plan, request.pfx)  BY <1>2, <1>3 DEF OfPlan
<1>14. /\ p.metadata.from = from /\ p.metadata.to = to
       /\ p.metadata.message.message_type = e.messageType
       /\ p.metadata.message.quantity = Len(payloads)
  BY <1>3, <1>4, <1>11, <1>13 DEF PrepareSubmission
<1>15. /\ w.messageType = p.metadata.message.message_type
       /\ w.quantity = p.metadata.message.quantity
       /\ w.transFrom = WireTrans(p.metadata.from) /\ w.transTo = WireTrans(p.metadata.to)
  BY <1>1 DEF ToPfs001Json, UploadNotification
<1>16. w.messageType = envelope.messageType
  <2>1. Lined(e.messageType) = e.messageType  BY <1>9, <1>10, LineEndsSame DEF Lined
  <2> QED BY <1>8, <1>14, <1>15, <2>1
<1>17. Decimal(w.quantity) = envelope.count  BY <1>8, <1>14, <1>15
<1>18. w.quantity = Len(envelope.messages)
  <2>1. IsSeq(payloads)  BY <1>2, <1>3, PayloadsHaveMessages
  <2>2. PICK n \in Nat : n = Len(payloads) /\ DOMAIN payloads = 1 .. n  BY <2>1, SeqOfPlaces
  <2>3. messages = [i \in 1 .. n |-> Message(payloads[i])]  BY <1>5, <2>2 DEF MessagesOf
  <2>4. Len(messages) = n  BY <2>3
  <2> QED BY <1>8, <1>14, <1>15, <2>2, <2>4
<1>19. /\ Renamed(w.transFrom.partyInfo, "partyId") = PartyAsRead(routing.from)
       /\ Renamed(w.transFrom.routingInfo, "routingId") = PartyAsRead(routing.from_vac)
  <2>1. /\ HasTexts(from.party) /\ HasTexts(from.route)
        /\ Unreturned(from.party) /\ Unreturned(from.route)
    BY <1>9, <1>10, <1>12
  <2>2. w.transFrom = WireTrans(from)  BY <1>14, <1>15
  <2> QED BY <1>12, <2>1, <2>2, SideOnTheWire
<1>20. /\ Renamed(w.transTo.partyInfo, "partyId") = PartyAsRead(routing.to)
       /\ Renamed(w.transTo.routingInfo, "routingId") = PartyAsRead(routing.to_vac)
  <2>1. /\ HasTexts(to.party) /\ HasTexts(to.route)
        /\ Unreturned(to.party) /\ Unreturned(to.route)
    BY <1>9, <1>10, <1>12
  <2>2. w.transTo = WireTrans(to)  BY <1>14, <1>15
  <2> QED BY <1>12, <2>1, <2>2, SideOnTheWire
<1>21. /\ envelope.from.party.identifier = p.filename.from_party
       /\ envelope.to.party.identifier = p.filename.to_party
  <2>1. /\ PartyAsRead(routing.from).identifier = routing.from.identifier
        /\ PartyAsRead(routing.to).identifier = routing.to.identifier
    <3>1. \A info : HasTexts(info) /\ Unreturned(info) => PartyAsRead(info).identifier = info.identifier
      BY PartyAsGiven
    <3> QED BY <1>9, <1>10, <3>1
  <2>2. /\ p.filename.from_party = routing.from.identifier
        /\ p.filename.to_party = routing.to.identifier
    BY <1>2, <1>12, <1>14 DEF SaysOnce
  <2> QED BY <1>8, <2>1, <2>2
<1>22. ASSUME o.bytes.zipped
       PROVE  LET local == PackFilename(o.bytes.entry)
              IN  /\ RenderCommonName(local.common_name) = o.name
                  /\ local.from_party = envelope.from.party.identifier
                  /\ local.to_party = envelope.to.party.identifier
                  /\ local.pack_count = w.quantity
  <2>1. PICK local : local = PackFilename(o.bytes.entry)  OBVIOUS
  <2>2. o.name = RenderCommonName(p.filename.common_name)
    BY <1>1 DEF PrepareUploadObject, RemoteFilename
  <2>3. o.bytes.entry = RenderPackFilename(p.filename)
    <3>1. PICK bytes : bytes = o.bytes  OBVIOUS
    <3>2. bytes = PrepareUploadObject(p).uploaded_bytes  BY <1>1, <3>1
    <3> QED BY <1>22, <3>1, <3>2, EntryOfObject
  <2>4. w.quantity = p.filename.pack_count  BY <1>2, <1>15 DEF SaysOnce
  <2>5. /\ RenderCommonName(local.common_name) = RenderCommonName(p.filename.common_name)
        /\ local.from_party = p.filename.from_party /\ local.to_party = p.filename.to_party
        /\ local.pack_count = p.filename.pack_count
    <3>1. CASE request.by = "client"  BY <1>2, <2>1, <2>3, <3>1, ClientEntry
    <3>2. CASE request.by = "cli"
      <4>1. request.args.filename \in Words  BY <1>2, TextsOfRequests, TextsAreWords
      <4>2. /\ PackFilenameError(request.args.filename) = "Ok"
            /\ p.filename = PackFilename(request.args.filename) /\ p.filename.pack_count > 0
        BY <1>2, <3>2 DEF Named, SaysOnce
      <4>3. local = p.filename  BY <2>1, <2>3, <4>1, <4>2, Anchored
      <4> QED BY <4>3
    <3>3. request.by \in {"cli", "client"}  BY <1>2, RequestAssumption
    <3> QED BY <3>1, <3>2, <3>3
  <2> QED BY <1>21, <2>1, <2>2, <2>4, <2>5
<1>23. /\ [party |-> Renamed(w.transFrom.partyInfo, "partyId"),
           route |-> Renamed(w.transFrom.routingInfo, "routingId")] = envelope.from
       /\ [party |-> Renamed(w.transTo.partyInfo, "partyId"),
           route |-> Renamed(w.transTo.routingInfo, "routingId")] = envelope.to
  BY <1>8, <1>19, <1>20
<1> QED BY <1>6, <1>16, <1>17, <1>18, <1>22, <1>23, Zenon

\* The notification, the signed envelope and the name of the entry speak of
\* one submission: validate_plan compares what the plan says twice, and
\* serialization keeps it.  XML does not keep a carriage return (NoReturns), nor
\* does a name keep its parts if a client has put separators in them (NoBars).
THEOREM IdentityIsOne ==
  Spec => [](OthersAreDocuments /\ NoReturns /\ NoBars => OneIdentity)
<1>1. Init => Written /\ Planned  BY DEF Init, Written, Planned
<1>2. ChainInv /\ Written /\ Planned /\ [Next]_vars => (Written /\ Planned)'
  BY WrittenKept, PlannedKept DEF ChainInv
<1>3. ChainInv /\ Planned => (OthersAreDocuments /\ NoReturns /\ NoBars => OneIdentity)
  BY IdentityFollows, Zenon DEF OneIdentity
<1> QED BY <1>1, <1>2, <1>3, ChainAlways, PTL DEF Spec
=============================================================================
