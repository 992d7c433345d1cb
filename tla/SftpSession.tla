----------------------------- MODULE SftpSession -----------------------------
(***************************************************************************)
(* One SSH session of crates/einvoice-transport/src/sftp.rs.  Every call   *)
(* of Ssh2SftpUploader and Ssh2RemoteInbox opens a session of its own: it  *)
(* resolves the host, takes the first address that accepts a connection,   *)
(* shakes hands, compares the key of the server with known_hosts and only  *)
(* then sends the password.  The caller does its work on the open session  *)
(* and drops it.                                                           *)
(***************************************************************************)
EXTENDS Naturals, Sequences

CONSTANTS
  Servers,    \* servers that the host may resolve to
  Down,       \* servers that never accept a connection
  HostKey,    \* HostKey[s]: the key that s presents, NoKey if it has none
  NoKey,
  KnownKeys   \* keys of this host and port in the known_hosts file

ASSUME SessionAssumption == Down \subseteq Servers /\ NoKey \notin KnownKeys

VARIABLES
  link,       \* how far the session is
  addresses,  \* addresses that are still to be tried
  server,     \* the server at the other end, a set of at most one
  failure,    \* the SftpConnectionError of the last call
  told        \* history: servers that were sent the password

sessionVars == <<link, addresses, server, failure, told>>

Links == {"closed", "connecting", "shaking", "checking", "authenticating", "open"}

Failures == {"none", "Io", "Ssh", "MissingHostKey", "HostKeyNotFound", "HostKeyMismatch",
             "HostKeyCheckFailed", "AuthenticationFailed"}

SessionTypeOK ==
  /\ link \in Links
  /\ addresses \in Seq(Servers)
  /\ server \subseteq Servers
  /\ failure \in Failures
  /\ told \subseteq Servers

SessionInit ==
  /\ link = "closed" /\ addresses = <<>> /\ server = {}
  /\ failure = "none" /\ told = {}

-----------------------------------------------------------------------------

\* The call returns an error; its sockets are closed.
Fail(error) ==
  /\ link' = "closed" /\ failure' = error
  /\ addresses' = <<>> /\ server' = {}

\* connect_session begins: to_socket_addrs answers with these addresses.
Resolve(resolved) ==
  /\ link = "closed"
  /\ link' = "connecting" /\ addresses' = resolved
  /\ server' = {} /\ failure' = "none"
  /\ UNCHANGED told

\* to_socket_addrs fails, or the last address has failed, or there was none.
NoAddress ==
  /\ link = "connecting" /\ addresses = <<>>
  /\ Fail("Io")
  /\ UNCHANGED told

\* Mutant of AddressRefused: the same address is tried again and again.
AddressRetried ==
  /\ link = "connecting" /\ addresses # <<>>
  /\ UNCHANGED sessionVars

\* connect_timeout fails: the next address is tried.
AddressRefused ==
  /\ link = "connecting" /\ addresses # <<>>
  /\ addresses' = Tail(addresses)
  /\ UNCHANGED <<link, server, failure, told>>

\* The first address that accepts is the only one that is used from here on.
Connect ==
  /\ link = "connecting" /\ addresses # <<>>
  /\ Head(addresses) \notin Down
  /\ link' = "shaking" /\ server' = {Head(addresses)}
  /\ addresses' = <<>>
  /\ UNCHANGED <<failure, told>>

Handshake ==
  /\ link = "shaking" /\ link' = "checking"
  /\ UNCHANGED <<addresses, server, failure, told>>

\* The check_port of libssh2, when the file could be read.
CheckPort(key) ==
  IF key = NoKey THEN "MissingHostKey"
  ELSE IF key \in KnownKeys THEN "Match"
  ELSE IF KnownKeys = {} THEN "HostKeyNotFound"
  ELSE "HostKeyMismatch"

\* Mutant of VerifyHostKey: a key that is not in the file is taken too.
AcceptNewKey ==
  /\ link = "checking"
  /\ \E s \in server :
       IF CheckPort(HostKey[s]) # "MissingHostKey"
       THEN link' = "authenticating" /\ UNCHANGED <<addresses, server, failure>>
       ELSE Fail(CheckPort(HostKey[s]))
  /\ UNCHANGED told

VerifyHostKey ==
  /\ link = "checking"
  /\ \E s \in server :
       IF CheckPort(HostKey[s]) = "Match"
       THEN link' = "authenticating" /\ UNCHANGED <<addresses, server, failure>>
       ELSE Fail(CheckPort(HostKey[s]))
  /\ UNCHANGED told

\* userauth_password sends the password and is accepted, or is not.
Authenticate ==
  /\ link = "authenticating"
  /\ told' = told \cup server
  /\ \/ link' = "open" /\ UNCHANGED <<addresses, server, failure>>
     \/ Fail("AuthenticationFailed")

\* libssh2 reports an error, or a time-out, at any step of the session;
\* known_hosts cannot be read, or check_port itself fails.
SessionFails ==
  \/ /\ link \in {"shaking", "checking", "authenticating", "open"}
     /\ Fail("Ssh")
     /\ told' = IF link = "authenticating" THEN told \cup server ELSE told
  \/ /\ link = "checking"
     /\ \E error \in {"Io", "HostKeyCheckFailed"} : Fail(error)
     /\ UNCHANGED told

\* The call is done, and its session is dropped.
Close ==
  /\ link = "open" /\ link' = "closed"
  /\ server' = {}
  /\ UNCHANGED <<addresses, failure, told>>

ConnectSession ==
  \/ NoAddress \/ AddressRefused \/ Connect \/ Handshake
  \/ VerifyHostKey \/ Authenticate \/ SessionFails

-----------------------------------------------------------------------------

\* "mandatory OpenSSH known-hosts verification" (sftp.rs): whatever the host
\* resolves to and wherever a call fails, the password only ever goes to
\* servers that showed a key from the file.
SecretsToKnownHost == \A s \in told : HostKey[s] \in KnownKeys
=============================================================================
