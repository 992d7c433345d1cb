# A TLA+ model of tw-einvoice-rs

tw-einvoice-rs submits electronic invoices to the Taiwanese e-invoice platform
and receives the results. A submission is rendered, signed, packed and uploaded
by SFTP, and a gateway is notified over HTTP; hours later the platform posts
`ProcessResult` and `SummaryResult` objects in the SFTP directory `/out`, which
a worker downloads, saves and deletes, and which are then applied to the durable
record of the submission.

## Inventory

| Part | State it keeps | Operations | Talks to |
|---|---|---|---|
| Durable receiver (`einvoice-transport/src/receiver.rs`) | files of the inbox directory: published objects and `.incoming-<pid>-<id>` temporaries; `NEXT_TEMP_ID` | `receive`: create, download, fsync, measure, hard-link, fsync directory, compare, delete, drop | SFTP inbox, local file system |
| Reconciliation poller (`reconciliation.rs`, `inbound.rs`) | the listing and the attempts of one poll | `poll_once`, `DurableInboundRecord::load` | receiver, SFTP listing, its caller |
| SFTP inbox and uploader (`sftp.rs`) | one SSH session per call; the remote directories `/out` and `/in` | `connect_session`, `list`, `download`, `delete`, `upload` | the platform |
| Submission state (`einvoice-state`) | transport progress, process results, terminal summary, revision | `advance_transport`, `apply_process_result`, `apply_summary_*`, `load`, `compare_and_swap` | the store, its caller |
| Result messages (`einvoice-results`) | none | `parse_reconciliation`, `validation_issues` | poller, submission state |
| Submit path (`native.rs`, `packed.rs`, `package.rs`, `gateway.rs`, `einvoice-client`, `einvoice-cli`) | the artifact file, a `PreparedSubmission` | `prepare`, `persist_artifact`, `submit`, `upload`, `notify` | SFTP, gateway, local file system |
| MIG messages (`einvoice-mig`), core types (`einvoice-core`) | none | lexical types, `F0401Invoice::new`, `validate`, `to_xml` | the caller that composes invoices |
| Envelope (`einvoice-envelope`) and message names (`filename.rs`) | none | routing, payload checks, `to_turnkey_xml`; file names parsed and rendered | client, CLI |
| Signing (`einvoice-signing`) and pack (`einvoice-pack`) | none | `PfxSigner::from_der`, attached CMS profile in BER, armor; `pack_and_sign` | client |

How they interact: the submit path hands an object and a notification to the
platform and nothing to anybody else; the poller calls the receiver for every
object of a listing and hands parsed records to its caller; the caller applies
them to the record of the submission through the store. The submit path, the
poller and the state layer share no memory: all that connects them is the
platform and the process that embeds them, which is not in the repository
(the CLI has `submit` and `receive` but no store). Concurrency is between
processes: receivers that share an inbox directory, `submit` commands, workers
that share a store.

What makes each part correct, and what is hard about it:

- **Receiver.** An object leaves `/out` only when the inbox holds it, whole and
  durable; what is published is never torn or replaced. Hard: crashes between
  any two steps, several processes (with equal pids, in containers) in one
  inbox, deletions whose answer is lost, power failures, names that come again.
- **Poller.** One bad object does not keep the others back; no record is handed
  out twice; what is handed out is saved. Hard: two pollers racing for one
  object, errors in the middle of a listing, progress beside an object that
  always fails.
- **Submission state.** A record never loses or contradicts what it was told,
  in whatever order and however often; a summary that does not add up never
  becomes terminal; concurrent writers lose nothing. Hard: stale reports,
  replays, conflicting summaries, 32-bit sums, writes of unknown effect.
- **Submit path.** The artifact is on file before anybody hears of it; the
  gateway is told only of whole objects; an unknown outcome is not reported as
  a rejection. Hard: uploads that stop halfway, answers that are late or lost,
  retries, `--force-output`, numbers that are narrowed behind the upload.
- **SFTP session.** The password goes to nobody who has not shown a pinned host
  key; every call ends. Hard: hosts with several addresses, servers that fail or
  change between two steps of the session.
- **Formats on the way.** An invoice is rendered by one crate, wrapped by the
  next, signed, armored, zipped and named by others; the platform must find in
  the object exactly what the caller said, under the identity that the
  notification claims, with a signature that verifies. Hard: each format has
  its edges (escapes, line ends, BER lengths of 127 and 128, serials with a high
  bit, names with underscores, leap years, decimals with a sign) and no test
  covers the chain of them.

`PROJECT.json` lists every component with its status and every hazard at its
line.

## Modules

| Module | Models | Composes |
|---|---|---|
| `DurableReceiver` | `DurableReceiver::receive`, its `IncomingFile` and inbox, with crashes and power failures | |
| `ReconciliationPoller` | `ReconciliationPoller::poll_once` and the record load | `DurableReceiver` |
| `ResultMessages` | the counts of a `SummaryMessage` and `validation_issues`, with 32-bit arithmetic | |
| `SubmissionRecord` | the operations of the record as functions | `ResultMessages` |
| `Submission` | one record that is told events, one at a time: the abstract specification of the state layer | `SubmissionRecord` |
| `SubmissionStore` | workers that load, apply and compare-and-swap | `SubmissionRecord`; implements `Submission` |
| `NativeSubmit` | the submit command and `PreparedSubmission::submit`, the gateway and the queue | |
| `MachineIntegers` | two's complement integers of `2 * Half` values | |
| `XmlText` | escapes, tokens of documents, reading them back; line normalisation | |
| `MessageNames` | `filename.rs` and `classify_remote_name` | `MachineIntegers`, `XmlText` |
| `MigPrimitives` | dates, times, decimals and codes of `primitives.rs` | |
| `F0401` | `f0401.rs`: `new`, the two layers of `validate`, `to_xml` | `MigPrimitives`, `XmlText` |
| `Envelope` | `einvoice-envelope` and `to_turnkey_xml` | `XmlText` |
| `CmsSigning` | `einvoice-signing`: PFX checks, BER, armor | |
| `SubmissionPlan` | the plan of CLI and client, `validate_plan`, `pack_and_sign`, checks of `packed.rs`, the object of `package.rs`, PFS001 | `Envelope`, `CmsSigning`, `MessageNames` |
| `ResultDocuments` | `einvoice-results`: both result messages from their XML | `XmlText`, `MachineIntegers` |
| `SftpSession` | `connect_session` of `sftp.rs` | |
| `PlatformReader` | external: any reader of the formats, and how the platform writes results | `SubmissionPlan`, `F0401`, `ResultDocuments` |
| `FullChain` | one invoice to the platform and its result back | `PlatformReader`, `SftpSession` |
| `PollerProofs` | theorems of the receiver and the poller | `ReconciliationPoller` |
| `RecordProofs`, `SubmissionProofs`, `StoreProofs` | theorems of the record, of the abstract submission, of the store and its refinement | |
| `NativeSubmitProofs` | theorems of the submit command: without hypotheses; and without force, power failures and retries | |
| `TextProofs` | lemmas about texts: induction, splitting, joining, numbers, names | `MessageNames` |
| `ReadBackProofs` | lemmas about the formats: what is written is read back, whatever it is | `PlatformReader`, `TextProofs` |
| `FullChainProofs` | theorems of the chain and its sessions | `FullChain`, `ReadBackProofs` |
| `MC...` | instances for TLC | |

A definition whose comment begins "Mutant of X" is what a plausible bug would
make of X. Nothing uses it; the `mutants` of `PROJECT.json` put it in the place
of X to see that the named property notices.

### DurableReceiver

One program counter per receiver process follows `receive` (receiver.rs:187):

| Action | Code |
|---|---|
| `Begin` | the call, `validate_remote_name` |
| `CreateTemp`, `CreateFails` | one turn of the loop of `IncomingFile::create`: `create_new` on the next `<pid>-<id>` |
| `Download`, `DownloadFails` | `RemoteInbox::download` into the file; a stream may end early without an error |
| `SyncTemp` | `flush_and_sync` and the two size checks |
| `Publish` | `hard_link`, which is atomic and refuses an existing name |
| `SyncDirectory` | `sync_parent_directory` |
| `Compare` | `files_equal` on the AlreadyExists branch |
| `Delete`, `DeleteFails` | `RemoteInbox::delete`; it may take effect and still report an error |
| `Drop` | `IncomingFile::drop`, which ignores the error of the unlink |
| `LocalIoFails`, `Crash`, `PowerLoss`, `Start`, `Post` | errors and the environment |

The published entries have two images: `inbox`, what processes see, and `disk`,
what the last directory fsync made durable. A file's content is a body, how much
of it was written, and whether it was fsynced. Power failures choose, for every
entry that is newer than `disk`, whether it survived, and cut data that was
never fsynced. All receivers share one inbox; a process id may be shared too.

### ReconciliationPoller

`poll_once` is `ListOut`, then per object `ReceiveNext`, the steps of `receive`
(`Receiving`), and one of `RecordReceiveError`, `Load` and `LoadFails`, which
record the attempt; `ReturnAttempts` hands the attempts over. A listing that
fails changes nothing and is a stutter. `sftp.rs` sorts what `read_dir` answered
by name (sftp.rs:367); `Listings` is that sequence, as the only member of a set.
Which names are results and which bodies parse is given by constants here;
`FullChain` has the parsing itself.

### ResultMessages, SubmissionRecord, Submission

Counts are two's complement numbers of `2 * Half` values (`Half = 2^31` in the
code). `WrappingSum` is the sum of a release build; with `OverflowChecks`
(debug and test builds) a sum that overflows panics, which leaves the record as
it was. Each operation is a function from a record and its argument to the
record it leaves and the variant it returns. Fields that are only compared for
equality are represented by invoice lists and one diagnostics value. The
message id of a record is the constant `MessageId`; events about others are
among the inputs.

### SubmissionStore

The store is the trait with its documented contract (`None` means create-only,
a matching revision is replaced and advanced, anything else is a conflict) as
`MemoryStore` of the tests implements it. The loop around it - load, apply,
compare-and-swap, load again on a conflict - belongs to callers and is marked
external. A write may fail with or without effect (`WriteUnknown`), a worker may
die at any step, an event may come again.

### NativeSubmit

| Action | Code |
|---|---|
| `Prepare` | `prepare_submission`: `validate_plan` on the counts, signing (each signing makes another artifact) |
| `OpenArtifact`, `WriteArtifact`, `SyncArtifact`, `PersistFails` | `persist_artifact`: `create_new`, or create and truncate with `--force-output`; write; `sync_all` of the file, not of its directory |
| `Configure` | reading the transport password, building the clients |
| `Check` | `submit_pack_artifact`, `prepare_upload_object` (20 MiB) |
| `CreateRemote`, `SendChunk`, `CloseRemote`, `UploadFails` | `Ssh2SftpUploader::upload`; creating truncates |
| `Notify`, `Answered`, `NotifyFails` | `to_pfs001_json` and `Pfs001HttpClient::notify`; a command that gave up leaves its request behind, which the gateway may still handle |
| `Retry` | the holder of a `PreparedSubmission` calls `submit` again |
| `Handle`, `Lose`, `Process`, `Crash`, `PowerLoss` | gateway, network, platform, processes, machine |

One name stands for the remote object and for the local artifact: every
submission has an `--output` of its own. With `--force-output` the model has one
command (`ForceAssumption`); two would mix their writes. The `prepare` command
is a submit that ends at `Configure`. ZIP only changes the bytes of the object
and is left to `FullChain`.

### FullChain and the formats

`tests/full_chain.rs` of `einvoice-client` walks one invoice through every crate.
`FullChain` is that walk over all requests of an instance and all failures of
its sessions. A chain stops at its first error, whose variant is `outcome`.

| Action | Code |
|---|---|
| `ComposeInvoice` | the newtypes of the fields, `F0401Invoice::new`, `validate`, `to_xml` |
| `PackageByCli` | `prepare` of the CLI: secret from the environment, `PfxSigner::from_der`, `build_submission_plan`, `prepare_submission` |
| `PackageByClient` | a caller of the library, whose envelope and file name (`from_parts`) come from different places, and `prepare_submission` |
| `ReadFails` | a file of the CLI cannot be read |
| `BeginUpload` | `submit_pack_artifact`, `prepare_upload_object`, and the call of `connect_session` |
| `InSession` | the steps of a session, below |
| `Upload` | the object is written and closed, and the session dropped |
| `Notify` | `to_pfs001_json`, and the outcomes of `Pfs001HttpClient::notify` |
| `PlatformAnswers` | external: a result appears in `/out` |
| `BeginDownload`, `Download` | a session for `download`; `classify_remote_name`, `parse_reconciliation` |

The steps of `SftpSession` follow `connect_session`: `Resolve`, then for each
address `AddressRefused` or `Connect`, `NoAddress` when none is left, then
`Handshake`, `VerifyHostKey`, `Authenticate`; `SessionFails` is an error or a
time-out of libssh2 at any of them, `Close` the drop of a session that did its
work. `told` remembers who was sent the password.

Three conventions keep the formats short. A parser is two operators, one for the
error it returns (`"Ok"` when it returns none) and one for the value that it
returns otherwise. A text is a sequence of characters, in which a character
outside ASCII is `"wide"` and octets that are not UTF-8 are `NotUtf8`; a document is a
sequence of characters and of tags, which are pairs such as `<<"start", "MIG">>`;
octets are pairs of `"octet"` and their value, octets nobody looks into (a
certificate, a signature) are one marker each, and the first character of a
group of base64 carries the octets of the group. Fields are records, and an
absent optional field is not in the DOMAIN.

`PlatformReader` does not invert the writers: it takes lengths and tags of BER as
X.690 defines them, lines of base64 as RFC 4648 does, elements and line ends as
XML does. It shares two things with the writers, the character tables and the
names of the elements of F0401; a misspelt element is therefore not something
that the model can notice.

## Runs

| Run | Bounds | What it shows |
|---|---|---|
| `receiver_reuse` | two receivers, two names (one unsafe), two bodies of one size, names used again, power failures | `DeletesOnlyCopied`, with the exception named below, and `PublishedNeverReplaced` |
| `receiver_already` | one receiver, one object | violation of `DeletesOnlyDurable` (see Findings) |
| `poller_listing` | one poller, two names of which one is a result, an empty and a malformed body, power failures | `PollTypeOK`, `EveryObjectAttempted`, `PublishedIntact`, `PersistedIsDurable`, the refinement `Spec` of DurableReceiver, and `OutDrained` |
| `poller_shared` | two pollers, two pids that both may have, one name, two bodies of one chunk (one malformed), two temporary ids, one leftover | `HandedAtMostOnce`, `HandedIsSaved`, and of the receivers below `TypeOK`, `AcceptedNeverLost`, `TempsExclusive`: every posted object is in `/out` or whole in the inbox, and running receivers have temporary files of their own |
| `submission` | counts -4..3 that wrap around, quantities 0, 1, 2, 3 and 6, every summary over these with and without lists, process results, ambiguous and foreign results | `TypeOK`, `TerminalTruthful`, `NoReplayListed`, `OrderIrrelevant`, `RecordOnlyGrows` |
| `store` | two workers, a build with overflow checks, one creation with quantity 2, a report, process results, summary results | `TypeOK`, `AckedStaysTold`, `RevisionNamesRecord`, the refinement `AtomicSpec` of Submission, and `TasksEnd` |
| `submit_shared` | two commands, two submissions and one that does not add up, two artifacts of different length | `QueuedWhole`, `ReportsTrue`, `ArtifactOutlivesUpload` |
| `submit_force` | one command with `--force-output`, retries and power failures, three artifacts, numbers at and beyond `Int32Max = 3` | `DurabilityBoundary`, `UploadsNotifiable`, `TypeOK` |
| `submit_retry` | one command that retries | violation of `QueuedWhole` |
| `submit_power` | one command, power failures | violation of `ArtifactOutlivesUpload` |
| `full_chain` | five servers (`good`, `twin` with the same key, `wrong`, `mute` without a key, `dead`), five resolutions, 384 requests, four results | `TypeOK`, `CalendarExact`, `WholeTaxAmounts`, `InvoiceReadBack`, `SignatureHolds`, `NotifiedAsUploaded`, `OneIdentity`, `NameRightAnchored`, `SecretsToKnownHost`, `ResultReadBack`, `SessionEnds` |
| `envelope_declaration` | one request whose second payload begins with a byte order mark | violation of `NoDeclarationInside` |

Why the bounds are enough to meet the interesting cases: two receivers show
every pairwise race on an object and on a temporary name, and each of them
starts over any number of times; `TempIds = 2` makes the counter wrap and
`MaxLeftovers = 1` puts a dead process's file in its way; sizes 0, 1 and 2 are an
empty object, a whole one and one that can be cut short. `Half = 4` has sums
that wrap around to a valid count and sums that do not. Two workers show every
conflict of a compare-and-swap; a third would only be one more writer of a new
revision. A remote object of two chunks can be torn in the middle.

The requests of `full_chain` vary one dimension at a time around the invoice of
`tests/full_chain.rs`, because the formats look at one dimension each: the last
days of all months in a leap year, a common year and two century years; every
tax amount of up to three of the characters `- + . 5` and those at 20 and 21
digits; remarks with every pair of special characters, and of every length from
0 to 47, so that the last line of the armor has every length; an invoice with
all its optional fields; invoices without items, with too many, with bad texts;
keys whose signatures have 70, 127, 128, 129, 255 and 256 octets, and serials
that are empty, start with zeros or have the high bit set; names with
underscores, with too few parts, with counts that are signed, zero or beyond 32
bits; a second payload that is empty, not UTF-8, or has a declaration; plans of
a client in which what is said twice differs, and two whose message type brings
a hyphen along, so that the rendered name has other parts than it was made of:
`from_parts` parses what it renders and so cannot give such a name. `MaxSignedSource = 1179` (20 MiB
in the code) is the size of the largest invoice that goes through, the one with
all its fields, and less than that of one with a remark of 200 characters;
`MaxPayloads = MaxProductItems = 2` (1000 and 9999) are passed by the requests
with three; `Half = 4096` has a pack count, 4096, that is no `i32`. Between them
the requests and the failures of the network end in every error of the chain but
five: an empty known_hosts file (`HostKeyNotFound`), a pack without payloads,
numbers that do not fit behind checks that make them fit (`IntegerOutOfRange`),
and texts of results that are not UTF-8 or not results.

In `receiver_reuse` the names of the platform come again, which shows two limits
of `receive`; names that carry a UUID meet neither.

- `DELETE` names a path, not a content (receiver.rs:241). Two receivers have
  downloaded an object; one deletes it, the platform posts another one under the
  freed name, and the deletion of the second receiver removes that one unread,
  while the inbox holds the first. `DeletesOnlyCopied` therefore says two things
  of a receiver that deletes: the inbox holds the whole of what it downloaded,
  always; and what it deletes is what it downloaded, unless names are used again
  and there is another receiver. With names used once, or with one receiver, the
  object that goes is always the one that was saved, which the theorem below
  covers.
- Its contents have one size on purpose. When a name is used again for content
  of another size *and* the power fails, a size from a stale listing and a
  download that was cut to that very size pass the check, and what is saved and
  deleted is a part of the object. The theorem makes this hypothesis explicit
  (`OneSize`).

Deadlock is checked in every run but the two of `FullChain`, where a chain that is
done stops.

### Fairness

`OutDrained` assumes that the receive command is run again and again and that a
running process keeps running (`WF` of `StartPoller` and `Progress` of each
receiver): `poll_once` has no waits but I/O, which sftp.rs bounds with timeouts.
Nothing is assumed of the platform, of crashes or of power; the property only
speaks of behaviours in which errors stop for good. `TasksEnd` assumes that a
worker which has a task goes on with it (`WF` of `Progresses`). `SessionEnds`
assumes that a session takes steps (`WF` of `ConnectSession`): sftp.rs gives each
connection attempt a `connect_timeout` and the session a time-out of its own, so
that every wait for the network ends with an answer or with an error. Nothing is
assumed of the callers, of the gateway or of the platform. No other property
depends on fairness.

## Findings

1. `receiver_already` - `receive` deletes the remote object on the AlreadyExists
   branch (receiver.rs:226) without a directory fsync. A call that linked the
   file and failed before `sync_parent_directory` leaves an entry that is not
   durable, and the retry deletes the object; receiver.rs:37 promises "after a
   durable local copy is known to exist".
2. `submit_retry` - `submit` uploads before it notifies, and creating the remote
   file truncates it (sftp.rs:262). Submitting again after a notification of
   unknown outcome truncates the object of a job that may be queued;
   `einvoice-client/src/lib.rs:58` calls that retry safe.
3. `submit_power` - `persist_artifact` does not fsync the directory of the file
   it creates (main.rs:514), so a power failure can lose the only copy of an
   artifact that the platform has; main.rs:159 calls the destination durable.
4. `envelope_declaration` - `to_turnkey_xml` looks for an XML declaration behind
   `trim_start` (wire.rs:100), for which a byte order mark is not white space. A
   payload of a byte order mark and a declaration is accepted, and the
   declaration is signed and uploaded in the middle of a document, where XML
   allows none; wire.rs:59 says that such payloads are errors.

## Proofs

TLAPS proves, for every value of the constants that satisfies the named
assumptions of the modules:

**PollerProofs** on the receiver (any number of receivers, names, bodies, pids).
`TypeCorrect`; `TempFilesSafe` (`TempsExclusive`); `PublishedFilesIntact`
(`PublishedIntact`, if names are used once); `OwnPublicationDurable`
(`PersistedIsDurable`); `NoClobber` (`PublishedNeverReplaced`);
`NoDeleteWithoutCopy` (`DeletesOnlyCopied`, if names are used once, or if all
contents that are not empty have one size);
`NothingLost` (`AcceptedNeverLost`, if names are used once and the power does not
fail). None of the safety properties is inductive: that a deletion is safe rests
on what the receiver checked many steps before. The argument has layers, each
an invariant proved with the one below it: types and the ownership of temporary
files (a receiver inside `receive` owns a file that exists and that nobody else
owns); then, per program counter, what the receiver knows about its file (that
it was fsynced, that it has the advertised size, that the published file is that
file or equals it); then that whatever a temporary or published file holds is a
prefix of what was posted under its name, which needs that a name has one
content. Where names come again the last layer is another one, `Measured`: a download of
the advertised size is whole because there is only one size, and what a receiver
that works alone downloaded is still in `/out`. The hypotheses `~NameReuse`,
`OneSize` and `~PowerMayFail` appear in the theorems that need them and only
there.

**PollerProofs** on the poller (any number of pollers, names, bodies). `PollsAreReceives`: every
step of a poll is a step of `DurableReceiver` or leaves it alone, because a poller
only receives objects that a listing showed; so all the theorems above hold of
the pollers. `PollTypeCorrect`. `BadObjectsHoldNoneBack` (`EveryObjectAttempted`):
the attempts, the object in hand and the queue are, place by place, the listing.
`RecordsHandedOnce` (`HandedAtMostOnce`, if names are used once): only a successful
deletion makes a poll hold a name, and once it is held the name is gone from
`/out` for good, so nobody else can come to hold it. `RecordsHandedAreSaved`
(`HandedIsSaved`, if also the power does not fail): whoever deletes has compared
or published the file, and published files stay.

**RecordProofs** (any width of the counts, any build). `ChecksExact`:
`validation_issues` accepts a summary exactly when it adds up over the whole
numbers - the wrapped sum of two non-negative numbers is negative when it
overflows, so it cannot equal a non-negative total. Then, for each operation,
that it maps a `Sound` record to a sound one that has grown (`AdvanceKeeps`,
`ProcessKeeps`, `SummaryKeeps`, `ApplyKeeps`), that a record which `Says` an
event says it however it grows (`SaysStays`), and which progress an operation
leads to.

**SubmissionProofs** (any quantities and events). With the record's soundness as
inductive invariant: `TypeCorrect`, `SummariesTruthful` (`TerminalTruthful`),
`ReplaysListedOnce` (`NoReplayListed`), `HistoryKept` (`RecordOnlyGrows`).
`OrderTellsNothing` (`OrderIrrelevant`): the progress of a record is the highest
that its events imply, its results are those it was told, its summary is the
one it accepted; a stronger invariant accounts for each of the three by the
events told so far, in which their order does not appear.

**StoreProofs** (any number of workers). `WorkersImplementSubmission`: `Spec`
implies `AtomicSpec`, the specification of `Submission` under the mapping of row
to record. The inductive invariant `StoreInv` says that whatever a worker loaded
is the row or an older version that the row has grown from, that equal
revisions are equal records, that a draft is the outcome of the worker's task on
what it loaded, and that acknowledged events stay said. A successful
compare-and-swap then writes the outcome of one event on the row itself. From
the same invariant `TypeCorrect`, `RevisionsAreNames` (`RevisionNamesRecord`) and
`NoLostUpdate` (`AckedStaysTold`).

**NativeSubmitProofs** (any commands, plans, artifacts; with force, retries and
power failures as the constants allow). `TypeCorrect`; `BoundaryKept`
(`DurabilityBoundary`); `UploadsCanBeNotified` (`UploadsNotifiable`). The
invariant says at each place of the command what it knows: from opening its
artifact file on it alone holds it, from writing on the file is whole, behind
the checks the numbers fit 32 bits.

For commands without `--force-output` and without power failures, `ArtifactKept`
(`ArtifactOutlivesUpload`): whatever the platform has of a name, or will have from a request on its way, is in the artifact file, which `create_new`
never lets anybody open again. Without retries also `QueueKeptWhole`
(`QueuedWhole`) and `ReportsAreTrue` (`ReportsTrue`): a name is announced at most
once, and only when its object was whole. Findings 2 and 3 show that the
hypotheses are needed.

**FullChainProofs** (any requests, servers, keys, addresses, limits).
`PasswordStaysHome` (`SecretsToKnownHost`): the server that is shaken hands with is
the one that is verified and the one that is told. `TypeCorrect`: every error of
every step is an outcome, and a chain is done exactly when it has one.

The properties of the data that goes through a chain rest on one inductive
invariant, `ChainInv`. Besides the types it has four layers: a session only runs
in a stage that opened it (`Busy`); the issues and the XML are those of the invoice
that was asked for, at every later stage (`Composed`); the package says the type,
the version, the parties and the count once, under a name that some text parsed
to (`PackedAs`); the object and the notification are those of the one package
(`Transported`). None of the properties is inductive without them: what the
notification says is settled when the name is parsed, five stages before.

- `CalendarIsExact` (`CalendarExact`): the table of `is_calendar_date` with its
  leap-year rule accepts exactly the days that a count of days (Julian day
  numbers) knows, for every year.
- `TaxAmountsAreWhole` (`WholeTaxAmounts`): of every text, what passes the newtype
  and then `check_decimal` is a whole number of one to twenty digits, and no such
  number is refused.
- `NamesAreRightAnchored` (`NameRightAnchored`): a name with any number of
  underscores is split at its last four, and what is rendered of the parts parses
  to the same parts, for the common name with its nine hyphenated pieces and for
  a count written as `+01`.
- `NotificationsTell` (`NotifiedAsUploaded`): PFS001 names the object that was
  uploaded, its size and its compression; its type and version are those of the
  name; the name inside a zip of the command line gives the parties and the count
  that the platform is told.

`ResultsReadBack` (`ResultReadBack`) adds the invariant `Answered`: what waits in
`/out` of the platform is the document of a result of the environment under a
name of its kind. The rest is that the two deserializers of `einvoice-results`
find in that document every field, list and count that the platform wrote, and
no more, for results of any size; that is a lemma of `ReadBackProofs`.

`SignaturesHold` (`SignatureHolds`) adds the invariant `Written`: a package that was
prepared carries the armored, signed rendering of some document under an
identity that `PfxSigner::from_der` accepted. What it says of the armor and of
the BER is for any document, certificate, serial and signature, whatever their
lengths: lines of base64 without their ends are the base64 text, and a reader of
X.690 that steps through the definite and indefinite values of the message finds
the content, the certificate, the issuer and the serial, the algorithm and the
signature at the places where RFC 5652 has them.

`InvoicesReadBack` (`InvoiceReadBack`) and `IdentityIsOne` (`OneIdentity`) add the
invariant `Planned`: what is packaged is the XML of the invoice that was asked
for, and a prepared submission is that of the plan of the request, whose envelope
has the invoice and the other files as its payloads. `EnvelopeOfRequest` goes
from an uploaded object through armor and message to that envelope. The rest is
a reader of XML (`EnvelopeReadBack`): line ends are normalised part by part
(`LineEndsCat`, `NormalizedText`); every part that `to_xml` and `to_turnkey_xml`
write shows its nodes, an optional one none or one (`InvoiceShown`, `PartyShown`,
`PackShown`, `EnvelopeShown`); and what reads as one document by itself reads as
the same element inside of any other (`ReadAnywhere`), which is what splicing a
payload in (wire.rs:82) depends on. Their hypotheses speak of the request alone:

- `OthersAreDocuments`: every file that is submitted beside the invoice reads as
  one element, and its tag is none of the attributes of a pack. The code looks at
  such a payload for emptiness, UTF-8 and a declaration only; of one that is not
  well-formed nothing could be said. That the invoice itself is such a document
  is proved (`InvoiceDocument`), for every invoice.
- `NoReturns` (`IdentityIsOne` only): the parties, routes, descriptions and the
  message type have no carriage return. A reader of XML has to turn it into a line
  feed, while the JSON of the notification keeps it.
- `NoBars` (`IdentityIsOne` only): a client that builds a `TurnkeyPackFilename` of its
  public fields puts no `_` in the two parties and the common name. The rendered
  name is split from the right, and would be split elsewhere. For the command
  line, whose name was parsed, this needs no assumption.

Every request of the instance that comes to its notification fulfils all three,
those of the command line with no, one or two other files and those of a client,
so the theorems cover what the run checks. `InvoiceReadBack` needs neither of the
last two: carriage returns in an invoice are compared as XML reads them.

Requests are assumed to consist of values of the code's types
(`RequestAssumption`: fields of an invoice, texts, an `i32` count, two modes of a
zip, identities as OpenSSL hands them out - `IsPfx`), and TLC evaluates that
assumption in both runs of `FullChain`.

**ReadBackProofs** has what these four need about documents, octets and lines.
Of XML: what is read of the tokens of a text is the text (`ReadsText`), of an
element its tag around what is read of its content (`ReadsElement`), of a list of
elements the list (`ReadsList`); from these, by the structure of the two results,
`ProcessRead` and `SummaryRead`. Of BER: a length of any size is read as it was
written (`LengthReadBack`, in one octet below 128, else in as many as it needs);
`IsValue` says that a reader who starts at a value finds its end, wherever the
value lies, and is kept by definite (`TlvIsValue`) and indefinite
(`IndefiniteIsValue`) values; `SignedDataRead` puts the parts of a message
together. Of the armor: `ArmorReadBack`. And every document that is signed is a
sequence of tokens (`InvoiceIsSeq`, `EnvelopeIsSeq`). These are about the operators
of the writers and of `PlatformReader` as they stand; nothing is assumed of the
content but that it is a sequence. Invoices and envelopes, which have optional
parts, texts with line ends and spliced documents, are read at the end of
`FullChainProofs`, with the same lemmas.

**TextProofs** has what these need about texts of any length. The library states
induction with an operator for a parameter, which the provers cannot
instantiate; `NatInduct` and `SeqInduct` state it with a set instead, and follow
from the least counterexample, which the well-founded order of the numbers
provides. `FoldExists` shows that the folds of the community modules are defined
on every finite domain, and `RunOfFold` that they go through a text from left to
right; with these, `Split` and `Number` are characterised one character at a time
(`SplitAppend`, `NumberAppend`), `DecimalDigits` by its equation
(`DecimalUnfolds`). Then: splitting what was joined gives the pieces (`SplitOfJoin`),
joining what was split gives the text (`SplitPieces`), a rendered number parses to
itself (`DecimalReadBack`), a common name and a pack filename that were read are
read again from what they render (`CommonNameRendered`, `NameReadBack`), and the
four last pieces are what is between the last four separators (`PartsAtMarks`).

Only model-checked:

- Liveness (`OutDrained`, `TasksEnd`, `SessionEnds`): fairness and ENABLED are
  beyond the provers.

These hold for the processes, objects and faults of the instances; the section on
bounds says how they were chosen. Every safety invariant and action property of
a passing run is stated by a theorem, under the hypotheses named above.

## Not modelled

- Library code: base64, ZIP, OpenSSL, quick-xml and serde, libssh2, the HTTP
  client, the JSON encoder. A signature is octets that verify under one public
  key; a ZIP archive is its one entry; a JSON body is a record.
- Layout: the indentation of documents, and characters that XML forbids.
- File names are ASCII: the lengths of their segments are counted in characters,
  as octets of ASCII are.
- Nothing in the code compares the type of a payload with the message type of
  its pack, so nor does the model: `OneIdentity` is about what the code
  compares.
- The catalog of message codes and `MessageCode`: no operation reads them.
  Argument syntax, output, URLs, the build and the container.
- Durable steps are in `NativeSubmit` and `DurableReceiver`, not in `FullChain`;
  sessions are in `FullChain`, and appear elsewhere only as the errors of the
  operations behind them. Neither changes what the other promises: a session has
  no effect on files, and a file none on sessions.
- A platform that overwrites an object in place: `Post` needs a free name. What
  happens when a name is freed by one receiver and used again while another one
  works on it is modelled (`receiver_reuse`).
- White space at the ends of texts in a result, which quick-xml may trim: what
  `ResultReadBack` says of texts is said of those that the parser hands over.
- Reading the inbox again after a crash, submitting an artifact that is on file,
  numbering retries: the code has no such steps. `PROJECT.json` lists what
  follows from that among the hazards.

## Plan

What could still be added, in this order:

1. `Delivery`: poller and store in one process, from the posted result to the
   terminal record, with a crash between the deletion from `/out` and the write
   to the store. The process that would embed both is not in the repository, so
   most of this composition would be external.
2. A second message type beside F0401 when the code gains one.
