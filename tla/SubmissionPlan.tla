--------------------------- MODULE SubmissionPlan ---------------------------
(***************************************************************************)
(* From the arguments of a submission to the object and the notification   *)
(* that the platform gets: prepare and build_submission_plan of the CLI,   *)
(* prepare_submission of the client, pack_and_sign, submit_pack_artifact,  *)
(* prepare_upload_object and to_pfs001_json.  Each is an operator that     *)
(* says which error it returns ("Ok" when none) and one for its value.     *)
(***************************************************************************)
EXTENDS Envelope, CmsSigning, MessageNames

CONSTANT MaxSignedSource  \* MAX_SIGNED_SOURCE_BYTES, 20 MiB

ASSUME SourceAssumption == MaxSignedSource \in 0 .. 20 * 1024 * 1024

\* MigVersion::V4_1.as_str().
MigVersion == <<"4", ".", "1">>

-----------------------------------------------------------------------------
(* The CLI: arguments [filename, mig, from_vac, to_vac, descriptions,      *)
(* action, service, zip, pfx, pfx_password_env, api_version,               *)
(* turnkey_version] in an environment of secrets.                          *)

\* The texts among them.
IsSubmissionArguments(args) ==
  /\ {"filename", "mig", "from_vac", "to_vac", "descriptions", "action", "service", "zip",
      "pfx_password_env", "api_version", "turnkey_version"} \subseteq DOMAIN args
  /\ {args.filename, args.from_vac, args.to_vac} \subseteq Texts
  /\ args.mig \in Seq(Documents) /\ args.zip \in {"Plain", "Zip"}
  /\ \A who \in DOMAIN args.descriptions : args.descriptions[who] \in Texts

\* The SubmissionPlan of a client of the library, as far as texts and the
\* mode of the upload go.
IsSubmissionPlan(plan) ==
  LET common  == plan.filename.common_name
      routing == plan.envelope.routing
  IN  /\ {"envelope", "filename", "zip"} \subseteq DOMAIN plan
      /\ {"routing", "messageType", "payloads"} \subseteq DOMAIN plan.envelope
      /\ \A side \in {routing.from, routing.from_vac, routing.to, routing.to_vac} :
           \A f \in {"identifier"} \cup ({"description"} \cap DOMAIN side) : side[f] \in Texts
      /\ {"source_name", "common_name", "from_party", "to_party", "pack_count"}
           \subseteq DOMAIN plan.filename
      /\ {plan.filename.source_name, plan.envelope.messageType, common.mig_version,
          common.message_type, common.date, common.time, common.uuid} \subseteq Texts
      /\ plan.filename.pack_count \in Int32 /\ plan.zip \in {"Plain", "Zip"}

\* What a variable holds that is no Unicode.
NotUnicode == "not Unicode"

\* read_secret_environment.
SecretError(name, environment) ==
  IF name = "" THEN "EmptySecretEnvironmentName"
  ELSE IF name \notin DOMAIN environment THEN "MissingSecretEnvironment"
  ELSE IF environment[name] = NotUnicode THEN "NonUnicodeSecretEnvironment"
  ELSE "Ok"

\* A party or a route with the description it was given, if it was.
Party(identifier, who, descriptions) ==
  IF who \in DOMAIN descriptions
  THEN [identifier |-> identifier, description |-> descriptions[who]]
  ELSE [identifier |-> identifier]

\* The filename gives the parties, the message type and the count.
PlanError(args) ==
  IF PackFilenameError(args.filename) # "Ok" THEN PackFilenameError(args.filename)
  ELSE NewEnvelope(args.mig)

BuildSubmissionPlan(args) ==
  LET filename == PackFilename(args.filename)
      Of(identifier, who) == Party(identifier, who, args.descriptions)
  IN  [envelope |->
         [routing |-> [from     |-> Of(filename.from_party, "from"),
                       from_vac |-> Of(args.from_vac, "from_vac"),
                       to       |-> Of(filename.to_party, "to"),
                       to_vac   |-> Of(args.to_vac, "to_vac")],
          messageType |-> filename.common_name.message_type,
          payloads    |-> args.mig],
       filename |-> filename, service |-> args.service, zip |-> args.zip,
       action   |-> args.action,
       versions |-> [api |-> args.api_version, turnkey |-> args.turnkey_version]]

-----------------------------------------------------------------------------
(* prepare_submission *)

ValidatePlan(plan) ==
  LET routing == plan.envelope.routing
      common  == plan.filename.common_name
  IN  IF plan.filename.pack_count <= 0 THEN "InvalidFilenameCount"
      ELSE IF plan.filename.pack_count # Len(plan.envelope.payloads) THEN "CountMismatch"
      ELSE IF common.message_type # plan.envelope.messageType THEN "MessageTypeMismatch"
      ELSE IF common.mig_version # MigVersion THEN "MigVersionMismatch"
      ELSE IF plan.filename.from_party # routing.from.identifier THEN "FromPartyMismatch"
      ELSE IF plan.filename.to_party # routing.to.identifier THEN "ToPartyMismatch"
      ELSE "Ok"

\* The checks come before the signature, the serialization within it.
PrepareError(plan) ==
  IF ValidatePlan(plan) # "Ok" THEN ValidatePlan(plan)
  ELSE SerializeError(plan.envelope.payloads)

\* pack_and_sign.
PackAndSign(envelope, pfx) ==
  LET xml == ToTurnkeyXml(envelope)
  IN  [bytes         |-> ToTurnkeyArmored(SignAttached(pfx, xml)),
       envelope_size |-> Len(xml),
       algorithm     |-> SignatureAlgorithms[pfx.key.kind]]

\* gateway_party.
GatewayParty(party, route) == [party |-> party, route |-> route]

\* PreparedSubmission, with NativeSubmissionMetadata::initial.
PrepareSubmission(plan, pfx) ==
  LET routing == plan.envelope.routing
  IN  [filename |-> plan.filename,
       artifact |-> PackAndSign(plan.envelope, pfx),
       zip      |-> plan.zip,
       metadata |->
         [from     |-> GatewayParty(routing.from, routing.from_vac),
          to       |-> GatewayParty(routing.to, routing.to_vac),
          service  |-> plan.service,
          message  |-> [message_type |-> plan.envelope.messageType,
                        action       |-> plan.action,
                        quantity     |-> Len(plan.envelope.payloads),
                        mig_version  |-> MigVersion],
          retry    |-> 0,
          versions |-> plan.versions]]

PrepareErrors ==
  {"InvalidFilenameCount", "EnvelopeCountOutOfRange", "CountMismatch", "MessageTypeMismatch",
   "MigVersionMismatch", "FromPartyMismatch", "ToPartyMismatch"}

-----------------------------------------------------------------------------
(* submit_pack_artifact and prepare_upload_object *)

\* validate_basename and safe_remote_basename.
IsBasename(name) ==
  /\ name \notin {<<>>, <<".">>, <<".", ".">>}
  /\ ToSet(name) \cap {"/", "\\", "NUL"} = {}

UploadError(prepared) ==
  IF prepared.filename.pack_count <= 0 THEN "InvalidPackCount"
  ELSE IF prepared.filename.pack_count # prepared.metadata.message.quantity
       THEN "QuantityMismatch"
  ELSE IF ~ IsBasename(RenderPackFilename(prepared.filename))
          \/ ~ IsBasename(RemoteFilename(prepared.filename)) THEN "InvalidFilename"
  ELSE IF Len(prepared.artifact.bytes) > MaxSignedSource THEN "SourceTooLarge"
  ELSE "Ok"

\* zip_single_entry: an archive of one compressed entry.
ZipSingleEntry(name, bytes) == [zipped |-> TRUE, entry |-> name, bytes |-> bytes]

Plain(bytes) == [zipped |-> FALSE, entry |-> <<>>, bytes |-> bytes]

PrepareUploadObject(prepared) ==
  LET bytes == prepared.artifact.bytes
  IN  [remote_filename   |-> RemoteFilename(prepared.filename),
       uploaded_bytes    |-> IF prepared.zip = "Zip"
                             THEN ZipSingleEntry(RenderPackFilename(prepared.filename), bytes)
                             ELSE Plain(bytes),
       notification_size |-> Len(bytes)]

-----------------------------------------------------------------------------
(* The notification *)

\* UploadNotification, as NativeSubmitter::submit builds it.
UploadNotification(prepared) ==
  LET object == PrepareUploadObject(prepared)
  IN  [metadata |-> prepared.metadata, zip |-> prepared.zip,
       filename |-> object.remote_filename, size |-> object.notification_size]

\* checked_i32 of the three numbers.
EncodeError(notification) ==
  IF {notification.metadata.message.quantity, notification.size,
      notification.metadata.retry} \subseteq Int32 THEN "Ok" ELSE "IntegerOutOfRange"

\* WireTrans: a description that is None is no key.
WireTrans(party) ==
  LET Described(key, who) == [k \in {key} \cup ({"description"} \cap DOMAIN who) |->
                                IF k = "description" THEN who.description ELSE who.identifier]
  IN  [partyInfo   |-> Described("partyId", party.party),
       routingInfo |-> Described("routingId", party.route)]

ToPfs001Json(notification, credentials) ==
  LET m == notification.metadata
  IN  [loginId        |-> credentials.login_id,
       loginPassword  |-> credentials.login_password,
       transFrom      |-> WireTrans(m.from),
       transTo        |-> WireTrans(m.to),
       serviceType    |-> [Exchange |-> "E", Store |-> "S"][m.service],
       messageType    |-> m.message.message_type,
       action         |-> m.message.action,
       quantity       |-> m.message.quantity,
       migVersion     |-> m.message.mig_version,
       filename       |-> notification.filename,
       size           |-> notification.size,
       zip            |-> [Plain |-> "0", Zip |-> "1"][notification.zip],
       retry          |-> m.retry,
       apiVersion     |-> m.versions.api,
       turnkeyVersion |-> m.versions.turnkey]
=============================================================================
