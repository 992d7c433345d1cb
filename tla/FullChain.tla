------------------------------ MODULE FullChain ------------------------------
(***************************************************************************)
(* One invoice on its way to the platform and its result on the way back,  *)
(* as tests/full_chain.rs of crates/einvoice-client walks it: texts become *)
(* an F0401 invoice, which is validated and written as XML; the CLI, or a  *)
(* client of the library, packs and signs it; SFTP sessions upload it; the *)
(* gateway is notified; the platform reads the object and answers with a   *)
(* result message, which is downloaded and parsed.                         *)
(*                                                                         *)
(* What is durable on the way is in NativeSubmit and DurableReceiver; a    *)
(* chain here ends at its first error.                                     *)
(***************************************************************************)
EXTENDS PlatformReader, SftpSession

CONSTANTS
  Requests,     \* what callers ask for, see MCFullChain
  Environment,  \* the environment variables: passwords by name
  Credentials,  \* [login_id, login_password] of the gateway
  Resolved,     \* sequences of addresses that the host resolves to
  Verdicts(_)   \* results that the platform may give to a prepared submission

ASSUME ChainAssumption == Resolved \subseteq Seq(Servers)

\* Requests are made of values of the types that the code gives them.
ASSUME RequestAssumption ==
  \A r \in Requests :
    /\ IsF0401(r.invoice) /\ IsSubmissionArguments(r.args) /\ IsSubmissionPlan(r.plan)
    /\ IsPfx(r.pfx) /\ r.by \in {"cli", "client"}

VARIABLES
  request,    \* what the caller asks for
  stage,      \* what the chain does next
  outcome,    \* how it ended, or "running"
  issues,     \* of the texts, the schema and the semantics
  payload,    \* the XML of the invoice, a set of at most one
  prepared,   \* the PreparedSubmission, a set of at most one
  inbound,    \* the objects in `/in`: [name, bytes]
  wire,       \* the PFS001 bodies that the gateway accepted
  verdict,    \* the result that the platform gave, a set of at most one
  parsed      \* what parse_reconciliation made of it, a set of at most one

chainVars == <<request, stage, outcome, issues, payload, prepared, inbound, wire,
               verdict, parsed>>

vars == <<chainVars, sessionVars>>

Stages == {"invoice", "package", "upload", "notify", "platform", "download", "done"}

Outcomes ==
  {"running", "Issues", "NoProductItems", "TooManyProductItems", "EmptyPayload", "NoPayloads",
   "TooManyPayloads", "PayloadNotUtf8", "EmbeddedXmlDeclaration", "Io",
   "EmptySecretEnvironmentName", "MissingSecretEnvironment", "NonUnicodeSecretEnvironment",
   "OpenSsl", "MissingPrivateKey", "MissingCertificate", "MismatchedKeyPair",
   "UnsupportedPrivateKey", "InvalidPackCount", "QuantityMismatch", "InvalidFilename",
   "SourceTooLarge", "IntegerOutOfRange", "Request", "HttpStatus", "Decode",
   "GatewayRejected", "Xml", "Utf8", "None", "Received"}
  \cup FilenameErrors \cup PrepareErrors \cup Failures

TypeOK ==
  /\ SessionTypeOK
  /\ stage \in Stages
  /\ outcome \in Outcomes
  /\ (stage = "done") = (outcome # "running")
  /\ \A n \in {Cardinality(payload), Cardinality(prepared), Cardinality(inbound),
              Cardinality(wire), Cardinality(verdict), Cardinality(parsed)} : n <= 1

Init ==
  /\ request \in Requests
  /\ stage = "invoice" /\ outcome = "running"
  /\ issues = {} /\ payload = {} /\ prepared = {} /\ inbound = {}
  /\ wire = {} /\ verdict = {} /\ parsed = {}
  /\ SessionInit

\* Mutant of Stop: the chain stops and nobody is told why.
StopSilently(reason) == stage' = "done" /\ UNCHANGED outcome

Stop(reason) == stage' = "done" /\ outcome' = reason

Continue(next) == stage' = next /\ UNCHANGED outcome

-----------------------------------------------------------------------------
(* The invoice *)

\* MigDecimal::parse, called with facets that suit every field but the sign.
CallerFacets == Facets(20, 7, FALSE)

TextIssues(part, item, rec, fields, Accepts(_)) ==
  {<<part, item, f, "Text">> : f \in {g \in fields \cap DOMAIN rec : ~ Accepts(rec[g])}}

\* The newtypes of the fields are parsed one by one.
UnreadableTexts(invoice) ==
  LET main       == invoice.main
      IsDecimal(text) == MigDecimal(text, CallerFacets) = "Ok"
  IN  TextIssues("Main", 0, main, {"invoice_number"}, IsInvoiceNumber)
      \cup TextIssues("Main", 0, main, {"invoice_date"}, IsMigDate)
      \cup TextIssues("Main", 0, main, {"invoice_time"}, IsMigTime)
      \cup TextIssues("Main", 0, main, {"npo_ban"}, IsBan)
      \cup TextIssues("Seller", 0, main.seller, {"identifier"}, IsBan)
      \cup TextIssues("Buyer", 0, main.buyer, {"identifier"}, IsBan)
      \cup TextIssues("Amount", 0, invoice.amount, {"currency"}, IsCurrencyCode)
      \cup TextIssues("Amount", 0, invoice.amount, DOMAIN AmountFacets, IsDecimal)
      \cup UNION {TextIssues("ProductItem", i, invoice.details[i], DOMAIN ItemFacets, IsDecimal) :
                  i \in DOMAIN invoice.details}

\* A caller builds the invoice, validates it and writes it as XML.
ComposeInvoice ==
  LET invoice == request.invoice
      texts   == UnreadableTexts(invoice)
  IN  /\ stage = "invoice"
      /\ IF texts # {} THEN Stop("Issues") /\ issues' = texts /\ UNCHANGED payload
         ELSE IF NewInvoice(invoice.details) # "Ok"
         THEN Stop(NewInvoice(invoice.details)) /\ UNCHANGED <<issues, payload>>
         ELSE /\ issues' = Validate(invoice)
              /\ IF Validate(invoice) # {} THEN Stop("Issues") /\ UNCHANGED payload
                 ELSE Continue("package") /\ payload' = {ToXml(invoice)}
      /\ UNCHANGED <<request, prepared, inbound, wire, verdict, parsed, sessionVars>>

-----------------------------------------------------------------------------
(* The package *)

Packaged(plan) ==
  IF PrepareError(plan) # "Ok" THEN Stop(PrepareError(plan)) /\ UNCHANGED prepared
  ELSE Continue("upload") /\ prepared' = {PrepareSubmission(plan, request.pfx)}

\* prepare of the CLI: the identity first, then the plan.
PackageByCli ==
  LET args == [request.args EXCEPT !.mig = SetToSeq(payload) \o @]
  IN  /\ stage = "package" /\ request.by = "cli"
      /\ IF SecretError(args.pfx_password_env, Environment) # "Ok"
         THEN Stop(SecretError(args.pfx_password_env, Environment)) /\ UNCHANGED prepared
         ELSE IF PfxFromDer(request.pfx) # "Ok"
         THEN Stop(PfxFromDer(request.pfx)) /\ UNCHANGED prepared
         ELSE IF PlanError(args) # "Ok" THEN Stop(PlanError(args)) /\ UNCHANGED prepared
         ELSE Packaged(BuildSubmissionPlan(args))
      /\ UNCHANGED <<request, issues, payload, inbound, wire, verdict, parsed, sessionVars>>

\* A client of the library makes the plan itself: its envelope and its file
\* name come from different places.
PackageByClient ==
  LET payloads == SetToSeq(payload) \o request.args.mig
      parts    == request.plan.filename.common_name
  IN  /\ stage = "package" /\ request.by = "client"
      /\ IF PfxFromDer(request.pfx) # "Ok"
         THEN Stop(PfxFromDer(request.pfx)) /\ UNCHANGED prepared
         ELSE IF NewEnvelope(payloads) # "Ok"
         THEN Stop(NewEnvelope(payloads)) /\ UNCHANGED prepared
         ELSE IF FromPartsError(parts) # "Ok"
         THEN Stop(FromPartsError(parts)) /\ UNCHANGED prepared
         ELSE Packaged([request.plan EXCEPT !.envelope.payloads = payloads,
                                            !.filename.common_name = FromParts(parts)])
      /\ UNCHANGED <<request, issues, payload, inbound, wire, verdict, parsed, sessionVars>>

\* A file of the CLI cannot be read.
ReadFails ==
  /\ stage = "package" /\ request.by = "cli"
  /\ Stop("Io")
  /\ UNCHANGED <<request, issues, payload, prepared, inbound, wire, verdict, parsed,
                 sessionVars>>

-----------------------------------------------------------------------------
(* The network *)

\* submit_pack_artifact and prepare_upload_object, before any session.
BeginUpload ==
  /\ stage = "upload"
  /\ \E p \in prepared :
       IF UploadError(p) # "Ok" THEN Stop(UploadError(p)) /\ UNCHANGED sessionVars
       ELSE (\E r \in Resolved : Resolve(r)) /\ UNCHANGED <<stage, outcome>>
  /\ UNCHANGED <<request, issues, payload, prepared, inbound, wire, verdict, parsed>>

\* A session goes on; when it fails, so does the call.
InSession ==
  /\ ConnectSession
  /\ IF failure' # "none" THEN Stop(failure') ELSE UNCHANGED <<stage, outcome>>
  /\ UNCHANGED <<request, issues, payload, prepared, inbound, wire, verdict, parsed>>

\* The object is created, written, flushed and closed.
Upload ==
  /\ stage = "upload" /\ Close
  /\ \E p \in prepared :
       LET object == PrepareUploadObject(p)
       IN  inbound' = {[name |-> object.remote_filename, bytes |-> object.uploaded_bytes]}
  /\ Continue("notify")
  /\ UNCHANGED <<request, issues, payload, prepared, wire, verdict, parsed>>

\* notify: the body is encoded and posted, and the answer is decoded.
Notify ==
  /\ stage = "notify"
  /\ \E p \in prepared :
       LET notification == UploadNotification(p)
       IN  IF EncodeError(notification) # "Ok"
           THEN Stop(EncodeError(notification)) /\ UNCHANGED wire
           ELSE \/ /\ wire' = {ToPfs001Json(notification, Credentials)}
                   /\ Continue("platform")
                \/ /\ \E error \in {"Request", "HttpStatus", "Decode", "GatewayRejected"} :
                        Stop(error)
                   /\ UNCHANGED wire
  /\ UNCHANGED <<request, issues, payload, prepared, inbound, verdict, parsed, sessionVars>>

-----------------------------------------------------------------------------
(* The result *)

\* The platform has worked off the notification and puts a result in `/out`.
PlatformAnswers ==
  /\ stage = "platform"
  /\ \E p \in prepared : \E v \in Verdicts(p) \cap Results : verdict' = {v}
  /\ Continue("download")
  /\ UNCHANGED <<request, issues, payload, prepared, inbound, wire, parsed, sessionVars>>

BeginDownload ==
  /\ stage = "download"
  /\ \E r \in Resolved : Resolve(r)
  /\ UNCHANGED chainVars

ResultXml(v) == IF v.kind = "SummaryResult" THEN SummaryXml(v.value) ELSE ProcessXml(v.value)

ResultName(v) == MigVersion \o <<"-">> \o NameSuffixes[v.kind]

\* The object is read to its end, classified by its name, and parsed.
Download ==
  /\ stage = "download" /\ Close
  /\ \E v \in verdict :
       LET kind  == ClassifyRemoteName(ResultName(v))
           error == ParseError(kind, ResultXml(v))
           root  == ReadXml(ResultXml(v))[1]
       IN  IF error = "Ok"
           THEN /\ Stop("Received")
                /\ parsed' = {[kind  |-> kind,
                               value |-> IF kind = "SummaryResult" THEN SummaryResultOf(root)
                                         ELSE ProcessResultOf(root)]}
           ELSE Stop(error) /\ UNCHANGED parsed
  /\ UNCHANGED <<request, issues, payload, prepared, inbound, wire, verdict>>

-----------------------------------------------------------------------------
(* Specification *)

Next ==
  \/ ComposeInvoice \/ PackageByCli \/ PackageByClient \/ ReadFails
  \/ BeginUpload \/ InSession \/ Upload \/ Notify
  \/ PlatformAnswers \/ BeginDownload \/ Download

\* A session makes progress: connect_timeout and the time-out of the session
\* bound each wait for the network.
Spec == Init /\ [][Next]_vars /\ WF_sessionVars(ConnectSession)

-----------------------------------------------------------------------------
(* Properties *)

\* A Gregorian date, by the number of days up to it.
DayNumber(year, month, day) ==
  LET a == (14 - month) \div 12
      y == year + 4800 - a
  IN  day + (153 * (month + 12 * a - 3) + 2) \div 5 + 365 * y
        + y \div 4 - y \div 100 + y \div 400

OnCalendar(date) ==
  LET first == DayNumber(Year(date), Month(date), 1)
      next  == IF Month(date) = 12 THEN DayNumber(Year(date) + 1, 1, 1)
               ELSE DayNumber(Year(date), Month(date) + 1, 1)
  IN  first + Day(date) - 1 < next

\* The texts could be read, F0401Invoice::new returned an invoice, and it was
\* validated.
Validated ==
  /\ stage # "invoice" /\ outcome \notin {"NoProductItems", "TooManyProductItems"}
  /\ ~ \E i \in issues : i[4] = "Text"

\* validate finds exactly the dates that no calendar has (is_calendar_date
\* and is_leap_year of primitives.rs), whatever the year.
CalendarExact ==
  LET date == request.invoice.main.invoice_date IN
  Validated =>
    ((\E i \in issues : i[4] = "MIG_DATE_NOT_GREGORIAN") = ~ OnCalendar(date))

\* A tax amount gets as far as XML only if it is a whole number of at most
\* 20 digits, and no such number is refused: what the first parse lets
\* through with looser facets, check_decimal of f0401.rs has to catch.
WholeTaxAmounts ==
  LET tax   == request.invoice.amount.tax_amount
      whole == Len(tax) \in 1 .. 20 /\ AllDigits(tax)
  IN  /\ payload # {} => whole
      /\ whole => ~ \E i \in issues : i[3] = "tax_amount"

\* What the notification points to, opened by any reader of the formats.
Opened == {ReadSignedData(DecodeArmor(o.bytes.bytes)) : o \in inbound}

\* The invoice that the platform finds in the object is the one the caller
\* built, field by field, after XML, line normalisation, the envelope, BER
\* and armor have each had it in their hands; line ends become line feeds.
InvoiceReadBack ==
  stage = "notify" =>
    \A s \in Opened :
      LET document == ReadXml(Normalized(s.content))
          messages == ReadEnvelope(document[1]).messages
      IN  /\ Len(document) = 1
          /\ Len(messages) = Len(request.args.mig) + 1
          /\ ReadInvoice(messages[1]) = InvoiceAsRead(request.invoice)

\* The signature in the object verifies with the certificate beside it, and
\* it names that certificate: "rejects a mismatched key/certificate pair"
\* and the profile of ber.rs, whatever the lengths and the serial number.
SignatureHolds ==
  stage = "notify" =>
    \A s \in Opened :
      LET certificate == request.pfx.certificate
      IN  /\ s.signature # <<>> /\ ToSet(s.signature) = {<<"key", certificate.public>>}
          /\ s.algorithm = <<<<"oid", SignatureAlgorithms[request.pfx.key.kind]>>>>
          /\ s.certificate = certificate.der
          /\ s.issuer = Body(certificate.issuer, 1, \h30)
          /\ Positive(s.serial)
          /\ Magnitude(s.serial) = Magnitude(certificate.serial)

Renamed(info, id) ==
  IF "description" \in DOMAIN info
  THEN [identifier |-> info[id], description |-> info.description]
  ELSE [identifier |-> info[id]]

\* "Returns EnvelopeSerializeError when a payload ... still contains an XML
\* declaration" (wire.rs), which may not appear inside an InvoicePack.
NoDeclarationInside ==
  stage = "notify" => \A s \in Opened : Declaration \notin ToSet(s.content)

\* The notification is of the object that was uploaded: its name, what the
\* name says of the messages, the size of the artifact and whether it is
\* zipped (UploadNotification, gateway.rs, and PreparedUploadObject, package.rs);
\* and the name of the entry of a ZIP file says the same of the submission.
NotifiedAsUploaded ==
  stage = "platform" => \A w \in wire, o \in inbound :
    LET common == CommonName(o.name)
        local  == PackFilename(o.bytes.entry)
    IN  /\ w.filename = o.name /\ CommonNameError(o.name) = "Ok"
        /\ w.zip = (IF o.bytes.zipped THEN "1" ELSE "0")
        /\ w.size = Len(o.bytes.bytes) /\ w.quantity > 0
        /\ w.messageType = common.message_type /\ w.migVersion = common.mig_version
        /\ o.bytes.zipped /\ request.by = "cli" =>
             /\ PackFilenameError(o.bytes.entry) = "Ok"
             /\ RenderCommonName(local.common_name) = o.name
             /\ local.from_party = w.transFrom.partyInfo.partyId
             /\ local.to_party = w.transTo.partyInfo.partyId
             /\ local.pack_count = w.quantity

\* The identity of a submission is said a third time in the envelope that
\* is signed: "an operator cannot accidentally sign one envelope while
\* notifying the platform under another message/routing identity" (client
\* lib.rs).
OneIdentity ==
  stage = "platform" => \A w \in wire, o \in inbound, s \in Opened :
    LET envelope == ReadEnvelope(ReadXml(Normalized(s.content))[1])
        Side(trans) == [party |-> Renamed(trans.partyInfo, "partyId"),
                        route |-> Renamed(trans.routingInfo, "routingId")]
    IN  /\ w.messageType = envelope.messageType
        /\ Decimal(w.quantity) = envelope.count
        /\ w.quantity = Len(envelope.messages)
        /\ Side(w.transFrom) = envelope.from /\ Side(w.transTo) = envelope.to
        /\ o.bytes.zipped => LET local == PackFilename(o.bytes.entry)
                             IN  /\ RenderCommonName(local.common_name) = o.name
                                 /\ local.from_party = envelope.from.party.identifier
                                 /\ local.to_party = envelope.to.party.identifier
                                 /\ local.pack_count = w.quantity

\* A name splits at its last four underscores.
SplitsAtLastFour(text, name) ==
  LET bars == {i \in DOMAIN text : text[i] = "_"}
      From(k) == CHOOSE i \in bars : Cardinality({j \in bars : j >= i}) = k
  IN  /\ name.source_name = SubSeq(text, 1, From(4) - 1)
      /\ name.from_party = SubSeq(text, From(4) + 1, From(3) - 1)
      /\ name.to_party = SubSeq(text, From(3) + 1, From(2) - 1)
      /\ RenderCommonName(name.common_name) = SubSeq(text, From(2) + 1, From(1) - 1)

\* "The parser is intentionally right-anchored because the original source
\* filename may itself contain underscores" (filename.rs); and what it made
\* of a name survives the rendering for the ZIP entry.
NameRightAnchored ==
  stage = "upload" /\ link = "closed" /\ request.by = "cli" => \A p \in prepared :
    /\ SplitsAtLastFour(request.args.filename, p.filename)
    /\ PackFilenameError(RenderPackFilename(p.filename)) = "Ok"
    /\ PackFilename(RenderPackFilename(p.filename)) = p.filename

\* Counts and lists of a result fit the types that they are parsed into.
Representable(detail) == detail.count \in Int32

\* What is parsed is what the platform said, in every field; only a count
\* that is no i32 keeps it from being parsed.
ResultReadBack ==
  stage = "done" =>
    \A v \in verdict :
      /\ outcome = "Received" => parsed = {v}
      /\ outcome = "Xml" =>
           /\ v.kind = "SummaryResult"
           /\ \E i \in DOMAIN v.value.messages :
                ~ \A b \in {"total", "good", "failed"} :
                    Representable(v.value.messages[i].result[b])

\* However many addresses a host has and whichever of them are down, every
\* call gets its session or its error.
SessionEnds == link # "closed" ~> link \in {"closed", "open"}
=============================================================================
