--------------------------- MODULE PlatformReader ---------------------------
(***************************************************************************)
(* The other side, which is not part of the repository: how any reader of  *)
(* the formats takes an uploaded object apart, and how the platform writes *)
(* its results.  It follows the standards (ZIP, RFC 4648, X.690, RFC 5652, *)
(* XML) as tests/full_chain.rs of crates/einvoice-client uses them through *)
(* other libraries.  What cannot be read is the empty sequence.            *)
(***************************************************************************)
EXTENDS SubmissionPlan, F0401, ResultDocuments

-----------------------------------------------------------------------------
(* Base64 armor and BER *)

\* Lines of 64 characters, only the last one shorter, each ended by a line
\* feed; of each group of four characters the first one has its octets, three
\* of them in every group but the last.
IsArmored(text) ==
  /\ Len(text) % 65 # 1
  /\ \A i \in DOMAIN text : (text[i] = LineFeed) = (i % 65 = 0 \/ i = Len(text))

DecodeArmor(text) ==
  LET encoded == [k \in 1 .. Len(text) - (Len(text) + 64) \div 65 |->
                    text[k + (k - 1) \div 64]]
      groups  == Len(encoded) \div 4
      Octets(g) == encoded[4 * g - 3][2]
  IN  IF ~ IsArmored(text) \/ groups = 0
         \/ \E g \in 1 .. groups - 1 : Len(Octets(g)) # 3 THEN <<>>
      ELSE [i \in 1 .. 3 * (groups - 1) + Len(Octets(groups)) |->
              Octets((i + 2) \div 3)[((i - 1) % 3) + 1]]

ValueOf(octets, p) == IF octets[p][1] = "octet" THEN octets[p][2] ELSE 0

\* The number with these digits, as far as it is not more than `most`.
FromBigEndian(digits, most) ==
  FoldLeft(LAMBDA n, digit : IF n > most THEN n ELSE 256 * n + digit, 0, digits)

\* A definite value at p: how many octets its length has after the first one,
\* where its body begins, and where it ends; 0 is nowhere.
MoreOctets(octets, p) ==
  IF ValueOf(octets, p + 1) < 128 THEN 0 ELSE ValueOf(octets, p + 1) - 128

BodyFrom(octets, p) == p + 2 + MoreOctets(octets, p)

BodyLength(octets, p) ==
  IF ValueOf(octets, p + 1) < 128 THEN ValueOf(octets, p + 1)
  ELSE FromBigEndian([k \in 1 .. MoreOctets(octets, p) |-> ValueOf(octets, p + 1 + k)],
                     Len(octets))

BodyEnd(octets, p) ==
  IF /\ BodyFrom(octets, p) <= Len(octets) + 1
     /\ BodyFrom(octets, p) + BodyLength(octets, p) \in p + 2 .. Len(octets) + 1
  THEN BodyFrom(octets, p) + BodyLength(octets, p) ELSE 0

\* An indefinite value at p; its tag is that of a constructed one.
IsIndefinite(octets, p) ==
  octets[p] \in {Octet(\h30), Octet(\h31), Octet(\ha0)} /\ octets[p + 1] = Octet(\h80)

IsEndOfContents(octets, p) == octets[p] = Octet(0) /\ octets[p + 1] = Octet(0)

\* From p on: where the last of the open indefinite values is closed.
Closed(octets, from, open) ==
  LET at[p \in Nat] ==
        [depth \in Nat |->
           IF depth = 0 THEN p
           ELSE IF p \notin 1 .. Len(octets) - 1 THEN 0
           ELSE IF IsEndOfContents(octets, p) THEN at[p + 2][depth - 1]
           ELSE IF IsIndefinite(octets, p) THEN at[p + 2][depth + 1]
           ELSE at[BodyEnd(octets, p)][depth]]
  IN  at[from][open]

\* The places after the value at p, of its first element, and of its n-th.
After(octets, p) ==
  IF p \notin 1 .. Len(octets) - 1 THEN 0
  ELSE IF IsIndefinite(octets, p) THEN Closed(octets, p + 2, 1)
  ELSE BodyEnd(octets, p)

Inside(octets, p) ==
  IF p \notin 1 .. Len(octets) - 1 THEN 0
  ELSE IF IsIndefinite(octets, p) THEN p + 2
  ELSE BodyFrom(octets, p)

Within(octets, p, n) ==
  LET place[k \in 1 .. n] == IF k = 1 THEN Inside(octets, p) ELSE After(octets, place[k - 1])
  IN  place[n]

\* The body of the value at p, if it has this tag.
Body(octets, p, tag) ==
  IF After(octets, p) = 0 \/ octets[p] # Octet(tag) THEN <<>>
  ELSE SubSeq(octets, Inside(octets, p),
              After(octets, p) - (IF IsIndefinite(octets, p) THEN 3 ELSE 1))

\* An INTEGER: its sign is its first bit; leading zero octets say nothing.
Positive(body) == body # <<>> /\ body[1][2] < 128
Magnitude(octets) ==
  LET zeros == CHOOSE n \in 0 .. Len(octets) :
                 /\ \A i \in 1 .. n : octets[i] = Octet(0)
                 /\ n = Len(octets) \/ octets[n + 1] # Octet(0)
  IN  SubSeq(octets, zeros + 1, Len(octets))

\* SignedData: what was signed, by whom, and the signature.
ReadSignedData(cms) ==
  LET signedData == Within(cms, Within(cms, 1, 2), 1)
      content    == Within(cms, signedData, 3)
      signer     == Within(cms, Within(cms, signedData, 5), 1)
      identity   == Within(cms, signer, 2)
  IN  [content     |-> Body(cms, Within(cms, Within(cms, content, 2), 1), \h04),
       certificate |-> Body(cms, Within(cms, signedData, 4), \ha0),
       issuer      |-> Body(cms, Within(cms, identity, 1), \h30),
       serial      |-> Body(cms, Within(cms, identity, 2), \h02),
       algorithm   |-> Body(cms, Within(cms, Within(cms, signer, 4), 1), \h06),
       signature   |-> Body(cms, Within(cms, signer, 5), \h04)]

\* What OpenSSL finds in a PFX: a certificate and its issuer are in DER, and
\* a signature has octets.
IsDerSequence(octets) ==
  /\ octets \in Seq(ToSet(octets)) /\ Len(octets) > 1
  /\ \A i \in DOMAIN octets : ValueOf(octets, i) \in 0 .. 255
  /\ octets[1] = Octet(\h30) /\ ~ IsIndefinite(octets, 1)
  /\ BodyEnd(octets, 1) = Len(octets) + 1

IsPfx(pfx) ==
  /\ "key" \in DOMAIN pfx => pfx.key.size \in Nat \ {0}
  /\ "certificate" \in DOMAIN pfx =>
       /\ IsDerSequence(pfx.certificate.der) /\ IsDerSequence(pfx.certificate.issuer)
       /\ pfx.certificate.serial \in Seq({Octet(n) : n \in 0 .. 255})

-----------------------------------------------------------------------------
(* XML *)

\* The fields of one part; an element that is not there is no field.
ReadFields(node, elements) ==
  LET present == {i \in DOMAIN elements : HasChild(node, elements[i][1])}
  IN  [f \in {elements[i][2] : i \in present} |->
         LET i == CHOOSE j \in present : elements[j][2] = f
         IN  Child(node, elements[i][1]).text]

ReadMain(node) ==
  [f \in DOMAIN ReadFields(node, MainElements) |->
     IF f = "seller" THEN ReadFields(Child(node, "Seller"), RoleElements)
     ELSE IF f = "buyer" THEN ReadFields(Child(node, "Buyer"), RoleElements)
     ELSE ReadFields(node, MainElements)[f]]

ReadInvoice(node) ==
  LET items == Child(node, "Details").children
  IN  [main    |-> ReadMain(Child(node, "Main")),
       details |-> [i \in DOMAIN items |-> ReadFields(items[i], ItemElements)],
       amount  |-> ReadFields(Child(node, "Amount"), AmountElements)]

\* The invoice as a reader sees it: enumerations by their tokens, and every
\* line end as one line feed (XML 1.0, 2.11).
AsRead(field, value) ==
  IF field \in DOMAIN WireValues THEN <<WireValues[field][value]>>
  ELSE LineEnds(value, "\r", "\n")

FieldsAsRead(rec) == [f \in DOMAIN rec |-> AsRead(f, rec[f])]

InvoiceAsRead(invoice) ==
  [main |-> [f \in DOMAIN invoice.main |->
               IF f \in {"seller", "buyer"} THEN FieldsAsRead(invoice.main[f])
               ELSE AsRead(f, invoice.main[f])],
   details |-> [i \in DOMAIN invoice.details |-> FieldsAsRead(invoice.details[i])],
   amount  |-> FieldsAsRead(invoice.amount)]

ReadParty(node, idTag) ==
  IF HasChild(node, "Description")
  THEN [identifier |-> Text(node, idTag), description |-> Text(node, "Description")]
  ELSE [identifier |-> Text(node, idTag)]

\* The routing, and the pack with its attributes and then its messages.
ReadEnvelope(root) ==
  LET pack       == Child(root, "InvoicePack")
      attributes == {i \in DOMAIN pack.children :
                       pack.children[i].tag \in {"@count", "@messageType", "@version"}}
  IN  [from        |-> [party |-> ReadParty(Child(root, "From"), "PartyId"),
                        route |-> ReadParty(Child(root, "FromVAC"), "RoutingId")],
       to          |-> [party |-> ReadParty(Child(root, "To"), "PartyId"),
                        route |-> ReadParty(Child(root, "ToVAC"), "RoutingId")],
       count       |-> Text(pack, "@count"),
       messageType |-> Text(pack, "@messageType"),
       messages    |-> SubSeq(pack.children, Cardinality(attributes) + 1,
                              Len(pack.children))]

-----------------------------------------------------------------------------
(* Results *)

Elements(fields) ==
  FlattenSeq([i \in DOMAIN fields |-> Element(fields[i][1], PushTextEscaped(fields[i][2]))])

OptionalElement(tag, option) ==
  IF option = {} THEN <<>> ELSE Element(tag, PushTextEscaped(CHOOSE text \in option : TRUE))

PartyXml(tag, idTag, id, description) ==
  Element(tag, Elements(<<<<idTag, id>>>>) \o OptionalElement("Description", description))

RoutingXml(routing) ==
  Element("RoutingInfo",
    PartyXml("From", "PartyId", routing.from.party_id, routing.from.description)
    \o PartyXml("FromVAC", "RoutingId", routing.from_vac.routing_id, routing.from_vac.description)
    \o PartyXml("To", "PartyId", routing.to.party_id, routing.to.description)
    \o PartyXml("ToVAC", "RoutingId", routing.to_vac.routing_id, routing.to_vac.description))

InfoXml(tag, info) ==
  Element(tag, Elements(<< <<"Id", info.id>>, <<"Size", info.size>>,
    <<"MessageType", info.message_type>>, <<"Service", info.service>>,
    <<"Action", info.action>> >>))

BucketXml(tag, detail) ==
  Element(tag, Element("ResultDetailType",
    Element("Count", PushTextEscaped(Decimal(detail.count)))
    \o IF detail.invoices = <<>> THEN <<>>
       ELSE Element("Invoices", FlattenSeq([i \in DOMAIN detail.invoices |->
              Element("Invoice", Elements(<<
                <<"ReferenceNumber", detail.invoices[i].reference_number>>,
                <<"InvoiceDate", detail.invoices[i].invoice_date>> >>))]))))

SummaryXml(summary) ==
  Element("SummaryResult", RoutingXml(summary.routing)
    \o Element("DetailList", FlattenSeq([i \in DOMAIN summary.messages |->
         LET message == summary.messages[i]
         IN  Element("Message", InfoXml("Info", message.info)
               \o Element("ResultType", BucketXml("Total", message.result.total)
                    \o BucketXml("Good", message.result.good)
                    \o BucketXml("Failed", message.result.failed)))])))

ProcessXml(process) ==
  Element("ProcessResult", RoutingXml(process.routing)
    \o InfoXml("MessageInfo", process.message)
    \o Element("Result", FlattenSeq([i \in DOMAIN process.diagnostics |->
         LET d == process.diagnostics[i]
         IN  Element("Info", Elements(<< <<"Code", d.code>> >>)
               \o OptionalElement("Description", d.description)
               \o FlattenSeq([k \in DOMAIN Parameters |->
                    OptionalElement(Parameters[k], d.parameters[k])]))])))
=============================================================================
