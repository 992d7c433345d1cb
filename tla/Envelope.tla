----------------------------- MODULE Envelope -----------------------------
(***************************************************************************)
(* The InvoiceEnvelope of crates/einvoice-envelope and its serialization.  *)
(* An envelope is [routing, messageType, payloads]; the payloads are       *)
(* documents (XmlText) that were made elsewhere and are spliced in as they *)
(* are, line by line.  Indentation between the elements is left out.       *)
(***************************************************************************)
EXTENDS XmlText, TLC

CONSTANT MaxPayloads  \* InvoiceEnvelope::MAX_PAYLOADS, 1 000

ASSUME EnvelopeAssumption == MaxPayloads \in Nat \ {0}

\* Tokens of a payload that Rust's trim_start removes, a byte that is not
\* UTF-8, and the beginning of a declaration.
WhiteSpace  == {Character(c) : c \in {" ", "\t", "\r", "\n", "ideographic space"}}
NotUtf8     == <<"byte", "ff">>
Declaration == <<"<?", "xml">>

\* MigPayload::new and InvoiceEnvelope::new.
NewEnvelope(payloads) ==
  IF \E i \in DOMAIN payloads : payloads[i] = <<>> THEN "EmptyPayload"
  ELSE IF payloads = <<>> THEN "NoPayloads"
  ELSE IF Len(payloads) > MaxPayloads THEN "TooManyPayloads"
  ELSE "Ok"

\* payload.trim_start().starts_with("<?xml")
HasDeclaration(payload) ==
  \E i \in DOMAIN payload : /\ payload[i] = Declaration
                            /\ \A j \in 1 .. i - 1 : payload[j] \in WhiteSpace

\* The first payload that cannot be embedded fails to_turnkey_xml.
SerializeError(payloads) ==
  LET Error(p) == IF NotUtf8 \in ToSet(p) THEN "PayloadNotUtf8"
                  ELSE IF HasDeclaration(p) THEN "EmbeddedXmlDeclaration"
                  ELSE "Ok"
      failed   == {i \in DOMAIN payloads : Error(payloads[i]) # "Ok"}
  IN  IF failed = {} THEN "Ok"
      ELSE Error(payloads[CHOOSE i \in failed : \A j \in failed : i <= j])

\* CRLF and CR become LF, in a text or in a document: the CR of a CRLF is
\* dropped, and what comes k-th without those was at Place(k) with them.
LineEnds(text, cr, lf) ==
  LET dropped  == {i \in 1 .. Len(text) - 1 : text[i] = cr /\ text[i + 1] = lf}
      Place(k) == CHOOSE i \in (k .. k + Cardinality(dropped)) \ dropped :
                    i = k + Cardinality({j \in dropped : j < i})
  IN  [k \in 1 .. Len(text) - Cardinality(dropped) |->
         IF text[Place(k)] = cr THEN lf ELSE text[Place(k)]]

Normalized(tokens) == LineEnds(tokens, Character("\r"), Character("\n"))

\* Mutant of AppendLikeJavaReadLine: a lone CR ends no line and is dropped.
AppendWithoutCr(payload) ==
  SelectSeq(payload, LAMBDA c : c # Character("\r")) \o <<Character("\n")>>

\* append_like_java_read_line: every line, the last one too, ends with LF.
AppendLikeJavaReadLine(payload) ==
  LET lines == Normalized(payload)
  IN  IF lines = <<>> \/ Last(lines) # Character("\n")
      THEN Append(lines, Character("\n")) ELSE lines

\* push_party and push_routing.
PushParty(tag, idTag, party) ==
  Element(tag,
    Element(idTag, PushTextEscaped(party.identifier))
    \o IF "description" \in DOMAIN party
       THEN Element("Description", PushTextEscaped(party.description)) ELSE <<>>)

\* Mutant of PushRoutingInfo: the two VACs are exchanged.
PushRoutingExchanged(routing) ==
  PushParty("From", "PartyId", routing.from)
  \o PushParty("FromVAC", "RoutingId", routing.to_vac)
  \o PushParty("To", "PartyId", routing.to)
  \o PushParty("ToVAC", "RoutingId", routing.from_vac)

PushRoutingInfo(routing) ==
  PushParty("From", "PartyId", routing.from)
  \o PushParty("FromVAC", "RoutingId", routing.from_vac)
  \o PushParty("To", "PartyId", routing.to)
  \o PushParty("ToVAC", "RoutingId", routing.to_vac)

\* to_turnkey_xml, with envelope_profile of MIG 4.1.
ToTurnkeyXml(envelope) ==
  Element("InvoiceEnvelope",
    Element("@xmlns", <<Character("urn:GEINV:InvoiceEnvelope:4.1")>>)
    \o PushRoutingInfo(envelope.routing)
    \o Element("InvoicePack",
         Element("@count", PushTextEscaped(Decimal(Len(envelope.payloads))))
         \o Element("@messageType", PushEscaped(envelope.messageType))
         \o Element("@version", PushTextEscaped(<<"v", "4", "1">>))
         \o FlattenSeq([i \in DOMAIN envelope.payloads |->
              AppendLikeJavaReadLine(envelope.payloads[i])])))
=============================================================================
