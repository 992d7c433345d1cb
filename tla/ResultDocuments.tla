-------------------------- MODULE ResultDocuments --------------------------
(***************************************************************************)
(* The XML of the result messages: parse of crates/einvoice-results and    *)
(* parse_reconciliation of crates/einvoice-transport/src/inbound.rs.  The  *)
(* derived deserializers take a node (XmlText) when it has each required   *)
(* child once and no optional one twice; they skip children they do not    *)
(* know and never look at the name of the root.                            *)
(***************************************************************************)
EXTENDS MessageNames

Places(node, tag) == {i \in DOMAIN node.children : node.children[i].tag = tag}

Once(node, tag)       == Cardinality(Places(node, tag)) = 1
AtMostOnce(node, tag) == Cardinality(Places(node, tag)) <= 1

\* A Vec field: at least one child, and nothing else between them.
Listed(node, tag) ==
  /\ Places(node, tag) # {}
  /\ \E first, last \in DOMAIN node.children : Places(node, tag) = first .. last

Children(node, tag) ==
  LET first == CHOOSE i \in Places(node, tag) : \A j \in Places(node, tag) : i <= j
  IN  SubSeq(node.children, first, first + Cardinality(Places(node, tag)) - 1)

Text(node, tag) == Child(node, tag).text

\* An Option<String>: a set of at most one text.
Optional(node, tag) == IF Places(node, tag) = {} THEN {} ELSE {Text(node, tag)}

-----------------------------------------------------------------------------
(* The wire structures *)

IsWireParty(node, idTag) == Once(node, idTag) /\ AtMostOnce(node, "Description")

IsWireRouting(node) ==
  /\ \A tag \in {"From", "To"} : Once(node, tag) /\ IsWireParty(Child(node, tag), "PartyId")
  /\ \A tag \in {"FromVAC", "ToVAC"} :
       Once(node, tag) /\ IsWireParty(Child(node, tag), "RoutingId")

IsWireMessageInfo(node) ==
  \A tag \in {"Id", "Size", "MessageType", "Service", "Action"} : Once(node, tag)

Parameters == <<"Parameter0", "Parameter1", "Parameter2", "Parameter3", "Parameter4">>

IsWireProcessDiagnostic(node) ==
  /\ Once(node, "Code")
  /\ \A tag \in {"Description"} \cup ToSet(Parameters) : AtMostOnce(node, tag)

IsWireProcessResult(node) ==
  /\ \A tag \in {"RoutingInfo", "MessageInfo", "Result"} : Once(node, tag)
  /\ IsWireRouting(Child(node, "RoutingInfo"))
  /\ IsWireMessageInfo(Child(node, "MessageInfo"))
  /\ LET result == Child(node, "Result")
     IN  /\ Listed(result, "Info")
         /\ \A i \in Places(result, "Info") : IsWireProcessDiagnostic(result.children[i])

IsWireInvoiceReference(node) == Once(node, "ReferenceNumber") /\ Once(node, "InvoiceDate")

IsWireInvoices(node) ==
  /\ Listed(node, "Invoice")
  /\ \A i \in Places(node, "Invoice") : IsWireInvoiceReference(node.children[i])

\* The count has to fit an i32; the size of the message is never a number.
IsWireResultDetail(node) ==
  /\ Once(node, "Count") /\ IsI32(Text(node, "Count"))
  /\ AtMostOnce(node, "Invoices")
  /\ HasChild(node, "Invoices") => IsWireInvoices(Child(node, "Invoices"))

IsWireResultBreakdown(node) ==
  \A tag \in {"Total", "Good", "Failed"} :
    /\ Once(node, tag)
    /\ Once(Child(node, tag), "ResultDetailType")
    /\ IsWireResultDetail(Child(Child(node, tag), "ResultDetailType"))

IsWireSummaryMessage(node) ==
  /\ Once(node, "Info") /\ IsWireMessageInfo(Child(node, "Info"))
  /\ Once(node, "ResultType") /\ IsWireResultBreakdown(Child(node, "ResultType"))

IsWireSummaryResult(node) ==
  /\ Once(node, "RoutingInfo") /\ IsWireRouting(Child(node, "RoutingInfo"))
  /\ Once(node, "DetailList")
  /\ LET list == Child(node, "DetailList")
     IN  /\ Listed(list, "Message")
         /\ \A i \in Places(list, "Message") : IsWireSummaryMessage(list.children[i])

-----------------------------------------------------------------------------
(* The public values that the wire structures become; a count of the       *)
(* platform may be any number, the parsed one is an i32.                   *)

Options == {option \in SUBSET Texts : \A s, t \in option : s = t}

ResultParties == [party_id : Texts, description : Options]
ResultRoutes  == [routing_id : Texts, description : Options]
ResultRoutings ==
  [from : ResultParties, from_vac : ResultRoutes, to : ResultParties, to_vac : ResultRoutes]

MessageInfos ==
  [id : Texts, size : Texts, message_type : Texts, service : Texts, action : Texts]

ProcessDiagnostics ==
  [code : Texts, description : Options, parameters : [DOMAIN Parameters -> Options]]

ProcessResults ==
  [routing : ResultRoutings, message : MessageInfos,
   diagnostics : Seq(ProcessDiagnostics) \ {<<>>}]

InvoiceReferences == [reference_number : Texts, invoice_date : Texts]

ResultDetails == [count : Int, invoices : Seq(InvoiceReferences)]

ResultBreakdowns ==
  [total : ResultDetails, good : ResultDetails, failed : ResultDetails]

SummaryResults ==
  [routing : ResultRoutings,
   messages : Seq([info : MessageInfos, result : ResultBreakdowns]) \ {<<>>}]

Results ==
  [kind : {"ProcessResult"}, value : ProcessResults]
  \cup [kind : {"SummaryResult"}, value : SummaryResults]

ResultParty(node) ==
  [party_id |-> Text(node, "PartyId"), description |-> Optional(node, "Description")]

ResultRoute(node) ==
  [routing_id |-> Text(node, "RoutingId"), description |-> Optional(node, "Description")]

ResultRouting(node) ==
  [from |-> ResultParty(Child(node, "From")), from_vac |-> ResultRoute(Child(node, "FromVAC")),
   to |-> ResultParty(Child(node, "To")), to_vac |-> ResultRoute(Child(node, "ToVAC"))]

MessageInfo(node) ==
  [id |-> Text(node, "Id"), size |-> Text(node, "Size"),
   message_type |-> Text(node, "MessageType"), service |-> Text(node, "Service"),
   action |-> Text(node, "Action")]

ProcessDiagnostic(node) ==
  [code |-> Text(node, "Code"), description |-> Optional(node, "Description"),
   parameters |-> [k \in DOMAIN Parameters |-> Optional(node, Parameters[k])]]

ProcessResultOf(node) ==
  LET infos == Children(Child(node, "Result"), "Info")
  IN  [routing     |-> ResultRouting(Child(node, "RoutingInfo")),
       message     |-> MessageInfo(Child(node, "MessageInfo")),
       diagnostics |-> [i \in DOMAIN infos |-> ProcessDiagnostic(infos[i])]]

InvoiceReference(node) ==
  [reference_number |-> Text(node, "ReferenceNumber"),
   invoice_date |-> Text(node, "InvoiceDate")]

\* No list of invoices is an empty one.
DetailOf(node) ==
  LET invoices == IF HasChild(node, "Invoices")
                  THEN Children(Child(node, "Invoices"), "Invoice") ELSE <<>>
  IN  [count    |-> I32Value(Text(node, "Count")),
       invoices |-> [i \in DOMAIN invoices |-> InvoiceReference(invoices[i])]]

Bucket(node, tag) == DetailOf(Child(Child(node, tag), "ResultDetailType"))

\* Mutant of ResultBreakdown: the failed invoices are counted as good ones.
BreakdownExchanged(node) ==
  [total |-> Bucket(node, "Total"), good |-> Bucket(node, "Failed"),
   failed |-> Bucket(node, "Good")]

ResultBreakdown(node) ==
  [total |-> Bucket(node, "Total"), good |-> Bucket(node, "Good"),
   failed |-> Bucket(node, "Failed")]

SummaryMessageOf(node) ==
  [info   |-> MessageInfo(Child(node, "Info")),
   result |-> ResultBreakdown(Child(node, "ResultType"))]

SummaryResultOf(node) ==
  LET messages == Children(Child(node, "DetailList"), "Message")
  IN  [routing  |-> ResultRouting(Child(node, "RoutingInfo")),
       messages |-> [i \in DOMAIN messages |-> SummaryMessageOf(messages[i])]]

-----------------------------------------------------------------------------
(* parse_reconciliation *)

\* Ok(Some), Ok(None) or the error, of an object of this kind.
ParseError(kind, tokens) ==
  LET root == ReadXml(tokens)
  IN  IF kind \notin {"ProcessResult", "SummaryResult"} THEN "None"
      ELSE IF <<"byte", "ff">> \in ToSet(tokens) THEN "Utf8"
      ELSE IF Len(root) # 1 THEN "Xml"
      ELSE IF kind = "ProcessResult"
           THEN IF IsWireProcessResult(root[1]) THEN "Ok" ELSE "Xml"
           ELSE IF IsWireSummaryResult(root[1]) THEN "Ok" ELSE "Xml"
=============================================================================
