------------------------------- MODULE F0401 -------------------------------
(***************************************************************************)
(* The F0401 invoice of crates/einvoice-mig/src/f0401.rs: its constructor, *)
(* its two layers of validation and its XML.                               *)
(*                                                                         *)
(* An invoice is [main, details, amount]; each part is a record with the   *)
(* fields of the source, and an Option that is None is a field that is     *)
(* absent from its DOMAIN.  Numbers and text are texts (XmlText), the      *)
(* enumerations are the names of their variants.                           *)
(***************************************************************************)
EXTENDS MigPrimitives

F0401Namespace == "urn:GEINV:eInvoiceMessage:F0401:4.1"

CONSTANT MaxProductItems  \* F0401Invoice::MAX_PRODUCT_ITEMS, 9 999

ASSUME F0401Assumption == MaxProductItems \in Nat \ {0}

\* F0401Invoice::new.
NewInvoice(details) ==
  IF details = <<>> THEN "NoProductItems"
  ELSE IF Len(details) > MaxProductItems THEN "TooManyProductItems"
  ELSE "Ok"

-----------------------------------------------------------------------------
(* validate_schema_constraints.  An issue is <<part, item, field, code>>,  *)
(* with item 0 for the parts that are there once.                          *)

\* The lengths of validate_role_schema, validate_main_schema and
\* validate_details_schema: check_required_max (1 .. max), check_max
\* (0 .. max) and check_exact, in characters.
RoleLengths ==
  [name |-> 1 .. 60, address |-> 0 .. 100, person_in_charge |-> 0 .. 30,
   telephone_number |-> 0 .. 26, facsimile_number |-> 0 .. 26,
   email_address |-> 0 .. 400, customer_number |-> 0 .. 20,
   role_remark |-> {40}]

MainLengths ==
  [main_remark |-> 0 .. 200, category |-> 0 .. 2, relate_number |-> 0 .. 20,
   group_mark |-> {1}, carrier_type |-> 0 .. 6, carrier_id1 |-> 0 .. 400,
   carrier_id2 |-> 0 .. 400, reserved1 |-> 0 .. 20, reserved2 |-> 0 .. 100]

ItemLengths ==
  [description |-> 1 .. 500, unit |-> 0 .. 6, sequence_number |-> 1 .. 4,
   remark |-> 0 .. 120, relate_number |-> 0 .. 50]

\* check_required_max, check_max, check_exact.
LengthIssues(part, item, rec, lengths) ==
  {<<part, item, f, "MIG_STRING_LENGTH">> :
     f \in {g \in DOMAIN lengths \cap DOMAIN rec : Len(rec[g]) \notin lengths[g]}}

Facets(total, fraction, nonNegative) ==
  [total |-> total, fraction |-> fraction, nonNegative |-> nonNegative]

ItemFacets == [f \in {"quantity", "unit_price", "amount"} |-> Facets(20, 7, FALSE)]

AmountFacets ==
  [f \in {"sales_amount", "free_tax_sales_amount", "zero_tax_sales_amount",
          "tax_amount", "total_amount", "discount_amount",
          "original_currency_amount", "exchange_rate"} |->
     CASE f = "tax_amount"    -> Facets(20, 0, TRUE)
       [] f = "exchange_rate" -> Facets(13, 5, TRUE)
       [] OTHER               -> Facets(20, 7, TRUE)]

\* check_decimal: the field is parsed again, under the facets of its place.
DecimalIssues(part, item, rec, facets) ==
  {<<part, item, f, "MIG_DECIMAL_CONSTRAINT">> :
     f \in {g \in DOMAIN facets \cap DOMAIN rec : MigDecimal(rec[g], facets[g]) # "Ok"}}

\* is_four_digits.
IsFourDigits(text) == Len(text) = 4 /\ AllDigits(text)

MainIssues(main) ==
  LengthIssues("Seller", 0, main.seller, RoleLengths)
  \cup LengthIssues("Buyer", 0, main.buyer, RoleLengths)
  \cup LengthIssues("Main", 0, main, MainLengths)
  \cup {<<"Main", 0, f, "F0401_RANDOM_NUMBER_FORMAT">> :
          f \in {g \in {"random_number"} \cap DOMAIN main : ~ IsFourDigits(main[g])}}

DetailsIssues(details) ==
  UNION {LengthIssues("ProductItem", i, details[i], ItemLengths)
           \cup DecimalIssues("ProductItem", i, details[i], ItemFacets) :
         i \in DOMAIN details}

ValidateSchemaConstraints(invoice) ==
  MainIssues(invoice.main) \cup DetailsIssues(invoice.details)
  \cup DecimalIssues("Amount", 0, invoice.amount, AmountFacets)

-----------------------------------------------------------------------------
(* validate_semantics and validate                                         *)

ZeroRated(invoice) ==
  \/ invoice.amount.tax_type = "ZeroRated"
  \/ \E i \in DOMAIN invoice.details : invoice.details[i].tax_type = "ZeroRated"

When(condition, issue) == {i \in {issue} : condition}

\* The rules about the document as a whole.
DocumentRules(invoice) ==
  LET main     == invoice.main
      consumer == IsB2cBuyer(main.buyer.identifier)
      print    == main.print_mark = "Print"
      carrier  == {"carrier_type", "carrier_id1", "carrier_id2"} \cap DOMAIN main # {}
      random   == "random_number" \in DOMAIN main
  IN  UNION {
        When(~ IsCalendarDate(main.invoice_date),
             <<"Main", 0, "invoice_date", "MIG_DATE_NOT_GREGORIAN">>),
        When("address" \in DOMAIN main.seller => main.seller.address = <<>>,
             <<"Seller", 0, "address", "F0401_SELLER_ADDRESS_REQUIRED">>),
        When(consumer /\ Len(main.buyer.name) \in 1 .. 4 /\ ToSet(main.buyer.name) = {"0"},
             <<"Buyer", 0, "name", "F0401_B2C_BUYER_NAME_INVALID">>),
        When(consumer /\ ~ random,
             <<"Main", 0, "random_number", "F0401_B2C_RANDOM_NUMBER_REQUIRED">>),
        When(~ consumer /\ random,
             <<"Main", 0, "random_number", "F0401_B2B_RANDOM_NUMBER_FORBIDDEN">>),
        When(print /\ carrier,
             <<"Main", 0, "print_mark", "F0401_PRINT_WITH_CARRIER">>),
        When(print /\ main.donate_mark # "NotDonated",
             <<"Main", 0, "donate_mark", "F0401_PRINT_DONATION_CONFLICT">>),
        When(ZeroRated(invoice) /\ "zero_tax_rate_reason" \notin DOMAIN main,
             <<"Main", 0, "zero_tax_rate_reason", "F0401_ZERO_RATE_REASON_REQUIRED">>)}

ItemRules(details) ==
  {<<"ProductItem", i, "tax_type", "F0401_PRODUCT_MIXED_TAX_FORBIDDEN">> :
     i \in {j \in DOMAIN details : details[j].tax_type = "Mixed"}}
  \cup {<<"ProductItem", i, "sequence_number", "F0401_SEQUENCE_NOT_CONTIGUOUS">> :
     i \in {j \in DOMAIN details : details[j].sequence_number # Decimal(j)}}

ValidateSemantics(invoice) ==
  DocumentRules(invoice) \cup ItemRules(invoice.details)

Validate(invoice) == ValidateSchemaConstraints(invoice) \cup ValidateSemantics(invoice)

-----------------------------------------------------------------------------
(* to_xml: the elements of each part in their order, with their fields.    *)

RoleElements ==
  << <<"Identifier", "identifier">>, <<"Name", "name">>, <<"Address", "address">>,
     <<"PersonInCharge", "person_in_charge">>, <<"TelephoneNumber", "telephone_number">>,
     <<"FacsimileNumber", "facsimile_number">>, <<"EmailAddress", "email_address">>,
     <<"CustomerNumber", "customer_number">>, <<"RoleRemark", "role_remark">> >>

MainElements ==
  << <<"InvoiceNumber", "invoice_number">>, <<"InvoiceDate", "invoice_date">>,
     <<"InvoiceTime", "invoice_time">>, <<"Seller", "seller">>, <<"Buyer", "buyer">>,
     <<"BuyerRemark", "buyer_remark">>, <<"MainRemark", "main_remark">>,
     <<"CustomsClearanceMark", "customs_clearance_mark">>, <<"Category", "category">>,
     <<"RelateNumber", "relate_number">>, <<"InvoiceType", "invoice_type">>,
     <<"GroupMark", "group_mark">>, <<"DonateMark", "donate_mark">>,
     <<"CarrierType", "carrier_type">>, <<"CarrierId1", "carrier_id1">>,
     <<"CarrierId2", "carrier_id2">>, <<"PrintMark", "print_mark">>,
     <<"NPOBAN", "npo_ban">>, <<"RandomNumber", "random_number">>,
     <<"BondedAreaConfirm", "bonded_area_confirm">>,
     <<"ZeroTaxRateReason", "zero_tax_rate_reason">>,
     <<"Reserved1", "reserved1">>, <<"Reserved2", "reserved2">> >>

ItemElements ==
  << <<"Description", "description">>, <<"Quantity", "quantity">>, <<"Unit", "unit">>,
     <<"UnitPrice", "unit_price">>, <<"TaxType", "tax_type">>, <<"Amount", "amount">>,
     <<"SequenceNumber", "sequence_number">>, <<"Remark", "remark">>,
     <<"RelateNumber", "relate_number">> >>

AmountElements ==
  << <<"SalesAmount", "sales_amount">>, <<"FreeTaxSalesAmount", "free_tax_sales_amount">>,
     <<"ZeroTaxSalesAmount", "zero_tax_sales_amount">>, <<"TaxType", "tax_type">>,
     <<"TaxRate", "tax_rate">>, <<"TaxAmount", "tax_amount">>,
     <<"TotalAmount", "total_amount">>, <<"DiscountAmount", "discount_amount">>,
     <<"OriginalCurrencyAmount", "original_currency_amount">>,
     <<"ExchangeRate", "exchange_rate">>, <<"Currency", "currency">> >>

\* The wire values of the fields that are enumerations.
WireValues ==
  [invoice_type |-> InvoiceType, donate_mark |-> DonateMark, print_mark |-> PrintMark,
   tax_type |-> TaxType, tax_rate |-> TaxRate, buyer_remark |-> BuyerRemark,
   customs_clearance_mark |-> CustomsClearanceMark, bonded_area_confirm |-> BondedArea,
   zero_tax_rate_reason |-> ZeroTaxRateReason]

\* The parts as their structs declare them: required fields, optional ones,
\* and a value of its type in each.
IsPart(rec, elements, required) ==
  /\ required \subseteq DOMAIN rec
  /\ DOMAIN rec \subseteq {elements[i][2] : i \in DOMAIN elements}
  /\ \A f \in DOMAIN rec \ {"seller", "buyer"} :
       IF f \in DOMAIN WireValues THEN rec[f] \in DOMAIN WireValues[f] ELSE rec[f] \in Texts

IsRole(role) == IsPart(role, RoleElements, {"identifier", "name"})

IsMain(main) ==
  /\ IsPart(main, MainElements, {"invoice_number", "invoice_date", "invoice_time", "seller",
                                "buyer", "invoice_type", "donate_mark", "print_mark"})
  /\ IsRole(main.seller) /\ IsRole(main.buyer)

IsItem(item) ==
  IsPart(item, ItemElements, {"description", "quantity", "unit_price", "tax_type", "amount",
                              "sequence_number"})

IsAmount(amount) ==
  IsPart(amount, AmountElements, {"sales_amount", "free_tax_sales_amount",
           "zero_tax_sales_amount", "tax_type", "tax_rate", "tax_amount", "total_amount"})

IsF0401(invoice) ==
  /\ IsMain(invoice.main) /\ IsAmount(invoice.amount)
  /\ invoice.details \in Seq(ToSet(invoice.details))
  /\ \A i \in DOMAIN invoice.details : IsItem(invoice.details[i])

\* push_text_element and push_optional, over the elements of one part.
PushElements(elements, rec, Content(_)) ==
  LET Push(entry) == IF entry[2] \in DOMAIN rec
                     THEN Element(entry[1], Content(entry[2])) ELSE <<>>
  IN  FlattenSeq([i \in DOMAIN elements |-> Push(elements[i])])

PushText(field, value) ==
  PushEscaped(IF field \in DOMAIN WireValues THEN <<WireValues[field][value]>> ELSE value)

\* push_role.
PushRole(role) == PushElements(RoleElements, role, LAMBDA f : PushText(f, role[f]))

PushMain(main) ==
  PushElements(MainElements, main,
    LAMBDA f : IF f \in {"seller", "buyer"} THEN PushRole(main[f]) ELSE PushText(f, main[f]))

PushDetails(details) ==
  FlattenSeq([i \in DOMAIN details |->
    Element("ProductItem",
      PushElements(ItemElements, details[i], LAMBDA f : PushText(f, details[i][f])))])

PushAmount(amount) ==
  PushElements(AmountElements, amount, LAMBDA f : PushText(f, amount[f]))

ToXml(invoice) ==
  Element("Invoice",
    Element("@xmlns", <<Character(F0401Namespace)>>)
    \o Element("Main", PushMain(invoice.main))
    \o Element("Details", PushDetails(invoice.details))
    \o Element("Amount", PushAmount(invoice.amount)))
=============================================================================
