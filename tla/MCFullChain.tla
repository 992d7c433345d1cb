----------------------------- MODULE MCFullChain -----------------------------
(***************************************************************************)
(* An instance of FullChain for TLC.  Requests vary one dimension at a     *)
(* time around the invoice of tests/full_chain.rs.                         *)
(***************************************************************************)
EXTENDS FullChain

\* The characters of a TLA+ string.
Chars(string) == [i \in 1 .. Len(string) |-> SubSeq(string, i, i)]

CONSTANTS good, twin, wrong, mute, dead  \* servers

MCHostKey ==
  [s \in Servers |-> CASE s \in {good, twin, dead} -> "key" [] s = wrong -> "other key"
                       [] s = mute -> NoKey]

\* A fallback is taken, and a server that fails later has none.
MCResolved == {<<>>, <<dead, good>>, <<wrong, good>>, <<mute>>, <<dead, twin, wrong>>}

MCCredentials == [login_id |-> "id", login_password |-> "password"]

MCEnvironment == [PFX |-> "password", BAD |-> NotUnicode]

-----------------------------------------------------------------------------
(* The invoice of full_chain.rs, with shorter texts *)

Role(identifier, name) == [identifier |-> Chars(identifier), name |-> name]

BaseMain ==
  [invoice_number |-> Chars("QQ12345678"), invoice_date |-> Chars("20261025"),
   invoice_time |-> Chars("14:30:00"),
   seller |-> [address |-> Chars("R<1>")] @@ Role("12345678", <<"wide", "&", "C">>),
   buyer |-> Role("0000000000", Chars("ABCD")),
   main_remark |-> Chars("fixture"), invoice_type |-> "GeneralTax",
   donate_mark |-> "NotDonated", print_mark |-> "Print", random_number |-> Chars("1234")]

Item(number, tax) ==
  [description |-> Chars("<A>&B"), quantity |-> Chars("2"), unit_price |-> Chars("-5.5"),
   tax_type |-> tax, amount |-> Chars("100"), sequence_number |-> Chars(ToString(number))]

BaseAmount ==
  [sales_amount |-> Chars("100"), free_tax_sales_amount |-> Chars("0"),
   zero_tax_sales_amount |-> Chars("0"), tax_type |-> "Taxable",
   tax_rate |-> "FivePercent", tax_amount |-> Chars("5"), total_amount |-> Chars("105")]

Base == [main |-> BaseMain, details |-> <<Item(1, "Taxable")>>, amount |-> BaseAmount]

\* Every optional field is there.
Complete ==
  [main |->
     [customs_clearance_mark |-> "ThroughCustoms", category |-> Chars("C1"),
      relate_number |-> Chars("R"), group_mark |-> Chars("*"), npo_ban |-> Chars("12345678"),
      buyer_remark |-> "DeductibleFixedAsset", bonded_area_confirm |-> "FreeTradeZone",
      zero_tax_rate_reason |-> 71, reserved1 |-> Chars("x"), reserved2 |-> Chars("y"),
      carrier_type |-> Chars("3J0002"), carrier_id1 |-> Chars("/A"),
      carrier_id2 |-> Chars("/B"), print_mark |-> "DoNotPrint", donate_mark |-> "Donated",
      seller |-> [person_in_charge |-> Chars("p"), telephone_number |-> Chars("t"),
                  facsimile_number |-> Chars("f"), email_address |-> Chars("e@f"),
                  customer_number |-> Chars("c"),
                  role_remark |-> [i \in 1 .. 40 |-> "r"]] @@ BaseMain.seller] @@ BaseMain,
   details |-> << [unit |-> Chars("u"), remark |-> <<>>, relate_number |-> Chars("n")]
                  @@ Item(1, "Taxable"), Item(2, "ZeroRated") >>,
   amount |-> [discount_amount |-> Chars("1.0"), original_currency_amount |-> Chars("3"),
               exchange_rate |-> Chars("31.50000"), currency |-> Chars("USD")] @@ BaseAmount]

Main(field, value)   == [Base EXCEPT !.main = (field :> value) @@ @]
Amount(field, value) == [Base EXCEPT !.amount = (field :> value) @@ @]

\* The ends of all months, in an invoice that has another issue.
Dates ==
  {Chars(y \o m \o d) : y \in {"1900", "2000", "2023", "2024"},
     m \in {"01", "02", "03", "04", "05", "06", "07", "08", "09", "10", "11", "12"},
     d \in {"28", "29", "30", "31"}}

DatedInvoices == {[Main("invoice_date", d) EXCEPT !.details = <<Item(7, "Mixed")>>] : d \in Dates}

\* All short texts, and the ones at the limits of the facets.
TaxTexts ==
  UNION {[1 .. n -> {"-", "+", ".", "5"}] : n \in 0 .. 3}
  \cup {[i \in 1 .. n |-> IF i = p THEN "." ELSE "0"] : n \in {20, 21}, p \in {0, 14, 21}}

TaxedInvoices == {Amount("tax_amount", t) : t \in TaxTexts}

\* Every pair of special characters, alone and in a pack that is too large,
\* and every length of a last line.
Special == <<"&", "<", ">", "\"", "'", "\r", "\n", "a", "wide">>

Pairs == [i \in 1 .. 162 |-> LET k == (i - 1) \div 2
                             IN  Special[IF i % 2 = 1 THEN (k % 9) + 1 ELSE (k \div 9) + 1]]

Letters(n) == [i \in 1 .. n |-> "a"]

Remarked ==
  {Main("main_remark", t) : t \in {Pairs, Pairs \o Letters(38)} \cup {Letters(n) : n \in 0 .. 47}}

Unsound ==
  {[Base EXCEPT !.details = <<>>], [Main("invoice_date", Chars("20230229")) EXCEPT !.details = <<>>],
   [Base EXCEPT !.details = [i \in 1 .. 3 |-> Item(i, "Taxable")]],
   Main("npo_ban", Chars("X")), Main("carrier_id1", <<>>),
   Main("buyer", Role("0000000000", Chars("00")))}

-----------------------------------------------------------------------------
(* The package *)

Uuid == "550e8400-e29b-41d4-a716-446655440000"

Common(version) == version \o "-F0401-20261025-143000123-" \o Uuid

Filename(source, count) ==
  Chars(source \o "_12345678_PLATFORM_" \o Common("4.1") \o "_" \o count)

Filenames ==
  {Filename(s, "1") : s \in {"a_b.xml", "_", "a/b"}}
  \cup {Filename("a", c) : c \in {"+01", "0", "-1", "2", "x", "4096", ""}}
  \cup {Chars("1_2_" \o Common("4.1") \o "_1"), Chars("_1_2_" \o Common("4.1") \o "_1"),
        Chars("a_1_2_" \o Common("9.9") \o "_1"), Chars("a_1_2_" \o Common("4.10") \o "_1"),
        Chars("a_1_2_4.1-F0401_1")}

DerSequence(name, size) == Tlv(\h30, [i \in 1 .. size |-> <<"der", name>>])

Certificate(public, serial) ==
  [public |-> public, der |-> DerSequence("certificate", 126),
   issuer |-> DerSequence("issuer", 1), serial |-> serial]

Pfx(kind, size, serial) ==
  [opens |-> TRUE, key |-> [kind |-> kind, public |-> "public key", size |-> size],
   certificate |-> Certificate("public key", serial)]

BasePfx == Pfx("RSA", 256, <<Octet(35)>>)

Identities ==
  {Pfx("EC", size, <<Octet(0), Octet(128), Octet(1)>>) : size \in {70, 127, 128, 129}}
  \cup {Pfx("RSA", 255, serial) : serial \in {<<>>, <<Octet(128)>>, <<Octet(127), Octet(0)>>}}
  \cup {Pfx("DSA", 64, <<Octet(35)>>), [BasePfx EXCEPT !.opens = FALSE],
        [BasePfx EXCEPT !.certificate.public = "another key"],
        [opens |-> TRUE, key |-> BasePfx.key],
        [opens |-> TRUE, certificate |-> BasePfx.certificate]}

BaseArgs ==
  [filename |-> Filename("synthetic_F0401.xml", "1"), mig |-> <<>>,
   from_vac |-> Chars("F"), to_vac |-> Chars("T"),
   descriptions |-> [from |-> <<"wide", "&">>, from_vac |-> <<"<", "A", ">">>],
   action |-> "C0401", service |-> "Store", zip |-> "Zip", pfx_password_env |-> "PFX",
   api_version |-> "3.1.3", turnkey_version |-> "3.2.1"]

\* A second message: with and without line ends, with a declaration behind
\* white space, not UTF-8, empty.
Message ==
  Element("Invoice", [i \in 1 .. 4 |-> Character(<<"\r", "\n", "a", "\r">>[i])])

Seconds == {Message, <<Character("\n"), Declaration>> \o Message, <<NotUtf8>>, <<>>}

\* The plan that a client of the library makes: what is said twice may differ.
Plan(envelopeFrom, filenameFrom, messageType, version) ==
  [envelope |->
     [routing |-> [from |-> [identifier |-> Chars(envelopeFrom)],
                   from_vac |-> [identifier |-> Chars("F")],
                   to |-> [identifier |-> Chars("PLATFORM"), description |-> Chars("p")],
                   to_vac |-> [identifier |-> Chars("T")]],
      messageType |-> Chars(messageType), payloads |-> <<>>],
   filename |->
     [source_name |-> Chars("s"), from_party |-> Chars(filenameFrom),
      to_party |-> Chars("PLATFORM"), pack_count |-> 1,
      common_name |-> [mig_version |-> Chars(version), message_type |-> Chars("F0401"),
                       date |-> Chars("20261025"), time |-> Chars("143000123"),
                       uuid |-> Chars(Uuid)]],
   service |-> "Exchange", zip |-> "Zip", action |-> "C0401",
   versions |-> [api |-> "3.1.3", turnkey |-> "3.2.1"]]

BasePlan == Plan("1", "1", "F0401", "4.1")

\* Parts that a hyphen shifts: they render as a name whose parts are others.
Shifted ==
  [Plan("1", "1", "F0401-20261025", "4.1") EXCEPT !.filename.common_name =
     [mig_version |-> Chars("4.1"), message_type |-> Chars("F0401-20261025"),
      date |-> Chars("143000123"), time |-> Chars("550e8400"),
      uuid |-> Chars("e29b-41d4-a716-446655440000")]]

Plans ==
  {BasePlan, Shifted, [Shifted EXCEPT !.envelope.messageType = Chars("F0401")],
   Plan("1", "2", "F0401", "4.1"), Plan("1", "1", "F0501", "4.1"),
   Plan("1", "1", "F0401", "4.2"), Plan("1", "1", "F0401", "4"),
   [BasePlan EXCEPT !.filename.to_party = Chars("X")],
   [BasePlan EXCEPT !.filename.pack_count = 2], [BasePlan EXCEPT !.zip = "Plain"]}

-----------------------------------------------------------------------------
(* Requests *)

Request(by, invoice, args, pfx, plan) ==
  [by |-> by, invoice |-> invoice, args |-> args, pfx |-> pfx, plan |-> plan]

ByCli(invoice, args, pfx) == Request("cli", invoice, args, pfx, BasePlan)

MCRequests ==
  {ByCli(i, BaseArgs, BasePfx) :
     i \in {Base, Complete} \cup DatedInvoices \cup TaxedInvoices \cup Remarked \cup Unsound}
  \cup {ByCli(Base, BaseArgs, p) : p \in Identities}
  \cup {ByCli(Base, [BaseArgs EXCEPT !.filename = f], BasePfx) : f \in Filenames}
  \cup {ByCli(Base, [BaseArgs EXCEPT !.filename = Filename("a", "2"), !.mig = <<m>>], BasePfx) :
          m \in Seconds}
  \cup {ByCli(Base, [BaseArgs EXCEPT !.mig = <<Message, Message>>], BasePfx)}
  \cup {ByCli(Base, [BaseArgs EXCEPT !.pfx_password_env = e], BasePfx) : e \in {"", "BAD", "X"}}
  \cup {Request("client", Base, BaseArgs, BasePfx, p) : p \in Plans}

\* A second file as some editors save it: with a byte order mark.
MCMarkedRequests ==
  {ByCli(Base, [BaseArgs EXCEPT !.filename = Filename("a", "2"),
                                !.mig = <<<<Character("BOM"), Declaration>> \o Message>>], BasePfx)}

-----------------------------------------------------------------------------
(* What the platform answers *)

Detail(count, listed) ==
  [count |-> count,
   invoices |-> [i \in 1 .. listed |-> [reference_number |-> Chars("QQ" \o ToString(i)),
                                        invoice_date |-> Chars("20261025")]]]

Routing ==
  [from |-> [party_id |-> Chars("PLATFORM"), description |-> {<<"&">>}],
   from_vac |-> [routing_id |-> Chars("T"), description |-> {}],
   to |-> [party_id |-> Chars("12345678"), description |-> {}],
   to_vac |-> [routing_id |-> Chars("F"), description |-> {Chars("d")}]]

Info(p) ==
  [id |-> RemoteFilename(p.filename), size |-> Chars("99999999999"),
   message_type |-> p.metadata.message.message_type, service |-> Chars("S"),
   action |-> Chars("C0401")]

SummaryEntry(p, total, accepted, failed) ==
  [info |-> Info(p), result |-> [total |-> total, good |-> accepted, failed |-> failed]]

Diagnostic(description, parameter) ==
  [code |-> Chars("E1"), description |-> description,
   parameters |-> <<{}, parameter, {}, {}, {Chars("<")}>>]

MCVerdicts(p) ==
  {[kind |-> "SummaryResult", value |-> [routing |-> Routing, messages |-> m]] :
     m \in {<<SummaryEntry(p, Detail(1, 1), Detail(1, 1), Detail(0, 0))>>,
            <<SummaryEntry(p, Detail(2, 0), Detail(-1, 0), Detail(3, 2)),
              SummaryEntry(p, Detail(1, 0), Detail(0, 0), Detail(1, 1))>>,
            <<SummaryEntry(p, Detail(1, 1), Detail(0, 0), Detail(Half, 0))>>}}
  \cup {[kind |-> "ProcessResult",
         value |-> [routing |-> Routing, message |-> Info(p),
                    diagnostics |-> <<Diagnostic({}, {}), Diagnostic({Chars("d")}, {Chars("q")})>>]]}
=============================================================================
