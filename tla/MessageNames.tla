---------------------------- MODULE MessageNames ----------------------------
(***************************************************************************)
(* The names of submitted and received objects: filename.rs and the        *)
(* classification of inbound.rs in crates/einvoice-transport.  A name is a *)
(* text (XmlText); a parser is an operator that says which error it        *)
(* returns and one that gives the value where it returns none.             *)
(***************************************************************************)
EXTENDS MachineIntegers, XmlText, TLC

Join(pieces, separator) ==
  FlattenSeq([i \in DOMAIN pieces |->
                IF i = 1 THEN pieces[i] ELSE <<separator>> \o pieces[i]])

\* The ends of names that tell what an object is, letter by letter.
NameSuffixes ==
  [ProcessResult |-> <<"P", "r", "o", "c", "e", "s", "s", "R", "e", "s", "u", "l", "t">>,
   SummaryResult |-> <<"S", "u", "m", "m", "a", "r", "y", "R", "e", "s", "u", "l", "t">>,
   E0501 |-> <<"E", "0", "5", "0", "1">>, E0502 |-> <<"E", "0", "5", "0", "2">>,
   E0503 |-> <<"E", "0", "5", "0", "3">>, E0504 |-> <<"E", "0", "5", "0", "4">>,
   Ack |-> <<"A", "c", "k">>]

EndsWith(text, suffix) == IsSuffix(NameSuffixes[suffix], text)

\* The value of a text of digits.
Number(text) == FoldLeft(LAMBDA n, c : 10 * n + DigitValue[c], 0, text)

\* Rust's str::parse::<i32>: an optional sign, then at least one digit.
Unsigned(text) == IF text # <<>> /\ text[1] \in {"+", "-"} THEN Tail(text) ELSE text

I32Value(text) == IF text[1] = "-" THEN - Number(Unsigned(text)) ELSE Number(Unsigned(text))

IsI32(text) ==
  /\ Unsigned(text) # <<>> /\ AllDigits(Unsigned(text))
  /\ I32Value(text) \in Int32

-----------------------------------------------------------------------------
(* MessageCommonName *)

SegmentLengths == <<3, 5, 8, 9, 8, 4, 4, 4, 12>>

CommonNameError(text) ==
  LET parts == Split(text, "-")
  IN  IF Len(parts) # Len(SegmentLengths) THEN "InvalidCommonNameParts"
      ELSE IF \E i \in DOMAIN parts : Len(parts[i]) # SegmentLengths[i]
           THEN "InvalidCommonSegmentLength"
      ELSE "Ok"

CommonName(text) ==
  LET parts == Split(text, "-")
  IN  [mig_version |-> parts[1], message_type |-> parts[2], date |-> parts[3],
       time |-> parts[4], uuid |-> Join(SubSeq(parts, 5, 9), "-")]

RenderCommonName(name) ==
  Join(<<name.mig_version, name.message_type, name.date, name.time, name.uuid>>, "-")

\* from_parts: the parts are rendered, and the text is parsed again.
FromPartsError(parts) == CommonNameError(RenderCommonName(parts))

\* Mutant of FromParts: the parts are returned as they were given.
PartsAsGiven(parts) == parts

FromParts(parts) == CommonName(RenderCommonName(parts))

-----------------------------------------------------------------------------
(* TurnkeyPackFilename *)

\* Mutant of RightPieces: the last five pieces and nothing before them.
LastPieces(text) ==
  LET pieces == Split(text, "_")
      n      == Len(pieces)
  IN  IF n < 5 THEN pieces ELSE SubSeq(pieces, n - 4, n)

\* rsplitn(5, '_'): the last four pieces, and all of the text before them.
RightPieces(text) ==
  LET pieces == Split(text, "_")
      n      == Len(pieces)
  IN  IF n < 5 THEN pieces
      ELSE <<Join(SubSeq(pieces, 1, n - 4), "_")>> \o SubSeq(pieces, n - 3, n)

PackFilenameError(text) ==
  LET pieces == RightPieces(text)
  IN  IF Len(pieces) < 5 \/ pieces[1] = <<>> THEN "InvalidPackFilename"
      ELSE IF ~ IsI32(pieces[5]) THEN "InvalidPackCount"
      ELSE CommonNameError(pieces[4])

PackFilename(text) ==
  LET pieces == RightPieces(text)
  IN  [source_name |-> pieces[1], from_party |-> pieces[2], to_party |-> pieces[3],
       common_name |-> CommonName(pieces[4]), pack_count |-> I32Value(pieces[5])]

RenderPackFilename(name) ==
  Join(<<name.source_name, name.from_party, name.to_party,
         RenderCommonName(name.common_name), Decimal(name.pack_count)>>, "_")

\* The name of the object in `/in`, and the filename of PFS001.
RemoteFilename(name) == RenderCommonName(name.common_name)

FilenameErrors ==
  {"InvalidPackFilename", "InvalidPackCount", "InvalidCommonNameParts",
   "InvalidCommonSegmentLength"}

-----------------------------------------------------------------------------
(* classify_remote_name: suffixes first, then the common name.             *)

ClassifyRemoteName(name) ==
  IF EndsWith(name, "ProcessResult") THEN "ProcessResult"
  ELSE IF EndsWith(name, "SummaryResult") THEN "SummaryResult"
  ELSE IF \E e \in {"E0501", "E0502", "E0503", "E0504"} : EndsWith(name, e) THEN "E05"
  ELSE IF EndsWith(name, "Ack") THEN "ExchangeAck"
  ELSE IF CommonNameError(name) = "Ok" THEN "Invoice"
  ELSE "Unknown"
=============================================================================
