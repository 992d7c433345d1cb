--------------------------- MODULE MigPrimitives ---------------------------
(***************************************************************************)
(* The lexical types of crates/einvoice-core and of primitives.rs of       *)
(* crates/einvoice-mig.  A parser keeps the text it accepts, so it is      *)
(* modelled by the texts it accepts; an enumeration is modelled by the     *)
(* token each of its variants is written as.  Numbers are read as in       *)
(* MessageNames.                                                           *)
(***************************************************************************)
EXTENDS MessageNames

\* Exactly this many letters and then this many digits.
OfShape(text, letters, digits) ==
  /\ Len(text) = letters + digits
  /\ \A i \in DOMAIN text : text[i] \in IF i <= letters THEN Uppers ELSE Digits

IsInvoiceNumber(text) == OfShape(text, 2, 8)
IsCurrencyCode(text)  == OfShape(text, 3, 0)

\* Ban::parse and B2C_BUYER: what an identifier of a party looks like.
IsBan(text)    == Len(text) \in 8 .. 10 /\ AllDigits(text)
IsB2cBuyer(id) == id = [i \in 1 .. 10 |-> "0"]

-----------------------------------------------------------------------------
(* Dates and times *)

\* parse_two, of the two digits that begin at i.
ParseTwo(text, i) == 10 * DigitValue[text[i]] + DigitValue[text[i + 1]]

Year(date)  == 100 * ParseTwo(date, 1) + ParseTwo(date, 3)
Month(date) == ParseTwo(date, 5)
Day(date)   == ParseTwo(date, 7)

IsMigDate(text) ==
  /\ Len(text) = 8 /\ AllDigits(text)
  /\ Month(text) \in 1 .. 12
  /\ Day(text) \in 1 .. 31

\* Mutant of IsLeapYear: the rule of the centuries is forgotten.
IsJulianLeapYear(year) == year % 4 = 0

IsLeapYear(year) == year % 400 = 0 \/ (year % 4 = 0 /\ year % 100 # 0)

IsCalendarDate(date) ==
  Day(date) <= CASE Month(date) \in {1, 3, 5, 7, 8, 10, 12} -> 31
                 [] Month(date) \in {4, 6, 9, 11}           -> 30
                 [] Month(date) = 2 -> IF IsLeapYear(Year(date)) THEN 29 ELSE 28

IsMigTime(text) ==
  /\ Len(text) = 8 /\ text[3] = ":" /\ text[6] = ":"
  /\ \A i \in {1, 2, 4, 5, 7, 8} : text[i] \in Digits
  /\ ParseTwo(text, 1) <= 23 /\ ParseTwo(text, 4) <= 59 /\ ParseTwo(text, 7) <= 59

-----------------------------------------------------------------------------
(* Decimals *)

\* Mutant of MigDecimal: an empty fraction is no fraction.
MigDecimalLax(text, facets) ==
  LET negative == text # <<>> /\ text[1] = "-"
      parts    == Split(IF negative THEN Tail(text) ELSE text, ".")
      fraction == IF Len(parts) = 2 THEN Len(parts[2]) ELSE 0
  IN  CASE ~ (AllDigits(parts[1]) /\ parts[1] # <<>> /\ Len(parts) <= 2) -> "InvalidDecimal"
        [] facets.nonNegative /\ negative -> "NegativeDecimal"
        [] Len(parts) = 2 /\ ~ AllDigits(parts[2]) -> "InvalidDecimal"
        [] Len(parts[1]) + fraction > facets.total \/ fraction > facets.fraction ->
             "DecimalPrecision"
        [] OTHER -> "Ok"

\* MigDecimal::parse under facets [total, fraction, nonNegative].
MigDecimal(text, facets) ==
  LET negative == text # <<>> /\ text[1] = "-"
      unsigned == IF negative THEN Tail(text) ELSE text
      parts    == Split(unsigned, ".")
      fraction == IF Len(parts) = 2 THEN Len(parts[2]) ELSE 0
  IN  CASE unsigned = <<>> \/ text[1] = "+"  -> "InvalidDecimal"
        [] facets.nonNegative /\ negative    -> "NegativeDecimal"
        [] \/ Len(parts) > 2
           \/ \E i \in DOMAIN parts : parts[i] = <<>> \/ ~ AllDigits(parts[i])
                                             -> "InvalidDecimal"
        [] \/ Len(parts[1]) + fraction > facets.total
           \/ fraction > facets.fraction     -> "DecimalPrecision"
        [] OTHER                             -> "Ok"

-----------------------------------------------------------------------------
(* Enumerations: the token each variant is written as (wire_value).        *)

InvoiceType == [GeneralTax |-> "07", SpecialTax |-> "08"]
DonateMark  == [NotDonated |-> "0", Donated |-> "1"]
PrintMark   == [mark \in {"Print", "DoNotPrint"} |-> IF mark = "Print" THEN "Y" ELSE "N"]
TaxType == [Taxable |-> "1", ZeroRated |-> "2", TaxFree |-> "3",
            SpecialTax |-> "4", Mixed |-> "9"]
TaxRate == [Zero |-> "0", OnePercent |-> "0.01", TwoPercent |-> "0.02",
            FivePercent |-> "0.05", FifteenPercent |-> "0.15",
            TwentyFivePercent |-> "0.25"]
BuyerRemark ==
  [DeductibleExpense |-> "1", DeductibleFixedAsset |-> "2",
   NonDeductibleExpense |-> "3", NonDeductibleFixedAsset |-> "4"]
CustomsClearanceMark == [NotThroughCustoms |-> "1", ThroughCustoms |-> "2"]
BondedArea == [Article7Paragraph4 |-> "1", Article7Paragraph7 |-> "2",
               FreeTradeZone |-> "3", Other |-> "4"]

\* ZeroTaxRateReason: 71 through 79, written in decimal.
ZeroTaxRateReason ==
  [value \in 71 .. 79 |->
     <<"71", "72", "73", "74", "75", "76", "77", "78", "79">>[value - 70]]
=============================================================================
