--------------------------- MODULE ResultMessages ---------------------------
(***************************************************************************)
(* The result messages of crates/einvoice-results and the checks of        *)
(* SummaryMessage::validation_issues.  Counts are two's complement         *)
(* integers of the range -Half .. Half - 1 (Half = 2^31 for the i32 of the *)
(* code); their sum wraps around in a build without overflow checks and    *)
(* panics in one with them.                                                *)
(*                                                                         *)
(* Every field of a message that is only ever compared for equality is     *)
(* represented by the invoices of its lists or by one diagnostics value.   *)
(***************************************************************************)
EXTENDS MachineIntegers, Sequences, Functions

CONSTANTS
  OverflowChecks,  \* the build panics on overflow (debug and test profiles)
  Ids,             \* message ids that results refer to
  Invoices,        \* invoice references
  Diagnostics      \* contents of process results

ASSUME ResultsAssumption ==
  /\ Half \in Nat \ {0}
  /\ OverflowChecks \in BOOLEAN

ProcessResult == [id : Ids, diagnostics : Diagnostics]

ResultDetail == [count : Int32, invoices : Seq(Invoices)]

SummaryMessage ==
  [id : Ids, total : ResultDetail, good : ResultDetail, failed : ResultDetail]

Buckets == {"total", "good", "failed"}

-----------------------------------------------------------------------------

\* The sum of two i32 without overflow checks.
WrappingSum(a, b) ==
  IF a + b >= Half THEN a + b - 2 * Half
  ELSE IF a + b < -Half THEN a + b + 2 * Half
  ELSE a + b

\* validation_issues panics at good.count + failed.count.
SumPanics(m) ==
  OverflowChecks /\ m.good.count + m.failed.count \notin Int32

\* Mutant of ValidationIssues: negative counts pass.
ValidationIssuesSigned(m, expected) ==
  {<<"InvoiceListCountMismatch", b>> :
      b \in {c \in Buckets : /\ m[c].invoices # <<>>
                             /\ m[c].count # Len(m[c].invoices)}}
  \cup {<<"TotalMismatch", "total">> :
      b \in {c \in {"total"} :
               m[c].count # WrappingSum(m.good.count, m.failed.count)}}
  \cup {<<"ExpectedQuantityMismatch", "total">> :
      b \in {c \in {"total"} : m[c].count # expected}}

\* The issues of a message, each with the bucket it is about.
ValidationIssues(m, expected) ==
  {<<"NegativeCount", b>> : b \in {c \in Buckets : m[c].count < 0}}
  \cup {<<"InvoiceListCountMismatch", b>> :
      b \in {c \in Buckets : /\ m[c].invoices # <<>>
                             /\ m[c].count # Len(m[c].invoices)}}
  \cup {<<"TotalMismatch", b>> :
      b \in {c \in {"total"} :
               m[c].count # WrappingSum(m.good.count, m.failed.count)}}
  \cup {<<"ExpectedQuantityMismatch", b>> :
      b \in {c \in {"total"} : m[c].count # expected}}

\* What the checks are for: the breakdown adds up as whole numbers, to the
\* number of invoices that were submitted, and its lists are as long as said.
AddsUp(m, expected) ==
  /\ \A b \in Buckets :
       /\ m[b].count >= 0
       /\ m[b].invoices = <<>> \/ m[b].count = Len(m[b].invoices)
  /\ m.total.count = m.good.count + m.failed.count
  /\ m.total.count = expected
=============================================================================
