------------------------- MODULE MCSubmissionStore -------------------------
(***************************************************************************)
(* Instances of SubmissionStore for TLC.                                   *)
(***************************************************************************)
EXTENDS SubmissionStore

CONSTANTS own, other, ok, warn

Counts(id, g, f) ==
  [id     |-> id,
   total  |-> [count |-> g + f, invoices |-> <<>>],
   good   |-> [count |-> g, invoices |-> <<>>],
   failed |-> [count |-> f, invoices |-> <<>>]]

\* Two summaries that agree on nothing, each with an entry for another
\* message, and one that has two entries for this one.
Results ==
  {<<Counts(own, 2, 0), Counts(other, 1, 0)>>, <<Counts(own, 1, 1)>>,
   <<Counts(own, 1, 1), Counts(own, 2, 0)>>}

OneProcess == {[id |-> own, diagnostics |-> ok]}

NoMessages == {}
=============================================================================
