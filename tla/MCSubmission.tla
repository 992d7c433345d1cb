---------------------------- MODULE MCSubmission ----------------------------
(***************************************************************************)
(* Instances of Submission for TLC.                                        *)
(***************************************************************************)
EXTENDS Submission

CONSTANTS own, other, inv1, inv2, ok, warn

\* Invoice lists of the model: none, short and long ones.
Lists == {<<>>, <<inv1>>, <<inv2>>, <<inv1, inv2>>}

Bucket(n, list) == [count |-> n, invoices |-> list]

Message(id, total, good, failed) ==
  [id |-> id, total |-> total, good |-> good, failed |-> failed]

\* Every combination of counts, each bucket with or without a list.
EveryMessage ==
  {Message(own, Bucket(t, a), Bucket(g, b), Bucket(f, c)) :
     t, g, f \in Int32, a, b, c \in {<<>>, <<inv1>>}}

-----------------------------------------------------------------------------
(* A submission of two invoices and the messages about it.                 *)

Counts(id, g, f) ==
  Message(id, Bucket(g + f, <<>>), Bucket(g, <<>>), Bucket(f, <<>>))

AllGood == Counts(own, 2, 0)
Partial == Counts(own, 1, 1)

\* The same counts as Partial, with the failed invoice named.
Named == [Partial EXCEPT !.failed.invoices = <<inv1>>]

Results ==
  {<<AllGood>>, <<Counts(other, 2, 0), Partial>>, <<Named>>,
   <<Counts(other, 2, 0)>>, <<Partial, AllGood>>, <<Counts(own, 1, 0)>>}

Processes ==
  {[id |-> own, diagnostics |-> ok], [id |-> own, diagnostics |-> warn],
   [id |-> other, diagnostics |-> ok]}

\* Entries of summaries that are applied by themselves.
Entries == EveryMessage \cup {Counts(other, 2, 0)}
=============================================================================
