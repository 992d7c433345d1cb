--------------------------- MODULE MCNativeSubmit ---------------------------
(***************************************************************************)
(* Instances of NativeSubmit for TLC.                                      *)
(***************************************************************************)
EXTENDS NativeSubmit, TLC

CONSTANTS n1, n2, a1, a2, a4

Plan(name, count, payloads, force) ==
  [name |-> name, packCount |-> count, payloads |-> payloads, force |-> force]

\* Two submissions, given to any of the commands; one that does not add up.
MCPlans == {Plan(n1, 1, 1, FALSE), Plan(n2, 1, 1, FALSE), Plan(n2, 1, 2, FALSE)}

\* One submission.
MCOnePlan == {Plan(n1, 1, 1, FALSE)}

\* Counts at the limit of 32 bits (three, here), beyond it, and negative.
MCForcedPlans == {Plan(n1, 3, 3, TRUE), Plan(n1, 3, 4, TRUE), Plan(n1, -1, 3, TRUE)}

\* A short artifact, a longer one, and one beyond the limit of 20 MiB and
\* beyond 32 bits.
MCLen == [a \in Artifacts |-> CASE a = a1 -> 1 [] a = a2 -> 2 [] a = a4 -> 4]

Symmetry == Permutations(Commands)
=============================================================================
