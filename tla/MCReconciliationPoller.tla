----------------------- MODULE MCReconciliationPoller -----------------------
(***************************************************************************)
(* Instances of ReconciliationPoller for TLC.                              *)
(***************************************************************************)
EXTENDS ReconciliationPoller, TLC

CONSTANTS b0, b1, b2

\* An empty body, a short one and a long one.
MCSize == [b \in Bodies |-> CASE b = b0 -> 0 [] b = b1 -> 1 [] b = b2 -> 2]

\* A download that is cut short is empty.
MCUnitSize == [b \in Bodies |-> 1]

Symmetry == Permutations(Receivers)
=============================================================================
