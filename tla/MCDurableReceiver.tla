------------------------- MODULE MCDurableReceiver -------------------------
(***************************************************************************)
(* Instances of DurableReceiver for TLC.                                   *)
(***************************************************************************)
EXTENDS DurableReceiver, TLC

CONSTANTS b0, b1, b2

\* An empty object, a short one and one that a download may cut short.
MCSize == [b \in Bodies |-> CASE b = b0 -> 0 [] b = b1 -> 1 [] b = b2 -> 2]

\* Contents that differ but have one size.
MCEqualSize == [b \in Bodies |-> 2]

\* Receivers are interchangeable.
Symmetry == Permutations(Receivers)
=============================================================================
