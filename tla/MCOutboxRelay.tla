--------------------------- MODULE MCOutboxRelay ---------------------------
(* Finite instances of OutboxRelay for TLC.                                *)
EXTENDS OutboxRelay, TLC

CONSTANTS a1, a2    \* aggregates

\* Rows 1 and 2 belong to one aggregate, the others to another.
MCAggregateOf == [i \in 1..MaxRows |-> IF i <= 2 THEN a1 ELSE a2]

Symmetry == Permutations(Workers)
=============================================================================
