---------------------------- MODULE MCInventory ----------------------------
(* Finite instances of Inventory for TLC.                                  *)
EXTENDS Inventory, TLC

CONSTANTS StockLevel    \* what every product starts with

MCInitialStock == [p \in Products |-> StockLevel]

\* Calls, keys and cancel events are interchangeable.
Symmetry == Permutations(Calls) \cup Permutations(Keys)
              \cup Permutations(CancelEvents)
=============================================================================
