------------------------------- MODULE MCSaga -------------------------------
(* A finite instance of Saga for TLC.                                      *)
EXTENDS Saga, TLC

CONSTANTS o1, o2, o3, good, bad, other, Units

\* One unit less than orders.
MCInitialStock == [p \in Products |-> Units]

\* Two payments of one order, one of them declined, and one of the other.
MCPaysFor == [p \in Payments |-> IF p = other THEN o2 ELSE o1]
=============================================================================
