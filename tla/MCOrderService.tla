--------------------------- MODULE MCOrderService ---------------------------
(* Finite instances of OrderService for TLC.                               *)
EXTENDS OrderService

CONSTANTS o1, o2, good, bad     \* orders, a completed and a declined payment

\* Both payments are for the first order.
MCPaysFor == [p \in Payments |-> o1]

\* The first order's event and its completed payment may come twice.
MCMaxDeliveries ==
    [e \in Orders \cup Payments |-> IF e \in {o1, good} THEN 2 ELSE 1]
=============================================================================
