------------------------------ MODULE MCGateway ------------------------------
(* Finite instances of Gateway for TLC.                                    *)
EXTENDS Gateway, TLC

CONSTANTS r1, r2, r3, o1, good, bad, stray

\* Request r3 comes without a key; the others retry with the id it was told.
MCKeyOf == [r \in Requests |-> o1]

MCEndpoints == (r1 :> {"pubsub", "poll", "get"}) @@
               (r2 :> {"async"}) @@ (r3 :> {"sse"})

\* The last payment is posted without an order id.
MCPaysFor == [p \in Payments |-> IF p = stray THEN EmptyId ELSE o1]
=============================================================================
