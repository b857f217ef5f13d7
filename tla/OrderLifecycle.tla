--------------------------- MODULE OrderLifecycle ---------------------------
(***************************************************************************)
(* What order-service promises to the rest of the system: every order      *)
(* moves through its life in atomic steps, each with the cancel events it  *)
(* owes, as if there were no transactions, locks, retries or concurrent    *)
(* consumers.  It says exactly what a consumer of the order topic may      *)
(* count on, the unguarded late payment and the repeated cancel event      *)
(* included.                                                               *)
(***************************************************************************)
EXTENDS Naturals, Sequences, FiniteSets

CONSTANTS
    Orders,         \* order ids
    Causes,         \* events that can cancel an order
    None            \* the cause of an expiry

VARIABLES
    status,     \* status of an order, "absent" before its creation
    cancels     \* the cancel events emitted so far

CancelRow(o, c) == [order |-> o, event |-> c]

\* The cancel events of a batch of expired orders, in any order.
BatchRows(b) == {s \in [1..Cardinality(b) -> {CancelRow(o, None) : o \in b}] :
                    \A o \in b : \E i \in DOMAIN s : s[i].order = o}

Init ==
    /\ status = [o \in Orders |-> "absent"]
    /\ cancels = <<>>

\* A reservation becomes an order, once.
Create(o) ==
    /\ status[o] = "absent"
    /\ status' = [status EXCEPT ![o] = "PENDING"]
    /\ UNCHANGED cancels

\* A completed payment pays the order, a cancelled one too.
Pay(o) ==
    /\ status[o] # "absent"
    /\ status' = [status EXCEPT ![o] = "PAID"]
    /\ UNCHANGED cancels

\* A declined payment cancels a PENDING order and emits its cancel event,
\* which it also does for an order that is not PENDING any more.
Decline(o, c) ==
    /\ status[o] # "absent"
    /\ status' = IF status[o] = "PENDING"
                   THEN [status EXCEPT ![o] = "CANCELLED"] ELSE status
    /\ cancels' = Append(cancels, CancelRow(o, c))

\* Unpaid orders expire together, each with one cancel event.
Expire(b) ==
    /\ \A o \in b : status[o] = "PENDING"
    /\ status' = [o \in Orders |-> IF o \in b THEN "CANCELLED" ELSE status[o]]
    /\ \E s \in BatchRows(b) : cancels' = cancels \o s

Next ==
    \/ \E o \in Orders : Create(o) \/ Pay(o)
    \/ \E o \in Orders, c \in Causes : Decline(o, c)
    \/ \E b \in SUBSET Orders : Expire(b)

vars == <<status, cancels>>

Spec == Init /\ [][Next]_vars
=============================================================================
