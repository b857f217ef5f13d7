----------------------------- MODULE StockLedger -----------------------------
(***************************************************************************)
(* What inventory-service promises to the rest of the system: a stock      *)
(* counter per product, from which reservations take units in atomic steps *)
(* and to which they are given back, as if there were no Redis keys, no    *)
(* second write to an outbox, no scans and no grace periods.               *)
(*                                                                         *)
(* A reservation that took its units is either announced to order-service  *)
(* or repaired, once and never both; only the stock of an announced one is *)
(* given back by order-service's cancel events, each of which adds the     *)
(* units however often it comes.                                           *)
(***************************************************************************)
EXTENDS Integers

CONSTANTS
    Products,       \* products
    Reservations,   \* requests for stock
    InitialStock    \* [Products -> Nat]

VARIABLES
    stock,      \* [Products -> Int], units left
    stage,      \* how far a reservation is
    units,      \* [Reservations -> [product, qty]], once it took its units
    refunds,    \* [Reservations -> Nat], cancel events handled
    released    \* [Products -> Nat], units put back by operators

Stages == {"none", "taken", "announced", "repaired"}

Nothing == [product |-> "none", qty |-> 0]

Init ==
    /\ stock = InitialStock
    /\ stage = [r \in Reservations |-> "none"]
    /\ units = [r \in Reservations |-> Nothing]
    /\ refunds = [r \in Reservations |-> 0]
    /\ released = [p \in Products |-> 0]

Goto(r, from, to) == stage[r] = from /\ stage' = [stage EXCEPT ![r] = to]

Add(p, q) == stock' = [stock EXCEPT ![p] = @ + q]

\* A reservation takes its units if there are as many left.
Take(r, p, q) ==
    /\ Goto(r, "none", "taken")
    /\ stock[p] >= q
    /\ Add(p, -q)
    /\ units' = [units EXCEPT ![r] = [product |-> p, qty |-> q]]
    /\ UNCHANGED <<refunds, released>>

\* order-service is, or will be, told of the reservation.
Announce(r) ==
    /\ Goto(r, "taken", "announced")
    /\ UNCHANGED <<stock, units, refunds, released>>

\* A reservation that nobody will be told of is undone.
Repair(r) ==
    /\ Goto(r, "taken", "repaired")
    /\ Add(units[r].product, units[r].qty)
    /\ UNCHANGED <<units, refunds, released>>

\* A cancel event of the order is handled.
GiveBack(r) ==
    /\ stage[r] = "announced"
    /\ Add(units[r].product, units[r].qty)
    /\ refunds' = [refunds EXCEPT ![r] = @ + 1]
    /\ UNCHANGED <<stage, units, released>>

\* An operator puts units back.
Release(p, q) ==
    /\ Add(p, q)
    /\ released' = [released EXCEPT ![p] = @ + q]
    /\ UNCHANGED <<stage, units, refunds>>

\* The service starts again and writes the initial stock.
Reset == stock' = InitialStock /\ UNCHANGED <<stage, units, refunds, released>>

Next ==
    \/ \E r \in Reservations, p \in Products : \E q \in 1..stock[p] : Take(r, p, q)
    \/ \E r \in Reservations : Announce(r) \/ Repair(r) \/ GiveBack(r)
    \/ \E p \in Products : Release(p, stock'[p] - stock[p])
    \/ Reset

vars == <<stock, stage, units, refunds, released>>

Spec == Init /\ [][Next]_vars
=============================================================================
