-------------------------------- MODULE Saga --------------------------------
(***************************************************************************)
(* The checkout saga from end to end: what inventory-service promises      *)
(* (StockLedger, which Inventory implements), what order-service promises  *)
(* (OrderLifecycle, which OrderService implements), and payment-service,   *)
(* joined by their events.                                                 *)
(*                                                                         *)
(* Of an event the relays and consumers promise (OutboxRelay,              *)
(* KafkaConsumer) that it is handled, possibly more than once and in any   *)
(* order with events of other topics, or that it ends where nobody handles *)
(* it: in the dead letter queue, as a FAILED row, or lost by a consumer    *)
(* that skipped it.  All of these are "parked" here.                       *)
(*                                                                         *)
(* A reservation, its idempotency key and its order are one and the same   *)
(* (OneRowPerKey); the gateway asks for one unit.  A restart of            *)
(* inventory-service, which resets the stock, is left to Inventory.        *)
(***************************************************************************)
EXTENDS Integers, Sequences, FiniteSets

CONSTANTS
    Orders,         \* order ids
    Products,       \* products
    InitialStock,   \* [Products -> Nat]
    Payments,       \* payments, and their events
    PaysFor,        \* [Payments -> Orders]
    Declined,       \* payments that the bank declines
    None,           \* the cause of an expiry
    MaxRepeats,     \* bound on events handled once more
    MaxParked       \* bound on events parked

ASSUME SagaAssumption ==
    /\ InitialStock \in [Products -> Nat]
    /\ PaysFor \in [Payments -> Orders]
    /\ Declined \subseteq Payments
    /\ None \notin Payments
    /\ MaxRepeats \in Nat
    /\ MaxParked \in Nat

VARIABLES
    stock, stage, units, refunds, released,     \* the ledger
    status, cancels,                            \* the orders
    saved,      \* payments recorded, each with its event
    handled,    \* payments whose event was handled
    settled,    \* cancel events, by position, that were handled
    parked,     \* events nobody handles any more
    repeats     \* events handled once more so far

ledger == <<stock, stage, units, refunds, released>>
orders == <<status, cancels>>
vars   == <<ledger, orders, saved, handled, settled, parked, repeats>>

Ledger    == INSTANCE StockLedger WITH Reservations <- Orders
Lifecycle == INSTANCE OrderLifecycle WITH Causes <- Declined

\* The three kinds of events.
Reserved(o)  == [kind |-> "StockReserved", order |-> o]
PaymentOf(p) == [kind |-> "Payment", payment |-> p]
CancelAt(i)  == [kind |-> "OrderCancelled", position |-> i]

Events == {Reserved(o) : o \in Orders} \cup {PaymentOf(p) : p \in Payments}
            \cup {CancelAt(i) : i \in DOMAIN cancels}

\* What a reservation takes.
OneUnit == [product : Products, qty : {1}]

TypeOK ==
    /\ stock \in [Products -> Int]
    /\ stage \in [Orders -> Ledger!Stages]
    /\ units \in [Orders -> OneUnit \cup {Ledger!Nothing}]
    /\ \A o \in Orders : stage[o] # "none" => units[o] \in OneUnit
    /\ refunds \in [Orders -> Nat]
    /\ status \in [Orders -> {"absent", "PENDING", "PAID", "CANCELLED"}]
    /\ \A o \in Orders : status[o] # "absent" => stage[o] = "announced"
    /\ cancels \in Seq([order : Orders, event : Declined \cup {None}])
    /\ handled \subseteq saved /\ saved \subseteq Payments
    /\ settled \subseteq DOMAIN cancels
    /\ parked \subseteq Events
    /\ repeats \in 0..MaxRepeats

Init ==
    /\ Ledger!Init
    /\ Lifecycle!Init
    /\ saved = {}
    /\ handled = {}
    /\ settled = {}
    /\ parked = {}
    /\ repeats = 0

-----------------------------------------------------------------------------
(* inventory-service.                                                      *)

Reserve(o) ==
    /\ \E p \in Products : Ledger!Take(o, p, 1)
    /\ UNCHANGED <<orders, saved, handled, settled, parked, repeats>>

Announce(o) ==
    /\ Ledger!Announce(o)
    /\ UNCHANGED <<orders, saved, handled, settled, parked, repeats>>

\* Mutant of Repair: the job does not look into the outbox.
RepairAnnounced(o) ==
    /\ stage[o] \in {"taken", "announced"}
    /\ stage' = [stage EXCEPT ![o] = IF @ = "taken" THEN "repaired" ELSE @]
    /\ stock' = [stock EXCEPT ![units[o].product] = @ + 1]
    /\ UNCHANGED <<units, refunds, released, orders, saved, handled, settled,
                   parked, repeats>>

Repair(o) ==
    /\ Ledger!Repair(o)
    /\ UNCHANGED <<orders, saved, handled, settled, parked, repeats>>

\* The OrderCancelledEvent at position i gives the units back, every time.
GiveBack(i) ==
    /\ CancelAt(i) \notin parked
    /\ Ledger!GiveBack(cancels[i].order)
    /\ \/ /\ i \notin settled
          /\ settled' = settled \cup {i}
          /\ UNCHANGED repeats
       \/ /\ i \in settled
          /\ repeats < MaxRepeats
          /\ repeats' = repeats + 1
          /\ UNCHANGED settled
    /\ UNCHANGED <<orders, saved, handled, parked>>

-----------------------------------------------------------------------------
(* order-service.                                                          *)

\* Mutant of CreateOrder: the event comes out before its row is committed.
CreateOrderEarly(o) ==
    /\ stage[o] \in {"taken", "announced"}
    /\ Lifecycle!Create(o)
    /\ UNCHANGED <<ledger, saved, handled, settled, parked, repeats>>

CreateOrder(o) ==
    /\ stage[o] = "announced"
    /\ Reserved(o) \notin parked
    /\ Lifecycle!Create(o)
    /\ UNCHANGED <<ledger, saved, handled, settled, parked, repeats>>

\* Mutant of Complete: only a PENDING order is paid.
CompletePending(o) ==
    IF status[o] = "PENDING" THEN Lifecycle!Pay(o) ELSE UNCHANGED orders

\* A completed payment updates the row of its order, if there is one.
Complete(o) ==
    IF status[o] = "absent" THEN UNCHANGED orders ELSE Lifecycle!Pay(o)

\* A payment event takes effect.  A redelivered completed one is recognised and
\* ignored; a redelivered declined one emits its cancel event again.
HandlePayment(p) ==
    /\ p \in saved
    /\ PaymentOf(p) \notin parked
    /\ IF p \in Declined
         THEN Lifecycle!Decline(PaysFor[p], p)
         ELSE p \notin handled /\ Complete(PaysFor[p])
    /\ handled' = handled \cup {p}
    /\ \/ p \notin handled /\ UNCHANGED repeats
       \/ p \in handled /\ repeats < MaxRepeats /\ repeats' = repeats + 1
    /\ UNCHANGED <<ledger, saved, settled, parked>>

\* Mutant of Expire: the batch writes no outbox rows.
ExpireSilently(o) ==
    /\ status[o] = "PENDING"
    /\ status' = [status EXCEPT ![o] = "CANCELLED"]
    /\ UNCHANGED <<ledger, cancels, saved, handled, settled, parked, repeats>>

\* The timeout worker cancels an unpaid order.  (A batch of several is as good
\* as one after the other.)
Expire(o) ==
    /\ Lifecycle!Expire({o})
    /\ UNCHANGED <<ledger, saved, handled, settled, parked, repeats>>

-----------------------------------------------------------------------------
(* payment-service, and the ways events get lost.                          *)

\* The customer pays for an order: it may not exist yet, since its id is the
\* idempotency key, and it may be paid already.
Pay(p) ==
    /\ p \notin saved
    /\ stage[PaysFor[p]] = "announced"
    /\ saved' = saved \cup {p}
    /\ UNCHANGED <<ledger, orders, handled, settled, parked, repeats>>

\* Events that were emitted and have not been handled.
Pending ==
    {Reserved(o) : o \in {o \in Orders : stage[o] = "announced"
                                         /\ status[o] = "absent"}}
    \cup {PaymentOf(p) : p \in saved \ handled}
    \cup {CancelAt(i) : i \in DOMAIN cancels \ settled}

\* A declined payment whose order does not exist fails whenever it is tried.
Hopeless == {PaymentOf(p) : p \in {p \in Declined \cap (saved \ handled) :
                                     status[PaysFor[p]] = "absent"}}

\* An event is parked: after its attempts, or because something failed.
Park(e) ==
    /\ e \in Pending \ parked
    /\ e \in Hopeless \/ Cardinality(parked) < MaxParked
    /\ parked' = parked \cup {e}
    /\ UNCHANGED <<ledger, orders, saved, handled, settled, repeats>>

-----------------------------------------------------------------------------

Next ==
    \/ \E o \in Orders : Reserve(o) \/ Announce(o) \/ Repair(o)
                         \/ CreateOrder(o) \/ Expire(o)
    \/ \E p \in Payments : Pay(p) \/ HandlePayment(p)
    \/ \E i \in DOMAIN cancels : GiveBack(i)
    \/ \E e \in Pending : Park(e)

Spec == Init /\ [][Next]_vars

\* The handler or the job finishes a reservation (NoLeakForgotten), what was
\* published and not parked is handled (EveryRowSettled, EveryRecordHandled),
\* and an unpaid order expires (PendingIsResolved).  Nobody has to pay.
Fairness ==
    /\ \A o \in Orders : /\ WF_vars(Announce(o) \/ Repair(o))
                         /\ WF_vars(CreateOrder(o))
                         /\ WF_vars(Expire(o))
    /\ \A p \in Payments : WF_vars(p \notin handled /\ HandlePayment(p))
    /\ \A o \in Orders :
         WF_vars(\E i \in DOMAIN cancels \ settled :
                   cancels[i].order = o /\ GiveBack(i))

FairSpec == Spec /\ Fairness

-----------------------------------------------------------------------------
(* Properties.                                                             *)

CancelsOf(o) == {i \in DOMAIN cancels : cancels[i].order = o}

\* The causes of a unit given back that was not free: an event handled twice, a
\* second cancel event of an order, or a cancelled order that is paid after all.
Undisturbed ==
    /\ repeats = 0
    /\ \A o \in Orders :
         /\ \A i, j \in CancelsOf(o) : i = j
         /\ status[o] = "PAID" => CancelsOf(o) = {}

\* Reservations whose units are not in the stock.
Holding(p) ==
    {o \in Orders : /\ stage[o] \in {"taken", "announced"}
                    /\ units[o].product = p
                    /\ ~(status[o] = "CANCELLED" /\ refunds[o] > 0)}

\* README.md:105: units are neither lost nor sold twice.  Unless one of the
\* causes above occurred, every unit is in the stock or held by one reservation
\* that is under way, PENDING, PAID or about to be refunded.  Parked events do
\* not change that.
Conserved ==
    Undisturbed =>
        \A p \in Products :
            stock[p] >= 0 /\ stock[p] + Cardinality(Holding(p)) = InitialStock[p]

\* An event of the order, or of a cancel event of it, that nobody will handle.
Abandoned(o) ==
    \/ Reserved(o) \in parked
    \/ \E i \in CancelsOf(o) : CancelAt(i) \in parked

\* checkout-saga.md:230: no unit is held for ever by an order nobody pays.  A
\* reservation is repaired, or its order is PAID, or its units are given back,
\* unless one of the events that had to bring this about was parked.
EveryUnitSettled ==
    \A o \in Orders :
        stage[o] = "taken" ~>
            \/ stage[o] = "repaired"
            \/ status[o] = "PAID"
            \/ status[o] = "CANCELLED" /\ refunds[o] > 0
            \/ Abandoned(o)

\* checkout-saga.md:134: a completed payment that finds its order pays it, even
\* if the order was cancelled, or the payment is declined, in the meantime.  (A
\* payment handled before its order exists, because it overtook the
\* StockReservedEvent or that event was parked, is marked as processed and has
\* no effect.)
PaymentCounts ==
    \A p \in Payments \ Declined :
        p \in saved \ handled /\ status[PaysFor[p]] # "absent" ~>
            status[PaysFor[p]] = "PAID" \/ PaymentOf(p) \in parked
=============================================================================
