---------------------------- MODULE OrderService ----------------------------
(***************************************************************************)
(* order-service: its Postgres tables orders, processed_events and         *)
(* outbox_messages, the three Kafka event handlers, and the timeout        *)
(* worker.                                                                 *)
(*                                                                         *)
(* A thread is a consumer of some replica executing one handler; a worker  *)
(* is the timeout worker of some replica.  Each SQL statement is a step,   *)
(* transactions run at Postgres' default isolation READ COMMITTED: a       *)
(* statement sees what was committed before it, an UPDATE or SELECT FOR    *)
(* UPDATE locks the rows it touches until the end of its transaction, and  *)
(* an INSERT of a primary key waits for a transaction that has inserted    *)
(* the same key and fails once that has committed.  The tables hold what   *)
(* is committed; what a transaction has written and not committed is       *)
(* implied by its locks, its position and the two flags hit and batch.     *)
(*                                                                         *)
(* The id of an order is the idempotency key of its StockReservedEvent,    *)
(* and so is the id of that event; an order and its event are one element  *)
(* of Orders.                                                              *)
(***************************************************************************)
EXTENDS Naturals, Sequences, FiniteSets

CONSTANTS
    Orders,         \* order ids, which are ids of StockReservedEvents too
    Payments,       \* ids of payment events
    PaysFor,        \* [Payments -> Orders]
    Declined,       \* the payment events that are PaymentFailedEvents
    Threads,        \* Kafka consumers
    Workers,        \* timeout workers
    BatchLimit,     \* LIMIT of the timeout worker's query (100)
    None,           \* no event, no owner
    MaxDeliveries,  \* [event -> Nat], bound on the deliveries of each event
    MaxAborts       \* bound on the failed transactions of the workers

ASSUME OrderAssumption ==
    /\ IsFiniteSet(Orders)
    /\ Orders \cap Payments = {}
    /\ Threads \cap Workers = {}
    /\ None \notin Orders \cup Payments \cup Threads \cup Workers
    /\ PaysFor \in [Payments -> Orders]
    /\ Declined \subseteq Payments
    /\ BatchLimit \in Nat \ {0}
    /\ MaxDeliveries \in [Orders \cup Payments -> Nat]
    /\ MaxAborts \in Nat

VARIABLES
    orders,     \* status of an order, "absent" when there is no row
    old,        \* orders created more than 15 minutes ago
    processed,  \* processed_events
    outbox,     \* outbox_messages: OrderCancelledEvents in id order
    orderLock,  \* owner of the row lock, or of the uncommitted INSERT
    eventLock,  \* owner of an uncommitted INSERT INTO processed_events
    ev,         \* the event a thread is handling, or None
    pc,         \* the next statement of a thread or worker
    hit,        \* did the thread's UPDATE match a row?
    batch,      \* orders a worker has selected and locked
    aborts,     \* number of failed transactions of the workers so far
    deliveries  \* how often an event was handed to a consumer

tables == <<orders, processed, outbox>>
locks  == <<orderLock, eventLock>>
thread == <<ev, hit>>
worker == <<batch, aborts>>
vars   == <<tables, old, locks, thread, worker, pc, deliveries>>

Events   == Orders \cup Payments
Owners   == Threads \cup Workers
Status   == {"absent", "PENDING", "PAID", "CANCELLED"}
Labels   == {"idle", "get", "check", "write", "mark", "commit", "publish"}
OrderOf(e) == IF e \in Orders THEN e ELSE PaysFor[e]

\* What the service promises; see the end of the module.  A row of the outbox,
\* CancelRow(o, e), names the order and the event id in the payload, which is
\* that of the failed payment, or None for the fresh uuid of the worker.
Lifecycle == INSTANCE OrderLifecycle
               WITH status <- orders, cancels <- outbox, Causes <- Declined

Kind(e) == IF e \in Orders THEN "reserved"
           ELSE IF e \in Declined THEN "declined" ELSE "completed"

TypeOK ==
    /\ orders \in [Orders -> Status]
    /\ old \in SUBSET Orders
    /\ processed \in SUBSET Events
    /\ outbox \in Seq([order : Orders, event : Payments \cup {None}])
    /\ orderLock \in [Orders -> Owners \cup {None}]
    /\ eventLock \in [Events -> Threads \cup {None}]
    /\ ev \in [Threads -> Events \cup {None}]
    /\ pc \in [Owners -> Labels]
    /\ hit \in [Threads -> BOOLEAN]
    /\ batch \in [Workers -> SUBSET Orders]
    /\ aborts \in Nat
    /\ deliveries \in [Events -> Nat]

Init ==
    /\ orders = [o \in Orders |-> "absent"]
    /\ old = {}
    /\ processed = {}
    /\ outbox = <<>>
    /\ orderLock = [o \in Orders |-> None]
    /\ eventLock = [e \in Events |-> None]
    /\ ev = [t \in Threads |-> None]
    /\ pc = [x \in Owners |-> "idle"]
    /\ hit = [t \in Threads |-> FALSE]
    /\ batch = [w \in Workers |-> {}]
    /\ aborts = 0
    /\ deliveries = [e \in Events |-> 0]

-----------------------------------------------------------------------------
(* Transactions.                                                           *)

Free(lock, x, me) == lock[x] \in {None, me}

\* COMMIT and ROLLBACK release every lock of the transaction.
ReleaseLocks(me) ==
    /\ orderLock' = [o \in Orders |-> IF orderLock[o] = me THEN None
                                      ELSE orderLock[o]]
    /\ eventLock' = [e \in Events |-> IF eventLock[e] = me THEN None
                                      ELSE eventLock[e]]

Goto(x, label) == pc' = [pc EXCEPT ![x] = label]

\* The thread is through with its event, with or without success.
Finish(t) ==
    /\ Goto(t, "idle")
    /\ ev' = [ev EXCEPT ![t] = None]
    /\ hit' = [hit EXCEPT ![t] = FALSE]

-----------------------------------------------------------------------------
(* The handlers.                                                           *)

\* A consumer is given an event: for the first time, by a retry, or again
\* after a rebalance, a crash or a duplicate publication.  Events of the two
\* topics come in any order.
Deliver(t, e) ==
    /\ pc[t] = "idle"
    /\ deliveries[e] < MaxDeliveries[e]
    /\ deliveries' = [deliveries EXCEPT ![e] = @ + 1]
    /\ ev' = [ev EXCEPT ![t] = e]
    /\ Goto(t, IF Kind(e) = "declined" THEN "get" ELSE "check")
    /\ UNCHANGED <<tables, old, locks, hit, worker>>

\* HandlePaymentFailed reads the order outside of any transaction; without a
\* row the handler fails.
GetOrder(t) ==
    /\ pc[t] = "get"
    /\ IF orders[OrderOf(ev[t])] = "absent"
         THEN Finish(t)
         ELSE Goto(t, "check") /\ UNCHANGED thread
    /\ UNCHANGED <<tables, old, locks, worker, deliveries>>

\* SELECT EXISTS ... processed_events.  The duplicate is skipped without an
\* error, so the handler still publishes its status.
CheckProcessed(t) ==
    /\ pc[t] = "check"
    /\ Goto(t, IF ev[t] \in processed THEN "publish" ELSE "write")
    /\ UNCHANGED <<tables, old, locks, thread, worker, deliveries>>

\* INSERT INTO orders: waits for another uncommitted INSERT of the key, fails
\* when the row exists.
InsertOrder(t) ==
    LET o == ev[t]
    IN  /\ pc[t] = "write"
        /\ Kind(ev[t]) = "reserved"
        /\ Free(orderLock, o, t)
        /\ IF orders[o] # "absent"
             THEN Finish(t) /\ ReleaseLocks(t)
             ELSE /\ orderLock' = [orderLock EXCEPT ![o] = t]
                  /\ Goto(t, "mark")
                  /\ UNCHANGED <<eventLock, thread>>
        /\ UNCHANGED <<tables, old, worker, deliveries>>

\* Mutant of Matches: the cancel does not ask for PENDING.
MatchesAnyStatus(e, o) == orders[o] # "absent"

\* The WHERE clause of the UPDATE: by id alone for a completed payment, by id
\* and PENDING status for a declined one.
Matches(e, o) == IF Kind(e) = "declined" THEN orders[o] = "PENDING"
                 ELSE orders[o] # "absent"

\* UPDATE orders: waits for the lock of a row that matches, evaluates the
\* condition on what is committed then, and does not look at how many rows it
\* matched.
UpdateStatus(t) ==
    LET e == ev[t]
        o == OrderOf(e)
    IN  /\ pc[t] = "write"
        /\ Kind(e) # "reserved"
        /\ Matches(e, o) => Free(orderLock, o, t)
        /\ hit' = [hit EXCEPT ![t] = Matches(e, o)]
        /\ orderLock' = IF Matches(e, o)
                          THEN [orderLock EXCEPT ![o] = t] ELSE orderLock
        /\ Goto(t, IF Kind(e) = "declined" THEN "commit" ELSE "mark")
        /\ UNCHANGED <<tables, old, eventLock, ev, worker, deliveries>>

\* Mutant of MarkProcessed: ON CONFLICT DO NOTHING.
MarkIgnoresConflict(t) ==
    /\ pc[t] = "mark"
    /\ Free(eventLock, ev[t], t)
    /\ eventLock' = [eventLock EXCEPT ![ev[t]] = t]
    /\ Goto(t, "commit")
    /\ UNCHANGED <<orderLock, thread, tables, old, worker, deliveries>>

\* INSERT INTO processed_events: waits for another uncommitted INSERT of the
\* key, fails when the row exists.  CancelOrderAndEmitEvent has no such step.
MarkProcessed(t) ==
    LET e == ev[t]
    IN  /\ pc[t] = "mark"
        /\ Free(eventLock, e, t)
        /\ IF e \in processed
             THEN Finish(t) /\ ReleaseLocks(t)
             ELSE /\ eventLock' = [eventLock EXCEPT ![e] = t]
                  /\ Goto(t, "commit")
                  /\ UNCHANGED <<orderLock, thread>>
        /\ UNCHANGED <<tables, old, worker, deliveries>>

\* Mutant of NewStatus: a status left at Go's zero value.
NewStatusUnset(e) == IF Kind(e) = "completed" THEN "" ELSE "PENDING"

NewStatus(e) == CASE Kind(e) = "reserved"  -> "PENDING"
                  [] Kind(e) = "completed" -> "PAID"
                  [] Kind(e) = "declined"  -> "CANCELLED"

\* Mutants of CommitOrder and CommitOutbox: the UPDATE creates a missing row;
\* the cancel event is forgotten.
CommitOrderUpserts(t, e, o) == orders' = [orders EXCEPT ![o] = NewStatus(e)]
CommitOutboxForgets(e, o)   == UNCHANGED outbox

\* What the transaction of event e leaves behind.
CommitOrder(t, e, o) ==
    orders' = IF Kind(e) = "reserved" \/ hit[t]
                THEN [orders EXCEPT ![o] = NewStatus(e)] ELSE orders
CommitProcessed(e) ==
    processed' = IF Kind(e) = "declined" THEN processed
                 ELSE processed \cup {e}
CommitOutbox(e, o) ==
    outbox' = IF Kind(e) = "declined"
                THEN Append(outbox, Lifecycle!CancelRow(o, e)) ELSE outbox

\* COMMIT.  The connection may break after the commit took effect: then the
\* handler reports an error and the event is delivered again.
Commit(t) ==
    LET e == ev[t]
        o == OrderOf(e)
    IN  /\ pc[t] = "commit"
        /\ CommitOrder(t, e, o)
        /\ CommitProcessed(e)
        /\ CommitOutbox(e, o)
        /\ ReleaseLocks(t)
        /\ \/ Goto(t, "publish") /\ UNCHANGED thread
           \/ Finish(t)
        /\ UNCHANGED <<old, worker, deliveries>>

\* rdb.Publish of the status the handler meant to set, then return.  Pub/Sub
\* keeps nothing: whoever is subscribed to the order's channel gets
\* NewStatus(ev[t]), nobody else ever will.
PublishStatus(t) ==
    /\ pc[t] = "publish"
    /\ Finish(t)
    /\ UNCHANGED <<tables, old, locks, worker, deliveries>>

\* A statement fails or the consumer dies: the transaction is rolled back.
Abort(t) ==
    /\ pc[t] # "idle"
    /\ Finish(t)
    /\ ReleaseLocks(t)
    /\ UNCHANGED <<tables, old, worker, deliveries>>

-----------------------------------------------------------------------------
(* The timeout worker.                                                     *)

\* Fifteen minutes pass for an order.
GrowOld(o) ==
    /\ orders[o] # "absent"
    /\ o \notin old
    /\ old' = old \cup {o}
    /\ UNCHANGED <<tables, locks, thread, worker, pc, deliveries>>

\* Mutants of Expired: rows locked by others are not skipped; the comparison
\* with now is the wrong way round.
ExpiredLockedToo == {o \in Orders : orders[o] = "PENDING" /\ o \in old}
ExpiredTooYoung  == {o \in Orders : /\ orders[o] = "PENDING"
                                    /\ o \notin old
                                    /\ orderLock[o] = None}

Expired == {o \in Orders : /\ orders[o] = "PENDING"
                           /\ o \in old
                           /\ orderLock[o] = None}

\* SELECT ... FOR UPDATE SKIP LOCKED LIMIT: locks up to BatchLimit expired
\* orders nobody has locked, in no particular order.
SelectExpired(w) ==
    /\ pc[w] = "idle"
    /\ \E b \in SUBSET Expired :
          /\ b # {}
          /\ \/ b = Expired /\ Cardinality(b) <= BatchLimit
             \/ Cardinality(b) = BatchLimit
          /\ batch' = [batch EXCEPT ![w] = b]
          /\ orderLock' = [o \in Orders |-> IF o \in b THEN w
                                            ELSE orderLock[o]]
    /\ Goto(w, "commit")
    /\ UNCHANGED <<tables, old, eventLock, thread, aborts, deliveries>>

EndBatch(w) ==
    /\ Goto(w, "idle")
    /\ batch' = [batch EXCEPT ![w] = {}]
    /\ ReleaseLocks(w)

\* For each order of the batch UPDATE to CANCELLED and INSERT of an outbox row,
\* then COMMIT of the whole batch.  The worker publishes no status.
CommitBatch(w) ==
    /\ pc[w] = "commit"
    /\ orders' = [o \in Orders |-> IF o \in batch[w] THEN "CANCELLED"
                                   ELSE orders[o]]
    /\ \E s \in Lifecycle!BatchRows(batch[w]) : outbox' = outbox \o s
    /\ EndBatch(w)
    /\ UNCHANGED <<old, processed, thread, aborts, deliveries>>

\* A failed statement is logged and the loop goes on, but Postgres rejects the
\* rest of the transaction, COMMIT included; so it is when the worker crashes:
\* nothing of the batch remains.
AbortBatch(w) ==
    /\ pc[w] = "commit"
    /\ aborts < MaxAborts
    /\ aborts' = aborts + 1
    /\ EndBatch(w)
    /\ UNCHANGED <<tables, old, thread, deliveries>>

-----------------------------------------------------------------------------
Handle(t) ==
    \/ GetOrder(t) \/ CheckProcessed(t) \/ InsertOrder(t) \/ UpdateStatus(t)
    \/ MarkProcessed(t) \/ Commit(t) \/ PublishStatus(t)

Work(w) == SelectExpired(w) \/ CommitBatch(w)

Next ==
    \/ \E t \in Threads, e \in Events : Deliver(t, e)
    \/ \E t \in Threads : Handle(t) \/ Abort(t)
    \/ \E o \in Orders : GrowOld(o)
    \/ \E w \in Workers : Work(w) \/ AbortBatch(w)

Spec == Init /\ [][Next]_vars

\* A handler or worker that can go on does.
Fairness == /\ \A t \in Threads : WF_vars(Handle(t))
            /\ \A w \in Workers : WF_vars(Work(w))

FairSpec == Spec /\ Fairness

-----------------------------------------------------------------------------
(* Properties.                                                             *)

\* PAID is final: whatever is redelivered and whichever worker runs, an order
\* once paid is never cancelled or reset (the PENDING condition of the cancel,
\* the row lock of the timeout worker).
PaidStep == \A o \in Orders : orders[o] = "PAID" => orders'[o] = "PAID"
PaidIsFinal == [][PaidStep]_vars

\* An order is created once: it never becomes PENDING again, whatever status
\* it has moved on to and however often its StockReservedEvent is redelivered.
CreatedStep ==
    \A o \in Orders : orders[o] # "absent" =>
                         orders'[o] \in {orders[o], "PAID", "CANCELLED"}
CreatedOnce == [][CreatedStep]_vars

\* An event that creates or pays an order is applied by one transaction only,
\* even when two consumers hold it at the same time: no transaction commits an
\* event that is in processed_events already.
AppliedStep ==
    \A t \in Threads : Commit(t) /\ Kind(ev[t]) # "declined"
                         => ev[t] \notin processed
AppliedOnce == [][AppliedStep]_vars

HasCancelRow(o) == \E i \in DOMAIN outbox : outbox[i].order = o

\* Status and outbox agree: a cancelled order has an OrderCancelledEvent, and
\* an order with such an event is not PENDING (and may still be paid later).
CancelAnnounced ==
    \A o \in Orders :
        /\ orders[o] = "CANCELLED" => HasCancelRow(o)
        /\ HasCancelRow(o) => orders[o] \in {"CANCELLED", "PAID"}

\* Two timeout workers never expire the same order twice.
ExpiredOnce ==
    \A i, j \in DOMAIN outbox :
        outbox[i] = outbox[j] /\ outbox[i].event = None => i = j

\* An unpaid order does not hold its stock for ever.
PendingIsResolved ==
    \A o \in Orders : (orders[o] = "PENDING") /\ (o \in old)
                         ~> (orders[o] # "PENDING")

\* The service implements its abstract specification: whatever consumers and
\* workers interleave, what the tables show are atomic steps of OrderLifecycle.
ImplementsLifecycle == Lifecycle!Spec

-----------------------------------------------------------------------------
(* What the repository says of the program and the code does not do.       *)

\* docs/architecture/checkout-saga.md:230: a declined payment cancels the order
\* permanently.
CancelledIsFinal ==
    [][\A o \in Orders : orders[o] = "CANCELLED"
                           => orders'[o] = "CANCELLED"]_vars
=============================================================================
