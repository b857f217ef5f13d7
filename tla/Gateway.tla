------------------------------- MODULE Gateway -------------------------------
(***************************************************************************)
(* The checkout, order and payment endpoints of api-gateway, composed with *)
(* what order-service promises (OrderLifecycle).                           *)
(*                                                                         *)
(* A checkout reserves stock and then answers at once ("async"), polls the *)
(* order ("poll"), or waits for a notification in the Redis channel of the *)
(* order ("sse", "pubsub").  A notification carries no information for the *)
(* gateway: woken up, it reads the order again.  Order-service publishes   *)
(* it after the commit of a change, in a step of its own, and ignores the  *)
(* result; the timeout worker does not publish at all.                     *)
(*                                                                         *)
(* rdb.Subscribe sends the SUBSCRIBE command without waiting for the reply *)
(* and the client subscribes anew after a broken connection: the           *)
(* subscription is in effect some time later.  A call of another service   *)
(* fails by its deadline of 3 s, an open circuit or the network; the       *)
(* gateway cannot tell whether a failed call had its effect.               *)
(*                                                                         *)
(* An idempotency key is taken as long as Redis holds it.  It expires, and *)
(* the refund of a leak deletes it: another request with the key is        *)
(* admitted then, and finds the order of the first, if there is one.       *)
(***************************************************************************)
EXTENDS Naturals, Sequences, FiniteSets

CONSTANTS
    Requests,       \* HTTP requests other than payments
    Payments,       \* HTTP requests of /api/v1/pay, and their events
    Orders,         \* order ids, which are the idempotency keys
    KeyOf,          \* [Requests -> Orders], key, fresh uuid or queried order
    Keyless,        \* requests without the header X-Idempotency-Key
    Endpoints,      \* those a request may use: "async", "poll", "sse",
                    \* "pubsub" (checkouts) or "get"
    EmptyId,        \* the empty string, where an order id is expected
    PaysFor,        \* [Payments -> Channels]; nobody checks the posted order id
    Declined,       \* payments that the bank declines
    None,           \* the cause of an expiry
    MaxFaults       \* bound on failed calls, connections and publications

\* The Redis channels, named after order ids.
Channels == Orders \cup {EmptyId}

ASSUME GatewayAssumption ==
    /\ EmptyId \notin Orders
    /\ KeyOf \in [Requests -> Orders]
    /\ Keyless \subseteq Requests
    /\ \A r, s \in Keyless : KeyOf[r] = KeyOf[s] => r = s
    /\ Endpoints \in [Requests -> SUBSET {"async", "poll", "sse", "pubsub", "get"}]
    /\ PaysFor \in [Payments -> Channels]
    /\ Declined \subseteq Payments
    /\ None \notin Payments
    /\ MaxFaults \in Nat

VARIABLES
    status,     \* status of an order, "absent" when there is no row
    cancels,    \* cancel events emitted by order-service
    owed,       \* [Channels -> Nat], committed changes not yet published
    lost,       \* channels that missed a change: it is never published
    reserved,   \* keys that Redis holds
    emitted,    \* orders for which there is a StockReservedEvent
    saved,      \* payments recorded by payment-service
    handled,    \* payments whose event order-service has handled
    mode,       \* the endpoint at which a request waits, "none" so far
    pc,         \* the next step of a request
    sub,        \* its subscription: "none", "sent" or "active"
    seen,       \* what the fast path read before the request waits
    armed,      \* was the subscription active then, and ever since?
    notified,   \* is there a message in the request's Go channel?
    answer,     \* what the client was told
    faults      \* failures so far

service == <<status, cancels, owed, lost, handled>>
waiter  == <<sub, seen, armed, notified>>
stock   == <<reserved, emitted>>
vars    == <<service, stock, saved, mode, pc, waiter, answer, faults>>

Waiting  == {"poll", "sse", "pubsub"}
Steps    == {"idle", "subscribe", "read", "wait", "poll", "done"}
Status   == {"absent", "PENDING", "PAID", "CANCELLED"}
Found    == Status \ {"absent"}
Answers  == Found \cup {"none", "accepted", "refused", "timeout", "closed",
                        "SUCCESS", "notfound", "error", "paid"}

Lifecycle == INSTANCE OrderLifecycle WITH Causes <- Declined

TypeOK ==
    /\ status \in [Orders -> Status]
    /\ cancels \in Seq([order : Orders, event : Declined \cup {None}])
    /\ owed \in [Channels -> Nat]
    /\ lost \in SUBSET Channels
    /\ reserved \in SUBSET Orders /\ emitted \in SUBSET Orders
    /\ handled \in SUBSET saved /\ saved \in SUBSET Payments
    /\ mode \in [Requests -> Waiting \cup {"none"}]
    /\ pc \in [Requests -> Steps]
    /\ sub \in [Requests -> {"none", "sent", "active"}]
    /\ seen \in [Requests -> Status \cup {"error"}]
    /\ armed \in [Requests -> BOOLEAN]
    /\ notified \in [Requests -> BOOLEAN]
    /\ answer \in [Requests \cup Payments -> Answers]
    /\ faults \in 0..MaxFaults

Init ==
    /\ Lifecycle!Init
    /\ owed = [c \in Channels |-> 0]
    /\ lost = {}
    /\ reserved = {} /\ emitted = {}
    /\ saved = {}
    /\ handled = {}
    /\ mode = [r \in Requests |-> "none"]
    /\ pc = [r \in Requests |-> "idle"]
    /\ sub = [r \in Requests |-> "none"]
    /\ seen = [r \in Requests |-> "absent"]
    /\ armed = [r \in Requests |-> FALSE]
    /\ notified = [r \in Requests |-> FALSE]
    /\ answer = [x \in Requests \cup Payments |-> "none"]
    /\ faults = 0

-----------------------------------------------------------------------------
(* Helpers.                                                                *)

Fault == faults < MaxFaults /\ faults' = faults + 1

Goto(r, step) == pc' = [pc EXCEPT ![r] = step]

\* The answer is written and the deferred Close ends the subscription.
Reply(r, a) ==
    /\ Goto(r, "done")
    /\ answer' = [answer EXCEPT ![r] = a]
    /\ sub' = [sub EXCEPT ![r] = "none"]
    /\ seen' = [seen EXCEPT ![r] = "absent"]
    /\ armed' = [armed EXCEPT ![r] = FALSE]
    /\ notified' = [notified EXCEPT ![r] = FALSE]

\* GetOrder of the client returns v: the row as it is, "absent" for NotFound,
\* "error" for any other failure.
GetOrder(r, v) ==
    \/ v = status[KeyOf[r]] /\ UNCHANGED faults
    \/ v = "error" /\ Fault

\* The SSE endpoint names its channel after the header, which may be empty, the
\* Pub/Sub endpoint after the id of the order.
Channel(r) == IF mode[r] = "sse" /\ r \in Keyless THEN EmptyId ELSE KeyOf[r]

\* A message reaches the subscriptions that are in effect.
Notify(c) ==
    notified' = [r \in Requests |->
        notified[r] \/ (sub[r] = "active" /\ Channel(r) = c)]

\* The fresh uuid of a request without a key is known to nobody before the answer
\* tells it; the client may use it then, as a key of another request too.
Known(o) == \A r \in Keyless : KeyOf[r] = o => pc[r] = "done"

Starts(r) == pc[r] = "idle" /\ (r \in Keyless \/ Known(KeyOf[r]))

OnItsWay(r) == pc[r] \notin {"idle", "done"}

-----------------------------------------------------------------------------
(* The checkout endpoints.                                                 *)

\* ReserveStock is answered positively: Redis did not hold the key, and the
\* StockReservedEvent is in the outbox.
Admit(r, m) ==
    /\ Starts(r)
    /\ KeyOf[r] \notin reserved
    /\ reserved' = reserved \cup {KeyOf[r]}
    /\ emitted' = emitted \cup {KeyOf[r]}
    /\ \/ m = "async" /\ Reply(r, "accepted") /\ UNCHANGED mode
       \/ /\ m \in Waiting
          /\ mode' = [mode EXCEPT ![r] = m]
          /\ Goto(r, IF m = "poll" THEN "poll" ELSE "subscribe")
          /\ UNCHANGED <<waiter, answer>>
    /\ UNCHANGED <<service, saved, faults>>

\* 409 Conflict: the stock is sold out, the key is in use, or the call failed,
\* in which case the stock may be reserved all the same, with or without an event.
Refuse(r, m) ==
    /\ Starts(r)
    /\ m # "get"
    /\ Reply(r, "refused")
    /\ \/ UNCHANGED <<stock, faults>>
       \/ /\ KeyOf[r] \notin reserved
          /\ reserved' = reserved \cup {KeyOf[r]}
          /\ emitted' \in {emitted, emitted \cup {KeyOf[r]}}
          /\ Fault
    /\ UNCHANGED <<service, saved, mode>>

\* rdb.Subscribe and Channel.
Subscribe(r) ==
    /\ pc[r] = "subscribe"
    /\ Goto(r, "read")
    /\ sub' = [sub EXCEPT ![r] = "sent"]
    /\ UNCHANGED <<service, stock, saved, mode, seen, armed, notified,
                   answer, faults>>

\* The check after the subscription: an order that is resolved is answered at
\* once, everything else, a failed read included, waits.
FastPath(r) ==
    /\ pc[r] = "read"
    /\ \E v \in Status \cup {"error"} :
         /\ GetOrder(r, v)
         /\ IF v \in Found \ {"PENDING"}
              THEN Reply(r, v)
              ELSE /\ Goto(r, "wait")
                   /\ seen' = [seen EXCEPT ![r] = v]
                   /\ armed' = [armed EXCEPT ![r] = sub[r] = "active"]
                   /\ UNCHANGED <<answer, sub, notified>>
    /\ UNCHANGED <<service, stock, saved, mode>>

\* Mutant of Wake: without an order the answer is the initial status.
WakePending(r) ==
    /\ pc[r] = "wait"
    /\ notified[r]
    /\ \E v \in Status \cup {"error"} :
         /\ GetOrder(r, v)
         /\ Reply(r, IF v \in Found THEN v ELSE "PENDING")
    /\ UNCHANGED <<service, stock, saved, mode>>

\* A message came in.  Without an order the answer is the status SUCCESS.
Wake(r) ==
    /\ pc[r] = "wait"
    /\ notified[r]
    /\ \E v \in Status \cup {"error"} :
         /\ GetOrder(r, v)
         /\ Reply(r, IF v \in Found THEN v ELSE "SUCCESS")
    /\ UNCHANGED <<service, stock, saved, mode>>

\* A round of the long polling loop, which answers any status it finds.
Poll(r) ==
    /\ pc[r] = "poll"
    /\ \E v \in Status \cup {"error"} :
         /\ GetOrder(r, v)
         /\ IF v \in Found THEN Reply(r, v) ELSE UNCHANGED <<pc, waiter, answer>>
    /\ UNCHANGED <<service, stock, saved, mode>>

\* Mutant of TimeOut: the Pub/Sub endpoint waits without time.After.
TimeOutNotPubSub(r) ==
    /\ pc[r] \in {"wait", "poll"}
    /\ mode[r] # "pubsub"
    /\ Reply(r, IF mode[r] = "sse" THEN "closed" ELSE "timeout")
    /\ UNCHANGED <<service, stock, saved, mode, faults>>

\* The 10 s (long polling, Pub/Sub) or 30 s (SSE) are over.
TimeOut(r) ==
    /\ pc[r] \in {"wait", "poll"}
    /\ Reply(r, IF mode[r] = "sse" THEN "closed" ELSE "timeout")
    /\ UNCHANGED <<service, stock, saved, mode, faults>>

\* Mutant of QueryOrder: NotFound has no branch of its own.
QueryOrderNoNotFound(r) ==
    /\ Starts(r)
    /\ \E v \in Status \cup {"error"} : GetOrder(r, v) /\ Reply(r, v)
    /\ UNCHANGED <<service, stock, saved, mode>>

\* GET /api/v1/orders/{order_id}.
QueryOrder(r) ==
    /\ Starts(r)
    /\ "get" \in Endpoints[r]
    /\ \E v \in Status \cup {"error"} :
         /\ GetOrder(r, v)
         /\ Reply(r, IF v = "absent" THEN "notfound" ELSE v)
    /\ UNCHANGED <<service, stock, saved, mode>>

-----------------------------------------------------------------------------
(* The payment endpoint: payment-service records a payment and its event,  *)
(* and answers a declined one with an error.                               *)

Pay(p) ==
    /\ answer[p] = "none"
    /\ Known(PaysFor[p])
    /\ \/ /\ saved' = saved \cup {p}
          /\ answer' = [answer EXCEPT ![p] = IF p \in Declined THEN "error"
                                             ELSE "paid"]
          /\ UNCHANGED faults
       \/ \* the call failed, before or after the commit
          /\ saved' \in {saved, saved \cup {p}}
          /\ answer' = [answer EXCEPT ![p] = "error"]
          /\ Fault
    /\ UNCHANGED <<service, stock, mode, pc, waiter>>

-----------------------------------------------------------------------------
(* Redis.                                                                  *)

\* The subscription of r takes effect.
TakeEffect(r) ==
    /\ sub[r] = "sent"
    /\ sub' = [sub EXCEPT ![r] = "active"]
    /\ UNCHANGED <<service, stock, saved, mode, pc, seen, armed, notified,
                   answer, faults>>

\* Its connection breaks; the client subscribes again.
Disconnect(r) ==
    /\ sub[r] = "active"
    /\ sub' = [sub EXCEPT ![r] = "sent"]
    /\ armed' = [armed EXCEPT ![r] = FALSE]
    /\ Fault
    /\ UNCHANGED <<service, stock, saved, mode, pc, seen, notified, answer>>

-----------------------------------------------------------------------------
(* Order-service.                                                          *)

\* The consumer of a StockReservedEvent commits the order.  The event of a key
\* that was admitted again carries the event id of the first: it is recognised.
CreateOrder(o) ==
    /\ o \in emitted
    /\ Lifecycle!Create(o)
    /\ owed' = [owed EXCEPT ![o] = @ + 1]
    /\ UNCHANGED <<lost, handled, stock, saved, mode, pc, waiter, answer,
                   faults>>

\* No row has the id c, which may be empty.
NoRow(c) == c \in Orders => status[c] = "absent"

\* Mutant of HandlePayment: a declined payment is not published.
HandlePaymentSilent(p) ==
    LET o == PaysFor[p] IN
    /\ p \in saved \ handled
    /\ IF p \in Declined
         THEN o \in Orders /\ Lifecycle!Decline(o, p) /\ UNCHANGED owed
         ELSE /\ \/ o \in Orders /\ Lifecycle!Pay(o)
                 \/ NoRow(o) /\ UNCHANGED <<status, cancels>>
              /\ owed' = [owed EXCEPT ![o] = @ + 1]
    /\ handled' = handled \cup {p}
    /\ UNCHANGED <<lost, stock, saved, mode, pc, waiter, answer, faults>>

\* The consumer of a payment event commits its effect.  A completed payment
\* updates no row when there is no order yet and is published all the same; a
\* declined one fails without an order.
HandlePayment(p) ==
    LET o == PaysFor[p] IN
    /\ p \in saved \ handled
    /\ IF p \in Declined
         THEN o \in Orders /\ Lifecycle!Decline(o, p)
         ELSE \/ o \in Orders /\ Lifecycle!Pay(o)
              \/ NoRow(o) /\ UNCHANGED <<status, cancels>>
    /\ handled' = handled \cup {p}
    /\ owed' = [owed EXCEPT ![o] = @ + 1]
    /\ UNCHANGED <<lost, stock, saved, mode, pc, waiter, answer, faults>>

\* After the commit the consumer publishes,
Publish(c) ==
    /\ owed[c] > 0
    /\ owed' = [owed EXCEPT ![c] = @ - 1]
    /\ Notify(c)
    /\ UNCHANGED <<status, cancels, lost, handled, stock, saved, mode, pc,
                   sub, seen, armed, answer, faults>>

\* or crashes, or Redis refuses: the result is not looked at.
LosePublish(c) ==
    /\ owed[c] > 0
    /\ owed' = [owed EXCEPT ![c] = @ - 1]
    /\ lost' = lost \cup {c}
    /\ Fault
    /\ UNCHANGED <<status, cancels, handled, stock, saved, mode, pc, waiter,
                   answer>>

\* A redelivered event is recognised, changes no status and is published again.
\* (The further cancel event of a redelivered declined payment concerns the
\* stock only and is left out.)
Republish(c) ==
    /\ ~NoRow(c) \/ \E p \in handled : PaysFor[p] = c
    /\ Notify(c)
    /\ UNCHANGED <<service, stock, saved, mode, pc, sub, seen, armed, answer,
                   faults>>

\* The timeout worker cancels an order of 15 minutes and publishes nothing: a
\* request that waits for it (one that was admitted later) misses the change.
Expire(o) ==
    /\ Lifecycle!Expire({o})
    /\ lost' = IF \E r \in Requests : KeyOf[r] = o /\ OnItsWay(r)
               THEN lost \cup {o} ELSE lost
    /\ UNCHANGED <<owed, handled, stock, saved, mode, pc, waiter, answer, faults>>

\* Redis drops a key: the refund of a leak (after 5 minutes) deletes it, or its TTL
\* (2 hours) is over; by then every request that used the key has been answered.
\* (The refund of a cancelled order deletes the key of the cancel event's own id.)
FreeKey(o) ==
    /\ o \in reserved
    /\ \A r \in Requests : KeyOf[r] = o => ~OnItsWay(r)
    /\ reserved' = reserved \ {o}
    /\ UNCHANGED <<service, emitted, saved, mode, pc, waiter, answer, faults>>

-----------------------------------------------------------------------------

Handle(r) == Subscribe(r) \/ FastPath(r) \/ Wake(r) \/ Poll(r) \/ TimeOut(r)

Next ==
    \/ \E r \in Requests : \E m \in Endpoints[r] : Admit(r, m) \/ Refuse(r, m)
    \/ \E r \in Requests : QueryOrder(r) \/ Handle(r)
                           \/ TakeEffect(r) \/ Disconnect(r)
    \/ \E p \in Payments : Pay(p) \/ HandlePayment(p)
    \/ \E o \in Orders : CreateOrder(o) \/ Expire(o) \/ FreeKey(o)
    \/ \E c \in Channels : Publish(c) \/ LosePublish(c) \/ Republish(c)

Spec == Init /\ [][Next]_vars

\* A handler goes on, and its timer fires, until it has answered.
FairSpec ==
    /\ Spec
    /\ \A r \in Requests : WF_vars(Subscribe(r)) /\ WF_vars(FastPath(r))
                           /\ WF_vars(TimeOut(r))

-----------------------------------------------------------------------------
(* Properties.                                                             *)

\* A waiting request does not know that its order has changed since it looked,
\* though every change was published.
Unaware(r) ==
    LET o == KeyOf[r] IN
    /\ pc[r] = "wait"
    /\ Channel(r) = o
    /\ status[o] \notin {"absent", seen[r]}
    /\ owed[o] = 0
    /\ o \notin lost
    /\ ~notified[r]

\* No wake-up is missed: a request that read the order under a subscription in
\* effect is notified of every change after the read (handler.go:516-534).
NoMissedWakeup ==
    \A r \in Requests : armed[r] /\ seen[r] # "error" => ~Unaware(r)

\* What a client was told of an order is never taken back: PAID stays PAID, a
\* CANCELLED order is at most paid late, and an order that had a status exists.
ToldStaysTrue ==
    \A r \in Requests :
      /\ answer[r] = "PAID" => status[KeyOf[r]] = "PAID"
      /\ answer[r] = "CANCELLED" => status[KeyOf[r]] \in {"CANCELLED", "PAID"}
      /\ answer[r] = "PENDING" => status[KeyOf[r]] # "absent"

\* Every request that was admitted is answered, whatever fails: no endpoint
\* waits for a notification without a timer.
EveryRequestAnswered ==
    \A r \in Requests : pc[r] # "idle" ~> pc[r] = "done"
=============================================================================
