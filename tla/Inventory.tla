----------------------------- MODULE Inventory -----------------------------
(***************************************************************************)
(* inventory-service: the stock counters and reservation keys it keeps in  *)
(* Redis, the outbox table it keeps in Postgres, and everything that       *)
(* touches them: the gRPC ReserveStock and ReleaseStock handlers, the      *)
(* ReconciliationJob of every replica, the Kafka consumer that refunds     *)
(* cancelled orders, restarts of the service and the passing of time.      *)
(*                                                                         *)
(* A Lua script is one step: Redis runs it atomically.  Everything a       *)
(* handler does in two round trips is two steps, so a reservation is first *)
(* taken in Redis and only later recorded in the outbox, and the job reads *)
(* the remaining TTL, the metadata and the outbox, and refunds, in four.   *)
(*                                                                         *)
(* A "call" is one execution of the ReserveStock handler; the metadata     *)
(* "product:quantity" a key stores is represented by the call that stored  *)
(* it, of which the code reads back only product and quantity.             *)
(***************************************************************************)
EXTENDS Integers, FiniteSetsExt

CONSTANTS
    Products,           \* products whose stock startup writes (prod_1)
    Keys,               \* idempotency keys the clients use
    Calls,              \* executions of the ReserveStock handler
    Replicas,           \* running instances of inventory-service
    CancelEvents,       \* ids of OrderCancelledEvents
    None,               \* "absent": not a call and not a key
    InitialStock,       \* [Products -> Nat], what startup writes to Redis
    MaxQty,             \* bound on the quantity of a request
    TTL,                \* lifetime of a reservation key, in ticks (7200s)
    Grace,              \* grace period of the job, in ticks (300s)
    Deadline,           \* a handler's writes land within this many ticks
    ReuseAfterExpiry,   \* may a client use a key again after its TTL?
    CancelsPerOrder,    \* cancel events the order service emits per order
    MaxDeliveries,      \* bound on executions of the refund of one event
    PromptJob,          \* does every tick see a full cycle of every job?
    MaxJobErrors,       \* bound on failed calls of the jobs
    MaxReleases,        \* bound on the units released by hand per product
    MaxRestarts         \* bound on restarts of the service

ASSUME InventoryAssumption ==
    /\ None \notin Calls \cup Keys
    /\ Keys \cap (CancelEvents \cup Products) = {}
    /\ InitialStock \in [Products -> Nat]
    /\ MaxQty \in Nat
    /\ TTL \in Nat /\ Grace \in Nat /\ Deadline \in Nat
    /\ Deadline <= Grace /\ Grace < TTL
    /\ ReuseAfterExpiry \in BOOLEAN /\ PromptJob \in BOOLEAN
    /\ MaxJobErrors \in Nat
    /\ CancelsPerOrder \in Nat /\ MaxDeliveries \in Nat
    /\ MaxReleases \in Nat /\ MaxRestarts \in Nat

VARIABLES
    stock,      \* Redis: stock:<product>; an absent counter acts as 0
    idemp,      \* Redis: reserve_idemp:<key>, the call that set it or None
    age,        \* ticks since reserve_idemp:<key> was set
    expired,    \* keys that have run out their TTL at least once
    outbox,     \* Postgres outbox_messages: the calls that inserted a row
    req,        \* what a call was asked for
    pc,         \* where a call is
    callAge,    \* ticks since a call in flight arrived
    reserved,   \* history: calls whose reserve script took stock
    probing,    \* job: [todo, key, held], the cursor of a scan
    leaked,     \* job: key -> call whose metadata the scan read, or None
    verdict,    \* job: the key found to have no outbox row, or None
    cycled,     \* job: replicas whose cycle of this tick has started
    jobErrors,  \* number of failed calls of the jobs so far
    cancel,     \* OrderCancelledEvents: event -> call whose order it cancels
    deliveries, \* how often the refund of an event was executed
    refunds,    \* history: refunds of a call by cancel events
    jobRefunds, \* history: refunds of a call by the job
    released,   \* history: units released by hand
    restarts    \* number of restarts so far

redis   == <<stock, idemp, age, expired>>
calls   == <<req, pc, callAge, reserved>>
job     == <<probing, leaked, verdict, cycled, jobErrors, jobRefunds>>
saga    == <<cancel, deliveries, refunds>>
history == <<released, restarts>>
vars    == <<redis, outbox, calls, job, saga, history>>

Requests == [key : Keys, product : Products, qty : Nat \ {0},
             replica : Replicas]
NoScan == [todo |-> {}, key |-> None]
Quiet(r) == probing[r] = NoScan /\ verdict[r] = None
            /\ \A k \in Keys : leaked[r][k] = None

TypeOK ==
    /\ stock \in [Products -> Int]
    /\ idemp \in [Keys -> Calls \cup {None}]
    /\ age \in [Keys -> 0..TTL]
    /\ expired \in SUBSET Keys
    /\ outbox \in SUBSET Calls
    /\ req \in [Calls -> Requests \cup {None}]
    /\ pc \in [Calls -> {"idle", "redis", "outbox", "ok", "failed"}]
    /\ callAge \in [Calls -> 0..Deadline]
    /\ reserved \in SUBSET Calls
    /\ probing \in [Replicas -> [todo : SUBSET Keys, key : Keys \cup {None}]]
    /\ leaked \in [Replicas -> [Keys -> Calls \cup {None}]]
    /\ verdict \in [Replicas -> Keys \cup {None}]
    /\ cycled \in SUBSET Replicas
    /\ jobErrors \in Nat
    /\ cancel \in [CancelEvents -> Calls \cup {None}]
    /\ deliveries \in [CancelEvents -> 0..MaxDeliveries]
    /\ refunds \in [Calls -> Nat]
    /\ jobRefunds \in [Calls -> Nat]
    /\ released \in [Products -> Nat]
    /\ restarts \in Nat

Init ==
    /\ stock = InitialStock
    /\ idemp = [k \in Keys |-> None]
    /\ age = [k \in Keys |-> 0]
    /\ expired = {}
    /\ outbox = {}
    /\ req = [c \in Calls |-> None]
    /\ pc = [c \in Calls |-> "idle"]
    /\ callAge = [c \in Calls |-> 0]
    /\ reserved = {}
    /\ probing = [r \in Replicas |-> NoScan]
    /\ leaked = [r \in Replicas |-> [k \in Keys |-> None]]
    /\ verdict = [r \in Replicas |-> None]
    /\ cycled = {}
    /\ jobErrors = 0
    /\ cancel = [e \in CancelEvents |-> None]
    /\ deliveries = [e \in CancelEvents |-> 0]
    /\ refunds = [c \in Calls |-> 0]
    /\ jobRefunds = [c \in Calls |-> 0]
    /\ released = [p \in Products |-> 0]
    /\ restarts = 0

-----------------------------------------------------------------------------
(* The gRPC handler ReserveStock.                                          *)

\* Mutant of NormalizedQty: the quantity is taken as it comes.
RawQty(q) == q

NormalizedQty(q) == IF q <= 0 THEN 1 ELSE q

\* A client that retries does so long before its key runs out: a request with
\* the key does not even straddle the end of its TTL.
FreshKey(k) == k \notin expired /\ (idemp[k] # None => age[k] + Deadline < TTL)

\* A ReserveStock request arrives at a replica.
ReceiveReserve(c, r, k, p, q) ==
    /\ pc[c] = "idle"
    /\ ReuseAfterExpiry \/ FreshKey(k)
    /\ req' = [req EXCEPT ![c] = [key |-> k, product |-> p,
                                  qty |-> NormalizedQty(q), replica |-> r]]
    /\ pc' = [pc EXCEPT ![c] = "redis"]
    /\ callAge' = [callAge EXCEPT ![c] = 0]
    /\ UNCHANGED <<redis, outbox, reserved, job, saga, history>>

\* Mutants of RefusesReserve: no check of the key; any stock left will do.
RefusesWithoutKey(k, p, q)  == stock[p] < q
RefusesOnlyEmpty(k, p, q)   == idemp[k] # None \/ stock[p] <= 0

\* ReserveStockScript refuses: the key exists or the stock is too low.
RefusesReserve(k, p, q) == idemp[k] # None \/ stock[p] < q

\* ReserveStockScript: check, decrement and store the key, in one step.  The
\* handler continues when it gets the reply and fails when the reply is lost.
ReserveStock(c) ==
    LET k == req[c].key
        p == req[c].product
        q == req[c].qty
    IN  /\ pc[c] = "redis"
        /\ ~RefusesReserve(k, p, q)
        /\ stock' = [stock EXCEPT ![p] = @ - q]
        /\ idemp' = [idemp EXCEPT ![k] = c]
        /\ age' = [age EXCEPT ![k] = 0]
        /\ reserved' = reserved \cup {c}
        /\ \E next \in {"outbox", "failed"} : pc' = [pc EXCEPT ![c] = next]
        /\ UNCHANGED <<expired, outbox, req, callAge, job, saga, history>>

\* The script returns 0, or Redis fails before running it.
ReserveRefused(c) ==
    /\ pc[c] = "redis"
    /\ pc' = [pc EXCEPT ![c] = "failed"]
    /\ UNCHANGED <<redis, outbox, req, callAge, reserved, job, saga, history>>

\* InsertOutbox.  The row may be written and the error still be reported (the
\* context's deadline passes, the connection breaks after the commit).
InsertOutbox(c) ==
    /\ pc[c] = "outbox"
    /\ outbox' = outbox \cup {c}
    /\ \E next \in {"ok", "failed"} : pc' = [pc EXCEPT ![c] = next]
    /\ UNCHANGED <<redis, req, callAge, reserved, job, saga, history>>

\* InsertOutbox fails: the stock stays taken, no event will ever tell of it.
InsertOutboxFails(c) ==
    /\ pc[c] = "outbox"
    /\ pc' = [pc EXCEPT ![c] = "failed"]
    /\ UNCHANGED <<redis, outbox, req, callAge, reserved, job, saga, history>>

-----------------------------------------------------------------------------
(* Refunds.                                                                *)

\* Mutant of RefundStock: the script does not delete the key.
RefundKeepsKey(p, id, q) ==
    /\ stock' = [stock EXCEPT ![p] = @ + q]
    /\ UNCHANGED <<idemp, age, expired>>

\* Mutant of RefundStock: units come back only while the key exists.
RefundIfKept(p, id, q) ==
    /\ stock' = [stock EXCEPT ![p] = @ + IF \E k \in Keys : k = id /\ idemp[k] # None
                                         THEN q ELSE 0]
    /\ idemp' = [k \in Keys |-> IF k = id THEN None ELSE idemp[k]]
    /\ age' = [k \in Keys |-> IF k = id THEN 0 ELSE age[k]]
    /\ UNCHANGED expired

\* RefundStockScript(p, id, q): add, delete the key, report success always.
\* An id that is no client's key (a cancel event's id, a product's id) deletes
\* nothing.
RefundStock(p, id, q) ==
    /\ stock' = [stock EXCEPT ![p] = @ + q]
    /\ idemp' = [k \in Keys |-> IF k = id THEN None ELSE idemp[k]]
    /\ age' = [k \in Keys |-> IF k = id THEN 0 ELSE age[k]]
    /\ UNCHANGED expired

\* gRPC ReleaseStock: the product's id stands in for the event id.
ReleaseStock(p, q) ==
    /\ released[p] + NormalizedQty(q) <= MaxReleases
    /\ RefundStock(p, p, NormalizedQty(q))
    /\ released' = [released EXCEPT ![p] = @ + NormalizedQty(q)]
    /\ UNCHANGED <<outbox, calls, job, saga, restarts>>

\* The environment: the order service cancels the order made from a row.
\* There is one order per key, whichever row it came from.
OrderCancelled(e, c) ==
    /\ cancel[e] = None
    /\ c \in outbox
    /\ Cardinality({f \in CancelEvents : /\ cancel[f] # None
                                         /\ req[cancel[f]].key = req[c].key})
         < CancelsPerOrder
    /\ cancel' = [cancel EXCEPT ![e] = c]
    /\ UNCHANGED <<redis, outbox, calls, job, deliveries, refunds, history>>

\* handleOrderCancelled: one execution of the refund.  The record is handled
\* again when Redis' reply was lost (DoWithRetry), when the consumer died
\* before its offset was committed, or when the relay published it twice.
HandleOrderCancelled(e) ==
    /\ cancel[e] # None
    /\ deliveries[e] < MaxDeliveries
    /\ RefundStock(req[cancel[e]].product, e, req[cancel[e]].qty)
    /\ deliveries' = [deliveries EXCEPT ![e] = @ + 1]
    /\ refunds' = [refunds EXCEPT ![cancel[e]] = @ + 1]
    /\ UNCHANGED <<outbox, calls, job, cancel, history>>

-----------------------------------------------------------------------------
(* The ReconciliationJob of replica r.                                     *)

\* The ticker fires (or the service has just started) and a cycle begins: SCAN
\* yields the live keys.
StartScan(r) ==
    /\ Quiet(r)
    /\ r \notin cycled
    /\ cycled' = cycled \cup {r}
    /\ probing' = [probing EXCEPT ![r] =
                     [todo |-> {k \in Keys : idemp[k] # None}, key |-> None]]
    /\ UNCHANGED <<redis, outbox, calls, leaked, verdict, jobErrors, jobRefunds,
                   saga, history>>

RemainingTTL(k) == IF idemp[k] = None THEN 0 ELSE TTL - age[k]

\* Mutants of PastGrace: no grace period; the remaining time taken for the
\* elapsed time.
AnyAge(k) == RemainingTTL(k) > 0
PastGraceSwapped(k) == RemainingTTL(k) > 0 /\ RemainingTTL(k) < Grace

PastGrace(k) == RemainingTTL(k) > 0 /\ RemainingTTL(k) < TTL - Grace

\* TTL of one key; the key is dropped unless it is past the grace period.
ProbeTTL(r, k) ==
    /\ probing[r].key = None
    /\ k \in probing[r].todo
    /\ probing' = [probing EXCEPT ![r] =
                     [todo |-> probing[r].todo \ {k},
                      key  |-> IF PastGrace(k) THEN k ELSE None]]
    /\ UNCHANGED <<redis, outbox, calls, leaked, verdict, cycled, jobErrors,
                   jobRefunds, saga, history>>

\* GET of that key, one round trip later; an absent key is skipped.
ReadMeta(r) ==
    LET k == probing[r].key
    IN  /\ k # None
        /\ probing' = [probing EXCEPT ![r].key = None]
        /\ leaked' = [leaked EXCEPT ![r][k] = idemp[k]]
        /\ UNCHANGED <<redis, outbox, calls, verdict, cycled, jobErrors,
                       jobRefunds, saga, history>>

ScanDone(r) == probing[r] = NoScan

\* Mutant of IsOutboxExist: the row's own id is compared.
IsOutboxIdExist(k) == \E c \in outbox : c = k

\* IsOutboxExist: a row with this aggregate_id means the key did not leak.
IsOutboxExist(k) == \E c \in outbox : req[c].key = k

CheckOutbox(r, k) ==
    /\ ScanDone(r)
    /\ verdict[r] = None
    /\ leaked[r][k] # None
    /\ IF IsOutboxExist(k)
         THEN /\ leaked' = [leaked EXCEPT ![r][k] = None]
              /\ UNCHANGED verdict
         ELSE /\ verdict' = [verdict EXCEPT ![r] = k]
              /\ UNCHANGED leaked
    /\ UNCHANGED <<redis, outbox, calls, probing, cycled, jobErrors, jobRefunds,
                   saga, history>>

\* reconcile refunds what the scan read.
RefundLeak(r) ==
    LET k == verdict[r]
        c == leaked[r][k]
    IN  /\ k # None
        /\ RefundStock(req[c].product, k, req[c].qty)
        /\ jobRefunds' = [jobRefunds EXCEPT ![c] = @ + 1]
        /\ leaked' = [leaked EXCEPT ![r][k] = None]
        /\ verdict' = [verdict EXCEPT ![r] = None]
        /\ UNCHANGED <<outbox, calls, probing, cycled, jobErrors, saga,
                       history>>

\* A failed call gives up the item in hand: SCAN ends the cycle, TTL, GET,
\* IsOutboxExist and RefundStock skip the key until the next cycle.
JobError(r) ==
    /\ jobErrors < MaxJobErrors
    /\ jobErrors' = jobErrors + 1
    /\ \/ /\ probing[r] # NoScan
          /\ probing' = [probing EXCEPT ![r] = NoScan]
          /\ leaked' = [leaked EXCEPT ![r] = [k \in Keys |-> None]]
          /\ UNCHANGED verdict
       \/ /\ probing[r].key # None
          /\ probing' = [probing EXCEPT ![r].key = None]
          /\ UNCHANGED <<leaked, verdict>>
       \/ \E k \in probing[r].todo :
             /\ probing[r].key = None
             /\ probing' = [probing EXCEPT ![r].todo = @ \ {k}]
             /\ UNCHANGED <<leaked, verdict>>
       \/ \E k \in Keys :
             /\ ScanDone(r)
             /\ leaked[r][k] # None
             /\ verdict[r] \in {None, k}
             /\ leaked' = [leaked EXCEPT ![r][k] = None]
             /\ verdict' = [verdict EXCEPT ![r] = None]
             /\ UNCHANGED probing
    /\ UNCHANGED <<redis, outbox, calls, cycled, jobRefunds, saga, history>>

-----------------------------------------------------------------------------
(* Time and restarts.                                                      *)

InFlight(c) == pc[c] \in {"redis", "outbox"}

\* One tick: every live key gets older and is removed at the end of its TTL.
\* Time does not run past the deadline of a handler that still is at work and,
\* when the jobs are prompt, not past a cycle that is due.
Tick ==
    /\ PromptJob => cycled = Replicas /\ \A r \in Replicas : Quiet(r)
    /\ cycled' = {}
    /\ \A c \in Calls : InFlight(c) => callAge[c] < Deadline
    /\ LET dies == {k \in Keys : idemp[k] # None /\ age[k] + 1 >= TTL}
       IN  /\ idemp' = [k \in Keys |-> IF k \in dies THEN None ELSE idemp[k]]
           /\ age' = [k \in Keys |-> IF idemp[k] = None \/ k \in dies THEN 0
                                     ELSE age[k] + 1]
           /\ expired' = expired \cup dies
    /\ callAge' = [c \in Calls |-> IF InFlight(c) THEN callAge[c] + 1
                                    ELSE 0]
    /\ UNCHANGED <<stock, outbox, req, pc, reserved, probing, leaked, verdict,
                   jobErrors, jobRefunds, saga, history>>

\* A replica dies and comes back: its handlers and its job are gone, and
\* startup writes the initial stock over whatever Redis holds.
Restart(r) ==
    /\ restarts < MaxRestarts
    /\ restarts' = restarts + 1
    /\ stock' = InitialStock
    /\ pc' = [c \in Calls |-> IF pc[c] \in {"redis", "outbox"}
                                 /\ req[c].replica = r
                              THEN "failed" ELSE pc[c]]
    /\ probing' = [probing EXCEPT ![r] = NoScan]
    /\ leaked' = [leaked EXCEPT ![r] = [k \in Keys |-> None]]
    /\ verdict' = [verdict EXCEPT ![r] = None]
    /\ cycled' = cycled \ {r}
    /\ UNCHANGED <<idemp, age, expired, outbox, req, callAge, reserved,
                   jobErrors, jobRefunds, saga, released>>

-----------------------------------------------------------------------------
Handler(c) ==
    \/ ReserveStock(c)
    \/ ReserveRefused(c)
    \/ InsertOutbox(c)
    \/ InsertOutboxFails(c)

JobProgress(r) ==
    \/ StartScan(r)
    \/ \E k \in Keys : ProbeTTL(r, k) \/ CheckOutbox(r, k)
    \/ ReadMeta(r)
    \/ RefundLeak(r)

Next ==
    \/ \E c \in Calls, r \in Replicas, k \in Keys, p \in Products,
          q \in 0..MaxQty : ReceiveReserve(c, r, k, p, q)
    \/ \E c \in Calls : Handler(c)
    \/ \E p \in Products, q \in 0..MaxQty : ReleaseStock(p, q)
    \/ \E e \in CancelEvents, c \in Calls : OrderCancelled(e, c)
    \/ \E e \in CancelEvents : HandleOrderCancelled(e)
    \/ \E r \in Replicas : JobProgress(r) \/ JobError(r)
    \/ Tick
    \/ \E r \in Replicas : Restart(r)

Spec == Init /\ [][Next]_vars
-----------------------------------------------------------------------------
(* Properties.                                                             *)

\* The stock in Redis never goes below zero, whatever requests, refunds and
\* restarts interleave (ReserveStockScript checks and decrements in one step).
StockNonNegative == \A p \in Products : stock[p] >= 0

\* The job refunds only reservations that really leaked: one whose row is in
\* the outbox, now or later, is never refunded by it.  This rests on the grace
\* period outlasting every handler that might still insert the row.
EmittedNeverReconciled == \A c \in Calls : jobRefunds[c] > 0 => c \notin outbox

\* One idempotency key yields at most one StockReservedEvent, however often the
\* client retries and whatever the job deletes in between.
OneRowPerKey ==
    \A c, d \in outbox : req[c].key = req[d].key => c = d

\* Reservations announced to the order service whose order is not cancelled.
Promised(p) ==
    {c \in outbox : /\ req[c].product = p
                    /\ \A e \in CancelEvents : cancel[e] # c}

\* No overselling: the units promised to customers never exceed the stock the
\* sale started with plus what operators put back by hand.
NoOversell ==
    \A p \in Products :
        SumFunction([c \in Promised(p) |-> req[c].qty])
          <= InitialStock[p] + released[p]

\* Reservations that took units of p, and what each of them has not given back:
\* less than nothing when it was refunded more than once.
TakenFrom(p) == {c \in reserved : req[c].product = p}
Outstanding(c) == req[c].qty * (1 - refunds[c] - jobRefunds[c])

\* The books balance: until a restart overwrites it, the stock is what the sale
\* started with and operators put back, less what reservations hold, plus what
\* replicas and redelivered events refunded twice.  So every script adds just
\* what the reservation it is meant for took, although scans and metadata that
\* outlive their key (lua_script.go:132) tell it what that was.
StockAccounted ==
    restarts = 0 =>
      \A p \in Products :
          stock[p] + SumFunction([c \in TakenFrom(p) |-> Outstanding(c)])
            = InitialStock[p] + released[p]

\* No leak is forgotten: a reservation that took stock and did not reach the
\* outbox keeps its key until the job has refunded it, so its key never just
\* expires.  TTL, Grace and the failed cycles decide whether the job is in time.
NoLeakForgotten ==
    \A c \in reserved \ outbox :
        pc[c] # "outbox" /\ idemp[req[c].key] # c => jobRefunds[c] > 0

\* What the ledger knows of a reservation.
Stage(c) == CASE c \in outbox -> "announced"
              [] c \notin outbox /\ jobRefunds[c] > 0 -> "repaired"
              [] c \in reserved \ outbox /\ jobRefunds[c] = 0 -> "taken"
              [] OTHER -> "none"

Ledger == INSTANCE StockLedger WITH
    Reservations <- Calls,
    stage <- [c \in Calls |-> Stage(c)],
    units <- [c \in Calls |->
                IF c \in reserved THEN [product |-> req[c].product, qty |-> req[c].qty]
                ELSE [product |-> "none", qty |-> 0]]

\* inventory-service implements the ledger: with all its round trips, every
\* reservation takes its units once, and either its row is announced or the job
\* refunds it, once and never both (reserve_stock.go:62, reconciliation_job.go:21).
ImplementsLedger == Ledger!Spec

-----------------------------------------------------------------------------
(* What the repository says of the program and the code does not do.       *)

\* README.md:105, consumer.go:157: refunding a cancelled order is idempotent,
\* a second execution for the same event leaves the stock alone.
CompensationIdempotent ==
    [][\A e \in CancelEvents :
         HandleOrderCancelled(e) /\ deliveries[e] > 0 => UNCHANGED stock]_vars
=============================================================================
