# Flash sale: models, checks and proofs

TLA+ models of the flash-sale system in this repository: a gateway and six Go
services that reserve stock in Redis, write events to Postgres outbox tables,
relay them to Kafka and turn them into orders, payments, cancellations and
refunds. Every module is translated from the Go source and its Lua and SQL
text. `PROJECT.json` maps each definition to the lines it stands for, and lists
the runs, a mutant for every property, the hazards the properties are for, and
the theorems.

Notation below: `inventory/` stands for `inventory-service/internal/`, and so on.

## 1. The system

```
 client --> api-gateway --gRPC--> inventory-service --outbox/relay--> inventory.events --.
              |   ^                   ^                                                  v
              |   |                   '---------- order.events <--outbox/relay-- order-service
              |   '-- Redis Pub/Sub order:status:<id> <----------------------------' ^
              '----------gRPC--> payment-service --outbox/relay--> payment.events ---'
```

| Part | State | Operations | What makes it correct |
|---|---|---|---|
| Reservation (inventory) | Redis `stock:<product>`, `reserve_idemp:<key>` with a TTL of 2 h; Postgres `outbox_messages` | `ReserveStock`, `ReleaseStock`, reset at start-up | no overselling; one event per key; what is taken and not announced comes back |
| Reconciliation job (inventory) | a scan in progress | every minute: SCAN, TTL, GET, outbox lookup, refund | refunds every leak, once, and nothing that was announced |
| Refund consumer (inventory) | - | `handleOrderCancelled` | a cancelled order's units come back once |
| Order handlers (order) | `orders`, `processed_events`, `outbox_messages` | `HandleStockReserved`, `HandlePaymentCompleted`, `HandlePaymentFailed` | one order per event; PAID is final; a cancellation and its event go together |
| Timeout worker (order) | a batch of locked rows | every 30 s: cancel orders PENDING for 15 min | no order expires twice or after it was paid; none stays |
| Outbox relay (shared) | a transaction per batch | every second: lock, publish, mark, commit | nothing marked and not published; after the commit no duplicate but by a worker that lost its connection; order per aggregate |
| Consumer loop, DLQ (order, inventory) | positions, a batch in hand | poll, handle with retry, DLQ, commit offsets | committed means handled; nothing stuck; partition order |
| Payment (payment) | `payments`, `outbox_messages` | `ProcessPayment` | a stored payment has its event |
| Waiting endpoints (gateway) | a Pub/Sub subscription, a timer | checkout by long polling, SSE, Pub/Sub | a client gets a true status, or a time-out |
| gRPC clients and circuit breakers (gateway) | one `gobreaker` per service: state, counters, generation | every gRPC call | opens only for failures of its own service; few probes; never stuck |
| Auth | `users` | register, login | one owner of a name, who was told so |
| Products | a static list | list | - |

The services share no memory. They interact by gRPC calls (which time out after
3 s in the gateway, whatever the callee still does, and pass the breaker of the
called service), by Kafka records (relayed
at least once, in order within a partition, unordered across topics) and by
Redis. What is hard here is all in between: half-done work when a call or
process fails after the first of two writes; background jobs of several replicas
that look at the same rows or keys; redelivered, late and reordered events;
keys that expire between two reads.

## 2. Modules

| Module | Models | Correspondence |
|---|---|---|
| `Inventory` | reservation, release, refund consumer, reconciliation job, key expiry, restarts | A Lua script is one action (`ReserveStock`, `RefundStock`), a handler that makes two round trips takes two. A *call* is one execution of the gRPC handler; the metadata in a key is the call that wrote it. Job: `StartScan`, `ProbeTTL`, `ReadMeta`, `CheckOutbox`, `RefundLeak`, and `JobError` for every failing round trip. `Tick` is time. |
| `OrderLifecycle` | abstract: what order-service promises | Atomic steps `Create`, `Pay`, `Decline`, `Expire` on a status and the list of cancel events. It promises only what the code delivers: `Pay` takes a cancelled order too, and `Decline` emits its event whatever the status. |
| `OrderService` | the three handlers and the timeout worker | One action per SQL statement at READ COMMITTED. Tables hold committed data; uncommitted rows are implied by locks (`orderLock`, `eventLock`), the position in the transaction, `hit` (did the UPDATE match?) and `batch`. `Commit` may take effect and still report an error. |
| `OutboxRelay` | the relay of any service | `Poll` locks the first unlocked PENDING rows; `Produce`/`ProduceError` are the attempts of `DoWithRetry`; `Mark` writes SENT or FAILED, uncommitted; `MarkError` aborts the transaction, and `LoseConnection` ends it with its locks, but neither ends the loop (`transaction`, `Holds`); `Commit`; `Rollback` is a crash. `Returns` says whether RETURNING lists the rows in order. |
| `KafkaConsumer` | the loop both consumers share | `Poll`, `Handle`, `HandleFails`, `SendToDLQ`, `DLQFails`, `Commit`, `CommitFails`, `PollError` are the loop; `Write`, `Assign`, `Crash` are Kafka and the process, modelled from how the loop uses franz-go. |
| `Gateway` | the checkout, order and payment endpoints, order-service's publications, Redis Pub/Sub | One action per downstream call, subscription, message and timer of a request. `Admit`/`Refuse` are the answers of `ReserveStock`, and `FreeKey` is Redis dropping a key, which can then be admitted again; `Subscribe`, `FastPath`, `Wake`, `TimeOut` the SSE and Pub/Sub handlers; `Poll` long polling; `Pay` the payment transaction. Order-service is `OrderLifecycle` plus a publication after each commit (`owed`, `Publish`), which may be lost (`LosePublish`) or repeated (`Republish`). `TakeEffect` and `Disconnect` are go-redis: `Subscribe` sends a command and does not wait for it. `Channel` is what a request listens to; a payment may be posted without an order id (`EmptyId`). |
| `CircuitBreaker` | `shared/pkg/resilience/circuit_breaker.go` | `gobreaker` with the settings of `DefaultCircuitBreakerConfig`, as operators on a record: `ReadyToTrip` and `IsSuccessful` are the code's, `Current` is its lazy look at the clock, `NewGeneration` its reset of the counters. `left` counts down to the end of the interval or time-out. |
| `GatewayClients` | the gateway's gRPC clients, auth-service, the answers of the other services | `Begin` and `End` are what `Execute` does before and after a call: a result of an earlier generation (`fresh`) does not count. `RegisterSelect` and `RegisterInsert` are the two statements of `Register`, `Login` is one; `Answer` is any other service with the codes it can return. `Disconnect`, `HangUp` and `TimeOut` end a call without an answer, whatever its INSERT still does. |
| `StockLedger` | abstract: what inventory-service promises | `Take`, `Announce`, `Repair`, `GiveBack`, `Release` and `Reset` in atomic steps on a stock per product and a stage per reservation. It promises no idempotence of `GiveBack`, because the code has none. |
| `Saga` | the checkout from end to end | The actions of `StockLedger` and `OrderLifecycle`, joined by events. An event is handled, perhaps again (`repeats`), in any order with those of other topics, or it is *parked*: in the dead letter queue, as a FAILED row, or dropped by a poll with errors. `Pay` is payment-service, `HandlePayment` what a payment event does. |
| `EventDelivery` | abstract: what the relay and the consumer loop promise of the events that pass them | `Emit`, `Deliver` and `Finish` on sets of emitted, delivered, given-up and settled events: at-least-once delivery with a way out. `Ahead` is the order that is kept (none for the relay's batches, that of the partition for consumers). A straggler (a worker without its locks, a member that lost its partition) may deliver what is settled. |
| `SumTheorems` | | laws of the sum over a finite set, for the proofs about the stock |
| `MC...` | | finite values of the constants |
| `InventoryProofs`, `OrderServiceProofs`, `OutboxRelayProofs`, `KafkaConsumerProofs`, `GatewayProofs`, `GatewayClientsProofs`, `SagaProofs` | | theorems and proofs, section 5 |

`OrderService` uses `OrderLifecycle` through `INSTANCE ... WITH status <- orders,
cancels <- outbox, Causes <- Declined`; the property `ImplementsLifecycle` is the
refinement. `Gateway` is composed with `OrderLifecycle` instead of with
`OrderService`: the refinement, which is proved, is what makes that sound.
`OutboxRelay` and `KafkaConsumer` each refine `EventDelivery`
(`ImplementsDelivery`): a row is an event that is delivered when it is in the
topic and settled when it is committed as SENT or FAILED; a record is one that is
delivered when its handler took effect, given up when it was parked or passed
over, and settled when its offset is committed.
`Inventory` refines `StockLedger` in the same way (`ImplementsLedger`, with
`stage` and `units` computed from the calls, keys and rows), and
`Saga` composes the two abstract specifications. What it takes from the relay
and the consumers is `EveryRowSettled`, `EveryRecordHandled` and their
exceptions, which are the parked events.

Abstractions: quantities are small numbers, prices and payload formats are left
out; a payload is valid or not. The code's limits become constants: TTL, grace
period and the duration of a handler are counted in ticks of a coarse clock
(`TTL`, `Grace`, `Deadline`, with `Deadline <= Grace`: a gRPC handler's writes
land within the 5 minutes of the grace period); `LIMIT 100`, `LIMIT 50` and the
3 and 5 attempts are `BatchLimit` and `MaxAttempts`. `Restart` resets the stock
of every product in `Products`, which therefore stands for the products
start-up writes (`prod_1`). For the breaker what counts is which of two
durations is longer: a call ends within `CallTimeout` (3 s, or earlier, when the
endpoint's own context ends first) and that is less than `Timeout` (5 s).

Definitions called "Mutant of X" in a module are not part of the model: they are
plausible bugs, each breaking one property, and show that it can fail.

## 3. Runs

| Run | Expected | Checks |
|---|---|---|
| `Inventory_single` | pass | `TypeOK`, `StockNonNegative`, `EmittedNeverReconciled`, `OneRowPerKey`, `NoOversell`, `ImplementsLedger` |
| `Inventory_repair` | pass | `NoLeakForgotten`, `StockAccounted` |
| `Inventory_redelivered_cancel` | violation | `CompensationIdempotent` |
| `OrderService` | pass | `TypeOK`, `CancelAnnounced`, `ExpiredOnce`, `PaidIsFinal`, `AppliedOnce`, `ImplementsLifecycle`, `PendingIsResolved` |
| `OrderService_late_payment` | violation | `CancelledIsFinal` |
| `OutboxRelay` | pass | `TypeOK`, `SentIsPublished`, `SettledIsFinal`, `ImplementsDelivery` |
| `OutboxRelay_one` | pass | `FirstInOrder`, `EveryRowSettled` |
| `Gateway` | pass | `TypeOK`, `NoMissedWakeup`, `ToldStaysTrue`, `EveryRequestAnswered` |
| `GatewayClients` | pass | `TypeOK`, `OpensForCause`, `ProbesBounded`, `OneWinner`, `NeverStuck` |
| `Saga` | pass | `TypeOK`, `Conserved`, `EveryUnitSettled`, `PaymentCounts` |
| `KafkaConsumer` | pass | `TypeOK`, `NothingElseLost`, `HandledInOrder`, `ImplementsDelivery`, `EveryRecordHandled` |
| `KafkaConsumer_loss` | violation | `CommittedIsHandled` |

What they show, and the bounds:

* **`Inventory_single`** (561,080 states). Three calls, two keys, two units, one
  product, one replica, one cancellable order, one failed job call; a key lives
  3 ticks, the grace period is 1. Three calls on two keys give every race the
  code can have: two on one key, two on the last units, a retry after a refund.
  With the grace period respected, the job refunds no reservation that is or
  will be announced, one key gives one outbox row, every round trip is a step of
  `StockLedger` or a stutter (so that a leak is refunded once), and the promised
  units never exceed the initial stock. The bounds are also the
  conditions: one replica, no restart, each cancel event executed once, no key
  used again after it expired. Section 6 says what happens without each.
* **`Inventory_repair`** (553,224 states). Two calls, two keys, two units,
  quantities up to two, one cancel event handled twice, one release of units by
  hand. `PromptJob` makes a cycle of the job
  complete in every tick, one call of it may fail and one restart may kill a
  cycle (the job runs again at start-up). With TTL 4 and grace 1 a leak is
  visible to two cycles, one of which may be lost; then no leaked reservation
  loses its key unrefunded. In the code there are some 115 cycles between the
  grace period and the TTL, so the model is the tight case. The stock is what
  the reservations have left, the second refund of a cancel event included.
* **`OrderService`** (185,585 states, with fairness). Two consumers, two timeout
  workers, two orders, a completed and a declined payment of the first order,
  the order event and the completed payment delivered twice, one failed batch.
  That is enough for every pair of transactions to meet on one row, in every
  order of arrival (payment before order, after cancellation, both payments
  together), while the second order shows batches of two.
* **`OutboxRelay`** (2,073,364 states). Two workers, batches of two out of three
  rows, two attempts, two failed publications and one failed statement, lost
  connection or crash, RETURNING in any order. Two workers and three rows are
  what it takes for batches to be locked, skipped and lost beside each other,
  and for a worker without its locks to go on with rows that the other polls,
  publishes and settles.
* **`OutboxRelay_one`** (33,267 states, with fairness). The conditions under
  which the documented per-aggregate order (docs/events/kafka-operational-design.md:45)
  holds: one worker, RETURNING in order, no row given up. Two lost transactions
  are allowed. Rows 1 and 2 share an aggregate and may be inserted in any order;
  order is claimed for a row committed before the other was inserted.
* **`Gateway`** (564,158 states, with fairness). An SSE checkout without a key; a
  Pub/Sub or long-polling checkout or an order query, and a plain checkout, with
  the id the first was told; a completed and a declined payment of that order and
  a payment posted without an order id; and one failure: a failed call with or
  without its effect, a broken subscription, or a lost publication. Three
  requests with one id are what it takes for a key to be freed and admitted
  again beside a query or a refusal. The changes of an order that a waiting
  request can miss are at most four (created, declined, paid, published again),
  and each meets every position of the handler.
* **`KafkaConsumer`** (294,853 states, with fairness). Two members, two
  partitions, two records each, two attempts, one record invalid, any two
  faults. Two faults are what it takes for a member to lose a partition in the
  middle of a batch and the new owner to fail as well.
* **`GatewayClients`** (86,745 states, with fairness). Two callers, the services
  auth and order with a breaker each, one name and two passwords, a breaker that
  opens at half of two requests, allows one probe, resets after one tick and
  stays open for two, and calls given up after one. Two callers are what a race
  of two registrations takes, and a result that comes in after its generation;
  one probe with two callers can be overrun. `MaxCount` bounds the requests of
  an interval at three: one more than the breaker needs to look at the ratio.
* **`Saga`** (171,068 states, with fairness). Three orders, two units, a
  completed and a declined payment of one order and a completed payment of
  another, one event handled again, one event parked. So a reservation must wait
  for units given back, and each of the three causes in `Conserved` occurs.
  `Hopeless` events (a declined payment without its order) are parked on top.
* The three **violation** runs exhibit disagreements of code and documentation:
  see section 6.

Deadlock is checked in the Inventory runs (time always goes on). The other
modules stop when all requests, deliveries, rows or records are used up, and
their configurations say so.

Fairness. The workers, consumers and relays are loops that run under
`context.Background()` until the process ends, so a worker or thread whose next
step stays possible takes it: weak fairness of `Handle(t)`, `Work(w)`,
`Progress(w)` and `Progress(m)`. Nothing is assumed of faults, deliveries,
inserts, crashes or rebalances, except that a partition without an owner is
assigned in the end (what a consumer group does). In
`Gateway` the goroutine of a request goes on and its timer fires: weak fairness
of `Subscribe`, `FastPath` and `TimeOut` of each request, and of nothing that
would have to come from outside. In `GatewayClients` time passes and a call ends
by its deadline (weak fairness of `Tick` and `TimeOut`); that services answer is
not assumed. `Asks` is strongly fair for each service: a breaker moves only when
it is asked, and in the gateway a request never waits for another to end, while
the model has a fixed number of callers who may all be busy whenever a breaker
would let one pass. `Saga` takes over what is checked of its parts: a
reservation is announced or repaired (`NoLeakForgotten`), what is emitted and
not parked is handled (`EveryRowSettled`, `EveryRecordHandled`), a PENDING order
expires (`PendingIsResolved`). Nobody has to pay. Failures are bounded in number
by the bounds named above, which is what makes an eventual success possible.

## 4. Properties worth naming

* `EmittedNeverReconciled` relates three steps of the job to a handler in flight:
  the verdict is computed from a TTL, a value and an outbox lookup that are each
  stale when the refund is executed.
* `ImplementsLedger`: the job, the handlers and the consumer touch one counter
  and share no lock, and still a reservation is announced or refunded, never
  both and neither twice.
* `NoLeakForgotten`: the metadata the refund needs dies with the key.
* `StockAccounted` holds however often units are refunded: whatever a refund adds
  is what the reservation it is meant for took, although the job learns of it
  from metadata that outlive their reservation, and a cancel event from a row.
* `ImplementsDelivery`, of the relay: the topic is written record by record, and
  outside of the transaction that marks the rows; of the consumer: positions,
  commits and rebalances of several members make one order of first effects.
  It implies that offsets never go back.
* `ImplementsLifecycle`: the locking of handlers and timeout workers, none of
  which repeat each other's conditions, adds up to atomic steps.
* `CancelAnnounced`, `ExpiredOnce`: a cancelled order has a cancel event, and no
  two timeout events.
* `NoMissedWakeup`: subscribe, read, wait is an order of steps that misses no
  change, if the subscription is in effect when the read happens and every
  branch of order-service publishes after it commits.
* `ToldStaysTrue`: notifications that are late, repeated or about no order at all
  never become an answer; only a read does, also for a key that was admitted again.
* `SettledIsFinal`: a settled row keeps its status, and nobody repeats it but a
  worker that polled it before and has lost its connection since. That exception
  is the code's: relay.go:158 and 170 do not end the loop.
* `NothingElseLost`: `PollError` and `DLQFails` are the only two steps that lose
  a record, whatever rebalances and crashes do.
* `OpensForCause` compares the breaker's counters with a history of failed calls
  (`failed`): results of other services, of earlier generations and harmless
  codes must not add up to an open breaker. `ProbesBounded` counts all calls of
  a service under way, those the breaker has forgotten included, and
  `NeverStuck` holds although a service may never answer.
* `OneWinner`: whoever was answered with 200 has the account, although calls that
  failed may have inserted theirs.
* `Conserved` names the causes of a wrong stock: an event handled again, a second
  cancel event of an order, a cancelled order that is paid. Short of these, every
  unit is in the stock or held by one reservation, whatever is parked.
* `EveryUnitSettled`: no unit is held for ever by an order nobody pays, unless an
  event was parked. `PaymentCounts`: a completed payment that finds its order
  pays it, and the condition is needed, see section 6.

## 5. Proofs

`tlapm` checks every theorem for all values of the constants allowed by the
named assumptions (`InventoryAssumption`, `OrderAssumption`,
`RelayAssumption`, `ConsumerAssumption`, `GatewayAssumption`,
`CircuitBreakerAssumption`, `ClientsAssumption`, `SagaAssumption`). Some
theorems have a condition on the deployment on top, which is named below.

**`InventoryProofs`.** `BasicInv` holds for any number of replicas and restarts:
what keys, scans and cancel events say of a call is true of it, so that a refund
adds what was taken. From it follow `TypeCorrect` and `StockStaysNonNegative`.
`StockIsAccounted` holds for any number, too, and for keys that are used again:
`AccountInv` balances, per product, the stock with the sum of what its
reservations have not given back (`Balance`). A step changes one entry of that
sum or adds one (`SumChange`, `SumAdd`), and it adds to the stock what the entry
lost, because it learnt of the quantity from the key or row of that very call.
The rest needs `Alone` (one replica, no key used again after its TTL), the
conditions without which it fails, see section 6. `SingleInv` adds: a call in
flight cannot outlive its key, and the key is no older than the call (`InTime`);
who has a row keeps its key from being set again (`RowOK`); what the job has read
is still true, or the key has gone for good (`ScanOK`), and a key past the grace
period belongs to a call that is over (`Deadline <= Grace`, used once, in
`ReadMeta`). Theorems: `AnnouncedNeverRefunded`, `KeysGiveOneRow` and
`Implementation`, the refinement of `StockLedger`, with a lemma for each of its
actions (`TakeRefines`, `CallRefines`, `RefundRefines`, ...).

`LeaksAreRefunded` assumes `JobKeepsUp` on top: the job completes a cycle in every
tick and `TTL > Grace + MaxJobErrors + 1` (in the code some 115 minutes of cycles
a minute apart). `LeakInv` says that a leak not yet refunded has its key, and that
this key grew older than the grace period only by as many ticks as calls of the
job failed, and by one more for a cycle not over, which then has the key in hand
(`InHand`). Restarts are no failures here: the job begins a cycle when it starts.

`NothingOversold` assumes `Once` on top of `Alone`: no restart, and an order
cancelled once by an event handled once. Without these it is false (section 6).
`OnceInv` bounds the refunds of a call by one; with `SingleInv` no call with a
row was refunded by the job. So what `Promised` calls hold is all outstanding,
nobody else's share is negative, and the sum of the promised quantities is part
of what `Balance` accounts for (`PromisedIsHeld`).

**`SumTheorems`.** The sum over a finite set is a recursive function that picks
its elements with CHOOSE. Induction with an operator parameter is out of reach of
the provers, but a *set* of subsets will do: inclusion is well-founded on the
subsets of a finite set (`FS_StrictSubsetOrderingWellFounded` of the library), so
a set of subsets that contains each one whose proper subsets it contains is the
set of all (`SubsetInduction`). By it the function exists (`SumsExist`,
`SumEquation`), and `SumRemove` says that any element may be taken out first; the
other laws follow.

**`OutboxRelayProofs`.** The inductive invariant `RelayInv` adds to the type
invariant that batches consist of committed rows, which are still PENDING
(`BatchIsPending`) and in no other batch (`BatchesDisjoint`) as long as the
worker holds its locks; and that an acknowledgement or an uncommitted mark SENT
is true of the topic (`MarksAreTrue`). Of a worker whose connection is gone the
invariant says no more than that its rows were committed and its
acknowledgements are true: anything may have happened to their status.
`SentIsPublished` alone is not inductive: the commit copies marks made earlier.
`NextInv` has one step per action; `PublishedStays` and `MarksFrame` say that an
append to the topic hurts nobody. Theorems: `RelayInvariant`, `TypeCorrect`,
`SentImpliesPublished`, `WorkersApart`, `SettledStaysSettled`. The order of an aggregate needs `Orderly`
(one worker, an ordered RETURNING, fewer failures than attempts). `TurnInv` adds
that the worker has published what it has dealt with and holds the first of the
rest (`InTurn`), and that what was there before a row of the batch is published
or in the batch too, because LIMIT cuts off the end (`FirstOfClosed`). Theorem:
`AggregatesInOrder`. `Implementation` is the refinement of `EventDelivery`: an
insert emits, an acknowledged or unacknowledged append delivers
(`ProduceRefines`), a commit settles its batch in one step (`CommitRefines`),
and every other step stutters.

**`OrderServiceProofs`.** The inductive invariant `OrderInv` states per thread
and worker what its locks guarantee (`ThreadOK`, `WorkerOK`): an uncommitted
INSERT's order is absent and locked, a matched UPDATE's row is locked and still
PENDING, an unmatched decline's order is CANCELLED or PAID for good, an order in
a batch is locked and PENDING. The frame lemmas `ThreadFrame` and `WorkerFrame`
are rely/guarantee arguments: a step that respects x's locks and makes only
legal status changes (`CreatedStep`) keeps what x relies on. There is a lemma
per action, and `NextInv` combines them with the two action properties.
Theorems: `OrderInvariant`, `TypeCorrect`, `CancelIsAnnounced`, `PaidStaysPaid`,
`CreatedAtMostOnce`, `AppliedAtMostOnce`, `ExpiresAtMostOnce` (the orders of a
batch have no cancel event yet, and its rows are as many as its orders) and
`Implementation`, the refinement of `OrderLifecycle`: `CommitRefines` and `CommitBatchRefines` map the commits to
its steps, and every other step stutters.

**`GatewayClientsProofs`.** `ProbesBounded` is not inductive: calls begun before
the breaker opened are still under way when it does. The inductive invariant
`ClientsInv` adds (`ProbesOK`) that while the breaker is open the age of such a
call and the time the breaker stays open make up at least `Timeout`, so that it
is over when the breaker is half-open (`OpenIsOver`, the one place where
`CallTimeout < Timeout` is needed), and that the calls under way are then among
the requests counted. Theorems: `ClientsInvariant`, `TypeCorrect`,
`BreakersOpenForCause`, `ProbesAreBounded`, `OneRegistrationWins`.

**`SagaProofs`.** `Conserved` counts a set of orders; every action changes it by
at most one order. The inductive invariant `SagaInv` adds that a cancelled order
has a cancel event and every cancel event a cancelled or paid order
(`CancelsOK`), and that units given back were given back by a handled cancel
event (`RefundsOK`); so a first, and only, cancel event finds the units of its
order still held. What disturbs the balance cannot be undone
(`UndisturbedBefore`), so that the balance before a step can be used after it.
Theorems: `SagaInvariant`, `TypeCorrect`, `UnitsAreConserved`, and
`Composition`: the saga's steps are steps of `StockLedger` and of
`OrderLifecycle` or leave them alone, so that what the services promise of
themselves is all that is assumed of them.

**`KafkaConsumerProofs`.** A rebalance may reset a position in the middle of a
batch, and the member goes on with it. The inductive invariant `ConsumerInv`
therefore says of each member that it is done with what lies before its position
except for the poll in hand, of which it is done up to the record in hand
(`HandOK`, `BatchOK`), and that the position of a partition's owner is not behind
the committed one (`OwnerOK`). Theorems: `ConsumerInvariant`, `TypeCorrect`,
`OnlyTwoStepsLose`, `EffectsInOrder`, `OffsetsGrow` and `Implementation`, the
refinement of `EventDelivery`. It needs that nobody is ahead of the log
(`WrittenInv`) and that the record in hand is due (`InHandIsDue`): those before
it took effect or were given up, on whatever member. A poll with errors gives up
several records at once, in their order (`Finish`).

**`GatewayProofs`.** The inductive invariant `GatewayInv` says of each request
(`RequestOK`) that it waits under an active subscription when its read is armed,
and that a change of the order since the read is still owed by order-service,
lost, or has notified the request (`Aware`); that what a client was told is true
of the order (`True`).
`RequestFrame` and `ServiceFrame` say what the steps of others leave alone.
Theorems: `GatewayInvariant`, `TypeCorrect`, `WakeupsNotMissed`,
`AnswersStayTrue`, and `Composition`: no request,
notification or fault changes an order other than by a step of `OrderLifecycle`.

Every invariant, action property and refinement that a passing run checks is
also a theorem. Only model-checked are the liveness properties
(`PendingIsResolved`, `EveryRowSettled`, `EveryRecordHandled`,
`EveryRequestAnswered`, `NeverStuck`, `EveryUnitSettled`, `PaymentCounts`), which
are beyond TLAPS like everything that needs ENABLED. Only proved, and checked by
no run, are `WorkersApart` (`BatchesDisjoint`), `CreatedAtMostOnce`
(`CreatedOnce`) and `OffsetsGrow` (`CommitForward`), which the refinements and
invariants checked by the runs make redundant there.
`SagaProofs` is about the composition of the abstract specifications; that
inventory-service and order-service implement their parts is proved in
`InventoryProofs` and `OrderServiceProofs`. That `Saga` takes "emitted, and handled
or parked" for the relay and the consumers rests on `EventDelivery` and the
liveness properties, and is not proved as a composition.

## 6. Where code and documentation disagree

With a run each:

1. `Inventory_redelivered_cancel`: the refund script adds unconditionally
   (lua_script.go:61) and is called with the cancel event's id, for which no key
   exists (inventory consumer.go:158); a redelivered `OrderCancelledEvent` adds
   the stock twice. README.md:105 and consumer.go:157 say it is idempotent.
2. `OrderService_late_payment`: PAID is set by id alone (order_repo.go:83), so a
   cancelled order whose stock went back can still become PAID.
   docs/architecture/checkout-saga.md:230 says CANCELLED is permanent.
3. `KafkaConsumer_loss`: `continue` after a poll with errors
   (order consumer.go:94) drops the records the same poll returned.
   consumer.go:43 and README.md:121 say nothing is committed or lost that way.

Observed while modelling; the constants of the modules reproduce the first four:

* Two replicas' reconciliation jobs refund one leak twice (`Replicas` with two
  elements, `ImplementsLedger`): the "key has gone" branch at
  reconciliation_job.go:159 is dead code, the script always returns 1.
* A client that uses a key again after its 2 h can have a fresh reservation
  refunded (`ReuseAfterExpiry = TRUE`, `EmittedNeverReconciled`): TTL and value
  are read in two round trips (lua_script.go:123, 132).
* A restart during the sale resets the counter (main.go:135; `MaxRestarts = 1`,
  `NoOversell`), against README.md:10 and 83.
* Two relay workers, or an unordered RETURNING (relay.go:115, 121), break the
  per-aggregate order (`OutboxRelay_one` with two workers or `"unordered"`).
* A relay worker that loses its connection to Postgres goes on publishing without
  its locks (relay.go:158, 170): with a second replica its rows come out twice,
  also after they were committed SENT (`SettledIsFinal` names this exception).
* A key can be reserved again after its 2 h (lua_script.go:49). The stock is taken
  a second time, the event has the id of the first and is skipped
  (order_repo.go:36), the job finds the first outbox row, and the client is told
  the status of the old order: nobody pays for these units or gives them back
  (`FreeKey`, then `Admit`, in `Gateway`).
* A cancel does not free the client's key, as lua_script.go:62 says it does.
* A redelivered `PaymentFailedEvent` emits a second cancel event:
  `CancelOrderAndEmitEvent` reads `processed_events` and never writes it.
* A payment that arrives before its order matches no row, is marked processed
  and lost (order_repo.go:83-89), although no record was lost, repeated or
  failed: topics are unordered among each other. `PaymentCounts` without its
  condition on the status fails for this reason, against
  docs/architecture/system-architecture.md:135.
* A row that failed five times is FAILED (relay.go:159) and never polled again.
  README.md:108 guarantees at-least-once delivery.
* `rdb.Subscribe` (handler.go:516) does not wait until the subscription is in
  effect, and the read that follows discards its error (handler.go:522). An event
  published in between is missed and the client waits for its timer.
  handler.go:520 says the read makes sure that none is.
* A user name that is taken (Internal), a declined payment (Unknown) and a client
  that hangs up (Canceled) count as failures of the called service and can open
  its breaker for everybody; circuit_breaker.go:46 says that business errors do
  not. Conversely `Login` answers Unauthenticated whatever went wrong
  (auth_server.go:31), so that a database that is down does not open the breaker
  of auth-service by logins (README.md:118).
* docs/implementation/go-hexagonal-architecture.md:272 promises 503 for an open
  circuit; the endpoints answer 400, 401, 409 or 500 as for any other error.
* Permanent errors are retried like any other although consumer.go:148 says not
  to; a failed write to the DLQ is only logged, and the offset committed.
* docs/openapi.yaml:216, 262 and 308 promise the *final* status; the endpoints
  answer PENDING as soon as the order exists, since its creation is published
  too. README.md:224 says the Pub/Sub endpoint returns at once; it waits 10 s.
* After a notification whose `GetOrder` fails or finds nothing (a payment that
  came before its order is published), the answer is the status `SUCCESS`, which
  no order has (handler.go:462, 541).
* The SSE endpoint without a key listens to the channel of the empty key
  (handler.go:430), where only a payment posted without an order id publishes
  (order_saga.go:46-48), which then wakes it; the Pub/Sub endpoint makes up a key
  (503-505).

## 7. Not modelled

JWT validation and the token blacklist, the content of the product list,
password hashes, telemetry, configuration, dashboards and load tests hold no
state with interesting interleavings (reasons in `PROJECT.json`); the generated
code under `src/proto/` neither. Postgres, Redis, Kafka and franz-go are outside the source: they
are modelled from how the code uses them, as atomic statements, scripts, a log
per partition and a position per member. Redis is taken to keep what it
acknowledged: a failover that loses the last writes is not modelled. Nor is a
script that go-redis executes again because its first reply was lost. Amounts, prices
and quantities other than of stock are left out. In `Gateway` a
client that hangs up is left out, because nobody sees the answer and the handler
ends like any other (what it does to the breaker is in `GatewayClients`), and a
call refused by an open breaker is a failed call.

## 8. Plan

Order of the work, the most important behaviour first:

1. done: `Inventory`, `OrderLifecycle`, `OrderService`, `OutboxRelay`,
   `KafkaConsumer`, `Gateway`, `CircuitBreaker`, `GatewayClients`, `StockLedger`,
   `Saga`; proofs about the relay, the orders, the clients and the saga.
2. done: `KafkaConsumerProofs`, `GatewayProofs`, `InventoryProofs`, the order of
   the relay and the expiry of orders.
3. done: `NoLeakForgotten` and `NoOversell` as theorems, `StockAccounted` for any
   number of replicas, `EventDelivery` and its two refinements, the compositions.
4. left: a conservation law of `Saga` for redelivered events in the form of
   `StockAccounted`, and the payments of an order as an abstract specification.
