---------------------------- MODULE OutboxRelay ----------------------------
(***************************************************************************)
(* shared/pkg/outbox: the relay that moves the rows of one outbox_messages *)
(* table to one Kafka topic.  Every replica of the owning service runs a   *)
(* worker.  A worker polls, publishes and marks a batch inside a single    *)
(* Postgres transaction: the rows of its batch are locked until the end,   *)
(* and what it has written to them is seen by nobody before the commit.    *)
(* When the transaction fails the worker goes on publishing; when its      *)
(* connection is gone, it does so without its locks.                       *)
(* Rows are numbered in the order (created_at, id) of the poll's query;    *)
(* business transactions commit them in any order.                         *)
(***************************************************************************)
EXTENDS Integers, Sequences, FiniteSets

CONSTANTS
    MaxRows,        \* number of rows ever inserted
    Aggregates,     \* aggregate ids, the Kafka keys
    AggregateOf,    \* [1..MaxRows -> Aggregates]
    Workers,        \* relay workers
    BatchLimit,     \* LIMIT of the poll (50)
    Returns,        \* the order of RETURNING: "ordered" or "unordered"
    MaxAttempts,    \* attempts of DoWithRetry per message (5)
    MaxProduceErrors,   \* bound on failed calls of ProduceSync
    MaxTxErrors     \* bound on failed statements, lost connections and crashes

ASSUME RelayAssumption ==
    /\ MaxRows \in Nat
    /\ AggregateOf \in [1..MaxRows -> Aggregates]
    /\ BatchLimit \in Nat \ {0}
    /\ Returns \in {"ordered", "unordered"}
    /\ MaxAttempts \in Nat \ {0}
    /\ MaxProduceErrors \in Nat /\ MaxTxErrors \in Nat

VARIABLES
    status,     \* committed status of a row, "absent" before its insertion
    before,     \* history: the rows that were there when a row was inserted
    topic,      \* the Kafka topic: row numbers in offset order
    batch,      \* the rows a worker has polled
    todo,       \* those of them it has not dealt with yet
    hand,       \* the one of those it is dealing with, 0 when there is none
    attempt,    \* failed attempts at the message in hand
    acked,      \* the message in hand is acknowledged, not yet marked
    mark,       \* uncommitted status of the rows of a batch
    transaction,    \* "intact"; "aborted" by a failed statement, its locks
                    \* kept; or "gone" with the connection, its locks freed
    produceErrors,  \* number of failed calls of ProduceSync
    txErrors    \* number of failed statements, lost connections and crashes

rows   == <<status, before>>
work   == <<batch, todo, hand, attempt, acked, mark, transaction>>
faults == <<produceErrors, txErrors>>
vars   == <<rows, topic, work, faults>>

Rows == 1..MaxRows

TypeOK ==
    /\ status \in [Rows -> {"absent", "PENDING", "SENT", "FAILED"}]
    /\ before \in [Rows -> SUBSET Rows]
    /\ topic \in Seq(Rows)
    /\ batch \in [Workers -> SUBSET Rows]
    /\ todo \in [Workers -> SUBSET Rows]
    /\ hand \in [Workers -> Rows \cup {0}]
    /\ attempt \in [Workers -> 0..MaxAttempts]
    /\ acked \in [Workers -> BOOLEAN]
    /\ mark \in [Workers -> [Rows -> {"PROCESSING", "SENT", "FAILED"}]]
    /\ transaction \in [Workers -> {"intact", "aborted", "gone"}]
    /\ produceErrors \in Nat
    /\ txErrors \in Nat

Init ==
    /\ status = [i \in Rows |-> "absent"]
    /\ before = [i \in Rows |-> {}]
    /\ topic = <<>>
    /\ batch = [w \in Workers |-> {}]
    /\ todo = [w \in Workers |-> {}]
    /\ hand = [w \in Workers |-> 0]
    /\ attempt = [w \in Workers |-> 0]
    /\ acked = [w \in Workers |-> FALSE]
    /\ mark = [w \in Workers |-> [i \in Rows |-> "PROCESSING"]]
    /\ transaction = [w \in Workers |-> "intact"]
    /\ produceErrors = 0
    /\ txErrors = 0

-----------------------------------------------------------------------------
\* A business transaction commits a row.
Insert(i) ==
    /\ status[i] = "absent"
    /\ status' = [status EXCEPT ![i] = "PENDING"]
    /\ before' = [before EXCEPT ![i] = {j \in Rows : status[j] # "absent"}]
    /\ UNCHANGED <<topic, work, faults>>

\* Mutant of Locked: the poll takes no locks.
NeverLocked(i) == FALSE

\* Postgres keeps the locks of a transaction until its connection is gone.
Holds(w) == transaction[w] # "gone"

Locked(i) == \E w \in Workers : Holds(w) /\ i \in batch[w]

\* Mutant of Available: rows given up are polled again.
AvailableFailedToo == {i \in Rows : /\ status[i] \in {"PENDING", "FAILED"}
                                    /\ ~Locked(i)}

Available == {i \in Rows : status[i] = "PENDING" /\ ~Locked(i)}

\* Mutants of FirstOf: ORDER BY ... DESC; nothing before the batch is full.
LastOf(S, n)        == {i \in S : Cardinality({j \in S : j > i}) < n}
FullBatchOnly(S, n) == {i \in S : /\ Cardinality(S) >= n
                                  /\ Cardinality({j \in S : j < i}) < n}

\* The poll takes the first rows in order, skipping those that are locked.
FirstOf(S, n) == {i \in S : Cardinality({j \in S : j < i}) < n}

\* The loop runs through the rows as RETURNING lists them.  The ORDER BY of the
\* query is that of the locking SELECT; the join that feeds the UPDATE is free
\* to list its rows in any order, and keeps theirs under some plans.
TakeNext(w, S) ==
    /\ todo' = [todo EXCEPT ![w] = S]
    /\ \/ S = {} /\ hand' = [hand EXCEPT ![w] = 0]
       \/ \E i \in S : /\ Returns = "ordered" => \A j \in S : i <= j
                       /\ hand' = [hand EXCEPT ![w] = i]

\* BEGIN; SELECT ... FOR UPDATE SKIP LOCKED; UPDATE to PROCESSING.
Poll(w) ==
    /\ batch[w] = {}
    /\ Available # {}
    /\ batch' = [batch EXCEPT ![w] = FirstOf(Available, BatchLimit)]
    /\ TakeNext(w, FirstOf(Available, BatchLimit))
    /\ mark' = [mark EXCEPT ![w] = [i \in Rows |-> "PROCESSING"]]
    /\ UNCHANGED <<rows, topic, attempt, acked, transaction, faults>>

\* The message in hand.
InHand(w, i) == i \in todo[w] /\ hand[w] = i

\* A message is dealt with when it is acknowledged or DoWithRetry gives up.
Decided(w) == acked[w] \/ attempt[w] = MaxAttempts

\* ProduceSync succeeds.
Produce(w, i) ==
    /\ InHand(w, i)
    /\ ~Decided(w)
    /\ topic' = Append(topic, i)
    /\ acked' = [acked EXCEPT ![w] = TRUE]
    /\ UNCHANGED <<rows, batch, todo, hand, attempt, mark, transaction, faults>>

\* ProduceSync reports an error, with or without the record being written;
\* DoWithRetry tries again unless this was the last attempt.
ProduceError(w, i) ==
    /\ InHand(w, i)
    /\ ~Decided(w)
    /\ produceErrors < MaxProduceErrors
    /\ produceErrors' = produceErrors + 1
    /\ topic' \in {topic, Append(topic, i)}
    /\ attempt' = [attempt EXCEPT ![w] = @ + 1]
    /\ UNCHANGED <<rows, batch, todo, hand, acked, mark, transaction, txErrors>>

NextMessage(w, i) ==
    /\ TakeNext(w, todo[w] \ {i})
    /\ attempt' = [attempt EXCEPT ![w] = 0]
    /\ acked' = [acked EXCEPT ![w] = FALSE]

\* Mutant of Mark: SENT whatever DoWithRetry returned.
MarkAlwaysSent(w, i) ==
    /\ InHand(w, i)
    /\ Decided(w)
    /\ mark' = IF transaction[w] = "intact" THEN [mark EXCEPT ![w][i] = "SENT"]
               ELSE mark
    /\ NextMessage(w, i)
    /\ UNCHANGED <<rows, topic, batch, transaction, faults>>

\* UPDATE of the row in hand to SENT or FAILED.  Without a transaction to run in
\* the statement fails, which is only logged.
Mark(w, i) ==
    /\ InHand(w, i)
    /\ Decided(w)
    /\ mark' = IF transaction[w] = "intact"
               THEN [mark EXCEPT ![w][i] = IF acked[w] THEN "SENT" ELSE "FAILED"]
               ELSE mark
    /\ NextMessage(w, i)
    /\ UNCHANGED <<rows, topic, batch, transaction, faults>>

\* Mutant of MarkError: each statement commits on its own.
MarkErrorAutocommit(w, i) ==
    /\ InHand(w, i)
    /\ Decided(w)
    /\ txErrors < MaxTxErrors
    /\ txErrors' = txErrors + 1
    /\ NextMessage(w, i)
    /\ UNCHANGED <<rows, topic, batch, mark, transaction, produceErrors>>

\* The UPDATE fails: Postgres rejects every further statement of the transaction
\* and keeps its locks.  The worker goes on publishing the rest of the batch.
MarkError(w, i) ==
    /\ InHand(w, i)
    /\ Decided(w)
    /\ transaction[w] = "intact"
    /\ txErrors < MaxTxErrors
    /\ txErrors' = txErrors + 1
    /\ transaction' = [transaction EXCEPT ![w] = "aborted"]
    /\ NextMessage(w, i)
    /\ UNCHANGED <<rows, topic, batch, mark, produceErrors>>

\* The connection to Postgres breaks: the server rolls back and frees the locks.
\* The worker finds out by failing statements only, which it logs or discards:
\* it goes on publishing rows that others may poll meanwhile.
LoseConnection(w) ==
    /\ batch[w] # {}
    /\ Holds(w)
    /\ txErrors < MaxTxErrors
    /\ txErrors' = txErrors + 1
    /\ transaction' = [transaction EXCEPT ![w] = "gone"]
    /\ UNCHANGED <<rows, topic, batch, todo, hand, attempt, acked, mark,
                   produceErrors>>

EndBatch(w) ==
    /\ batch' = [batch EXCEPT ![w] = {}]
    /\ todo' = [todo EXCEPT ![w] = {}]
    /\ hand' = [hand EXCEPT ![w] = 0]
    /\ attempt' = [attempt EXCEPT ![w] = 0]
    /\ acked' = [acked EXCEPT ![w] = FALSE]
    /\ mark' = [mark EXCEPT ![w] = [i \in Rows |-> "PROCESSING"]]
    /\ transaction' = [transaction EXCEPT ![w] = "intact"]

\* COMMIT.  It makes the marks of an intact transaction visible; it rolls back
\* one that was aborted, and fails, which is only logged, on one that is gone.
Commit(w) ==
    /\ batch[w] # {}
    /\ todo[w] = {}
    /\ status' = IF transaction[w] = "intact"
                 THEN [i \in Rows |-> IF i \in batch[w] THEN mark[w][i]
                                      ELSE status[i]]
                 ELSE status
    /\ EndBatch(w)
    /\ UNCHANGED <<before, topic, faults>>

\* The process crashes or is stopped: Postgres rolls back, the rows of the batch
\* are PENDING again, published or not, and nobody goes on with them.
Rollback(w) ==
    /\ batch[w] # {}
    /\ txErrors < MaxTxErrors
    /\ txErrors' = txErrors + 1
    /\ EndBatch(w)
    /\ UNCHANGED <<rows, topic, produceErrors>>

-----------------------------------------------------------------------------
Progress(w) ==
    \/ Poll(w)
    \/ \E i \in Rows : Produce(w, i) \/ Mark(w, i)
    \/ Commit(w)

Next ==
    \/ \E i \in Rows : Insert(i)
    \/ \E w \in Workers :
          \/ Progress(w)
          \/ \E i \in Rows : ProduceError(w, i) \/ MarkError(w, i)
          \/ LoseConnection(w) \/ Rollback(w)

Spec == Init /\ [][Next]_vars

\* Workers keep polling and Kafka and Postgres answer.
FairSpec == Spec /\ \A w \in Workers : WF_vars(Progress(w))

-----------------------------------------------------------------------------
(* Properties.                                                             *)

Published(i) == \E n \in DOMAIN topic : topic[n] = i
Settled(i)   == status[i] \in {"SENT", "FAILED"}

\* A row is SENT only if Kafka has it.
SentIsPublished == \A i \in Rows : status[i] = "SENT" => Published(i)

\* Two workers never hold the same row, as long as both hold their locks.
BatchesDisjoint ==
    \A v, w \in Workers :
        v # w /\ Holds(v) /\ Holds(w) => batch[v] \cap batch[w] = {}

\* Once a row is committed as SENT or FAILED its status is final, and only a
\* worker that had polled it and then lost its connection may still publish it:
\* SKIP LOCKED and the status filter keep all others away from it.
SettledStep ==
    \A i \in Rows : Settled(i) =>
        /\ status'[i] = status[i]
        /\ topic' = Append(topic, i) =>
              \E w \in Workers : ~Holds(w) /\ InHand(w, i)

SettledIsFinal == [][SettledStep]_vars

\* The rows as events: what a row's status and the topic say of its delivery.
Delivery == INSTANCE EventDelivery WITH
    Events <- Rows,
    Ahead <- [i \in Rows |-> {}],
    emitted <- {i \in Rows : status[i] # "absent"},
    delivered <- {i \in Rows : Published(i)},
    givenUp <- {i \in Rows : status[i] = "FAILED"},
    settled <- {i \in Rows : Settled(i)}

\* The relay delivers at least once (README.md:108): whatever is locked, retried,
\* rolled back or published without a lock, a batch settles in one step rows that
\* Kafka has and rows it gives up, and none is ever unsettled.
ImplementsDelivery == Delivery!Spec

\* The order of an aggregate is kept: a row that was committed before a later
\* row of the same aggregate was inserted is published before it, in spite of
\* retries and rollbacks.  (As long as there is one worker, RETURNING keeps the
\* order and no row is given up: a row given up by a transaction that is then
\* lost comes out late.)
FirstInOrder ==
    \A n \in DOMAIN topic :
        \A i \in before[topic[n]] :
            /\ i < topic[n]
            /\ AggregateOf[i] = AggregateOf[topic[n]]
            => \E m \in 1..(n - 1) : topic[m] = i

\* Every row is settled in the end: none stays PENDING for ever.
EveryRowSettled ==
    \A i \in Rows : (status[i] = "PENDING") ~> Settled(i)
=============================================================================
