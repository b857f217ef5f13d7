--------------------------- MODULE KafkaConsumer ---------------------------
(***************************************************************************)
(* The Kafka consumer loop that order-service and inventory-service share  *)
(* line by line: poll, handle every record with retries, send what fails   *)
(* to the dead letter queue, commit the offsets.                           *)
(*                                                                         *)
(* A member is the consumer of one replica.  Members belong to a consumer  *)
(* group; the broker gives every partition to one of them and moves        *)
(* partitions when it sees fit.  The client library, outside of src/, has  *)
(* a position per partition: the offset behind the last record it handed   *)
(* out, and that is what CommitUncommittedOffsets commits.  Auto-commit is *)
(* off and rebalances are not blocked by a poll, so a member goes on with  *)
(* the records it was handed when their partition has moved.               *)
(*                                                                         *)
(* Offsets are counted: offset n is behind the n-th record of a partition. *)
(***************************************************************************)
EXTENDS Naturals

CONSTANTS
    Members,        \* consumers of the group
    Partitions,     \* partitions of the topics
    None,           \* no member, no partition
    MaxRecords,     \* number of records ever written to a partition
    Permanent,      \* records no handler can handle: invalid payloads
    MaxAttempts,    \* attempts of DoWithRetry per record (3)
    Faults,         \* the kinds of fault that happen, a subset of FaultKinds
    MaxFaults       \* bound on the number of faults

FaultKinds == {"handler",   \* a handler fails in a transient way
               "poll",      \* a poll reports an error
               "dlq",       \* a write to the dead letter queue fails
               "commit",    \* an offset commit fails
               "move",      \* a partition is taken from a live member
               "crash"}     \* a member dies

Offsets == 0..MaxRecords
Records == Partitions \X (1..MaxRecords)

ASSUME ConsumerAssumption ==
    /\ None \notin Members \cup Partitions
    /\ MaxRecords \in Nat
    /\ Permanent \subseteq Records
    /\ MaxAttempts \in Nat \ {0}
    /\ Faults \subseteq FaultKinds
    /\ MaxFaults \in Nat

VARIABLES
    written,    \* Kafka: number of records of a partition
    committed,  \* Kafka: committed offset of the group
    owner,      \* Kafka: the member a partition is assigned to
    position,   \* client: offset behind the last record handed out
    next,       \* loop: the records next+1..end of each partition are
    end,        \*   what is left of the last poll
    hand,       \* loop: the partition EachRecord is at
    attempt,    \* loop: failed attempts at the record in hand
    pc,         \* loop: "poll", "handle", "dlq" or "commit"
    done,       \* history: records whose handler took effect
    dlq,        \* the dead letter queue
    skipped,    \* history: records handed out and passed over
    faults      \* number of faults so far

kafka  == <<written, committed, owner>>
loop   == <<next, end, hand, attempt, pc>>
result == <<done, dlq, skipped>>
vars   == <<kafka, position, loop, result, faults>>

TypeOK ==
    /\ written \in [Partitions -> Offsets]
    /\ committed \in [Partitions -> Offsets]
    /\ owner \in [Partitions -> Members \cup {None}]
    /\ position \in [Members -> [Partitions -> Offsets]]
    /\ next \in [Members -> [Partitions -> Offsets]]
    /\ end \in [Members -> [Partitions -> Offsets]]
    /\ hand \in [Members -> Partitions \cup {None}]
    /\ attempt \in [Members -> 0..MaxAttempts]
    /\ pc \in [Members -> {"poll", "handle", "dlq", "commit"}]
    /\ done \in SUBSET (Records \ Permanent)
    /\ dlq \in SUBSET Records
    /\ skipped \in SUBSET Records
    /\ faults \in 0..MaxFaults

NoOffsets == [p \in Partitions |-> 0]

Init ==
    /\ written = NoOffsets
    /\ committed = NoOffsets
    /\ owner = [p \in Partitions |-> None]
    /\ position = [m \in Members |-> NoOffsets]
    /\ next = [m \in Members |-> NoOffsets]
    /\ end = [m \in Members |-> NoOffsets]
    /\ hand = [m \in Members |-> None]
    /\ attempt = [m \in Members |-> 0]
    /\ pc = [m \in Members |-> "poll"]
    /\ done = {}
    /\ dlq = {}
    /\ skipped = {}
    /\ faults = 0

\* A fault of this kind happens.
Fault(kind) ==
    /\ kind \in Faults
    /\ faults < MaxFaults
    /\ faults' = faults + 1

-----------------------------------------------------------------------------
(* The broker and the group.                                               *)

\* A relay publishes a record.
Write(p) ==
    /\ written[p] < MaxRecords
    /\ written' = [written EXCEPT ![p] = @ + 1]
    /\ UNCHANGED <<committed, owner, position, loop, result, faults>>

\* Mutant of Assign: a new owner starts with the records to come.
AssignAtEnd(p, m) ==
    /\ owner[p] # m
    /\ IF owner[p] = None THEN UNCHANGED faults ELSE Fault("move")
    /\ owner' = [owner EXCEPT ![p] = m]
    /\ position' = [position EXCEPT ![m][p] = written[p]]
    /\ UNCHANGED <<written, committed, loop, result>>

\* A partition is assigned: its new owner starts at the committed offset.
Assign(p, m) ==
    /\ owner[p] # m
    /\ IF owner[p] = None THEN UNCHANGED faults ELSE Fault("move")
    /\ owner' = [owner EXCEPT ![p] = m]
    /\ position' = [position EXCEPT ![m][p] = committed[p]]
    /\ UNCHANGED <<written, committed, loop, result>>

\* A member dies with everything it holds; its partitions are free.
Crash(m) ==
    /\ Fault("crash")
    /\ owner' = [p \in Partitions |-> IF owner[p] = m THEN None ELSE owner[p]]
    /\ position' = [position EXCEPT ![m] = NoOffsets]
    /\ next' = [next EXCEPT ![m] = NoOffsets]
    /\ end' = [end EXCEPT ![m] = NoOffsets]
    /\ hand' = [hand EXCEPT ![m] = None]
    /\ attempt' = [attempt EXCEPT ![m] = 0]
    /\ pc' = [pc EXCEPT ![m] = "poll"]
    /\ UNCHANGED <<written, committed, result>>

-----------------------------------------------------------------------------
(* The loop.                                                               *)

Goto(m, label) == pc' = [pc EXCEPT ![m] = label]

\* Mutant of MoveOn: offsets are committed after each partition.
MoveOnEarly(m, left) ==
    /\ attempt' = [attempt EXCEPT ![m] = 0]
    /\ LET more == {p \in Partitions : left[p] < end'[m][p]}
       IN  \/ /\ hand[m] # None /\ hand[m] \notin more
              /\ hand' = [hand EXCEPT ![m] = None]
              /\ Goto(m, "commit")
           \/ \E p \in more :
                 /\ hand[m] \in {None, p}
                 /\ hand' = [hand EXCEPT ![m] = p]
                 /\ Goto(m, "handle")

\* EachRecord goes through the partitions one after the other, in any order;
\* left is what it has not handled yet.  Offsets are committed after the last.
MoveOn(m, left) ==
    /\ attempt' = [attempt EXCEPT ![m] = 0]
    /\ LET more == {p \in Partitions : left[p] < end'[m][p]}
       IN  \/ /\ more = {}
              /\ hand' = [hand EXCEPT ![m] = None]
              /\ Goto(m, "commit")
           \/ \E p \in more :
                 /\ hand[m] \in more => p = hand[m]
                 /\ hand' = [hand EXCEPT ![m] = p]
                 /\ Goto(m, "handle")

\* What a poll may hand out: the records up to these offsets.
Fetchable(m) ==
    {upto \in [Partitions -> Offsets] :
        /\ upto # position[m]
        /\ \A p \in Partitions :
              IF owner[p] = m THEN upto[p] \in position[m][p]..written[p]
                              ELSE upto[p] = position[m][p]}

\* PollFetches.
Poll(m) ==
    /\ pc[m] = "poll"
    /\ \E upto \in Fetchable(m) :
          /\ next' = [next EXCEPT ![m] = position[m]]
          /\ end' = [end EXCEPT ![m] = upto]
          /\ position' = [position EXCEPT ![m] = upto]
          /\ MoveOn(m, position[m])
    /\ UNCHANGED <<kafka, result, faults>>

\* PollFetches reports an error for one partition and hands out records of
\* others: the loop logs the error and polls again.
PollError(m) ==
    /\ pc[m] = "poll"
    /\ Fault("poll")
    /\ \E upto \in Fetchable(m) :
          /\ \E p \in Partitions : owner[p] = m /\ upto[p] = position[m][p]
          /\ position' = [position EXCEPT ![m] = upto]
          /\ skipped' = skipped \cup
                {r \in Records : r[2] \in (position[m][r[1]] + 1)..upto[r[1]]}
    /\ UNCHANGED <<kafka, loop, done, dlq>>

InHand(m) == <<hand[m], next[m][hand[m]] + 1>>

\* The record in hand is dealt with.
NextRecord(m) ==
    LET left == [next[m] EXCEPT ![hand[m]] = @ + 1]
    IN  /\ next' = [next EXCEPT ![m] = left]
        /\ UNCHANGED end
        /\ MoveOn(m, left)

\* Mutant of Handle: the error of json.Unmarshal is not looked at.
HandleInvalidToo(m) ==
    /\ pc[m] = "handle"
    /\ done' = done \cup {InHand(m)}
    /\ NextRecord(m)
    /\ UNCHANGED <<kafka, position, dlq, skipped, faults>>

\* dispatch succeeds.
Handle(m) ==
    /\ pc[m] = "handle"
    /\ InHand(m) \notin Permanent
    /\ done' = done \cup {InHand(m)}
    /\ NextRecord(m)
    /\ UNCHANGED <<kafka, position, dlq, skipped, faults>>

\* Mutant of HandleFails: an invalid payload is tried for ever.
HandleFailsForever(m) ==
    /\ pc[m] = "handle"
    /\ InHand(m) \in Permanent
    /\ UNCHANGED vars

\* dispatch fails, in a transient way with or without effect, or for good.
\* DoWithRetry makes no difference between the two.
HandleFails(m) ==
    /\ pc[m] = "handle"
    /\ \/ /\ InHand(m) \in Permanent
          /\ UNCHANGED <<done, faults>>
       \/ /\ InHand(m) \notin Permanent
          /\ Fault("handler")
          /\ done' \in {done, done \cup {InHand(m)}}
    /\ attempt' = [attempt EXCEPT ![m] = @ + 1]
    /\ Goto(m, IF attempt[m] + 1 = MaxAttempts THEN "dlq" ELSE "handle")
    /\ UNCHANGED <<kafka, position, next, end, hand, dlq, skipped>>

\* sendToDLQ.
SendToDLQ(m) ==
    /\ pc[m] = "dlq"
    /\ dlq' = dlq \cup {InHand(m)}
    /\ NextRecord(m)
    /\ UNCHANGED <<kafka, position, done, skipped, faults>>

\* sendToDLQ fails, which is only logged.
DLQFails(m) ==
    /\ pc[m] = "dlq"
    /\ Fault("dlq")
    /\ skipped' = skipped \cup {InHand(m)}
    /\ NextRecord(m)
    /\ UNCHANGED <<kafka, position, done, dlq>>

\* Mutant of Commit: the offsets of partitions that have moved, too.
CommitAll(m) ==
    /\ pc[m] = "commit"
    /\ committed' = position[m]
    /\ Goto(m, "poll")
    /\ UNCHANGED <<written, owner, position, next, end, hand, attempt, result,
                   faults>>

\* CommitUncommittedOffsets, for the partitions the member still owns.
Commit(m) ==
    /\ pc[m] = "commit"
    /\ committed' = [p \in Partitions |-> IF owner[p] = m THEN position[m][p]
                                          ELSE committed[p]]
    /\ Goto(m, "poll")
    /\ UNCHANGED <<written, owner, position, next, end, hand, attempt, result,
                   faults>>

\* The commit fails, which is only logged: the next one makes up for it.
CommitFails(m) ==
    /\ pc[m] = "commit"
    /\ Fault("commit")
    /\ Goto(m, "poll")
    /\ UNCHANGED <<kafka, position, next, end, hand, attempt, result>>

-----------------------------------------------------------------------------
Progress(m) ==
    \/ Poll(m) \/ Handle(m) \/ SendToDLQ(m) \/ Commit(m)
    \/ pc[m] = "handle" /\ InHand(m) \in Permanent /\ HandleFails(m)

Next ==
    \/ \E p \in Partitions : Write(p) \/ \E m \in Members : Assign(p, m)
    \/ \E m \in Members :
          \/ Poll(m) \/ PollError(m)
          \/ Handle(m) \/ HandleFails(m)
          \/ SendToDLQ(m) \/ DLQFails(m)
          \/ Commit(m) \/ CommitFails(m)
          \/ Crash(m)

Spec == Init /\ [][Next]_vars

\* Members keep running their loop, and a partition does not stay free.
FairSpec ==
    /\ Spec
    /\ \A m \in Members : WF_vars(Progress(m))
    /\ \A p \in Partitions :
          WF_vars(owner[p] = None /\ \E m \in Members : Assign(p, m))

-----------------------------------------------------------------------------
(* Properties.                                                             *)

Handled(r) == r \in done \cup dlq

\* An offset is committed only when every record before it was handled, is in
\* the dead letter queue, or was passed over by one of the two steps that do so
\* (PollError and DLQFails): retries, crashes, failed commits and partitions
\* that move while their records are being handled lose nothing.
NothingElseLost ==
    \A p \in Partitions : \A n \in 1..committed[p] :
        Handled(<<p, n>>) \/ <<p, n>> \in skipped

\* The records of a partition take effect in order: none does, for the first
\* time, before those ahead of it took effect or were given up.  A member that
\* has lost the partition and goes on does not jump ahead.
HandledInOrder ==
    \A r \in done : \A n \in 1..(r[2] - 1) :
        Handled(<<r[1], n>>) \/ <<r[1], n>> \in skipped

\* The group never goes back behind what it has committed, so that what a
\* rebalance replays is limited to the last batch.
CommitForward ==
    [][\A p \in Partitions : committed'[p] >= committed[p]]_vars

\* The records as events.  A member that has lost its partition may still handle
\* what it was handed, or park it.
Delivery == INSTANCE EventDelivery WITH
    Events <- Records,
    Ahead <- [r \in Records |-> {<<r[1], n>> : n \in 1..(r[2] - 1)}],
    emitted <- {r \in Records : r[2] <= written[r[1]]},
    delivered <- done,
    givenUp <- dlq \cup skipped,
    settled <- {r \in Records : r[2] <= committed[r[1]]}

\* The consumer group delivers at least once, in the order of a partition
\* (consumer.go:43): with all its members, polls, retries, rebalances and
\* commits, a record takes effect or is given up before the next one, and what a
\* commit settles is never taken back.
ImplementsDelivery == Delivery!Spec

\* Every record is handled or ends up in the dead letter queue, unless it was
\* passed over: no record is stuck behind an invalid one, a member that died or
\* a partition that moved.
EveryRecordHandled ==
    \A r \in Records :
        (written[r[1]] >= r[2]) ~> (Handled(r) \/ r \in skipped)

-----------------------------------------------------------------------------
(* What the repository says of the program and the code does not do.       *)

\* consumer.go:43 (order-service): offsets are committed only after a record was
\* handled or sent to the dead letter queue; README.md:121: with the queue no
\* message is lost.
CommittedIsHandled ==
    \A p \in Partitions : \A n \in 1..committed[p] : Handled(<<p, n>>)
=============================================================================
