------------------------- MODULE OutboxRelayProofs -------------------------
(***************************************************************************)
(* Proofs about OutboxRelay, for every number of rows, workers and faults. *)
(* The inductive invariant relates what a worker holds uncommitted to the  *)
(* committed table and to the topic; with it the relay is shown to         *)
(* implement EventDelivery.                                                *)
(***************************************************************************)
EXTENDS OutboxRelay, FiniteSetTheorems, TLAPS

\* A batch consists of committed rows, its to-do list is part of it.  As long as
\* the worker holds its locks they are PENDING; when it has lost them, another
\* may have settled them.
BatchIsPending ==
    \A w \in Workers :
        /\ todo[w] \subseteq batch[w]
        /\ \A i \in batch[w] : status[i] # "absent"
        /\ Holds(w) => \A i \in batch[w] : status[i] = "PENDING"

\* What a worker has dealt with in an intact transaction carries its final
\* mark, and a mark SENT or an acknowledgement means that Kafka has the record.
MarksOf(w) ==
    /\ \A i \in batch[w] \ todo[w] :
          transaction[w] = "intact" =>
              /\ mark[w][i] # "PROCESSING"
              /\ mark[w][i] = "SENT" => Published(i)
    /\ acked[w] => todo[w] # {}
    /\ acked[w] => \A i \in Rows : InHand(w, i) => Published(i)

MarksAreTrue == \A w \in Workers : MarksOf(w)

RelayInv ==
    /\ TypeOK
    /\ BatchIsPending
    /\ BatchesDisjoint
    /\ MarksAreTrue
    /\ SentIsPublished

\* What is in the topic stays there.
LEMMA PublishedStays ==
    ASSUME topic \in Seq(Rows),
           NEW j \in Rows, topic' \in {topic, Append(topic, j)}
    PROVE  /\ topic' \in Seq(Rows)
           /\ \A i \in Rows : Published(i) => Published(i)'
           /\ \A i \in Rows : Published(i)' => i = j \/ Published(i)
           /\ topic' = Append(topic, j) => Published(j)'
<1>1. CASE topic' = topic
  BY <1>1 DEF Published
<1>2. CASE topic' = Append(topic, j)
  <2>1. /\ topic' \in Seq(Rows)
        /\ Len(topic') = Len(topic) + 1
        /\ \A n \in 1..Len(topic) : topic'[n] = topic[n]
        /\ topic'[Len(topic) + 1] = j
    BY <1>2
  <2>2. DOMAIN topic = 1..Len(topic) /\ DOMAIN topic' = 1..(Len(topic) + 1)
        /\ Len(topic) \in Nat
    BY <2>1
  <2>3. \A i \in Rows : Published(i) => Published(i)'
    BY <2>1, <2>2 DEF Published
  <2>4. \A i \in Rows : Published(i)' => i = j \/ Published(i)
    <3> SUFFICES ASSUME NEW i \in Rows, NEW n \in DOMAIN topic', topic'[n] = i
                 PROVE  i = j \/ Published(i)
      BY DEF Published
    <3>1. n \in 1..Len(topic) \/ n = Len(topic) + 1
      BY <2>2
    <3> QED
      BY <3>1, <2>1, <2>2 DEF Published
  <2>5. Published(j)'
    BY <2>1, <2>2 DEF Published
  <2> QED
    BY <2>1, <2>3, <2>4, <2>5
<1> QED
  BY <1>1, <1>2

\* A worker that does not move keeps its promise as the topic grows.
LEMMA MarksFrame ==
    ASSUME NEW v \in Workers, MarksOf(v), batch[v] \subseteq Rows,
           batch'[v] = batch[v], todo'[v] = todo[v], acked'[v] = acked[v],
           hand'[v] = hand[v], mark'[v] = mark[v],
           transaction'[v] = transaction[v],
           \A i \in Rows : Published(i) => Published(i)'
    PROVE  MarksOf(v)'
<1>1. \A i \in Rows : InHand(v, i)' <=> InHand(v, i)
  BY DEF InHand
<1> QED
  BY <1>1 DEF MarksOf

\* So does a worker that has nothing dealt with and nothing acknowledged.
LEMMA MarksFresh ==
    ASSUME NEW v \in Workers, batch'[v] \subseteq todo'[v], acked'[v] = FALSE
    PROVE  MarksOf(v)'
  BY DEF MarksOf

\* It holds when the service starts with an empty table.
LEMMA InitInv == Init => RelayInv
<1> SUFFICES ASSUME Init PROVE RelayInv
  OBVIOUS
<1> USE RelayAssumption DEF Init
<1>1. TypeOK
  BY DEF TypeOK
<1>2. \A i \in Rows : ~Published(i)
  BY DEF Published
<1> QED
  BY <1>1, <1>2 DEF RelayInv, BatchIsPending, BatchesDisjoint, MarksAreTrue,
     MarksOf, SentIsPublished

\* Steps that leave the topic and the committed table alone.
LEMMA StillPublished ==
    ASSUME topic' = topic PROVE \A i \in Rows : Published(i)' <=> Published(i)
  BY DEF Published

\* Every step keeps it, a lost transaction included.
LEMMA NextInv == RelayInv /\ [Next]_vars => RelayInv'
<1> SUFFICES ASSUME RelayInv, [Next]_vars PROVE RelayInv'
  OBVIOUS
<1> USE RelayAssumption DEF Holds
<1>0. /\ TypeOK /\ BatchIsPending /\ BatchesDisjoint /\ SentIsPublished
        /\ \A v \in Workers : MarksOf(v) /\ batch[v] \subseteq Rows
  BY DEF RelayInv, MarksAreTrue, TypeOK
<1>1. ASSUME NEW i \in Rows, Insert(i) PROVE RelayInv'
  <2>1. TypeOK'
    BY <1>0, <1>1 DEF TypeOK, Insert, work, faults
  <2>2. \A j \in Rows : Published(j)' <=> Published(j)
    BY <1>1, StillPublished DEF Insert
  <2>3. MarksAreTrue'
    BY <1>0, <1>1, <2>2, MarksFrame DEF MarksAreTrue, Insert, work
  <2> QED
    BY <1>0, <1>1, <2>1, <2>2, <2>3 DEF RelayInv, TypeOK, BatchIsPending,
       BatchesDisjoint, SentIsPublished, Insert, work
<1>2. ASSUME NEW w \in Workers, Poll(w) PROVE RelayInv'
  <2>1. FirstOf(Available, BatchLimit) \subseteq Available
    BY DEF FirstOf
  <2>2. \A i \in Available : /\ i \in Rows
                             /\ status[i] = "PENDING"
                             /\ \A v \in Workers : Holds(v) => i \notin batch[v]
    BY DEF Available, Locked
  <2>3. TypeOK'
    BY <1>0, <1>2, <2>1, <2>2 DEF TypeOK, Poll, TakeNext, rows, faults
  <2>4. BatchIsPending' /\ BatchesDisjoint'
    BY <1>0, <1>2, <2>1, <2>2 DEF TypeOK, BatchIsPending, BatchesDisjoint, Poll, TakeNext,
       rows
  <2>5. acked[w] = FALSE
    BY <1>0, <1>2 DEF BatchIsPending, MarksOf, Poll, TakeNext, TypeOK
  <2>6. \A j \in Rows : Published(j)' <=> Published(j)
    BY <1>2, StillPublished DEF Poll, TakeNext
  <2>7. ASSUME NEW v \in Workers PROVE MarksOf(v)'
    <3>1. CASE v = w
      BY <1>0, <1>2, <2>5, <3>1, MarksFresh DEF Poll, TakeNext, TypeOK
    <3>2. CASE v # w
      BY <1>0, <1>2, <2>6, <3>2, MarksFrame DEF Poll, TakeNext, TypeOK
    <3> QED
      BY <3>1, <3>2
  <2> QED
    BY <1>0, <1>2, <2>3, <2>4, <2>6, <2>7 DEF RelayInv, MarksAreTrue,
       SentIsPublished, Poll, rows
<1>3. ASSUME NEW w \in Workers, NEW i \in Rows, Produce(w, i) PROVE RelayInv'
  <2>1. /\ topic' \in Seq(Rows)
        /\ \A j \in Rows : Published(j) => Published(j)'
        /\ \A j \in Rows : Published(j)' => j = i \/ Published(j)
        /\ Published(i)'
    BY <1>0, <1>3, PublishedStays DEF TypeOK, Produce
  <2>2. TypeOK'
    BY <1>0, <1>3, <2>1 DEF TypeOK, Produce, rows, faults
  <2>3. status[i] # "absent"
    BY <1>0, <1>3 DEF BatchIsPending, Produce, InHand
  <2>4. MarksOf(w)'
    <3>1. \A j \in Rows : InHand(w, j)' => j = i
      BY <1>0, <1>3 DEF Produce, InHand, Rows, TypeOK
    <3>2. todo'[w] # {}
      BY <1>3 DEF Produce, InHand
    <3>3. /\ batch'[w] = batch[w] /\ todo'[w] = todo[w]
          /\ hand'[w] = hand[w] /\ mark'[w] = mark[w] /\ transaction'[w] = transaction[w]
      BY <1>3 DEF Produce
    <3> QED
      BY <1>0, <2>1, <3>1, <3>2, <3>3 DEF MarksOf
  <2>5. ASSUME NEW v \in Workers, v # w PROVE MarksOf(v)'
    BY <1>0, <1>3, <2>1, <2>5, MarksFrame DEF Produce, TypeOK
  <2> QED
    BY <1>0, <1>3, <2>1, <2>2, <2>3, <2>4, <2>5 DEF RelayInv, BatchIsPending,
       BatchesDisjoint, MarksAreTrue, SentIsPublished, Produce,
       rows
<1>4. ASSUME NEW w \in Workers, NEW i \in Rows, ProduceError(w, i)
      PROVE RelayInv'
  <2>1. /\ topic' \in Seq(Rows)
        /\ \A j \in Rows : Published(j) => Published(j)'
        /\ \A j \in Rows : Published(j)' => j = i \/ Published(j)
    BY <1>0, <1>4, PublishedStays DEF TypeOK, ProduceError
  <2>2. TypeOK'
    BY <1>0, <1>4, <2>1 DEF TypeOK, ProduceError, rows, Decided
  <2>3. status[i] # "absent"
    BY <1>0, <1>4 DEF BatchIsPending, ProduceError, InHand
  <2>4. MarksAreTrue'
    BY <1>0, <1>4, <2>1, MarksFrame DEF MarksAreTrue, ProduceError
  <2> QED
    BY <1>0, <1>4, <2>1, <2>2, <2>3, <2>4 DEF RelayInv, BatchIsPending,
       BatchesDisjoint, SentIsPublished, ProduceError, rows
<1>5. ASSUME NEW w \in Workers, NEW i \in Rows, Mark(w, i) PROVE RelayInv'
  <2>1. TypeOK'
    <3>1. mark' \in [Workers -> [Rows -> {"PROCESSING", "SENT", "FAILED"}]]
      BY <1>0, <1>5 DEF TypeOK, Mark
    <3>2. todo' \in [Workers -> SUBSET Rows] /\ hand' \in [Workers -> Rows \cup {0}]
      <4>1. TakeNext(w, todo[w] \ {i}) /\ todo[w] \ {i} \in SUBSET Rows
            /\ todo \in [Workers -> SUBSET Rows] /\ hand \in [Workers -> Rows \cup {0}]
        BY <1>0, <1>5 DEF TypeOK, Mark, NextMessage
      <4> QED
        BY <4>1 DEF TakeNext
    <3>3. attempt' \in [Workers -> 0..MaxAttempts]
      BY <1>0, <1>5 DEF TypeOK, Mark, NextMessage
    <3>4. acked' \in [Workers -> BOOLEAN]
      BY <1>0, <1>5 DEF TypeOK, Mark, NextMessage
    <3> QED
      BY <1>0, <1>5, <3>1, <3>2, <3>3, <3>4 DEF TypeOK, Mark, rows, faults
  <2>2. \A j \in Rows : Published(j)' <=> Published(j)
    BY <1>5, StillPublished DEF Mark
  <2>3. MarksOf(w)'
    <3>1. acked[w] => Published(i)
      BY <1>0, <1>5 DEF MarksOf, Mark
    <3>2. /\ batch'[w] = batch[w] /\ todo'[w] = todo[w] \ {i}
          /\ transaction'[w] = transaction[w] /\ acked'[w] = FALSE
      BY <1>0, <1>5 DEF Mark, NextMessage, TakeNext, TypeOK
    <3>3. ASSUME NEW j \in batch[w] \ (todo[w] \ {i}), transaction[w] = "intact"
          PROVE  /\ mark'[w][j] # "PROCESSING"
                 /\ mark'[w][j] = "SENT" => Published(j)
      <4>1. CASE j = i
        BY <1>0, <1>5, <3>1, <3>3, <4>1 DEF Mark, TypeOK
      <4>2. CASE j # i
        <5>1. mark'[w][j] = mark[w][j]
          BY <1>0, <1>5, <4>2 DEF Mark, TypeOK
        <5> QED
          BY <1>0, <3>3, <4>2, <5>1 DEF MarksOf
      <4> QED
        BY <4>1, <4>2
    <3> QED
      BY <1>0, <2>2, <3>2, <3>3 DEF MarksOf
  <2>4. ASSUME NEW v \in Workers, v # w PROVE MarksOf(v)'
    BY <1>0, <1>5, <2>2, <2>4, MarksFrame DEF Mark, NextMessage, TakeNext, TypeOK
  <2>5. BatchIsPending' /\ BatchesDisjoint'
    BY <1>0, <1>5 DEF TypeOK, BatchIsPending, BatchesDisjoint, Mark,
       NextMessage, TakeNext, rows
  <2>6. SentIsPublished'
    BY <1>0, <1>5, <2>2 DEF SentIsPublished, Mark, rows
  <2> QED
    BY <2>1, <2>3, <2>4, <2>5, <2>6 DEF RelayInv, MarksAreTrue
<1>6. ASSUME NEW w \in Workers, NEW i \in Rows, MarkError(w, i)
      PROVE RelayInv'
  <2>1. TypeOK'
    <3>1. todo' \in [Workers -> SUBSET Rows] /\ hand' \in [Workers -> Rows \cup {0}]
      <4>1. TakeNext(w, todo[w] \ {i}) /\ todo[w] \ {i} \in SUBSET Rows
            /\ todo \in [Workers -> SUBSET Rows] /\ hand \in [Workers -> Rows \cup {0}]
        BY <1>0, <1>6 DEF TypeOK, MarkError, NextMessage
      <4> QED
        BY <4>1 DEF TakeNext
    <3>2. attempt' \in [Workers -> 0..MaxAttempts]
      BY <1>0, <1>6 DEF TypeOK, MarkError, NextMessage
    <3>3. acked' \in [Workers -> BOOLEAN] /\ transaction' \in [Workers -> {"intact", "aborted", "gone"}]
      BY <1>0, <1>6 DEF TypeOK, MarkError, NextMessage
    <3>4. txErrors' \in Nat
      BY <1>0, <1>6 DEF TypeOK, MarkError
    <3> QED
      BY <1>0, <1>6, <3>1, <3>2, <3>3, <3>4 DEF TypeOK, MarkError, rows
  <2>2. \A j \in Rows : Published(j)' <=> Published(j)
    BY <1>6, StillPublished DEF MarkError
  <2>3. MarksOf(w)'
    <3>1. transaction'[w] = "aborted" /\ acked'[w] = FALSE
      BY <1>0, <1>6 DEF MarkError, NextMessage, TakeNext, TypeOK
    <3> QED
      BY <3>1 DEF MarksOf
  <2>4. ASSUME NEW v \in Workers, v # w PROVE MarksOf(v)'
    BY <1>0, <1>6, <2>2, <2>4, MarksFrame DEF MarkError, NextMessage, TakeNext, TypeOK
  <2> QED
    <3>1. /\ transaction'[w] = "aborted" /\ transaction[w] = "intact"
          /\ \A v \in Workers \ {w} : transaction'[v] = transaction[v]
          /\ todo'[w] = todo[w] \ {i}
          /\ \A v \in Workers \ {w} : todo'[v] = todo[v]
          /\ UNCHANGED <<batch, status>>
      BY <1>0, <1>6 DEF TypeOK, MarkError, NextMessage, TakeNext, rows
    <3>2. BatchIsPending' /\ BatchesDisjoint'
      BY <1>0, <3>1 DEF BatchIsPending, BatchesDisjoint
    <3>3. SentIsPublished'
      BY <1>0, <2>2, <3>1 DEF SentIsPublished
    <3> QED
      BY <2>1, <2>3, <2>4, <3>2, <3>3 DEF RelayInv, MarksAreTrue
<1>7. ASSUME NEW w \in Workers, Commit(w) PROVE RelayInv'
  <2>1. ASSUME NEW i \in batch[w], transaction[w] = "intact"
        PROVE  /\ mark[w][i] \in {"SENT", "FAILED"}
               /\ mark[w][i] = "SENT" => Published(i)
    BY <1>0, <1>7, <2>1 DEF TypeOK, MarksOf, Commit
  <2>2. TypeOK'
    BY <1>0, <1>7, <2>1 DEF TypeOK, Commit, EndBatch, faults
  <2>3. BatchIsPending' /\ BatchesDisjoint'
    <3>1. /\ batch'[w] = {} /\ todo'[w] = {}
          /\ \A v \in Workers \ {w} : /\ batch'[v] = batch[v]
                                      /\ todo'[v] = todo[v]
                                      /\ transaction'[v] = transaction[v]
      BY <1>0, <1>7 DEF TypeOK, Commit, EndBatch
    <3>2. \A i \in Rows : status'[i] \in {status[i], "SENT", "FAILED"}
      BY <1>0, <1>7, <2>1 DEF Commit
    <3>3. ASSUME NEW v \in Workers \ {w}, Holds(v)
          PROVE  \A i \in batch[v] : status'[i] = status[i]
      BY <1>0, <1>7, <3>3 DEF BatchesDisjoint, Commit
    <3>4. BatchIsPending'
      <4> SUFFICES ASSUME NEW v \in Workers
                   PROVE  /\ todo'[v] \subseteq batch'[v]
                          /\ \A i \in batch'[v] : status'[i] # "absent"
                          /\ Holds(v)' => \A i \in batch'[v] : status'[i] = "PENDING"
        BY DEF BatchIsPending
      <4>1. CASE v = w
        BY <3>1, <4>1
      <4>2. CASE v # w
        BY <1>0, <3>1, <3>2, <3>3, <4>2 DEF BatchIsPending
      <4> QED
        BY <4>1, <4>2
    <3>5. BatchesDisjoint'
      BY <1>0, <3>1 DEF BatchesDisjoint
    <3> QED
      BY <3>4, <3>5
  <2>4. \A j \in Rows : Published(j)' <=> Published(j)
    BY <1>7, StillPublished DEF Commit
  <2>5. MarksOf(w)'
    BY <1>0, <1>7, MarksFresh DEF Commit, EndBatch, TypeOK
  <2>6. ASSUME NEW v \in Workers, v # w PROVE MarksOf(v)'
    BY <1>0, <1>7, <2>4, <2>6, MarksFrame DEF Commit, EndBatch, TypeOK
  <2>7. SentIsPublished'
    BY <1>0, <1>7, <2>1, <2>4 DEF TypeOK, BatchIsPending, SentIsPublished, Commit
  <2> QED
    BY <2>2, <2>3, <2>5, <2>6, <2>7 DEF RelayInv, MarksAreTrue
<1>8. ASSUME NEW w \in Workers, Rollback(w) PROVE RelayInv'
  <2>1. TypeOK'
    BY <1>0, <1>8 DEF TypeOK, Rollback, EndBatch, rows
  <2>2. \A j \in Rows : Published(j)' <=> Published(j)
    BY <1>8, StillPublished DEF Rollback
  <2>3. BatchIsPending' /\ BatchesDisjoint'
    BY <1>0, <1>8 DEF TypeOK, BatchIsPending, BatchesDisjoint, Rollback,
       EndBatch, rows
  <2>4. MarksOf(w)'
    BY <1>0, <1>8, MarksFresh DEF Rollback, EndBatch, TypeOK
  <2>5. ASSUME NEW v \in Workers, v # w PROVE MarksOf(v)'
    BY <1>0, <1>8, <2>2, <2>5, MarksFrame DEF Rollback, EndBatch, TypeOK
  <2> QED
    BY <1>0, <1>8, <2>1, <2>2, <2>3, <2>4, <2>5 DEF RelayInv, MarksAreTrue,
       SentIsPublished, Rollback, rows
<1>9. ASSUME NEW w \in Workers, LoseConnection(w) PROVE RelayInv'
  <2>1. /\ transaction'[w] = "gone"
        /\ \A v \in Workers \ {w} : transaction'[v] = transaction[v]
        /\ UNCHANGED <<status, topic, batch, todo, hand, acked, mark>>
    BY <1>0, <1>9 DEF LoseConnection, TypeOK, rows
  <2>2. TypeOK'
    BY <1>0, <1>9 DEF TypeOK, LoseConnection, rows
  <2>3. \A j \in Rows : Published(j)' <=> Published(j)
    BY <2>1, StillPublished
  <2>4. BatchIsPending' /\ BatchesDisjoint'
    BY <1>0, <2>1 DEF BatchIsPending, BatchesDisjoint
  <2>5. \A j \in Rows : InHand(w, j)' <=> InHand(w, j)
    BY <2>1 DEF InHand
  <2>6. MarksOf(w)'
    BY <1>0, <2>1, <2>3, <2>5 DEF MarksOf
  <2>7. ASSUME NEW v \in Workers, v # w PROVE MarksOf(v)'
    BY <1>0, <2>1, <2>3, <2>7, MarksFrame
  <2>8. SentIsPublished'
    BY <1>0, <2>1, <2>3 DEF SentIsPublished
  <2> QED
    BY <2>2, <2>4, <2>6, <2>7, <2>8 DEF RelayInv, MarksAreTrue
<1>10. CASE UNCHANGED vars
  <2>1. \A j \in Rows : Published(j)' <=> Published(j)
    BY <1>10, StillPublished DEF vars
  <2>2. MarksAreTrue'
    BY <1>0, <1>10, <2>1, MarksFrame DEF MarksAreTrue, vars, work
  <2> QED
    BY <1>0, <1>10, <2>1, <2>2 DEF RelayInv, TypeOK, BatchIsPending,
       BatchesDisjoint, SentIsPublished, vars, rows, work,
       faults
<1> QED
  BY <1>1, <1>2, <1>3, <1>4, <1>5, <1>6, <1>7, <1>8, <1>9,
     <1>10 DEF Next, Progress

\* The invariant that the properties below are read off.
THEOREM RelayInvariant == Spec => []RelayInv
  BY InitInv, NextInv, PTL DEF Spec

\* The type invariant of the relay.
THEOREM TypeCorrect == Spec => []TypeOK
  BY RelayInvariant, PTL DEF RelayInv

\* A row is SENT only if Kafka has it, for every batch size, number of workers
\* and pattern of failures.
THEOREM SentImpliesPublished == Spec => []SentIsPublished
  BY RelayInvariant, PTL DEF RelayInv

\* SKIP LOCKED keeps the batches of concurrent workers apart, as long as they
\* have their connections.
THEOREM WorkersApart == Spec => []BatchesDisjoint
  BY RelayInvariant, PTL DEF RelayInv

\* A settled row is in no batch that is still locked: no step marks it, and only
\* a worker without its locks publishes it.
LEMMA SettledStays == RelayInv /\ [Next]_vars => [SettledStep]_vars
<1> SUFFICES ASSUME RelayInv, [Next]_vars, NEW i \in Rows, Settled(i)
             PROVE  /\ status'[i] = status[i]
                    /\ topic' = Append(topic, i) =>
                          \E w \in Workers : ~Holds(w) /\ InHand(w, i)
  BY DEF SettledStep
<1>1. /\ TypeOK /\ status[i] \in {"SENT", "FAILED"}
      /\ \A w \in Workers : Holds(w) => i \notin batch[w] /\ i \notin todo[w]
  BY DEF RelayInv, BatchIsPending, Settled
<1>2. topic # Append(topic, i)
  <2>1. Len(Append(topic, i)) = Len(topic) + 1 /\ Len(topic) \in Nat
    BY <1>1 DEF TypeOK
  <2> QED
    BY <2>1
<1>3. \A j \in Rows : j # i => Append(topic, j) # Append(topic, i)
  BY <1>1 DEF TypeOK
<1>4. ASSUME NEW w \in Workers, NEW j \in Rows,
             Produce(w, j) \/ ProduceError(w, j)
      PROVE  /\ status'[i] = status[i]
             /\ topic' = Append(topic, i) =>
                   \E v \in Workers : ~Holds(v) /\ InHand(v, i)
  <2>1. /\ status' = status /\ InHand(w, j)
        /\ topic' \in {topic, Append(topic, j)}
    BY <1>4 DEF Produce, ProduceError, rows
  <2>2. CASE j = i
    <3>1. ~Holds(w)
      BY <1>1, <2>1, <2>2 DEF InHand
    <3> QED
      BY <2>1, <2>2, <3>1
  <2> QED
    BY <1>2, <1>3, <2>1, <2>2
<1>5. ASSUME NEW w \in Workers, Commit(w)
      PROVE  status'[i] = status[i] /\ topic' # Append(topic, i)
  BY <1>1, <1>2, <1>5 DEF Commit, Holds
<1>6. ASSUME NEW w \in Workers,
             \/ Poll(w) \/ LoseConnection(w) \/ Rollback(w)
             \/ \E j \in Rows : Mark(w, j) \/ MarkError(w, j)
      PROVE  status'[i] = status[i] /\ topic' # Append(topic, i)
  BY <1>2, <1>6 DEF Poll, LoseConnection, Rollback, Mark, MarkError, rows
<1>7. ASSUME NEW j \in Rows, Insert(j)
      PROVE  status'[i] = status[i] /\ topic' # Append(topic, i)
  BY <1>1, <1>2, <1>7 DEF Insert, TypeOK
<1>8. CASE UNCHANGED vars
  BY <1>2, <1>8 DEF vars, rows
<1> QED
  BY <1>4, <1>5, <1>6, <1>7, <1>8 DEF Next, Progress

\* A settled row never changes its status, whatever workers that lost their
\* connection still do, and they are the only ones that publish it again.
THEOREM SettledStaysSettled == Spec => SettledIsFinal
  BY RelayInvariant, SettledStays, PTL DEF Spec, SettledIsFinal

-----------------------------------------------------------------------------
(* The order of an aggregate.                                              *)

\* One worker, RETURNING keeps the order, and no row is given up.
Orderly ==
    /\ Returns = "ordered"
    /\ MaxProduceErrors < MaxAttempts
    /\ \A v, w \in Workers : v = w

\* Rows are inserted after those they were inserted after, and published later.
RowsOK ==
    /\ \A i \in Rows, j \in Rows :
          status[i] # "absent" /\ j \in before[i] => status[j] # "absent"
    /\ \A i \in Rows : status[i] # "FAILED"
    /\ \A i \in Rows : Published(i) => status[i] # "absent"

\* A worker that never gives up goes through its batch in order, and what came
\* before a row of the batch is in the batch or published.
InTurn(w) ==
    /\ attempt[w] <= produceErrors
    /\ \A i \in Rows : mark[w][i] # "FAILED"
    /\ \A i \in batch[w] \ todo[w] : Published(i)
    /\ \A i \in todo[w] : hand[w] \in todo[w] /\ hand[w] <= i
    /\ \A i \in batch[w] : \A j \in before[i] :
          j < i => Published(j) \/ j \in batch[w]

TurnInv ==
    /\ RowsOK
    /\ produceErrors <= MaxProduceErrors
    /\ \A w \in Workers : InTurn(w)
    /\ FirstInOrder

\* The poll's LIMIT cuts off the end: what comes before a row it takes is taken.
LEMMA FirstOfClosed ==
    ASSUME NEW S \in SUBSET Rows, NEW n, n \in Nat, NEW i \in FirstOf(S, n),
           NEW j \in S, j < i
    PROVE  j \in FirstOf(S, n)
<1> DEFINE A == {k \in S : k < j}
           B == {k \in S : k < i}
<1>1. IsFiniteSet(Rows)
  BY RelayAssumption, FS_Interval DEF Rows
<1>2. A \subseteq B /\ B \subseteq Rows /\ i \in Rows /\ j \in Rows
  <2>1. i \in S /\ S \subseteq Rows
    BY DEF FirstOf
  <2>2. Rows \subseteq Int
    BY DEF Rows
  <2>3. \A k \in S : k < j => k < i
    BY <2>1, <2>2
  <2> QED
    BY <2>1, <2>3
<1>3. IsFiniteSet(B) /\ IsFiniteSet(A)
  BY <1>1, <1>2, FS_Subset
<1>4. Cardinality(A) <= Cardinality(B) /\ Cardinality(A) \in Nat /\ Cardinality(B) \in Nat
  BY <1>2, <1>3, FS_Subset, FS_CardinalityType
<1>5. Cardinality(B) < n
  BY DEF FirstOf
<1>6. Cardinality(A) < n
  BY <1>4, <1>5
<1> QED
  BY <1>6 DEF FirstOf

LEMMA TurnInit == Init => TurnInv
<1> SUFFICES ASSUME Init PROVE TurnInv
  OBVIOUS
<1>1. \A i \in Rows : ~Published(i)
  BY DEF Init, Published
<1>2. FirstInOrder
  BY DEF Init, FirstInOrder
<1>3. \A w \in Workers : InTurn(w)
  BY DEF Init, InTurn
<1> QED
  BY <1>1, <1>2, <1>3, RelayAssumption DEF Init, TurnInv, RowsOK

\* The message in hand may be published: all that came before it is.
LEMMA AppendInOrder ==
    ASSUME RelayInv, TurnInv, NEW w \in Workers, NEW i \in Rows, InHand(w, i),
           topic' \in {topic, Append(topic, i)}, UNCHANGED rows
    PROVE  FirstInOrder'
<1>1. TypeOK /\ i \in batch[w]
  BY DEF RelayInv, BatchIsPending, InHand
<1>2. \A j \in before[i] : j < i => Published(j)
  <2> SUFFICES ASSUME NEW j \in before[i], j < i, ~Published(j) PROVE FALSE
    OBVIOUS
  <2>1. j \in batch[w] /\ j \in todo[w]
    BY <1>1 DEF TurnInv, InTurn
  <2>2. hand[w] = i /\ i <= j
    BY <2>1 DEF TurnInv, InTurn, InHand
  <2> QED
    BY <1>1, <2>2 DEF TypeOK, Rows
<1>3. CASE topic' = topic
  BY <1>3 DEF TurnInv, FirstInOrder, rows
<1>4. CASE topic' = Append(topic, i)
  <2>1. /\ DOMAIN topic = 1..Len(topic) /\ DOMAIN topic' = 1..(Len(topic) + 1)
        /\ Len(topic) \in Nat
        /\ \A n \in 1..Len(topic) : topic'[n] = topic[n]
        /\ topic'[Len(topic) + 1] = i
    BY <1>1, <1>4 DEF TypeOK
  <2> SUFFICES ASSUME NEW n \in DOMAIN topic', NEW j \in before[topic'[n]],
                      j < topic'[n], AggregateOf[j] = AggregateOf[topic'[n]]
               PROVE  \E m \in 1..(n - 1) : topic'[m] = j
    BY DEF FirstInOrder, rows
  <2>2. CASE n \in 1..Len(topic)
    <3>1. PICK m \in 1..(n - 1) : topic[m] = j
      BY <2>1, <2>2 DEF TurnInv, FirstInOrder
    <3>2. m \in 1..Len(topic)
      BY <2>1, <2>2
    <3> QED
      BY <2>1, <3>1, <3>2
  <2>3. CASE n = Len(topic) + 1
    <3>1. Published(j)
      BY <1>2, <2>1, <2>3
    <3>2. PICK m \in 1..Len(topic) : topic[m] = j
      BY <2>1, <3>1 DEF Published
    <3>3. m \in 1..(n - 1)
      BY <2>1, <2>3
    <3> QED
      BY <2>1, <3>2, <3>3
  <2> QED
    BY <2>1, <2>2, <2>3
<1> QED
  BY <1>3, <1>4

\* A step that publishes nothing and inserts nothing.
LEMMA SameOrder == FirstInOrder /\ UNCHANGED <<topic, before>> => FirstInOrder'
BY DEF FirstInOrder

\* The next message of an ordered batch is its first.
LEMMA NextInTurn ==
    ASSUME Orderly, TypeOK, NEW w \in Workers, NEW S \in SUBSET Rows,
           TakeNext(w, S)
    PROVE  todo'[w] = S /\ \A i \in S : hand'[w] \in S /\ hand'[w] <= i
BY DEF Orderly, TypeOK, TakeNext

LEMMA TurnNext == Orderly /\ RelayInv /\ TurnInv /\ [Next]_vars => TurnInv'
<1> SUFFICES ASSUME Orderly, RelayInv, TurnInv, [Next]_vars PROVE TurnInv'
  OBVIOUS
<1>0. /\ TypeOK /\ RowsOK /\ FirstInOrder /\ SentIsPublished
      /\ produceErrors <= MaxProduceErrors
      /\ \A w \in Workers : InTurn(w) /\ MarksOf(w)
      /\ \A v, w \in Workers : v = w
      /\ \A w \in Workers : /\ todo[w] \subseteq batch[w]
                            /\ \A i \in batch[w] : status[i] # "absent"
  BY DEF RelayInv, TurnInv, MarksAreTrue, BatchIsPending, Orderly
<1>1. ASSUME NEW i \in Rows, Insert(i) PROVE TurnInv'
  <2>1. \A j \in Rows : Published(j)' <=> Published(j)
    BY <1>1, StillPublished DEF Insert
  <2>2. /\ status[i] = "absent" /\ status'[i] = "PENDING"
        /\ before'[i] = {j \in Rows : status[j] # "absent"}
        /\ \A j \in Rows \ {i} : status'[j] = status[j] /\ before'[j] = before[j]
        /\ UNCHANGED <<topic, batch, todo, hand, attempt, mark, produceErrors>>
    BY <1>0, <1>1 DEF Insert, work, faults, TypeOK
  <2>3. RowsOK'
    BY <1>0, <2>1, <2>2 DEF RowsOK
  <2>4. \A w \in Workers : InTurn(w)'
    <3> SUFFICES ASSUME NEW w \in Workers PROVE InTurn(w)'
      OBVIOUS
    <3>1. \A k \in batch[w] : k \in Rows \ {i} /\ before[k] \subseteq Rows
      BY <1>0, <2>2 DEF TypeOK
    <3> QED
      BY <1>0, <2>1, <2>2, <3>1 DEF InTurn
  <2>5. FirstInOrder'
    <3>1. \A n \in DOMAIN topic : topic[n] \in Rows /\ topic[n] # i
      BY <1>0, <2>2 DEF RowsOK, Published, TypeOK
    <3> QED
      BY <1>0, <2>2, <3>1 DEF FirstInOrder
  <2> QED
    BY <1>0, <2>2, <2>3, <2>4, <2>5 DEF TurnInv
<1>2. ASSUME NEW w \in Workers, Poll(w) PROVE TurnInv'
  <2> DEFINE S == FirstOf(Available, BatchLimit)
  <2>1. S \in SUBSET Available /\ Available \in SUBSET Rows
    BY DEF FirstOf, Available
  <2>2. /\ batch[w] = {} /\ batch'[w] = S /\ TakeNext(w, S)
        /\ mark'[w] = [i \in Rows |-> "PROCESSING"]
        /\ UNCHANGED <<status, before, topic, attempt, produceErrors>>
    BY <1>0, <1>2 DEF Poll, rows, faults, TypeOK
  <2>3. \A j \in Rows : Published(j)' <=> Published(j)
    BY <2>2, StillPublished
  <2>4. ASSUME NEW i \in S, NEW j \in before[i], j < i
        PROVE  Published(j) \/ j \in S
    <3>1. j \in Rows /\ status[j] \in {"PENDING", "SENT"} /\ i \in Rows
      BY <1>0, <2>1, <2>4 DEF RowsOK, TypeOK, Available
    <3>2. CASE status[j] = "SENT"
      BY <1>0, <3>1, <3>2 DEF SentIsPublished
    <3>3. CASE status[j] = "PENDING"
      <4>1. j \in Available
        BY <1>0, <2>2, <3>1, <3>3 DEF Available, Locked
      <4> QED
        BY <2>1, <2>4, <4>1, FirstOfClosed, RelayAssumption
    <3> QED
      BY <3>1, <3>2, <3>3
  <2>5. todo'[w] = S /\ \A i \in S : hand'[w] \in S /\ hand'[w] <= i
    BY <1>0, <2>1, <2>2, NextInTurn
  <2> HIDE DEF S
  <2>6. InTurn(w)'
    <3>1. attempt[w] <= produceErrors
      BY <1>0 DEF InTurn
    <3>2. S \subseteq Rows
      BY <2>1
    <3>3. \A i \in S : before[i] \subseteq Rows
      BY <1>0, <3>2 DEF TypeOK
    <3> QED
      BY <2>2, <2>3, <2>4, <2>5, <3>1, <3>2, <3>3 DEF InTurn
  <2>7. RowsOK' /\ FirstInOrder'
    BY <1>0, <2>2, <2>3, SameOrder DEF RowsOK
  <2> QED
    BY <1>0, <2>2, <2>6, <2>7 DEF TurnInv
<1>3. ASSUME NEW w \in Workers, NEW i \in Rows,
             Produce(w, i) \/ ProduceError(w, i)
      PROVE  TurnInv'
  <2>1. /\ InHand(w, i) /\ topic' \in {topic, Append(topic, i)}
        /\ UNCHANGED <<status, before, batch, todo, hand, mark>>
        /\ \/ UNCHANGED <<attempt, produceErrors>>
           \/ /\ attempt' = [attempt EXCEPT ![w] = @ + 1]
              /\ produceErrors' = produceErrors + 1
              /\ produceErrors < MaxProduceErrors
    BY <1>3 DEF Produce, ProduceError, rows, faults
  <2>2. /\ \A j \in Rows : Published(j) => Published(j)'
        /\ \A j \in Rows : Published(j)' => j = i \/ Published(j)
    BY <1>0, <2>1, PublishedStays DEF TypeOK
  <2>3. i \in batch[w] /\ status[i] # "absent"
    BY <1>0, <2>1 DEF InHand
  <2>4. RowsOK'
    BY <1>0, <2>1, <2>2, <2>3 DEF RowsOK
  <2>5. produceErrors' <= MaxProduceErrors
        /\ attempt'[w] <= produceErrors'
    BY <1>0, <2>1, RelayAssumption DEF InTurn, TypeOK
  <2>6. InTurn(w)'
    <3>1. \A k \in batch[w] : k \in Rows /\ before[k] \subseteq Rows
      BY <1>0 DEF TypeOK
    <3> QED
      BY <1>0, <2>1, <2>2, <2>5, <3>1 DEF InTurn
  <2>7. FirstInOrder'
    BY <2>1, AppendInOrder DEF rows
  <2> QED
    BY <1>0, <2>4, <2>5, <2>6, <2>7 DEF TurnInv
<1>4. ASSUME NEW w \in Workers, NEW i \in Rows, Mark(w, i) \/ MarkError(w, i)
      PROVE  TurnInv'
  <2>1. /\ InHand(w, i) /\ Decided(w) /\ NextMessage(w, i)
        /\ UNCHANGED <<status, before, topic, batch, produceErrors>>
        /\ mark' \in {mark, [mark EXCEPT ![w][i] = IF acked[w] THEN "SENT"
                                                    ELSE "FAILED"]}
    BY <1>4 DEF Mark, MarkError, rows, faults
  <2>2. acked[w]
    BY <1>0, <2>1, RelayAssumption DEF Orderly, InTurn, Decided, TypeOK
  <2>3. Published(i)
    BY <1>0, <2>1, <2>2 DEF MarksOf
  <2>4. \A j \in Rows : mark'[w][j] # "FAILED"
    BY <1>0, <2>1, <2>2 DEF InTurn, TypeOK
  <2>5. \A j \in Rows : Published(j)' <=> Published(j)
    BY <2>1, StillPublished
  <2>6. /\ todo'[w] = todo[w] \ {i}
        /\ \A j \in todo'[w] : hand'[w] \in todo'[w] /\ hand'[w] <= j
    <3>1. todo[w] \ {i} \in SUBSET Rows /\ TakeNext(w, todo[w] \ {i})
      BY <1>0, <2>1 DEF NextMessage, TypeOK
    <3> QED
      BY <1>0, <3>1, NextInTurn
  <2>7. attempt'[w] <= produceErrors'
    BY <1>0, <2>1 DEF NextMessage, TypeOK
  <2>8. InTurn(w)'
    <3>1. \A k \in batch[w] : k \in Rows /\ before[k] \subseteq Rows
      BY <1>0 DEF TypeOK
    <3> QED
      BY <1>0, <2>1, <2>3, <2>4, <2>5, <2>6, <2>7, <3>1 DEF InTurn
  <2>9. RowsOK' /\ FirstInOrder'
    BY <1>0, <2>1, <2>5, SameOrder DEF RowsOK
  <2> QED
    BY <1>0, <2>1, <2>8, <2>9 DEF TurnInv
<1>5. ASSUME NEW w \in Workers, Commit(w) \/ Rollback(w) PROVE TurnInv'
  <2>1. /\ EndBatch(w) /\ UNCHANGED <<before, topic, produceErrors>>
        /\ \/ status' = status
           \/ /\ status' = [i \in Rows |-> IF i \in batch[w] THEN mark[w][i]
                                           ELSE status[i]]
              /\ todo[w] = {} /\ transaction[w] = "intact"
    BY <1>5 DEF Commit, Rollback, rows, faults
  <2>2. /\ batch'[w] = {} /\ todo'[w] = {} /\ attempt'[w] = 0
        /\ \A i \in Rows : mark'[w][i] = "PROCESSING"
    BY <1>0, <2>1 DEF EndBatch, TypeOK
  <2>3. InTurn(w)'
    BY <1>0, <2>1, <2>2 DEF InTurn, TypeOK
  <2>4. \A i \in Rows : Published(i)' <=> Published(i)
    BY <2>1, StillPublished
  <2>5. \A i \in Rows : /\ status'[i] # "FAILED"
                        /\ status[i] # "absent" <=> status'[i] # "absent"
    BY <1>0, <2>1 DEF RowsOK, InTurn, TypeOK
  <2>6. RowsOK' /\ FirstInOrder'
    BY <1>0, <2>1, <2>4, <2>5, SameOrder DEF RowsOK
  <2> QED
    BY <1>0, <2>1, <2>3, <2>6 DEF TurnInv
<1>6. CASE \/ \E w \in Workers : LoseConnection(w)
           \/ UNCHANGED vars
  <2>1. UNCHANGED <<status, before, topic, batch, todo, hand, attempt, mark,
                    produceErrors>>
    BY <1>6 DEF LoseConnection, vars, rows, work, faults
  <2>2. \A i : Published(i)' <=> Published(i)
    BY <2>1 DEF Published
  <2>3. \A w \in Workers : InTurn(w)'
    BY <1>0, <2>1, <2>2 DEF InTurn
  <2> QED
    BY <1>0, <2>1, <2>2, <2>3, SameOrder DEF TurnInv, RowsOK
<1> QED
  BY <1>1, <1>2, <1>3, <1>4, <1>5, <1>6 DEF Next, Progress

\* docs/events/kafka-operational-design.md:45, as far as the code keeps it: with
\* one worker, an ordered RETURNING and no row given up, the events of an
\* aggregate come out in order, whatever is retried or rolled back.
THEOREM AggregatesInOrder ==
    ASSUME Orderly
    PROVE  Spec => []FirstInOrder
<1>1. RelayInv /\ TurnInv /\ [Next]_vars => TurnInv'
  BY TurnNext
<1>2. TurnInv => FirstInOrder
  BY DEF TurnInv
<1> QED
  BY <1>1, <1>2, TurnInit, RelayInvariant, PTL DEF Spec

-----------------------------------------------------------------------------
(* The relay implements EventDelivery.                                     *)

LEMMA DeliveryInit == Init => Delivery!Init
<1> SUFFICES ASSUME Init PROVE Delivery!Init
  OBVIOUS
<1>1. \A i \in Rows : status[i] = "absent" /\ ~Published(i)
  BY DEF Init, Published
<1> QED
  BY <1>1 DEF Delivery!Init, Settled

\* A step that neither publishes nor changes a committed row stutters.
LEMMA DeliveryStutter ==
    ASSUME UNCHANGED <<status, topic>>
    PROVE  UNCHANGED Delivery!vars
BY DEF Delivery!vars, Published, Settled

LEMMA InsertRefines ==
    ASSUME RelayInv, NEW i \in Rows, Insert(i)
    PROVE  Delivery!Next
<1>1. /\ status[i] = "absent" /\ status'[i] = "PENDING"
      /\ \A j \in Rows \ {i} : status'[j] = status[j]
      /\ UNCHANGED topic
  BY DEF Insert, RelayInv, TypeOK
<1>2. \A j \in Rows : /\ Settled(j)' <=> Settled(j)
                      /\ Published(j)' <=> Published(j)
  BY <1>1, StillPublished DEF Settled
<1>3. Delivery!Emit(i)
  BY <1>1, <1>2 DEF Delivery!Emit
<1> QED
  BY <1>3 DEF Delivery!Next

\* Whatever ProduceSync reports, a record that gets written is a delivery.
LEMMA ProduceRefines ==
    ASSUME RelayInv, NEW w \in Workers, NEW i \in Rows,
           Produce(w, i) \/ ProduceError(w, i)
    PROVE  [Delivery!Next]_(Delivery!vars)
<1>1. /\ status[i] # "absent" /\ topic \in Seq(Rows)
      /\ topic' \in {topic, Append(topic, i)} /\ UNCHANGED status
  BY DEF Produce, ProduceError, InHand, RelayInv, BatchIsPending, TypeOK, rows
<1>2. CASE topic' = topic
  BY <1>1, <1>2, DeliveryStutter
<1>3. CASE topic' = Append(topic, i)
  <2>1. \A j \in Rows : Published(j)' <=> j = i \/ Published(j)
    BY <1>1, <1>3, PublishedStays
  <2>2. \A j \in Rows : Settled(j)' <=> Settled(j)
    BY <1>1 DEF Settled
  <2>3. Delivery!Deliver(i)
    BY <1>1, <2>1, <2>2 DEF Delivery!Deliver, Delivery!Due
  <2> QED
    BY <2>3 DEF Delivery!Next
<1> QED
  BY <1>1, <1>2, <1>3

\* The commit settles the batch: what is marked SENT is in Kafka, the rest is
\* given up.
LEMMA CommitRefines ==
    ASSUME RelayInv, NEW w \in Workers, Commit(w)
    PROVE  [Delivery!Next]_(Delivery!vars)
<1>1. /\ topic' = topic /\ todo[w] = {} /\ TypeOK /\ MarksOf(w) /\ SentIsPublished
      /\ \A i \in batch[w] : /\ i \in Rows
                             /\ Holds(w) => status[i] = "PENDING"
  BY DEF Commit, RelayInv, BatchIsPending, MarksAreTrue, TypeOK
<1>2. CASE transaction[w] # "intact"
  BY <1>1, <1>2, DeliveryStutter DEF Commit
<1>3. CASE transaction[w] = "intact"
  <2>1. \A i \in batch[w] : /\ mark[w][i] \in {"SENT", "FAILED"}
                            /\ mark[w][i] = "SENT" => Published(i)
    BY <1>1, <1>3 DEF MarksOf, TypeOK
  <2>2. \A i \in Rows : status'[i] = IF i \in batch[w] THEN mark[w][i] ELSE status[i]
    BY <1>3 DEF Commit
  <2>3. \A i \in Rows : Published(i)' <=> Published(i)
    BY <1>1, StillPublished
  <2>4. \A i \in Rows : /\ status'[i] # "absent" <=> status[i] # "absent"
                        /\ Settled(i) => Settled(i)'
                        /\ Settled(i)' => Published(i) \/ status'[i] = "FAILED"
                        /\ status[i] = "FAILED" => status'[i] = "FAILED"
                        /\ status'[i] = "FAILED" /\ status[i] # "FAILED"
                             => status[i] # "absent"
    BY <1>1, <1>3, <2>1, <2>2 DEF Settled, SentIsPublished, Holds
  <2>5. Delivery!Finish
    BY <2>3, <2>4 DEF Delivery!Finish, Delivery!Due
  <2> QED
    BY <2>5 DEF Delivery!Next
<1> QED
  BY <1>2, <1>3

LEMMA StepRefines == RelayInv /\ [Next]_vars => [Delivery!Next]_(Delivery!vars)
<1> SUFFICES ASSUME RelayInv, [Next]_vars PROVE [Delivery!Next]_(Delivery!vars)
  OBVIOUS
<1>1. ASSUME NEW w \in Workers,
             \/ Poll(w) \/ LoseConnection(w) \/ Rollback(w)
             \/ \E i \in Rows : Mark(w, i) \/ MarkError(w, i)
      PROVE  UNCHANGED Delivery!vars
  <2>1. UNCHANGED <<status, topic>>
    BY <1>1 DEF Poll, LoseConnection, Rollback, Mark, MarkError, rows
  <2> QED
    BY <2>1, DeliveryStutter
<1>2. CASE UNCHANGED vars
  BY <1>2, DeliveryStutter DEF vars, rows
<1> QED
  BY <1>1, <1>2, InsertRefines, ProduceRefines, CommitRefines DEF Next, Progress

\* relay.go:99, README.md:108: with all its workers, locks, retries, lost
\* transactions and lost connections the relay delivers at least once or gives a
\* row up, and what it has settled stays settled.
THEOREM Implementation == Spec => ImplementsDelivery
BY DeliveryInit, StepRefines, RelayInvariant, PTL
   DEF Spec, ImplementsDelivery, Delivery!Spec
=============================================================================
