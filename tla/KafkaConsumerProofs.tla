------------------------- MODULE KafkaConsumerProofs -------------------------
(***************************************************************************)
(* Proofs about KafkaConsumer: type correctness, that a committed offset   *)
(* covers only what was handled or is known to be passed over, that the    *)
(* records of a partition take effect in order, and that committed offsets *)
(* only move forward, and that the loop implements EventDelivery; for any  *)
(* number of members, partitions, records and attempts, whatever faults    *)
(* happen.                                                                 *)
(***************************************************************************)
EXTENDS KafkaConsumer, TLAPS

-----------------------------------------------------------------------------
(* The inductive invariant.                                                *)

\* Records the group is done with.
Passed == done \cup dlq \cup skipped

Seen(p, k) == \A n \in 1..k : <<p, n>> \in Passed

Handling(m) == pc[m] \in {"handle", "dlq"}

\* The record in hand is one of the last poll.
HandOK(m) ==
    /\ Handling(m) => hand[m] \in Partitions /\ next[m][hand[m]] < end[m][hand[m]]
    /\ pc[m] = "handle" => attempt[m] < MaxAttempts

\* A member is done with what lies before its position, unless it belongs to the
\* poll in hand; of that it is done with what lies before the record in hand.
BatchOK(m) ==
    \A p \in Partitions :
        /\ ~Handling(m) => Seen(p, position[m][p])
        /\ Handling(m) => /\ Seen(p, next[m][p])
                          /\ Seen(p, position[m][p]) \/ position[m][p] <= end[m][p]

\* The position of an owner is not behind the committed offset.
OwnerOK(m) == \A p \in Partitions : owner[p] = m => committed[p] <= position[m][p]

ConsumerInv ==
    /\ TypeOK
    /\ NothingElseLost
    /\ HandledInOrder
    /\ \A m \in Members : HandOK(m) /\ BatchOK(m) /\ OwnerOK(m)

LEMMA LostIsUnseen == NothingElseLost <=> \A p \in Partitions : Seen(p, committed[p])
BY DEF NothingElseLost, Handled, Seen, Passed

LEMMA OrderIsSeen == HandledInOrder <=> \A r \in done : Seen(r[1], r[2] - 1)
BY DEF HandledInOrder, Handled, Seen, Passed

LEMMA InitInv == Init => ConsumerInv
<1> SUFFICES ASSUME Init PROVE ConsumerInv
  OBVIOUS
<1>1. TypeOK
  BY ConsumerAssumption DEF Init, TypeOK, NoOffsets, Offsets
<1>2. NothingElseLost /\ HandledInOrder
  BY DEF Init, NoOffsets, NothingElseLost, HandledInOrder
<1>3. ASSUME NEW m \in Members PROVE HandOK(m) /\ BatchOK(m) /\ OwnerOK(m)
  BY ConsumerAssumption DEF Init, NoOffsets, HandOK, BatchOK, OwnerOK, Handling, Seen
<1> QED
  BY <1>1, <1>2, <1>3 DEF ConsumerInv

-----------------------------------------------------------------------------
(* What the parts of a step do.                                            *)

\* Steps that leave the loop of a member alone.
LEMMA MemberFrame ==
    ASSUME NEW d \in Members, HandOK(d), BatchOK(d), Passed \subseteq Passed',
           pc'[d] = pc[d], hand'[d] = hand[d], attempt'[d] = attempt[d],
           next'[d] = next[d], end'[d] = end[d], position'[d] = position[d]
    PROVE  HandOK(d)' /\ BatchOK(d)'
<1>1. HandOK(d)'
  BY DEF HandOK, Handling
<1>2. BatchOK(d)'
  BY DEF BatchOK, Handling, Seen
<1> QED
  BY <1>1, <1>2

\* The committed offsets and the order of effects, when none is new.
LEMMA LogFrame ==
    ASSUME NothingElseLost, HandledInOrder, Passed \subseteq Passed',
           UNCHANGED <<committed, done>>
    PROVE  NothingElseLost' /\ HandledInOrder'
<1>1. NothingElseLost'
  BY DEF NothingElseLost, Handled, Passed
<1>2. HandledInOrder'
  BY DEF HandledInOrder, Handled, Passed
<1> QED
  BY <1>1, <1>2

LEMMA OwnerFrame ==
    ASSUME NEW d \in Members, OwnerOK(d), UNCHANGED <<committed, owner>>,
           position'[d] = position[d]
    PROVE  OwnerOK(d)'
BY DEF OwnerOK

\* The loop goes on to the next record, or to the commit.
LEMMA MoveOnOK ==
    ASSUME TypeOK, NEW m \in Members, NEW left \in [Partitions -> Offsets],
           MoveOn(m, left), next' = [next EXCEPT ![m] = left],
           end' \in [Members -> [Partitions -> Offsets]],
           position' \in [Members -> [Partitions -> Offsets]],
           \A p \in Partitions :
               /\ \A n \in 1..left[p] : <<p, n>> \in Passed'
               /\ \/ \A n \in 1..position'[m][p] : <<p, n>> \in Passed'
                  \/ position'[m][p] <= end'[m][p]
    PROVE  /\ next' \in [Members -> [Partitions -> Offsets]]
           /\ hand' \in [Members -> Partitions \cup {None}]
           /\ attempt' \in [Members -> 0..MaxAttempts]
           /\ pc' \in [Members -> {"poll", "handle", "dlq", "commit"}]
           /\ HandOK(m)' /\ BatchOK(m)'
           /\ \A d \in Members \ {m} :
                /\ next'[d] = next[d] /\ hand'[d] = hand[d]
                /\ attempt'[d] = attempt[d] /\ pc'[d] = pc[d]
<1>1. next'[m] = left /\ attempt' = [attempt EXCEPT ![m] = 0]
  BY DEF TypeOK, MoveOn
<1>2. CASE /\ \A p \in Partitions : ~(left[p] < end'[m][p])
           /\ hand' = [hand EXCEPT ![m] = None] /\ Goto(m, "commit")
  <2>1. pc' = [pc EXCEPT ![m] = "commit"]
    BY <1>2 DEF Goto
  <2>2. HandOK(m)'
    BY <2>1 DEF TypeOK, HandOK, Handling
  <2>3. ASSUME NEW p \in Partitions PROVE Seen(p, position[m][p])'
    <3>1. left[p] >= end'[m][p] /\ left[p] \in Nat /\ end'[m][p] \in Nat
          /\ position'[m][p] \in Nat
      BY <1>2 DEF Offsets
    <3> QED
      BY <3>1 DEF Seen
  <2>4. BatchOK(m)'
    BY <2>1, <2>3 DEF TypeOK, BatchOK, Handling
  <2> QED
    BY <1>1, <1>2, <2>1, <2>2, <2>4, ConsumerAssumption DEF TypeOK
<1>3. ASSUME NEW h \in Partitions, left[h] < end'[m][h],
             hand' = [hand EXCEPT ![m] = h], Goto(m, "handle")
      PROVE  /\ hand' \in [Members -> Partitions \cup {None}]
             /\ pc' = [pc EXCEPT ![m] = "handle"]
             /\ HandOK(m)' /\ BatchOK(m)'
             /\ \A d \in Members \ {m} : hand'[d] = hand[d]
  <2>1. pc' = [pc EXCEPT ![m] = "handle"]
    BY <1>3 DEF Goto
  <2>2. HandOK(m)'
    BY <1>1, <1>3, <2>1, ConsumerAssumption DEF TypeOK, HandOK, Handling
  <2>3. BatchOK(m)'
    BY <1>1, <2>1 DEF TypeOK, BatchOK, Handling, Seen
  <2> QED
    BY <1>3, <2>1, <2>2, <2>3 DEF TypeOK
<1>4. \/ /\ \A p \in Partitions : ~(left[p] < end'[m][p])
         /\ hand' = [hand EXCEPT ![m] = None] /\ Goto(m, "commit")
      \/ \E h \in Partitions : /\ left[h] < end'[m][h]
                               /\ hand' = [hand EXCEPT ![m] = h]
                               /\ Goto(m, "handle")
  BY DEF MoveOn
<1>5. CASE \E h \in Partitions : /\ left[h] < end'[m][h]
                                 /\ hand' = [hand EXCEPT ![m] = h]
                                 /\ Goto(m, "handle")
  <2>1. PICK h \in Partitions : /\ left[h] < end'[m][h]
                                /\ hand' = [hand EXCEPT ![m] = h]
                                /\ Goto(m, "handle")
    BY <1>5
  <2>2. /\ hand' \in [Members -> Partitions \cup {None}]
        /\ pc' = [pc EXCEPT ![m] = "handle"]
        /\ HandOK(m)' /\ BatchOK(m)'
        /\ \A d \in Members \ {m} : hand'[d] = hand[d]
    BY <1>3, <2>1
  <2>3. /\ next' \in [Members -> [Partitions -> Offsets]]
        /\ attempt' \in [Members -> 0..MaxAttempts]
        /\ pc' \in [Members -> {"poll", "handle", "dlq", "commit"}]
        /\ \A d \in Members \ {m} : /\ next'[d] = next[d] /\ attempt'[d] = attempt[d]
                                     /\ pc'[d] = pc[d]
    BY <1>1, <2>2, ConsumerAssumption DEF TypeOK
  <2> QED
    BY <2>2, <2>3
<1> QED
  BY <1>2, <1>4, <1>5

-----------------------------------------------------------------------------
(* The broker and the group.                                               *)

LEMMA WriteInv ==
    ASSUME ConsumerInv, NEW p \in Partitions, Write(p)
    PROVE  ConsumerInv'
<1>0. TypeOK /\ NothingElseLost /\ HandledInOrder
  BY DEF ConsumerInv
<1>1. /\ UNCHANGED <<committed, owner, position, next, end, hand, attempt, pc,
                     done, dlq, skipped, faults>>
      /\ written[p] < MaxRecords /\ written' = [written EXCEPT ![p] = @ + 1]
  BY DEF Write, loop, result
<1>2. TypeOK'
  BY <1>0, <1>1, ConsumerAssumption DEF TypeOK, Offsets
<1>3. Passed' = Passed
  BY <1>1 DEF Passed
<1>4. NothingElseLost' /\ HandledInOrder'
  BY <1>0, <1>1, <1>3, LogFrame
<1>5. \A m \in Members : (HandOK(m) /\ BatchOK(m) /\ OwnerOK(m))'
  BY <1>1, <1>3, MemberFrame, OwnerFrame DEF ConsumerInv
<1> QED
  BY <1>2, <1>4, <1>5 DEF ConsumerInv

LEMMA AssignInv ==
    ASSUME ConsumerInv, NEW p \in Partitions, NEW m \in Members, Assign(p, m)
    PROVE  ConsumerInv'
<1>0. TypeOK /\ NothingElseLost /\ HandledInOrder
  BY DEF ConsumerInv
<1>1. /\ UNCHANGED <<written, committed, next, end, hand, attempt, pc, done, dlq, skipped>>
      /\ owner' = [owner EXCEPT ![p] = m]
      /\ position' = [position EXCEPT ![m][p] = committed[p]]
  BY DEF Assign, loop, result
<1>2. faults' \in 0..MaxFaults
  BY <1>0, ConsumerAssumption DEF Assign, Fault, TypeOK
<1>3. TypeOK'
  BY <1>0, <1>1, <1>2 DEF TypeOK
<1>4. Passed' = Passed
  BY <1>1 DEF Passed
<1>5. NothingElseLost' /\ HandledInOrder'
  BY <1>0, <1>1, <1>4, LogFrame
<1>6. /\ position'[m][p] = committed[p]
      /\ \A q \in Partitions \ {p} : position'[m][q] = position[m][q]
      /\ \A d \in Members \ {m} : position'[d] = position[d]
  BY <1>0, <1>1 DEF TypeOK
<1>7. ASSUME NEW d \in Members \ {m} PROVE (HandOK(d) /\ BatchOK(d) /\ OwnerOK(d))'
  <2>1. HandOK(d)' /\ BatchOK(d)'
    BY <1>1, <1>4, <1>6, <1>7, MemberFrame DEF ConsumerInv
  <2>2. OwnerOK(d)'
    BY <1>0, <1>1, <1>6, <1>7 DEF ConsumerInv, OwnerOK, TypeOK
  <2> QED
    BY <2>1, <2>2
<1>8. HandOK(m)'
  BY <1>1 DEF ConsumerInv, HandOK, Handling
<1>9. BatchOK(m)'
  <2>1. \A n \in 1..committed[p] : <<p, n>> \in Passed
    BY <1>0 DEF NothingElseLost, Handled, Passed
  <2>2. BatchOK(m)
    BY DEF ConsumerInv
  <2> SUFFICES ASSUME NEW q \in Partitions
               PROVE  /\ ~Handling(m)' => Seen(q, position[m][q])'
                      /\ Handling(m)' => /\ Seen(q, next[m][q])'
                                         /\ \/ Seen(q, position[m][q])'
                                            \/ (position[m][q] <= end[m][q])'
    BY DEF BatchOK
  <2>3. CASE q = p
    BY <1>1, <1>4, <1>6, <2>1, <2>2, <2>3 DEF BatchOK, Handling, Seen
  <2>4. CASE q # p
    BY <1>1, <1>4, <1>6, <2>2, <2>4 DEF BatchOK, Handling, Seen
  <2> QED
    BY <2>3, <2>4
<1>10. OwnerOK(m)'
  BY <1>0, <1>1, <1>6 DEF ConsumerInv, OwnerOK, TypeOK, Offsets
<1> QED
  BY <1>3, <1>5, <1>7, <1>8, <1>9, <1>10 DEF ConsumerInv

LEMMA CrashInv ==
    ASSUME ConsumerInv, NEW m \in Members, Crash(m)
    PROVE  ConsumerInv'
<1>0. TypeOK /\ NothingElseLost /\ HandledInOrder
  BY DEF ConsumerInv
<1>1. /\ UNCHANGED <<written, committed, done, dlq, skipped>>
      /\ owner' = [p \in Partitions |-> IF owner[p] = m THEN None ELSE owner[p]]
      /\ position' = [position EXCEPT ![m] = NoOffsets]
      /\ next' = [next EXCEPT ![m] = NoOffsets]
      /\ end' = [end EXCEPT ![m] = NoOffsets]
      /\ hand' = [hand EXCEPT ![m] = None]
      /\ attempt' = [attempt EXCEPT ![m] = 0]
      /\ pc' = [pc EXCEPT ![m] = "poll"]
  BY DEF Crash, result
<1>2. faults' \in 0..MaxFaults
  BY <1>0, ConsumerAssumption DEF Crash, Fault, TypeOK
<1>3. NoOffsets \in [Partitions -> Offsets]
  BY ConsumerAssumption DEF NoOffsets, Offsets
<1>4. TypeOK'
  BY <1>0, <1>1, <1>2, <1>3, ConsumerAssumption DEF TypeOK
<1>5. Passed' = Passed
  BY <1>1 DEF Passed
<1>6. NothingElseLost' /\ HandledInOrder'
  BY <1>0, <1>1, <1>5, LogFrame
<1>7. ASSUME NEW d \in Members \ {m} PROVE (HandOK(d) /\ BatchOK(d) /\ OwnerOK(d))'
  <2>1. /\ pc'[d] = pc[d] /\ hand'[d] = hand[d] /\ attempt'[d] = attempt[d]
        /\ next'[d] = next[d] /\ end'[d] = end[d] /\ position'[d] = position[d]
    BY <1>0, <1>1, <1>7 DEF TypeOK
  <2>2. HandOK(d)' /\ BatchOK(d)'
    BY <1>5, <1>7, <2>1, MemberFrame DEF ConsumerInv
  <2>3. OwnerOK(d)'
    BY <1>0, <1>1, <1>7, <2>1, ConsumerAssumption DEF ConsumerInv, OwnerOK, TypeOK
  <2> QED
    BY <2>2, <2>3
<1>8. pc'[m] = "poll" /\ position'[m] = NoOffsets
  BY <1>0, <1>1 DEF TypeOK
<1>9. HandOK(m)' /\ BatchOK(m)'
  BY <1>8 DEF HandOK, BatchOK, Handling, Seen, NoOffsets
<1>10. OwnerOK(m)'
  BY <1>1, ConsumerAssumption DEF OwnerOK
<1> QED
  BY <1>4, <1>6, <1>7, <1>9, <1>10 DEF ConsumerInv

-----------------------------------------------------------------------------
(* The loop.                                                               *)

\* What a poll may hand out starts at the position.
LEMMA FetchableType ==
    ASSUME TypeOK, NEW m \in Members, NEW upto \in Fetchable(m)
    PROVE  /\ upto \in [Partitions -> Offsets]
           /\ \A p \in Partitions : position[m][p] <= upto[p]
BY DEF Fetchable, TypeOK, Offsets

LEMMA PollInv ==
    ASSUME ConsumerInv, NEW m \in Members, Poll(m)
    PROVE  ConsumerInv'
<1>0. TypeOK /\ NothingElseLost /\ HandledInOrder
  BY DEF ConsumerInv
<1>1. PICK upto \in Fetchable(m) :
        /\ next' = [next EXCEPT ![m] = position[m]]
        /\ end' = [end EXCEPT ![m] = upto]
        /\ position' = [position EXCEPT ![m] = upto]
        /\ MoveOn(m, position[m])
  BY DEF Poll
<1>2. /\ pc[m] = "poll"
      /\ UNCHANGED <<written, committed, owner, done, dlq, skipped, faults>>
  BY DEF Poll, kafka, result
<1>3. PICK left \in [Partitions -> Offsets] : left = position[m]
  BY <1>0 DEF TypeOK
<1>4. /\ upto \in [Partitions -> Offsets]
      /\ \A p \in Partitions : position[m][p] <= upto[p]
  BY <1>0, FetchableType
<1>5. /\ end' \in [Members -> [Partitions -> Offsets]] /\ end'[m] = upto
      /\ position' \in [Members -> [Partitions -> Offsets]] /\ position'[m] = upto
      /\ \A d \in Members \ {m} : position'[d] = position[d] /\ end'[d] = end[d]
  BY <1>0, <1>1, <1>4 DEF TypeOK
<1>6. Passed' = Passed
  BY <1>2 DEF Passed
<1>7. \A p \in Partitions :
        /\ \A n \in 1..left[p] : <<p, n>> \in Passed'
        /\ position'[m][p] <= end'[m][p]
  <2>1. \A p \in Partitions : Seen(p, position[m][p])
    BY <1>2 DEF ConsumerInv, BatchOK, Handling
  <2> QED
    BY <1>3, <1>4, <1>5, <1>6, <2>1 DEF Seen, Offsets
<1>8. /\ next' \in [Members -> [Partitions -> Offsets]]
      /\ hand' \in [Members -> Partitions \cup {None}]
      /\ attempt' \in [Members -> 0..MaxAttempts]
      /\ pc' \in [Members -> {"poll", "handle", "dlq", "commit"}]
      /\ HandOK(m)' /\ BatchOK(m)'
      /\ \A d \in Members \ {m} : /\ next'[d] = next[d] /\ hand'[d] = hand[d]
                                  /\ attempt'[d] = attempt[d] /\ pc'[d] = pc[d]
  BY <1>0, <1>1, <1>3, <1>5, <1>7, MoveOnOK
<1>9. TypeOK'
  BY <1>0, <1>2, <1>5, <1>8 DEF TypeOK
<1>10. NothingElseLost' /\ HandledInOrder'
  BY <1>0, <1>2, <1>6, LogFrame
<1>11. \A d \in Members \ {m} : (HandOK(d) /\ BatchOK(d) /\ OwnerOK(d))'
  BY <1>2, <1>5, <1>6, <1>8, MemberFrame, OwnerFrame DEF ConsumerInv
<1>12. OwnerOK(m)'
  BY <1>0, <1>2, <1>4, <1>5 DEF ConsumerInv, OwnerOK, TypeOK, Offsets
<1> QED
  BY <1>8, <1>9, <1>10, <1>11, <1>12 DEF ConsumerInv

LEMMA PollErrorInv ==
    ASSUME ConsumerInv, NEW m \in Members, PollError(m)
    PROVE  ConsumerInv'
<1>0. TypeOK /\ NothingElseLost /\ HandledInOrder
  BY DEF ConsumerInv
<1>1. PICK upto \in Fetchable(m) :
        /\ position' = [position EXCEPT ![m] = upto]
        /\ skipped' = skipped \cup
             {r \in Records : r[2] \in (position[m][r[1]] + 1)..upto[r[1]]}
  BY DEF PollError
<1>2. /\ pc[m] = "poll"
      /\ UNCHANGED <<written, committed, owner, next, end, hand, attempt, pc, done, dlq>>
  BY DEF PollError, kafka, loop
<1>3. faults' \in 0..MaxFaults
  BY <1>0, ConsumerAssumption DEF PollError, Fault, TypeOK
<1>4. /\ upto \in [Partitions -> Offsets]
      /\ \A p \in Partitions : position[m][p] <= upto[p]
  BY <1>0, FetchableType
<1>5. /\ position' \in [Members -> [Partitions -> Offsets]] /\ position'[m] = upto
      /\ \A d \in Members \ {m} : position'[d] = position[d]
  BY <1>0, <1>1, <1>4 DEF TypeOK
<1>6. TypeOK'
  BY <1>0, <1>1, <1>2, <1>3, <1>5 DEF TypeOK
<1>7. Passed \subseteq Passed'
  BY <1>1, <1>2 DEF Passed
<1>8. NothingElseLost' /\ HandledInOrder'
  BY <1>0, <1>2, <1>7, LogFrame
<1>9. \A d \in Members \ {m} : (HandOK(d) /\ BatchOK(d) /\ OwnerOK(d))'
  BY <1>2, <1>5, <1>7, MemberFrame, OwnerFrame DEF ConsumerInv
<1>10. HandOK(m)'
  BY <1>2 DEF ConsumerInv, HandOK, Handling
<1>11. BatchOK(m)'
  <2> SUFFICES ASSUME NEW p \in Partitions, NEW n \in 1..upto[p]
               PROVE  <<p, n>> \in Passed'
    BY <1>2, <1>5 DEF BatchOK, Handling, Seen
  <2>1. position[m][p] \in 0..MaxRecords /\ upto[p] \in 0..MaxRecords
    BY <1>0, <1>4 DEF TypeOK, Offsets
  <2>2. CASE n <= position[m][p]
    <3>1. Seen(p, position[m][p])
      BY <1>2 DEF ConsumerInv, BatchOK, Handling
    <3> QED
      BY <1>7, <2>1, <2>2, <3>1 DEF Seen
  <2>3. CASE ~(n <= position[m][p])
    <3>1. <<p, n>> \in Records /\ n \in (position[m][p] + 1)..upto[p]
      BY <2>1, <2>3, ConsumerAssumption DEF Records
    <3> QED
      BY <1>1, <3>1 DEF Passed
  <2> QED
    BY <2>2, <2>3
<1>12. OwnerOK(m)'
  BY <1>0, <1>2, <1>4, <1>5 DEF ConsumerInv, OwnerOK, TypeOK, Offsets
<1> QED
  BY <1>6, <1>8, <1>9, <1>10, <1>11, <1>12 DEF ConsumerInv

\* A record in hand is dealt with: handled, parked or passed over.
LEMMA RecordInv ==
    ASSUME ConsumerInv, NEW m \in Members, Handling(m), NextRecord(m),
           UNCHANGED <<kafka, position>>, faults' \in 0..MaxFaults,
           done' \in SUBSET (Records \ Permanent), dlq' \in SUBSET Records,
           skipped' \in SUBSET Records,
           Passed' = Passed \cup {InHand(m)}, done' \subseteq done \cup {InHand(m)}
    PROVE  ConsumerInv'
<1>0. TypeOK /\ NothingElseLost /\ HandledInOrder
  BY DEF ConsumerInv
<1>1. PICK h \in Partitions : h = hand[m] /\ next[m][h] < end[m][h]
  BY DEF ConsumerInv, HandOK
<1>2. PICK left : left = [next[m] EXCEPT ![h] = @ + 1]
  OBVIOUS
<1>3. next' = [next EXCEPT ![m] = left] /\ UNCHANGED end /\ MoveOn(m, left)
  BY <1>1, <1>2 DEF NextRecord
<1>4. /\ left \in [Partitions -> Offsets] /\ left[h] = next[m][h] + 1
      /\ \A p \in Partitions \ {h} : left[p] = next[m][p]
  BY <1>0, <1>1, <1>2, ConsumerAssumption DEF TypeOK, Offsets
<1>5. Passed' = Passed \cup {<<h, next[m][h] + 1>>}
  BY <1>1 DEF InHand
<1>6. ASSUME NEW p \in Partitions
      PROVE  /\ \A n \in 1..left[p] : <<p, n>> \in Passed'
             /\ \/ \A n \in 1..position'[m][p] : <<p, n>> \in Passed'
                \/ position'[m][p] <= end'[m][p]
  <2>1. Seen(p, next[m][p]) /\ (Seen(p, position[m][p]) \/ position[m][p] <= end[m][p])
    BY DEF ConsumerInv, BatchOK
  <2>2. next[m][p] \in Nat
    BY <1>0, ConsumerAssumption DEF TypeOK, Offsets
  <2>3. \A n \in 1..left[p] : <<p, n>> \in Passed'
    BY <1>4, <1>5, <2>1, <2>2 DEF Seen
  <2> QED
    BY <1>3, <1>5, <2>1, <2>3 DEF Seen
<1>7. /\ next' \in [Members -> [Partitions -> Offsets]]
      /\ hand' \in [Members -> Partitions \cup {None}]
      /\ attempt' \in [Members -> 0..MaxAttempts]
      /\ pc' \in [Members -> {"poll", "handle", "dlq", "commit"}]
      /\ HandOK(m)' /\ BatchOK(m)'
      /\ \A d \in Members \ {m} : /\ next'[d] = next[d] /\ hand'[d] = hand[d]
                                  /\ attempt'[d] = attempt[d] /\ pc'[d] = pc[d]
  <2>1. /\ end' \in [Members -> [Partitions -> Offsets]]
        /\ position' \in [Members -> [Partitions -> Offsets]]
    BY <1>0, <1>3 DEF TypeOK
  <2> QED
    BY <1>0, <1>3, <1>4, <1>6, <2>1, MoveOnOK
<1>8. TypeOK'
  BY <1>0, <1>3, <1>7 DEF TypeOK, kafka
<1>9. NothingElseLost'
  BY <1>0, <1>5, LostIsUnseen DEF kafka, NothingElseLost, Handled, Passed
<1>10. HandledInOrder'
  <2> SUFFICES ASSUME NEW r \in done', NEW n \in 1..(r[2] - 1)
               PROVE  <<r[1], n>> \in Passed'
    BY DEF HandledInOrder, Handled, Passed
  <2>1. CASE r \in done
    BY <1>0, <1>5, <2>1 DEF HandledInOrder, Handled, Passed
  <2>2. CASE r = InHand(m)
    <3>1. r[1] = h /\ r[2] = next[m][h] + 1 /\ next[m][h] \in Nat
      BY <1>0, <1>1, <2>2, ConsumerAssumption DEF InHand, TypeOK, Offsets
    <3>2. Seen(h, next[m][h])
      BY DEF ConsumerInv, BatchOK
    <3> QED
      BY <1>5, <3>1, <3>2 DEF Seen
  <2> QED
    BY <2>1, <2>2
<1>11. \A d \in Members \ {m} : (HandOK(d) /\ BatchOK(d))'
  BY <1>3, <1>5, <1>7, MemberFrame DEF ConsumerInv
<1>12. \A d \in Members : OwnerOK(d)'
  BY OwnerFrame DEF ConsumerInv, kafka
<1> QED
  BY <1>7, <1>8, <1>9, <1>10, <1>11, <1>12 DEF ConsumerInv

\* The record in hand is a record.
LEMMA InHandType ==
    ASSUME ConsumerInv, NEW m \in Members, Handling(m)
    PROVE  InHand(m) \in Records
<1>1. /\ hand[m] \in Partitions /\ next[m][hand[m]] < end[m][hand[m]]
      /\ next[m][hand[m]] \in Offsets /\ end[m][hand[m]] \in Offsets
  BY DEF ConsumerInv, HandOK, TypeOK
<1> QED
  BY <1>1, ConsumerAssumption DEF InHand, Records, Offsets

LEMMA HandleInv ==
    ASSUME ConsumerInv, NEW m \in Members, Handle(m)
    PROVE  ConsumerInv'
<1>1. Handling(m) /\ TypeOK
  BY DEF Handle, Handling, ConsumerInv
<1>2. InHand(m) \in Records \ Permanent
  BY <1>1, InHandType DEF Handle
<1>3. /\ done' = done \cup {InHand(m)} /\ NextRecord(m)
      /\ UNCHANGED <<kafka, position, dlq, skipped, faults>>
  BY DEF Handle
<1>4. Passed' = Passed \cup {InHand(m)}
  BY <1>3 DEF Passed
<1>5. /\ done' \in SUBSET (Records \ Permanent) /\ dlq' \in SUBSET Records
      /\ skipped' \in SUBSET Records /\ faults' \in 0..MaxFaults
  BY <1>1, <1>2, <1>3 DEF TypeOK
<1> QED
  BY <1>1, <1>3, <1>4, <1>5, RecordInv

LEMMA SendToDLQInv ==
    ASSUME ConsumerInv, NEW m \in Members, SendToDLQ(m)
    PROVE  ConsumerInv'
<1>1. Handling(m) /\ TypeOK
  BY DEF SendToDLQ, Handling, ConsumerInv
<1>2. InHand(m) \in Records
  BY <1>1, InHandType
<1>3. /\ dlq' = dlq \cup {InHand(m)} /\ NextRecord(m)
      /\ UNCHANGED <<kafka, position, done, skipped, faults>>
  BY DEF SendToDLQ
<1>4. Passed' = Passed \cup {InHand(m)}
  BY <1>3 DEF Passed
<1>5. /\ done' \in SUBSET (Records \ Permanent) /\ dlq' \in SUBSET Records
      /\ skipped' \in SUBSET Records /\ faults' \in 0..MaxFaults
  BY <1>1, <1>2, <1>3 DEF TypeOK
<1> QED
  BY <1>1, <1>3, <1>4, <1>5, RecordInv

LEMMA DLQFailsInv ==
    ASSUME ConsumerInv, NEW m \in Members, DLQFails(m)
    PROVE  ConsumerInv'
<1>1. Handling(m) /\ TypeOK
  BY DEF DLQFails, Handling, ConsumerInv
<1>2. InHand(m) \in Records
  BY <1>1, InHandType
<1>3. /\ skipped' = skipped \cup {InHand(m)} /\ NextRecord(m)
      /\ UNCHANGED <<kafka, position, done, dlq>>
  BY DEF DLQFails
<1>4. Passed' = Passed \cup {InHand(m)}
  BY <1>3 DEF Passed
<1>5. /\ done' \in SUBSET (Records \ Permanent) /\ dlq' \in SUBSET Records
      /\ skipped' \in SUBSET Records
  BY <1>1, <1>2, <1>3 DEF TypeOK
<1>6. faults' \in 0..MaxFaults
  BY <1>1, ConsumerAssumption DEF DLQFails, Fault, TypeOK
<1> QED
  BY <1>1, <1>3, <1>4, <1>5, <1>6, RecordInv

\* An attempt fails, perhaps after it took effect: the record stays in hand.
LEMMA HandleFailsInv ==
    ASSUME ConsumerInv, NEW m \in Members, HandleFails(m)
    PROVE  ConsumerInv'
<1>0. TypeOK /\ NothingElseLost /\ HandledInOrder
  BY DEF ConsumerInv
<1>1. /\ pc[m] = "handle" /\ Handling(m)
      /\ attempt' = [attempt EXCEPT ![m] = @ + 1]
      /\ pc' = [pc EXCEPT ![m] = IF attempt[m] + 1 = MaxAttempts THEN "dlq" ELSE "handle"]
      /\ UNCHANGED <<written, committed, owner, position, next, end, hand, dlq, skipped>>
  BY DEF HandleFails, Handling, Goto, kafka
<1>2. \/ UNCHANGED done
      \/ done' = done \cup {InHand(m)} /\ InHand(m) \notin Permanent
  BY DEF HandleFails
<1>3. InHand(m) \in Records
  BY <1>1, InHandType
<1>4. faults' \in 0..MaxFaults
  BY <1>0, ConsumerAssumption DEF HandleFails, Fault, TypeOK
<1>5. attempt[m] < MaxAttempts /\ attempt[m] \in Nat
  BY <1>0, <1>1 DEF ConsumerInv, HandOK, TypeOK
<1>6. done' \in SUBSET (Records \ Permanent)
  BY <1>0, <1>2, <1>3 DEF TypeOK
<1>7. TypeOK'
  BY <1>0, <1>1, <1>4, <1>5, <1>6, ConsumerAssumption DEF TypeOK
<1>8. Passed \subseteq Passed'
  BY <1>1, <1>2 DEF Passed
<1>9. NothingElseLost'
  BY <1>0, <1>1, <1>2 DEF NothingElseLost, Handled
<1>10. HandledInOrder'
  <2> SUFFICES ASSUME NEW r \in done', NEW n \in 1..(r[2] - 1)
               PROVE  <<r[1], n>> \in Passed'
    BY DEF HandledInOrder, Handled, Passed
  <2>1. CASE r \in done
    BY <1>0, <1>8, <2>1 DEF HandledInOrder, Handled, Passed
  <2>2. CASE r = InHand(m)
    <3>1. hand[m] \in Partitions
      BY <1>1 DEF ConsumerInv, HandOK
    <3>2. r[1] = hand[m] /\ r[2] = next[m][hand[m]] + 1 /\ next[m][hand[m]] \in Nat
      BY <1>0, <2>2, <3>1, ConsumerAssumption DEF InHand, TypeOK, Offsets
    <3>3. Seen(hand[m], next[m][hand[m]])
      BY <1>1, <3>1 DEF ConsumerInv, BatchOK
    <3> QED
      BY <1>8, <3>2, <3>3 DEF Seen
  <2> QED
    BY <1>2, <2>1, <2>2
<1>11. \A d \in Members \ {m} : pc'[d] = pc[d] /\ attempt'[d] = attempt[d]
  BY <1>0, <1>1 DEF TypeOK
<1>12. \A d \in Members \ {m} : (HandOK(d) /\ BatchOK(d))'
  BY <1>1, <1>8, <1>11, MemberFrame DEF ConsumerInv
<1>13. Handling(m)' /\ (pc'[m] = "handle" => attempt'[m] < MaxAttempts)
  <2>1. /\ attempt'[m] = attempt[m] + 1
        /\ pc'[m] = IF attempt[m] + 1 = MaxAttempts THEN "dlq" ELSE "handle"
    BY <1>0, <1>1 DEF TypeOK
  <2>2. attempt[m] + 1 # MaxAttempts => attempt[m] + 1 < MaxAttempts
    BY <1>5, ConsumerAssumption
  <2> QED
    BY <2>1, <2>2 DEF Handling
<1>14. HandOK(m)'
  BY <1>1, <1>13 DEF ConsumerInv, HandOK
<1>15. BatchOK(m)'
  BY <1>1, <1>8, <1>13 DEF ConsumerInv, BatchOK, Seen
<1>16. \A d \in Members : OwnerOK(d)'
  BY <1>1, OwnerFrame DEF ConsumerInv
<1> QED
  BY <1>7, <1>9, <1>10, <1>12, <1>14, <1>15, <1>16 DEF ConsumerInv

LEMMA CommitInv ==
    ASSUME ConsumerInv, NEW m \in Members, Commit(m)
    PROVE  /\ ConsumerInv'
           /\ \A p \in Partitions : committed'[p] >= committed[p]
<1>0. TypeOK /\ NothingElseLost /\ HandledInOrder
  BY DEF ConsumerInv
<1>1. /\ pc[m] = "commit"
      /\ committed' = [p \in Partitions |-> IF owner[p] = m THEN position[m][p]
                                            ELSE committed[p]]
      /\ pc' = [pc EXCEPT ![m] = "poll"]
      /\ UNCHANGED <<written, owner, position, next, end, hand, attempt, done,
                     dlq, skipped, faults>>
  BY DEF Commit, Goto, result
<1>2. TypeOK'
  BY <1>0, <1>1 DEF TypeOK
<1>3. Passed' = Passed
  BY <1>1 DEF Passed
<1>4. \A p \in Partitions : Seen(p, position[m][p])
  BY <1>1 DEF ConsumerInv, BatchOK, Handling
<1>5. NothingElseLost'
  <2> SUFFICES ASSUME NEW p \in Partitions, NEW n \in 1..committed'[p]
               PROVE  <<p, n>> \in Passed'
    BY DEF NothingElseLost, Handled, Passed
  <2>1. CASE owner[p] = m
    BY <1>1, <1>3, <1>4, <2>1 DEF Seen
  <2>2. CASE owner[p] # m
    BY <1>0, <1>1, <1>3, <2>2 DEF NothingElseLost, Handled, Passed
  <2> QED
    BY <2>1, <2>2
<1>6. HandledInOrder'
  BY <1>0, <1>1 DEF HandledInOrder, Handled
<1>7. \A d \in Members \ {m} : pc'[d] = pc[d]
  BY <1>0, <1>1 DEF TypeOK
<1>8. \A d \in Members \ {m} : (HandOK(d) /\ BatchOK(d))'
  BY <1>1, <1>3, <1>7, MemberFrame DEF ConsumerInv
<1>9. pc'[m] = "poll"
  BY <1>0, <1>1 DEF TypeOK
<1>10. HandOK(m)' /\ BatchOK(m)'
  BY <1>1, <1>3, <1>4, <1>9 DEF HandOK, BatchOK, Handling, Seen
<1>11. ASSUME NEW d \in Members PROVE OwnerOK(d)'
  <2>1. OwnerOK(d)
    BY DEF ConsumerInv
  <2>2. \A p \in Partitions : position[m][p] \in Nat /\ committed[p] \in Nat
    BY <1>0, ConsumerAssumption DEF TypeOK, Offsets
  <2> QED
    BY <1>1, <2>1, <2>2 DEF OwnerOK
<1>12. \A p \in Partitions : committed'[p] >= committed[p]
  BY <1>0, <1>1 DEF ConsumerInv, OwnerOK, TypeOK, Offsets
<1> QED
  BY <1>2, <1>5, <1>6, <1>8, <1>10, <1>11, <1>12 DEF ConsumerInv

LEMMA CommitFailsInv ==
    ASSUME ConsumerInv, NEW m \in Members, CommitFails(m)
    PROVE  ConsumerInv'
<1>0. TypeOK /\ NothingElseLost /\ HandledInOrder
  BY DEF ConsumerInv
<1>1. /\ pc[m] = "commit" /\ pc' = [pc EXCEPT ![m] = "poll"]
      /\ UNCHANGED <<written, committed, owner, position, next, end, hand, attempt,
                     done, dlq, skipped>>
  BY DEF CommitFails, Goto, kafka, result
<1>2. faults' \in 0..MaxFaults
  BY <1>0, ConsumerAssumption DEF CommitFails, Fault, TypeOK
<1>3. TypeOK'
  BY <1>0, <1>1, <1>2 DEF TypeOK
<1>4. Passed' = Passed
  BY <1>1 DEF Passed
<1>5. NothingElseLost' /\ HandledInOrder'
  BY <1>0, <1>1, <1>4, LogFrame
<1>6. pc'[m] = "poll" /\ \A d \in Members \ {m} : pc'[d] = pc[d]
  BY <1>0, <1>1 DEF TypeOK
<1>7. \A d \in Members \ {m} : (HandOK(d) /\ BatchOK(d))'
  BY <1>1, <1>4, <1>6, MemberFrame DEF ConsumerInv
<1>8. HandOK(m)' /\ BatchOK(m)'
  BY <1>1, <1>4, <1>6 DEF ConsumerInv, HandOK, BatchOK, Handling, Seen
<1>9. \A d \in Members : OwnerOK(d)'
  BY <1>1, OwnerFrame DEF ConsumerInv
<1> QED
  BY <1>3, <1>5, <1>7, <1>8, <1>9 DEF ConsumerInv

-----------------------------------------------------------------------------
(* Every step keeps the invariant.                                         *)

LEMMA NextInv == ConsumerInv /\ [Next]_vars => ConsumerInv'
<1> SUFFICES ASSUME ConsumerInv, [Next]_vars PROVE ConsumerInv'
  OBVIOUS
<1>1. ASSUME UNCHANGED vars PROVE ConsumerInv'
  <2>0. TypeOK /\ NothingElseLost /\ HandledInOrder
    BY DEF ConsumerInv
  <2>1. UNCHANGED <<written, committed, owner, position, next, end, hand, attempt,
                    pc, done, dlq, skipped, faults>>
    BY <1>1 DEF vars, kafka, loop, result
  <2>2. TypeOK' /\ Passed' = Passed
    BY <2>0, <2>1 DEF TypeOK, Passed
  <2>3. NothingElseLost' /\ HandledInOrder'
    BY <2>0, <2>1, <2>2, LogFrame
  <2>4. \A m \in Members : (HandOK(m) /\ BatchOK(m) /\ OwnerOK(m))'
    BY <2>1, <2>2, MemberFrame, OwnerFrame DEF ConsumerInv
  <2> QED
    BY <2>2, <2>3, <2>4 DEF ConsumerInv
<1> QED
  BY <1>1, WriteInv, AssignInv, CrashInv, PollInv, PollErrorInv, HandleInv,
     HandleFailsInv, SendToDLQInv, DLQFailsInv, CommitInv, CommitFailsInv DEF Next

\* Only a commit moves the committed offsets.
LEMMA NextForward ==
    ConsumerInv /\ [Next]_vars =>
        [\A p \in Partitions : committed'[p] >= committed[p]]_vars
<1> SUFFICES ASSUME ConsumerInv, Next
             PROVE  \A p \in Partitions : committed'[p] >= committed[p]
  OBVIOUS
<1>1. CASE UNCHANGED committed
  BY <1>1 DEF ConsumerInv, TypeOK, Offsets
<1>2. CASE \E m \in Members : Commit(m)
  BY <1>2, CommitInv
<1>3. UNCHANGED committed \/ \E m \in Members : Commit(m)
  BY DEF Next, Write, Assign, Crash, Poll, PollError, Handle, HandleFails,
         SendToDLQ, DLQFails, CommitFails, kafka
<1> QED
  BY <1>1, <1>2, <1>3

-----------------------------------------------------------------------------
(* Theorems.                                                               *)

\* The inductive invariant of the consumer loop: a member is done with what lies
\* before its position but for the poll in hand, and an owner is not behind the
\* group.
THEOREM ConsumerInvariant == Spec => []ConsumerInv
BY InitInv, NextInv, PTL DEF Spec

\* Type correctness, for any number of members, partitions, records and faults.
THEOREM TypeCorrect == Spec => []TypeOK
<1>1. ConsumerInv => TypeOK
  BY DEF ConsumerInv
<1> QED
  BY <1>1, ConsumerInvariant, PTL

\* consumer.go:43 and 94: what lies before a committed offset was handled, is in
\* the dead letter queue, or was dropped by PollError or DLQFails.
THEOREM OnlyTwoStepsLose == Spec => []NothingElseLost
<1>1. ConsumerInv => NothingElseLost
  BY DEF ConsumerInv
<1> QED
  BY <1>1, ConsumerInvariant, PTL

\* Records of a partition take effect in order, whoever handles them.
THEOREM EffectsInOrder == Spec => []HandledInOrder
<1>1. ConsumerInv => HandledInOrder
  BY DEF ConsumerInv
<1> QED
  BY <1>1, ConsumerInvariant, PTL

\* The group's committed offsets only grow.
THEOREM OffsetsGrow == Spec => CommitForward
BY ConsumerInvariant, NextForward, PTL DEF Spec, CommitForward

-----------------------------------------------------------------------------
(* The consumer group implements EventDelivery.                            *)

\* Nobody is ahead of the log.
WrittenOK(p) ==
    /\ committed[p] <= written[p]
    /\ \A m \in Members : position[m][p] <= written[p] /\ end[m][p] <= written[p]

WrittenInv == \A p \in Partitions : WrittenOK(p)

LEMMA WrittenInit == Init => WrittenInv
BY ConsumerAssumption DEF Init, NoOffsets, WrittenInv, WrittenOK

LEMMA WrittenNext == TypeOK /\ WrittenInv /\ [Next]_vars => WrittenInv'
<1> SUFFICES ASSUME TypeOK, WrittenInv, [Next]_vars, NEW p \in Partitions
             PROVE  WrittenOK(p)'
  BY DEF WrittenInv
<1>0. /\ WrittenOK(p) /\ written[p] \in Nat /\ committed[p] \in Nat
      /\ \A m \in Members : position[m][p] \in Nat /\ end[m][p] \in Nat
  BY ConsumerAssumption DEF WrittenInv, TypeOK, Offsets
<1>1. ASSUME NEW q \in Partitions, Write(q) PROVE WrittenOK(p)'
  <2>1. written'[p] >= written[p] /\ written'[p] \in Nat
    BY <1>0, <1>1 DEF Write, TypeOK
  <2>2. UNCHANGED <<committed, position, end>>
    BY <1>1 DEF Write, loop
  <2> QED
    BY <1>0, <2>1, <2>2 DEF WrittenOK
<1>2. ASSUME NEW q \in Partitions, NEW m \in Members, Assign(q, m)
      PROVE  WrittenOK(p)'
  <2>1. /\ UNCHANGED <<written, committed, end>>
        /\ \A d \in Members : position'[d][p] \in {position[d][p], committed[p]}
    BY <1>2 DEF Assign, loop, TypeOK
  <2> QED
    BY <1>0, <2>1 DEF WrittenOK
<1>3. ASSUME NEW m \in Members, Crash(m) PROVE WrittenOK(p)'
  <2>1. /\ UNCHANGED <<written, committed>>
        /\ \A d \in Members : /\ position'[d][p] \in {position[d][p], 0}
                              /\ end'[d][p] \in {end[d][p], 0}
    BY <1>3 DEF Crash, TypeOK, NoOffsets
  <2> QED
    BY <1>0, <2>1 DEF WrittenOK
<1>4. ASSUME NEW m \in Members, Poll(m) \/ PollError(m) PROVE WrittenOK(p)'
  <2>1. PICK upto \in Fetchable(m) :
          /\ position' = [position EXCEPT ![m] = upto]
          /\ end' = end \/ end' = [end EXCEPT ![m] = upto]
    BY <1>4 DEF Poll, PollError, loop
  <2>2. upto[p] \in Nat /\ upto[p] <= written[p]
    BY <1>0 DEF Fetchable, WrittenOK
  <2>3. /\ UNCHANGED <<written, committed>>
        /\ \A d \in Members : /\ position'[d][p] \in {position[d][p], upto[p]}
                              /\ end'[d][p] \in {end[d][p], upto[p]}
    BY <1>4, <2>1 DEF Poll, PollError, kafka, TypeOK
  <2> QED
    BY <1>0, <2>2, <2>3 DEF WrittenOK
<1>5. ASSUME NEW m \in Members,
             \/ Handle(m) \/ HandleFails(m) \/ SendToDLQ(m) \/ DLQFails(m)
             \/ CommitFails(m)
      PROVE  WrittenOK(p)'
  <2>1. UNCHANGED <<written, committed, position, end>>
    BY <1>5 DEF Handle, HandleFails, SendToDLQ, DLQFails, CommitFails, NextRecord, kafka
  <2> QED
    BY <1>0, <2>1 DEF WrittenOK
<1>6. ASSUME NEW m \in Members, Commit(m) PROVE WrittenOK(p)'
  <2>1. /\ UNCHANGED <<written, position, end>>
        /\ committed'[p] \in {position[m][p], committed[p]}
    BY <1>6 DEF Commit
  <2> QED
    BY <1>0, <2>1 DEF WrittenOK
<1>7. CASE UNCHANGED vars
  BY <1>0, <1>7 DEF vars, kafka, loop, WrittenOK
<1> QED
  BY <1>1, <1>2, <1>3, <1>4, <1>5, <1>6, <1>7 DEF Next

LEMMA DeliveryInit == Init => Delivery!Init
<1> SUFFICES ASSUME Init PROVE Delivery!Init
  OBVIOUS
<1>1. \A r \in Records : ~(r[2] <= 0) /\ r[1] \in Partitions
  BY DEF Records
<1> QED
  BY <1>1 DEF Init, NoOffsets, Delivery!Init

LEMMA DeliveryStutter ==
    ASSUME UNCHANGED <<written, committed, done, dlq, skipped>>
    PROVE  UNCHANGED Delivery!vars
BY DEF Delivery!vars

\* A record is due when those before it in its partition are passed.
LEMMA DueIs ==
    ASSUME NEW p \in Partitions, NEW n \in 1..MaxRecords, n <= written[p],
           NEW passed, \A k \in 1..(n - 1) : <<p, k>> \in passed
    PROVE  Delivery!Due(<<p, n>>, passed)
BY DEF Delivery!Due, Records

\* The record in hand is due.
LEMMA InHandIsDue ==
    ASSUME ConsumerInv, WrittenInv, NEW m \in Members, Handling(m)
    PROVE  /\ InHand(m) \in Records
           /\ \A passed : Passed \subseteq passed => Delivery!Due(InHand(m), passed)
<1>1. PICK p \in Partitions, n \in Nat : p = hand[m] /\ n = next[m][p] + 1
  BY ConsumerAssumption DEF ConsumerInv, HandOK, TypeOK, Offsets
<1>2. InHand(m) = <<p, n>> /\ InHand(m) \in Records
  BY <1>1, InHandType DEF InHand
<1>3. n \in 1..MaxRecords /\ n <= written[p]
  <2>1. /\ next[m][p] < end[m][p] /\ end[m][p] <= written[p] /\ written[p] <= MaxRecords
        /\ next[m][p] \in Nat /\ end[m][p] \in Nat /\ written[p] \in Nat
    BY <1>1, ConsumerAssumption
       DEF ConsumerInv, HandOK, TypeOK, Offsets, WrittenInv, WrittenOK
  <2> QED
    BY <1>1, <2>1, ConsumerAssumption
<1>4. \A k \in 1..(n - 1) : <<p, k>> \in Passed
  <2>1. Seen(p, next[m][p]) /\ next[m][p] \in Nat
    BY <1>1, ConsumerAssumption DEF ConsumerInv, BatchOK, TypeOK, Offsets
  <2> QED
    BY <1>1, <2>1 DEF Seen
<1>5. ASSUME NEW passed, Passed \subseteq passed
      PROVE  Delivery!Due(InHand(m), passed)
  <2>1. \A k \in 1..(n - 1) : <<p, k>> \in passed
    BY <1>4, <1>5
  <2> QED
    BY <1>2, <1>3, <2>1, DueIs
<1> QED
  BY <1>2, <1>5

LEMMA WriteRefines ==
    ASSUME TypeOK, WrittenInv, NEW p \in Partitions, Write(p)
    PROVE  Delivery!Next
<1> DEFINE n == written[p] + 1
<1>1. /\ written[p] \in Nat /\ n \in 1..MaxRecords
      /\ written' = [written EXCEPT ![p] = n]
      /\ UNCHANGED <<committed, done, dlq, skipped>>
  BY ConsumerAssumption DEF Write, TypeOK, Offsets, result
<1>2. <<p, n>> \in Records
  BY <1>1 DEF Records
<1>3. \A r \in Records : r[2] <= written'[r[1]] <=> r[2] <= written[r[1]] \/ r = <<p, n>>
  <2> SUFFICES ASSUME NEW q \in Partitions, NEW k \in 1..MaxRecords
               PROVE  k <= written'[q] <=> k <= written[q] \/ <<q, k>> = <<p, n>>
    BY DEF Records
  <2>1. written'[p] = n /\ (q # p => written'[q] = written[q])
    BY <1>1 DEF TypeOK
  <2>2. CASE q = p
    BY <1>1, <2>1, <2>2
  <2>3. CASE q # p
    BY <2>1, <2>3
  <2> QED
    BY <2>2, <2>3
<1>4. PICK e \in Records : Delivery!Emit(e)
  <2>1. {r \in Records : r[2] <= written'[r[1]]}
          = {r \in Records : r[2] <= written[r[1]]} \cup {<<p, n>>}
    BY <1>2, <1>3
  <2>2. PICK e \in Records : e = <<p, n>>
    BY <1>2
  <2>3. Delivery!Emit(e)
    BY <1>1, <2>1, <2>2 DEF Delivery!Emit
  <2> QED
    BY <2>3
<1> QED
  BY <1>4 DEF Delivery!Next

\* An attempt that takes effect is a delivery, whatever it reports.
LEMMA HandleRefines ==
    ASSUME ConsumerInv, WrittenInv, NEW m \in Members, Handle(m) \/ HandleFails(m)
    PROVE  [Delivery!Next]_(Delivery!vars)
<1>1. /\ Handling(m) /\ UNCHANGED <<written, committed, dlq, skipped>>
      /\ done' \in {done, done \cup {InHand(m)}}
  BY DEF Handle, HandleFails, Handling, kafka
<1>2. CASE done' = done
  BY <1>1, <1>2, DeliveryStutter
<1>3. CASE done' = done \cup {InHand(m)}
  <2>1. /\ InHand(m) \in Records
        /\ Delivery!Due(InHand(m), done \cup (dlq \cup skipped))
    BY <1>1, InHandIsDue DEF Passed
  <2>2. Delivery!Deliver(InHand(m))
    BY <1>1, <1>3, <2>1 DEF Delivery!Deliver
  <2> QED
    BY <2>1, <2>2 DEF Delivery!Next
<1> QED
  BY <1>1, <1>2, <1>3

LEMMA ParkRefines ==
    ASSUME ConsumerInv, WrittenInv, NEW m \in Members, SendToDLQ(m) \/ DLQFails(m)
    PROVE  Delivery!Next
<1>1. /\ Handling(m) /\ UNCHANGED <<written, committed, done>>
      /\ dlq' \cup skipped' = (dlq \cup skipped) \cup {InHand(m)}
  BY DEF SendToDLQ, DLQFails, Handling, kafka
<1>2. Delivery!Due(InHand(m), done \cup (dlq' \cup skipped'))
  BY <1>1, InHandIsDue DEF Passed
<1>3. \A r \in Records : r[2] <= committed[r[1]] => r \in Passed
  BY ConsumerAssumption DEF ConsumerInv, NothingElseLost, Handled, Passed, Records, TypeOK, Offsets
<1>4. Delivery!Finish
  BY <1>1, <1>2, <1>3 DEF Delivery!Finish, Passed
<1> QED
  BY <1>4 DEF Delivery!Next

\* A poll that reports an error gives up the records it handed out.
LEMMA PollErrorRefines ==
    ASSUME ConsumerInv, WrittenInv, NEW m \in Members, PollError(m)
    PROVE  Delivery!Next
<1> DEFINE Old == dlq \cup skipped
           New == dlq' \cup skipped'
<1>1. PICK upto \in Fetchable(m) :
        skipped' = skipped \cup
          {r \in Records : r[2] \in (position[m][r[1]] + 1)..upto[r[1]]}
  BY DEF PollError
<1>2. pc[m] = "poll" /\ UNCHANGED <<written, committed, done, dlq>>
  BY DEF PollError, kafka
<1>3. TypeOK
  BY DEF ConsumerInv
<1>4. ASSUME NEW r \in New \ Old PROVE Delivery!Due(r, done \cup New)
  <2>1. r \in Records /\ r[2] \in (position[m][r[1]] + 1)..upto[r[1]]
    BY <1>1, <1>2, <1>4
  <2>2. PICK p \in Partitions, n \in 1..MaxRecords : r = <<p, n>>
    BY <2>1 DEF Records
  <2>3. /\ n \in (position[m][p] + 1)..upto[p]
        /\ position[m][p] \in Nat /\ upto[p] \in Nat /\ written[p] \in Nat
        /\ upto[p] <= written[p]
    <3>1. WrittenOK(p)
      BY DEF WrittenInv
    <3>2. upto \in [Partitions -> Offsets]
      BY DEF Fetchable
    <3>3. position[m][p] \in Nat /\ upto[p] \in Nat /\ written[p] \in Nat
      BY <1>3, <3>2, ConsumerAssumption DEF TypeOK, Offsets
    <3>4. upto[p] <= written[p]
      BY <3>1, <3>3 DEF Fetchable, WrittenOK
    <3> QED
      BY <2>1, <2>2, <3>3, <3>4
  <2>4. Seen(p, position[m][p])
    BY <1>2 DEF ConsumerInv, BatchOK, Handling
  <2>5. ASSUME NEW k \in 1..(n - 1) PROVE <<p, k>> \in done \cup New
    <3>1. CASE k <= position[m][p]
      BY <1>1, <1>2, <2>3, <2>4, <3>1 DEF Seen, Passed
    <3>2. CASE ~(k <= position[m][p])
      <4>1. k \in (position[m][p] + 1)..upto[p] /\ k \in 1..MaxRecords
        BY <2>3, <3>2, ConsumerAssumption
      <4>2. <<p, k>> \in Records
        BY <4>1 DEF Records
      <4> QED
        BY <1>1, <4>1, <4>2
    <3> QED
      BY <3>1, <3>2
  <2>6. n <= written[p]
    BY <2>3
  <2> QED
    BY <2>2, <2>5, <2>6, DueIs
<1>5. \A r \in Records : r[2] <= committed[r[1]] => r \in done \cup Old
  BY <1>3, ConsumerAssumption
     DEF ConsumerInv, NothingElseLost, Handled, Records, TypeOK, Offsets
<1>6. Old \subseteq New
  BY <1>1, <1>2
<1>7. Delivery!Finish
  BY <1>2, <1>4, <1>5, <1>6 DEF Delivery!Finish
<1> QED
  BY <1>7 DEF Delivery!Next

\* A commit settles records that are passed, and only adds to them.
LEMMA OffsetsRefine ==
    ASSUME ConsumerInv, WrittenInv, NEW m \in Members, Commit(m)
    PROVE  Delivery!Next
<1>1. /\ \A p \in Partitions : committed'[p] >= committed[p]
      /\ NothingElseLost' /\ TypeOK /\ TypeOK'
  BY CommitInv DEF ConsumerInv
<1>2. UNCHANGED <<written, done, dlq, skipped>>
  BY DEF Commit, result
<1>3. ASSUME NEW p \in Partitions, NEW n \in 1..MaxRecords
      PROVE  /\ n <= committed[p] => n <= committed'[p]
             /\ n <= committed'[p] => <<p, n>> \in done \cup (dlq \cup skipped)
  <2>1. committed[p] \in Nat /\ committed'[p] \in Nat
    BY <1>1, ConsumerAssumption DEF TypeOK, Offsets
  <2>2. n <= committed'[p] => n \in 1..committed'[p]
    BY <2>1
  <2> QED
    BY <1>1, <1>2, <2>1, <2>2 DEF NothingElseLost, Handled
<1>4. \A r \in Records : /\ r[2] <= committed[r[1]] => r[2] <= committed'[r[1]]
                         /\ r[2] <= committed'[r[1]] => r \in done \cup (dlq \cup skipped)
  BY <1>3 DEF Records
<1>5. Delivery!Finish
  BY <1>2, <1>4 DEF Delivery!Finish
<1> QED
  BY <1>5 DEF Delivery!Next

LEMMA StepRefines ==
    ConsumerInv /\ WrittenInv /\ [Next]_vars => [Delivery!Next]_(Delivery!vars)
<1> SUFFICES ASSUME ConsumerInv, WrittenInv, [Next]_vars
             PROVE  [Delivery!Next]_(Delivery!vars)
  OBVIOUS
<1>1. ASSUME NEW m \in Members,
             \/ Poll(m) \/ CommitFails(m) \/ Crash(m)
             \/ \E p \in Partitions : Assign(p, m)
      PROVE  UNCHANGED Delivery!vars
  <2>1. UNCHANGED <<written, committed, done, dlq, skipped>>
    BY <1>1 DEF Poll, CommitFails, Crash, Assign, kafka, result
  <2> QED
    BY <2>1, DeliveryStutter
<1>2. CASE UNCHANGED vars
  BY <1>2, DeliveryStutter DEF vars, kafka, result
<1>3. CASE \E p \in Partitions : Write(p)
  BY <1>3, WriteRefines DEF ConsumerInv
<1> QED
  BY <1>1, <1>2, <1>3, HandleRefines, ParkRefines, PollErrorRefines, OffsetsRefine
     DEF Next

\* consumer.go:43: the group delivers at least once and in order, or gives a
\* record up; no rebalance, crash or failed commit takes anything back.
THEOREM Implementation == Spec => ImplementsDelivery
<1>1. ConsumerInv /\ WrittenInv /\ [Next]_vars => WrittenInv'
  BY WrittenNext DEF ConsumerInv
<1> QED
  BY <1>1, WrittenInit, DeliveryInit, StepRefines, ConsumerInvariant, PTL
     DEF Spec, ImplementsDelivery, Delivery!Spec
===============================================================================
