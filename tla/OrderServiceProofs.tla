------------------------- MODULE OrderServiceProofs -------------------------
(***************************************************************************)
(* Proofs about OrderService, for any number of orders, payments,          *)
(* consumers, timeout workers and deliveries.  The inductive invariant     *)
(* says what a transaction under way may rely on: the locks it holds keep  *)
(* the rows it has written as it found them.                               *)
(***************************************************************************)
EXTENDS OrderService, FiniteSetTheorems, TLAPS

\* What holds of thread t between its statements.
ThreadOK(t) ==
    LET e == ev[t]
        o == OrderOf(e)
    IN  pc[t] # "idle" =>
          /\ e \in Events
          /\ pc[t] = "get" => Kind(e) = "declined"
          /\ pc[t] = "mark" => Kind(e) # "declined"
          /\ Kind(e) = "declined" /\ pc[t] # "get" => orders[o] # "absent"
          /\ pc[t] \in {"mark", "commit"} =>
               /\ Kind(e) = "reserved" => orderLock[o] = t /\ orders[o] = "absent"
               /\ Kind(e) = "completed" /\ hit[t] =>
                    orderLock[o] = t /\ orders[o] # "absent"
               /\ Kind(e) = "declined" =>
                    IF hit[t] THEN orderLock[o] = t /\ orders[o] = "PENDING"
                              ELSE orders[o] \in {"CANCELLED", "PAID"}
          /\ pc[t] = "commit" /\ Kind(e) # "declined" =>
               eventLock[e] = t /\ e \notin processed

\* What holds of worker w: it has locked the PENDING orders of its batch.
WorkerOK(w) ==
    pc[w] = "commit" =>
        \A o \in batch[w] : orderLock[o] = w /\ orders[o] = "PENDING"

OrderInv ==
    /\ TypeOK
    /\ \A t \in Threads : ThreadOK(t)
    /\ \A w \in Workers : WorkerOK(w)
    /\ CancelAnnounced

-----------------------------------------------------------------------------
\* Of what kind events, threads and workers are, from the assumptions on the
\* constants (StockReserved, PaymentCompleted and PaymentFailed events).
LEMMA EventFacts ==
    /\ \A e \in Events : /\ OrderOf(e) \in Orders
                         /\ Kind(e) \in {"reserved", "completed", "declined"}
                         /\ Kind(e) = "reserved" => e \in Orders /\ OrderOf(e) = e
                         /\ Kind(e) = "declined" => e \in Declined /\ e \in Payments
                         /\ NewStatus(e) = IF Kind(e) = "reserved" THEN "PENDING"
                              ELSE IF Kind(e) = "completed" THEN "PAID"
                              ELSE "CANCELLED"
    /\ None \notin Events
    /\ None \notin Owners
    /\ \A t \in Threads, w \in Workers : t # w
    /\ \A t \in Threads : t \in Owners
    /\ \A w \in Workers : w \in Owners
  BY OrderAssumption DEF Events, Owners, OrderOf, Kind, NewStatus

\* Appending to the outbox: the rows of an order afterwards.
LEMMA AppendRows ==
    ASSUME NEW R, outbox \in Seq(R), NEW s \in Seq(R), outbox' = outbox \o s
    PROVE  /\ outbox' \in Seq(R)
           /\ \A o : HasCancelRow(o)' <=> \/ HasCancelRow(o)
                                          \/ \E i \in DOMAIN s : s[i].order = o
<1>1. /\ outbox' \in Seq(R)
      /\ Len(outbox') = Len(outbox) + Len(s)
      /\ \A i \in 1..Len(outbox) : outbox'[i] = outbox[i]
      /\ \A i \in 1..Len(s) : outbox'[Len(outbox) + i] = s[i]
      /\ Len(outbox) \in Nat /\ Len(s) \in Nat
      /\ DOMAIN outbox = 1..Len(outbox) /\ DOMAIN s = 1..Len(s)
      /\ DOMAIN outbox' = 1..Len(outbox')
  OBVIOUS
<1>2. ASSUME NEW o, HasCancelRow(o)
      PROVE  HasCancelRow(o)'
  BY <1>1, <1>2 DEF HasCancelRow
<1>3. ASSUME NEW o, NEW i \in DOMAIN s, s[i].order = o
      PROVE  HasCancelRow(o)'
  <2>1. Len(outbox) + i \in DOMAIN outbox' /\ outbox'[Len(outbox) + i] = s[i]
    BY <1>1
  <2> QED
    BY <1>3, <2>1 DEF HasCancelRow
<1>4. ASSUME NEW o, HasCancelRow(o)'
      PROVE  HasCancelRow(o) \/ \E i \in DOMAIN s : s[i].order = o
  <2>1. PICK i \in DOMAIN outbox' : outbox'[i].order = o
    BY <1>4 DEF HasCancelRow
  <2>2. CASE i \in 1..Len(outbox)
    BY <1>1, <2>1, <2>2 DEF HasCancelRow
  <2>3. CASE i \notin 1..Len(outbox)
    <3>1. i - Len(outbox) \in DOMAIN s /\ Len(outbox) + (i - Len(outbox)) = i
      BY <1>1, <2>3
    <3> QED
      BY <1>1, <2>1, <3>1
  <2> QED
    BY <2>2, <2>3
<1> QED
  BY <1>1, <1>2, <1>3, <1>4

\* The rows of a batch are a sequence of rows, one at least for each order.
LEMMA BatchRowsFacts ==
    ASSUME NEW b \in SUBSET Orders, NEW s \in Lifecycle!BatchRows(b)
    PROVE  /\ s \in Seq([order : Orders, event : Payments \cup {None}])
           /\ \A o : (\E i \in DOMAIN s : s[i].order = o) <=> o \in b
<1>1. IsFiniteSet(b) /\ Cardinality(b) \in Nat
  BY OrderAssumption, FS_Subset, FS_CardinalityType
<1>a. Lifecycle!Cardinality(b) = Cardinality(b)
  BY DEF Lifecycle!Cardinality, Cardinality
<1>2. /\ s \in [1..Cardinality(b) -> {Lifecycle!CancelRow(o, None) : o \in b}]
      /\ \A o \in b : \E i \in DOMAIN s : s[i].order = o
  BY <1>a DEF Lifecycle!BatchRows
<1>3. {Lifecycle!CancelRow(o, None) : o \in b}
        \subseteq [order : Orders, event : Payments \cup {None}]
  BY DEF Lifecycle!CancelRow
<1>4. s \in Seq([order : Orders, event : Payments \cup {None}])
  <2> DEFINE R == [order : Orders, event : Payments \cup {None}]
             n == Cardinality(b)
  <2>1. n \in Nat /\ s \in [1..n -> R]
    BY <1>1, <1>2, <1>3
  <2>2. [1..n -> R] \subseteq Seq(R)
    <3> HIDE DEF R, n
    <3> QED
      BY <2>1
  <2> QED
    BY <2>1, <2>2
<1>5. ASSUME NEW i \in DOMAIN s PROVE s[i].order \in b
  BY <1>2 DEF Lifecycle!CancelRow
<1> QED
  BY <1>2, <1>4, <1>5

\* The invariant holds when the service starts with empty tables.
LEMMA InitInv == Init => OrderInv
  BY OrderAssumption DEF Init, OrderInv, TypeOK, ThreadOK, WorkerOK, Owners,
     CancelAnnounced, HasCancelRow, Status, Labels

-----------------------------------------------------------------------------
(* A step of somebody else.                                                *)

\* What a step leaves to x: the locks it holds and what they protect.
Respects(x) ==
    /\ \A o \in Orders : orderLock[o] = x => /\ orderLock'[o] = x
                                             /\ orders'[o] = orders[o]
    /\ \A e \in Events : eventLock[e] = x => /\ eventLock'[e] = x
                                             /\ e \in processed' => e \in processed

\* A handler that does not move keeps what its locks protect, whatever another
\* transaction commits.
LEMMA ThreadFrame ==
    ASSUME NEW t \in Threads, ThreadOK(t), TypeOK, TypeOK', CreatedStep,
           Respects(t), pc'[t] = pc[t], ev'[t] = ev[t], hit'[t] = hit[t]
    PROVE  ThreadOK(t)'
<1>1. CASE pc[t] = "idle"
  BY <1>1 DEF ThreadOK
<1>2. CASE pc[t] # "idle"
  <2> DEFINE e == ev[t]
             o == OrderOf(e)
  <2>1. e \in Events /\ o \in Orders
    BY <1>2, EventFacts DEF ThreadOK
  <2>2. /\ OrderOf(ev[t])' = o
        /\ Kind(ev[t])' = Kind(e)
    BY DEF OrderOf, Kind
  <2>3. orders[o] \in Status /\ orders'[o] \in Status
    BY <2>1 DEF TypeOK
  <2>4. orders[o] # "absent" => orders'[o] \in {orders[o], "PAID", "CANCELLED"}
    BY <2>1 DEF CreatedStep
  <2>5. /\ orderLock[o] = t => orderLock'[o] = t /\ orders'[o] = orders[o]
        /\ eventLock[e] = t => /\ eventLock'[e] = t
                               /\ e \in processed' => e \in processed
    BY <2>1 DEF Respects
  <2> HIDE DEF e, o
  <2> QED
    BY <1>2, <2>1, <2>2, <2>3, <2>4, <2>5 DEF ThreadOK, e, o
<1> QED
  BY <1>1, <1>2

\* So does a timeout worker: the orders it has locked stay PENDING.
LEMMA WorkerFrame ==
    ASSUME NEW w \in Workers, WorkerOK(w), TypeOK, Respects(w),
           pc'[w] = pc[w], batch'[w] = batch[w]
    PROVE  WorkerOK(w)'
  BY DEF WorkerOK, Respects, TypeOK

\* Nobody holds a lock of somebody else, so giving up one's own disturbs none.
LEMMA ReleaseRespects ==
    ASSUME NEW me, TypeOK, ReleaseLocks(me),
           NEW x, x # me,
           \A o \in Orders : orderLock[o] = x => orders'[o] = orders[o],
           \A e \in Events : eventLock[e] = x /\ e \in processed' => e \in processed
    PROVE  Respects(x)
  BY DEF Respects, ReleaseLocks

\* Hence a step of one owner has only that owner's promise left to show.
LEMMA ThreadStep ==
    ASSUME NEW me \in Threads, OrderInv, TypeOK', CreatedStep, CancelAnnounced',
           \A x \in Owners \ {me} : Respects(x) /\ pc'[x] = pc[x],
           \A t \in Threads \ {me} : ev'[t] = ev[t] /\ hit'[t] = hit[t],
           batch' = batch,
           ThreadOK(me)'
    PROVE  OrderInv'
<1>1. ASSUME NEW t \in Threads PROVE ThreadOK(t)'
  BY <1>1, ThreadFrame DEF OrderInv, Owners
<1>2. ASSUME NEW w \in Workers PROVE WorkerOK(w)'
  <2>1. Respects(w) /\ pc'[w] = pc[w]
    BY EventFacts
  <2> QED
    BY <2>1, WorkerFrame DEF OrderInv
<1> QED
  BY <1>1, <1>2 DEF OrderInv

\* The same for a step of a timeout worker.
LEMMA WorkerStep ==
    ASSUME NEW me \in Workers, OrderInv, TypeOK', CreatedStep, CancelAnnounced',
           \A x \in Owners \ {me} : Respects(x) /\ pc'[x] = pc[x],
           ev' = ev, hit' = hit,
           \A w \in Workers \ {me} : batch'[w] = batch[w],
           WorkerOK(me)'
    PROVE  OrderInv'
<1>1. ASSUME NEW t \in Threads PROVE ThreadOK(t)'
  <2>1. Respects(t) /\ pc'[t] = pc[t]
    BY EventFacts
  <2> QED
    BY <2>1, ThreadFrame DEF OrderInv
<1>2. ASSUME NEW w \in Workers PROVE WorkerOK(w)'
  BY <1>2, WorkerFrame DEF OrderInv, Owners
<1> QED
  BY <1>1, <1>2 DEF OrderInv

\* A step that changes neither orders nor the outbox keeps what they promise.
LEMMA QuietStep ==
    ASSUME orders' = orders, outbox' = outbox, CancelAnnounced
    PROVE  CancelAnnounced' /\ CreatedStep /\ PaidStep
  BY DEF CancelAnnounced, HasCancelRow, CreatedStep, PaidStep

\* The types of what every step touches.
LEMMA ReleaseType ==
    ASSUME TypeOK, NEW me, ReleaseLocks(me)
    PROVE  /\ orderLock' \in [Orders -> Owners \cup {None}]
           /\ eventLock' \in [Events -> Threads \cup {None}]
  BY DEF TypeOK, ReleaseLocks

\* Finish leaves the thread in a well-formed idle state.
LEMMA FinishType ==
    ASSUME TypeOK, NEW t \in Threads, Finish(t)
    PROVE  /\ pc' \in [Owners -> Labels]
           /\ ev' \in [Threads -> Events \cup {None}]
           /\ hit' \in [Threads -> BOOLEAN]
  BY EventFacts DEF TypeOK, Labels, Finish, Goto

-----------------------------------------------------------------------------
(* The steps.                                                              *)

\* Handing an event to an idle consumer keeps the invariant.
LEMMA DeliverInv ==
    ASSUME OrderInv, NEW t \in Threads, NEW e \in Events, Deliver(t, e)
    PROVE  OrderInv'
<1> USE DEF Deliver, Goto, tables, locks, worker
<1>1. TypeOK'
  <2>1. deliveries' \in [Events -> Nat]
    BY DEF OrderInv, TypeOK
  <2>2. pc' \in [Owners -> Labels]
    BY EventFacts DEF OrderInv, TypeOK, Labels
  <2> QED
    BY <2>1, <2>2 DEF OrderInv, TypeOK, Labels
<1>2. CancelAnnounced' /\ CreatedStep
  BY QuietStep DEF OrderInv
<1>3. /\ \A x \in Owners \ {t} : Respects(x) /\ pc'[x] = pc[x]
      /\ \A u \in Threads \ {t} : ev'[u] = ev[u] /\ hit'[u] = hit[u]
  BY DEF OrderInv, TypeOK, Respects
<1>4. pc'[t] \in {"get", "check"} /\ ev'[t] = e
      /\ (pc'[t] = "get" <=> Kind(e) = "declined")
  BY EventFacts DEF OrderInv, TypeOK, Labels
<1>5. ThreadOK(t)'
  BY <1>4 DEF ThreadOK, OrderOf, Kind
<1> QED
  BY <1>1, <1>2, <1>3, <1>5, ThreadStep

\* A handler that gives up, with its locks released, keeps the invariant.
LEMMA FinishInv ==
    ASSUME OrderInv, NEW t \in Threads, Finish(t), TypeOK', orders' = orders,
           outbox' = outbox, batch' = batch,
           \A x \in Owners \ {t} : Respects(x)
    PROVE  OrderInv'
<1>1. CancelAnnounced' /\ CreatedStep
  BY QuietStep DEF OrderInv
<1>2. /\ \A x \in Owners \ {t} : Respects(x) /\ pc'[x] = pc[x]
      /\ \A u \in Threads \ {t} : ev'[u] = ev[u] /\ hit'[u] = hit[u]
  BY DEF OrderInv, TypeOK, Labels, Finish, Goto
<1>3. pc'[t] = "idle"
  BY EventFacts DEF OrderInv, TypeOK, Labels, Finish, Goto
<1>4. ThreadOK(t)'
  BY <1>3 DEF ThreadOK
<1> QED
  BY <1>1, <1>2, <1>4, ThreadStep

\* GetOrder of HandlePaymentFailed keeps it: a row once there stays there.
LEMMA GetOrderInv ==
    ASSUME OrderInv, NEW t \in Threads, GetOrder(t)
    PROVE  OrderInv'
<1> USE DEF GetOrder, Goto, tables, locks, worker, thread
<1>1. TypeOK'
  BY EventFacts, FinishType DEF OrderInv, TypeOK, Labels
<1>2. \A x \in Owners \ {t} : Respects(x)
  BY DEF Respects
<1>3. CASE orders[OrderOf(ev[t])] = "absent"
  BY <1>1, <1>2, <1>3, FinishInv
<1>4. CASE orders[OrderOf(ev[t])] # "absent"
  <2>1. CancelAnnounced' /\ CreatedStep
    BY QuietStep DEF OrderInv
  <2>2. /\ \A x \in Owners \ {t} : Respects(x) /\ pc'[x] = pc[x]
        /\ \A u \in Threads \ {t} : ev'[u] = ev[u] /\ hit'[u] = hit[u]
    BY <1>2, <1>4 DEF OrderInv, TypeOK, Labels
  <2>3. pc'[t] = "check" /\ ev' = ev /\ orders' = orders
    BY <1>4, EventFacts DEF OrderInv, TypeOK, Labels
  <2>4. ThreadOK(t)'
    BY <1>4, <2>3 DEF OrderInv, ThreadOK, OrderOf, Kind
  <2> QED
    BY <1>1, <1>4, <2>1, <2>2, <2>4, ThreadStep
<1> QED
  BY <1>3, <1>4

\* The check of processed_events keeps it: it concludes nothing that another
\* consumer could make wrong.
LEMMA CheckProcessedInv ==
    ASSUME OrderInv, NEW t \in Threads, CheckProcessed(t)
    PROVE  OrderInv'
<1> USE DEF CheckProcessed, Goto, tables, locks, worker, thread
<1>1. TypeOK'
  BY EventFacts DEF OrderInv, TypeOK, Labels
<1>2. CancelAnnounced' /\ CreatedStep
  BY QuietStep DEF OrderInv
<1>3. /\ \A x \in Owners \ {t} : Respects(x) /\ pc'[x] = pc[x]
      /\ \A u \in Threads \ {t} : ev'[u] = ev[u] /\ hit'[u] = hit[u]
  BY DEF OrderInv, TypeOK, Respects
<1>4. pc'[t] \in {"publish", "write"} /\ ev' = ev /\ orders' = orders
  BY EventFacts DEF OrderInv, TypeOK, Labels
<1>5. ThreadOK(t)'
  BY <1>4 DEF OrderInv, ThreadOK, OrderOf, Kind
<1> QED
  BY <1>1, <1>2, <1>3, <1>5, ThreadStep

\* INSERT INTO orders keeps it: the new key is locked until the commit.
LEMMA InsertOrderInv ==
    ASSUME OrderInv, NEW t \in Threads, InsertOrder(t)
    PROVE  OrderInv'
<1> USE DEF InsertOrder, Goto, tables, locks, worker, thread, Free
<1>0. ev[t] \in Orders /\ ev[t] \in Events /\ OrderOf(ev[t]) = ev[t]
  BY EventFacts DEF OrderInv, ThreadOK
<1>1. CASE orders[ev[t]] # "absent"
  <2>1. TypeOK'
    BY <1>1, FinishType, ReleaseType DEF OrderInv, TypeOK, Labels
  <2>2. \A x \in Owners \ {t} : Respects(x)
    BY <1>1, ReleaseRespects DEF OrderInv
  <2> QED
    BY <1>1, <2>1, <2>2, FinishInv
<1>2. CASE orders[ev[t]] = "absent"
  <2>1. orderLock' \in [Orders -> Owners \cup {None}]
    BY <1>2, EventFacts DEF OrderInv, TypeOK, Labels
  <2>a. pc' \in [Owners -> Labels]
    BY <1>2, EventFacts DEF OrderInv, TypeOK, Labels
  <2>b. TypeOK'
    BY <1>2, <2>1, <2>a DEF OrderInv, TypeOK, Labels
  <2>2. CancelAnnounced' /\ CreatedStep
    BY QuietStep DEF OrderInv
  <2>3. /\ \A x \in Owners \ {t} : Respects(x) /\ pc'[x] = pc[x]
        /\ \A u \in Threads \ {t} : ev'[u] = ev[u] /\ hit'[u] = hit[u]
    BY <1>2, EventFacts DEF OrderInv, TypeOK, Respects
  <2>4. pc'[t] = "mark" /\ ev' = ev /\ orders' = orders
        /\ orderLock'[ev[t]] = t
    BY <1>0, <1>2, EventFacts DEF OrderInv, TypeOK, Labels
  <2>5. ThreadOK(t)'
    BY <1>0, <1>2, <2>4 DEF ThreadOK, OrderOf, Kind
  <2> QED
    BY <1>2, <2>b, <2>2, <2>3, <2>5, ThreadStep
<1> QED
  BY <1>1, <1>2

\* UPDATE orders keeps it: a row that matched is locked, and an order that a
\* decline did not match is CANCELLED or PAID for good.
LEMMA UpdateStatusInv ==
    ASSUME OrderInv, NEW t \in Threads, UpdateStatus(t)
    PROVE  OrderInv'
<1> DEFINE e == ev[t]
           o == OrderOf(e)
<1>0. /\ e \in Events /\ o \in Orders /\ pc[t] = "write"
      /\ Kind(e) \in {"completed", "declined"}
      /\ Kind(e) = "declined" => orders[o] \in {"PENDING", "CANCELLED", "PAID"}
  BY EventFacts DEF OrderInv, ThreadOK, UpdateStatus, TypeOK, Status
<1>1. /\ pc' = [pc EXCEPT ![t] = IF Kind(e) = "declined" THEN "commit" ELSE "mark"]
      /\ hit' = [hit EXCEPT ![t] = Matches(e, o)]
      /\ orderLock' = IF Matches(e, o) THEN [orderLock EXCEPT ![o] = t]
                      ELSE orderLock
      /\ Matches(e, o) => orderLock[o] \in {None, t}
      /\ UNCHANGED <<orders, processed, outbox, old, eventLock, ev, batch,
                     aborts, deliveries>>
  BY DEF UpdateStatus, Goto, Free, tables, worker
<1>2. Matches(e, o) \in BOOLEAN
  BY DEF Matches
<1> HIDE DEF e, o
<1>3. orderLock' \in [Orders -> Owners \cup {None}]
  BY <1>1, EventFacts DEF OrderInv, TypeOK
<1>4. pc' \in [Owners -> Labels]
  BY <1>1, EventFacts DEF OrderInv, TypeOK, Labels
<1>5. TypeOK'
  BY <1>1, <1>2, <1>3, <1>4 DEF OrderInv, TypeOK
<1>6. CancelAnnounced' /\ CreatedStep
  BY <1>1, QuietStep DEF OrderInv
<1>7. /\ \A x \in Owners \ {t} : Respects(x) /\ pc'[x] = pc[x]
      /\ \A u \in Threads \ {t} : ev'[u] = ev[u] /\ hit'[u] = hit[u]
  <2>1. \A x \in Owners \ {t} : Respects(x)
    BY <1>1, EventFacts DEF OrderInv, TypeOK, Respects
  <2> QED
    BY <1>1, <2>1 DEF OrderInv, TypeOK
<1>8. ThreadOK(t)'
  <2>1. pc'[t] = IF Kind(e) = "declined" THEN "commit" ELSE "mark"
    BY <1>1, EventFacts DEF OrderInv, TypeOK
  <2>2. hit'[t] = Matches(e, o)
    BY <1>1 DEF OrderInv, TypeOK
  <2>3. Matches(e, o) => orderLock'[o] = t
    BY <1>0, <1>1 DEF OrderInv, TypeOK
  <2>4. Matches(e, o) <=> IF Kind(e) = "declined" THEN orders[o] = "PENDING"
                          ELSE orders[o] # "absent"
    BY DEF Matches
  <2>5. /\ ev'[t] = e /\ OrderOf(ev'[t]) = o /\ orders' = orders
        /\ OrderOf(ev[t])' = o /\ Kind(ev[t])' = Kind(e)
    BY <1>1 DEF e, o, OrderOf, Kind
  <2>6. CASE Kind(e) = "declined"
    BY <1>0, <2>1, <2>2, <2>3, <2>4, <2>5, <2>6 DEF ThreadOK
  <2>7. CASE Kind(e) = "completed"
    BY <1>0, <2>1, <2>2, <2>3, <2>4, <2>5, <2>7 DEF ThreadOK
  <2> QED
    BY <1>0, <2>6, <2>7
<1> QED
  BY <1>1, <1>5, <1>6, <1>7, <1>8, ThreadStep

\* INSERT INTO processed_events keeps it: the key is locked until the commit.
LEMMA MarkProcessedInv ==
    ASSUME OrderInv, NEW t \in Threads, MarkProcessed(t)
    PROVE  OrderInv'
<1> USE DEF MarkProcessed, Goto, tables, worker, thread, Free
<1>0. ev[t] \in Events /\ Kind(ev[t]) # "declined" /\ pc[t] = "mark"
  BY DEF OrderInv, ThreadOK
<1>1. CASE ev[t] \in processed
  <2>1. TypeOK'
    BY <1>1, FinishType, ReleaseType DEF OrderInv, TypeOK
  <2>2. \A x \in Owners \ {t} : Respects(x)
    BY <1>1, ReleaseRespects DEF OrderInv
  <2> QED
    BY <1>1, <2>1, <2>2, FinishInv
<1>2. CASE ev[t] \notin processed
  <2>1. eventLock' \in [Events -> Threads \cup {None}]
    BY <1>2 DEF OrderInv, TypeOK
  <2>2. pc' \in [Owners -> Labels]
    BY <1>2, EventFacts DEF OrderInv, TypeOK, Labels
  <2>3. TypeOK'
    BY <1>2, <2>1, <2>2 DEF OrderInv, TypeOK
  <2>4. CancelAnnounced' /\ CreatedStep
    BY QuietStep DEF OrderInv
  <2>5. /\ \A x \in Owners \ {t} : Respects(x) /\ pc'[x] = pc[x]
        /\ \A u \in Threads \ {t} : ev'[u] = ev[u] /\ hit'[u] = hit[u]
    BY <1>2, EventFacts DEF OrderInv, TypeOK, Respects
  <2>6. /\ pc'[t] = "commit" /\ ev' = ev /\ hit' = hit /\ orders' = orders
        /\ orderLock' = orderLock /\ processed' = processed
        /\ eventLock'[ev[t]] = t
    BY <1>0, <1>2, EventFacts DEF OrderInv, TypeOK
  <2>7. ThreadOK(t)'
    BY <1>0, <1>2, <2>6 DEF OrderInv, ThreadOK, OrderOf, Kind
  <2> QED
    BY <1>2, <2>3, <2>4, <2>5, <2>7, ThreadStep
<1> QED
  BY <1>1, <1>2

\* Publishing the status on Pub/Sub keeps it.
LEMMA PublishStatusInv ==
    ASSUME OrderInv, NEW t \in Threads, PublishStatus(t)
    PROVE  OrderInv'
<1> USE DEF PublishStatus, tables, locks, worker
<1>1. TypeOK'
  BY FinishType DEF OrderInv, TypeOK
<1>2. \A x \in Owners \ {t} : Respects(x)
  BY DEF Respects
<1> QED
  BY <1>1, <1>2, FinishInv

\* The rollback of a handler's transaction keeps it.
LEMMA AbortInv ==
    ASSUME OrderInv, NEW t \in Threads, Abort(t)
    PROVE  OrderInv'
<1> USE DEF Abort, tables, worker
<1>1. TypeOK'
  BY FinishType, ReleaseType DEF OrderInv, TypeOK
<1>2. \A x \in Owners \ {t} : Respects(x)
  BY ReleaseRespects DEF OrderInv
<1> QED
  BY <1>1, <1>2, FinishInv

\* The passing of the 15 minutes keeps it.
LEMMA GrowOldInv ==
    ASSUME OrderInv, NEW o \in Orders, GrowOld(o)
    PROVE  OrderInv'
<1> USE DEF GrowOld, tables, locks, thread, worker
<1>1. TypeOK'
  BY DEF OrderInv, TypeOK
<1>2. CancelAnnounced' /\ CreatedStep
  BY QuietStep DEF OrderInv
<1>3. \A x \in Owners : Respects(x)
  BY DEF Respects
<1>4. \A t \in Threads : ThreadOK(t)'
  BY <1>1, <1>2, <1>3, EventFacts, ThreadFrame DEF OrderInv
<1>5. \A w \in Workers : WorkerOK(w)'
  BY <1>3, EventFacts, WorkerFrame DEF OrderInv
<1> QED
  BY <1>1, <1>2, <1>4, <1>5 DEF OrderInv

\* What a commit does to the row of its order, by the kind of the event.
LEMMA CommitOrders ==
    ASSUME OrderInv, NEW t \in Threads, Commit(t), NEW e, e = ev[t],
           NEW o, o = OrderOf(e)
    PROVE  /\ e \in Events /\ o \in Orders
           /\ \/ /\ Kind(e) = "reserved" /\ orders[o] = "absent"
                 /\ orderLock[o] = t
                 /\ orders' = [orders EXCEPT ![o] = "PENDING"]
              \/ /\ Kind(e) = "completed" /\ orders[o] # "absent"
                 /\ orderLock[o] = t
                 /\ orders' = [orders EXCEPT ![o] = "PAID"]
              \/ /\ Kind(e) = "completed" /\ orders' = orders
              \/ /\ Kind(e) = "declined" /\ orders[o] = "PENDING"
                 /\ orderLock[o] = t
                 /\ orders' = [orders EXCEPT ![o] = "CANCELLED"]
              \/ /\ Kind(e) = "declined" /\ orders[o] \in {"CANCELLED", "PAID"}
                 /\ orders' = orders
           /\ Kind(e) # "declined" => e \notin processed /\ eventLock[e] = t
<1>1. /\ e \in Events /\ o \in Orders
      /\ Kind(e) \in {"reserved", "completed", "declined"}
      /\ NewStatus(e) = IF Kind(e) = "reserved" THEN "PENDING"
                        ELSE IF Kind(e) = "completed" THEN "PAID" ELSE "CANCELLED"
  BY EventFacts DEF OrderInv, ThreadOK, Commit
<1>2. /\ Kind(e) = "reserved" => orderLock[o] = t /\ orders[o] = "absent"
      /\ Kind(e) = "completed" /\ hit[t] =>
           orderLock[o] = t /\ orders[o] # "absent"
      /\ Kind(e) = "declined" => IF hit[t] THEN orderLock[o] = t /\ orders[o] = "PENDING"
                                 ELSE orders[o] \in {"CANCELLED", "PAID"}
      /\ Kind(e) # "declined" => eventLock[e] = t /\ e \notin processed
  BY DEF OrderInv, ThreadOK, Commit
<1>3. orders' = IF Kind(e) = "reserved" \/ hit[t]
                THEN [orders EXCEPT ![o] = NewStatus(e)] ELSE orders
  BY DEF Commit, CommitOrder
<1> QED
  BY <1>1, <1>2, <1>3

\* The commit of a handler keeps it and makes legal status changes only.
LEMMA CommitInv ==
    ASSUME OrderInv, NEW t \in Threads, Commit(t)
    PROVE  OrderInv' /\ CreatedStep /\ PaidStep
<1> DEFINE e == ev[t]
           o == OrderOf(e)
           Rows == [order : Orders, event : Payments \cup {None}]
<1>0. /\ e \in Events /\ o \in Orders
      /\ \/ /\ Kind(e) = "reserved" /\ orders[o] = "absent"
            /\ orderLock[o] = t
            /\ orders' = [orders EXCEPT ![o] = "PENDING"]
         \/ /\ Kind(e) = "completed" /\ orders[o] # "absent"
            /\ orderLock[o] = t
            /\ orders' = [orders EXCEPT ![o] = "PAID"]
         \/ /\ Kind(e) = "completed" /\ orders' = orders
         \/ /\ Kind(e) = "declined" /\ orders[o] = "PENDING"
            /\ orderLock[o] = t
            /\ orders' = [orders EXCEPT ![o] = "CANCELLED"]
         \/ /\ Kind(e) = "declined" /\ orders[o] \in {"CANCELLED", "PAID"}
            /\ orders' = orders
      /\ Kind(e) # "declined" => e \notin processed /\ eventLock[e] = t
  BY CommitOrders
<1>1. /\ processed' = IF Kind(e) = "declined" THEN processed ELSE processed \cup {e}
      /\ outbox' = IF Kind(e) = "declined" THEN outbox \o <<[order |-> o, event |-> e]>>
                   ELSE outbox
      /\ ReleaseLocks(t)
      /\ pc' = [pc EXCEPT ![t] = pc'[t]] /\ pc'[t] \in {"idle", "publish"}
      /\ \/ UNCHANGED thread /\ pc'[t] = "publish"
         \/ Finish(t)
      /\ UNCHANGED <<old, batch, aborts, deliveries>>
  <2>1. /\ processed' = IF Kind(e) = "declined" THEN processed ELSE processed \cup {e}
        /\ outbox' = IF Kind(e) = "declined"
                       THEN Append(outbox, [order |-> o, event |-> e]) ELSE outbox
        /\ ReleaseLocks(t)
        /\ \/ pc' = [pc EXCEPT ![t] = "publish"] /\ UNCHANGED thread
           \/ pc' = [pc EXCEPT ![t] = "idle"] /\ Finish(t)
        /\ UNCHANGED <<old, batch, aborts, deliveries>>
    BY DEF Commit, CommitProcessed, CommitOutbox, Lifecycle!CancelRow, Goto,
       Finish, worker
  <2>2. Append(outbox, [order |-> o, event |-> e])
          = outbox \o <<[order |-> o, event |-> e]>>
    BY DEF OrderInv, TypeOK
  <2>3. /\ pc' = [pc EXCEPT ![t] = pc'[t]] /\ pc'[t] \in {"idle", "publish"}
        /\ \/ UNCHANGED thread /\ pc'[t] = "publish"
           \/ Finish(t)
    BY <2>1, EventFacts DEF OrderInv, TypeOK
  <2> QED
    BY <2>1, <2>2, <2>3
<1>2. Kind(e) = "declined" => e \in Payments
  BY <1>0, EventFacts
<1> HIDE DEF e, o
<1>3. CreatedStep /\ PaidStep
  BY <1>0 DEF CreatedStep, PaidStep, OrderInv, TypeOK, Status
<1>4. /\ outbox' \in Seq(Rows)
      /\ \A q \in Orders : HasCancelRow(q)' <=>
            HasCancelRow(q) \/ (Kind(e) = "declined" /\ q = o)
  <2>1. CASE Kind(e) = "declined"
    <3>1. <<[order |-> o, event |-> e]>> \in Seq(Rows)
      BY <1>0, <1>2, <2>1
    <3>2. outbox \in Seq(Rows)
      BY DEF OrderInv, TypeOK
    <3> DEFINE s == <<[order |-> o, event |-> e]>>
    <3>3. DOMAIN s = {1} /\ s[1].order = o
      OBVIOUS
    <3>4. outbox' = outbox \o s
      BY <1>1, <2>1
    <3> HIDE DEF s, Rows
    <3>5. /\ outbox' \in Seq(Rows)
          /\ \A q : HasCancelRow(q)' <=> \/ HasCancelRow(q)
                                         \/ \E i \in DOMAIN s : s[i].order = q
      BY <3>1, <3>2, <3>4, AppendRows DEF s
    <3> QED
      BY <2>1, <3>3, <3>5
  <2>2. CASE Kind(e) # "declined"
    BY <1>1, <2>2 DEF HasCancelRow, OrderInv, TypeOK
  <2> QED
    BY <2>1, <2>2
<1>5. CancelAnnounced'
  <2> SUFFICES ASSUME NEW q \in Orders
               PROVE  /\ orders'[q] = "CANCELLED" => HasCancelRow(q)'
                      /\ HasCancelRow(q)' => orders'[q] \in {"CANCELLED", "PAID"}
    BY DEF CancelAnnounced
  <2>1. /\ orders[q] = "CANCELLED" => HasCancelRow(q)
        /\ HasCancelRow(q) => orders[q] \in {"CANCELLED", "PAID"}
    BY DEF OrderInv, CancelAnnounced
  <2>2. orders \in [Orders -> Status]
    BY DEF OrderInv, TypeOK
  <2> QED
    BY <1>0, <1>4, <2>1, <2>2
<1>6. TypeOK'
  <2>1. orders' \in [Orders -> Status]
    BY <1>0 DEF OrderInv, TypeOK, Status
  <2>2. processed' \in SUBSET Events
    BY <1>0, <1>1 DEF OrderInv, TypeOK
  <2>3. /\ pc' \in [Owners -> Labels]
        /\ ev' \in [Threads -> Events \cup {None}]
        /\ hit' \in [Threads -> BOOLEAN]
    BY <1>1, FinishType DEF OrderInv, TypeOK, Labels, thread
  <2> QED
    BY <1>1, <1>4, <2>1, <2>2, <2>3, ReleaseType DEF OrderInv, TypeOK
<1>7. /\ \A x \in Owners \ {t} : Respects(x) /\ pc'[x] = pc[x]
      /\ \A u \in Threads \ {t} : ev'[u] = ev[u] /\ hit'[u] = hit[u]
  <2>1. \A x \in Owners \ {t} :
           /\ \A q \in Orders : orderLock[q] = x => orders'[q] = orders[q]
           /\ \A f \in Events : eventLock[f] = x /\ f \in processed' => f \in processed
    BY <1>0, <1>1 DEF OrderInv, TypeOK
  <2>2. \A x \in Owners \ {t} : Respects(x)
    BY <1>1, <2>1, ReleaseRespects DEF OrderInv
  <2> QED
    BY <1>1, <2>2 DEF OrderInv, TypeOK, Finish, thread
<1>8. ThreadOK(t)'
  <2>1. CASE pc'[t] = "idle"
    BY <2>1 DEF ThreadOK
  <2>2. CASE pc'[t] = "publish"
    <3>1. ev' = ev
      BY <1>1, <2>2, EventFacts DEF Finish, Goto, OrderInv, TypeOK, thread
    <3>2. ev'[t] = e /\ OrderOf(ev[t])' = o /\ Kind(ev[t])' = Kind(e)
      BY <3>1 DEF e, o, OrderOf, Kind
    <3>3. orders'[o] # "absent" \/ Kind(e) # "declined"
      BY <1>0 DEF OrderInv, TypeOK
    <3> QED
      BY <1>0, <2>2, <3>2, <3>3 DEF ThreadOK
  <2> QED
    BY <1>1, <2>1, <2>2
<1> QED
  BY <1>1, <1>3, <1>5, <1>6, <1>7, <1>8, ThreadStep

\* The poll of the timeout worker keeps it: SKIP LOCKED takes free rows only.
LEMMA SelectExpiredInv ==
    ASSUME OrderInv, NEW w \in Workers, SelectExpired(w)
    PROVE  OrderInv'
<1> USE DEF SelectExpired, Goto, tables, thread
<1>1. PICK b \in SUBSET Expired :
         /\ batch' = [batch EXCEPT ![w] = b]
         /\ orderLock' = [o \in Orders |-> IF o \in b THEN w ELSE orderLock[o]]
  OBVIOUS
<1>2. \A o \in b : o \in Orders /\ orders[o] = "PENDING" /\ orderLock[o] = None
  BY DEF Expired
<1>3. TypeOK'
  BY <1>1, <1>2, EventFacts DEF OrderInv, TypeOK, Labels
<1>4. CancelAnnounced' /\ CreatedStep
  BY QuietStep DEF OrderInv
<1>5. /\ \A x \in Owners \ {w} : Respects(x) /\ pc'[x] = pc[x]
      /\ \A v \in Workers \ {w} : batch'[v] = batch[v]
  BY <1>1, <1>2, EventFacts DEF OrderInv, TypeOK, Respects
<1>6. WorkerOK(w)'
  BY <1>1, <1>2 DEF WorkerOK, OrderInv, TypeOK
<1> QED
  BY <1>3, <1>4, <1>5, <1>6, WorkerStep

\* The commit of a batch of expired orders keeps it and cancels PENDING orders
\* only.
LEMMA CommitBatchInv ==
    ASSUME OrderInv, NEW w \in Workers, CommitBatch(w)
    PROVE  OrderInv' /\ CreatedStep /\ PaidStep
<1> DEFINE Rows == [order : Orders, event : Payments \cup {None}]
<1> USE DEF CommitBatch, EndBatch, Goto, thread
<1>1. \A o \in batch[w] : o \in Orders /\ orderLock[o] = w /\ orders[o] = "PENDING"
  BY DEF OrderInv, WorkerOK, TypeOK
<1>2. CreatedStep /\ PaidStep
  BY <1>1 DEF CreatedStep, PaidStep
<1>3. PICK s \in Lifecycle!BatchRows(batch[w]) : outbox' = outbox \o s
  OBVIOUS
<1>4. batch[w] \in SUBSET Orders /\ outbox \in Seq(Rows)
  BY DEF OrderInv, TypeOK
<1>5. /\ s \in Seq(Rows)
      /\ \A o : (\E i \in DOMAIN s : s[i].order = o) <=> o \in batch[w]
  BY <1>4, BatchRowsFacts
<1>6. /\ outbox' \in Seq(Rows)
      /\ \A o : HasCancelRow(o)' <=> HasCancelRow(o) \/ o \in batch[w]
  <2> HIDE DEF Rows
  <2> QED
    BY <1>3, <1>4, <1>5, AppendRows
<1>7. CancelAnnounced'
  BY <1>6 DEF CancelAnnounced, OrderInv
<1>8. TypeOK'
  <2>1. orders' \in [Orders -> Status]
    BY DEF OrderInv, TypeOK, Status
  <2>2. pc' \in [Owners -> Labels] /\ batch' \in [Workers -> SUBSET Orders]
    BY EventFacts DEF OrderInv, TypeOK, Labels
  <2> QED
    BY <1>6, <2>1, <2>2, ReleaseType DEF OrderInv, TypeOK
<1>9. /\ \A x \in Owners \ {w} : Respects(x) /\ pc'[x] = pc[x]
      /\ \A v \in Workers \ {w} : batch'[v] = batch[v]
  <2>1. \A x \in Owners \ {w}, o \in Orders : orderLock[o] = x => orders'[o] = orders[o]
    BY <1>1
  <2>2. \A x \in Owners \ {w} : Respects(x)
    BY <2>1, ReleaseRespects DEF OrderInv
  <2> QED
    BY <2>2 DEF OrderInv, TypeOK
<1>10. WorkerOK(w)'
  BY EventFacts DEF WorkerOK, OrderInv, TypeOK
<1> QED
  BY <1>2, <1>7, <1>8, <1>9, <1>10, WorkerStep

\* The rollback of a batch keeps it.
LEMMA AbortBatchInv ==
    ASSUME OrderInv, NEW w \in Workers, AbortBatch(w)
    PROVE  OrderInv'
<1> USE DEF AbortBatch, EndBatch, Goto, tables, thread
<1>1. TypeOK'
  <2>1. pc' \in [Owners -> Labels] /\ batch' \in [Workers -> SUBSET Orders]
    BY EventFacts DEF OrderInv, TypeOK, Labels
  <2>2. aborts' \in Nat
    BY DEF OrderInv, TypeOK
  <2> QED
    BY <2>1, <2>2, ReleaseType DEF OrderInv, TypeOK
<1>2. CancelAnnounced' /\ CreatedStep
  BY QuietStep DEF OrderInv
<1>3. /\ \A x \in Owners \ {w} : Respects(x) /\ pc'[x] = pc[x]
      /\ \A v \in Workers \ {w} : batch'[v] = batch[v]
  <2>1. \A x \in Owners \ {w} : Respects(x)
    BY ReleaseRespects DEF OrderInv
  <2> QED
    BY <2>1 DEF OrderInv, TypeOK
<1>4. WorkerOK(w)'
  BY EventFacts DEF WorkerOK, OrderInv, TypeOK
<1> QED
  BY <1>1, <1>2, <1>3, <1>4, WorkerStep

\* Every step of the service keeps the invariant and makes legal status changes.
LEMMA NextInv ==
    ASSUME OrderInv, [Next]_vars
    PROVE  OrderInv' /\ CreatedStep /\ PaidStep
<1> USE DEF OrderInv
<1>1. ASSUME NEW t \in Threads, NEW e \in Events, Deliver(t, e)
      PROVE  OrderInv' /\ orders' = orders /\ outbox' = outbox
  BY <1>1, DeliverInv DEF Deliver, tables
<1>2. ASSUME NEW t \in Threads,
             \/ GetOrder(t) \/ CheckProcessed(t) \/ InsertOrder(t)
             \/ UpdateStatus(t) \/ MarkProcessed(t) \/ PublishStatus(t) \/ Abort(t)
      PROVE  OrderInv' /\ orders' = orders /\ outbox' = outbox
  <2>1. orders' = orders /\ outbox' = outbox
    BY <1>2 DEF GetOrder, CheckProcessed, InsertOrder, UpdateStatus,
       MarkProcessed, PublishStatus, Abort, tables
  <2> QED
    BY <1>2, <2>1, GetOrderInv, CheckProcessedInv, InsertOrderInv,
       UpdateStatusInv, MarkProcessedInv, PublishStatusInv, AbortInv
<1>3. ASSUME NEW o \in Orders, GrowOld(o)
      PROVE  OrderInv' /\ orders' = orders /\ outbox' = outbox
  BY <1>3, GrowOldInv DEF GrowOld, tables
<1>4. ASSUME NEW w \in Workers, SelectExpired(w) \/ AbortBatch(w)
      PROVE  OrderInv' /\ orders' = orders /\ outbox' = outbox
  BY <1>4, SelectExpiredInv, AbortBatchInv DEF SelectExpired, AbortBatch, tables
<1>5. ASSUME NEW t \in Threads, Commit(t)
      PROVE  OrderInv' /\ CreatedStep /\ PaidStep
  BY <1>5, CommitInv
<1>6. ASSUME NEW w \in Workers, CommitBatch(w)
      PROVE  OrderInv' /\ CreatedStep /\ PaidStep
  BY <1>6, CommitBatchInv
<1>7. CASE UNCHANGED vars
  <2>1. /\ UNCHANGED <<orders, old, processed, outbox, orderLock, eventLock, ev,
                       pc, hit, batch, aborts, deliveries>>
    BY <1>7 DEF vars, tables, locks, thread, worker
  <2>2. TypeOK' /\ CancelAnnounced' /\ CreatedStep /\ PaidStep
    BY <2>1, QuietStep DEF TypeOK
  <2>3. \A x \in Owners : Respects(x)
    BY <2>1 DEF Respects
  <2> QED
    BY <2>1, <2>2, <2>3, EventFacts, ThreadFrame, WorkerFrame
<1> HIDE DEF OrderInv
<1>8. ASSUME OrderInv', orders' = orders, outbox' = outbox
      PROVE  OrderInv' /\ CreatedStep /\ PaidStep
  BY <1>8, QuietStep DEF OrderInv
<1> QED
  BY <1>1, <1>2, <1>3, <1>4, <1>5, <1>6, <1>7, <1>8 DEF Next, Handle, Work

\* The invariant that the properties below are read off.
THEOREM OrderInvariant == Spec => []OrderInv
  BY InitInv, NextInv, PTL DEF Spec

\* Every reachable state is well formed: no handler or worker leaves a row, a
\* lock or a batch of the wrong kind behind.
THEOREM TypeCorrect == Spec => []TypeOK
<1>1. OrderInv => TypeOK
  BY DEF OrderInv
<1> QED
  BY <1>1, OrderInvariant, PTL

\* Status and outbox agree in every state: CancelOrderAndEmitEvent and the
\* timeout worker write both in one transaction, and nothing resurrects an
\* order that has asked for its refund, other than a late payment.
THEOREM CancelIsAnnounced == Spec => []CancelAnnounced
<1>1. OrderInv => CancelAnnounced
  BY DEF OrderInv
<1> QED
  BY <1>1, OrderInvariant, PTL

\* A paid order stays paid, for any number of consumers, workers and
\* redeliveries: the status read by the PENDING conditions is protected by the
\* row lock until the commit.
THEOREM PaidStaysPaid == Spec => PaidIsFinal
<1>1. OrderInv /\ [Next]_vars => [PaidStep]_vars
  BY NextInv
<1> QED
  BY <1>1, OrderInvariant, PTL DEF Spec, PaidIsFinal

\* A row of orders is created at most once and never becomes PENDING again.
THEOREM CreatedAtMostOnce == Spec => CreatedOnce
<1>1. OrderInv /\ [Next]_vars => [CreatedStep]_vars
  BY NextInv
<1> QED
  BY <1>1, OrderInvariant, PTL DEF Spec, CreatedOnce

\* No transaction that creates or pays an order commits an event a second time,
\* whatever was read before: the primary key of processed_events decides.
THEOREM AppliedAtMostOnce == Spec => AppliedOnce
<1>1. OrderInv => AppliedStep
  BY DEF OrderInv, AppliedStep, ThreadOK, Commit
<1> QED
  BY <1>1, OrderInvariant, PTL DEF Spec, AppliedOnce

-----------------------------------------------------------------------------
(* Expiry.                                                                 *)

\* The rows of a batch are pairwise different: there are as many as orders.
LEMMA BatchRowsDiffer ==
    ASSUME NEW b \in SUBSET Orders, NEW s \in Lifecycle!BatchRows(b),
           NEW i \in DOMAIN s, NEW j \in DOMAIN s, s[i] = s[j]
    PROVE  i = j
<1> DEFINE n == Cardinality(b)
           f == [k \in 1..n |-> s[k].order]
<1>1. IsFiniteSet(b) /\ n \in Nat
  BY OrderAssumption, FS_Subset, FS_CardinalityType
<1>2. Lifecycle!Cardinality(b) = n
  BY DEF Lifecycle!Cardinality, Cardinality
<1>3. /\ DOMAIN s = 1..n
      /\ \A k \in 1..n : s[k].order \in b
      /\ \A o \in b : \E k \in 1..n : s[k].order = o
  BY <1>2 DEF Lifecycle!BatchRows, Lifecycle!CancelRow
<1>4. IsFiniteSet(1..n) /\ Cardinality(1..n) = n
  BY <1>1, FS_Interval
<1>5. f \in Surjection(1..n, b)
  BY <1>3 DEF Surjection
<1>6. f \in Injection(1..n, b)
  <2>1. Cardinality(1..n) = Cardinality(b)
    BY <1>4
  <2> HIDE DEF f, n
  <2> QED
    BY <1>4, <1>5, <2>1, FS_SurjSameCardinalityImpliesInj
<1>7. f[i] = f[j] /\ i \in 1..n /\ j \in 1..n
  BY <1>3
<1> QED
  BY <1>3, <1>6, <1>7 DEF Injection, IsInjective

\* A cancel of a declined payment adds no row of a timeout worker.
LEMMA CommitExpiry ==
    ASSUME OrderInv, ExpiredOnce, NEW t \in Threads, Commit(t)
    PROVE  ExpiredOnce'
<1> DEFINE Rows == [order : Orders, event : Payments \cup {None}]
<1>1. PICK e \in Events, o \in Orders : e = ev[t] /\ o = OrderOf(e)
  BY EventFacts DEF OrderInv, ThreadOK, Commit
<1>2. CASE outbox' = outbox
  BY <1>2 DEF ExpiredOnce
<1>3. CASE outbox' = Append(outbox, Lifecycle!CancelRow(o, e))
  <2>1. e # None
    BY EventFacts
  <2>2. outbox \in Seq(Rows)
    BY DEF OrderInv, TypeOK
  <2> HIDE DEF Rows
  <2>3. /\ DOMAIN outbox' = 1..(Len(outbox) + 1) /\ DOMAIN outbox = 1..Len(outbox)
        /\ Len(outbox) \in Nat
        /\ \A i \in 1..Len(outbox) : outbox'[i] = outbox[i]
        /\ outbox'[Len(outbox) + 1] = Lifecycle!CancelRow(o, e)
    BY <1>3, <2>2
  <2>4. outbox'[Len(outbox) + 1].event # None
    BY <2>1, <2>3 DEF Lifecycle!CancelRow
  <2>5. \A i \in DOMAIN outbox' : outbox'[i].event = None
                                    => i \in DOMAIN outbox /\ outbox'[i] = outbox[i]
    BY <2>3, <2>4
  <2> QED
    BY <2>5 DEF ExpiredOnce
<1> QED
  BY <1>1, <1>2, <1>3 DEF Commit, CommitOutbox

\* A batch adds one row for each of its orders, which are PENDING and have none.
LEMMA CommitBatchExpiry ==
    ASSUME OrderInv, ExpiredOnce, NEW w \in Workers, CommitBatch(w)
    PROVE  ExpiredOnce'
<1> DEFINE Rows == [order : Orders, event : Payments \cup {None}]
           n == Len(outbox)
<1>1. PICK s \in Lifecycle!BatchRows(batch[w]) : outbox' = outbox \o s
  BY DEF CommitBatch
<1>2. /\ batch[w] \in SUBSET Orders /\ outbox \in Seq(Rows)
      /\ \A o \in batch[w] : orders[o] = "PENDING"
  BY DEF OrderInv, WorkerOK, TypeOK, CommitBatch
<1>3. \A o \in batch[w] : ~HasCancelRow(o)
  BY <1>2 DEF OrderInv, CancelAnnounced
<1>4. /\ s \in Seq(Rows)
      /\ \A o : (\E i \in DOMAIN s : s[i].order = o) <=> o \in batch[w]
  BY <1>2, BatchRowsFacts
<1>5. \A i, j \in DOMAIN s : s[i] = s[j] => i = j
  BY <1>2, BatchRowsDiffer
<1> HIDE DEF Rows
<1>6. /\ \A i \in 1..n : outbox'[i] = outbox[i]
      /\ \A i \in 1..Len(s) : outbox'[n + i] = s[i]
      /\ n \in Nat /\ Len(s) \in Nat
      /\ DOMAIN outbox = 1..n /\ DOMAIN s = 1..Len(s)
      /\ DOMAIN outbox' = 1..(n + Len(s))
  BY <1>1, <1>2, <1>4
<1> HIDE DEF n
<1> SUFFICES ASSUME NEW i \in DOMAIN outbox', NEW j \in DOMAIN outbox',
                    outbox'[i] = outbox'[j], outbox'[i].event = None
             PROVE  i = j
  BY DEF ExpiredOnce
<1>7. \A k \in DOMAIN outbox' \ (1..n) :
         /\ k - n \in DOMAIN s /\ outbox'[k] = s[k - n]
  <2> TAKE k \in DOMAIN outbox' \ (1..n)
  <2>1. k - n \in 1..Len(s) /\ n + (k - n) = k
    BY <1>6
  <2> QED
    BY <1>6, <2>1
<1>8. \A k \in DOMAIN outbox', l \in 1..n : k \notin 1..n => outbox'[k] # outbox'[l]
  <2> SUFFICES ASSUME NEW k \in DOMAIN outbox', NEW l \in 1..n, k \notin 1..n,
                      outbox'[k] = outbox'[l]
               PROVE  FALSE
    OBVIOUS
  <2>1. outbox'[k].order \in batch[w]
    BY <1>4, <1>7
  <2>2. outbox[l].order = outbox'[k].order /\ l \in DOMAIN outbox
    BY <1>6
  <2> QED
    BY <1>3, <2>1, <2>2 DEF HasCancelRow
<1>9. CASE i \in 1..n /\ j \in 1..n
  BY <1>6, <1>9 DEF ExpiredOnce
<1>10. CASE i \notin 1..n /\ j \notin 1..n
  <2>1. i - n = j - n
    BY <1>5, <1>7, <1>10
  <2> QED
    BY <1>6, <2>1
<1> QED
  BY <1>8, <1>9, <1>10

\* An order that no payment cancelled expires once: the worker's condition and
\* its lock keep two workers, and a worker and a handler, from both cancelling it.
THEOREM ExpiresAtMostOnce == Spec => []ExpiredOnce
<1>1. Init => ExpiredOnce
  BY DEF Init, ExpiredOnce
<1>2. OrderInv /\ ExpiredOnce /\ [Next]_vars => ExpiredOnce'
  <2> SUFFICES ASSUME OrderInv, ExpiredOnce, [Next]_vars PROVE ExpiredOnce'
    OBVIOUS
  <2>1. ASSUME outbox' = outbox PROVE ExpiredOnce'
    BY <2>1 DEF ExpiredOnce
  <2>2. ASSUME NEW t \in Threads, Handle(t) PROVE ExpiredOnce'
    BY <2>1, <2>2, CommitExpiry DEF Handle, GetOrder, CheckProcessed, InsertOrder,
       UpdateStatus, MarkProcessed, PublishStatus, tables
  <2>3. ASSUME NEW w \in Workers, Work(w) PROVE ExpiredOnce'
    BY <2>1, <2>3, CommitBatchExpiry DEF Work, SelectExpired, tables
  <2> QED
    BY <2>1, <2>2, <2>3 DEF Next, Deliver, Abort, GrowOld, AbortBatch, vars, tables
<1> QED
  BY <1>1, <1>2, OrderInvariant, PTL DEF Spec

-----------------------------------------------------------------------------
(* The refinement.                                                         *)

\* The commit of a handler is one step of OrderLifecycle, or leaves both tables
\* as they are.
LEMMA CommitRefines ==
    ASSUME OrderInv, NEW t \in Threads, Commit(t)
    PROVE  Lifecycle!Next \/ UNCHANGED <<orders, outbox>>
<1> DEFINE e == ev[t]
           o == OrderOf(e)
<1>1. /\ e \in Events /\ o \in Orders
      /\ \/ /\ Kind(e) = "reserved" /\ orders[o] = "absent"
            /\ orderLock[o] = t
            /\ orders' = [orders EXCEPT ![o] = "PENDING"]
         \/ /\ Kind(e) = "completed" /\ orders[o] # "absent"
            /\ orderLock[o] = t
            /\ orders' = [orders EXCEPT ![o] = "PAID"]
         \/ /\ Kind(e) = "completed" /\ orders' = orders
         \/ /\ Kind(e) = "declined" /\ orders[o] = "PENDING"
            /\ orderLock[o] = t
            /\ orders' = [orders EXCEPT ![o] = "CANCELLED"]
         \/ /\ Kind(e) = "declined" /\ orders[o] \in {"CANCELLED", "PAID"}
            /\ orders' = orders
  BY CommitOrders
<1>2. outbox' = IF Kind(e) = "declined"
                  THEN Append(outbox, Lifecycle!CancelRow(o, e)) ELSE outbox
  BY DEF Commit, CommitOutbox
<1>3. Kind(e) = "declined" => e \in Declined
  BY <1>1, EventFacts
<1> HIDE DEF e, o
<1>4. CASE Kind(e) = "reserved"
  BY <1>1, <1>2, <1>4 DEF Lifecycle!Next, Lifecycle!Create
<1>5. CASE Kind(e) = "completed"
  BY <1>1, <1>2, <1>5 DEF Lifecycle!Next, Lifecycle!Pay
<1>6. CASE Kind(e) = "declined"
  <2>1. Lifecycle!Decline(o, e)
    BY <1>1, <1>2, <1>6 DEF Lifecycle!Decline
  <2> QED
    BY <1>1, <1>3, <1>6, <2>1 DEF Lifecycle!Next
<1> QED
  BY <1>1, <1>4, <1>5, <1>6

\* The commit of a batch of expired orders is one Expire of OrderLifecycle.
LEMMA CommitBatchRefines ==
    ASSUME OrderInv, NEW w \in Workers, CommitBatch(w)
    PROVE  Lifecycle!Next
<1>1. batch[w] \in SUBSET Orders /\ \A o \in batch[w] : orders[o] = "PENDING"
  BY DEF OrderInv, WorkerOK, TypeOK, CommitBatch
<1>2. Lifecycle!Expire(batch[w])
  BY <1>1 DEF Lifecycle!Expire, CommitBatch
<1> QED
  BY <1>1, <1>2 DEF Lifecycle!Next

\* The tables of order-service, seen from outside, change by the atomic steps
\* of OrderLifecycle only, whatever transactions, locks and retries interleave.
THEOREM Implementation == Spec => ImplementsLifecycle
<1>1. Init => Lifecycle!Init
  BY DEF Init, Lifecycle!Init
<1>2. OrderInv /\ [Next]_vars => [Lifecycle!Next]_(Lifecycle!vars)
  <2> SUFFICES ASSUME OrderInv, [Next]_vars
               PROVE  Lifecycle!Next \/ UNCHANGED <<orders, outbox>>
    BY DEF Lifecycle!vars
  <2>1. ASSUME NEW t \in Threads, Handle(t)
        PROVE  Lifecycle!Next \/ UNCHANGED <<orders, outbox>>
    BY <2>1, CommitRefines DEF Handle, GetOrder, CheckProcessed, InsertOrder,
       UpdateStatus, MarkProcessed, PublishStatus, tables
  <2>2. ASSUME NEW w \in Workers, Work(w)
        PROVE  Lifecycle!Next \/ UNCHANGED <<orders, outbox>>
    BY <2>2, CommitBatchRefines DEF Work, SelectExpired, tables
  <2> QED
    BY <2>1, <2>2 DEF Next, Deliver, Abort, GrowOld, AbortBatch, vars, tables
<1> QED
  BY <1>1, <1>2, OrderInvariant, PTL DEF Spec, ImplementsLifecycle, Lifecycle!Spec
=============================================================================
