--------------------------- MODULE InventoryProofs ---------------------------
(***************************************************************************)
(* Proofs about inventory-service.                                         *)
(*                                                                         *)
(* The stock stays non-negative whatever replicas, restarts and clients    *)
(* do (BasicInv), and it is what the reservations have left (AccountInv).  *)
(* That the job refunds a leak once and nothing that is announced, that a  *)
(* key gives one row, and that the service implements StockLedger, holds   *)
(* under the conditions Alone (SingleInv); that no leak is forgotten if    *)
(* the job keeps up with them (LeakInv), and that nothing is oversold if   *)
(* an order is refunded once and no restart resets the stock (OnceInv).    *)
(***************************************************************************)
EXTENDS Inventory, SumTheorems, TLAPS

-----------------------------------------------------------------------------
(* The inductive invariants.                                               *)

\* A call that has arrived has a request; its units are taken before its row is
\* inserted.
CallOK(c) ==
    /\ pc[c] # "idle" => req[c] \in Requests
    /\ c \in reserved => pc[c] \in {"outbox", "ok", "failed"}
    /\ pc[c] = "outbox" => c \in reserved /\ c \notin outbox
    /\ c \in outbox => c \in reserved

\* The key k was set, at some time, by call c.
Took(c, k) == c \in reserved /\ req[c].key = k

KeyOK(k) == idemp[k] # None => Took(idemp[k], k)

JobOK(r) ==
    /\ \A k \in Keys : leaked[r][k] # None => Took(leaked[r][k], k)
    /\ verdict[r] # None => ScanDone(r) /\ leaked[r][verdict[r]] # None

BasicInv ==
    /\ TypeOK
    /\ StockNonNegative
    /\ \A c \in Calls : CallOK(c)
    /\ \A k \in Keys : KeyOK(k)
    /\ \A r \in Replicas : JobOK(r)
    /\ \A e \in CancelEvents : cancel[e] # None => cancel[e] \in outbox

\* One replica runs, and no client uses a key again after it has expired.
Alone == ~ReuseAfterExpiry /\ \A r, s \in Replicas : r = s

\* The key has run out and nobody will set it again.
Gone(k) == idemp[k] = None /\ k \in expired

\* While a call is in flight the end of its key's TTL is out of reach; once it
\* holds the key, the key is no older than the call.
InTime(c) ==
    /\ pc[c] = "redis" =>
         /\ req[c].key \notin expired
         /\ idemp[req[c].key] # None =>
              age[req[c].key] + Deadline < TTL + callAge[c]
    /\ pc[c] = "outbox" =>
         idemp[req[c].key] = c /\ age[req[c].key] <= callAge[c]

\* Who has a row keeps the key from being set again.
RowOK(c) == c \in outbox => idemp[req[c].key] = c \/ Gone(req[c].key)

\* A refunded call is over and has no row; its key is free.
RefundOK(c) ==
    jobRefunds[c] > 0 => /\ c \in reserved /\ ~InFlight(c) /\ c \notin outbox
                         /\ idemp[req[c].key] # c

\* What the job has read is still true, or the key has gone since.
ScanOK(r) ==
    /\ LET k == probing[r].key
       IN  k # None => Gone(k) \/ (idemp[k] # None /\ age[k] > Grace)
    /\ \A k \in Keys :
         LET d == leaked[r][k]
         IN  d # None => /\ ~InFlight(d) /\ jobRefunds[d] = 0
                         /\ idemp[k] = d \/ Gone(k)
    /\ verdict[r] # None => ~IsOutboxExist(verdict[r])

SingleInv ==
    /\ \A c \in Calls : InTime(c) /\ RowOK(c) /\ RefundOK(c)
    /\ \A r \in Replicas : ScanOK(r)
    /\ OneRowPerKey

-----------------------------------------------------------------------------
(* BasicInv is inductive.                                                  *)

LEMMA BasicInit == Init => BasicInv
<1> SUFFICES ASSUME Init PROVE BasicInv
  OBVIOUS
<1>1. TypeOK
  BY InventoryAssumption DEF Init, TypeOK, NoScan
<1>2. StockNonNegative
  BY InventoryAssumption DEF Init, StockNonNegative
<1> QED
  BY <1>1, <1>2 DEF Init, BasicInv, CallOK, KeyOK, JobOK

LEMMA Qty == \A q \in Nat : NormalizedQty(q) \in Nat \ {0}
BY DEF NormalizedQty

\* Reservations are never forgotten, nor what they asked for.
Kept == reserved \subseteq reserved' /\ \A c \in reserved : req'[c] = req[c]

LEMMA KeyFrame ==
    ASSUME BasicInv, Kept, NEW k \in Keys, idemp'[k] \in {idemp[k], None}
    PROVE  KeyOK(k)'
BY DEF BasicInv, KeyOK, Took, Kept

LEMMA JobFrame ==
    ASSUME BasicInv, Kept, UNCHANGED <<probing, leaked, verdict>>,
           NEW r \in Replicas
    PROVE  JobOK(r)'
BY DEF BasicInv, JobOK, Took, Kept, ScanDone

LEMMA CancelFrame ==
    ASSUME BasicInv, UNCHANGED cancel, outbox \subseteq outbox'
    PROVE  \A e \in CancelEvents : cancel'[e] # None => cancel'[e] \in outbox'
BY DEF BasicInv

LEMMA BasicReceive ==
    ASSUME BasicInv, NEW c \in Calls, NEW r \in Replicas, NEW k \in Keys,
           NEW p \in Products, NEW q \in 0..MaxQty,
           ReceiveReserve(c, r, k, p, q)
    PROVE  BasicInv'
<1> DEFINE new == [key |-> k, product |-> p, qty |-> NormalizedQty(q), replica |-> r]
<1>1. new \in Requests
  BY Qty, InventoryAssumption DEF Requests
<1> HIDE DEF new
<1>2. /\ pc[c] = "idle"
      /\ req' = [req EXCEPT ![c] = new]
      /\ pc' = [pc EXCEPT ![c] = "redis"]
      /\ callAge' = [callAge EXCEPT ![c] = 0]
      /\ UNCHANGED <<redis, outbox, reserved, job, saga, history>>
  BY DEF ReceiveReserve, new
<1>3. c \notin reserved /\ Kept
  BY <1>2 DEF BasicInv, CallOK, Kept, TypeOK
<1>4. TypeOK'
  BY <1>1, <1>2, InventoryAssumption DEF BasicInv, TypeOK, redis, job, saga, history
<1>5. StockNonNegative'
  BY <1>2 DEF BasicInv, StockNonNegative, redis
<1>6. \A d \in Calls : CallOK(d)'
  BY <1>1, <1>2, <1>3 DEF BasicInv, CallOK, TypeOK
<1>7. \A l \in Keys : KeyOK(l)'
  BY <1>2, <1>3, KeyFrame DEF redis
<1>8. \A s \in Replicas : JobOK(s)'
  BY <1>2, <1>3, JobFrame DEF job
<1> QED
  BY <1>2, <1>4, <1>5, <1>6, <1>7, <1>8, CancelFrame DEF BasicInv, saga

LEMMA BasicReserve ==
    ASSUME BasicInv, NEW c \in Calls, ReserveStock(c)
    PROVE  BasicInv'
<1> DEFINE k == req[c].key
           p == req[c].product
           q == req[c].qty
<1>1. k \in Keys /\ p \in Products /\ q \in Nat \ {0}
  BY DEF ReserveStock, BasicInv, CallOK, Requests
<1>2. PICK next \in {"outbox", "failed"} : pc' = [pc EXCEPT ![c] = next]
  BY DEF ReserveStock
<1>3. /\ pc[c] = "redis" /\ stock[p] \in Int /\ stock[p] >= q
      /\ stock' = [stock EXCEPT ![p] = @ - q]
      /\ idemp' = [idemp EXCEPT ![k] = c]
      /\ age' = [age EXCEPT ![k] = 0]
      /\ reserved' = reserved \cup {c}
      /\ UNCHANGED <<expired, outbox, req, callAge, job, saga, history>>
  BY <1>1 DEF ReserveStock, RefusesReserve, BasicInv, TypeOK
<1>4. c \notin outbox
  BY <1>3 DEF BasicInv, CallOK
<1> HIDE DEF p, q
<1>5. TypeOK'
  <2>1. stock' \in [Products -> Int] /\ age' \in [Keys -> 0..TTL]
    BY <1>1, <1>3, InventoryAssumption DEF BasicInv, TypeOK
  <2>2. idemp' \in [Keys -> Calls \cup {None}] /\ reserved' \in SUBSET Calls
        /\ pc' \in [Calls -> {"idle", "redis", "outbox", "ok", "failed"}]
    BY <1>1, <1>2, <1>3 DEF BasicInv, TypeOK
  <2> QED
    BY <1>3, <2>1, <2>2 DEF BasicInv, TypeOK, job, saga, history
<1>6. StockNonNegative'
  BY <1>1, <1>3 DEF BasicInv, StockNonNegative, TypeOK
<1>7. \A d \in Calls : CallOK(d)'
  BY <1>2, <1>3, <1>4 DEF BasicInv, CallOK, TypeOK
<1>8. Kept
  BY <1>3 DEF Kept
<1>9. \A l \in Keys : KeyOK(l)'
  <2> SUFFICES ASSUME NEW l \in Keys PROVE KeyOK(l)'
    OBVIOUS
  <2>1. CASE l = k
    BY <1>3, <2>1 DEF KeyOK, Took, BasicInv, TypeOK
  <2>2. CASE l # k
    BY <1>3, <1>8, <2>2, KeyFrame DEF BasicInv, TypeOK
  <2> QED
    BY <2>1, <2>2
<1>10. \A s \in Replicas : JobOK(s)'
  BY <1>3, <1>8, JobFrame DEF job
<1> QED
  BY <1>3, <1>5, <1>6, <1>7, <1>9, <1>10, CancelFrame DEF BasicInv, saga

LEMMA BasicCall ==
    ASSUME BasicInv, NEW c \in Calls,
           ReserveRefused(c) \/ InsertOutbox(c) \/ InsertOutboxFails(c)
    PROVE  BasicInv'
<1>1. /\ pc[c] \in {"redis", "outbox"}
      /\ \E next \in {"ok", "failed"} : pc' = [pc EXCEPT ![c] = next]
      /\ outbox' = outbox \/ (pc[c] = "outbox" /\ outbox' = outbox \cup {c})
      /\ UNCHANGED <<redis, req, callAge, reserved, job, saga, history>>
  BY DEF ReserveRefused, InsertOutbox, InsertOutboxFails
<1>2. PICK next \in {"ok", "failed"} : pc' = [pc EXCEPT ![c] = next]
  BY <1>1
<1>3. TypeOK'
  BY <1>1, <1>2 DEF BasicInv, TypeOK, redis, job, saga, history
<1>4. StockNonNegative'
  BY <1>1 DEF BasicInv, StockNonNegative, redis
<1>5. \A d \in Calls : CallOK(d)'
  BY <1>1, <1>2 DEF BasicInv, CallOK, TypeOK
<1>6. Kept
  BY <1>1 DEF Kept
<1>7. \A k \in Keys : KeyOK(k)'
  BY <1>1, <1>6, KeyFrame DEF redis
<1>8. \A s \in Replicas : JobOK(s)'
  BY <1>1, <1>6, JobFrame DEF job
<1>9. outbox \subseteq outbox' /\ UNCHANGED cancel
  BY <1>1 DEF saga
<1> QED
  BY <1>3, <1>4, <1>5, <1>7, <1>8, <1>9, CancelFrame DEF BasicInv

\* What every refund does: units are added, keys may go.
LEMMA RefundBasic ==
    ASSUME BasicInv, NEW p \in Products, NEW id, NEW q \in Nat,
           RefundStock(p, id, q)
    PROVE  /\ stock' \in [Products -> Int] /\ StockNonNegative'
           /\ idemp' \in [Keys -> Calls \cup {None}] /\ age' \in [Keys -> 0..TTL]
           /\ expired' = expired
           /\ \A k \in Keys : idemp'[k] \in {idemp[k], None}
<1>1. /\ stock' = [stock EXCEPT ![p] = @ + q]
      /\ idemp' = [k \in Keys |-> IF k = id THEN None ELSE idemp[k]]
      /\ age' = [k \in Keys |-> IF k = id THEN 0 ELSE age[k]]
      /\ expired' = expired
  BY DEF RefundStock
<1>2. stock \in [Products -> Int] /\ idemp \in [Keys -> Calls \cup {None}]
      /\ age \in [Keys -> 0..TTL] /\ \A x \in Products : stock[x] >= 0
  BY DEF BasicInv, TypeOK, StockNonNegative
<1>3. stock' \in [Products -> Int] /\ StockNonNegative'
  BY <1>1, <1>2 DEF StockNonNegative
<1>4. age' \in [Keys -> 0..TTL]
  BY <1>1, <1>2, InventoryAssumption
<1> QED
  BY <1>1, <1>2, <1>3, <1>4

LEMMA BasicRelease ==
    ASSUME BasicInv, NEW p \in Products, NEW q \in 0..MaxQty, ReleaseStock(p, q)
    PROVE  BasicInv'
<1>1. NormalizedQty(q) \in Nat
  BY Qty, InventoryAssumption
<1>2. /\ RefundStock(p, p, NormalizedQty(q))
      /\ released' = [released EXCEPT ![p] = @ + NormalizedQty(q)]
      /\ UNCHANGED <<outbox, calls, job, saga, restarts>>
  BY DEF ReleaseStock
<1>3. /\ stock' \in [Products -> Int] /\ StockNonNegative'
      /\ idemp' \in [Keys -> Calls \cup {None}] /\ age' \in [Keys -> 0..TTL]
      /\ expired' = expired
      /\ \A k \in Keys : idemp'[k] \in {idemp[k], None}
  BY <1>1, <1>2, RefundBasic
<1>4. TypeOK'
  <2>1. released' \in [Products -> Nat]
    BY <1>1, <1>2 DEF BasicInv, TypeOK
  <2> QED
    BY <1>2, <1>3, <2>1 DEF BasicInv, TypeOK, calls, job, saga
<1>5. Kept /\ \A d \in Calls : CallOK(d)'
  BY <1>2 DEF BasicInv, CallOK, Kept, calls
<1>6. \A k \in Keys : KeyOK(k)'
  BY <1>3, <1>5, KeyFrame
<1>7. \A s \in Replicas : JobOK(s)'
  BY <1>2, <1>5, JobFrame DEF job
<1> QED
  BY <1>2, <1>3, <1>4, <1>5, <1>6, <1>7, CancelFrame DEF BasicInv, saga

LEMMA BasicCancelled ==
    ASSUME BasicInv, NEW e \in CancelEvents, NEW c \in Calls, OrderCancelled(e, c)
    PROVE  BasicInv'
<1>1. /\ c \in outbox
      /\ cancel' = [cancel EXCEPT ![e] = c]
      /\ UNCHANGED <<redis, outbox, calls, job, deliveries, refunds, history>>
  BY DEF OrderCancelled
<1>2. TypeOK'
  BY <1>1 DEF BasicInv, TypeOK, redis, calls, job, history
<1>3. StockNonNegative' /\ Kept /\ \A d \in Calls : CallOK(d)'
  BY <1>1 DEF BasicInv, StockNonNegative, CallOK, Kept, redis, calls
<1>4. \A k \in Keys : KeyOK(k)'
  BY <1>1, <1>3, KeyFrame DEF redis
<1>5. \A s \in Replicas : JobOK(s)'
  BY <1>1, <1>3, JobFrame DEF job
<1>6. \A f \in CancelEvents : cancel'[f] # None => cancel'[f] \in outbox'
  BY <1>1 DEF BasicInv, TypeOK
<1> QED
  BY <1>2, <1>3, <1>4, <1>5, <1>6 DEF BasicInv

LEMMA BasicHandle ==
    ASSUME BasicInv, NEW e \in CancelEvents, HandleOrderCancelled(e)
    PROVE  BasicInv'
<1> DEFINE c == cancel[e]
<1>1. c \in Calls /\ c \in outbox /\ req[c] \in Requests
  BY DEF HandleOrderCancelled, BasicInv, TypeOK, CallOK
<1>2. /\ RefundStock(req[c].product, e, req[c].qty)
      /\ deliveries[e] < MaxDeliveries
      /\ deliveries' = [deliveries EXCEPT ![e] = @ + 1]
      /\ refunds' = [refunds EXCEPT ![c] = @ + 1]
      /\ UNCHANGED <<outbox, calls, job, cancel, history>>
  BY DEF HandleOrderCancelled
<1> HIDE DEF c
<1>3. /\ stock' \in [Products -> Int] /\ StockNonNegative'
      /\ idemp' \in [Keys -> Calls \cup {None}] /\ age' \in [Keys -> 0..TTL]
      /\ expired' = expired
      /\ \A k \in Keys : idemp'[k] \in {idemp[k], None}
  <2>1. req[c].product \in Products /\ req[c].qty \in Nat
    BY <1>1 DEF Requests
  <2> QED
    BY <1>2, <2>1, RefundBasic
<1>4. TypeOK'
  <2>1. deliveries' \in [CancelEvents -> 0..MaxDeliveries]
        /\ refunds' \in [Calls -> Nat]
    BY <1>1, <1>2, InventoryAssumption DEF BasicInv, TypeOK
  <2> QED
    BY <1>2, <1>3, <2>1 DEF BasicInv, TypeOK, calls, job, history
<1>5. Kept /\ \A d \in Calls : CallOK(d)'
  BY <1>2 DEF BasicInv, CallOK, Kept, calls
<1>6. \A k \in Keys : KeyOK(k)'
  BY <1>3, <1>5, KeyFrame
<1>7. \A s \in Replicas : JobOK(s)'
  BY <1>2, <1>5, JobFrame DEF job
<1> QED
  BY <1>2, <1>3, <1>4, <1>5, <1>6, <1>7, CancelFrame DEF BasicInv

\* A step of the job that refunds nothing leaves the rest of the service alone.
LEMMA BasicScan ==
    ASSUME BasicInv,
           probing' \in [Replicas -> [todo : SUBSET Keys, key : Keys \cup {None}]],
           leaked' \in [Replicas -> [Keys -> Calls \cup {None}]],
           verdict' \in [Replicas -> Keys \cup {None}],
           cycled' \in SUBSET Replicas, jobErrors' \in Nat,
           UNCHANGED <<redis, outbox, calls, jobRefunds, saga, history>>,
           \A r \in Replicas : JobOK(r)'
    PROVE  BasicInv'
<1>1. TypeOK'
  BY DEF BasicInv, TypeOK, redis, calls, saga, history
<1>2. StockNonNegative' /\ Kept /\ \A d \in Calls : CallOK(d)'
  BY DEF BasicInv, StockNonNegative, CallOK, Kept, redis, calls
<1>3. \A k \in Keys : KeyOK(k)'
  BY <1>2, KeyFrame DEF redis
<1> QED
  BY <1>1, <1>2, <1>3, CancelFrame DEF BasicInv, saga

LEMMA BasicJob ==
    ASSUME BasicInv, NEW r \in Replicas,
           \/ StartScan(r) \/ ReadMeta(r) \/ JobError(r)
           \/ \E k \in Keys : ProbeTTL(r, k) \/ CheckOutbox(r, k)
    PROVE  BasicInv'
<1>1. /\ UNCHANGED <<redis, outbox, calls, jobRefunds, saga, history>>
  BY DEF StartScan, ReadMeta, JobError, ProbeTTL, CheckOutbox
<1>2. /\ probing \in [Replicas -> [todo : SUBSET Keys, key : Keys \cup {None}]]
      /\ leaked \in [Replicas -> [Keys -> Calls \cup {None}]]
      /\ verdict \in [Replicas -> Keys \cup {None}]
      /\ cycled \in SUBSET Replicas /\ jobErrors \in Nat
      /\ idemp \in [Keys -> Calls \cup {None}]
  BY DEF BasicInv, TypeOK
<1>3. UNCHANGED <<reserved, req>>
  BY <1>1 DEF calls
<1>4. CASE StartScan(r)
  <2>1. /\ Quiet(r) /\ cycled' \in SUBSET Replicas
        /\ probing' \in [Replicas -> [todo : SUBSET Keys, key : Keys \cup {None}]]
        /\ \A s \in Replicas \ {r} : probing'[s] = probing[s]
        /\ UNCHANGED <<leaked, verdict, jobErrors>>
    BY <1>2, <1>4 DEF StartScan
  <2>2. \A s \in Replicas : JobOK(s)'
    BY <1>3, <2>1 DEF BasicInv, JobOK, Took, ScanDone, Quiet
  <2> QED
    BY <1>1, <1>2, <2>1, <2>2, BasicScan
<1>5. CASE ReadMeta(r)
  <2> DEFINE k == probing[r].key
  <2>1. /\ k \in Keys
        /\ probing' = [probing EXCEPT ![r].key = None]
        /\ leaked' = [leaked EXCEPT ![r][k] = idemp[k]]
        /\ UNCHANGED <<verdict, cycled, jobErrors>>
    BY <1>2, <1>5 DEF ReadMeta
  <2>2. verdict[r] = None
    BY <2>1, InventoryAssumption DEF BasicInv, JobOK, ScanDone, NoScan
  <2>3. \A s \in Replicas : JobOK(s)'
    BY <1>2, <1>3, <2>1, <2>2 DEF BasicInv, JobOK, KeyOK, Took, ScanDone
  <2> QED
    BY <1>1, <1>2, <2>1, <2>3, BasicScan
<1>6. ASSUME NEW k \in Keys, ProbeTTL(r, k) PROVE BasicInv'
  <2>1. /\ k \in probing[r].todo
        /\ probing' \in [Replicas -> [todo : SUBSET Keys, key : Keys \cup {None}]]
        /\ \A s \in Replicas \ {r} : probing'[s] = probing[s]
        /\ UNCHANGED <<leaked, verdict, cycled, jobErrors>>
    BY <1>2, <1>6 DEF ProbeTTL
  <2>2. verdict[r] = None
    BY <2>1 DEF BasicInv, JobOK, ScanDone, NoScan
  <2>3. \A s \in Replicas : JobOK(s)'
    BY <1>3, <2>1, <2>2 DEF BasicInv, JobOK, Took, ScanDone
  <2> QED
    BY <1>1, <1>2, <2>1, <2>3, BasicScan
<1>7. ASSUME NEW k \in Keys, CheckOutbox(r, k) PROVE BasicInv'
  <2>1. /\ ScanDone(r) /\ verdict[r] = None /\ leaked[r][k] # None
        /\ \/ leaked' = [leaked EXCEPT ![r][k] = None] /\ UNCHANGED verdict
           \/ verdict' = [verdict EXCEPT ![r] = k] /\ UNCHANGED leaked
        /\ UNCHANGED <<probing, cycled, jobErrors>>
    BY <1>7 DEF CheckOutbox
  <2>2. CASE leaked' = [leaked EXCEPT ![r][k] = None] /\ UNCHANGED verdict
    <3>1. leaked' \in [Replicas -> [Keys -> Calls \cup {None}]]
      BY <1>2, <2>2
    <3>2. \A s \in Replicas : JobOK(s)'
      BY <1>2, <1>3, <2>1, <2>2 DEF BasicInv, JobOK, Took, ScanDone
    <3> QED
      BY <1>1, <1>2, <2>1, <2>2, <3>1, <3>2, BasicScan
  <2>3. CASE verdict' = [verdict EXCEPT ![r] = k] /\ UNCHANGED leaked
    <3>1. verdict' \in [Replicas -> Keys \cup {None}]
      BY <1>2, <2>3
    <3>2. \A s \in Replicas : JobOK(s)'
      BY <1>2, <1>3, <2>1, <2>3 DEF BasicInv, JobOK, Took, ScanDone
    <3> QED
      BY <1>1, <1>2, <2>1, <2>3, <3>1, <3>2, BasicScan
  <2> QED
    BY <2>1, <2>2, <2>3
<1>8. CASE JobError(r)
  <2>1. /\ jobErrors' \in Nat /\ UNCHANGED cycled
        /\ probing' \in [Replicas -> [todo : SUBSET Keys, key : Keys \cup {None}]]
        /\ leaked' \in [Replicas -> [Keys -> Calls \cup {None}]]
        /\ verdict' \in [Replicas -> Keys \cup {None}]
    <3>1. jobErrors' = jobErrors + 1 /\ UNCHANGED cycled
      BY <1>8 DEF JobError
    <3>2. probing' \in [Replicas -> [todo : SUBSET Keys, key : Keys \cup {None}]]
      BY <1>2, <1>8 DEF JobError, NoScan
    <3>3. leaked' \in [Replicas -> [Keys -> Calls \cup {None}]]
      BY <1>2, <1>8 DEF JobError
    <3>4. verdict' \in [Replicas -> Keys \cup {None}]
      BY <1>2, <1>8 DEF JobError
    <3> QED
      BY <1>2, <3>1, <3>2, <3>3, <3>4
  <2>2. \A s \in Replicas : JobOK(s)'
    <3> SUFFICES ASSUME NEW s \in Replicas PROVE JobOK(s)'
      OBVIOUS
    <3>1. CASE s # r
      <4>1. probing'[s] = probing[s] /\ leaked'[s] = leaked[s] /\ verdict'[s] = verdict[s]
        BY <1>2, <1>8, <3>1 DEF JobError
      <4> QED
        BY <1>3, <4>1 DEF BasicInv, JobOK, Took, ScanDone
    <3>2. CASE s = r
      <4>1. \A k \in Keys : leaked'[r][k] \in {leaked[r][k], None}
        BY <1>2, <1>8 DEF JobError
      <4>2. verdict'[r] = None
            \/ (verdict'[r] = verdict[r] /\ leaked'[r] = leaked[r] /\ probing[r] # NoScan)
            \/ (verdict'[r] = verdict[r] /\ verdict[r] = None)
        <5>1. probing[r] # NoScan => verdict[r] = None
          BY DEF BasicInv, JobOK, ScanDone
        <5>2. probing[r].key # None => probing[r] # NoScan
          BY DEF NoScan
        <5>3. \A k : k \in probing[r].todo => probing[r] # NoScan
          BY DEF NoScan
        <5> QED
          BY <1>2, <1>8, <5>1, <5>2, <5>3 DEF JobError
      <4>3. verdict'[r] = None
        BY <4>2 DEF BasicInv, JobOK, ScanDone
      <4> QED
        BY <1>3, <3>2, <4>1, <4>3 DEF BasicInv, JobOK, Took
    <3> QED
      BY <3>1, <3>2
  <2> QED
    BY <1>1, <1>2, <2>1, <2>2, BasicScan
<1> QED
  BY <1>4, <1>5, <1>6, <1>7, <1>8

\* What the job is about to refund.
LEMMA RefundLeakIs ==
    ASSUME BasicInv, NEW r \in Replicas, RefundLeak(r)
    PROVE  LET k == verdict[r]
               c == leaked[r][k]
           IN  /\ k \in Keys /\ c \in reserved /\ req[c].key = k
               /\ req[c] \in Requests /\ ScanDone(r)
               /\ RefundStock(req[c].product, k, req[c].qty)
               /\ jobRefunds' = [jobRefunds EXCEPT ![c] = @ + 1]
               /\ leaked' = [leaked EXCEPT ![r][k] = None]
               /\ verdict' = [verdict EXCEPT ![r] = None]
               /\ UNCHANGED <<outbox, calls, probing, cycled, jobErrors, saga,
                              history>>
<1> DEFINE k == verdict[r]
           c == leaked[r][k]
<1>1. k \in Keys /\ k # None
  BY DEF RefundLeak, BasicInv, TypeOK
<1>2. c # None /\ ScanDone(r) /\ c \in reserved /\ req[c].key = k
  BY <1>1 DEF BasicInv, JobOK, Took
<1>3. req[c] \in Requests
  BY <1>2 DEF BasicInv, CallOK, TypeOK
<1> QED
  BY <1>1, <1>2, <1>3 DEF RefundLeak

LEMMA BasicRefund ==
    ASSUME BasicInv, NEW r \in Replicas, RefundLeak(r)
    PROVE  BasicInv'
<1> DEFINE k == verdict[r]
           c == leaked[r][k]
<1>1. /\ k \in Keys /\ c \in reserved /\ req[c].key = k
      /\ req[c] \in Requests /\ ScanDone(r)
      /\ RefundStock(req[c].product, k, req[c].qty)
      /\ jobRefunds' = [jobRefunds EXCEPT ![c] = @ + 1]
      /\ leaked' = [leaked EXCEPT ![r][k] = None]
      /\ verdict' = [verdict EXCEPT ![r] = None]
      /\ UNCHANGED <<outbox, calls, probing, cycled, jobErrors, saga, history>>
  BY RefundLeakIs
<1>2. /\ leaked \in [Replicas -> [Keys -> Calls \cup {None}]]
      /\ verdict \in [Replicas -> Keys \cup {None}]
      /\ jobRefunds \in [Calls -> Nat] /\ reserved \in SUBSET Calls
  BY DEF BasicInv, TypeOK
<1> HIDE DEF c, k
<1>3. /\ stock' \in [Products -> Int] /\ StockNonNegative'
      /\ idemp' \in [Keys -> Calls \cup {None}] /\ age' \in [Keys -> 0..TTL]
      /\ expired' = expired
      /\ \A l \in Keys : idemp'[l] \in {idemp[l], None}
  <2>1. req[c].product \in Products /\ req[c].qty \in Nat
    BY <1>1 DEF Requests
  <2> QED
    BY <1>1, <2>1, RefundBasic
<1>4. TypeOK'
  <2>1. leaked' \in [Replicas -> [Keys -> Calls \cup {None}]]
    BY <1>1, <1>2
  <2>2. verdict' \in [Replicas -> Keys \cup {None}] /\ jobRefunds' \in [Calls -> Nat]
    BY <1>1, <1>2
  <2> QED
    BY <1>1, <1>3, <2>1, <2>2 DEF BasicInv, TypeOK, calls, saga, history
<1>5. Kept /\ \A d \in Calls : CallOK(d)'
  BY <1>1 DEF BasicInv, CallOK, Kept, calls
<1>6. \A l \in Keys : KeyOK(l)'
  BY <1>3, <1>5, KeyFrame
<1>7. \A s \in Replicas : JobOK(s)'
  <2>1. UNCHANGED <<reserved, req>>
    BY <1>1 DEF calls
  <2> QED
    BY <1>1, <1>2, <2>1 DEF BasicInv, JobOK, Took, ScanDone
<1> QED
  BY <1>1, <1>3, <1>4, <1>5, <1>6, <1>7, CancelFrame DEF BasicInv, saga

LEMMA BasicTick ==
    ASSUME BasicInv, Tick
    PROVE  BasicInv'
<1> DEFINE dies == {k \in Keys : idemp[k] # None /\ age[k] + 1 >= TTL}
<1>1. /\ cycled' = {}
      /\ \A c \in Calls : InFlight(c) => callAge[c] < Deadline
      /\ idemp' = [k \in Keys |-> IF k \in dies THEN None ELSE idemp[k]]
      /\ age' = [k \in Keys |-> IF idemp[k] = None \/ k \in dies THEN 0
                                ELSE age[k] + 1]
      /\ expired' = expired \cup dies
      /\ callAge' = [c \in Calls |-> IF InFlight(c) THEN callAge[c] + 1 ELSE 0]
      /\ UNCHANGED <<stock, outbox, req, pc, reserved, probing, leaked, verdict,
                     jobErrors, jobRefunds, saga, history>>
  BY DEF Tick
<1>2. idemp' \in [Keys -> Calls \cup {None}]
      /\ \A k \in Keys : idemp'[k] \in {idemp[k], None}
  BY <1>1 DEF BasicInv, TypeOK
<1>3. TypeOK'
  <2>1. age' \in [Keys -> 0..TTL] /\ expired' \in SUBSET Keys
    BY <1>1, InventoryAssumption DEF BasicInv, TypeOK
  <2>2. callAge' \in [Calls -> 0..Deadline]
    BY <1>1, InventoryAssumption DEF BasicInv, TypeOK
  <2> QED
    BY <1>1, <1>2, <2>1, <2>2 DEF BasicInv, TypeOK, saga, history
<1>4. StockNonNegative' /\ Kept /\ \A d \in Calls : CallOK(d)'
  BY <1>1 DEF BasicInv, StockNonNegative, CallOK, Kept
<1>5. \A k \in Keys : KeyOK(k)'
  BY <1>2, <1>4, KeyFrame
<1>6. \A s \in Replicas : JobOK(s)'
  BY <1>1, <1>4, JobFrame
<1> QED
  BY <1>1, <1>3, <1>4, <1>5, <1>6, CancelFrame DEF BasicInv, saga

LEMMA BasicRestart ==
    ASSUME BasicInv, NEW r \in Replicas, Restart(r)
    PROVE  BasicInv'
<1>1. /\ restarts' = restarts + 1
      /\ stock' = InitialStock
      /\ pc' = [c \in Calls |-> IF pc[c] \in {"redis", "outbox"}
                                   /\ req[c].replica = r
                                THEN "failed" ELSE pc[c]]
      /\ probing' = [probing EXCEPT ![r] = NoScan]
      /\ leaked' = [leaked EXCEPT ![r] = [k \in Keys |-> None]]
      /\ verdict' = [verdict EXCEPT ![r] = None]
      /\ cycled' = cycled \ {r}
      /\ UNCHANGED <<idemp, age, expired, outbox, req, callAge, reserved,
                     jobErrors, jobRefunds, saga, released>>
  BY DEF Restart
<1>2. TypeOK'
  <2>1. probing' \in [Replicas -> [todo : SUBSET Keys, key : Keys \cup {None}]]
    BY <1>1 DEF BasicInv, TypeOK, NoScan
  <2>2. leaked' \in [Replicas -> [Keys -> Calls \cup {None}]]
        /\ verdict' \in [Replicas -> Keys \cup {None}]
    BY <1>1 DEF BasicInv, TypeOK
  <2>3. pc' \in [Calls -> {"idle", "redis", "outbox", "ok", "failed"}]
        /\ stock' \in [Products -> Int] /\ restarts' \in Nat
    BY <1>1, InventoryAssumption DEF BasicInv, TypeOK
  <2> QED
    BY <1>1, <2>1, <2>2, <2>3 DEF BasicInv, TypeOK, saga
<1>3. StockNonNegative' /\ Kept
  BY <1>1, InventoryAssumption DEF StockNonNegative, Kept
<1>4. \A d \in Calls : CallOK(d)'
  BY <1>1 DEF BasicInv, CallOK, TypeOK
<1>5. \A k \in Keys : KeyOK(k)'
  BY <1>1, <1>3, KeyFrame
<1>6. \A s \in Replicas : JobOK(s)'
  BY <1>1, <1>3 DEF BasicInv, TypeOK, JobOK, Took, ScanDone
<1> QED
  BY <1>1, <1>2, <1>3, <1>4, <1>5, <1>6, CancelFrame DEF BasicInv, saga

LEMMA BasicNext == BasicInv /\ [Next]_vars => BasicInv'
<1> SUFFICES ASSUME BasicInv, [Next]_vars PROVE BasicInv'
  OBVIOUS
<1>1. CASE \E c \in Calls, r \in Replicas, k \in Keys, p \in Products,
              q \in 0..MaxQty : ReceiveReserve(c, r, k, p, q)
  BY <1>1, BasicReceive
<1>2. CASE \E c \in Calls : Handler(c)
  BY <1>2, BasicReserve, BasicCall DEF Handler
<1>3. CASE \E p \in Products, q \in 0..MaxQty : ReleaseStock(p, q)
  BY <1>3, BasicRelease
<1>4. CASE \E e \in CancelEvents, c \in Calls : OrderCancelled(e, c)
  BY <1>4, BasicCancelled
<1>5. CASE \E e \in CancelEvents : HandleOrderCancelled(e)
  BY <1>5, BasicHandle
<1>6. CASE \E r \in Replicas : JobProgress(r) \/ JobError(r)
  BY <1>6, BasicJob, BasicRefund DEF JobProgress
<1>7. CASE Tick \/ \E r \in Replicas : Restart(r)
  BY <1>7, BasicTick, BasicRestart
<1>8. CASE UNCHANGED vars
  <2>1. UNCHANGED <<redis, outbox, calls, job, saga, history>>
    BY <1>8 DEF vars
  <2>2. \A r \in Replicas : JobOK(r)'
    BY <2>1 DEF BasicInv, JobOK, Took, ScanDone, calls, job
  <2> QED
    BY <2>1, <2>2, BasicScan DEF BasicInv, TypeOK, job
<1> QED
  BY <1>1, <1>2, <1>3, <1>4, <1>5, <1>6, <1>7, <1>8 DEF Next

\* The invariant that holds for any number of replicas.
THEOREM BasicInvariant == Spec => []BasicInv
BY BasicInit, BasicNext, PTL DEF Spec

\* Type correctness, for any clients, keys, replicas and bounds.
THEOREM TypeCorrect == Spec => []TypeOK
<1>1. BasicInv => TypeOK
  BY DEF BasicInv
<1> QED
  BY <1>1, BasicInvariant, PTL

\* lua_script.go:33-44: check and decrement in one script keep the stock from
\* going below zero, under any interleaving of replicas, jobs and restarts.
THEOREM StockStaysNonNegative == Spec => []StockNonNegative
<1>1. BasicInv => StockNonNegative
  BY DEF BasicInv
<1> QED
  BY <1>1, BasicInvariant, PTL

-----------------------------------------------------------------------------
(* SingleInv is inductive, if a single replica runs.                       *)

LEMMA SingleInit == Init => SingleInv
BY DEF Init, SingleInv, InTime, RowOK, RefundOK, ScanOK, OneRowPerKey, NoScan

\* A step that changes no reservation, key or row, like those of the scan.
LEMMA CallsFrame ==
    ASSUME SingleInv,
           UNCHANGED <<idemp, age, expired, outbox, req, pc, callAge, reserved,
                       jobRefunds>>
    PROVE  /\ \A c \in Calls : InTime(c)' /\ RowOK(c)' /\ RefundOK(c)'
           /\ OneRowPerKey'
           /\ \A r \in Replicas :
                UNCHANGED <<probing[r], leaked[r], verdict[r]>> => ScanOK(r)'
<1>1. \A c \in Calls : InTime(c)' /\ RowOK(c)' /\ RefundOK(c)'
  BY DEF SingleInv, InTime, RowOK, RefundOK, Gone, InFlight
<1>2. OneRowPerKey'
  BY DEF SingleInv, OneRowPerKey
<1>3. ASSUME NEW r \in Replicas, UNCHANGED <<probing[r], leaked[r], verdict[r]>>
      PROVE  ScanOK(r)'
  BY <1>3 DEF SingleInv, ScanOK, Gone, InFlight, IsOutboxExist
<1> QED
  BY <1>1, <1>2, <1>3

LEMMA SingleReceive ==
    ASSUME BasicInv, SingleInv, Alone, NEW c \in Calls, NEW r \in Replicas,
           NEW k \in Keys, NEW p \in Products, NEW q \in 0..MaxQty,
           ReceiveReserve(c, r, k, p, q)
    PROVE  SingleInv'
<1>1. /\ pc[c] = "idle" /\ FreshKey(k)
      /\ req'[c].key = k /\ pc'[c] = "redis" /\ callAge'[c] = 0
      /\ \A d \in Calls \ {c} : /\ req'[d] = req[d] /\ pc'[d] = pc[d]
                                /\ callAge'[d] = callAge[d]
      /\ UNCHANGED <<redis, outbox, reserved, job, saga, history>>
  BY DEF ReceiveReserve, Alone, BasicInv, TypeOK
<1>2. UNCHANGED <<idemp, age, expired, outbox, reserved, probing, leaked, verdict,
                  jobRefunds>>
  BY <1>1 DEF redis, job
<1>3. c \notin reserved /\ c \notin outbox
  BY <1>1 DEF BasicInv, CallOK
<1>4. \A d \in Calls : InTime(d)'
  <2>1. InTime(c)'
    BY <1>1, <1>2, InventoryAssumption DEF InTime, FreshKey, BasicInv, TypeOK
  <2>2. \A d \in Calls \ {c} : InTime(d)'
    BY <1>1, <1>2 DEF SingleInv, InTime
  <2> QED
    BY <2>1, <2>2
<1>5. \A d \in Calls : RowOK(d)' /\ RefundOK(d)'
  BY <1>1, <1>2, <1>3 DEF SingleInv, RowOK, RefundOK, Gone, InFlight
<1>6. \A s \in Replicas : ScanOK(s)'
  <2> SUFFICES ASSUME NEW s \in Replicas PROVE ScanOK(s)'
    OBVIOUS
  <2>1. \A l \in Keys : leaked[s][l] # c /\ leaked[s][l] \in Calls \cup {None}
    BY <1>3, InventoryAssumption DEF BasicInv, JobOK, Took, TypeOK
  <2>2. \A l : IsOutboxExist(l)' => IsOutboxExist(l)
    BY <1>1, <1>2, <1>3 DEF IsOutboxExist, BasicInv, TypeOK
  <2> QED
    BY <1>1, <1>2, <2>1, <2>2 DEF SingleInv, ScanOK, Gone, InFlight
<1>7. OneRowPerKey'
  BY <1>1, <1>2, <1>3 DEF SingleInv, OneRowPerKey, BasicInv, TypeOK
<1> QED
  BY <1>4, <1>5, <1>6, <1>7 DEF SingleInv

LEMMA SingleReserve ==
    ASSUME BasicInv, SingleInv, NEW c \in Calls, ReserveStock(c)
    PROVE  SingleInv'
<1> DEFINE k == req[c].key
<1>1. /\ pc[c] = "redis" /\ k \in Keys /\ idemp[k] = None /\ k \notin expired
      /\ c \notin reserved /\ c \notin outbox /\ jobRefunds[c] = 0
  <2>1. pc[c] = "redis" /\ idemp[k] = None
    BY DEF ReserveStock, RefusesReserve
  <2>2. k \in Keys /\ c \notin reserved /\ c \notin outbox
    BY <2>1 DEF BasicInv, CallOK, Requests
  <2> QED
    BY <2>1, <2>2 DEF BasicInv, SingleInv, InTime, RefundOK, TypeOK
<1>2. /\ idemp'[k] = c /\ age'[k] = 0 /\ reserved' = reserved \cup {c}
      /\ \A l \in Keys \ {k} : idemp'[l] = idemp[l] /\ age'[l] = age[l]
      /\ pc'[c] \in {"outbox", "failed"}
      /\ \A d \in Calls \ {c} : pc'[d] = pc[d]
      /\ UNCHANGED <<expired, outbox, req, callAge, job, saga, history>>
  BY <1>1 DEF ReserveStock, BasicInv, TypeOK
<1>3. UNCHANGED <<probing, leaked, verdict, jobRefunds>>
  BY <1>2 DEF job
<1>4. \A d \in Calls : pc[d] \in {"redis", "outbox"} \/ d \in reserved => req[d].key \in Keys
  BY DEF BasicInv, CallOK, Requests, TypeOK
<1> HIDE DEF k
<1>5. \A d \in Calls : InTime(d)'
  <2> SUFFICES ASSUME NEW d \in Calls PROVE InTime(d)'
    OBVIOUS
  <2>1. callAge[d] \in 0..Deadline
    BY DEF BasicInv, TypeOK
  <2>2. CASE d = c
    BY <1>1, <1>2, <2>1, <2>2, InventoryAssumption DEF InTime, k
  <2>3. CASE d # c /\ req[d].key = k
    BY <1>1, <1>2, <2>1, <2>3, InventoryAssumption DEF SingleInv, InTime
  <2>4. CASE d # c /\ req[d].key # k
    BY <1>2, <1>4, <2>4 DEF SingleInv, InTime
  <2> QED
    BY <2>2, <2>3, <2>4
<1>6. \A d \in Calls : RowOK(d)'
  <2> SUFFICES ASSUME NEW d \in Calls, d \in outbox
               PROVE  RowOK(d)'
    BY <1>2 DEF RowOK
  <2>1. req[d].key \in Keys
    BY <1>4 DEF BasicInv, CallOK
  <2>2. req[d].key # k
    BY <1>1, InventoryAssumption DEF SingleInv, RowOK, Gone, BasicInv, TypeOK
  <2> QED
    BY <1>2, <2>1, <2>2 DEF SingleInv, RowOK, Gone
<1>7. \A d \in Calls : RefundOK(d)'
  BY <1>1, <1>2, <1>3, <1>4 DEF SingleInv, RefundOK, InFlight
<1>8. \A s \in Replicas : ScanOK(s)'
  <2> SUFFICES ASSUME NEW s \in Replicas PROVE ScanOK(s)'
    OBVIOUS
  <2>1. \A l \in Keys : leaked[s][l] # c
    BY <1>1, InventoryAssumption DEF BasicInv, JobOK, Took
  <2>2. probing[s].key # k
    BY <1>1, InventoryAssumption DEF SingleInv, ScanOK, Gone
  <2>3. leaked[s][k] = None
    BY <1>1, InventoryAssumption DEF SingleInv, ScanOK, Gone
  <2>4. \A l : IsOutboxExist(l)' <=> IsOutboxExist(l)
    BY <1>2 DEF IsOutboxExist
  <2>5. probing[s].key \in Keys \cup {None}
        /\ \A l \in Keys : leaked[s][l] \in Calls \cup {None}
    BY DEF BasicInv, TypeOK
  <2>6. \A l \in Keys \ {k} : idemp'[l] = idemp[l] /\ age'[l] = age[l] /\ (Gone(l) => Gone(l)')
    BY <1>2 DEF Gone
  <2>7. \A d \in Calls \ {c} : ~InFlight(d) => ~InFlight(d)'
    BY <1>2 DEF InFlight
  <2> QED
    BY <1>3, <2>1, <2>2, <2>3, <2>4, <2>5, <2>6, <2>7 DEF SingleInv, ScanOK
<1>9. OneRowPerKey'
  BY <1>2 DEF SingleInv, OneRowPerKey
<1> QED
  BY <1>5, <1>6, <1>7, <1>8, <1>9 DEF SingleInv

LEMMA SingleCall ==
    ASSUME BasicInv, SingleInv, NEW c \in Calls,
           ReserveRefused(c) \/ InsertOutbox(c) \/ InsertOutboxFails(c)
    PROVE  SingleInv'
<1>1. /\ pc[c] \in {"redis", "outbox"}
      /\ \E next \in {"ok", "failed"} : pc' = [pc EXCEPT ![c] = next]
      /\ outbox' = outbox \/ (pc[c] = "outbox" /\ outbox' = outbox \cup {c})
      /\ UNCHANGED <<redis, req, callAge, reserved, job, saga, history>>
  BY DEF ReserveRefused, InsertOutbox, InsertOutboxFails
<1>2. /\ UNCHANGED <<idemp, age, expired, probing, leaked, verdict, jobRefunds,
                     req, callAge, reserved>>
      /\ pc'[c] \in {"ok", "failed"} /\ \A d \in Calls \ {c} : pc'[d] = pc[d]
  BY <1>1 DEF redis, job, BasicInv, TypeOK
<1>3. pc[c] = "outbox" => idemp[req[c].key] = c
  BY DEF SingleInv, InTime
<1>4. \A d \in Calls : InTime(d)' /\ RowOK(d)'
  BY <1>1, <1>2, <1>3 DEF SingleInv, InTime, RowOK, Gone
<1>5. \A d \in Calls : RefundOK(d)'
  BY <1>1, <1>2 DEF SingleInv, RefundOK, InFlight
<1>6. \A s \in Replicas : ScanOK(s)'
  <2> SUFFICES ASSUME NEW s \in Replicas PROVE ScanOK(s)'
    OBVIOUS
  <2>1. \A l \in Keys : leaked[s][l] \in Calls \cup {None} /\ leaked[s][l] # c
    BY <1>1, InventoryAssumption DEF SingleInv, ScanOK, InFlight, BasicInv, TypeOK
  <2>2. verdict[s] # None => ~IsOutboxExist(verdict[s])'
    <3> SUFFICES ASSUME verdict[s] # None, IsOutboxExist(verdict[s])' PROVE FALSE
      BY <1>2
    <3>1. ~IsOutboxExist(verdict[s]) /\ verdict[s] \in Keys
      BY DEF SingleInv, ScanOK, BasicInv, TypeOK
    <3>2. req[c].key = verdict[s] /\ pc[c] = "outbox"
      BY <1>1, <1>2, <3>1 DEF IsOutboxExist
    <3>3. leaked[s][verdict[s]] # None
      BY DEF BasicInv, JobOK
    <3> QED
      BY <1>3, <2>1, <3>1, <3>2, <3>3, InventoryAssumption
         DEF SingleInv, ScanOK, Gone
  <2>3. \A d \in Calls \ {c} : ~InFlight(d) => ~InFlight(d)'
    BY <1>2 DEF InFlight
  <2>4. \A l : Gone(l)' <=> Gone(l)
    BY <1>2 DEF Gone
  <2> QED
    BY <1>2, <2>1, <2>2, <2>3, <2>4 DEF SingleInv, ScanOK
<1>7. OneRowPerKey'
  <2>1. \A d \in outbox : pc[c] = "outbox" /\ req[d].key = req[c].key => d = c
    BY <1>3, InventoryAssumption DEF SingleInv, RowOK, Gone, BasicInv, TypeOK
  <2> QED
    BY <1>1, <1>2, <2>1 DEF SingleInv, OneRowPerKey
<1> QED
  BY <1>4, <1>5, <1>6, <1>7 DEF SingleInv

\* A cancel event's id and a product are no client's key: their refunds delete
\* nothing.
LEMMA RefundKeepsKeys ==
    ASSUME BasicInv, NEW p, NEW id \in CancelEvents \cup Products, NEW q,
           RefundStock(p, id, q)
    PROVE  UNCHANGED <<idemp, age, expired>>
<1>1. id \notin Keys
  BY InventoryAssumption
<1>2. idemp \in [Keys -> Calls \cup {None}] /\ age \in [Keys -> 0..TTL]
  BY DEF BasicInv, TypeOK
<1>3. /\ idemp' = [k \in Keys |-> IF k = id THEN None ELSE idemp[k]]
      /\ age' = [k \in Keys |-> IF k = id THEN 0 ELSE age[k]]
      /\ expired' = expired
  BY DEF RefundStock
<1>4. idemp' = [k \in Keys |-> idemp[k]] /\ age' = [k \in Keys |-> age[k]]
  BY <1>1, <1>3
<1> QED
  BY <1>2, <1>3, <1>4

LEMMA OtherKeepsKeys ==
    ASSUME BasicInv,
           \/ \E p \in Products, q \in 0..MaxQty : ReleaseStock(p, q)
           \/ \E e \in CancelEvents, c \in Calls : OrderCancelled(e, c)
           \/ \E e \in CancelEvents : HandleOrderCancelled(e)
           \/ UNCHANGED vars
    PROVE  UNCHANGED <<idemp, age, expired, outbox, calls, job>>
<1>1. UNCHANGED <<outbox, calls, job>>
  BY DEF ReleaseStock, OrderCancelled, HandleOrderCancelled, vars
<1>2. UNCHANGED <<idemp, age, expired>>
  <2>1. ASSUME NEW p \in Products, NEW q, ReleaseStock(p, q)
        PROVE  UNCHANGED <<idemp, age, expired>>
    BY <2>1, RefundKeepsKeys DEF ReleaseStock
  <2>2. ASSUME NEW e \in CancelEvents, HandleOrderCancelled(e)
        PROVE  UNCHANGED <<idemp, age, expired>>
    BY <2>2, RefundKeepsKeys DEF HandleOrderCancelled
  <2>3. ASSUME NEW e, NEW c, OrderCancelled(e, c)
        PROVE  UNCHANGED <<idemp, age, expired>>
    BY <2>3 DEF OrderCancelled, redis
  <2> QED
    BY <2>1, <2>2, <2>3 DEF vars, redis
<1> QED
  BY <1>1, <1>2

LEMMA SingleOther ==
    ASSUME BasicInv, SingleInv,
           \/ \E p \in Products, q \in 0..MaxQty : ReleaseStock(p, q)
           \/ \E e \in CancelEvents, c \in Calls : OrderCancelled(e, c)
           \/ \E e \in CancelEvents : HandleOrderCancelled(e)
           \/ UNCHANGED vars
    PROVE  SingleInv'
<1>1. UNCHANGED <<idemp, age, expired, outbox, req, pc, callAge, reserved,
                  jobRefunds, probing, leaked, verdict>>
  BY OtherKeepsKeys DEF calls, job
<1> QED
  BY <1>1, CallsFrame DEF SingleInv

\* A step of the scan: what it reads is true when it is read.
LEMMA SingleScan ==
    ASSUME SingleInv, NEW r \in Replicas, ScanOK(r)',
           UNCHANGED <<redis, outbox, calls, jobRefunds>>,
           \A s \in Replicas \ {r} :
              UNCHANGED <<probing[s], leaked[s], verdict[s]>>
    PROVE  SingleInv'
<1>1. UNCHANGED <<idemp, age, expired, outbox, req, pc, callAge, reserved,
                  jobRefunds>>
  BY DEF redis, calls
<1>2. \A s \in Replicas : ScanOK(s)'
  BY <1>1, CallsFrame
<1> QED
  BY <1>1, <1>2, CallsFrame DEF SingleInv

LEMMA SingleJob ==
    ASSUME BasicInv, SingleInv, NEW r \in Replicas,
           \/ StartScan(r) \/ ReadMeta(r) \/ JobError(r)
           \/ \E k \in Keys : ProbeTTL(r, k) \/ CheckOutbox(r, k)
    PROVE  SingleInv'
<1>1. /\ UNCHANGED <<redis, outbox, calls, jobRefunds>>
  BY DEF StartScan, ReadMeta, JobError, ProbeTTL, CheckOutbox
<1>2. /\ probing \in [Replicas -> [todo : SUBSET Keys, key : Keys \cup {None}]]
      /\ leaked \in [Replicas -> [Keys -> Calls \cup {None}]]
      /\ verdict \in [Replicas -> Keys \cup {None}]
      /\ idemp \in [Keys -> Calls \cup {None}] /\ age \in [Keys -> 0..TTL]
  BY DEF BasicInv, TypeOK
<1>3. UNCHANGED <<idemp, age, expired, pc, req, jobRefunds>>
  BY <1>1 DEF redis, calls
<1>4. \A l : /\ Gone(l)' <=> Gone(l)
             /\ InFlight(l)' <=> InFlight(l)
             /\ IsOutboxExist(l)' <=> IsOutboxExist(l)
  BY <1>1, <1>3 DEF Gone, InFlight, IsOutboxExist
<1>5. \A s \in Replicas \ {r} : UNCHANGED <<probing[s], leaked[s], verdict[s]>>
  <2>1. ASSUME NEW s \in Replicas \ {r}
        PROVE  UNCHANGED probing[s]
    BY <1>2 DEF StartScan, ReadMeta, JobError, ProbeTTL, CheckOutbox
  <2>2. ASSUME NEW s \in Replicas \ {r}
        PROVE  UNCHANGED <<leaked[s], verdict[s]>>
    BY <1>2 DEF StartScan, ReadMeta, JobError, ProbeTTL, CheckOutbox
  <2> QED
    BY <2>1, <2>2
<1>6. CASE StartScan(r)
  <2>1. probing'[r].key = None /\ UNCHANGED <<leaked, verdict>>
    BY <1>2, <1>6 DEF StartScan
  <2>2. ScanOK(r)'
    BY <1>3, <1>4, <2>1 DEF SingleInv, ScanOK
  <2> QED
    BY <1>1, <1>5, <2>2, SingleScan
<1>7. CASE ReadMeta(r)
  <2> DEFINE k == probing[r].key
             d == idemp[k]
  <2>1. /\ k \in Keys /\ probing'[r].key = None /\ UNCHANGED verdict
        /\ leaked'[r][k] = d
        /\ \A l \in Keys \ {k} : leaked'[r][l] = leaked[r][l]
    BY <1>2, <1>7 DEF ReadMeta
  <2>2. d # None => d \in reserved /\ req[d].key = k /\ d \in Calls
    BY <1>2, <2>1 DEF BasicInv, KeyOK, Took
  <2>3. d # None => ~InFlight(d)
    <3>1. d # None => age[k] > Grace /\ age[k] \in 0..TTL
      BY <1>2, <2>1, InventoryAssumption DEF SingleInv, ScanOK, Gone
    <3>2. d # None => pc[d] # "redis" /\ callAge[d] \in 0..Deadline
      BY <2>2 DEF BasicInv, CallOK, TypeOK
    <3>3. d # None /\ pc[d] = "outbox" => age[k] <= callAge[d]
      BY <2>2 DEF SingleInv, InTime
    <3> QED
      BY <3>1, <3>2, <3>3, InventoryAssumption DEF InFlight
  <2>4. d # None => jobRefunds[d] = 0
    BY <2>2 DEF SingleInv, RefundOK, BasicInv, TypeOK
  <2>5. ScanOK(r)'
    BY <1>3, <1>4, <2>1, <2>3, <2>4 DEF SingleInv, ScanOK
  <2> QED
    BY <1>1, <1>5, <2>5, SingleScan
<1>8. ASSUME NEW k \in Keys, ProbeTTL(r, k) PROVE SingleInv'
  <2>1. /\ probing'[r].key = IF PastGrace(k) THEN k ELSE None
        /\ UNCHANGED <<leaked, verdict>>
    BY <1>2, <1>8 DEF ProbeTTL
  <2>2. PastGrace(k) => idemp[k] # None /\ age[k] > Grace
    BY <1>2, InventoryAssumption DEF PastGrace, RemainingTTL
  <2>3. ScanOK(r)'
    BY <1>3, <1>4, <2>1, <2>2 DEF SingleInv, ScanOK
  <2> QED
    BY <1>1, <1>5, <2>3, SingleScan
<1>9. ASSUME NEW k \in Keys, CheckOutbox(r, k) PROVE SingleInv'
  <2>1. /\ UNCHANGED probing
        /\ \/ leaked' = [leaked EXCEPT ![r][k] = None] /\ UNCHANGED verdict
           \/ /\ verdict' = [verdict EXCEPT ![r] = k] /\ UNCHANGED leaked
              /\ ~IsOutboxExist(k)
    BY <1>9 DEF CheckOutbox
  <2>2. /\ \A l \in Keys : leaked'[r][l] \in {leaked[r][l], None}
        /\ verdict'[r] = verdict[r] \/ ~IsOutboxExist(verdict'[r])
    BY <1>2, <2>1
  <2>3. ScanOK(r)'
    BY <1>3, <1>4, <2>1, <2>2 DEF SingleInv, ScanOK
  <2> QED
    BY <1>1, <1>5, <2>3, SingleScan
<1>10. CASE JobError(r)
  <2>1. probing'[r].key \in {probing[r].key, None}
    BY <1>2, <1>10 DEF JobError, NoScan
  <2>2. \A l \in Keys : leaked'[r][l] \in {leaked[r][l], None}
    BY <1>2, <1>10 DEF JobError
  <2>3. verdict'[r] \in {verdict[r], None}
    BY <1>2, <1>10 DEF JobError
  <2>4. ScanOK(r)'
    BY <1>3, <1>4, <2>1, <2>2, <2>3 DEF SingleInv, ScanOK
  <2> QED
    BY <1>1, <1>5, <2>4, SingleScan
<1> QED
  BY <1>6, <1>7, <1>8, <1>9, <1>10

LEMMA SingleRefund ==
    ASSUME BasicInv, SingleInv, Alone, NEW r \in Replicas, RefundLeak(r)
    PROVE  SingleInv'
<1> DEFINE k == verdict[r]
           c == leaked[r][k]
<1>1. /\ k \in Keys /\ c \in reserved /\ req[c].key = k /\ ScanDone(r)
      /\ RefundStock(req[c].product, k, req[c].qty)
      /\ jobRefunds' = [jobRefunds EXCEPT ![c] = @ + 1]
      /\ leaked' = [leaked EXCEPT ![r][k] = None]
      /\ verdict' = [verdict EXCEPT ![r] = None]
      /\ UNCHANGED <<outbox, calls, probing, cycled, jobErrors, saga, history>>
  BY RefundLeakIs
<1>2. /\ c \in Calls /\ c # None /\ ~InFlight(c) /\ ~IsOutboxExist(k)
      /\ idemp[k] = c \/ Gone(k)
  BY <1>1, InventoryAssumption DEF SingleInv, ScanOK, BasicInv, TypeOK
<1>3. /\ UNCHANGED <<req, pc, callAge, reserved, outbox, expired, probing>>
      /\ verdict'[r] = None /\ leaked'[r][k] = None
      /\ \A l \in Keys \ {k} : leaked'[r][l] = leaked[r][l]
      /\ idemp'[k] = None /\ age'[k] = 0
      /\ \A l \in Keys \ {k} : idemp'[l] = idemp[l] /\ age'[l] = age[l]
      /\ \A d \in Calls \ {c} : jobRefunds'[d] = jobRefunds[d]
  BY <1>1 DEF RefundStock, calls, BasicInv, TypeOK
<1>4. \A d \in Calls : pc[d] \in {"redis", "outbox"} \/ d \in reserved \/ d \in outbox
                          => req[d].key \in Keys
  BY DEF BasicInv, CallOK, Requests, TypeOK
<1> HIDE DEF k, c
<1>5. \A d \in Calls : InTime(d)'
  <2> SUFFICES ASSUME NEW d \in Calls PROVE InTime(d)'
    OBVIOUS
  <2>1. pc[d] = "outbox" => req[d].key # k
    BY <1>2, InventoryAssumption DEF SingleInv, InTime, Gone, InFlight
  <2> QED
    BY <1>3, <1>4, <2>1 DEF SingleInv, InTime
<1>6. \A d \in Calls : RowOK(d)'
  <2> SUFFICES ASSUME NEW d \in Calls, d \in outbox PROVE RowOK(d)'
    BY <1>3 DEF RowOK
  <2>1. req[d].key \in Keys \ {k}
    BY <1>2, <1>4 DEF IsOutboxExist
  <2> QED
    BY <1>3, <2>1 DEF SingleInv, RowOK, Gone
<1>7. \A d \in Calls : RefundOK(d)'
  <2> SUFFICES ASSUME NEW d \in Calls PROVE RefundOK(d)'
    OBVIOUS
  <2>1. CASE d = c
    BY <1>1, <1>2, <1>3, <2>1, InventoryAssumption
       DEF RefundOK, InFlight, IsOutboxExist
  <2>2. CASE d # c
    BY <1>3, <1>4, <2>2, InventoryAssumption DEF SingleInv, RefundOK, InFlight
  <2> QED
    BY <2>1, <2>2
<1>8. ScanOK(r)'
  <2>1. probing'[r].key = None
    BY <1>1, <1>3 DEF ScanDone, NoScan
  <2>2. \A l \in Keys \ {k} : leaked[r][l] # c
    BY <1>1, <1>2 DEF BasicInv, JobOK, Took
  <2>3. \A l \in Keys \ {k} : Gone(l)' <=> Gone(l)
    BY <1>3 DEF Gone
  <2>4. \A d : InFlight(d)' <=> InFlight(d)
    BY <1>3 DEF InFlight
  <2>5. \A l \in Keys : leaked[r][l] \in Calls \cup {None}
    BY DEF BasicInv, TypeOK
  <2> QED
    BY <1>3, <2>1, <2>2, <2>3, <2>4, <2>5 DEF SingleInv, ScanOK
<1>9. OneRowPerKey'
  BY <1>3 DEF SingleInv, OneRowPerKey
<1> QED
  BY <1>5, <1>6, <1>7, <1>8, <1>9 DEF SingleInv, Alone

LEMMA SingleTick ==
    ASSUME BasicInv, SingleInv, Tick
    PROVE  SingleInv'
<1> DEFINE dies == {k \in Keys : idemp[k] # None /\ age[k] + 1 >= TTL}
<1>1. /\ \A c \in Calls : InFlight(c) => callAge[c] < Deadline
      /\ idemp' = [k \in Keys |-> IF k \in dies THEN None ELSE idemp[k]]
      /\ age' = [k \in Keys |-> IF idemp[k] = None \/ k \in dies THEN 0
                                ELSE age[k] + 1]
      /\ expired' = expired \cup dies
      /\ callAge' = [c \in Calls |-> IF InFlight(c) THEN callAge[c] + 1 ELSE 0]
      /\ UNCHANGED <<stock, outbox, req, pc, reserved, probing, leaked, verdict,
                     jobErrors, jobRefunds, saga, history>>
  BY DEF Tick
<1>2. /\ \A k \in Keys : age[k] \in 0..TTL
      /\ \A c \in Calls : callAge[c] \in 0..Deadline
  BY DEF BasicInv, TypeOK
<1>3. \A k \in Keys : k \in dies => idemp[k] # None /\ age[k] + 1 >= TTL
  OBVIOUS
<1>4. \A c \in Calls : InFlight(c) \/ c \in reserved \/ c \in outbox
                          => req[c].key \in Keys
  BY DEF BasicInv, CallOK, Requests, TypeOK, InFlight
<1>5. \A c \in Calls : InFlight(c) => req[c].key \notin dies
  <2> SUFFICES ASSUME NEW c \in Calls, InFlight(c), req[c].key \in dies
               PROVE  FALSE
    OBVIOUS
  <2>1. /\ req[c].key \in Keys /\ idemp[req[c].key] # None
        /\ age[req[c].key] + 1 >= TTL /\ callAge[c] < Deadline
    BY <1>1, <1>3, <1>4
  <2> QED
    BY <1>2, <2>1, InventoryAssumption DEF SingleInv, InTime, InFlight
<1>6. \A k \in Keys : /\ k \notin dies => idemp'[k] = idemp[k]
                      /\ k \in dies => Gone(k)'
                      /\ Gone(k) => Gone(k)'
                      /\ idemp[k] # None /\ k \notin dies => age'[k] = age[k] + 1
                      /\ idemp'[k] # None => k \notin dies
  BY <1>1, InventoryAssumption DEF Gone
<1> HIDE DEF dies
<1>7. \A c \in Calls : InTime(c)'
  <2> SUFFICES ASSUME NEW c \in Calls, InFlight(c) PROVE InTime(c)'
    BY <1>1 DEF InTime, InFlight
  <2>1. req[c].key \in Keys /\ req[c].key \notin dies /\ callAge'[c] = callAge[c] + 1
    BY <1>1, <1>4, <1>5
  <2>2. c # None
    BY InventoryAssumption
  <2> QED
    BY <1>1, <1>2, <1>6, <2>1, <2>2, InventoryAssumption DEF SingleInv, InTime
<1>8. \A c \in Calls : RowOK(c)'
  BY <1>1, <1>4, <1>6 DEF SingleInv, RowOK
<1>9. \A c \in Calls : RefundOK(c)'
  <2>1. \A k \in Keys : idemp'[k] \in {idemp[k], None}
    BY <1>1
  <2> QED
    BY <1>1, <1>4, <2>1, InventoryAssumption DEF SingleInv, RefundOK, InFlight
<1>10. \A r \in Replicas : ScanOK(r)'
  <2>1. \A l : IsOutboxExist(l)' <=> IsOutboxExist(l)
    BY <1>1 DEF IsOutboxExist
  <2>2. \A l : InFlight(l)' <=> InFlight(l)
    BY <1>1 DEF InFlight
  <2>3. \A r \in Replicas : probing[r].key \in Keys \cup {None}
    BY DEF BasicInv, TypeOK
  <2>4. \A k \in Keys : age[k] > Grace => age[k] + 1 > Grace
    BY <1>2, InventoryAssumption
  <2> QED
    BY <1>1, <1>6, <2>1, <2>2, <2>3, <2>4 DEF SingleInv, ScanOK
<1>11. OneRowPerKey'
  BY <1>1 DEF SingleInv, OneRowPerKey
<1> QED
  BY <1>7, <1>8, <1>9, <1>10, <1>11 DEF SingleInv

LEMMA SingleRestart ==
    ASSUME BasicInv, SingleInv, Alone, NEW r \in Replicas, Restart(r)
    PROVE  SingleInv'
<1>1. /\ pc' = [c \in Calls |-> IF pc[c] \in {"redis", "outbox"}
                                   /\ req[c].replica = r
                                THEN "failed" ELSE pc[c]]
      /\ probing'[r] = NoScan /\ verdict'[r] = None
      /\ \A k \in Keys : leaked'[r][k] = None
      /\ UNCHANGED <<idemp, age, expired, outbox, req, callAge, reserved,
                     jobRefunds>>
  BY DEF Restart, BasicInv, TypeOK
<1>2. \A c \in Calls : ~InFlight(c)'
  BY <1>1 DEF InFlight, BasicInv, CallOK, Requests, Alone
<1>3. \A c \in Calls : InTime(c)' /\ RowOK(c)' /\ RefundOK(c)'
  BY <1>1, <1>2 DEF SingleInv, InTime, RowOK, RefundOK, InFlight, Gone
<1>4. ScanOK(r)'
  BY <1>1 DEF ScanOK, NoScan
<1>5. OneRowPerKey'
  BY <1>1 DEF SingleInv, OneRowPerKey
<1> QED
  BY <1>3, <1>4, <1>5 DEF SingleInv, Alone

LEMMA SingleNext == Alone /\ BasicInv /\ SingleInv /\ [Next]_vars => SingleInv'
<1> SUFFICES ASSUME Alone, BasicInv, SingleInv, [Next]_vars PROVE SingleInv'
  OBVIOUS
<1>1. CASE \E c \in Calls, r \in Replicas, k \in Keys, p \in Products,
              q \in 0..MaxQty : ReceiveReserve(c, r, k, p, q)
  BY <1>1, SingleReceive
<1>2. CASE \E c \in Calls : Handler(c)
  BY <1>2, SingleReserve, SingleCall DEF Handler
<1>3. CASE \E r \in Replicas : JobProgress(r) \/ JobError(r)
  BY <1>3, SingleJob, SingleRefund DEF JobProgress
<1>4. CASE Tick \/ \E r \in Replicas : Restart(r)
  BY <1>4, SingleTick, SingleRestart
<1> QED
  BY <1>1, <1>2, <1>3, <1>4, SingleOther DEF Next

\* The invariant of a single replica.
THEOREM SingleInvariant ==
    ASSUME Alone
    PROVE  Spec => []SingleInv
<1>1. BasicInv /\ SingleInv /\ [Next]_vars => SingleInv'
  BY SingleNext
<1> QED
  BY <1>1, SingleInit, BasicInvariant, PTL DEF Spec

\* reconciliation_job.go:21: with a grace period longer than any handler the
\* job of a single replica refunds nothing that is, or will be, announced.
THEOREM AnnouncedNeverRefunded ==
    ASSUME Alone
    PROVE  Spec => []EmittedNeverReconciled
<1>1. SingleInv => EmittedNeverReconciled
  BY DEF SingleInv, RefundOK, EmittedNeverReconciled
<1> QED
  BY <1>1, SingleInvariant, PTL

\* A key yields one row, although the job deletes keys and clients retry.
THEOREM KeysGiveOneRow ==
    ASSUME Alone
    PROVE  Spec => []OneRowPerKey
<1>1. SingleInv => OneRowPerKey
  BY DEF SingleInv
<1> QED
  BY <1>1, SingleInvariant, PTL

-----------------------------------------------------------------------------
(* No leak is forgotten, if the job keeps up.                              *)

\* The job completes a cycle in every tick, and between the grace period and the
\* end of the TTL there are more of them than its calls may fail.
JobKeepsUp == PromptJob /\ TTL > Grace + MaxJobErrors + 1

\* A leak that is not yet refunded.
Open(c) == c \in reserved \ outbox /\ pc[c] # "outbox" /\ jobRefunds[c] = 0

\* The cycle that replica r has begun still deals with the key of c.
InHand(r, c) ==
    LET k == req[c].key
    IN  k \in probing[r].todo \/ probing[r].key = k \/ leaked[r][k] = c

\* An open leak has its key, which grew older than the grace period by no more
\* ticks than the job failed, and one for the cycle that is not over.
LeakOK(c) ==
    Open(c) =>
      LET k == req[c].key
      IN  /\ idemp[k] = c
          /\ age[k] <= Grace + 1 + jobErrors
          /\ \A r \in cycled : age[k] <= Grace + jobErrors \/ InHand(r, c)

LeakInv == jobErrors <= MaxJobErrors /\ \A c \in Calls : LeakOK(c)

LEMMA LeakInit == Init => LeakInv
BY InventoryAssumption DEF Init, LeakInv, LeakOK, Open

\* What an open leak has of the invariants before the step.
LEMMA OpenIs ==
    ASSUME BasicInv, LeakInv, NEW c \in Calls, Open(c)
    PROVE  /\ c # None /\ c \in reserved /\ c \notin outbox
           /\ req[c].key \in Keys /\ req[c].replica \in Replicas
           /\ idemp[req[c].key] = c
           /\ age[req[c].key] \in 0..TTL /\ jobErrors \in Nat
           /\ age[req[c].key] <= Grace + 1 + jobErrors
           /\ \A r \in cycled : \/ age[req[c].key] <= Grace + jobErrors
                                \/ InHand(r, c)
<1>1. c \in reserved /\ req[c] \in Requests /\ c \notin outbox
  BY DEF Open, BasicInv, CallOK
<1>2. req[c].key \in Keys /\ req[c].replica \in Replicas
  BY <1>1 DEF Requests
<1>3. age[req[c].key] \in 0..TTL /\ jobErrors \in Nat
  BY <1>2 DEF BasicInv, TypeOK
<1> QED
  BY <1>1, <1>2, <1>3, InventoryAssumption DEF LeakInv, LeakOK

\* A step that leaves the key of an open leak and the cycle of the job alone.
LEMMA LeakFrame ==
    ASSUME BasicInv, LeakInv, NEW c \in Calls, Open(c)' => Open(c), Kept,
           Open(c) => UNCHANGED <<idemp[req[c].key], age[req[c].key]>>,
           UNCHANGED <<probing, leaked, cycled, jobErrors>>
    PROVE  LeakOK(c)'
<1> SUFFICES ASSUME Open(c) PROVE LeakOK(c)'
  BY DEF LeakOK
<1>1. req'[c] = req[c]
  BY OpenIs DEF Kept
<1> QED
  BY <1>1, OpenIs DEF LeakOK, InHand

\* A call that leaves its handler without a row does so within the grace period.
LEMMA LeakBegins ==
    ASSUME BasicInv, SingleInv, NEW c \in Calls, pc[c] = "outbox"
    PROVE  /\ idemp[req[c].key] = c
           /\ age[req[c].key] \in 0..TTL /\ age[req[c].key] <= Grace
<1>1. req[c].key \in Keys /\ callAge[c] \in 0..Deadline
  BY DEF BasicInv, CallOK, Requests, TypeOK
<1>2. age[req[c].key] \in 0..TTL
  BY <1>1 DEF BasicInv, TypeOK
<1> QED
  BY <1>1, <1>2, InventoryAssumption DEF SingleInv, InTime

LEMMA LeakReceive ==
    ASSUME BasicInv, LeakInv, NEW c \in Calls, NEW r \in Replicas,
           NEW k \in Keys, NEW p \in Products, NEW q \in 0..MaxQty,
           ReceiveReserve(c, r, k, p, q)
    PROVE  LeakInv'
<1>1. /\ pc[c] = "idle" /\ UNCHANGED <<idemp, age, outbox, reserved, probing,
                                     leaked, cycled, jobErrors, jobRefunds>>
      /\ \A d \in Calls \ {c} : pc'[d] = pc[d] /\ req'[d] = req[d]
  BY DEF ReceiveReserve, redis, job, BasicInv, TypeOK
<1>2. c \notin reserved /\ reserved \in SUBSET Calls
  BY <1>1 DEF BasicInv, CallOK, TypeOK
<1>3. Kept /\ \A d \in Calls : Open(d)' => Open(d)
  BY <1>1, <1>2 DEF Kept, Open
<1>4. \A d \in Calls : Open(d) => UNCHANGED <<idemp[req[d].key], age[req[d].key]>>
  BY <1>1, <1>2 DEF Open
<1> QED
  BY <1>1, <1>3, <1>4, LeakFrame DEF LeakInv

LEMMA LeakReserve ==
    ASSUME BasicInv, LeakInv, NEW c \in Calls, ReserveStock(c)
    PROVE  LeakInv'
<1> DEFINE k == req[c].key
<1>1. /\ pc[c] = "redis" /\ idemp[k] = None
      /\ k \in Keys
  BY DEF ReserveStock, RefusesReserve, BasicInv, CallOK, Requests
<1>2. /\ idemp'[k] = c /\ age'[k] = 0 /\ reserved' = reserved \cup {c}
      /\ \A l \in Keys \ {k} : idemp'[l] = idemp[l] /\ age'[l] = age[l]
      /\ \A d \in Calls \ {c} : pc'[d] = pc[d]
      /\ UNCHANGED <<outbox, req, probing, leaked, cycled, jobErrors, jobRefunds>>
  BY <1>1 DEF ReserveStock, BasicInv, TypeOK, job
<1> HIDE DEF k
<1>3. LeakOK(c)'
  BY <1>2, InventoryAssumption DEF LeakOK, BasicInv, TypeOK, k
<1>4. ASSUME NEW d \in Calls \ {c} PROVE LeakOK(d)'
  <2>1. Open(d)' => Open(d)
    BY <1>2 DEF Open
  <2>2. Kept
    BY <1>2 DEF Kept
  <2>3. Open(d) => req[d].key \in Keys \ {k}
    BY <1>1, OpenIs
  <2> QED
    BY <1>2, <2>1, <2>2, <2>3, LeakFrame
<1> QED
  BY <1>2, <1>3, <1>4 DEF LeakInv

LEMMA LeakCall ==
    ASSUME BasicInv, SingleInv, LeakInv, NEW c \in Calls,
           ReserveRefused(c) \/ InsertOutbox(c) \/ InsertOutboxFails(c)
    PROVE  LeakInv'
<1>1. /\ pc[c] \in {"redis", "outbox"}
      /\ \A d \in Calls \ {c} : pc'[d] = pc[d]
      /\ outbox \subseteq outbox'
      /\ UNCHANGED <<idemp, age, req, reserved, probing, leaked, cycled, jobErrors,
                     jobRefunds>>
  BY DEF ReserveRefused, InsertOutbox, InsertOutboxFails, redis, job, BasicInv, TypeOK
<1>2. LeakOK(c)'
  <2>1. pc[c] = "redis" => c \notin reserved
    BY DEF BasicInv, CallOK
  <2>2. jobErrors \in Nat
    BY DEF BasicInv, TypeOK
  <2> QED
    BY <1>1, <2>1, <2>2, LeakBegins, InventoryAssumption DEF LeakOK, Open
<1>3. ASSUME NEW d \in Calls \ {c} PROVE LeakOK(d)'
  <2>1. Kept /\ Open(d)' => Open(d)
    BY <1>1 DEF Kept, Open
  <2>2. Kept
    BY <1>1 DEF Kept
  <2> QED
    BY <1>1, <2>1, <2>2, LeakFrame
<1> QED
  BY <1>1, <1>2, <1>3 DEF LeakInv

LEMMA LeakOther ==
    ASSUME BasicInv, LeakInv,
           \/ \E p \in Products, q \in 0..MaxQty : ReleaseStock(p, q)
           \/ \E e \in CancelEvents, c \in Calls : OrderCancelled(e, c)
           \/ \E e \in CancelEvents : HandleOrderCancelled(e)
           \/ UNCHANGED vars
    PROVE  LeakInv'
<1>1. UNCHANGED <<idemp, age, outbox, req, pc, reserved, probing, leaked, cycled,
                  jobErrors, jobRefunds>>
  BY OtherKeepsKeys DEF calls, job
<1>2. Kept /\ \A c \in Calls : Open(c)' => Open(c)
  BY <1>1 DEF Kept, Open
<1> QED
  BY <1>1, <1>2, LeakFrame DEF LeakInv

\* A step of the job that refunds nothing: whatever it drops is not an open leak
\* past the grace period, unless a call failed.
LEMMA LeakScan ==
    ASSUME BasicInv, SingleInv, LeakInv, NEW r \in Replicas,
           \/ StartScan(r) \/ ReadMeta(r) \/ JobError(r)
           \/ \E k \in Keys : ProbeTTL(r, k) \/ CheckOutbox(r, k),
           TTL > Grace + MaxJobErrors + 1
    PROVE  LeakInv'
<1>1. UNCHANGED <<redis, outbox, calls, jobRefunds>>
  BY DEF StartScan, ReadMeta, JobError, ProbeTTL, CheckOutbox
<1>2. /\ probing \in [Replicas -> [todo : SUBSET Keys, key : Keys \cup {None}]]
      /\ leaked \in [Replicas -> [Keys -> Calls \cup {None}]]
      /\ cycled \in SUBSET Replicas /\ jobErrors \in Nat
  BY DEF BasicInv, TypeOK
<1>3. UNCHANGED <<idemp, age, outbox, req, pc, reserved, jobRefunds>>
  BY <1>1 DEF redis, calls
<1>4. \A s \in Replicas \ {r} : UNCHANGED <<probing[s], leaked[s]>>
  <2>1. \A s \in Replicas \ {r} : UNCHANGED probing[s]
    BY <1>2 DEF StartScan, ReadMeta, JobError, ProbeTTL, CheckOutbox
  <2>2. \A s \in Replicas \ {r} : UNCHANGED leaked[s]
    BY <1>2 DEF StartScan, ReadMeta, JobError, ProbeTTL, CheckOutbox
  <2> QED
    BY <2>1, <2>2
<1>5. CASE JobError(r)
  <2>1. jobErrors' = jobErrors + 1 /\ jobErrors < MaxJobErrors /\ UNCHANGED cycled
    BY <1>5 DEF JobError
  <2>2. ASSUME NEW c \in Calls, Open(c)' PROVE LeakOK(c)'
    <3>1. Open(c)
      BY <1>3, <2>2 DEF Open
    <3> QED
      BY <1>2, <1>3, <2>1, <3>1, OpenIs, InventoryAssumption DEF LeakOK
  <2> QED
    BY <1>2, <2>1, <2>2, InventoryAssumption DEF LeakInv, LeakOK
<1>6. ASSUME ~JobError(r), NEW c \in Calls, Open(c)
      PROVE  /\ UNCHANGED jobErrors /\ cycled' \subseteq cycled \cup {r}
             /\ r \in cycled' => \/ age[req[c].key] <= Grace + jobErrors
                                 \/ InHand(r, c)'
  <2> DEFINE k == req[c].key
  <2>0. /\ c # None /\ c \notin outbox /\ k \in Keys /\ idemp[k] = c
        /\ age[k] \in 0..TTL /\ age[k] <= Grace + 1 + jobErrors
        /\ r \in cycled => age[k] <= Grace + jobErrors \/ InHand(r, c)
        /\ req'[c] = req[c] /\ k # None
    BY <1>3, <1>6, OpenIs, InventoryAssumption
  <2> HIDE DEF k
  <2>1. CASE StartScan(r)
    <3>1. k \in probing'[r].todo
      BY <1>2, <2>0, <2>1 DEF StartScan
    <3> QED
      BY <1>2, <2>0, <2>1, <3>1 DEF StartScan, InHand, k
  <2>2. ASSUME NEW l \in Keys, ProbeTTL(r, l)
        PROVE  /\ UNCHANGED <<jobErrors, cycled>>
               /\ InHand(r, c) => InHand(r, c)' \/ age[k] <= Grace
    <3>1. /\ probing[r].key = None /\ UNCHANGED <<leaked, jobErrors, cycled>>
          /\ probing'[r].todo = probing[r].todo \ {l}
          /\ probing'[r].key = IF PastGrace(l) THEN l ELSE None
      BY <1>2, <2>2 DEF ProbeTTL
    <3>2. age[k] < TTL
      BY <1>2, <2>0, InventoryAssumption DEF LeakInv
    <3>3. ~PastGrace(k) => age[k] <= Grace
      BY <2>0, <3>2, InventoryAssumption DEF PastGrace, RemainingTTL
    <3> QED
      BY <2>0, <3>1, <3>3 DEF InHand, k
  <2>3. CASE ReadMeta(r)
    <3>1. /\ UNCHANGED <<jobErrors, cycled>>
          /\ probing'[r].todo = probing[r].todo
          /\ leaked'[r][probing[r].key] = idemp[probing[r].key]
          /\ \A l \in Keys : l # probing[r].key => leaked'[r][l] = leaked[r][l]
      BY <1>2, <2>3 DEF ReadMeta
    <3>2. InHand(r, c) => InHand(r, c)'
      BY <2>0, <3>1 DEF InHand, k
    <3> QED
      BY <2>0, <3>1, <3>2 DEF k
  <2>4. ASSUME NEW l \in Keys, CheckOutbox(r, l)
        PROVE  /\ UNCHANGED <<jobErrors, cycled>>
               /\ InHand(r, c) => InHand(r, c)'
    <3>1. ~IsOutboxExist(k)
      BY <2>0 DEF SingleInv, RowOK, Gone, IsOutboxExist, BasicInv, TypeOK
    <3>2. /\ UNCHANGED <<jobErrors, cycled, probing>>
          /\ leaked'[r][k] = leaked[r][k]
      BY <1>2, <2>0, <2>4, <3>1 DEF CheckOutbox
    <3> QED
      BY <2>0, <3>2 DEF InHand, k
  <2>5. \/ StartScan(r) \/ ReadMeta(r)
        \/ \E l \in Keys : ProbeTTL(r, l) \/ CheckOutbox(r, l)
    BY <1>6
  <2>6. age[k] <= Grace => age[k] <= Grace + jobErrors
    BY <1>2, <2>0, InventoryAssumption
  <2> QED
    BY <2>0, <2>1, <2>2, <2>3, <2>4, <2>5, <2>6 DEF k
<1>7. CASE ~JobError(r)
  <2>1. UNCHANGED jobErrors
    BY <1>7 DEF StartScan, ReadMeta, ProbeTTL, CheckOutbox
  <2>2. ASSUME NEW c \in Calls, Open(c)' PROVE LeakOK(c)'
    <3>1. Open(c) /\ req'[c] = req[c]
      BY <1>3, <2>2 DEF Open
    <3>2. \A s \in cycled' : age[req[c].key] <= Grace + jobErrors \/ InHand(s, c)'
      <4> SUFFICES ASSUME NEW s \in cycled', s # r
                   PROVE  age[req[c].key] <= Grace + jobErrors \/ InHand(s, c)'
        BY <1>6, <1>7, <3>1
      <4>1. s \in cycled /\ s \in Replicas
        BY <1>2, <1>6, <1>7, <3>1
      <4>2. InHand(s, c) => InHand(s, c)'
        BY <1>4, <3>1, <4>1 DEF InHand
      <4> QED
        BY <3>1, <4>1, <4>2, OpenIs
    <3> QED
      BY <1>3, <2>1, <3>1, <3>2, OpenIs DEF LeakOK
  <2> QED
    BY <2>1, <2>2 DEF LeakInv, LeakOK
<1> QED
  BY <1>5, <1>7

LEMMA LeakRefund ==
    ASSUME BasicInv, SingleInv, LeakInv, NEW r \in Replicas, RefundLeak(r)
    PROVE  LeakInv'
<1> DEFINE k == verdict[r]
           c == leaked[r][k]
<1>1. /\ k \in Keys /\ c \in reserved /\ c \in Calls /\ c # None
      /\ RefundStock(req[c].product, k, req[c].qty)
      /\ jobRefunds' = [jobRefunds EXCEPT ![c] = @ + 1]
      /\ leaked' = [leaked EXCEPT ![r][k] = None]
      /\ UNCHANGED <<outbox, calls, probing, cycled, jobErrors, saga, history>>
  BY RefundLeakIs, InventoryAssumption DEF BasicInv, TypeOK
<1>2. idemp[k] = c \/ idemp[k] = None
  BY <1>1 DEF SingleInv, ScanOK, Gone
<1>3. /\ UNCHANGED <<outbox, req, pc, reserved, probing, cycled, jobErrors>>
      /\ \A l \in Keys \ {k} : idemp'[l] = idemp[l] /\ age'[l] = age[l]
      /\ \A s \in Replicas : \A l \in Keys \ {k} : leaked'[s][l] = leaked[s][l]
      /\ jobRefunds'[c] # 0
      /\ \A d \in Calls \ {c} : jobRefunds'[d] = jobRefunds[d]
  BY <1>1 DEF RefundStock, calls, BasicInv, TypeOK
<1>4. cycled \in SUBSET Replicas
  BY DEF BasicInv, TypeOK
<1> HIDE DEF k, c
<1>5. ASSUME NEW d \in Calls, Open(d)' PROVE LeakOK(d)'
  <2>1. d # c /\ Open(d)
    BY <1>3, <1>5 DEF Open
  <2>2. req[d].key \in Keys \ {k} /\ req'[d] = req[d]
    BY <1>2, <1>3, <2>1, OpenIs
  <2>3. \A s \in cycled : InHand(s, d) => InHand(s, d)'
    BY <1>3, <1>4, <2>2 DEF InHand
  <2> QED
    BY <1>3, <2>1, <2>2, <2>3, OpenIs DEF LeakOK
<1> QED
  BY <1>3, <1>5 DEF LeakInv, LeakOK

\* Before time goes on the cycle of every replica is over: what it did not refund
\* is young enough to be there for another one.
LEMMA LeakTick ==
    ASSUME BasicInv, LeakInv, JobKeepsUp, Tick
    PROVE  LeakInv'
<1>1. /\ cycled = Replicas /\ \A r \in Replicas : Quiet(r)
      /\ cycled' = {}
      /\ \A k \in Keys : idemp[k] # None /\ age[k] + 1 < TTL
            => idemp'[k] = idemp[k] /\ age'[k] = age[k] + 1
      /\ UNCHANGED <<outbox, req, pc, reserved, jobErrors, jobRefunds>>
  <2>1. \A k \in Keys : age[k] \in 0..TTL
    BY DEF BasicInv, TypeOK
  <2> QED
    BY <2>1, InventoryAssumption DEF Tick, JobKeepsUp
<1>2. ASSUME NEW c \in Calls, Open(c)' PROVE LeakOK(c)'
  <2> DEFINE k == req[c].key
             r == req[c].replica
  <2>1. Open(c) /\ req'[c] = req[c]
    BY <1>1, <1>2 DEF Open
  <2>2. /\ k \in Keys /\ r \in Replicas /\ c # None /\ k # None
        /\ idemp[k] = c /\ age[k] \in 0..TTL /\ jobErrors \in Nat
        /\ age[k] <= Grace + jobErrors \/ InHand(r, c)
    BY <1>1, <2>1, OpenIs, InventoryAssumption
  <2>3. ~InHand(r, c)
    BY <1>1, <2>2 DEF InHand, Quiet, NoScan
  <2> HIDE DEF k, r
  <2>4. age[k] <= Grace + jobErrors /\ age[k] + 1 < TTL
    BY <2>2, <2>3, InventoryAssumption DEF LeakInv, JobKeepsUp
  <2>5. idemp'[k] = c /\ age'[k] <= Grace + 1 + jobErrors
    BY <1>1, <2>2, <2>4, InventoryAssumption
  <2> QED
    BY <1>1, <2>1, <2>5 DEF LeakOK, k
<1> QED
  BY <1>1, <1>2 DEF LeakInv, LeakOK

LEMMA LeakRestart ==
    ASSUME BasicInv, SingleInv, LeakInv, NEW r \in Replicas, Restart(r)
    PROVE  LeakInv'
<1>1. /\ \A c \in Calls : pc'[c] = pc[c] \/ pc[c] \in {"redis", "outbox"}
      /\ \A s \in Replicas \ {r} : UNCHANGED <<probing[s], leaked[s]>>
      /\ cycled' = cycled \ {r}
      /\ UNCHANGED <<idemp, age, outbox, req, reserved, jobErrors, jobRefunds>>
  BY DEF Restart, BasicInv, TypeOK
<1>2. cycled \in SUBSET Replicas /\ jobErrors \in Nat
  BY DEF BasicInv, TypeOK
<1>3. ASSUME NEW c \in Calls, Open(c)' PROVE LeakOK(c)'
  <2>1. CASE Open(c)
    <3>1. \A s \in cycled' : InHand(s, c) => InHand(s, c)'
      BY <1>1, <1>2 DEF InHand
    <3> QED
      BY <1>1, <2>1, <3>1, OpenIs DEF LeakOK
  <2>2. CASE ~Open(c)
    <3>1. pc[c] = "outbox"
      BY <1>1, <1>3, <2>2 DEF Open, BasicInv, CallOK
    <3> QED
      BY <1>1, <1>2, <3>1, LeakBegins, InventoryAssumption DEF LeakOK
  <2> QED
    BY <2>1, <2>2
<1> QED
  BY <1>1, <1>3 DEF LeakInv, LeakOK

LEMMA LeakNext ==
    JobKeepsUp /\ BasicInv /\ SingleInv /\ LeakInv /\ [Next]_vars => LeakInv'
<1> SUFFICES ASSUME JobKeepsUp, BasicInv, SingleInv, LeakInv, [Next]_vars
             PROVE  LeakInv'
  OBVIOUS
<1>1. CASE \E c \in Calls, r \in Replicas, k \in Keys, p \in Products,
              q \in 0..MaxQty : ReceiveReserve(c, r, k, p, q)
  BY <1>1, LeakReceive
<1>2. CASE \E c \in Calls : Handler(c)
  BY <1>2, LeakReserve, LeakCall DEF Handler
<1>3. CASE \E r \in Replicas : JobProgress(r) \/ JobError(r)
  BY <1>3, LeakScan, LeakRefund DEF JobProgress, JobKeepsUp
<1>4. CASE Tick \/ \E r \in Replicas : Restart(r)
  BY <1>4, LeakTick, LeakRestart
<1> QED
  BY <1>1, <1>2, <1>3, <1>4, LeakOther DEF Next

\* reserve_stock.go:62, lua_script.go:130: the metadata a refund needs dies with
\* the key, and still every leak is refunded before, by a single replica whose
\* job keeps up, however often it is restarted.
THEOREM LeaksAreRefunded ==
    ASSUME Alone, JobKeepsUp
    PROVE  Spec => []NoLeakForgotten
<1>1. BasicInv /\ SingleInv /\ LeakInv /\ [Next]_vars => LeakInv'
  BY LeakNext
<1>2. BasicInv /\ LeakInv => NoLeakForgotten
  BY DEF LeakInv, LeakOK, Open, NoLeakForgotten, BasicInv, TypeOK
<1> QED
  BY <1>1, <1>2, LeakInit, BasicInvariant, SingleInvariant, PTL DEF Spec

-----------------------------------------------------------------------------
(* The books balance.                                                      *)

\* What the reservations of p hold.
Books(p) == [c \in TakenFrom(p) |-> Outstanding(c)]
Held(p)  == SumFunctionOnSet(Books(p), TakenFrom(p))

Balance(p) == stock[p] + Held(p) = InitialStock[p] + released[p]

\* Reservations are finitely many; nothing was given back for other calls.
AccountInv ==
    /\ IsFiniteSet(reserved)
    /\ \A c \in Calls \ reserved : refunds[c] = 0 /\ jobRefunds[c] = 0
    /\ restarts = 0 => \A p \in Products : Balance(p)

LEMMA BooksAre ==
    ASSUME BasicInv, AccountInv, NEW p \in Products
    PROVE  /\ IsFiniteSet(TakenFrom(p)) /\ TakenFrom(p) \in SUBSET Calls
           /\ \A c \in TakenFrom(p) :
                /\ req[c] \in Requests /\ req[c].qty \in Nat
                /\ refunds[c] \in Nat /\ jobRefunds[c] \in Nat
                /\ Books(p)[c] = Outstanding(c) /\ Outstanding(c) \in Int
           /\ Held(p) \in Int
<1>1. IsFiniteSet(TakenFrom(p)) /\ TakenFrom(p) \in SUBSET Calls
  BY FS_Subset DEF AccountInv, TakenFrom, BasicInv, TypeOK
<1>2. ASSUME NEW c \in TakenFrom(p)
      PROVE  /\ req[c] \in Requests /\ req[c].qty \in Nat
             /\ refunds[c] \in Nat /\ jobRefunds[c] \in Nat
             /\ Books(p)[c] = Outstanding(c) /\ Outstanding(c) \in Int
  <2>1. req[c] \in Requests /\ refunds[c] \in Nat /\ jobRefunds[c] \in Nat
    BY DEF TakenFrom, BasicInv, TypeOK, CallOK
  <2>2. req[c].qty \in Nat
    BY <2>1 DEF Requests
  <2>3. Outstanding(c) \in Int
    BY <2>1, <2>2 DEF Outstanding
  <2> QED
    BY <2>1, <2>2, <2>3 DEF Books
<1>3. Held(p) \in Int
  BY <1>1, <1>2, SumType DEF Held
<1> QED
  BY <1>1, <1>2, <1>3

LEMMA AccountInit == Init => AccountInv
<1> SUFFICES ASSUME Init PROVE AccountInv
  OBVIOUS
<1>1. \A p \in Products : Held(p) = 0
  BY SumEmpty DEF Init, Held, TakenFrom
<1> QED
  BY <1>1, FS_EmptySet, InventoryAssumption DEF Init, AccountInv, Balance

\* A step that neither takes nor refunds.
LEMMA AccountFrame ==
    ASSUME BasicInv, AccountInv, Kept,
           UNCHANGED <<stock, reserved, refunds, jobRefunds, released, restarts>>
    PROVE  AccountInv'
<1>1. ASSUME NEW p \in Products PROVE Held(p)' = Held(p)
  <2>1. TakenFrom(p)' = TakenFrom(p)
    BY DEF Kept, TakenFrom
  <2>2. \A c \in TakenFrom(p) : Outstanding(c)' = Outstanding(c)
    BY DEF Kept, TakenFrom, Outstanding
  <2>3. Books(p)' = Books(p)
    BY <2>1, <2>2 DEF Books
  <2> QED
    BY <2>1, <2>3 DEF Held
<1> QED
  BY <1>1 DEF AccountInv, Balance

LEMMA AccountReserve ==
    ASSUME BasicInv, AccountInv, NEW c \in Calls, ReserveStock(c)
    PROVE  AccountInv'
<1> DEFINE x == req[c].product
           q == req[c].qty
<1>1. /\ c \notin reserved /\ q \in Nat /\ x \in Products
      /\ stock' = [stock EXCEPT ![x] = @ - q]
      /\ reserved' = reserved \cup {c}
      /\ UNCHANGED <<req, refunds, jobRefunds, released, restarts>>
  BY DEF ReserveStock, BasicInv, CallOK, Requests, job, saga, history
<1>2. refunds[c] = 0 /\ jobRefunds[c] = 0
  BY <1>1 DEF AccountInv
<1>3. ASSUME NEW p \in Products, p # x PROVE Held(p)' = Held(p)
  <2>1. TakenFrom(p)' = TakenFrom(p)
    BY <1>1, <1>3 DEF TakenFrom
  <2>2. Books(p)' = Books(p)
    BY <1>1, <2>1 DEF Books, Outstanding
  <2> QED
    BY <2>1, <2>2 DEF Held
<1>4. ASSUME NEW p \in Products, p = x PROVE Held(p)' = q + Held(p)
  <2> DEFINE T == TakenFrom(p)
             f == Books(p)
             g == [d \in T \cup {c} |-> Outstanding(d)]
  <2>1. IsFiniteSet(T) /\ c \notin T /\ \A d \in T : f[d] = Outstanding(d) /\ f[d] \in Int
    BY <1>1, BooksAre DEF TakenFrom
  <2>2. TakenFrom(p)' = T \cup {c}
    BY <1>1, <1>4 DEF TakenFrom
  <2>3. Books(p)' = g
    BY <1>1, <2>2 DEF Books, Outstanding
  <2>4. Outstanding(c) = q
    BY <1>1, <1>2 DEF Outstanding
  <2>5. g[c] = q /\ \A d \in T : g[d] = f[d]
    BY <2>1, <2>4
  <2> HIDE DEF T, f, g, q
  <2>6. SumFunctionOnSet(g, T \cup {c}) = g[c] + SumFunctionOnSet(g, T)
    BY <1>1, <2>1, <2>5, SumAdd
  <2>7. SumFunctionOnSet(g, T) = SumFunctionOnSet(f, T)
    BY <2>1, <2>5, SumEqual
  <2>8. Held(p)' = SumFunctionOnSet(g, T \cup {c})
    BY <2>2, <2>3 DEF Held
  <2>9. Held(p) = SumFunctionOnSet(f, T)
    BY DEF Held, T, f
  <2> QED
    BY <2>5, <2>6, <2>7, <2>8, <2>9
<1> HIDE DEF x, q
<1>5. ASSUME restarts = 0, NEW p \in Products PROVE Balance(p)'
  <2>1. /\ stock[p] \in Int /\ Held(p) \in Int
        /\ stock[p] + Held(p) = InitialStock[p] + released[p]
    BY <1>5, BooksAre DEF AccountInv, Balance, BasicInv, TypeOK
  <2>2. CASE p = x
    <3>1. stock'[p] = stock[p] - q /\ Held(p)' = q + Held(p)
      BY <1>1, <1>4, <2>2 DEF BasicInv, TypeOK
    <3>2. (stock[p] - q) + (q + Held(p)) = stock[p] + Held(p)
      BY <1>1, <2>1
    <3>3. stock'[p] + Held(p)' = InitialStock[p] + released[p]
      BY <2>1, <3>1, <3>2
    <3> QED
      BY <1>1, <3>3 DEF Balance
  <2>3. CASE p # x
    <3>1. stock'[p] = stock[p] /\ Held(p)' = Held(p)
      BY <1>1, <1>3, <2>3 DEF BasicInv, TypeOK
    <3> QED
      BY <1>1, <2>1, <3>1 DEF Balance
  <2> QED
    BY <2>2, <2>3
<1>6. IsFiniteSet(reserved')
  BY <1>1, FS_AddElement DEF AccountInv
<1> QED
  BY <1>1, <1>5, <1>6 DEF AccountInv

\* A refund moves the units of one reservation from the books to the stock.
LEMMA AccountRefund ==
    ASSUME BasicInv, AccountInv, NEW c \in reserved,
           stock' = [stock EXCEPT ![req[c].product] = @ + req[c].qty],
           \/ /\ refunds' = [refunds EXCEPT ![c] = @ + 1]
              /\ UNCHANGED jobRefunds
           \/ /\ jobRefunds' = [jobRefunds EXCEPT ![c] = @ + 1]
              /\ UNCHANGED refunds,
           UNCHANGED <<req, reserved, released, restarts>>
    PROVE  AccountInv'
<1> DEFINE x == req[c].product
           q == req[c].qty
<1>1. c \in Calls /\ x \in Products /\ q \in Nat /\ c \in TakenFrom(x)
  BY DEF BasicInv, TypeOK, CallOK, Requests, TakenFrom
<1>2. /\ \A p \in Products : TakenFrom(p)' = TakenFrom(p)
      /\ \A d \in Calls \ {c} : refunds'[d] = refunds[d] /\ jobRefunds'[d] = jobRefunds[d]
  BY DEF TakenFrom, BasicInv, TypeOK
<1>3. \A d \in Calls \ {c} : Outstanding(d)' = Outstanding(d)
  BY <1>2 DEF Outstanding
<1>4. Outstanding(c)' = Outstanding(c) - q
  <2>1. refunds[c] \in Nat /\ jobRefunds[c] \in Nat
    BY <1>1 DEF BasicInv, TypeOK
  <2>2. \/ refunds'[c] = refunds[c] + 1 /\ jobRefunds'[c] = jobRefunds[c]
        \/ jobRefunds'[c] = jobRefunds[c] + 1 /\ refunds'[c] = refunds[c]
    BY <1>1 DEF BasicInv, TypeOK
  <2>3. 1 - refunds'[c] - jobRefunds'[c] = (1 - refunds[c] - jobRefunds[c]) - 1
    BY <2>1, <2>2
  <2> HIDE DEF q
  <2>4. \A n \in Int : q * (n - 1) = q * n - q
    <3>1. \A m \in Int, n \in Int : m * (n - 1) = m * n - m
      OBVIOUS
    <3>2. q \in Int
      BY <1>1
    <3> QED
      BY <3>1, <3>2
  <2>5. 1 - refunds[c] - jobRefunds[c] \in Int
    BY <2>1
  <2>6. q * ((1 - refunds[c] - jobRefunds[c]) - 1)
          = q * (1 - refunds[c] - jobRefunds[c]) - q
    BY <2>4, <2>5
  <2> QED
    BY <2>3, <2>6 DEF Outstanding, q
<1>5. ASSUME NEW p \in Products, p # x PROVE Held(p)' = Held(p)
  <2>1. \A d \in TakenFrom(p) : d \in Calls \ {c}
    BY <1>5 DEF TakenFrom, BasicInv, TypeOK
  <2>2. Books(p)' = Books(p)
    BY <1>2, <1>3, <2>1 DEF Books
  <2> QED
    BY <1>2, <2>2 DEF Held
<1>6. Held(x)' = Held(x) - q
  <2> DEFINE T == TakenFrom(x)
             f == Books(x)
             g == Books(x)'
  <2>1. /\ IsFiniteSet(T) /\ Held(x) \in Int
        /\ \A d \in T : d \in Calls /\ f[d] = Outstanding(d) /\ f[d] \in Int
    BY <1>1, BooksAre
  <2>2. \A d \in T : g[d] = Outstanding(d)'
    BY <1>1, <1>2 DEF Books
  <2>3. c \in T /\ g[c] = f[c] - q /\ \A d \in T \ {c} : g[d] = f[d]
    BY <1>1, <1>3, <1>4, <2>1, <2>2
  <2>4. Held(x) = SumFunctionOnSet(f, T) /\ Held(x)' = SumFunctionOnSet(g, T)
    BY <1>1, <1>2 DEF Held
  <2> HIDE DEF T, f, g, q
  <2>5. \A d \in T : f[d] \in Int /\ g[d] \in Int
    BY <1>1, <2>1, <2>3
  <2>6. SumFunctionOnSet(g, T) = SumFunctionOnSet(f, T) + (g[c] - f[c])
    BY <2>1, <2>3, <2>5, SumChange
  <2> QED
    BY <1>1, <2>1, <2>3, <2>4, <2>5, <2>6
<1> HIDE DEF x, q
<1>7. ASSUME restarts = 0, NEW p \in Products PROVE Balance(p)'
  <2>1. /\ stock[p] \in Int /\ Held(p) \in Int
        /\ stock[p] + Held(p) = InitialStock[p] + released[p]
    BY <1>7, BooksAre DEF AccountInv, Balance, BasicInv, TypeOK
  <2>2. CASE p = x
    <3>1. stock'[p] = stock[p] + q /\ Held(p)' = Held(p) - q
      BY <1>1, <1>6, <2>2 DEF BasicInv, TypeOK, x, q
    <3> QED
      BY <1>1, <2>1, <3>1 DEF Balance
  <2>3. CASE p # x
    <3>1. stock'[p] = stock[p] /\ Held(p)' = Held(p)
      BY <1>5, <2>3 DEF BasicInv, TypeOK, x
    <3> QED
      BY <2>1, <3>1 DEF Balance
  <2> QED
    BY <2>2, <2>3
<1> QED
  BY <1>1, <1>2, <1>7 DEF AccountInv

LEMMA AccountRelease ==
    ASSUME BasicInv, AccountInv, NEW p \in Products, NEW q \in 0..MaxQty,
           ReleaseStock(p, q)
    PROVE  AccountInv'
<1> DEFINE n == NormalizedQty(q)
<1>1. /\ n \in Nat
      /\ stock' = [stock EXCEPT ![p] = @ + n]
      /\ released' = [released EXCEPT ![p] = @ + n]
      /\ UNCHANGED <<req, reserved, refunds, jobRefunds, restarts>>
  BY Qty, InventoryAssumption DEF ReleaseStock, RefundStock, calls, job, saga
<1> HIDE DEF n
<1>2. ASSUME NEW x \in Products PROVE Held(x)' = Held(x)
  BY <1>1 DEF Held, Books, TakenFrom, Outstanding
<1>3. ASSUME restarts = 0, NEW x \in Products PROVE Balance(x)'
  <2>1. /\ stock[x] \in Int /\ Held(x) \in Int /\ released[x] \in Int
        /\ InitialStock[x] \in Int
        /\ stock[x] + Held(x) = InitialStock[x] + released[x]
    BY <1>3, BooksAre, InventoryAssumption DEF AccountInv, Balance, BasicInv, TypeOK
  <2>2. \/ stock'[x] = stock[x] + n /\ released'[x] = released[x] + n
        \/ stock'[x] = stock[x] /\ released'[x] = released[x]
    BY <1>1 DEF BasicInv, TypeOK
  <2>3. Held(x)' = Held(x)
    BY <1>2
  <2>4. stock'[x] + Held(x) = InitialStock[x] + released'[x]
    BY <1>1, <2>1, <2>2
  <2> QED
    BY <2>3, <2>4 DEF Balance
<1> QED
  BY <1>1, <1>3 DEF AccountInv

LEMMA AccountNext == BasicInv /\ AccountInv /\ [Next]_vars => AccountInv'
<1> SUFFICES ASSUME BasicInv, AccountInv, [Next]_vars PROVE AccountInv'
  OBVIOUS
<1>1. ASSUME NEW c \in Calls, NEW r \in Replicas, NEW k \in Keys,
             NEW p \in Products, NEW q \in 0..MaxQty,
             ReceiveReserve(c, r, k, p, q)
      PROVE  AccountInv'
  <2>1. c \notin reserved
    BY <1>1 DEF ReceiveReserve, BasicInv, CallOK
  <2>2. Kept /\ UNCHANGED <<stock, reserved, refunds, jobRefunds, released, restarts>>
    BY <1>1, <2>1 DEF ReceiveReserve, Kept, redis, job, saga, history
  <2> QED
    BY <2>2, AccountFrame
<1>2. ASSUME NEW c \in Calls,
             ReserveRefused(c) \/ InsertOutbox(c) \/ InsertOutboxFails(c)
      PROVE  AccountInv'
  BY <1>2, AccountFrame
     DEF ReserveRefused, InsertOutbox, InsertOutboxFails, Kept, redis, job, saga, history
<1>3. CASE \E c \in Calls : Handler(c)
  BY <1>2, <1>3, AccountReserve DEF Handler
<1>4. CASE \E p \in Products, q \in 0..MaxQty : ReleaseStock(p, q)
  BY <1>4, AccountRelease
<1>5. ASSUME NEW e \in CancelEvents, NEW c \in Calls, OrderCancelled(e, c)
      PROVE  AccountInv'
  BY <1>5, AccountFrame DEF OrderCancelled, Kept, redis, calls, job, history
<1>6. ASSUME NEW e \in CancelEvents, HandleOrderCancelled(e)
      PROVE  AccountInv'
  <2>1. cancel[e] \in reserved
    BY <1>6 DEF HandleOrderCancelled, BasicInv, TypeOK, CallOK
  <2> QED
    BY <1>6, <2>1, AccountRefund
       DEF HandleOrderCancelled, RefundStock, calls, job, history
<1>7. ASSUME NEW r \in Replicas,
             \/ StartScan(r) \/ ReadMeta(r) \/ JobError(r)
             \/ \E k \in Keys : ProbeTTL(r, k) \/ CheckOutbox(r, k)
      PROVE  AccountInv'
  <2>1. UNCHANGED <<redis, outbox, calls, jobRefunds, saga, history>>
    BY <1>7 DEF StartScan, ReadMeta, JobError, ProbeTTL, CheckOutbox
  <2> QED
    BY <2>1, AccountFrame DEF Kept, redis, calls, saga, history
<1>8. ASSUME NEW r \in Replicas, RefundLeak(r) PROVE AccountInv'
  <2> DEFINE c == leaked[r][verdict[r]]
  <2>1. /\ c \in reserved
        /\ RefundStock(req[c].product, verdict[r], req[c].qty)
        /\ jobRefunds' = [jobRefunds EXCEPT ![c] = @ + 1]
        /\ UNCHANGED <<calls, saga, history>>
    BY <1>8, RefundLeakIs
  <2> HIDE DEF c
  <2> QED
    BY <2>1, AccountRefund DEF RefundStock, calls, saga, history
<1>9. CASE \E r \in Replicas : JobProgress(r) \/ JobError(r)
  BY <1>7, <1>8, <1>9 DEF JobProgress
<1>10. CASE Tick
  BY <1>10, AccountFrame DEF Tick, Kept, saga, history
<1>11. ASSUME NEW r \in Replicas, Restart(r) PROVE AccountInv'
  <2>1. restarts' = restarts + 1 /\ restarts \in Nat
        /\ UNCHANGED <<reserved, refunds, jobRefunds>>
    BY <1>11 DEF Restart, saga, BasicInv, TypeOK
  <2>2. restarts' # 0
    BY <2>1
  <2> QED
    BY <2>1, <2>2 DEF AccountInv
<1>12. CASE UNCHANGED vars
  BY <1>12, AccountFrame DEF vars, Kept, redis, calls, job, saga, history
<1> QED
  BY <1>1, <1>3, <1>4, <1>5, <1>6, <1>9, <1>10, <1>11, <1>12 DEF Next

\* lua_script.go:33, 61: no unit appears or gets lost.  Whatever replicas, scans,
\* late refunds and redelivered events interleave, stock and reservations add up.
THEOREM StockIsAccounted == Spec => []StockAccounted
<1>1. BasicInv /\ AccountInv => StockAccounted
  BY DEF AccountInv, Balance, Held, Books, StockAccounted, SumFunction
<1> QED
  BY <1>1, AccountInit, AccountNext, BasicInvariant, PTL DEF Spec

-----------------------------------------------------------------------------
(* Nothing is oversold.                                                    *)

\* The service is not restarted, and an order is cancelled and its units given
\* back at most once.
Once ==
    /\ Alone
    /\ MaxRestarts = 0
    /\ CancelsPerOrder <= 1
    /\ MaxDeliveries <= 1

\* The orders that two events cancel differ, and so do their keys.
OneCancelPerKey ==
    \A e, f \in CancelEvents :
        /\ cancel[e] # None /\ cancel[f] # None
        /\ req[cancel[e]].key = req[cancel[f]].key
        => e = f

\* A call refunded by the consumer is one whose event has been handled.
RefundedOnce(c) ==
    /\ refunds[c] <= 1 /\ jobRefunds[c] <= 1
    /\ refunds[c] > 0 => \E e \in CancelEvents : cancel[e] = c /\ deliveries[e] > 0

OnceInv ==
    /\ restarts = 0
    /\ OneCancelPerKey
    /\ \A c \in Calls : RefundedOnce(c)

LEMMA OnceInit == Init => OnceInv
BY DEF Init, OnceInv, OneCancelPerKey, RefundedOnce

\* A step that cancels, handles and refunds nothing.
LEMMA OnceFrame ==
    ASSUME BasicInv, OnceInv, Kept, UNCHANGED <<saga, jobRefunds, restarts>>
    PROVE  OnceInv'
<1>1. OneCancelPerKey'
  <2>1. \A e \in CancelEvents : cancel[e] # None => req'[cancel[e]] = req[cancel[e]]
    BY DEF BasicInv, TypeOK, CallOK, Kept
  <2> QED
    BY <2>1 DEF OnceInv, OneCancelPerKey, saga
<1>2. \A c \in Calls : RefundedOnce(c)'
  BY DEF OnceInv, RefundedOnce, saga
<1> QED
  BY <1>1, <1>2 DEF OnceInv

LEMMA OnceCancelled ==
    ASSUME Once, BasicInv, OnceInv, NEW e \in CancelEvents, NEW c \in Calls,
           OrderCancelled(e, c)
    PROVE  OnceInv'
<1> DEFINE F == {f \in CancelEvents : /\ cancel[f] # None
                                      /\ req[cancel[f]].key = req[c].key}
<1>1. /\ cancel[e] = None /\ Cardinality(F) < CancelsPerOrder
      /\ cancel' = [cancel EXCEPT ![e] = c]
      /\ UNCHANGED <<req, jobRefunds, refunds, deliveries, restarts>>
  BY DEF OrderCancelled, calls, job, history
<1>2. F = {}
  <2> SUFFICES ASSUME NEW f \in F PROVE FALSE
    OBVIOUS
  <2>1. \A g \in F : g = f
    BY DEF OnceInv, OneCancelPerKey
  <2>2. F = {f}
    BY <2>1
  <2>3. Cardinality(F) = 1
    BY <2>2, FS_Singleton
  <2> QED
    BY <1>1, <2>3, InventoryAssumption DEF Once
<1>3. /\ cancel'[e] = c
      /\ \A f \in CancelEvents \ {e} : cancel'[f] = cancel[f]
  BY <1>1 DEF BasicInv, TypeOK
<1>4. OneCancelPerKey'
  <2> SUFFICES ASSUME NEW f \in CancelEvents, NEW g \in CancelEvents,
                      cancel'[f] # None, cancel'[g] # None,
                      req[cancel'[f]].key = req[cancel'[g]].key
               PROVE  f = g
    BY <1>1 DEF OneCancelPerKey
  <2>1. CASE f # e /\ g # e
    BY <1>3, <2>1 DEF OnceInv, OneCancelPerKey
  <2>2. CASE f = e /\ g # e
    BY <1>2, <1>3, <2>2
  <2>3. CASE f # e /\ g = e
    BY <1>2, <1>3, <2>3
  <2> QED
    BY <2>1, <2>2, <2>3
<1>5. ASSUME NEW d \in Calls PROVE RefundedOnce(d)'
  <2>1. \A f \in CancelEvents : cancel[f] = d => cancel'[f] = d
    BY <1>1, <1>3, InventoryAssumption
  <2> QED
    BY <1>1, <2>1 DEF OnceInv, RefundedOnce
<1> QED
  BY <1>1, <1>4, <1>5 DEF OnceInv

LEMMA OnceHandle ==
    ASSUME Once, BasicInv, OnceInv, NEW e \in CancelEvents, HandleOrderCancelled(e)
    PROVE  OnceInv'
<1> DEFINE c == cancel[e]
<1>1. /\ c # None /\ c \in Calls /\ deliveries[e] < MaxDeliveries
      /\ deliveries' = [deliveries EXCEPT ![e] = @ + 1]
      /\ refunds' = [refunds EXCEPT ![c] = @ + 1]
      /\ UNCHANGED <<cancel, req, jobRefunds, restarts>>
  BY DEF HandleOrderCancelled, BasicInv, TypeOK, calls, job, history
<1>2. deliveries[e] = 0 /\ \A f \in CancelEvents : deliveries[f] \in Nat
  <2>1. \A f \in CancelEvents : deliveries[f] \in 0..MaxDeliveries
    BY DEF BasicInv, TypeOK
  <2> QED
    BY <1>1, <2>1, InventoryAssumption DEF Once
<1>3. refunds[c] = 0
  <2>1. ASSUME refunds[c] > 0 PROVE FALSE
    <3>1. PICK f \in CancelEvents : cancel[f] = c /\ deliveries[f] > 0
      BY <1>1, <2>1 DEF OnceInv, RefundedOnce
    <3>2. f = e
      BY <1>1, <3>1 DEF OnceInv, OneCancelPerKey
    <3> QED
      BY <1>2, <3>1, <3>2
  <2>2. refunds[c] \in Nat
    BY <1>1 DEF BasicInv, TypeOK
  <2> QED
    BY <2>1, <2>2
<1>4. OneCancelPerKey'
  BY <1>1 DEF OnceInv, OneCancelPerKey
<1>5. /\ deliveries'[e] = 1
      /\ \A f \in CancelEvents \ {e} : deliveries'[f] = deliveries[f]
      /\ refunds'[c] = 1
      /\ \A d \in Calls \ {c} : refunds'[d] = refunds[d]
  BY <1>1, <1>2, <1>3 DEF BasicInv, TypeOK
<1>6. ASSUME NEW d \in Calls PROVE RefundedOnce(d)'
  <2>1. CASE d = c
    BY <1>1, <1>5, <2>1 DEF OnceInv, RefundedOnce
  <2>2. CASE d # c
    <3>1. \A f \in CancelEvents : cancel[f] = d => f # e
      BY <2>2
    <3> QED
      BY <1>1, <1>5, <2>2, <3>1 DEF OnceInv, RefundedOnce
  <2> QED
    BY <2>1, <2>2
<1> QED
  BY <1>1, <1>4, <1>6 DEF OnceInv

LEMMA OnceLeak ==
    ASSUME BasicInv, SingleInv, OnceInv, NEW r \in Replicas, RefundLeak(r)
    PROVE  OnceInv'
<1> DEFINE k == verdict[r]
           c == leaked[r][k]
<1>1. /\ k \in Keys /\ c \in Calls /\ c # None
      /\ jobRefunds' = [jobRefunds EXCEPT ![c] = @ + 1]
      /\ UNCHANGED <<calls, saga, history>>
  BY RefundLeakIs, InventoryAssumption DEF BasicInv, TypeOK
<1>2. jobRefunds[c] = 0
  BY <1>1 DEF SingleInv, ScanOK
<1> HIDE DEF c
<1>3. jobRefunds'[c] = 1 /\ \A d \in Calls \ {c} : jobRefunds'[d] = jobRefunds[d]
  BY <1>1, <1>2 DEF BasicInv, TypeOK
<1>4. \A d \in Calls : RefundedOnce(d)'
  BY <1>1, <1>3 DEF OnceInv, RefundedOnce, saga
<1>5. OneCancelPerKey'
  BY <1>1 DEF OnceInv, OneCancelPerKey, saga, calls
<1> QED
  BY <1>1, <1>4, <1>5 DEF OnceInv, history

LEMMA OnceNext ==
    Once /\ BasicInv /\ SingleInv /\ OnceInv /\ [Next]_vars => OnceInv'
<1> SUFFICES ASSUME Once, BasicInv, SingleInv, OnceInv, [Next]_vars
             PROVE  OnceInv'
  OBVIOUS
<1>1. ASSUME NEW c \in Calls, NEW r \in Replicas, NEW k \in Keys,
             NEW p \in Products, NEW q \in 0..MaxQty,
             ReceiveReserve(c, r, k, p, q)
      PROVE  OnceInv'
  <2>1. c \notin reserved
    BY <1>1 DEF ReceiveReserve, BasicInv, CallOK
  <2>2. Kept /\ UNCHANGED <<saga, jobRefunds, restarts>>
    BY <1>1, <2>1 DEF ReceiveReserve, Kept, job, history
  <2> QED
    BY <2>2, OnceFrame
<1>2. CASE \E c \in Calls : Handler(c)
  BY <1>2, OnceFrame
     DEF Handler, ReserveStock, ReserveRefused, InsertOutbox, InsertOutboxFails,
         Kept, job, history
<1>3. CASE \E p \in Products, q \in 0..MaxQty : ReleaseStock(p, q)
  BY <1>3, OnceFrame DEF ReleaseStock, Kept, calls, job
<1>4. CASE \E e \in CancelEvents, c \in Calls : OrderCancelled(e, c)
  BY <1>4, OnceCancelled
<1>5. CASE \E e \in CancelEvents : HandleOrderCancelled(e)
  BY <1>5, OnceHandle
<1>6. ASSUME NEW r \in Replicas,
             \/ StartScan(r) \/ ReadMeta(r) \/ JobError(r)
             \/ \E k \in Keys : ProbeTTL(r, k) \/ CheckOutbox(r, k)
      PROVE  OnceInv'
  <2>1. UNCHANGED <<calls, jobRefunds, saga, history>>
    BY <1>6 DEF StartScan, ReadMeta, JobError, ProbeTTL, CheckOutbox
  <2> QED
    BY <2>1, OnceFrame DEF Kept, calls, history
<1>7. CASE \E r \in Replicas : JobProgress(r) \/ JobError(r)
  BY <1>6, <1>7, OnceLeak DEF JobProgress
<1>8. CASE Tick
  BY <1>8, OnceFrame DEF Tick, Kept, history
<1>9. ~ \E r \in Replicas : Restart(r)
  BY DEF Restart, Once, BasicInv, TypeOK
<1>10. CASE UNCHANGED vars
  BY <1>10, OnceFrame DEF vars, Kept, calls, job, history
<1> QED
  BY <1>1, <1>2, <1>3, <1>4, <1>5, <1>7, <1>8, <1>9, <1>10 DEF Next

\* What is promised is held, and what is held was there.
LEMMA PromisedIsHeld ==
    ASSUME BasicInv, SingleInv, AccountInv, OnceInv, NEW p \in Products
    PROVE  SumFunction([c \in Promised(p) |-> req[c].qty])
             <= InitialStock[p] + released[p]
<1> DEFINE P == Promised(p)
           S == TakenFrom(p)
           f == [c \in P |-> req[c].qty]
           g == Books(p)
<1>1. P \in SUBSET S /\ \A c \in P : refunds[c] = 0 /\ jobRefunds[c] = 0
  <2> SUFFICES ASSUME NEW c \in P
               PROVE  c \in S /\ refunds[c] = 0 /\ jobRefunds[c] = 0
    OBVIOUS
  <2>1. /\ c \in Calls /\ c \in outbox /\ c \in S
        /\ refunds[c] \in Nat /\ jobRefunds[c] \in Nat
        /\ \A e \in CancelEvents : cancel[e] # c
    BY DEF Promised, TakenFrom, BasicInv, TypeOK, CallOK
  <2> QED
    BY <2>1 DEF SingleInv, RefundOK, OnceInv, RefundedOnce
<1>2. ASSUME NEW c \in S PROVE refunds[c] + jobRefunds[c] <= 1
  <2>1. c \in Calls /\ refunds[c] \in Nat /\ jobRefunds[c] \in Nat
    BY DEF TakenFrom, BasicInv, TypeOK
  <2>2. refunds[c] > 0 => c \in outbox
    BY <2>1, InventoryAssumption DEF OnceInv, RefundedOnce, BasicInv
  <2>3. jobRefunds[c] > 0 => c \notin outbox
    BY <2>1 DEF SingleInv, RefundOK
  <2> QED
    BY <2>1, <2>2, <2>3 DEF OnceInv, RefundedOnce
<1>3. /\ IsFiniteSet(S) /\ Held(p) \in Int
      /\ \A c \in S : /\ req[c].qty \in Nat
                      /\ refunds[c] \in Nat /\ jobRefunds[c] \in Nat
                      /\ g[c] = Outstanding(c) /\ g[c] \in Int
  BY BooksAre
<1>4. \A c \in P : f[c] \in Int /\ f[c] <= g[c]
  <2> SUFFICES ASSUME NEW c \in P PROVE f[c] \in Int /\ f[c] <= g[c]
    OBVIOUS
  <2>1. c \in S /\ refunds[c] = 0 /\ jobRefunds[c] = 0 /\ f[c] = req[c].qty
    BY <1>1
  <2>2. req[c].qty \in Nat /\ g[c] = Outstanding(c)
    BY <1>3, <2>1
  <2> HIDE DEF f, g
  <2>3. g[c] = req[c].qty
    BY <2>1, <2>2 DEF Outstanding
  <2> QED
    BY <2>1, <2>2, <2>3
<1>5. \A c \in S \ P : g[c] >= 0
  <2> SUFFICES ASSUME NEW c \in S PROVE g[c] >= 0
    OBVIOUS
  <2>1. /\ refunds[c] \in Nat /\ jobRefunds[c] \in Nat /\ req[c].qty \in Nat
        /\ g[c] = req[c].qty * (1 - refunds[c] - jobRefunds[c])
    BY <1>3 DEF Outstanding
  <2>2. 1 - refunds[c] - jobRefunds[c] \in {0, 1}
    BY <1>2, <2>1
  <2> HIDE DEF g
  <2> QED
    BY <2>1, <2>2
<1> HIDE DEF f, g, P, S
<1>6. SumFunctionOnSet(f, P) <= SumFunctionOnSet(g, S)
  BY <1>1, <1>3, <1>4, <1>5, SumMonotone
<1>7. SumFunctionOnSet(g, S) = Held(p)
  BY DEF Held, S, g
<1>8. /\ stock[p] \in Nat /\ InitialStock[p] \in Int /\ released[p] \in Int
      /\ stock[p] + Held(p) = InitialStock[p] + released[p]
  BY InventoryAssumption
     DEF BasicInv, TypeOK, StockNonNegative, AccountInv, Balance, OnceInv
<1>9. IsFiniteSet(P)
  BY <1>1, <1>3, FS_Subset
<1>10. SumFunctionOnSet(f, P) \in Int
  BY <1>4, <1>9, SumType
<1>11. SumFunctionOnSet(f, P) <= InitialStock[p] + released[p]
  BY <1>3, <1>6, <1>7, <1>8, <1>10
<1>12. SumFunction(f) = SumFunctionOnSet(f, P)
  BY DEF SumFunction, f
<1> QED
  BY <1>11, <1>12 DEF f, P

\* README.md:97, lua_script.go:33: no overselling.  The units promised to customers
\* never exceed what the sale started with and operators put back, for one
\* replica that is not restarted and orders that are cancelled once.
THEOREM NothingOversold ==
    ASSUME Once
    PROVE  Spec => []NoOversell
<1>1. Alone
  BY DEF Once
<1>2. BasicInv /\ SingleInv /\ OnceInv /\ [Next]_vars => OnceInv'
  BY OnceNext
<1>3. BasicInv /\ SingleInv /\ AccountInv /\ OnceInv => NoOversell
  BY PromisedIsHeld DEF NoOversell
<1> QED
  BY <1>1, <1>2, <1>3, OnceInit, AccountInit, AccountNext, BasicInvariant,
     SingleInvariant, PTL DEF Spec

-----------------------------------------------------------------------------
(* A single replica implements StockLedger.                                *)

\* The refinement mapping.
Stages == [c \in Calls |-> Stage(c)]
Units  == [c \in Calls |->
             IF c \in reserved THEN [product |-> req[c].product, qty |-> req[c].qty]
             ELSE [product |-> "none", qty |-> 0]]

LEMMA StageIs ==
    ASSUME BasicInv, NEW c \in Calls
    PROVE  /\ c \in outbox => Stage(c) = "announced"
           /\ c \notin outbox /\ jobRefunds[c] > 0 => Stage(c) = "repaired"
           /\ c \in reserved /\ c \notin outbox /\ jobRefunds[c] = 0
                => Stage(c) = "taken"
           /\ c \notin reserved /\ c \notin outbox /\ jobRefunds[c] = 0
                => Stage(c) = "none"
BY DEF Stage, BasicInv, TypeOK

LEMMA LedgerInit == Init => Ledger!Init
<1> SUFFICES ASSUME Init PROVE Ledger!Init
  OBVIOUS
<1>1. \A c \in Calls : Stage(c) = "none"
  BY DEF Init, Stage
<1> QED
  BY <1>1 DEF Init, Ledger!Init, Ledger!Nothing

\* A step that changes no stock, row or reservation stutters.
LEMMA LedgerStutter ==
    ASSUME Kept, UNCHANGED <<stock, outbox, reserved, jobRefunds, refunds, released>>
    PROVE  UNCHANGED Ledger!vars
<1>1. \A c \in Calls : Stage(c)' = Stage(c)
  BY DEF Stage
<1>2. Stages' = Stages /\ Units' = Units
  BY <1>1 DEF Stages, Units, Kept
<1> QED
  BY <1>2 DEF Ledger!vars, Stages, Units

LEMMA TakeRefines ==
    ASSUME BasicInv, BasicInv', SingleInv, NEW c \in Calls, ReserveStock(c)
    PROVE  Ledger!Next
<1>1. PICK p \in Products, q \in Nat \ {0} : p = req[c].product /\ q = req[c].qty
  BY DEF ReserveStock, BasicInv, CallOK, Requests
<1>2. /\ pc[c] = "redis" /\ stock[p] \in Int /\ stock[p] >= q
      /\ stock' = [stock EXCEPT ![p] = @ - q]
      /\ reserved' = reserved \cup {c}
      /\ UNCHANGED <<outbox, req, jobRefunds, refunds, released>>
  BY <1>1 DEF ReserveStock, RefusesReserve, BasicInv, TypeOK, job, saga, history
<1>3. c \notin reserved /\ c \notin outbox /\ jobRefunds[c] = 0
  <2>1. c \notin reserved /\ c \notin outbox /\ jobRefunds[c] \in Nat
    BY <1>2 DEF BasicInv, CallOK, TypeOK
  <2> QED
    BY <2>1 DEF SingleInv, RefundOK
<1>4. Stages[c] = "none" /\ Stages' = [Stages EXCEPT ![c] = "taken"]
  <2>1. Stage(c) = "none" /\ Stage(c)' = "taken"
    BY <1>2, <1>3 DEF Stage
  <2>2. \A d \in Calls \ {c} : Stage(d)' = Stage(d)
    BY <1>2 DEF Stage
  <2> QED
    BY <2>1, <2>2 DEF Stages
<1>5. Units' = [Units EXCEPT ![c] = [product |-> p, qty |-> q]]
  BY <1>1, <1>2, <1>3 DEF Units
<1>6. q \in 1..stock[p] /\ stock' = [stock EXCEPT ![p] = @ + (-q)]
  <2>1. q \in 1..stock[p] /\ stock[p] - q = stock[p] + (-q)
    BY <1>1, <1>2
  <2> QED
    BY <1>2, <2>1
<1>7. Ledger!Take(c, p, q)
  BY <1>2, <1>4, <1>5, <1>6 DEF Ledger!Take, Ledger!Goto, Ledger!Add, Stages, Units
<1> QED
  <2>1. \E d \in Calls, x \in Products : \E y \in 1..stock[x] : Ledger!Take(d, x, y)
    BY <1>1, <1>6, <1>7
  <2> QED
    BY <2>1 DEF Ledger!Next

LEMMA CallRefines ==
    ASSUME BasicInv, SingleInv, NEW c \in Calls,
           ReserveRefused(c) \/ InsertOutbox(c) \/ InsertOutboxFails(c)
    PROVE  [Ledger!Next]_(Ledger!vars)
<1>1. /\ outbox' = outbox \/ (pc[c] = "outbox" /\ outbox' = outbox \cup {c})
      /\ UNCHANGED <<stock, req, reserved, jobRefunds, refunds, released>>
  BY DEF ReserveRefused, InsertOutbox, InsertOutboxFails, redis, job, saga, history
<1>2. CASE outbox' = outbox
  BY <1>1, <1>2, LedgerStutter DEF Kept
<1>3. CASE pc[c] = "outbox" /\ outbox' = outbox \cup {c}
  <2>1. c \in reserved /\ c \notin outbox /\ jobRefunds[c] = 0
    BY <1>3 DEF BasicInv, SingleInv, CallOK, RefundOK, InFlight, TypeOK
  <2>2. Stage(c) = "taken" /\ Stage(c)' = "announced"
    BY <1>1, <1>3, <2>1 DEF Stage
  <2>3. \A d \in Calls \ {c} : Stage(d)' = Stage(d)
    BY <1>1, <1>3 DEF Stage
  <2>4. Stages[c] = "taken" /\ Stages' = [Stages EXCEPT ![c] = "announced"]
    BY <2>2, <2>3 DEF Stages
  <2>5. Units' = Units
    BY <1>1 DEF Units
  <2>6. Ledger!Announce(c)
    BY <1>1, <2>4, <2>5 DEF Ledger!Announce, Ledger!Goto, Stages, Units
  <2> QED
    BY <2>6 DEF Ledger!Next
<1> QED
  BY <1>1, <1>2, <1>3

LEMMA ReleaseRefines ==
    ASSUME BasicInv, NEW p \in Products, NEW q \in 0..MaxQty, ReleaseStock(p, q)
    PROVE  Ledger!Next
<1> DEFINE n == NormalizedQty(q)
<1>1. n \in Nat
  BY Qty, InventoryAssumption
<1>2. /\ stock' = [stock EXCEPT ![p] = @ + n]
      /\ released' = [released EXCEPT ![p] = @ + n]
      /\ UNCHANGED <<outbox, req, reserved, jobRefunds, refunds>>
  BY DEF ReleaseStock, RefundStock, calls, job, saga
<1> HIDE DEF n
<1>3. stock'[p] - stock[p] = n
  BY <1>1, <1>2 DEF BasicInv, TypeOK
<1>4. \A c \in Calls : Stage(c)' = Stage(c)
  BY <1>2 DEF Stage
<1>5. Stages' = Stages /\ Units' = Units
  BY <1>2, <1>4 DEF Stages, Units
<1>6. Ledger!Release(p, n)
  BY <1>2, <1>5 DEF Ledger!Release, Ledger!Add, Stages, Units
<1> QED
  BY <1>3, <1>6 DEF Ledger!Next

LEMMA HandleRefines ==
    ASSUME BasicInv, NEW e \in CancelEvents, HandleOrderCancelled(e)
    PROVE  Ledger!Next
<1> DEFINE c == cancel[e]
<1>1. c \in Calls /\ c \in outbox /\ c \in reserved
  BY DEF HandleOrderCancelled, BasicInv, TypeOK, CallOK
<1>2. /\ stock' = [stock EXCEPT ![req[c].product] = @ + req[c].qty]
      /\ refunds' = [refunds EXCEPT ![c] = @ + 1]
      /\ UNCHANGED <<outbox, req, reserved, jobRefunds, released>>
  BY DEF HandleOrderCancelled, RefundStock, calls, job, history
<1> HIDE DEF c
<1>3. \A d \in Calls : Stage(d)' = Stage(d)
  BY <1>2 DEF Stage
<1>4. Stages' = Stages /\ Units' = Units
  BY <1>2, <1>3 DEF Stages, Units
<1>5. Stages[c] = "announced"
  BY <1>1, StageIs DEF Stages
<1>6. Units[c].product = req[c].product /\ Units[c].qty = req[c].qty
  BY <1>1 DEF Units
<1>7. Ledger!GiveBack(c)
  BY <1>2, <1>4, <1>5, <1>6 DEF Ledger!GiveBack, Ledger!Add, Stages, Units
<1> QED
  BY <1>1, <1>7 DEF Ledger!Next

LEMMA RefundRefines ==
    ASSUME BasicInv, SingleInv, NEW r \in Replicas, RefundLeak(r)
    PROVE  Ledger!Next
<1>1. PICK k \in Keys, c \in reserved :
      /\ k = verdict[r] /\ c = leaked[r][k] /\ req[c].key = k
      /\ RefundStock(req[c].product, k, req[c].qty)
      /\ jobRefunds' = [jobRefunds EXCEPT ![c] = @ + 1]
      /\ UNCHANGED <<outbox, calls, probing, cycled, jobErrors, saga, history>>
  BY RefundLeakIs
<1>2. c \in Calls /\ c # None /\ jobRefunds[c] = 0 /\ c \notin outbox
  BY <1>1, InventoryAssumption
     DEF SingleInv, ScanOK, BasicInv, TypeOK, IsOutboxExist
<1>3. /\ stock' = [stock EXCEPT ![req[c].product] = @ + req[c].qty]
      /\ UNCHANGED <<outbox, req, reserved, refunds, released>>
  BY <1>1 DEF RefundStock, calls, saga, history
<1>4. jobRefunds'[c] = 1 /\ \A d \in Calls \ {c} : jobRefunds'[d] = jobRefunds[d]
  BY <1>1, <1>2 DEF BasicInv, TypeOK
<1>5. Stage(c) = "taken" /\ Stage(c)' = "repaired"
  <2>1. Stage(c) = "taken"
    BY <1>1, <1>2, StageIs
  <2>2. c \notin outbox' /\ jobRefunds'[c] > 0
    BY <1>2, <1>3, <1>4
  <2> QED
    BY <2>1, <2>2, <1>4 DEF Stage
<1>6. \A d \in Calls \ {c} : Stage(d)' = Stage(d)
  BY <1>3, <1>4 DEF Stage
<1>7. Stages[c] = "taken" /\ Stages' = [Stages EXCEPT ![c] = "repaired"]
  BY <1>2, <1>5, <1>6 DEF Stages
<1>8. Units' = Units
  BY <1>3 DEF Units
<1>9. Units[c].product = req[c].product /\ Units[c].qty = req[c].qty
  BY <1>1, <1>2 DEF Units
<1>10. Ledger!Repair(c)
  BY <1>3, <1>7, <1>8, <1>9 DEF Ledger!Repair, Ledger!Goto, Ledger!Add, Stages, Units
<1> QED
  BY <1>2, <1>10 DEF Ledger!Next

LEMMA RestartRefines ==
    ASSUME NEW r \in Replicas, Restart(r)
    PROVE  Ledger!Next
<1>1. stock' = InitialStock
      /\ UNCHANGED <<outbox, req, reserved, jobRefunds, refunds, released>>
  BY DEF Restart, saga
<1>2. \A c \in Calls : Stage(c)' = Stage(c)
  BY <1>1 DEF Stage
<1>3. Stages' = Stages /\ Units' = Units
  BY <1>1, <1>2 DEF Stages, Units
<1>4. Ledger!Reset
  BY <1>1, <1>3 DEF Ledger!Reset, Stages, Units
<1> QED
  BY <1>4 DEF Ledger!Next

LEMMA StepRefines ==
    ASSUME BasicInv, BasicInv', SingleInv, [Next]_vars
    PROVE  [Ledger!Next]_(Ledger!vars)
<1>1. ASSUME NEW c \in Calls, NEW r \in Replicas, NEW k \in Keys,
             NEW p \in Products, NEW q \in 0..MaxQty,
             ReceiveReserve(c, r, k, p, q)
      PROVE  UNCHANGED Ledger!vars
  <2>1. c \notin reserved
    BY <1>1 DEF ReceiveReserve, BasicInv, CallOK
  <2>2. Kept /\ UNCHANGED <<stock, outbox, reserved, jobRefunds, refunds, released>>
    BY <1>1, <2>1 DEF ReceiveReserve, Kept, redis, job, saga, history
  <2> QED
    BY <2>2, LedgerStutter
<1>2. CASE \E c \in Calls : Handler(c)
  BY <1>2, TakeRefines, CallRefines DEF Handler
<1>3. CASE \E p \in Products, q \in 0..MaxQty : ReleaseStock(p, q)
  BY <1>3, ReleaseRefines
<1>4. ASSUME NEW e \in CancelEvents, NEW c \in Calls, OrderCancelled(e, c)
      PROVE  UNCHANGED Ledger!vars
  BY <1>4, LedgerStutter DEF OrderCancelled, Kept, redis, calls, job, history
<1>5. CASE \E e \in CancelEvents : HandleOrderCancelled(e)
  BY <1>5, HandleRefines
<1>6. ASSUME NEW r \in Replicas,
             \/ StartScan(r) \/ ReadMeta(r) \/ JobError(r)
             \/ \E k \in Keys : ProbeTTL(r, k) \/ CheckOutbox(r, k)
      PROVE  UNCHANGED Ledger!vars
  <2>1. UNCHANGED <<redis, outbox, calls, jobRefunds, saga, history>>
    BY <1>6 DEF StartScan, ReadMeta, JobError, ProbeTTL, CheckOutbox
  <2> QED
    BY <2>1, LedgerStutter DEF Kept, redis, calls, saga, history
<1>7. CASE \E r \in Replicas : JobProgress(r) \/ JobError(r)
  BY <1>6, <1>7, RefundRefines DEF JobProgress
<1>8. CASE Tick
  BY <1>8, LedgerStutter DEF Tick, Kept, saga, history
<1>9. CASE \E r \in Replicas : Restart(r)
  BY <1>9, RestartRefines
<1>10. CASE UNCHANGED vars
  BY <1>10, LedgerStutter DEF vars, Kept, redis, calls, job, saga, history
<1> QED
  BY <1>1, <1>2, <1>3, <1>4, <1>5, <1>7, <1>8, <1>9, <1>10 DEF Next

\* reserve_stock.go:62, reconciliation_job.go:21: with all its round trips a
\* single replica moves units as StockLedger does: every reservation that took
\* its units is announced, or repaired once, and never both.
THEOREM Implementation ==
    ASSUME Alone
    PROVE  Spec => ImplementsLedger
<1>1. BasicInv /\ BasicInv' /\ SingleInv /\ [Next]_vars => [Ledger!Next]_(Ledger!vars)
  BY StepRefines
<1> QED
  BY <1>1, LedgerInit, BasicInvariant, SingleInvariant, PTL
     DEF Spec, ImplementsLedger, Ledger!Spec
===============================================================================
