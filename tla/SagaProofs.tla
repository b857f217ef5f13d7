------------------------------ MODULE SagaProofs ------------------------------
(***************************************************************************)
(* Proofs about Saga: type correctness, the conservation of units, and     *)
(* that the composition keeps to what its parts promise; for any number of *)
(* orders, products and payments, whatever is parked and however often     *)
(* events are handled again.                                               *)
(***************************************************************************)
EXTENDS Saga, FiniteSetTheorems, TLAPS

-----------------------------------------------------------------------------
(* The inductive invariant.                                                *)

\* Only a cancelled order, paid later or not, has cancel events, and has one.
CancelsOK ==
    /\ \A i \in DOMAIN cancels : status[cancels[i].order] \in {"CANCELLED", "PAID"}
    /\ \A o \in Orders : status[o] = "CANCELLED" => CancelsOf(o) # {}

\* Units given back were given back by a cancel event.
RefundsOK ==
    \A o \in Orders : refunds[o] > 0 => \E i \in settled : cancels[i].order = o

Balanced(p) ==
    /\ IsFiniteSet(Holding(p))
    /\ stock[p] >= 0
    /\ stock[p] + Cardinality(Holding(p)) = InitialStock[p]

SagaInv ==
    /\ TypeOK
    /\ CancelsOK
    /\ RefundsOK
    /\ Undisturbed => \A p \in Products : Balanced(p)

LEMMA InvConserved == SagaInv => Conserved
BY DEF SagaInv, Balanced, Conserved

LEMMA NothingIsNone == \A u \in OneUnit : u # Ledger!Nothing
BY DEF OneUnit, Ledger!Nothing

\* A cancel event belongs to an order.
LEMMA CancelledOrder ==
    ASSUME TypeOK, NEW i \in DOMAIN cancels
    PROVE  cancels[i].order \in Orders
<1>1. \A S : \A s \in Seq(S) : \A j \in DOMAIN s : s[j] \in S
  OBVIOUS
<1>2. cancels[i] \in [order : Orders, event : Declined \cup {None}]
  BY <1>1 DEF TypeOK
<1> QED
  BY <1>2

LEMMA InitInv == Init => SagaInv
<1> SUFFICES ASSUME Init PROVE SagaInv
  OBVIOUS
<1>1. /\ stock = InitialStock /\ stage = [o \in Orders |-> "none"]
      /\ units = [o \in Orders |-> Ledger!Nothing]
      /\ refunds = [o \in Orders |-> 0]
      /\ status = [o \in Orders |-> "absent"] /\ cancels = <<>>
      /\ saved = {} /\ handled = {} /\ settled = {} /\ parked = {} /\ repeats = 0
  BY DEF Init, Ledger!Init, Lifecycle!Init
<1>2. TypeOK
  BY <1>1, SagaAssumption DEF TypeOK, Ledger!Stages
<1>3. CancelsOK /\ RefundsOK
  BY <1>1 DEF CancelsOK, RefundsOK
<1>4. ASSUME NEW p \in Products PROVE Balanced(p)
  <2>1. Holding(p) = {}
    BY <1>1 DEF Holding
  <2> QED
    BY <1>1, <2>1, FS_EmptySet, SagaAssumption DEF Balanced
<1> QED
  BY <1>2, <1>3, <1>4 DEF SagaInv

-----------------------------------------------------------------------------
(* Holdings change by one reservation at a time.                           *)

LEMMA HoldingGrows ==
    ASSUME NEW p \in Products, Balanced(p), stock \in [Products -> Int],
           InitialStock \in [Products -> Nat],
           NEW o, o \notin Holding(p), Holding(p)' = Holding(p) \cup {o},
           stock[p] >= 1, stock'[p] = stock[p] - 1
    PROVE  Balanced(p)'
<1>1. /\ IsFiniteSet(Holding(p)')
      /\ Cardinality(Holding(p)') = Cardinality(Holding(p)) + 1
      /\ Cardinality(Holding(p)) \in Nat
  BY FS_AddElement, FS_CardinalityType DEF Balanced
<1> QED
  BY <1>1 DEF Balanced

LEMMA HoldingShrinks ==
    ASSUME NEW p \in Products, Balanced(p), stock \in [Products -> Int],
           InitialStock \in [Products -> Nat],
           NEW o, o \in Holding(p), Holding(p)' = Holding(p) \ {o},
           stock'[p] = stock[p] + 1
    PROVE  Balanced(p)'
<1>1. /\ IsFiniteSet(Holding(p)')
      /\ Cardinality(Holding(p)') = Cardinality(Holding(p)) - 1
      /\ Cardinality(Holding(p)) \in Nat
  BY FS_RemoveElement, FS_CardinalityType DEF Balanced
<1> QED
  BY <1>1 DEF Balanced

LEMMA HoldingSame ==
    ASSUME NEW p \in Products, Balanced(p), Holding(p)' = Holding(p),
           stock'[p] = stock[p]
    PROVE  Balanced(p)'
BY DEF Balanced

\* What disturbs the balance cannot be undone.
LEMMA UndisturbedBefore ==
    ASSUME SagaInv, Undisturbed', repeats \in Nat, repeats' >= repeats,
           \A i \in DOMAIN cancels : i \in DOMAIN cancels' /\ cancels'[i] = cancels[i],
           \A o \in Orders : status[o] = "PAID" => status'[o] = "PAID"
    PROVE  Undisturbed
<1>1. \A o \in Orders : CancelsOf(o) \subseteq CancelsOf(o)'
  BY DEF CancelsOf
<1>2. repeats' = 0
  BY DEF Undisturbed
<1>3. repeats = 0
  BY <1>2
<1> QED
  BY <1>1, <1>3 DEF Undisturbed

-----------------------------------------------------------------------------
(* inventory-service.                                                      *)

\* A step of the ledger that handles no cancel event.
LEMMA LedgerInv ==
    ASSUME SagaInv, UNCHANGED <<orders, saved, handled, settled, parked, repeats>>,
           UNCHANGED refunds, TypeOK',
           Undisturbed /\ (\A p \in Products : Balanced(p))
               => \A p \in Products : Balanced(p)'
    PROVE  SagaInv'
<1>1. CancelsOK' /\ RefundsOK'
  BY DEF SagaInv, CancelsOK, RefundsOK, CancelsOf, orders
<1>2. Undisturbed' <=> Undisturbed
  BY DEF Undisturbed, CancelsOf, orders
<1> QED
  BY <1>1, <1>2 DEF SagaInv

LEMMA ReserveInv ==
    ASSUME SagaInv, NEW o \in Orders, Reserve(o)
    PROVE  SagaInv'
<1>0. TypeOK /\ InitialStock \in [Products -> Nat]
  BY SagaAssumption DEF SagaInv
<1>1. PICK q \in Products : Ledger!Take(o, q, 1)
  BY DEF Reserve
<1>2. UNCHANGED <<orders, saved, handled, settled, parked, repeats>>
  BY DEF Reserve
<1>3. /\ stage[o] = "none" /\ stage' = [stage EXCEPT ![o] = "taken"]
      /\ stock[q] >= 1 /\ stock' = [stock EXCEPT ![q] = @ + (-1)]
      /\ units' = [units EXCEPT ![o] = [product |-> q, qty |-> 1]]
      /\ UNCHANGED <<refunds, released>>
  BY <1>1 DEF Ledger!Take, Ledger!Goto, Ledger!Add
<1>4. [product |-> q, qty |-> 1] \in OneUnit
  BY DEF OneUnit
<1>5. TypeOK'
  BY <1>0, <1>2, <1>3, <1>4
     DEF TypeOK, Ledger!Stages, orders, Events, Reserved, PaymentOf, CancelAt
<1>6. ASSUME NEW p \in Products, Balanced(p) PROVE Balanced(p)'
  <2>1. stage'[o] = "taken" /\ units'[o].product = q /\ status'[o] = "absent"
    BY <1>0, <1>2, <1>3 DEF TypeOK, orders
  <2>2. \A r \in Orders \ {o} : /\ stage'[r] = stage[r] /\ units'[r] = units[r]
                                /\ status'[r] = status[r] /\ refunds'[r] = refunds[r]
    BY <1>0, <1>2, <1>3 DEF TypeOK, orders
  <2>3. o \notin Holding(p)
    BY <1>3 DEF Holding
  <2>4. CASE p = q
    <3>1. Holding(p)' = Holding(p) \cup {o}
      BY <2>1, <2>2, <2>4 DEF Holding
    <3>2. stock'[p] = stock[p] - 1 /\ stock[p] >= 1
      BY <1>0, <1>3, <2>4 DEF TypeOK
    <3> QED
      BY <3>1, <3>2, <2>3, <1>0, <1>6, HoldingGrows DEF TypeOK
  <2>5. CASE p # q
    <3>1. Holding(p)' = Holding(p)
      BY <2>1, <2>2, <2>3, <2>5 DEF Holding
    <3>2. stock'[p] = stock[p]
      BY <1>0, <1>3, <2>5 DEF TypeOK
    <3> QED
      BY <3>1, <3>2, <1>6, HoldingSame
  <2> QED
    BY <2>4, <2>5
<1> QED
  BY <1>2, <1>3, <1>5, <1>6, LedgerInv

LEMMA AnnounceInv ==
    ASSUME SagaInv, NEW o \in Orders, Announce(o)
    PROVE  SagaInv'
<1>0. TypeOK
  BY DEF SagaInv
<1>1. /\ stage[o] = "taken" /\ stage' = [stage EXCEPT ![o] = "announced"]
      /\ UNCHANGED <<stock, units, refunds, released>>
      /\ UNCHANGED <<orders, saved, handled, settled, parked, repeats>>
  BY DEF Announce, Ledger!Announce, Ledger!Goto
<1>2. TypeOK'
  BY <1>0, <1>1
     DEF TypeOK, Ledger!Stages, orders, Events, Reserved, PaymentOf, CancelAt
<1>3. ASSUME NEW p \in Products, Balanced(p) PROVE Balanced(p)'
  <2>1. Holding(p)' = Holding(p)
    BY <1>0, <1>1 DEF TypeOK, Holding, orders
  <2> QED
    BY <1>1, <1>3, <2>1, HoldingSame
<1> QED
  BY <1>1, <1>2, <1>3, LedgerInv

LEMMA RepairInv ==
    ASSUME SagaInv, NEW o \in Orders, Repair(o)
    PROVE  SagaInv'
<1>0. TypeOK /\ InitialStock \in [Products -> Nat]
  BY SagaAssumption DEF SagaInv
<1> DEFINE q == units[o].product
<1>1. /\ stage[o] = "taken" /\ stage' = [stage EXCEPT ![o] = "repaired"]
      /\ stock' = [stock EXCEPT ![q] = @ + units[o].qty]
      /\ UNCHANGED <<units, refunds, released>>
      /\ UNCHANGED <<orders, saved, handled, settled, parked, repeats>>
  BY DEF Repair, Ledger!Repair, Ledger!Goto, Ledger!Add
<1>2. units[o] \in OneUnit
  BY <1>0, <1>1 DEF TypeOK
<1>3. q \in Products /\ units[o].qty = 1
  BY <1>2 DEF OneUnit
<1> HIDE DEF q
<1>4. TypeOK'
  BY <1>0, <1>1, <1>2, <1>3
     DEF TypeOK, Ledger!Stages, orders, Events, Reserved, PaymentOf, CancelAt
<1>5. ASSUME NEW p \in Products, Balanced(p) PROVE Balanced(p)'
  <2>1. stage'[o] = "repaired" /\ status[o] = "absent"
    BY <1>0, <1>1 DEF TypeOK
  <2>2. \A r \in Orders \ {o} : stage'[r] = stage[r]
    BY <1>0, <1>1 DEF TypeOK
  <2>3. CASE p = q
    <3>1. o \in Holding(p) /\ Holding(p)' = Holding(p) \ {o}
      BY <1>1, <2>1, <2>2, <2>3 DEF Holding, orders, q
    <3>2. stock'[p] = stock[p] + 1
      BY <1>0, <1>1, <1>3, <2>3 DEF TypeOK
    <3> QED
      BY <3>1, <3>2, <1>0, <1>5, HoldingShrinks DEF TypeOK
  <2>4. CASE p # q
    <3>1. Holding(p)' = Holding(p)
      BY <1>1, <2>1, <2>2, <2>4 DEF Holding, orders, q
    <3>2. stock'[p] = stock[p]
      BY <1>0, <1>1, <1>3, <2>4 DEF TypeOK
    <3> QED
      BY <3>1, <3>2, <1>5, HoldingSame
  <2> QED
    BY <2>3, <2>4
<1> QED
  BY <1>1, <1>4, <1>5, LedgerInv

LEMMA GiveBackInv ==
    ASSUME SagaInv, NEW i \in DOMAIN cancels, GiveBack(i)
    PROVE  SagaInv'
<1>0. TypeOK /\ CancelsOK /\ RefundsOK /\ InitialStock \in [Products -> Nat]
  BY SagaAssumption DEF SagaInv
<1>1. PICK o \in Orders : o = cancels[i].order
  BY <1>0, CancelledOrder
<1>2. PICK q : q = units[o].product
  OBVIOUS
<1>3. /\ stage[o] = "announced" /\ stock' = [stock EXCEPT ![q] = @ + units[o].qty]
      /\ refunds' = [refunds EXCEPT ![o] = @ + 1]
      /\ UNCHANGED <<stage, units, released, orders, saved, handled, parked>>
  BY <1>1, <1>2 DEF GiveBack, Ledger!GiveBack, Ledger!Add
<1>4. /\ \/ i \notin settled /\ settled' = settled \cup {i} /\ UNCHANGED repeats
         \/ /\ i \in settled /\ UNCHANGED settled
            /\ repeats < MaxRepeats /\ repeats' = repeats + 1
  BY DEF GiveBack
<1>5. q \in Products /\ units[o].qty = 1
  BY <1>0, <1>2, <1>3 DEF TypeOK, OneUnit
<1>6. refunds'[o] > 0 /\ refunds[o] \in Nat /\ \A r \in Orders \ {o} : refunds'[r] = refunds[r]
  BY <1>0, <1>3 DEF TypeOK
<1>7. TypeOK'
  <2>1. repeats' \in 0..MaxRepeats
    BY <1>0, <1>4, SagaAssumption DEF TypeOK
  <2>2. settled' \subseteq DOMAIN cancels'
    BY <1>0, <1>3, <1>4 DEF TypeOK, orders
  <2>3. stock' \in [Products -> Int] /\ refunds' \in [Orders -> Nat]
    BY <1>0, <1>3, <1>5 DEF TypeOK
  <2>4. parked' \subseteq Events'
    BY <1>0, <1>3 DEF TypeOK, orders, Events, Reserved, PaymentOf, CancelAt
  <2> QED
    BY <2>1, <2>2, <2>3, <2>4, <1>0, <1>3 DEF TypeOK, Ledger!Stages, orders
<1>8. CancelsOK'
  BY <1>0, <1>3 DEF CancelsOK, CancelsOf, orders
<1>9. RefundsOK'
  <2> SUFFICES ASSUME NEW r \in Orders, refunds'[r] > 0
               PROVE  \E j \in settled' : cancels'[j].order = r
    BY DEF RefundsOK
  <2>1. CASE r = o
    BY <2>1, <1>1, <1>3, <1>4 DEF orders
  <2>2. CASE r # o
    BY <2>2, <1>0, <1>3, <1>4, <1>6 DEF RefundsOK, orders
  <2> QED
    BY <2>1, <2>2
<1>10. ASSUME Undisturbed', NEW p \in Products PROVE Balanced(p)'
  <2>1. repeats' = 0 /\ repeats \in Nat
    BY <1>0, <1>10 DEF Undisturbed, TypeOK
  <2>2. i \notin settled /\ settled' = settled \cup {i} /\ repeats = 0
    BY <2>1, <1>4
  <2>3. Undisturbed
    BY <1>3, <1>10, <2>2 DEF Undisturbed, CancelsOf, orders
  <2>4. Balanced(p)
    BY <2>3 DEF SagaInv
  <2>5. i \in CancelsOf(o)
    BY <1>1 DEF CancelsOf
  <2>6. refunds[o] = 0
    <3> SUFFICES ASSUME refunds[o] > 0 PROVE FALSE
      BY <1>6
    <3>1. PICK j \in settled : cancels[j].order = o
      BY <1>0 DEF RefundsOK
    <3>2. j \in CancelsOf(o)
      BY <3>1, <1>0 DEF CancelsOf, TypeOK
    <3> QED
      BY <3>2, <2>2, <2>3, <2>5 DEF Undisturbed
  <2>7. status[o] = "CANCELLED"
    BY <1>0, <1>1, <2>3, <2>5 DEF CancelsOK, Undisturbed
  <2>8. CASE p = q
    <3>1. o \in Holding(p) /\ Holding(p)' = Holding(p) \ {o}
      BY <1>2, <1>3, <1>6, <2>6, <2>7, <2>8 DEF Holding, orders
    <3>2. stock'[p] = stock[p] + 1
      BY <1>0, <1>3, <1>5, <2>8 DEF TypeOK
    <3> QED
      BY <3>1, <3>2, <1>0, <2>4, HoldingShrinks DEF TypeOK
  <2>9. CASE p # q
    <3>1. Holding(p)' = Holding(p)
      BY <1>2, <1>3, <1>6, <2>9 DEF Holding, orders
    <3>2. stock'[p] = stock[p]
      BY <1>0, <1>3, <2>9 DEF TypeOK
    <3> QED
      BY <3>1, <3>2, <2>4, HoldingSame
  <2> QED
    BY <2>8, <2>9
<1> QED
  BY <1>7, <1>8, <1>9, <1>10 DEF SagaInv

-----------------------------------------------------------------------------
(* order-service.                                                          *)

\* The rest of the state while an order changes its status.
OrderFrame ==
    /\ UNCHANGED <<ledger, saved, settled, parked>>
    /\ handled' \subseteq saved /\ repeats' \in 0..MaxRepeats /\ repeats' >= repeats

\* An order is created.
LEMMA CreateOrderInv ==
    ASSUME SagaInv, NEW o \in Orders, CreateOrder(o)
    PROVE  SagaInv'
<1>0. TypeOK /\ CancelsOK /\ RefundsOK
  BY DEF SagaInv
<1>1. /\ stage[o] = "announced" /\ status[o] = "absent"
      /\ status' = [status EXCEPT ![o] = "PENDING"]
      /\ UNCHANGED <<ledger, cancels, saved, handled, settled, parked, repeats>>
  BY DEF CreateOrder, Lifecycle!Create
<1>2. status'[o] = "PENDING" /\ \A r \in Orders \ {o} : status'[r] = status[r]
  BY <1>0, <1>1 DEF TypeOK
<1>3. TypeOK'
  BY <1>0, <1>1
     DEF TypeOK, ledger, Ledger!Stages, Events, Reserved, PaymentOf, CancelAt
<1>4. CancelsOK' /\ RefundsOK'
  BY <1>0, <1>1, <1>2 DEF CancelsOK, RefundsOK, CancelsOf, TypeOK, ledger
<1>5. ASSUME Undisturbed' PROVE Undisturbed
  BY <1>0, <1>1, <1>2, <1>5, UndisturbedBefore DEF TypeOK
<1>6. ASSUME NEW p \in Products, Balanced(p) PROVE Balanced(p)'
  <2>1. Holding(p)' = Holding(p)
    BY <1>1, <1>2 DEF Holding, ledger
  <2> QED
    BY <2>1, <1>1, <1>6, HoldingSame DEF ledger
<1> QED
  BY <1>3, <1>4, <1>5, <1>6 DEF SagaInv

\* An order is paid, or a completed payment has no effect.
LEMMA PaidInv ==
    ASSUME SagaInv, NEW o \in Orders, OrderFrame, UNCHANGED cancels,
           \/ UNCHANGED status
           \/ status[o] # "absent" /\ status' = [status EXCEPT ![o] = "PAID"]
    PROVE  SagaInv'
<1>0. TypeOK /\ CancelsOK /\ RefundsOK
  BY DEF SagaInv
<1>1. \A r \in Orders : /\ r # o => status'[r] = status[r]
                        /\ \/ status'[o] = status[o]
                           \/ status'[o] = "PAID" /\ status[o] # "absent"
  BY <1>0 DEF TypeOK
<1>2. TypeOK'
  BY <1>0
     DEF OrderFrame, TypeOK, ledger, Ledger!Stages, Events, Reserved, PaymentOf, CancelAt
<1>3. CancelsOK' /\ RefundsOK'
  <2>1. ASSUME NEW i \in DOMAIN cancels
        PROVE  status'[cancels[i].order] \in {"CANCELLED", "PAID"}
    BY <1>0, <1>1, CancelledOrder DEF CancelsOK
  <2>2. ASSUME NEW r \in Orders, status'[r] = "CANCELLED" PROVE CancelsOf(r)' # {}
    <3>1. status[r] = "CANCELLED" /\ CancelsOf(r)' = CancelsOf(r)
      BY <1>1, <2>2 DEF CancelsOf
    <3> QED
      BY <3>1, <1>0 DEF CancelsOK
  <2>3. RefundsOK'
    BY <1>0 DEF OrderFrame, RefundsOK, ledger
  <2> QED
    BY <2>1, <2>2, <2>3 DEF CancelsOK
<1>4. ASSUME Undisturbed' PROVE Undisturbed
  BY <1>0, <1>1, <1>4, UndisturbedBefore DEF TypeOK, OrderFrame
<1>5. ASSUME Undisturbed', NEW p \in Products, Balanced(p) PROVE Balanced(p)'
  <2>1. status'[o] = status[o] \/ (status[o] # "CANCELLED" /\ status'[o] = "PAID")
    <3> SUFFICES ASSUME status'[o] = "PAID", status[o] = "CANCELLED" PROVE FALSE
      BY <1>1
    <3>1. CancelsOf(o) # {} /\ CancelsOf(o)' = CancelsOf(o)
      BY <1>0 DEF CancelsOK, CancelsOf
    <3> QED
      BY <3>1, <1>5 DEF Undisturbed
  <2>2. Holding(p)' = Holding(p)
    BY <1>1, <2>1 DEF Holding, ledger, OrderFrame
  <2> QED
    BY <2>2, <1>5, HoldingSame DEF ledger, OrderFrame
<1> QED
  BY <1>2, <1>3, <1>4, <1>5 DEF SagaInv

\* A cancel event is emitted, for an order that is or becomes cancelled, or that
\* was paid.
LEMMA CancelInv ==
    ASSUME SagaInv, NEW o \in Orders, OrderFrame, status[o] # "absent",
           NEW event \in Declined \cup {None},
           status' = IF status[o] = "PENDING"
                       THEN [status EXCEPT ![o] = "CANCELLED"] ELSE status,
           cancels' = Append(cancels, [order |-> o, event |-> event])
    PROVE  SagaInv'
<1>0. TypeOK /\ CancelsOK /\ RefundsOK
  BY DEF SagaInv
<1> DEFINE n == Len(cancels) + 1
<1>1. cancels \in Seq([order : Orders, event : Declined \cup {None}])
  BY <1>0 DEF TypeOK
<1>2. /\ cancels' \in Seq([order : Orders, event : Declined \cup {None}])
      /\ DOMAIN cancels' = DOMAIN cancels \cup {n} /\ n \notin DOMAIN cancels
      /\ cancels'[n].order = o
      /\ \A i \in DOMAIN cancels : cancels'[i] = cancels[i]
  BY <1>1
<1>3. \A r \in Orders : /\ r # o => status'[r] = status[r]
                        /\ status[o] = "PENDING" => status'[o] = "CANCELLED"
                        /\ status[o] # "PENDING" => status'[o] = status[o]
  BY <1>0 DEF TypeOK
<1>4. status[o] \in {"PENDING", "PAID", "CANCELLED"}
  BY <1>0 DEF TypeOK
<1> HIDE DEF n
<1>5. TypeOK'
  <2>1. \A i \in DOMAIN cancels : CancelAt(i)' = CancelAt(i)
    BY DEF CancelAt
  <2>2. Events \subseteq Events'
    BY <1>2 DEF Events, Reserved, PaymentOf, CancelAt
  <2>3. status' \in [Orders -> {"absent", "PENDING", "PAID", "CANCELLED"}]
    BY <1>0 DEF TypeOK
  <2> QED
    BY <2>2, <2>3, <1>0, <1>2, <1>3 DEF OrderFrame, TypeOK, ledger, Ledger!Stages
<1>6. CancelsOK'
  <2>1. ASSUME NEW i \in DOMAIN cancels'
        PROVE  status'[cancels'[i].order] \in {"CANCELLED", "PAID"}
    <3>1. CASE i = n
      BY <3>1, <1>2, <1>3, <1>4
    <3>2. CASE i \in DOMAIN cancels
      <4>1. cancels[i].order \in Orders
        BY <3>2, <1>0, CancelledOrder
      <4> QED
        BY <4>1, <3>2, <1>0, <1>2, <1>3 DEF CancelsOK
    <3> QED
      BY <3>1, <3>2, <1>2
  <2>2. ASSUME NEW r \in Orders, status'[r] = "CANCELLED" PROVE CancelsOf(r)' # {}
    <3>1. CASE r = o
      BY <3>1, <1>2 DEF CancelsOf
    <3>2. CASE r # o
      BY <3>2, <2>2, <1>0, <1>2, <1>3 DEF CancelsOK, CancelsOf
    <3> QED
      BY <3>1, <3>2
  <2> QED
    BY <2>1, <2>2 DEF CancelsOK
<1>7. RefundsOK'
  BY <1>0, <1>2 DEF RefundsOK, OrderFrame, ledger, TypeOK
<1>8. ASSUME Undisturbed' PROVE Undisturbed
  BY <1>0, <1>2, <1>3, <1>8, UndisturbedBefore DEF TypeOK, OrderFrame
<1>9. ASSUME Undisturbed', NEW p \in Products, Balanced(p) PROVE Balanced(p)'
  <2>1. n \in CancelsOf(o)' /\ \A i \in CancelsOf(o) : i \in CancelsOf(o)' /\ i # n
    BY <1>2 DEF CancelsOf
  <2>2. CancelsOf(o) = {} /\ status'[o] # "PAID"
    BY <2>1, <1>9 DEF Undisturbed
  <2>3. status[o] = "PENDING"
    BY <2>2, <1>0, <1>3, <1>4 DEF CancelsOK
  <2>4. refunds[o] = 0
    <3>1. ~(refunds[o] > 0)
      BY <2>2, <1>0 DEF RefundsOK, CancelsOf, TypeOK
    <3> QED
      BY <3>1, <1>0 DEF TypeOK
  <2>5. Holding(p)' = Holding(p)
    BY <1>3, <2>3, <2>4 DEF Holding, ledger, OrderFrame
  <2> QED
    BY <2>5, <1>9, HoldingSame DEF ledger, OrderFrame
<1> QED
  BY <1>5, <1>6, <1>7, <1>8, <1>9 DEF SagaInv

\* A batch of one order emits one event.
LEMMA ExpireOne ==
    ASSUME NEW o \in Orders, Lifecycle!Expire({o}), TypeOK
    PROVE  /\ status[o] = "PENDING"
           /\ status' = [status EXCEPT ![o] = "CANCELLED"]
           /\ cancels' = Append(cancels, [order |-> o, event |-> None])
<1>1. Cardinality({o}) = 1
  BY FS_Singleton
<1>2. PICK s \in Lifecycle!BatchRows({o}) : cancels' = cancels \o s
  BY DEF Lifecycle!Expire
<1> DEFINE row == [order |-> o, event |-> None]
<1>3. s \in [1..1 -> {row}]
  BY <1>1 DEF Lifecycle!BatchRows, Lifecycle!CancelRow, Lifecycle!Cardinality, Cardinality
<1>4. s = <<row>>
  BY <1>3
<1>5. cancels \o <<row>> = Append(cancels, row)
  BY DEF TypeOK
<1>6. status[o] = "PENDING" /\ status' = [r \in Orders |-> IF r = o THEN "CANCELLED" ELSE status[r]]
  BY DEF Lifecycle!Expire
<1>7. status' = [status EXCEPT ![o] = "CANCELLED"]
  BY <1>6 DEF TypeOK
<1> QED
  BY <1>2, <1>4, <1>5, <1>6, <1>7

LEMMA ExpireInv ==
    ASSUME SagaInv, NEW o \in Orders, Expire(o)
    PROVE  SagaInv'
<1>1. TypeOK /\ OrderFrame
  BY DEF SagaInv, TypeOK, Expire, OrderFrame
<1>2. /\ status[o] = "PENDING"
      /\ status' = [status EXCEPT ![o] = "CANCELLED"]
      /\ cancels' = Append(cancels, [order |-> o, event |-> None])
  BY <1>1, ExpireOne DEF Expire
<1> QED
  BY <1>1, <1>2, CancelInv

LEMMA HandlePaymentInv ==
    ASSUME SagaInv, NEW p \in Payments, HandlePayment(p)
    PROVE  SagaInv'
<1>1. TypeOK /\ PaysFor[p] \in Orders
  BY SagaAssumption DEF SagaInv
<1>2. OrderFrame
  BY <1>1, SagaAssumption DEF TypeOK, HandlePayment, OrderFrame
<1>3. CASE p \in Declined
  BY <1>1, <1>2, <1>3, CancelInv
     DEF HandlePayment, Lifecycle!Decline, Lifecycle!CancelRow
<1>4. CASE p \notin Declined
  <2>1. Complete(PaysFor[p])
    BY <1>4 DEF HandlePayment
  <2>2. /\ UNCHANGED cancels
        /\ \/ UNCHANGED status
           \/ /\ status[PaysFor[p]] # "absent"
              /\ status' = [status EXCEPT ![PaysFor[p]] = "PAID"]
    BY <2>1 DEF Complete, Lifecycle!Pay, orders
  <2> QED
    BY <1>1, <1>2, <2>2, PaidInv
<1> QED
  BY <1>3, <1>4

-----------------------------------------------------------------------------
(* payment-service, parked events and the whole.                           *)

LEMMA ElsewhereInv ==
    ASSUME SagaInv, UNCHANGED <<ledger, orders, handled, settled, repeats>>, TypeOK'
    PROVE  SagaInv'
<1>1. CancelsOK' /\ RefundsOK'
  BY DEF SagaInv, CancelsOK, RefundsOK, CancelsOf, ledger, orders
<1>2. Undisturbed' <=> Undisturbed
  BY DEF Undisturbed, CancelsOf, orders
<1>3. ASSUME NEW p \in Products, Balanced(p) PROVE Balanced(p)'
  <2>1. Holding(p)' = Holding(p)
    BY DEF Holding, ledger, orders
  <2> QED
    BY <1>3, <2>1, HoldingSame DEF ledger
<1> QED
  BY <1>1, <1>2, <1>3 DEF SagaInv

LEMMA PayInv ==
    ASSUME SagaInv, NEW p \in Payments, Pay(p)
    PROVE  SagaInv'
<1>1. TypeOK'
  BY DEF SagaInv, TypeOK, Pay, ledger, orders, Ledger!Stages, Events, Reserved,
         PaymentOf, CancelAt
<1> QED
  BY <1>1, ElsewhereInv DEF Pay

LEMMA ParkInv ==
    ASSUME SagaInv, NEW e \in Pending, Park(e)
    PROVE  SagaInv'
<1>1. e \in Events
  BY DEF Pending, Events, SagaInv, TypeOK
<1>2. TypeOK'
  BY <1>1 DEF SagaInv, TypeOK, Park, ledger, orders, Ledger!Stages, Events, Reserved,
              PaymentOf, CancelAt
<1> QED
  BY <1>2, ElsewhereInv DEF Park

LEMMA NextInv == SagaInv /\ [Next]_vars => SagaInv'
<1> SUFFICES ASSUME SagaInv, [Next]_vars PROVE SagaInv'
  OBVIOUS
<1>1. ASSUME UNCHANGED vars PROVE SagaInv'
  <2>1. TypeOK'
    BY <1>1 DEF SagaInv, TypeOK, vars, ledger, orders, Ledger!Stages, Events,
                Reserved, PaymentOf, CancelAt
  <2> QED
    BY <1>1, <2>1, ElsewhereInv DEF vars
<1> QED
  BY <1>1, ReserveInv, AnnounceInv, RepairInv, CreateOrderInv, ExpireInv, PayInv,
     HandlePaymentInv, GiveBackInv, ParkInv DEF Next

-----------------------------------------------------------------------------
(* The composition.                                                        *)

\* A step of the saga is a step of inventory-service or leaves it alone.
LEMMA StepOfLedger ==
    ASSUME TypeOK, [Next]_vars
    PROVE  [Ledger!Next]_(Ledger!vars)
<1> SUFFICES ASSUME Next, ~(UNCHANGED ledger) PROVE Ledger!Next
  BY DEF vars, ledger, Ledger!vars
<1>1. ASSUME NEW o \in Orders, Reserve(o) PROVE Ledger!Next
  <2>1. PICK p \in Products : Ledger!Take(o, p, 1)
    BY <1>1 DEF Reserve
  <2>2. 1 \in 1..stock[p]
    BY <2>1 DEF TypeOK, Ledger!Take
  <2> QED
    BY <2>1, <2>2 DEF Ledger!Next
<1>2. ASSUME NEW o \in Orders, Announce(o) \/ Repair(o) PROVE Ledger!Next
  BY <1>2 DEF Announce, Repair, Ledger!Next
<1>3. ASSUME NEW i \in DOMAIN cancels, GiveBack(i) PROVE Ledger!Next
  BY <1>3, CancelledOrder DEF GiveBack, Ledger!Next
<1>4. \A o \in Orders : ~CreateOrder(o) /\ ~Expire(o)
  BY DEF CreateOrder, Expire
<1>5. \A p \in Payments : ~Pay(p) /\ ~HandlePayment(p)
  BY DEF Pay, HandlePayment
<1>6. \A e \in Pending : ~Park(e)
  BY DEF Park
<1> QED
  BY <1>1, <1>2, <1>3, <1>4, <1>5, <1>6 DEF Next

\* A step of the saga is a step of order-service or leaves it alone.
LEMMA StepOfLifecycle ==
    ASSUME SagaAssumption, [Next]_vars
    PROVE  [Lifecycle!Next]_(Lifecycle!vars)
<1> SUFFICES ASSUME Next, ~(UNCHANGED orders) PROVE Lifecycle!Next
  BY DEF vars, orders, Lifecycle!vars
<1>1. ASSUME NEW o \in Orders, CreateOrder(o) PROVE Lifecycle!Next
  BY <1>1 DEF CreateOrder, Lifecycle!Next
<1>2. ASSUME NEW o \in Orders, Expire(o) PROVE Lifecycle!Next
  <2>1. {o} \in SUBSET Orders
    OBVIOUS
  <2> QED
    BY <1>2, <2>1 DEF Expire, Lifecycle!Next
<1>3. ASSUME NEW p \in Payments, HandlePayment(p) PROVE Lifecycle!Next
  <2>1. PaysFor[p] \in Orders
    BY SagaAssumption DEF SagaAssumption
  <2>2. CASE p \in Declined
    BY <1>3, <2>1, <2>2 DEF HandlePayment, Lifecycle!Next
  <2>3. CASE p \notin Declined
    <3>1. Lifecycle!Pay(PaysFor[p])
      BY <1>3, <2>3 DEF HandlePayment, Complete
    <3> QED
      BY <2>1, <3>1 DEF Lifecycle!Next
  <2> QED
    BY <2>2, <2>3
<1>4. \A o \in Orders : ~Reserve(o) /\ ~Announce(o) /\ ~Repair(o)
  BY DEF Reserve, Announce, Repair
<1>5. \A p \in Payments : ~Pay(p)
  BY DEF Pay
<1>6. \A i \in DOMAIN cancels : ~GiveBack(i)
  BY DEF GiveBack
<1>7. \A e \in Pending : ~Park(e)
  BY DEF Park
<1> QED
  BY <1>1, <1>2, <1>3, <1>4, <1>5, <1>6, <1>7 DEF Next

-----------------------------------------------------------------------------
(* Theorems.                                                               *)

\* The inductive invariant of the saga: cancel events and refunds belong to
\* cancelled orders, and as long as nothing disturbs them the stock balances.
THEOREM SagaInvariant == Spec => []SagaInv
BY InitInv, NextInv, PTL DEF Spec

\* Type correctness, for any number of orders, products and payments.
THEOREM TypeCorrect == Spec => []TypeOK
<1>1. SagaInv => TypeOK
  BY DEF SagaInv
<1> QED
  BY <1>1, SagaInvariant, PTL

\* README.md:105: units are neither lost nor sold twice unless an event is
\* handled again, an order has two cancel events, or a cancelled one is paid.
THEOREM UnitsAreConserved == Spec => []Conserved
BY SagaInvariant, InvConserved, PTL

\* The saga has the two services do only what each of them promises: any
\* property of StockLedger and of OrderLifecycle holds of it, and no event,
\* repeated or parked, makes it take a step they do not allow.
THEOREM Composition == Spec => Ledger!Spec /\ Lifecycle!Spec
<1>1. Init => Ledger!Init /\ Lifecycle!Init
  BY DEF Init
<1>2. TypeOK /\ [Next]_vars => [Ledger!Next]_(Ledger!vars)
  BY StepOfLedger
<1>3. [Next]_vars => [Lifecycle!Next]_(Lifecycle!vars)
  BY StepOfLifecycle, SagaAssumption
<1> QED
  BY <1>1, <1>2, <1>3, TypeCorrect, PTL DEF Spec, Ledger!Spec, Lifecycle!Spec
===============================================================================
