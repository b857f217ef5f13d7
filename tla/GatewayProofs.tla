---------------------------- MODULE GatewayProofs ----------------------------
(***************************************************************************)
(* Proofs about Gateway: type correctness, that no wake-up is missed under *)
(* a subscription in effect, that what a client was told stays true, and   *)
(* that the endpoints change no order; for any number of requests,         *)
(* payments, orders and faults.                                            *)
(***************************************************************************)
EXTENDS Gateway, FiniteSetTheorems, TLAPS

-----------------------------------------------------------------------------
(* The inductive invariant.                                                *)

\* A change of the order since it was read is about to be published, or the
\* message was lost, or it is there.
Aware(r) ==
    Channel(r) = KeyOf[r] /\ status[KeyOf[r]] \notin {"absent", seen[r]} =>
        owed[KeyOf[r]] > 0 \/ KeyOf[r] \in lost \/ notified[r]

RequestOK(r) ==
    /\ armed[r] => pc[r] = "wait" /\ sub[r] = "active"
    /\ armed[r] /\ seen[r] # "error" => Aware(r)

\* ToldStaysTrue for one answer.
True(r) ==
    /\ answer[r] = "PAID" => status[KeyOf[r]] = "PAID"
    /\ answer[r] = "CANCELLED" => status[KeyOf[r]] \in {"CANCELLED", "PAID"}
    /\ answer[r] = "PENDING" => status[KeyOf[r]] # "absent"

GatewayInv ==
    /\ TypeOK
    /\ \A r \in Requests : RequestOK(r) /\ True(r)

LEMMA InvImplies ==
    ASSUME GatewayInv
    PROVE  TypeOK /\ NoMissedWakeup /\ ToldStaysTrue
<1>1. NoMissedWakeup
  <2> SUFFICES ASSUME NEW r \in Requests, armed[r], seen[r] # "error", Unaware(r)
               PROVE  FALSE
    BY DEF NoMissedWakeup
  <2>1. Aware(r)
    BY DEF GatewayInv, RequestOK
  <2>2. owed[KeyOf[r]] > 0
    BY <2>1 DEF Aware, Unaware
  <2> QED
    BY <2>2 DEF Unaware
<1>2. ToldStaysTrue
  BY DEF GatewayInv, True, ToldStaysTrue
<1> QED
  BY <1>1, <1>2 DEF GatewayInv

LEMMA InitInv == Init => GatewayInv
<1> SUFFICES ASSUME Init PROVE GatewayInv
  OBVIOUS
<1>1. status = [o \in Orders |-> "absent"] /\ cancels = <<>>
  BY DEF Init, Lifecycle!Init
<1>2. TypeOK
  <2>1. 0 \in 0..MaxFaults
    BY GatewayAssumption
  <2>2. /\ status \in [Orders -> Status]
        /\ cancels \in Seq([order : Orders, event : Declined \cup {None}])
    BY <1>1 DEF Status
  <2>3. /\ pc \in [Requests -> Steps] /\ seen \in [Requests -> Status \cup {"error"}]
        /\ answer \in [Requests \cup Payments -> Answers]
    BY DEF Init, Steps, Status, Answers
  <2> QED
    BY <2>1, <2>2, <2>3 DEF Init, TypeOK
<1>3. \A r \in Requests : RequestOK(r) /\ True(r)
  BY DEF Init, RequestOK, True
<1> QED
  BY <1>2, <1>3 DEF GatewayInv

-----------------------------------------------------------------------------
(* Frames.                                                                 *)

\* What a request that takes no part in a step keeps.
Same(r) ==
    /\ pc'[r] = pc[r] /\ mode'[r] = mode[r] /\ sub'[r] = sub[r]
    /\ seen'[r] = seen[r] /\ armed'[r] = armed[r] /\ answer'[r] = answer[r]

\* A step of one request.
LEMMA RequestFrame ==
    ASSUME GatewayInv, NEW r \in Requests, TypeOK', UNCHANGED service,
           \A s \in Requests \ {r} : Same(s) /\ notified'[s] = notified[s],
           RequestOK(r)', True(r)'
    PROVE  GatewayInv'
<1>1. ASSUME NEW s \in Requests \ {r} PROVE RequestOK(s)' /\ True(s)'
  <2>1. RequestOK(s) /\ True(s)
    BY DEF GatewayInv
  <2>2. Aware(s)' <=> Aware(s)
    BY <1>1 DEF Aware, Channel, Same, service
  <2>3. RequestOK(s)'
    BY <1>1, <2>1, <2>2 DEF RequestOK, Same
  <2>4. True(s)'
    BY <1>1, <2>1 DEF True, Same, service
  <2> QED
    BY <2>3, <2>4
<1> QED
  BY <1>1 DEF GatewayInv

\* How the status of an order moves.
Moves ==
    \A o \in Orders :
        /\ status[o] = "PAID" => status'[o] = "PAID"
        /\ status[o] = "CANCELLED" => status'[o] \in {"CANCELLED", "PAID"}
        /\ status[o] # "absent" => status'[o] # "absent"

\* A step of order-service, Redis or payment-service.
LEMMA ServiceFrame ==
    ASSUME GatewayInv, TypeOK', Moves, \A r \in Requests : Same(r),
           \A r \in Requests : armed[r] /\ seen[r] # "error" => Aware(r)'
    PROVE  GatewayInv'
<1>1. ASSUME NEW r \in Requests PROVE RequestOK(r)' /\ True(r)'
  <2>1. RequestOK(r)'
    BY DEF GatewayInv, RequestOK, Same
  <2>2. KeyOf[r] \in Orders
    BY GatewayAssumption
  <2>3. True(r)'
    BY <2>2 DEF GatewayInv, True, Same, Moves
  <2> QED
    BY <2>1, <2>3
<1> QED
  BY <1>1 DEF GatewayInv

-----------------------------------------------------------------------------
(* Requests.                                                               *)

\* An answer: what it changes, and that the request is done with.
LEMMA ReplyEffect ==
    ASSUME TypeOK, NEW r \in Requests, NEW a \in Answers, Reply(r, a)
    PROVE  /\ pc' \in [Requests -> Steps]
           /\ sub' \in [Requests -> {"none", "sent", "active"}]
           /\ seen' \in [Requests -> Status \cup {"error"}]
           /\ armed' \in [Requests -> BOOLEAN]
           /\ notified' \in [Requests -> BOOLEAN]
           /\ answer' \in [Requests \cup Payments -> Answers]
           /\ pc'[r] = "done" /\ answer'[r] = a /\ ~armed'[r]
           /\ \A s \in Requests \ {r} :
                /\ pc'[s] = pc[s] /\ sub'[s] = sub[s] /\ seen'[s] = seen[s]
                /\ armed'[s] = armed[s] /\ answer'[s] = answer[s]
                /\ notified'[s] = notified[s]
BY DEF TypeOK, Reply, Goto, Steps, Status

\* A request gets an answer.
LEMMA AnswerInv ==
    ASSUME GatewayInv, NEW r \in Requests, NEW a \in Answers, Reply(r, a),
           UNCHANGED <<service, saved, mode>>,
           reserved' \subseteq Orders, emitted' \subseteq Orders,
           faults' \in 0..MaxFaults, a \in Found => a = status[KeyOf[r]]
    PROVE  GatewayInv'
<1>0. TypeOK
  BY DEF GatewayInv
<1>1. /\ pc' \in [Requests -> Steps]
      /\ sub' \in [Requests -> {"none", "sent", "active"}]
      /\ seen' \in [Requests -> Status \cup {"error"}]
      /\ armed' \in [Requests -> BOOLEAN]
      /\ notified' \in [Requests -> BOOLEAN]
      /\ answer' \in [Requests \cup Payments -> Answers]
      /\ pc'[r] = "done" /\ answer'[r] = a /\ ~armed'[r]
      /\ \A s \in Requests \ {r} :
           /\ pc'[s] = pc[s] /\ sub'[s] = sub[s] /\ seen'[s] = seen[s]
           /\ armed'[s] = armed[s] /\ answer'[s] = answer[s]
           /\ notified'[s] = notified[s]
  BY <1>0, ReplyEffect
<1>2. TypeOK'
  BY <1>0, <1>1 DEF TypeOK, service
<1>3. \A s \in Requests \ {r} : Same(s) /\ notified'[s] = notified[s]
  BY <1>1 DEF Same
<1>4. RequestOK(r)'
  BY <1>1 DEF RequestOK
<1>5. True(r)'
  BY <1>0, <1>1 DEF True, Found, Status, service
<1> QED
  BY <1>2, <1>3, <1>4, <1>5, RequestFrame

LEMMA GetOrderType ==
    ASSUME TypeOK, NEW r \in Requests, NEW v, GetOrder(r, v)
    PROVE  /\ v \in Status \cup {"error"}
           /\ v # "error" => v = status[KeyOf[r]]
           /\ faults' \in 0..MaxFaults
<1>1. status[KeyOf[r]] \in Status
  BY GatewayAssumption DEF TypeOK
<1>2. UNCHANGED faults \/ Fault
  BY DEF GetOrder
<1>3. faults' \in 0..MaxFaults
  BY <1>2, GatewayAssumption DEF TypeOK, Fault
<1> QED
  BY <1>1, <1>3 DEF GetOrder

LEMMA AdmitInv ==
    ASSUME GatewayInv, NEW r \in Requests, NEW m \in Endpoints[r], Admit(r, m)
    PROVE  GatewayInv'
<1>0. TypeOK
  BY DEF GatewayInv
<1>1. /\ pc[r] = "idle" /\ KeyOf[r] \in Orders
      /\ reserved' = reserved \cup {KeyOf[r]} /\ emitted' = emitted \cup {KeyOf[r]}
      /\ UNCHANGED <<service, saved, faults>>
  BY GatewayAssumption DEF Admit, Starts
<1>2. reserved' \subseteq Orders /\ emitted' \subseteq Orders
  BY <1>0, <1>1 DEF TypeOK
<1>3. CASE Reply(r, "accepted") /\ UNCHANGED mode
  <2>1. "accepted" \in Answers /\ "accepted" \notin Found
    BY DEF Answers, Found, Status
  <2>2. faults' \in 0..MaxFaults
    BY <1>0, <1>1 DEF TypeOK
  <2> QED
    BY <1>1, <1>2, <1>3, <2>1, <2>2, AnswerInv
<1>4. ASSUME NEW step \in {"poll", "subscribe"}, m \in Waiting,
             mode' = [mode EXCEPT ![r] = m], Goto(r, step),
             UNCHANGED <<waiter, answer>>
      PROVE  GatewayInv'
  <2>1. pc' = [pc EXCEPT ![r] = step]
    BY <1>4 DEF Goto
  <2>2. UNCHANGED <<sub, seen, armed, notified>>
    BY <1>4 DEF waiter
  <2>3. TypeOK'
    BY <1>0, <1>1, <1>2, <1>4, <2>1, <2>2 DEF TypeOK, Steps, service
  <2>4. \A s \in Requests \ {r} : Same(s) /\ notified'[s] = notified[s]
    BY <1>4, <1>0, <2>1, <2>2 DEF Same, TypeOK
  <2>5. RequestOK(r) /\ True(r)
    BY DEF GatewayInv
  <2>6. ~armed[r]
    BY <1>1, <2>5 DEF RequestOK
  <2>7. RequestOK(r)'
    BY <2>2, <2>6 DEF RequestOK
  <2>8. True(r)'
    BY <1>1, <1>4, <2>5 DEF True, service
  <2> QED
    BY <1>1, <2>3, <2>4, <2>7, <2>8, RequestFrame
<1> QED
  BY <1>3, <1>4 DEF Admit

LEMMA RefuseInv ==
    ASSUME GatewayInv, NEW r \in Requests, NEW m \in Endpoints[r], Refuse(r, m)
    PROVE  GatewayInv'
<1>0. TypeOK /\ KeyOf[r] \in Orders
  BY GatewayAssumption DEF GatewayInv
<1>1. Reply(r, "refused") /\ UNCHANGED <<service, saved, mode>>
  BY DEF Refuse
<1>2. /\ reserved' \subseteq Orders /\ emitted' \subseteq Orders
      /\ faults' \in 0..MaxFaults
  BY <1>0, GatewayAssumption DEF Refuse, TypeOK, Fault, stock
<1>3. "refused" \in Answers /\ "refused" \notin Found
  BY DEF Answers, Found, Status
<1> QED
  BY <1>1, <1>2, <1>3, AnswerInv

\* A request that reserves nothing gets an answer.
LEMMA AnsweredInv ==
    ASSUME GatewayInv, NEW r \in Requests,
           NEW a \in Answers, Reply(r, a), a \in Found => a = status[KeyOf[r]],
           UNCHANGED <<service, stock, saved, mode>>, faults' \in 0..MaxFaults
    PROVE  GatewayInv'
<1>1. reserved' \subseteq Orders /\ emitted' \subseteq Orders
  BY DEF GatewayInv, TypeOK, stock
<1> QED
  BY <1>1, AnswerInv

LEMMA SubscribeInv ==
    ASSUME GatewayInv, NEW r \in Requests, Subscribe(r)
    PROVE  GatewayInv'
<1>0. TypeOK
  BY DEF GatewayInv
<1>1. /\ pc[r] = "subscribe" /\ pc' = [pc EXCEPT ![r] = "read"]
      /\ sub' = [sub EXCEPT ![r] = "sent"]
      /\ UNCHANGED <<service, stock, saved, mode, seen, armed, notified,
                     answer, faults>>
  BY DEF Subscribe, Goto
<1>2. TypeOK'
  BY <1>0, <1>1 DEF TypeOK, Steps, service, stock
<1>3. /\ pc'[r] = "read"
      /\ \A s \in Requests \ {r} : Same(s) /\ notified'[s] = notified[s]
  BY <1>0, <1>1 DEF TypeOK, Same
<1>4. RequestOK(r) /\ True(r)
  BY DEF GatewayInv
<1>5. ~armed[r]
  BY <1>1, <1>4 DEF RequestOK
<1>6. RequestOK(r)'
  BY <1>1, <1>3, <1>4, <1>5 DEF RequestOK
<1>7. True(r)'
  BY <1>1, <1>4 DEF True, service
<1> QED
  BY <1>1, <1>2, <1>3, <1>4, <1>6, <1>7, RequestFrame

LEMMA FastPathInv ==
    ASSUME GatewayInv, NEW r \in Requests, FastPath(r)
    PROVE  GatewayInv'
<1>0. TypeOK
  BY DEF GatewayInv
<1>1. PICK v \in Status \cup {"error"} :
        /\ GetOrder(r, v)
        /\ IF v \in Found \ {"PENDING"}
             THEN Reply(r, v)
             ELSE /\ Goto(r, "wait")
                  /\ seen' = [seen EXCEPT ![r] = v]
                  /\ armed' = [armed EXCEPT ![r] = sub[r] = "active"]
                  /\ UNCHANGED <<answer, sub, notified>>
  BY DEF FastPath
<1>2. pc[r] = "read" /\ UNCHANGED <<service, stock, saved, mode>>
  BY DEF FastPath
<1>3. (v # "error" => v = status[KeyOf[r]]) /\ faults' \in 0..MaxFaults
  BY <1>0, <1>1, GetOrderType
<1>4. CASE v \in Found \ {"PENDING"}
  <2>1. v \in Answers /\ v # "error"
    BY <1>4 DEF Answers, Found, Status
  <2> QED
    BY <1>1, <1>2, <1>3, <1>4, <2>1, AnsweredInv
<1>5. CASE v \notin Found \ {"PENDING"}
  <2>1. /\ pc' = [pc EXCEPT ![r] = "wait"] /\ seen' = [seen EXCEPT ![r] = v]
        /\ armed' = [armed EXCEPT ![r] = (sub[r] = "active")]
        /\ UNCHANGED <<answer, sub, notified>>
    BY <1>1, <1>5 DEF Goto
  <2>2. TypeOK'
    <3>1. (sub[r] = "active") \in BOOLEAN
      OBVIOUS
    <3>2. armed' \in [Requests -> BOOLEAN]
      BY <1>0, <2>1, <3>1 DEF TypeOK
    <3> QED
      BY <1>0, <1>2, <1>3, <2>1, <3>2 DEF TypeOK, Steps, service, stock
  <2>3. /\ pc'[r] = "wait" /\ seen'[r] = v /\ (armed'[r] => sub'[r] = "active")
        /\ \A s \in Requests \ {r} : Same(s) /\ notified'[s] = notified[s]
    BY <1>0, <1>2, <2>1 DEF TypeOK, Same
  <2>4. RequestOK(r) /\ True(r)
    BY DEF GatewayInv
  <2>5. v # "error" => Aware(r)'
    BY <1>2, <1>3, <2>3 DEF Aware, service
  <2>6. RequestOK(r)'
    BY <1>2, <2>1, <2>3, <2>4, <2>5 DEF RequestOK
  <2>7. True(r)'
    BY <1>2, <2>1, <2>4 DEF True, service
  <2> QED
    BY <1>2, <2>2, <2>3, <2>4, <2>6, <2>7, RequestFrame
<1> QED
  BY <1>4, <1>5

LEMMA WakeInv ==
    ASSUME GatewayInv, NEW r \in Requests, Wake(r)
    PROVE  GatewayInv'
<1>0. TypeOK
  BY DEF GatewayInv
<1>1. PICK v \in Status \cup {"error"} :
        GetOrder(r, v) /\ Reply(r, IF v \in Found THEN v ELSE "SUCCESS")
  BY DEF Wake
<1>2. pc[r] = "wait" /\ UNCHANGED <<service, stock, saved, mode>>
  BY DEF Wake
<1>3. (v # "error" => v = status[KeyOf[r]]) /\ faults' \in 0..MaxFaults
  BY <1>0, <1>1, GetOrderType
<1>4. PICK a : a = IF v \in Found THEN v ELSE "SUCCESS"
  OBVIOUS
<1>5. a \in Answers /\ (a \in Found => a = status[KeyOf[r]])
  BY <1>3, <1>4 DEF Answers, Found, Status
<1> QED
  BY <1>1, <1>2, <1>3, <1>4, <1>5, AnsweredInv

LEMMA PollInv ==
    ASSUME GatewayInv, NEW r \in Requests, Poll(r)
    PROVE  GatewayInv'
<1>0. TypeOK
  BY DEF GatewayInv
<1>1. PICK v \in Status \cup {"error"} :
        /\ GetOrder(r, v)
        /\ IF v \in Found THEN Reply(r, v) ELSE UNCHANGED <<pc, waiter, answer>>
  BY DEF Poll
<1>2. pc[r] = "poll" /\ UNCHANGED <<service, stock, saved, mode>>
  BY DEF Poll
<1>3. (v # "error" => v = status[KeyOf[r]]) /\ faults' \in 0..MaxFaults
  BY <1>0, <1>1, GetOrderType
<1>4. CASE v \in Found
  <2>1. v \in Answers /\ v # "error"
    BY <1>4 DEF Answers, Found, Status
  <2> QED
    BY <1>1, <1>2, <1>3, <1>4, <2>1, AnsweredInv
<1>5. CASE v \notin Found
  <2>1. UNCHANGED <<pc, sub, seen, armed, notified, answer>>
    BY <1>1, <1>5 DEF waiter
  <2>2. TypeOK'
    BY <1>0, <1>2, <1>3, <2>1 DEF TypeOK, service, stock
  <2>3. Moves /\ \A s \in Requests : Same(s)
    BY <1>2, <2>1 DEF Moves, Same, service
  <2>4. \A s \in Requests : armed[s] /\ seen[s] # "error" => Aware(s)'
    BY <1>2, <2>1 DEF GatewayInv, RequestOK, Aware, Channel, service
  <2> QED
    BY <1>2, <2>2, <2>3, <2>4, ServiceFrame
<1> QED
  BY <1>4, <1>5

LEMMA TimeOutInv ==
    ASSUME GatewayInv, NEW r \in Requests, TimeOut(r)
    PROVE  GatewayInv'
<1>1. PICK a : a = IF mode[r] = "sse" THEN "closed" ELSE "timeout"
  OBVIOUS
<1>2. a \in Answers /\ a \notin Found
  BY <1>1 DEF Answers, Found, Status
<1>3. /\ pc[r] \in {"wait", "poll"} /\ Reply(r, a)
      /\ UNCHANGED <<service, stock, saved, mode, faults>>
  BY <1>1 DEF TimeOut
<1>4. faults' \in 0..MaxFaults
  BY <1>3 DEF GatewayInv, TypeOK
<1> QED
  BY <1>2, <1>3, <1>4, AnsweredInv

LEMMA QueryOrderInv ==
    ASSUME GatewayInv, NEW r \in Requests, QueryOrder(r)
    PROVE  GatewayInv'
<1>0. TypeOK
  BY DEF GatewayInv
<1>1. PICK v \in Status \cup {"error"} :
        GetOrder(r, v) /\ Reply(r, IF v = "absent" THEN "notfound" ELSE v)
  BY DEF QueryOrder
<1>2. UNCHANGED <<service, stock, saved, mode>>
  BY DEF QueryOrder
<1>3. (v # "error" => v = status[KeyOf[r]]) /\ faults' \in 0..MaxFaults
  BY <1>0, <1>1, GetOrderType
<1>4. PICK a : a = IF v = "absent" THEN "notfound" ELSE v
  OBVIOUS
<1>5. a \in Answers /\ (a \in Found => a = status[KeyOf[r]])
  BY <1>3, <1>4 DEF Answers, Found, Status
<1> QED
  BY <1>1, <1>2, <1>3, <1>4, <1>5, AnsweredInv

-----------------------------------------------------------------------------
(* Payments and Redis.                                                     *)

LEMMA PayInv ==
    ASSUME GatewayInv, NEW p \in Payments, Pay(p)
    PROVE  GatewayInv'
<1>0. TypeOK
  BY DEF GatewayInv
<1>1. /\ answer[p] = "none" /\ saved' \in {saved, saved \cup {p}}
      /\ UNCHANGED <<service, stock, mode, pc, waiter>>
  BY DEF Pay
<1>2. PICK a \in {"paid", "error"} : answer' = [answer EXCEPT ![p] = a]
  BY DEF Pay
<1>3. faults' \in 0..MaxFaults
  BY <1>0, GatewayAssumption DEF Pay, Fault, TypeOK
<1>4. TypeOK'
  BY <1>0, <1>1, <1>2, <1>3 DEF TypeOK, Answers, service, waiter, stock
<1>5. \A r \in Requests :
        \/ answer'[r] = answer[r]
        \/ answer[r] = "none" /\ answer'[r] \in {"paid", "error"}
  BY <1>0, <1>1, <1>2 DEF TypeOK
<1>6. ASSUME NEW r \in Requests PROVE RequestOK(r)' /\ True(r)'
  <2>1. RequestOK(r) /\ True(r)
    BY DEF GatewayInv
  <2>2. Aware(r)' <=> Aware(r)
    BY <1>1 DEF Aware, Channel, service, waiter
  <2>3. RequestOK(r)'
    BY <1>1, <2>1, <2>2 DEF RequestOK, waiter
  <2>4. True(r)'
    BY <1>1, <1>5, <2>1 DEF True, service
  <2> QED
    BY <2>3, <2>4
<1> QED
  BY <1>4, <1>6 DEF GatewayInv

LEMMA TakeEffectInv ==
    ASSUME GatewayInv, NEW r \in Requests, TakeEffect(r)
    PROVE  GatewayInv'
<1>0. TypeOK
  BY DEF GatewayInv
<1>1. /\ sub[r] = "sent" /\ sub' = [sub EXCEPT ![r] = "active"]
      /\ UNCHANGED <<service, stock, saved, mode, pc, seen, armed, notified,
                     answer, faults>>
  BY DEF TakeEffect
<1>2. TypeOK'
  BY <1>0, <1>1 DEF TypeOK, service, stock
<1>3. \A s \in Requests \ {r} : Same(s) /\ notified'[s] = notified[s]
  BY <1>0, <1>1 DEF TypeOK, Same
<1>4. RequestOK(r) /\ True(r)
  BY DEF GatewayInv
<1>5. ~armed[r]
  BY <1>1, <1>4 DEF RequestOK
<1>6. RequestOK(r)'
  BY <1>1, <1>4, <1>5 DEF RequestOK
<1>7. True(r)'
  BY <1>1, <1>4 DEF True, service
<1> QED
  BY <1>1, <1>2, <1>3, <1>6, <1>7, RequestFrame

LEMMA DisconnectInv ==
    ASSUME GatewayInv, NEW r \in Requests, Disconnect(r)
    PROVE  GatewayInv'
<1>0. TypeOK
  BY DEF GatewayInv
<1>1. /\ sub' = [sub EXCEPT ![r] = "sent"] /\ armed' = [armed EXCEPT ![r] = FALSE]
      /\ Fault
      /\ UNCHANGED <<service, stock, saved, mode, pc, seen, notified, answer>>
  BY DEF Disconnect
<1>2. faults' \in 0..MaxFaults
  BY <1>0, <1>1, GatewayAssumption DEF TypeOK, Fault
<1>3. TypeOK'
  BY <1>0, <1>1, <1>2 DEF TypeOK, service, stock
<1>4. \A s \in Requests \ {r} : Same(s) /\ notified'[s] = notified[s]
  BY <1>0, <1>1 DEF TypeOK, Same
<1>5. ~armed'[r]
  BY <1>0, <1>1 DEF TypeOK
<1>6. RequestOK(r) /\ True(r)
  BY DEF GatewayInv
<1>7. RequestOK(r)'
  BY <1>1, <1>5, <1>6 DEF RequestOK
<1>8. True(r)'
  BY <1>1, <1>6 DEF True, service
<1> QED
  BY <1>1, <1>3, <1>4, <1>7, <1>8, RequestFrame

-----------------------------------------------------------------------------
(* order-service.                                                          *)

\* A commit that owes a publication in channel c changes no other order.
LEMMA ChangeInv ==
    ASSUME GatewayInv, NEW c \in Channels, Moves,
           \A x \in Orders \ {c} : status'[x] = status[x],
           status' \in [Orders -> Status],
           cancels' \in Seq([order : Orders, event : Declined \cup {None}]),
           owed' = [owed EXCEPT ![c] = @ + 1], handled' \subseteq saved,
           UNCHANGED <<lost, stock, saved, mode, pc, waiter, answer, faults>>
    PROVE  GatewayInv'
<1>0. TypeOK
  BY DEF GatewayInv
<1>1. TypeOK'
  BY <1>0 DEF TypeOK, waiter, stock
<1>2. \A r \in Requests : Same(r)
  BY DEF Same, waiter
<1>3. ASSUME NEW r \in Requests, armed[r], seen[r] # "error" PROVE Aware(r)'
  <2>1. Aware(r) /\ KeyOf[r] \in Orders
    BY <1>3, GatewayAssumption DEF GatewayInv, RequestOK
  <2>2. CASE KeyOf[r] = c
    <3>1. owed'[c] > 0
      BY <1>0 DEF TypeOK
    <3> QED
      BY <2>2, <3>1 DEF Aware
  <2>3. CASE KeyOf[r] # c
    <3>1. owed'[KeyOf[r]] = owed[KeyOf[r]] /\ status'[KeyOf[r]] = status[KeyOf[r]]
      BY <1>0, <2>1, <2>3 DEF TypeOK, Channels
    <3> QED
      BY <2>1, <3>1 DEF Aware, Channel, waiter
  <2> QED
    BY <2>2, <2>3
<1> QED
  BY <1>1, <1>2, <1>3, ServiceFrame

LEMMA CreateOrderInv ==
    ASSUME GatewayInv, NEW o \in Orders, CreateOrder(o)
    PROVE  GatewayInv'
<1>0. TypeOK
  BY DEF GatewayInv
<1>1. /\ status[o] = "absent" /\ status' = [status EXCEPT ![o] = "PENDING"]
      /\ UNCHANGED cancels
  BY DEF CreateOrder, Lifecycle!Create
<1>2. /\ Moves /\ status' \in [Orders -> Status]
      /\ \A x \in Orders \ {o} : status'[x] = status[x]
  BY <1>0, <1>1 DEF TypeOK, Moves, Status
<1>3. /\ owed' = [owed EXCEPT ![o] = @ + 1]
      /\ UNCHANGED <<lost, handled, stock, saved, mode, pc, waiter, answer, faults>>
  BY DEF CreateOrder
<1>4. handled' \subseteq saved
      /\ cancels' \in Seq([order : Orders, event : Declined \cup {None}])
  BY <1>0, <1>1, <1>3 DEF TypeOK
<1>5. o \in Channels
  BY DEF Channels
<1> QED
  BY <1>2, <1>3, <1>4, <1>5, ChangeInv

LEMMA HandlePaymentInv ==
    ASSUME GatewayInv, NEW p \in Payments, HandlePayment(p)
    PROVE  GatewayInv'
<1>0. TypeOK
  BY DEF GatewayInv
<1>1. PICK c \in Channels : c = PaysFor[p]
  BY GatewayAssumption
<1>2. /\ p \in saved /\ handled' = handled \cup {p}
      /\ owed' = [owed EXCEPT ![c] = @ + 1]
      /\ UNCHANGED <<lost, stock, saved, mode, pc, waiter, answer, faults>>
  BY <1>1 DEF HandlePayment
<1>3. \/ UNCHANGED <<status, cancels>>
      \/ /\ c \in Orders
         /\ status[c] # "absent" /\ status' = [status EXCEPT ![c] = "PAID"]
         /\ UNCHANGED cancels
      \/ /\ c \in Orders /\ p \in Declined /\ status[c] # "absent"
         /\ status' = IF status[c] = "PENDING"
                        THEN [status EXCEPT ![c] = "CANCELLED"] ELSE status
         /\ cancels' = Append(cancels, [order |-> c, event |-> p])
  BY <1>1 DEF HandlePayment, Lifecycle!Pay, Lifecycle!Decline, Lifecycle!CancelRow
<1>4. /\ Moves /\ status' \in [Orders -> Status]
      /\ \A x \in Orders \ {c} : status'[x] = status[x]
  BY <1>0, <1>3 DEF TypeOK, Moves, Status
<1>5. cancels' \in Seq([order : Orders, event : Declined \cup {None}])
  <2>1. CASE UNCHANGED cancels
    BY <1>0, <2>1 DEF TypeOK
  <2>2. CASE /\ c \in Orders /\ p \in Declined
             /\ cancels' = Append(cancels, [order |-> c, event |-> p])
    <3>1. [order |-> c, event |-> p] \in [order : Orders, event : Declined \cup {None}]
      BY <2>2
    <3> QED
      BY <1>0, <2>2, <3>1 DEF TypeOK
  <2> QED
    BY <1>3, <2>1, <2>2
<1>6. handled' \subseteq saved
  BY <1>0, <1>2 DEF TypeOK
<1> QED
  BY <1>2, <1>4, <1>5, <1>6, ChangeInv

LEMMA PublishInv ==
    ASSUME GatewayInv, NEW c \in Channels, Publish(c)
    PROVE  GatewayInv'
<1>0. TypeOK
  BY DEF GatewayInv
<1>1. /\ owed[c] > 0 /\ owed' = [owed EXCEPT ![c] = @ - 1]
      /\ notified' = [r \in Requests |->
           notified[r] \/ (sub[r] = "active" /\ Channel(r) = c)]
      /\ UNCHANGED <<status, cancels, lost, handled, stock, saved, mode, pc,
                     sub, seen, armed, answer, faults>>
  BY DEF Publish, Notify
<1>2. notified' \in [Requests -> BOOLEAN]
  BY <1>0, <1>1 DEF TypeOK
<1>3. owed' \in [Channels -> Nat]
  BY <1>0, <1>1 DEF TypeOK
<1>4. TypeOK'
  BY <1>0, <1>1, <1>2, <1>3 DEF TypeOK, stock
<1>5. Moves /\ \A r \in Requests : Same(r)
  BY <1>1 DEF Moves, Same
<1>6. ASSUME NEW r \in Requests, armed[r], seen[r] # "error" PROVE Aware(r)'
  <2>1. Aware(r) /\ KeyOf[r] \in Channels /\ sub[r] = "active"
    BY <1>6, GatewayAssumption DEF GatewayInv, RequestOK, Channels
  <2>2. notified'[r] <=> notified[r] \/ Channel(r) = c
    BY <1>1, <2>1
  <2>3. Channel(r)' = Channel(r)
    BY <1>1 DEF Channel
  <2>4. KeyOf[r] # c => owed'[KeyOf[r]] = owed[KeyOf[r]]
    BY <1>0, <1>1, <2>1 DEF TypeOK
  <2> QED
    BY <1>1, <2>1, <2>2, <2>3, <2>4 DEF Aware
<1> QED
  BY <1>4, <1>5, <1>6, ServiceFrame

LEMMA LosePublishInv ==
    ASSUME GatewayInv, NEW c \in Channels, LosePublish(c)
    PROVE  GatewayInv'
<1>0. TypeOK
  BY DEF GatewayInv
<1>1. /\ owed[c] > 0 /\ owed' = [owed EXCEPT ![c] = @ - 1] /\ lost' = lost \cup {c}
      /\ UNCHANGED <<status, cancels, handled, stock, saved, mode, pc, waiter, answer>>
  BY DEF LosePublish
<1>2. faults' \in 0..MaxFaults
  BY <1>0, GatewayAssumption DEF LosePublish, Fault, TypeOK
<1>3. owed' \in [Channels -> Nat]
  BY <1>0, <1>1 DEF TypeOK
<1>4. TypeOK'
  BY <1>0, <1>1, <1>2, <1>3 DEF TypeOK, waiter, stock
<1>5. Moves /\ \A r \in Requests : Same(r)
  BY <1>1 DEF Moves, Same, waiter
<1>6. ASSUME NEW r \in Requests, armed[r], seen[r] # "error" PROVE Aware(r)'
  <2>1. Aware(r) /\ KeyOf[r] \in Channels
    BY <1>6, GatewayAssumption DEF GatewayInv, RequestOK, Channels
  <2>2. KeyOf[r] # c => owed'[KeyOf[r]] = owed[KeyOf[r]]
    BY <1>0, <1>1, <2>1 DEF TypeOK
  <2> QED
    BY <1>1, <2>1, <2>2 DEF Aware, Channel, waiter
<1> QED
  BY <1>4, <1>5, <1>6, ServiceFrame

LEMMA RepublishInv ==
    ASSUME GatewayInv, NEW c \in Channels, Republish(c)
    PROVE  GatewayInv'
<1>0. TypeOK
  BY DEF GatewayInv
<1>1. /\ notified' = [r \in Requests |->
           notified[r] \/ (sub[r] = "active" /\ Channel(r) = c)]
      /\ UNCHANGED <<status, cancels, owed, lost, handled, stock, saved, mode,
                     pc, sub, seen, armed, answer, faults>>
  BY DEF Republish, Notify, service
<1>2. TypeOK'
  BY <1>0, <1>1 DEF TypeOK, stock
<1>3. Moves /\ \A r \in Requests : Same(r)
  BY <1>1 DEF Moves, Same
<1>4. ASSUME NEW r \in Requests, armed[r], seen[r] # "error" PROVE Aware(r)'
  <2>1. Aware(r)
    BY <1>4 DEF GatewayInv, RequestOK
  <2>2. notified[r] => notified'[r]
    BY <1>1
  <2> QED
    BY <1>1, <2>1, <2>2 DEF Aware, Channel
<1> QED
  BY <1>2, <1>3, <1>4, ServiceFrame

LEMMA ExpireInv ==
    ASSUME GatewayInv, NEW o \in Orders, Expire(o)
    PROVE  GatewayInv'
<1>0. TypeOK
  BY DEF GatewayInv
<1>1. /\ status[o] = "PENDING"
      /\ status' = [x \in Orders |-> IF x = o THEN "CANCELLED" ELSE status[x]]
      /\ lost' = IF \E r \in Requests : KeyOf[r] = o /\ OnItsWay(r)
                 THEN lost \cup {o} ELSE lost
      /\ UNCHANGED <<owed, handled, stock, saved, mode, pc, waiter, answer, faults>>
  BY DEF Expire, Lifecycle!Expire
<1>2. cancels' = Append(cancels, [order |-> o, event |-> None])
  <2> DEFINE row == [order |-> o, event |-> None]
  <2>1. PICK s \in Lifecycle!BatchRows({o}) : cancels' = cancels \o s
    BY DEF Expire, Lifecycle!Expire
  <2>2. Cardinality({o}) = 1
    BY FS_Singleton
  <2>3. s \in [1..1 -> {row}]
    BY <2>2 DEF Lifecycle!BatchRows, Lifecycle!CancelRow, Lifecycle!Cardinality,
                Cardinality
  <2>4. s = <<row>>
    BY <2>3
  <2>5. cancels \o <<row>> = Append(cancels, row)
    BY <1>0 DEF TypeOK
  <2> QED
    BY <2>1, <2>4, <2>5
<1>3. cancels' \in Seq([order : Orders, event : Declined \cup {None}])
  <2>1. [order |-> o, event |-> None] \in [order : Orders, event : Declined \cup {None}]
    OBVIOUS
  <2> QED
    BY <1>0, <1>2, <2>1 DEF TypeOK
<1>4. TypeOK'
  BY <1>0, <1>1, <1>3 DEF TypeOK, Status, Channels, waiter, stock
<1>5. Moves /\ \A r \in Requests : Same(r)
  BY <1>1 DEF Moves, Same, waiter
<1>6. ASSUME NEW r \in Requests, armed[r], seen[r] # "error" PROVE Aware(r)'
  <2>1. Aware(r) /\ pc[r] = "wait" /\ KeyOf[r] \in Orders
    BY <1>6, GatewayAssumption DEF GatewayInv, RequestOK
  <2>2. CASE KeyOf[r] = o
    BY <1>1, <2>1, <2>2 DEF Aware, OnItsWay
  <2>3. CASE KeyOf[r] # o
    <3>1. status'[KeyOf[r]] = status[KeyOf[r]]
      BY <1>1, <2>1, <2>3
    <3> QED
      BY <1>1, <2>1, <3>1 DEF Aware, Channel, waiter
  <2> QED
    BY <2>2, <2>3
<1> QED
  BY <1>4, <1>5, <1>6, ServiceFrame

LEMMA FreeKeyInv ==
    ASSUME GatewayInv, NEW o \in Orders, FreeKey(o)
    PROVE  GatewayInv'
<1>0. TypeOK
  BY DEF GatewayInv
<1>1. /\ reserved' = reserved \ {o}
      /\ UNCHANGED <<status, cancels, owed, lost, handled, emitted, saved, mode, pc,
                     sub, seen, armed, notified, answer, faults>>
  BY DEF FreeKey, service, waiter
<1>2. TypeOK'
  BY <1>0, <1>1 DEF TypeOK
<1>3. Moves /\ \A r \in Requests : Same(r)
  BY <1>1 DEF Moves, Same
<1>4. \A r \in Requests : armed[r] /\ seen[r] # "error" => Aware(r)'
  BY <1>1 DEF GatewayInv, RequestOK, Aware, Channel
<1> QED
  BY <1>2, <1>3, <1>4, ServiceFrame

-----------------------------------------------------------------------------
(* Every step keeps the invariant.                                         *)

LEMMA NextInv == GatewayInv /\ [Next]_vars => GatewayInv'
<1> SUFFICES ASSUME GatewayInv, [Next]_vars PROVE GatewayInv'
  OBVIOUS
<1>1. ASSUME UNCHANGED vars PROVE GatewayInv'
  <2>1. UNCHANGED <<status, cancels, owed, lost, handled, stock, saved, mode,
                    pc, sub, seen, armed, notified, answer, faults>>
    BY <1>1 DEF vars, service, waiter, stock
  <2>2. TypeOK'
    BY <2>1 DEF GatewayInv, TypeOK, stock
  <2>3. Moves /\ \A r \in Requests : Same(r)
    BY <2>1 DEF Moves, Same
  <2>4. \A r \in Requests : armed[r] /\ seen[r] # "error" => Aware(r)'
    BY <2>1 DEF GatewayInv, RequestOK, Aware, Channel
  <2> QED
    BY <2>1, <2>2, <2>3, <2>4, ServiceFrame
<1> QED
  BY <1>1, AdmitInv, RefuseInv, QueryOrderInv, SubscribeInv, FastPathInv, WakeInv,
     PollInv, TimeOutInv, TakeEffectInv, DisconnectInv, PayInv, HandlePaymentInv,
     CreateOrderInv, PublishInv, LosePublishInv, RepublishInv, ExpireInv,
     FreeKeyInv
     DEF Next, Handle

-----------------------------------------------------------------------------
(* The composition.                                                        *)

\* A step that changes an order is a step of order-service.
LEMMA StepOfLifecycle ==
    ASSUME [Next]_vars
    PROVE  [Lifecycle!Next]_(Lifecycle!vars)
<1> SUFFICES ASSUME Next, ~(UNCHANGED <<status, cancels>>) PROVE Lifecycle!Next
  BY DEF vars, service, Lifecycle!vars
<1>1. ASSUME NEW o \in Orders, CreateOrder(o) PROVE Lifecycle!Next
  BY <1>1 DEF CreateOrder, Lifecycle!Next
<1>2. ASSUME NEW o \in Orders, Expire(o) PROVE Lifecycle!Next
  <2>1. {o} \in SUBSET Orders
    OBVIOUS
  <2> QED
    BY <1>2, <2>1 DEF Expire, Lifecycle!Next
<1>3. ASSUME NEW p \in Payments, HandlePayment(p) PROVE Lifecycle!Next
  <2>1. CASE p \in Declined
    BY <1>3, <2>1 DEF HandlePayment, Lifecycle!Next
  <2>2. CASE p \notin Declined
    <3>1. PaysFor[p] \in Orders /\ Lifecycle!Pay(PaysFor[p])
      BY <1>3, <2>2 DEF HandlePayment
    <3> QED
      BY <3>1 DEF Lifecycle!Next
  <2> QED
    BY <2>1, <2>2
<1>4. \A r \in Requests : \A m \in Endpoints[r] : ~Admit(r, m) /\ ~Refuse(r, m)
  BY DEF Admit, Refuse, service
<1>5. \A r \in Requests : ~QueryOrder(r) /\ ~TakeEffect(r) /\ ~Disconnect(r)
  BY DEF QueryOrder, TakeEffect, Disconnect, service
<1>6. \A r \in Requests : ~Handle(r)
  BY DEF Handle, Subscribe, FastPath, Wake, Poll, TimeOut, service
<1>7. \A p \in Payments : ~Pay(p)
  BY DEF Pay, service
<1>8. \A c \in Channels : ~Publish(c) /\ ~LosePublish(c) /\ ~Republish(c)
  BY DEF Publish, LosePublish, Republish, service
<1>9. \A o \in Orders : ~FreeKey(o)
  BY DEF FreeKey, service
<1> QED
  BY <1>1, <1>2, <1>3, <1>4, <1>5, <1>6, <1>7, <1>8, <1>9 DEF Next

-----------------------------------------------------------------------------
(* Theorems.                                                               *)

\* The inductive invariant of the endpoints: a request that read its order under
\* a subscription in effect knows, or is about to learn, of any change.
THEOREM GatewayInvariant == Spec => []GatewayInv
BY InitInv, NextInv, PTL DEF Spec

\* Type correctness, for any number of requests, payments, orders and faults.
THEOREM TypeCorrect == Spec => []TypeOK
BY GatewayInvariant, InvImplies, PTL

\* handler.go:516-534: subscribe, read, wait misses no change of the order under
\* a subscription in effect.
THEOREM WakeupsNotMissed == Spec => []NoMissedWakeup
BY GatewayInvariant, InvImplies, PTL

\* What a client was told of its order is never taken back.
THEOREM AnswersStayTrue == Spec => []ToldStaysTrue
BY GatewayInvariant, InvImplies, PTL

\* To the gateway order-service is what OrderLifecycle promises and no more:
\* requests, notifications and faults change no order.
THEOREM Composition == Spec => Lifecycle!Spec
<1>1. Init => Lifecycle!Init
  BY DEF Init
<1> QED
  BY <1>1, StepOfLifecycle, PTL DEF Spec, Lifecycle!Spec
===============================================================================
