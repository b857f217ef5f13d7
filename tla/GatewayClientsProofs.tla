------------------------ MODULE GatewayClientsProofs ------------------------
(***************************************************************************)
(* Proofs about GatewayClients: type correctness, and that breakers open   *)
(* for a cause, let few probes through, and that one registration wins,    *)
(* for any number of callers, services and names and any limits of the     *)
(* breakers.                                                               *)
(***************************************************************************)
EXTENDS GatewayClients, FiniteSetTheorems, TLAPS

-----------------------------------------------------------------------------
(* The operators on breakers.                                              *)

LEMMA NewGenerationType ==
    ASSUME NEW state \in States
    PROVE  /\ NewGeneration(state) \in Breakers
           /\ NewGeneration(state).state = state
           /\ NewGeneration(state).requests = 0
           /\ state = "open" => NewGeneration(state).left = Timeout
BY CircuitBreakerAssumption DEF NewGeneration, Breakers, States

LEMMA CurrentType ==
    ASSUME NEW b \in Breakers
    PROVE  /\ Current(b) \in Breakers
           /\ Current(b) # b =>
                \/ b.state = "closed" /\ Current(b) = NewGeneration("closed")
                \/ /\ b.state = "open" /\ b.left = 0
                   /\ Current(b) = NewGeneration("half-open")
BY NewGenerationType DEF Current, Breakers, States

LEMMA OnRequestType ==
    ASSUME NEW b \in Breakers
    PROVE  /\ OnRequest(b) \in Breakers
           /\ OnRequest(b).state = b.state
           /\ OnRequest(b).requests = b.requests + 1
BY DEF OnRequest, Breakers

LEMMA OnFailureType ==
    ASSUME NEW b \in Breakers
    PROVE  /\ OnFailure(b) \in Breakers
           /\ \/ OnFailure(b) = NewGeneration("open")
              \/ /\ OnFailure(b).state = b.state /\ b.state # "half-open"
                 /\ OnFailure(b).left = b.left
<1> DEFINE counted == [b EXCEPT !.failures = @ + 1]
<1>1. /\ counted \in Breakers /\ counted.state = b.state
      /\ counted.left = b.left
  BY DEF Breakers
<1>2. NewGeneration("open") \in Breakers
  BY NewGenerationType DEF States
<1> QED
  BY <1>1, <1>2 DEF OnFailure

LEMMA OnSuccessType ==
    ASSUME NEW b \in Breakers
    PROVE  /\ OnSuccess(b) \in Breakers
           /\ \/ OnSuccess(b) = NewGeneration("closed") /\ b.state = "half-open"
              \/ /\ OnSuccess(b).state = b.state
                 /\ OnSuccess(b).requests = b.requests
                 /\ OnSuccess(b).left = b.left
<1>1. NewGeneration("closed") \in Breakers
  BY NewGenerationType DEF States
<1> QED
  BY <1>1 DEF OnSuccess, Breakers

LEMMA AgeType ==
    ASSUME NEW b \in Breakers
    PROVE  /\ Age(b) \in Breakers
           /\ Age(b).state = b.state
           /\ Age(b).requests = b.requests
           /\ Age(b).left = IF b.left = 0 THEN 0 ELSE b.left - 1
<1>1. b.left \in Nat /\ (b.left # 0 => b.left - 1 \in 0..Interval \cup 0..Timeout)
  BY CircuitBreakerAssumption DEF Breakers
<1>2. 0 \in 0..Interval \cup 0..Timeout
  BY CircuitBreakerAssumption
<1> QED
  BY <1>1, <1>2 DEF Age, Breakers

-----------------------------------------------------------------------------
(* What the parts of a step do.                                            *)

LEMMA RequestService ==
    ASSUME NEW q \in Requests
    PROVE  BreakerOf(q.op) \in Services /\ BreakerOf(q.op) = ServiceOf(q.op)
BY DEF Requests, BreakerOf

LEMMA StepEffect ==
    ASSUME TypeOK, NEW s \in Services, NEW b \in Breakers, NEW c \in Callers,
           NEW to \in Calls, NEW new \in BOOLEAN, Step(s, b, c, to, new)
    PROVE  /\ breaker' \in [Services -> Breakers]
           /\ breaker'[s] = b
           /\ \A t \in Services \ {s} : breaker'[t] = breaker[t]
           /\ call' \in [Callers -> Calls]
           /\ call'[c] = to
           /\ \A d \in Callers \ {c} : /\ call'[d].step = call[d].step
                                       /\ call'[d].req = call[d].req
                                       /\ call'[d].age = call[d].age
<1>1. breaker' = [breaker EXCEPT ![s] = b] /\ breaker \in [Services -> Breakers]
  BY DEF Step, TypeOK
<1>2. \A d \in Callers : call[d] \in Calls
  BY DEF TypeOK
<1>3. ASSUME NEW d \in Callers
      PROVE  /\ [call[d] EXCEPT !.fresh = FALSE] \in Calls
             /\ [call[d] EXCEPT !.fresh = FALSE].step = call[d].step
             /\ [call[d] EXCEPT !.fresh = FALSE].req = call[d].req
             /\ [call[d] EXCEPT !.fresh = FALSE].age = call[d].age
  BY <1>2, <1>3 DEF Calls
<1>4. call' = [d \in Callers |->
         IF d = c THEN to
         ELSE IF new /\ InFlight(d) /\ BreakerOf(call[d].req.op) = s
           THEN [call[d] EXCEPT !.fresh = FALSE] ELSE call[d]]
  BY DEF Step
<1>5. call' \in [Callers -> Calls] /\ call'[c] = to
  BY <1>2, <1>3, <1>4
<1>6. \A d \in Callers \ {c} : /\ call'[d].step = call[d].step
                               /\ call'[d].req = call[d].req
                               /\ call'[d].age = call[d].age
  BY <1>3, <1>4
<1> QED
  BY <1>1, <1>5, <1>6

-----------------------------------------------------------------------------
(* The inductive invariant.                                                *)

\* The part of TypeOK about breakers and calls.
CallsOK ==
    /\ breaker \in [Services -> Breakers]
    /\ call \in [Callers -> Calls]
    /\ \A c \in Callers :
         /\ InFlight(c) => call[c].req \in Requests
         /\ call[c].step \in {"insert", "lost"} => call[c].req \in RegisterCalls
    /\ failed \in [Services -> BOOLEAN]

\* The calls of s when its breaker is open were begun before it opened, and when
\* it is half-open they are among those it counts: the others are over by then.
ProbesOK(s) ==
    /\ IsFiniteSet(Under(s))
    /\ breaker[s].state = "open" =>
         \A c \in Under(s) : call[c].age + breaker[s].left >= Timeout
    /\ breaker[s].state = "half-open" =>
         /\ Cardinality(Under(s)) <= breaker[s].requests
         /\ breaker[s].requests <= MaxRequests

BreakersInv ==
    /\ CallsOK
    /\ OpensForCause
    /\ \A s \in Services : ProbesOK(s)

AccountsInv ==
    /\ account \in [Names -> Passwords \cup {None}]
    /\ told \in [Names -> SUBSET Passwords]
    /\ OneWinner

ClientsInv == BreakersInv /\ AccountsInv

LEMMA InvImplies ==
    ASSUME ClientsInv
    PROVE  TypeOK /\ OpensForCause /\ ProbesBounded /\ OneWinner
<1>1. TypeOK
  BY DEF ClientsInv, BreakersInv, AccountsInv, CallsOK, TypeOK
<1>2. ProbesBounded
  <2> SUFFICES ASSUME NEW s \in Services, breaker[s].state = "half-open"
               PROVE  Cardinality(Under(s)) <= MaxRequests
    BY DEF ProbesBounded
  <2>1. /\ IsFiniteSet(Under(s))
        /\ Cardinality(Under(s)) <= breaker[s].requests
        /\ breaker[s].requests <= MaxRequests
    BY DEF ClientsInv, BreakersInv, ProbesOK
  <2>2. Cardinality(Under(s)) \in Nat
    BY <2>1, FS_CardinalityType
  <2>3. breaker[s].requests \in Nat
    BY DEF ClientsInv, BreakersInv, CallsOK, Breakers
  <2> QED
    BY <2>1, <2>2, <2>3, CircuitBreakerAssumption
<1> QED
  BY <1>1, <1>2 DEF ClientsInv, BreakersInv, AccountsInv

\* When the timeout of an open breaker is over, so are its calls.
LEMMA OpenIsOver ==
    ASSUME CallsOK, NEW s \in Services, ProbesOK(s),
           breaker[s].state = "open", breaker[s].left = 0
    PROVE  Under(s) = {}
<1>1. \A c \in Under(s) : call[c].age \in 0..CallTimeout
  BY DEF CallsOK, Under, Calls
<1>2. \A c \in Under(s) : call[c].age + 0 >= Timeout
  BY DEF ProbesOK
<1> QED
  BY <1>1, <1>2, ClientsAssumption, CircuitBreakerAssumption

LEMMA InitInv == Init => ClientsInv
<1> SUFFICES ASSUME Init PROVE ClientsInv
  OBVIOUS
<1>1. \A c \in Callers : ~InFlight(c) /\ call[c] = NoCall
  BY DEF Init, InFlight, NoCall
<1>2. NewGeneration("closed") \in Breakers /\ NewGeneration("closed").state = "closed"
  BY NewGenerationType DEF States
<1>3. NoCall \in Calls /\ NoCall.step = "idle"
  BY ClientsAssumption DEF NoCall, Calls
<1>4. CallsOK
  BY <1>1, <1>2, <1>3 DEF Init, CallsOK
<1>5. \A s \in Services : breaker[s].state = "closed" /\ Under(s) = {}
  BY <1>1, <1>2 DEF Init, Under
<1>6. OpensForCause /\ \A s \in Services : ProbesOK(s)
  BY <1>5, FS_EmptySet DEF OpensForCause, ProbesOK
<1>7. AccountsInv
  BY DEF Init, AccountsInv, OneWinner
<1> QED
  BY <1>4, <1>6, <1>7 DEF ClientsInv, BreakersInv

\* What happens to a service whose breaker is not touched.
LEMMA OtherService ==
    ASSUME CallsOK, NEW s \in Services, ProbesOK(s), breaker'[s] = breaker[s],
           Under(s)' = Under(s),
           \A c \in Under(s) : call'[c].age = call[c].age
    PROVE  ProbesOK(s)'
BY DEF ProbesOK

LEMMA BeginInv ==
    ASSUME ClientsInv, NEW c \in Callers, NEW q \in Requests, Begin(c, q)
    PROVE  BreakersInv'
<1> DEFINE s == BreakerOf(q.op)
           b == Current(breaker[s])
           to == [step |-> "sent", req |-> q, fresh |-> TRUE, age |-> 0]
           new == b # breaker[s]
<1>0. BreakersInv /\ CallsOK /\ TypeOK
  BY InvImplies DEF ClientsInv, BreakersInv
<1>1. s \in Services /\ s = ServiceOf(q.op)
  BY RequestService
<1>2. breaker[s] \in Breakers
  BY <1>0, <1>1 DEF CallsOK
<1>3. /\ b \in Breakers
      /\ b # breaker[s] =>
                \/ breaker[s].state = "closed" /\ b = NewGeneration("closed")
                \/ /\ breaker[s].state = "open" /\ breaker[s].left = 0
                   /\ b = NewGeneration("half-open")
  BY <1>2, CurrentType
<1>4. /\ ~InFlight(c)
      /\ ~Refuses(b)
      /\ Step(s, OnRequest(b), c, to, new) /\ new \in BOOLEAN
      /\ failed' = [failed EXCEPT ![s] =
             @ /\ ~(new /\ b.state = "closed")]
  BY DEF Begin
<1>5. to \in Calls /\ to.step = "sent" /\ to.req = q
  BY ClientsAssumption DEF Calls
<1>6. OnRequest(b) \in Breakers /\ OnRequest(b).state = b.state
      /\ OnRequest(b).requests = b.requests + 1
  BY <1>3, OnRequestType
<1> HIDE DEF s, b, to, new
<1>7. /\ breaker' \in [Services -> Breakers]
      /\ breaker'[s] = OnRequest(b)
      /\ \A t \in Services \ {s} : breaker'[t] = breaker[t]
      /\ call' \in [Callers -> Calls]
      /\ call'[c] = to
      /\ \A d \in Callers \ {c} : /\ call'[d].step = call[d].step
                                  /\ call'[d].req = call[d].req
                                  /\ call'[d].age = call[d].age
  BY <1>0, <1>1, <1>4, <1>5, <1>6, StepEffect
<1>8. failed' \in [Services -> BOOLEAN]
  BY <1>0, <1>4 DEF CallsOK
<1>9. CallsOK'
  BY <1>0, <1>5, <1>7, <1>8 DEF CallsOK, InFlight
<1>10. OpensForCause'
  <2> SUFFICES ASSUME NEW t \in Services, breaker'[t].state # "closed"
               PROVE  failed'[t]
    BY DEF OpensForCause
  <2>1. CASE t # s
    BY <2>1, <1>0, <1>4, <1>7 DEF CallsOK, BreakersInv, OpensForCause
  <2>2. CASE t = s
    <3>1. b.state # "closed"
      BY <2>2, <1>6, <1>7
    <3>2. breaker[s].state # "closed"
      BY <3>1, <1>3, NewGenerationType DEF States
    <3>3. failed[s]
      BY <3>2, <1>0, <1>1 DEF BreakersInv, OpensForCause
    <3> QED
      BY <2>2, <3>1, <3>3, <1>0, <1>1, <1>4 DEF CallsOK
  <2> QED
    BY <2>1, <2>2
<1>11. Under(s)' = Under(s) \cup {c} /\ c \notin Under(s)
  BY <1>1, <1>4, <1>5, <1>7 DEF Under, InFlight
<1>12. ASSUME NEW t \in Services PROVE ProbesOK(t)'
  <2>0. ProbesOK(t)
    BY <1>0 DEF BreakersInv
  <2>1. CASE t # s
    <3>1. Under(t)' = Under(t)
      BY <2>1, <1>1, <1>4, <1>5, <1>7 DEF Under, InFlight
    <3>2. \A d \in Under(t) : call'[d].age = call[d].age
      BY <1>4, <1>7 DEF Under
    <3> QED
      BY <3>1, <3>2, <2>0, <2>1, <1>0, <1>7, OtherService
  <2>2. CASE t = s
    <3>1. /\ IsFiniteSet(Under(s))' 
          /\ Cardinality(Under(s))' = Cardinality(Under(s)) + 1
          /\ Cardinality(Under(s)) \in Nat
      BY <1>11, <2>0, <2>2, FS_AddElement, FS_CardinalityType DEF ProbesOK
    <3>2. b.state # "open"
      BY <1>4 DEF Refuses
    <3>3. ASSUME b.state = "half-open"
          PROVE  /\ Cardinality(Under(s))' <= b.requests + 1
                 /\ b.requests + 1 <= MaxRequests
      <4>1. b.requests < MaxRequests /\ b.requests \in Nat
        BY <3>3, <1>3, <1>4, CircuitBreakerAssumption DEF Refuses, Breakers
      <4>2. CASE b = breaker[s]
        BY <4>1, <4>2, <3>1, <3>3, <2>0, <2>2, CircuitBreakerAssumption DEF ProbesOK
      <4>3. CASE b # breaker[s]
        <5>1. breaker[s].state = "open" /\ breaker[s].left = 0
          BY <4>3, <3>3, <1>3, NewGenerationType DEF States
        <5>2. Cardinality(Under(s)) = 0
          BY <5>1, <1>0, <1>1, <2>0, <2>2, OpenIsOver, FS_EmptySet
        <5> QED
          BY <5>2, <4>1, <3>1, CircuitBreakerAssumption
      <4> QED
        BY <4>2, <4>3
    <3> QED
      BY <2>2, <3>1, <3>2, <3>3, <1>6, <1>7 DEF ProbesOK
  <2> QED
    BY <2>1, <2>2
<1> QED
  BY <1>9, <1>10, <1>12 DEF BreakersInv

LEMMA EndOfService ==
    ASSUME ClientsInv, NEW c \in Callers, InFlight(c), NEW code, End(c, code),
           NEW s, s = BreakerOf(call[c].req.op)
    PROVE  BreakersInv'
<1> DEFINE b == Current(breaker[s])
           counts == call[c].fresh /\ b = breaker[s]
           after == IF ~counts THEN b
                    ELSE IF IsSuccessful(code) THEN OnSuccess(b) ELSE OnFailure(b)
           new == b # breaker[s] \/ after.state # b.state
<1>0. BreakersInv /\ CallsOK /\ TypeOK /\ call[c].req \in Requests
  BY InvImplies DEF ClientsInv, BreakersInv, CallsOK
<1>1. s \in Services /\ s = ServiceOf(call[c].req.op)
  BY <1>0, RequestService
<1>2. breaker[s] \in Breakers
  BY <1>0, <1>1 DEF CallsOK
<1>3. /\ b \in Breakers
      /\ b # breaker[s] =>
                \/ breaker[s].state = "closed" /\ b = NewGeneration("closed")
                \/ /\ breaker[s].state = "open" /\ breaker[s].left = 0
                   /\ b = NewGeneration("half-open")
  BY <1>2, CurrentType
<1>4. Step(s, after, c, NoCall, new) /\ new \in BOOLEAN
  BY DEF End
<1>5. failed' = [failed EXCEPT ![s] =
             /\ ~(new /\ after.state = "closed")
             /\ \/ @
                \/ counts /\ code \notin Harmless /\ ServiceOf(call[c].req.op) = s]
  BY DEF End
<1>6. NoCall \in Calls /\ NoCall.step = "idle"
  BY ClientsAssumption DEF NoCall, Calls
<1>7. /\ after \in Breakers
      /\ \/ after = b
         \/ after = OnSuccess(b)
         \/ after = OnFailure(b) /\ counts /\ code \notin Harmless
  BY <1>3, OnSuccessType, OnFailureType DEF IsSuccessful, Harmless
<1>8. c \in Under(s)
  BY <1>1 DEF Under
<1>9. b = breaker[s] \/ b.state = "closed"
  <2> SUFFICES ASSUME b # breaker[s], b.state # "closed" PROVE FALSE
    OBVIOUS
  <2>1. breaker[s].state = "open" /\ breaker[s].left = 0
    BY <1>3, NewGenerationType DEF States
  <2> QED
    BY <2>1, <1>0, <1>1, <1>8, OpenIsOver DEF BreakersInv
<1>10. after.state # "closed" =>
           \/ after.state = b.state /\ after.left = b.left
              /\ (b.state = "half-open" => after.requests = b.requests)
           \/ /\ after.state = "open" /\ after.left = Timeout
              /\ counts /\ code \notin Harmless
  <2>1. CASE after = b
    BY <2>1
  <2>2. CASE after = OnSuccess(b)
    BY <2>2, <1>3, OnSuccessType, NewGenerationType DEF States
  <2>3. CASE after = OnFailure(b) /\ counts /\ code \notin Harmless
    BY <2>3, <1>3, OnFailureType, NewGenerationType DEF States
  <2> QED
    BY <1>7, <2>1, <2>2, <2>3
<1> HIDE DEF b, counts, after, new
<1>11. /\ breaker' \in [Services -> Breakers]
       /\ breaker'[s] = after
       /\ \A t \in Services \ {s} : breaker'[t] = breaker[t]
       /\ call' \in [Callers -> Calls]
       /\ call'[c] = NoCall
       /\ \A d \in Callers \ {c} : /\ call'[d].step = call[d].step
                                   /\ call'[d].req = call[d].req
                                   /\ call'[d].age = call[d].age
  BY <1>0, <1>1, <1>4, <1>6, <1>7, StepEffect
<1>12. CallsOK'
  <2>1. failed' \in [Services -> BOOLEAN]
    BY <1>0, <1>5 DEF CallsOK
  <2> QED
    BY <2>1, <1>0, <1>6, <1>11 DEF CallsOK, InFlight
<1>13. OpensForCause'
  <2> SUFFICES ASSUME NEW t \in Services, breaker'[t].state # "closed"
               PROVE  failed'[t]
    BY DEF OpensForCause
  <2>1. CASE t # s
    BY <2>1, <1>0, <1>5, <1>11 DEF CallsOK, BreakersInv, OpensForCause
  <2>2. CASE t = s
    <3>1. after.state # "closed"
      BY <2>2, <1>11
    <3>2. failed[s] \/ (counts /\ code \notin Harmless)
      BY <3>1, <1>0, <1>1, <1>9, <1>10 DEF BreakersInv, OpensForCause
    <3> QED
      BY <2>2, <3>1, <3>2, <1>0, <1>1, <1>5 DEF CallsOK
  <2> QED
    BY <2>1, <2>2
<1>14. Under(s)' = Under(s) \ {c}
  BY <1>1, <1>6, <1>11 DEF Under, InFlight
<1>15. ASSUME NEW t \in Services PROVE ProbesOK(t)'
  <2>0. ProbesOK(t)
    BY <1>0 DEF BreakersInv
  <2>1. CASE t # s
    <3>1. Under(t)' = Under(t)
      BY <2>1, <1>1, <1>6, <1>11 DEF Under, InFlight
    <3>2. \A d \in Under(t) : call'[d].age = call[d].age
      BY <2>1, <1>1, <1>11 DEF Under
    <3> QED
      BY <3>1, <3>2, <2>0, <2>1, <1>0, <1>11, OtherService
  <2>2. CASE t = s
    <3>1. /\ IsFiniteSet(Under(s))'
          /\ Cardinality(Under(s))' = Cardinality(Under(s)) - 1
          /\ Cardinality(Under(s)) \in Nat
      BY <1>8, <1>14, <2>0, <2>2, FS_RemoveElement, FS_CardinalityType DEF ProbesOK
    <3>2. ASSUME after.state = "open", NEW d \in Under(s)'
          PROVE  call'[d].age + after.left >= Timeout
      <4>1. d \in Under(s) /\ call'[d].age = call[d].age /\ call[d].age \in Nat
        BY <3>2, <1>0, <1>11, <1>14 DEF Under, CallsOK, Calls
      <4>2. CASE after.left = Timeout
        BY <4>1, <4>2, CircuitBreakerAssumption
      <4>3. CASE b.state = "open" /\ after.left = b.left
        BY <4>1, <4>3, <1>9, <2>0, <2>2 DEF ProbesOK
      <4> QED
        BY <3>2, <4>2, <4>3, <1>10
    <3>3. ASSUME after.state = "half-open"
          PROVE  /\ Cardinality(Under(s))' <= after.requests
                 /\ after.requests <= MaxRequests
      <4>1. /\ breaker[s].state = "half-open"
            /\ after.requests = breaker[s].requests
            /\ breaker[s].requests \in Nat
        BY <3>3, <1>2, <1>9, <1>10 DEF Breakers
      <4> QED
        BY <4>1, <3>1, <2>0, <2>2 DEF ProbesOK
    <3> QED
      BY <2>2, <3>1, <3>2, <3>3, <1>11 DEF ProbesOK
  <2> QED
    BY <2>1, <2>2
<1> QED
  BY <1>12, <1>13, <1>15 DEF BreakersInv

LEMMA EndInv ==
    ASSUME ClientsInv, NEW c \in Callers, InFlight(c), NEW code, End(c, code)
    PROVE  BreakersInv'
<1>1. PICK s : s = BreakerOf(call[c].req.op)
  OBVIOUS
<1> QED
  BY <1>1, EndOfService

LEMMA GotoInv ==
    ASSUME ClientsInv, NEW c \in Callers, call[c].req \in RegisterCalls,
           InFlight(c), NEW step \in {"insert", "lost"}, Goto(c, step)
    PROVE  BreakersInv'
<1>0. BreakersInv /\ CallsOK
  BY DEF ClientsInv, BreakersInv
<1>1. /\ call' = [call EXCEPT ![c].step = step]
      /\ UNCHANGED <<breaker, failed>>
  BY DEF Goto
<1>2. /\ call' \in [Callers -> Calls]
      /\ \A d \in Callers : /\ InFlight(d)' <=> InFlight(d)
                            /\ call'[d].req = call[d].req
                            /\ call'[d].age = call[d].age
                            /\ d # c => call'[d].step = call[d].step
  BY <1>0, <1>1 DEF CallsOK, Calls, InFlight
<1>3. CallsOK'
  BY <1>0, <1>1, <1>2 DEF CallsOK
<1>4. ASSUME NEW s \in Services PROVE ProbesOK(s)'
  <2>1. Under(s)' = Under(s)
    BY <1>2 DEF Under
  <2>2. \A d \in Under(s) : call'[d].age = call[d].age
    BY <1>2 DEF Under
  <2> QED
    BY <1>0, <1>1, <2>1, <2>2, OtherService DEF BreakersInv
<1>5. OpensForCause'
  BY <1>0, <1>1 DEF BreakersInv, OpensForCause
<1> QED
  BY <1>3, <1>4, <1>5 DEF BreakersInv

LEMMA TickInv ==
    ASSUME ClientsInv, Tick
    PROVE  BreakersInv'
<1>0. BreakersInv /\ CallsOK
  BY DEF ClientsInv, BreakersInv
<1>1. \A s \in Services :
         /\ breaker[s] \in Breakers
         /\ breaker'[s] = Age(breaker[s])
         /\ breaker'[s] \in Breakers
         /\ breaker'[s].state = breaker[s].state
         /\ breaker'[s].requests = breaker[s].requests
         /\ breaker'[s].left =
              IF breaker[s].left = 0 THEN 0 ELSE breaker[s].left - 1
  BY <1>0, AgeType DEF Tick, CallsOK
<1>2. breaker' \in [Services -> Breakers]
  BY <1>1 DEF Tick
<1>3. ASSUME NEW c \in Callers
      PROVE  /\ call'[c] \in Calls
             /\ call'[c].step = call[c].step
             /\ call'[c].req = call[c].req
             /\ InFlight(c) => call'[c].age = call[c].age + 1
  <2>1. call[c] \in Calls
    BY <1>0 DEF CallsOK
  <2>2. CASE InFlight(c)
    <3>1. call[c].age < CallTimeout /\ call'[c] = [call[c] EXCEPT !.age = @ + 1]
      BY <2>2 DEF Tick
    <3>2. call[c].age + 1 \in 0..CallTimeout
      BY <2>1, <3>1, ClientsAssumption DEF Calls
    <3> QED
      BY <2>1, <3>1, <3>2 DEF Calls
  <2>3. CASE ~InFlight(c)
    BY <2>1, <2>3 DEF Tick
  <2> QED
    BY <2>2, <2>3
<1>4. call' \in [Callers -> Calls]
  BY <1>3 DEF Tick
<1>5. CallsOK'
  BY <1>0, <1>2, <1>3, <1>4 DEF CallsOK, InFlight, Tick
<1>6. OpensForCause'
  BY <1>0, <1>1 DEF BreakersInv, OpensForCause, Tick
<1>7. ASSUME NEW s \in Services PROVE ProbesOK(s)'
  <2>0. ProbesOK(s)
    BY <1>0 DEF BreakersInv
  <2>1. Under(s)' = Under(s)
    BY <1>3 DEF Under, InFlight
  <2>2. ASSUME breaker[s].state = "open", NEW c \in Under(s)
        PROVE  call'[c].age + breaker'[s].left >= Timeout
    <3>1. breaker[s].left # 0
      BY <2>0, <2>2, <1>0, OpenIsOver
    <3>2. call'[c].age = call[c].age + 1 /\ call[c].age \in Nat
      BY <1>0, <1>3, <2>2 DEF Under, CallsOK, Calls
    <3>3. breaker'[s].left = breaker[s].left - 1 /\ breaker[s].left \in Nat
      BY <3>1, <1>1 DEF Breakers
    <3>4. call[c].age + breaker[s].left >= Timeout
      BY <2>0, <2>2 DEF ProbesOK
    <3> QED
      BY <3>2, <3>3, <3>4, CircuitBreakerAssumption
  <2> QED
    BY <2>0, <2>1, <2>2, <1>1 DEF ProbesOK
<1> QED
  BY <1>5, <1>6, <1>7 DEF BreakersInv

-----------------------------------------------------------------------------
(* Accounts.                                                               *)

LEMMA AccountsUnchanged ==
    ASSUME AccountsInv, UNCHANGED <<account, told>>
    PROVE  AccountsInv'
BY DEF AccountsInv, OneWinner

\* A row is inserted; its caller may be told so.
LEMMA CreateUserInv ==
    ASSUME ClientsInv, NEW c \in Callers, call[c].step = "insert",
           CreateUser(call[c].req.name, call[c].req.pass),
           \/ UNCHANGED told
           \/ told' = [told EXCEPT ![call[c].req.name] = @ \cup {call[c].req.pass}]
    PROVE  AccountsInv'
<1> DEFINE n == call[c].req.name
           p == call[c].req.pass
<1>1. call[c].req \in RegisterCalls
  BY DEF ClientsInv, BreakersInv, CallsOK
<1>2. n \in Names /\ p \in Passwords
  BY <1>1 DEF RegisterCalls
<1>3. account[n] = None /\ account' = [account EXCEPT ![n] = p]
  BY DEF CreateUser, Known
<1>4. /\ account \in [Names -> Passwords \cup {None}]
      /\ told \in [Names -> SUBSET Passwords]
      /\ \A m \in Names : told[m] \subseteq {account[m]}
  BY DEF ClientsInv, AccountsInv, OneWinner
<1> HIDE DEF n, p
<1>5. told[n] = {}
  BY <1>2, <1>3, <1>4, ClientsAssumption
<1>6. \/ told' = told
      \/ told' = [told EXCEPT ![n] = @ \cup {p}]
  BY DEF n, p
<1>7. \A m \in Names : told'[m] \subseteq {account'[m]}
  BY <1>2, <1>3, <1>4, <1>5, <1>6
<1> QED
  BY <1>2, <1>3, <1>4, <1>6, <1>7 DEF AccountsInv, OneWinner

LEMMA GiveUpInv ==
    ASSUME ClientsInv, NEW c \in Callers, InFlight(c), NEW code, GiveUp(c, code)
    PROVE  ClientsInv'
<1>1. BreakersInv'
  BY EndInv DEF GiveUp
<1>2. AccountsInv'
  BY AccountsUnchanged, CreateUserInv DEF GiveUp, ClientsInv
<1> QED
  BY <1>1, <1>2 DEF ClientsInv

-----------------------------------------------------------------------------

LEMMA NextInv == ClientsInv /\ [Next]_vars => ClientsInv'
<1> SUFFICES ASSUME ClientsInv, [Next]_vars PROVE ClientsInv'
  OBVIOUS
<1>0. AccountsInv
  BY DEF ClientsInv
<1>1. ASSUME NEW c \in Callers, NEW q \in Requests, Begin(c, q)
      PROVE  ClientsInv'
  <2>1. UNCHANGED <<account, told>>
    BY <1>1 DEF Begin
  <2> QED
    BY <1>0, <1>1, <2>1, BeginInv, AccountsUnchanged DEF ClientsInv
<1>2. ASSUME NEW c \in Callers, Answer(c) PROVE ClientsInv'
  BY <1>0, <1>2, EndInv, AccountsUnchanged DEF Answer, ClientsInv, InFlight
<1>3. ASSUME NEW c \in Callers, RegisterSelect(c) PROVE ClientsInv'
  <2>1. UNCHANGED <<account, told>> /\ InFlight(c) /\ call[c].req \in RegisterCalls
    BY <1>3 DEF RegisterSelect, RegisterFails, InFlight
  <2>2. BreakersInv'
    BY <1>3, <2>1, EndInv, GotoInv DEF RegisterSelect, RegisterFails
  <2> QED
    BY <1>0, <2>1, <2>2, AccountsUnchanged DEF ClientsInv
<1>4. ASSUME NEW c \in Callers, RegisterInsert(c) PROVE ClientsInv'
  <2>1. call[c].step = "insert" /\ InFlight(c) /\ call[c].req \in RegisterCalls
    BY <1>4 DEF RegisterInsert, InFlight, ClientsInv, BreakersInv, CallsOK
  <2>2. BreakersInv'
    BY <1>4, <2>1, EndInv, GotoInv DEF RegisterInsert, RegisterFails
  <2>3. AccountsInv'
    BY <1>0, <1>4, <2>1, AccountsUnchanged, CreateUserInv
       DEF RegisterInsert, RegisterFails
  <2> QED
    BY <2>2, <2>3 DEF ClientsInv
<1>5. ASSUME NEW c \in Callers, Login(c) PROVE ClientsInv'
  BY <1>0, <1>5, EndInv, AccountsUnchanged
     DEF Login, LoginFails, ClientsInv, InFlight
<1>6. ASSUME NEW c \in Callers, Disconnect(c) \/ HangUp(c) \/ TimeOut(c)
      PROVE  ClientsInv'
  BY <1>6, GiveUpInv DEF Disconnect, HangUp, TimeOut
<1>7. ASSUME Tick PROVE ClientsInv'
  BY <1>0, <1>7, TickInv, AccountsUnchanged DEF Tick, ClientsInv
<1>8. ASSUME UNCHANGED vars PROVE ClientsInv'
  BY <1>8 DEF vars, ClientsInv, BreakersInv, CallsOK, OpensForCause, ProbesOK,
              Under, InFlight, AccountsInv, OneWinner
<1> QED
  BY <1>1, <1>2, <1>3, <1>4, <1>5, <1>6, <1>7, <1>8 DEF Next, Asks

-----------------------------------------------------------------------------
(* Theorems.                                                               *)

\* The inductive invariant of the gateway's clients: the calls of a service
\* under way are bounded by what its breaker has counted or still waits for.
THEOREM ClientsInvariant == Spec => []ClientsInv
BY InitInv, NextInv, PTL DEF Spec

\* Type correctness, for any number of callers and any limits.
THEOREM TypeCorrect == Spec => []TypeOK
BY ClientsInvariant, InvImplies, PTL

\* clients.go:37, circuit_breaker.go:46: a breaker opens only for a failure of
\* its own service in the interval it counts.
THEOREM BreakersOpenForCause == Spec => []OpensForCause
BY ClientsInvariant, InvImplies, PTL

\* circuit_breaker.go:16: no more than MaxRequests calls of a service are under
\* way while its breaker is half-open, because a call is shorter than Timeout.
THEOREM ProbesAreBounded == Spec => []ProbesBounded
BY ClientsInvariant, InvImplies, PTL

\* auth_usecase.go:49-77: whoever is told that the registration succeeded owns
\* the account, whichever calls race, fail or are given up.
THEOREM OneRegistrationWins == Spec => []OneWinner
BY ClientsInvariant, InvImplies, PTL
=============================================================================
