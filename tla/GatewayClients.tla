--------------------------- MODULE GatewayClients ---------------------------
(***************************************************************************)
(* The gRPC clients of api-gateway: every call of another service passes   *)
(* the circuit breaker of that service and is given up after CallTimeout.  *)
(* Of the services only the code they answer with matters here, except for *)
(* auth-service, whose accounts are modelled too: its answers depend on    *)
(* them, and an account made by a call that failed stays.                  *)
(*                                                                         *)
(* A refused call changes nothing, so that it is not an action.            *)
(***************************************************************************)
EXTENDS CircuitBreaker, FiniteSets

CONSTANTS
    Callers,        \* goroutines of the gateway that serve HTTP requests
    Services,       \* the services called
    Names,          \* user names
    Passwords,      \* passwords
    None,           \* no account, no request
    CallTimeout,    \* ticks after which a call is given up
    MaxCount        \* bound on the requests of one interval

ASSUME ClientsAssumption ==
    /\ Services \subseteq {"auth", "product", "order", "payment", "inventory"}
    /\ None \notin Names \cup Passwords
    /\ CallTimeout \in Nat
    /\ CallTimeout < Timeout       \* 3 s and 5 s
    /\ MaxCount \in Nat

VARIABLES
    breaker,    \* [Services -> Breakers]
    call,       \* the call a caller waits for
    account,    \* the password of a name in the table users, or None
    told,       \* [Names -> SUBSET Passwords], registrations answered with 200
    failed      \* [Services -> BOOLEAN], has a call of it failed in this generation

vars == <<breaker, call, account, told, failed>>

\* The codes with which a service answers that works: an order that is not
\* there yet and a wrong password are answers like any other.
Harmless == {"OK", "NotFound", "Unauthenticated"}

-----------------------------------------------------------------------------
(* Requests: the endpoints that pass their input on to one service.        *)

RegisterCalls == [op : {"Register"}, name : Names, pass : Passwords]
LoginCalls    == [op : {"Login"}, name : Names, pass : Passwords]
PlainCalls    == [op : {"ListFlashSaleProducts", "GetOrder", "ProcessPayment",
                        "ReserveStock"}, name : {None}, pass : {None}]

\* The service that serves an operation.
ServiceOf(op) ==
    CASE op \in {"Register", "Login"} -> "auth"
      [] op = "ListFlashSaleProducts" -> "product"
      [] op = "GetOrder" -> "order"
      [] op = "ProcessPayment" -> "payment"
      [] op = "ReserveStock" -> "inventory"

\* Mutant of BreakerOf: Register passes the breaker of order-service.
BreakerOfMixed(op) == IF op = "Register" THEN "order" ELSE ServiceOf(op)

\* The breaker an operation passes is the one of its service.
BreakerOf(op) == ServiceOf(op)

Requests == {q \in RegisterCalls \cup LoginCalls \cup PlainCalls :
               ServiceOf(q.op) \in Services}

\* The codes with which order-, payment-, product- and inventory-service
\* answer.  A declined payment is a plain error, as is one of the database; a
\* refused or failed reservation is none, and the products are a fixed list.
OrderAnswers     == {"OK", "NotFound", "Internal"}
PaymentAnswers   == {"OK", "Unknown"}
ProductAnswers   == {"OK"}
InventoryAnswers == {"OK"}

Answers(op) ==
    CASE op = "GetOrder" -> OrderAnswers
      [] op = "ProcessPayment" -> PaymentAnswers
      [] op = "ListFlashSaleProducts" -> ProductAnswers
      [] op = "ReserveStock" -> InventoryAnswers

-----------------------------------------------------------------------------

NoCall == [step |-> "idle", req |-> None, fresh |-> FALSE, age |-> 0]

InFlight(c) == call[c].step # "idle"

Calls ==
    [step : {"idle", "sent", "insert", "lost"}, req : Requests \cup {None},
     fresh : BOOLEAN, age : 0..CallTimeout]

TypeOK ==
    /\ breaker \in [Services -> Breakers]
    /\ call \in [Callers -> Calls]
    /\ \A c \in Callers :
         /\ InFlight(c) => call[c].req \in Requests
         /\ call[c].step \in {"insert", "lost"} => call[c].req \in RegisterCalls
    /\ account \in [Names -> Passwords \cup {None}]
    /\ told \in [Names -> SUBSET Passwords]
    /\ failed \in [Services -> BOOLEAN]

Init ==
    /\ breaker = [s \in Services |-> NewGeneration("closed")]
    /\ call = [c \in Callers |-> NoCall]
    /\ account = [n \in Names |-> None]
    /\ told = [n \in Names |-> {}]
    /\ failed = [s \in Services |-> FALSE]

\* The breaker of s becomes b and the call of c becomes to.  Is it a new
\* generation, the other calls under way are not of it.
Step(s, b, c, to, new) ==
    /\ breaker' = [breaker EXCEPT ![s] = b]
    /\ call' = [d \in Callers |->
         IF d = c THEN to
         ELSE IF new /\ InFlight(d) /\ BreakerOf(call[d].req.op) = s
           THEN [call[d] EXCEPT !.fresh = FALSE] ELSE call[d]]

\* beforeRequest: the breaker lets the call of q pass.
Begin(c, q) ==
    LET s == BreakerOf(q.op)
        b == Current(breaker[s])
    IN  /\ ~InFlight(c)
        /\ ~Refuses(b)
        /\ b.requests < MaxCount
        /\ Step(s, OnRequest(b), c,
                [step |-> "sent", req |-> q, fresh |-> TRUE, age |-> 0],
                b # breaker[s])
        /\ failed' = [failed EXCEPT ![s] =
             @ /\ ~(b # breaker[s] /\ b.state = "closed")]
        /\ UNCHANGED <<account, told>>

\* afterRequest: the call of c ended with a code.
End(c, code) ==
    LET s == BreakerOf(call[c].req.op)
        b == Current(breaker[s])
        counts == call[c].fresh /\ b = breaker[s]
        after == IF ~counts THEN b
                 ELSE IF IsSuccessful(code) THEN OnSuccess(b) ELSE OnFailure(b)
        new == b # breaker[s] \/ after.state # b.state
    IN  /\ Step(s, after, c, NoCall, new)
        /\ failed' = [failed EXCEPT ![s] =
             /\ ~(new /\ after.state = "closed")
             /\ \/ @
                \/ counts /\ code \notin Harmless /\ ServiceOf(call[c].req.op) = s]

\* The call of c goes on at another step of the service.
Goto(c, step) ==
    /\ call' = [call EXCEPT ![c].step = step]
    /\ UNCHANGED <<breaker, failed>>

-----------------------------------------------------------------------------
(* What the services do.                                                   *)

\* order-, payment-, product- and inventory-service answer.
Answer(c) ==
    /\ call[c].step = "sent"
    /\ call[c].req \in PlainCalls
    /\ \E code \in Answers(call[c].req.op) : End(c, code)
    /\ UNCHANGED <<account, told>>

\* GetUserByUsername finds a row.
Known(n) == account[n] # None

\* Mutant of CreateUser: INSERT ... ON CONFLICT DO UPDATE.
CreateUserUpserts(n, p) == account' = [account EXCEPT ![n] = p]

\* CreateUser.  The table users refuses a second row of a name.
CreateUser(n, p) == ~Known(n) /\ account' = [account EXCEPT ![n] = p]

\* Every error of Register becomes Internal.
RegisterFails(c) == End(c, "Internal") /\ UNCHANGED told

\* Register looks the name up, and fails if it is taken or the query failed,
RegisterSelect(c) ==
    /\ call[c].step = "sent"
    /\ call[c].req \in RegisterCalls
    /\ \/ RegisterFails(c)
       \/ ~Known(call[c].req.name) /\ Goto(c, "insert") /\ UNCHANGED told
    /\ UNCHANGED account

\* and, when the password is hashed, inserts it.  That fails if the name was
\* taken in the meantime, and for any other reason.  The answer may get lost.
RegisterInsert(c) ==
    LET n == call[c].req.name
        p == call[c].req.pass
    IN  /\ call[c].step = "insert"
        /\ \/ /\ CreateUser(n, p)
              /\ \/ told' = [told EXCEPT ![n] = @ \cup {p}] /\ End(c, "OK")
                 \/ UNCHANGED told /\ Goto(c, "lost")
           \/ RegisterFails(c) /\ UNCHANGED account

\* Every error of Login, one of the database included, becomes Unauthenticated.
LoginFails(c) == End(c, "Unauthenticated")

Login(c) ==
    /\ call[c].step = "sent"
    /\ call[c].req \in LoginCalls
    /\ \/ account[call[c].req.name] = call[c].req.pass /\ End(c, "OK")
       \/ LoginFails(c)
    /\ UNCHANGED <<account, told>>

\* The call of c is given up.  An INSERT under way may have been committed.
GiveUp(c, code) ==
    /\ End(c, code)
    /\ \/ UNCHANGED account
       \/ /\ call[c].step = "insert"
          /\ CreateUser(call[c].req.name, call[c].req.pass)
    /\ UNCHANGED told

\* The service cannot be reached, or its connection breaks.
Disconnect(c) == InFlight(c) /\ GiveUp(c, "Unavailable")

\* The client hangs up, which ends the context of its request and of the call.
HangUp(c) == InFlight(c) /\ GiveUp(c, "Canceled")

\* Mutant of TimeOut: the call has no deadline of its own.
NoTimeOut(c) == FALSE /\ UNCHANGED vars

\* The context of the call expires.
TimeOut(c) ==
    /\ InFlight(c)
    /\ call[c].age = CallTimeout
    /\ GiveUp(c, "DeadlineExceeded")

\* Mutant of Tick: a call may outlast its deadline.
TickWithoutDeadline ==
    /\ breaker' = [s \in Services |-> Age(breaker[s])]
    /\ UNCHANGED <<call, account, told, failed>>

\* Time passes, but not past the deadline of a call.
Tick ==
    /\ \A c \in Callers : InFlight(c) => call[c].age < CallTimeout
    /\ breaker' = [s \in Services |-> Age(breaker[s])]
    /\ call' = [c \in Callers |->
                  IF InFlight(c) THEN [call[c] EXCEPT !.age = @ + 1] ELSE call[c]]
    /\ UNCHANGED <<account, told, failed>>

-----------------------------------------------------------------------------

Asks(s) == \E c \in Callers, q \in Requests : ServiceOf(q.op) = s /\ Begin(c, q)

Next ==
    \/ \E s \in Services : Asks(s)
    \/ \E c \in Callers :
         \/ Answer(c) \/ RegisterSelect(c) \/ RegisterInsert(c) \/ Login(c)
         \/ Disconnect(c) \/ HangUp(c) \/ TimeOut(c)
    \/ Tick

Spec == Init /\ [][Next]_vars

\* Time passes, a call ends by its deadline, and every service is asked again
\* and again.  (Strongly: in the gateway a request does not wait for a caller,
\* their number is a bound of the model.)  That a service answers is not assumed.
Fairness ==
    /\ WF_vars(Tick)
    /\ \A c \in Callers : WF_vars(TimeOut(c))
    /\ \A s \in Services : SF_vars(Asks(s))

FairSpec == Spec /\ Fairness

-----------------------------------------------------------------------------
(* Properties.                                                             *)

\* clients.go:37, circuit_breaker.go:46: a breaker that does not let calls pass
\* has counted a failure of its own service in the interval in which it opened.
\* Neither another service nor a query for an order that is not there yet, nor a
\* wrong password, nor a result of an earlier interval opens it.
OpensForCause ==
    \A s \in Services : breaker[s].state # "closed" => failed[s]

\* The calls of a service under way.
Under(s) == {c \in Callers : InFlight(c) /\ ServiceOf(call[c].req.op) = s}

\* circuit_breaker.go:16: a service that may have recovered is not run down
\* again: no more than MaxRequests calls of it are under way.  This rests on the
\* calls begun before the breaker opened being over when it is half-open, that
\* is on CallTimeout being shorter than Timeout.
ProbesBounded ==
    \A s \in Services : breaker[s].state = "half-open" =>
        Cardinality(Under(s)) <= MaxRequests

\* Of the registrations of a name that race for it at most one is answered with
\* success, and it is the one whose password the account has from then on, even
\* when the others' calls fail after their INSERT.
OneWinner ==
    \A n \in Names : told[n] \subseteq {account[n]}

\* No breaker stays open or half-open for ever: it probes, and the probes close
\* it or open it again, even if the service never answers.
NeverStuck ==
    \A s \in Services :
        /\ breaker[s].state = "open" ~> breaker[s].state # "open"
        /\ breaker[s].state = "half-open" ~> breaker[s].state # "half-open"
=============================================================================
