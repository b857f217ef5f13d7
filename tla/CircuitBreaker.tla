--------------------------- MODULE CircuitBreaker ---------------------------
(***************************************************************************)
(* A circuit breaker of shared/pkg/resilience: gobreaker with the settings *)
(* of DefaultCircuitBreakerConfig, as operators on a record.               *)
(*                                                                         *)
(* Closed, it counts the requests and failures of an interval and opens    *)
(* when enough of them failed.  Open, it refuses everything for a timeout. *)
(* Half-open, it lets a few probes through: one failure opens it again, as *)
(* many successes close it.  gobreaker looks at the clock only when a call *)
(* begins or ends (Current), and every change of state and every new       *)
(* interval begins a generation, whose counters are zero and which ignores *)
(* the results of calls begun before it.                                   *)
(***************************************************************************)
EXTENDS Naturals

CONSTANTS
    MaxRequests,    \* probes of a half-open breaker
    MinRequests,    \* requests before the failure ratio is looked at
    Interval,       \* ticks between two resets of a closed breaker's counters
    Timeout         \* ticks an open breaker stays open

ASSUME CircuitBreakerAssumption ==
    /\ MaxRequests \in Nat \ {0}
    /\ MinRequests \in Nat \ {0}
    /\ Interval \in Nat \ {0}
    /\ Timeout \in Nat \ {0}

States == {"closed", "open", "half-open"}

Breakers == [state : States, requests : Nat, failures : Nat, successes : Nat,
             left : 0..Interval \cup 0..Timeout]

\* Mutant of IsSuccessful: an order that is not there yet counts as a failure.
IsSuccessfulIfOK(code) == code \in {"OK", "Unauthenticated"}

\* The codes of the calls that gRPC answers with which do not count as failures.
IsSuccessful(code) == code \in {"OK", "NotFound", "Unauthenticated"}

\* The breaker at the beginning of a generation.
NewGeneration(state) ==
    [state |-> state, requests |-> 0, failures |-> 0, successes |-> 0,
     left |-> CASE state = "closed" -> Interval
                [] state = "open" -> Timeout
                [] state = "half-open" -> 0]

\* The breaker as a call finds it: an interval or a timeout may be over.
Current(b) ==
    CASE b.state = "closed" /\ b.left = 0 -> NewGeneration("closed")
      [] b.state = "open" /\ b.left = 0 -> NewGeneration("half-open")
      [] OTHER -> b

\* ErrOpenState, ErrTooManyRequests.
Refuses(b) ==
    \/ b.state = "open"
    \/ b.state = "half-open" /\ b.requests >= MaxRequests

OnRequest(b) == [b EXCEPT !.requests = @ + 1]

\* At least half of the requests, those still under way included, failed.
ReadyToTrip(b) == b.requests >= MinRequests /\ 2 * b.failures >= b.requests

\* One more failure.
OnFailure(b) ==
    LET counted == [b EXCEPT !.failures = @ + 1]
    IN  IF b.state = "half-open" \/ ReadyToTrip(counted)
          THEN NewGeneration("open") ELSE counted

\* One more success; those of a closed breaker decide nothing.
OnSuccess(b) ==
    IF b.state # "half-open" THEN b
    ELSE IF b.successes + 1 >= MaxRequests THEN NewGeneration("closed")
    ELSE [b EXCEPT !.successes = @ + 1]

\* Mutant of Age: the remaining time underflows.
AgeUnderflow(b) == [b EXCEPT !.left = @ - 1]

\* The clock runs.
Age(b) == [b EXCEPT !.left = IF @ = 0 THEN 0 ELSE @ - 1]
=============================================================================
