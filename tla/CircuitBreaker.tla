--------------------------- MODULE CircuitBreaker ---------------------------
(***************************************************************************)
(* The breaker around the model provider's insight calls                   *)
(* (app/core/circuit_breaker.py, app/insights/ai_insights.py).             *)
(*                                                                         *)
(* Calls overlap: a call admitted in one state may end in another.  All    *)
(* between two awaits is one step.  A cancelled call is neither a success  *)
(* nor, being no Exception, a failure.                                     *)
(***************************************************************************)
EXTENDS Naturals

CONSTANTS
    InsightCalls,  \* calls in flight at a time
    Threshold,     \* failure_threshold
    ResetTime      \* reset_timeout, in ticks of the clock

ASSUME BreakerAssumption == Threshold \in Nat \ {0} /\ ResetTime \in Nat \ {0}

VARIABLES
    breaker,   \* the breaker's attributes; since: ticks after opened_at
    insight    \* insight[c]: the state a call was admitted in, or "idle"

breakervars == <<breaker, insight>>

\* failure_count is unbounded; from the threshold on nothing tells it apart.
Counted(n) == IF n < Threshold THEN n + 1 ELSE n

BreakerInit ==
    /\ breaker = [state |-> "closed", failures |-> 0, since |-> 0]
    /\ insight = [c \in InsightCalls |-> "idle"]

\* _update_state
Updated == IF breaker.state = "open" /\ breaker.since >= ResetTime
           THEN [breaker EXCEPT !.state = "half_open"] ELSE breaker

CallProvider(c) ==
    /\ insight[c] = "idle" /\ Updated.state # "open"
    /\ breaker' = Updated
    /\ insight' = [insight EXCEPT ![c] = Updated.state]

PushedBack == [breaker EXCEPT !.since = 0]
FailedFast == breaker

\* CircuitBreakerOpenError
Reject(c) ==
    /\ insight[c] = "idle" /\ Updated.state = "open"
    /\ breaker' = FailedFast
    /\ UNCHANGED insight

CallFails(c) ==
    /\ insight[c] # "idle"
    /\ breaker' = IF breaker.state = "half_open" \/ Counted(breaker.failures) >= Threshold
                  THEN [state |-> "open", failures |-> Counted(breaker.failures), since |-> 0]
                  ELSE [breaker EXCEPT !.failures = Counted(@)]
    /\ insight' = [insight EXCEPT ![c] = "idle"]

CallSucceeds(c) ==
    /\ insight[c] # "idle"
    /\ breaker' = [breaker EXCEPT !.state = "closed", !.failures = 0]
    /\ insight' = [insight EXCEPT ![c] = "idle"]

CallIsCancelled(c) ==
    /\ insight[c] # "idle"
    /\ insight' = [insight EXCEPT ![c] = "idle"]
    /\ UNCHANGED breaker

BreakerTick ==
    /\ breaker.since < ResetTime
    /\ breaker' = [breaker EXCEPT !.since = @ + 1]
    /\ UNCHANGED insight

BreakerNext ==
    \/ \E c \in InsightCalls :
        \/ CallProvider(c) \/ Reject(c) \/ CallFails(c)
        \/ CallSucceeds(c) \/ CallIsCancelled(c)
    \/ BreakerTick

BreakerSpec == BreakerInit /\ [][BreakerNext]_breakervars /\ WF_breakervars(BreakerTick)

----------------------------------------------------------------------------
\* An open breaker admits a call again after the reset time, however often it
\* is asked meanwhile and however late the calls it had admitted still fail.
OpenBreakerLetsGo ==
    breaker.state = "open" ~> Updated.state # "open"
============================================================================
