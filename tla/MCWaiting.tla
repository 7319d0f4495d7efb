------------------------------ MODULE MCWaiting ------------------------------
(***************************************************************************)
(* What a call may wait for: a slot of the backpressure limiter, the       *)
(* services a decision is sent to, and a dependency behind a circuit       *)
(* breaker. They share no state: a rigid variable says which of them moves.*)
(***************************************************************************)
EXTENDS BackpressureLimiter, CircuitBreaker, Delivery

VARIABLE focus

waitingVars == <<vars, breakerVars, delivery, focus>>

WaitingInit ==
    /\ focus \in {"limiter", "breaker", "delivery"}
    /\ Init /\ BreakerInit /\ DeliveryInit
    /\ focus # "breaker" => healthy

WaitingNext ==
    /\ UNCHANGED focus
    /\ \/ focus = "limiter" /\ Next /\ UNCHANGED <<breakerVars, delivery>>
       \/ focus = "breaker" /\ BreakerNext /\ UNCHANGED <<vars, delivery>>
       \/ focus = "delivery" /\ DeliveryNext /\ UNCHANGED <<vars, breakerVars>>

\* The event loop comes back to a sender, and a client call ends: it has a
\* timeout of its own. That anything arrives is not assumed.
SenderFairness ==
    \A j \in Deliveries :
        /\ WF_delivery(focus = "delivery" /\ Attempt(j))
        /\ WF_delivery(focus = "delivery" /\ (Acknowledge(j) \/ Error(j)))

\* A task that can go on does, and the call of a holder ends. Of the timeouts
\* nothing is assumed.
LimiterFairness ==
    \A c \in Callers :
        /\ WF_vars(focus = "limiter" /\ Resume(c))
        /\ WF_vars(focus = "limiter" /\ TimedOut(c))
        /\ WF_vars(focus = "limiter" /\ Release(c))

\* As BreakerFairSpec: calls end, callers keep calling, time passes.
BreakerFairness ==
    /\ WF_breakerVars(focus = "breaker" /\ Cool)
    /\ \A c \in Clients :
          /\ WF_breakerVars(focus = "breaker" /\ Enter(c))
          /\ WF_breakerVars(focus = "breaker" /\ (Succeed(c) \/ Fail(c)))

WaitingSpec ==
    /\ WaitingInit /\ [][WaitingNext]_waitingVars
    /\ SenderFairness /\ LimiterFairness /\ BreakerFairness

-----------------------------------------------------------------------------
CONSTANTS workflow, completed, created

\* start_handoff, then the two events of _publish_events.
OneDecision == <<workflow, completed, created>>
ItsWorkflow == {workflow}
=============================================================================
