--------------------------- MODULE CircuitBreaker ---------------------------
(***************************************************************************)
(* app/utils/circuit_breaker.py, class CircuitBreaker: concurrent callers  *)
(* of one dependency. The asyncio lock is never held across an await, so   *)
(* the admission of a call and the recording of its result are one step    *)
(* each; the dependency is called between them, outside the lock, and any  *)
(* number of other callers may run there.                                  *)
(*                                                                         *)
(* The counters only ever meet a threshold: they stop at CounterCap. The   *)
(* clock is the fact that the recovery timeout has elapsed since the last  *)
(* recorded failure.                                                       *)
(***************************************************************************)
EXTENDS Integers, FiniteSets

CONSTANTS
    Clients,           \* tasks that call the dependency, again and again
    FailureThreshold,  \* consecutive failures to trip (5)
    HalfOpenMaxCalls,  \* probes allowed in half-open state (1)
    SuccessThreshold,  \* consecutive successes to close again (2)
    CounterCap,        \* where the counters stop counting
    CallsCancelled       \* calls may be cancelled while they run

ASSUME BreakerAssumption ==
    /\ IsFiniteSet(Clients)
    /\ FailureThreshold \in Nat \ {0}
    /\ HalfOpenMaxCalls \in Nat \ {0}
    /\ SuccessThreshold \in Nat \ {0}
    /\ CounterCap \in Nat
    /\ CounterCap >= FailureThreshold /\ CounterCap >= SuccessThreshold
    /\ CallsCancelled \in BOOLEAN

VARIABLES
    state,      \* closed, open or half_open
    failures,   \* consecutive_failures
    successes,  \* consecutive_successes
    probes,     \* _half_open_calls
    cooled,     \* recovery_timeout_seconds have passed since last_failure_time
    calling,    \* callers inside the dependency
    period,     \* callers admitted since the breaker last went half-open
    leaked,     \* history: a probe of that period was cancelled
    goodRun,    \* history: results recorded since the last failure
    badRun,     \* history: results recorded since the last success
    healthy     \* the dependency answers

breaker == <<state, failures, successes, probes, cooled>>
results == <<goodRun, badRun>>
breakerVars == <<state, failures, successes, probes, cooled, calling, period,
          leaked, goodRun, badRun, healthy>>

States == {"closed", "open", "half_open"}

Bump(n) == IF n < CounterCap THEN n + 1 ELSE n

BreakerInit ==
    /\ state = "closed"
    /\ failures = 0 /\ successes = 0 /\ probes = 0
    /\ cooled = TRUE
    /\ calling = {} /\ period = {} /\ leaked = FALSE
    /\ goodRun = 0 /\ badRun = 0
    /\ healthy \in BOOLEAN

-----------------------------------------------------------------------------
\* _maybe_transition_to_half_open: an open breaker whose timeout has elapsed
\* turns half-open at the next call, with fresh probe slots.
ToHalfOpen == state = "open" /\ cooled

StateAtEntry == IF ToHalfOpen THEN "half_open" ELSE state

\* Mutant: the probe slots are not given back.
ProbesAtEntry_NotReset == probes

ProbesAtEntry == IF ToHalfOpen THEN 0 ELSE probes

\* Mutant: one probe too many is let in.
Admitted_OffByOne ==
    StateAtEntry = "half_open" => ProbesAtEntry <= HalfOpenMaxCalls

\* What the half-open state admits; an open one that stays open admits nothing.
Admitted ==
    StateAtEntry = "half_open" => ProbesAtEntry < HalfOpenMaxCalls

\* call, up to the dependency: the caller is let through ...
Enter(c) ==
    /\ c \notin calling
    /\ StateAtEntry # "open"
    /\ Admitted
    /\ state' = StateAtEntry
    /\ calling' = calling \cup {c}
    /\ IF StateAtEntry = "half_open"
       THEN /\ probes' = ProbesAtEntry + 1
            /\ period' = IF ToHalfOpen THEN {c} ELSE period \cup {c}
            /\ leaked' = (leaked /\ ~ToHalfOpen)
       ELSE UNCHANGED <<probes, period, leaked>>
    /\ UNCHANGED <<failures, successes, cooled, healthy>> /\ UNCHANGED results

\* ... or rejected with CircuitOpenError. A rejection turns the state too; it
\* can only reject a half-open breaker that has no slot left.
Reject(c) ==
    /\ c \notin calling
    /\ StateAtEntry = "open" \/ ~Admitted
    /\ state' = StateAtEntry
    /\ probes' = ProbesAtEntry
    /\ UNCHANGED <<failures, successes, cooled, calling, period, leaked, healthy>>
    /\ UNCHANGED results

Leave(c) ==
    /\ calling' = calling \ {c}
    /\ UNCHANGED <<probes, period, healthy>>

\* Mutant: a success does not end a series of failures.
FailuresOnSuccess_Kept == failures

FailuresOnSuccess == 0

\* _on_success: counts whatever the state, and closes a half-open breaker at
\* the threshold.
Succeed(c) ==
    /\ c \in calling /\ healthy
    /\ Leave(c)
    /\ IF state = "half_open" /\ Bump(successes) >= SuccessThreshold
       THEN state' = "closed" /\ failures' = 0 /\ successes' = 0
       ELSE /\ failures' = FailuresOnSuccess
            /\ successes' = Bump(successes)
            /\ UNCHANGED state
    /\ goodRun' = Bump(goodRun) /\ badRun' = 0
    /\ UNCHANGED <<cooled, leaked>>

\* A failure trips a half-open breaker, and any other at the threshold.
Trips == state = "half_open" \/ Bump(failures) >= FailureThreshold

\* _on_failure: counts whatever the state, and restarts the recovery timeout.
Fail(c) ==
    /\ c \in calling /\ ~healthy
    /\ Leave(c)
    /\ failures' = Bump(failures)
    /\ successes' = 0
    /\ cooled' = FALSE
    /\ state' = IF Trips THEN "open" ELSE state
    /\ badRun' = Bump(badRun) /\ goodRun' = 0
    /\ UNCHANGED leaked

\* A cancelled call raises CancelledError, which is not an Exception: neither
\* result is recorded, and the slot of a probe stays taken.
Cancel(c) ==
    /\ CallsCancelled
    /\ c \in calling
    /\ Leave(c)
    /\ leaked' = (leaked \/ (state = "half_open" /\ c \in period))
    /\ UNCHANGED breaker /\ UNCHANGED results

\* The recovery timeout elapses.
Cool == ~cooled /\ cooled' = TRUE
        /\ UNCHANGED <<state, failures, successes, probes, calling, period,
                       leaked, goodRun, badRun, healthy>>

\* The dependency goes down or comes back.
HealthChanges ==
    /\ healthy' = ~healthy
    /\ UNCHANGED breaker /\ UNCHANGED results
    /\ UNCHANGED <<calling, period, leaked>>

BreakerNext ==
    \/ Cool \/ HealthChanges
    \/ \E c \in Clients : Enter(c) \/ Reject(c) \/ Succeed(c) \/ Fail(c) \/ Cancel(c)

BreakerSpec == BreakerInit /\ [][BreakerNext]_breakerVars

\* The dependency's client has a timeout, so that a call ends; callers keep
\* calling (decision requests keep coming); time passes.
BreakerFairSpec ==
    /\ BreakerSpec
    /\ WF_breakerVars(Cool)
    /\ \A c \in Clients : WF_breakerVars(Enter(c)) /\ WF_breakerVars(Succeed(c) \/ Fail(c))

-----------------------------------------------------------------------------
\* Every variable holds values of its type.
BreakerTypeOK ==
    /\ state \in States
    /\ failures \in 0..CounterCap /\ successes \in 0..CounterCap
    /\ probes \in 0..HalfOpenMaxCalls
    /\ cooled \in BOOLEAN /\ healthy \in BOOLEAN /\ leaked \in BOOLEAN
    /\ calling \subseteq Clients /\ period \subseteq Clients
    /\ goodRun \in 0..CounterCap /\ badRun \in 0..CounterCap

\* In one half-open period at most half_open_max_calls callers reach the
\* dependency, whatever results of earlier calls arrive meanwhile.
ProbesBounded ==
    state = "half_open" => Cardinality(period) <= HalfOpenMaxCalls

\* A closed breaker never holds as many failures as the threshold, whatever
\* the order in which concurrent results are recorded: it would have tripped.
TripsInTime == state = "closed" => failures < FailureThreshold

\* The breaker turns on consecutive results only: it leaves closed after
\* failure_threshold failures in a row with no success recorded between them,
\* and closes after success_threshold successes in a row, counting the results
\* of calls admitted in any earlier state.
TurnsOnConsecutiveResults ==
    [][/\ state = "closed" /\ state' # "closed" => badRun' >= FailureThreshold
       /\ state # "closed" /\ state' = "closed" => goodRun' >= SuccessThreshold]_breakerVars

\* README 9.4, "CLOSED -> OPEN -> HALF_OPEN -> CLOSED (recovery)": once the
\* dependency stays healthy, callers keep calling and no cancelled call keeps
\* a probe slot, the breaker closes.
Recovers ==
    <>[](healthy /\ ~(state = "half_open" /\ leaked)) => <>[](state = "closed")
=============================================================================
