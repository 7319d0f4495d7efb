------------------------- MODULE BackpressureLimiter -------------------------
(***************************************************************************)
(* app/utils/circuit_breaker.py, class BackpressureLimiter, used as        *)
(* "async with limiter": an asyncio.Semaphore (Python 3.13, the external   *)
(* part) under asyncio.wait_for, and the two gauges the limiter keeps      *)
(* beside it. A waiter that is granted a slot resumes at a later turn of   *)
(* the event loop, and its timeout may fire before it does.                *)
(***************************************************************************)
EXTENDS Integers, FiniteSets

CONSTANTS
    Callers,        \* tasks that use the limiter, again and again
    MaxConcurrent,  \* max_concurrent (50)
    Cancellation,   \* a task may be cancelled while it waits
    WaitingCap      \* bound on the waiting gauge, which a cancellation leaks

ASSUME LimiterAssumption ==
    /\ IsFiniteSet(Callers)
    /\ MaxConcurrent \in Nat \ {0}
    /\ Cancellation \in BOOLEAN
    /\ WaitingCap \in Nat

VARIABLES
    phase,     \* where a task is; pending: in line, granted: woken with a slot,
               \* cancelled: the wait was cancelled, revoked: after the grant
    ahead,     \* _waiters of the semaphore: per task, those before it in line
    value,     \* _value of the semaphore
    inFlight,  \* _in_flight
    waiting    \* _waiting; a metric only, which cancellations leave too high

vars == <<phase, ahead, value, inFlight, waiting>>

InLine == {"pending", "granted", "cancelled", "revoked"}
Phases == InLine \cup {"idle", "holding"}
In(ph) == {c \in Callers : phase[c] \in ph}

Init ==
    /\ phase = [c \in Callers |-> "idle"]
    /\ ahead = [c \in Callers |-> {}]
    /\ value = MaxConcurrent
    /\ inFlight = 0 /\ waiting = 0

-----------------------------------------------------------------------------
\* Semaphore.locked: no slot, or somebody is in line.
Locked == value = 0 \/ In({"pending", "granted", "revoked"}) # {}

\* How many of the tasks T still wait.
Pending(T, ph) == Cardinality({d \in T : ph[d] = "pending"})

\* Mutant: the waiters that came last are woken first.
Woken_Last(before, ph, v, n) ==
    {c \in Callers :
        /\ ph[c] = "pending"
        /\ Pending({d \in Callers : c \in before[d]}, ph) < v
        /\ Pending({d \in Callers : c \in before[d]}, ph) < n}

\* _wake_up_next, n times while slots last: the first n of v slots' worth of
\* pending waiters.
Woken(before, ph, v, n) ==
    {c \in Callers :
        /\ ph[c] = "pending"
        /\ Pending(before[c], ph) < v
        /\ Pending(before[c], ph) < n}

\* The slots v are handed to at most n waiters.
Grant(before, ph, v, n) ==
    LET w == Woken(before, ph, v, n) IN
    /\ phase' = [c \in Callers |-> IF c \in w THEN "granted" ELSE ph[c]]
    /\ value' = v - Cardinality(w)
    /\ ahead' = before

\* The line once c has left it.
Without(c) == [d \in Callers |-> IF d = c THEN {} ELSE ahead[d] \ {c}]

\* acquire with a free slot does not wait.
AcquireFree(c) ==
    /\ phase[c] = "idle" /\ ~Locked
    /\ phase' = [phase EXCEPT ![c] = "holding"]
    /\ value' = value - 1
    /\ inFlight' = inFlight + 1
    /\ UNCHANGED <<ahead, waiting>>

\* acquire without one gets in line.
AcquireWait(c) ==
    /\ phase[c] = "idle" /\ Locked
    /\ waiting < WaitingCap
    /\ phase' = [phase EXCEPT ![c] = "pending"]
    /\ ahead' = [ahead EXCEPT ![c] = In(InLine)]
    /\ waiting' = waiting + 1
    /\ UNCHANGED <<value, inFlight>>

\* A granted waiter resumes; whoever leaves the line hands on free slots.
Resume(c) ==
    /\ phase[c] = "granted"
    /\ Grant(Without(c), [phase EXCEPT ![c] = "holding"], value, value)
    /\ waiting' = waiting - 1
    /\ inFlight' = inFlight + 1

\* The timeout of wait_for, or a cancellation of the task, reaches a waiter.
Expire(c) ==
    /\ phase[c] \in {"pending", "granted"}
    /\ phase' = [phase EXCEPT ![c] =
                    IF phase[c] = "pending" THEN "cancelled" ELSE "revoked"]
    /\ UNCHANGED <<ahead, value, inFlight, waiting>>

\* Mutant: a slot granted to a waiter whose timeout fired is lost.
SlotsAfter_Lost(c) == value

\* A waiter that leaves without holding gives back the slot it was granted.
SlotsAfter(c) == IF phase[c] = "revoked" THEN value + 1 ELSE value

LeaveLine(c) ==
    /\ phase[c] \in {"cancelled", "revoked"}
    /\ Grant(Without(c), [phase EXCEPT ![c] = "idle"], SlotsAfter(c), SlotsAfter(c))
    /\ UNCHANGED inFlight

\* BackpressureError after a timeout ...
TimedOut(c) == LeaveLine(c) /\ waiting' = waiting - 1

\* ... while a CancelledError passes the except clause, and the gauge stays.
Cancelled(c) == Cancellation /\ LeaveLine(c) /\ UNCHANGED waiting

\* max(0, _in_flight - 1)
InFlightAfter == IF inFlight > 0 THEN inFlight - 1 ELSE 0

\* Mutant: the released slot goes back without waking the next waiter.
WakesOnRelease_None == 0

WakesOnRelease == 1

\* release: one slot back, one waiter woken.
Release(c) ==
    /\ phase[c] = "holding"
    /\ inFlight' = InFlightAfter
    /\ Grant(ahead, [phase EXCEPT ![c] = "idle"], value + 1, WakesOnRelease)
    /\ UNCHANGED waiting

Next == \E c \in Callers :
    \/ AcquireFree(c) \/ AcquireWait(c) \/ Resume(c) \/ Expire(c)
    \/ TimedOut(c) \/ Cancelled(c) \/ Release(c)

Spec == Init /\ [][Next]_vars

-----------------------------------------------------------------------------
\* Every variable holds values of its type.
TypeOK ==
    /\ phase \in [Callers -> Phases]
    /\ ahead \in [Callers -> SUBSET Callers]
    /\ value \in 0..MaxConcurrent
    /\ inFlight \in Nat /\ waiting \in Nat

\* No slot is lost or made up, whatever the order of grants, timeouts and
\* releases: each is free, on its way to a waiter, or held; and the gauge of
\* calls in flight is what is held.
SlotsConserved ==
    /\ value + Cardinality(In({"granted", "revoked", "holding"})) = MaxConcurrent
    /\ inFlight = Cardinality(In({"holding"}))

\* First come, first served: a task that waits is granted a slot only when
\* nobody before it in line waits any more, and a task that has just come passes
\* nobody who waits.
Fifo ==
    [][\A c, d \in Callers :
          (\/ phase[c] = "pending" /\ phase'[c] = "granted" /\ d \in ahead[c]
           \/ phase[c] = "idle" /\ phase'[c] = "holding")
          => phase'[d] # "pending"]_vars

\* A task that waits is let in, or its timeout fires: it never waits for ever
\* beside a free slot.
WaitersServed ==
    \A c \in Callers : phase[c] = "pending" ~> phase[c] # "pending"
=============================================================================
