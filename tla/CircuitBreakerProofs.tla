------------------------ MODULE CircuitBreakerProofs ------------------------
(* The circuit breaker's invariants, for any number of callers and any      *)
(* thresholds.                                                              *)
EXTENDS CircuitBreaker, FiniteSetTheorems, TLAPS

\* The callers of a half-open period are at most as many as the probes that
\* were counted, and each counter is at most the run of results it stands for.
IInv ==
    /\ BreakerTypeOK
    /\ state = "half_open" => Cardinality(period) <= probes
    /\ TripsInTime
    /\ failures <= badRun
    /\ successes <= goodRun

-----------------------------------------------------------------------------
\* Admitting a caller to a set of callers adds at most one to its size.
LEMMA PeriodGrows ==
    ASSUME NEW S \in SUBSET Clients, NEW c \in Clients
    PROVE  /\ Cardinality(S) \in Nat
           /\ Cardinality(S \cup {c}) \in Nat
           /\ Cardinality(S \cup {c}) <= Cardinality(S) + 1
           /\ Cardinality({c}) = 1
<1>1. IsFiniteSet(S)
    BY FS_Subset, BreakerAssumption DEF BreakerAssumption
<1>2. IsFiniteSet({c}) /\ Cardinality({c}) = 1
    BY FS_Singleton
<1>3. /\ Cardinality(S) \in Nat
      /\ IsFiniteSet(S \cup {c})
      /\ Cardinality(S \cup {c}) = IF c \in S THEN Cardinality(S)
                                   ELSE Cardinality(S) + 1
    BY <1>1, FS_AddElement, FS_CardinalityType
<1> QED
    BY <1>2, <1>3

\* Counting stays within the cap.
LEMMA BumpBounds ==
    ASSUME NEW n \in 0..CounterCap
    PROVE  /\ Bump(n) \in 0..CounterCap
           /\ \A m \in 0..CounterCap : m <= n => Bump(m) <= Bump(n)
BY BreakerAssumption DEF Bump, BreakerAssumption

\* The invariant holds of the initial states.
LEMMA InvInit == BreakerInit => IInv
<1> SUFFICES ASSUME BreakerInit PROVE IInv
    OBVIOUS
<1>1. BreakerTypeOK
    <2>1. leaked \in BOOLEAN /\ cooled \in BOOLEAN /\ healthy \in BOOLEAN
        BY DEF BreakerInit
    <2> QED
        BY <2>1, BreakerAssumption DEF BreakerInit, BreakerTypeOK, States, BreakerAssumption
<1> QED
    BY <1>1, BreakerAssumption DEF BreakerInit, IInv, TripsInTime, BreakerAssumption

\* Admission preserves it: a new period starts with its first caller.
LEMMA InvEnter ==
    ASSUME IInv, NEW c \in Clients, Enter(c)
    PROVE  IInv'
<1>1. CASE StateAtEntry = "half_open"
    <2>1. /\ probes' = ProbesAtEntry + 1
          /\ ProbesAtEntry \in 0..HalfOpenMaxCalls
          /\ ProbesAtEntry < HalfOpenMaxCalls
          /\ state' = "half_open"
        BY <1>1, BreakerAssumption
        DEF Enter, Admitted, ProbesAtEntry, IInv, BreakerTypeOK, BreakerAssumption
    <2>2. Cardinality(period)' <= probes' /\ period' \subseteq Clients
        <3>1. CASE ToHalfOpen
            BY <1>1, <2>1, <3>1, PeriodGrows DEF Enter, ProbesAtEntry
        <3>2. CASE ~ToHalfOpen
            <4>1. /\ state = "half_open" /\ period' = period \cup {c}
                  /\ probes' = probes + 1
                BY <1>1, <2>1, <3>2 DEF Enter, StateAtEntry, ProbesAtEntry
            <4>2. Cardinality(period) <= probes /\ period \in SUBSET Clients
                BY <4>1 DEF IInv, BreakerTypeOK
            <4>3. /\ Cardinality(period) \in Nat
                  /\ Cardinality(period \cup {c}) \in Nat
                  /\ Cardinality(period \cup {c}) <= Cardinality(period) + 1
                BY <4>2, PeriodGrows
            <4>4. probes \in Nat
                BY BreakerAssumption DEF IInv, BreakerTypeOK, BreakerAssumption
            <4> QED
                BY <4>1, <4>2, <4>3, <4>4
        <3> QED
            BY <3>1, <3>2
    <2> QED
        BY <2>1, <2>2, BreakerAssumption
        DEF Enter, IInv, BreakerTypeOK, TripsInTime, States, results, BreakerAssumption
<1>2. CASE StateAtEntry # "half_open"
    BY <1>2 DEF Enter, StateAtEntry, ToHalfOpen, IInv, BreakerTypeOK, TripsInTime,
                States, results
<1> QED
    BY <1>1, <1>2

\* A rejection preserves it: it never starts a period, since a fresh one has
\* a slot.
LEMMA InvReject ==
    ASSUME IInv, NEW c \in Clients, Reject(c)
    PROVE  IInv'
<1>1. ~ToHalfOpen
    BY BreakerAssumption
    DEF Reject, ToHalfOpen, StateAtEntry, ProbesAtEntry, Admitted, BreakerAssumption
<1>2. UNCHANGED breakerVars
    BY <1>1 DEF Reject, StateAtEntry, ProbesAtEntry, breakerVars, results
<1> QED
    BY <1>2 DEF IInv, BreakerTypeOK, TripsInTime, breakerVars

\* A success preserves it.
LEMMA InvSucceed ==
    ASSUME IInv, NEW c \in Clients, Succeed(c)
    PROVE  IInv'
<1>1. /\ successes \in 0..CounterCap /\ goodRun \in 0..CounterCap
      /\ failures \in 0..CounterCap /\ badRun \in 0..CounterCap
    BY DEF IInv, BreakerTypeOK
<1>2. /\ Bump(successes) \in 0..CounterCap /\ Bump(goodRun) \in 0..CounterCap
      /\ Bump(successes) <= Bump(goodRun)
    BY <1>1, BumpBounds DEF IInv
<1> QED
    BY <1>1, <1>2, BreakerAssumption
    DEF Succeed, Leave, FailuresOnSuccess, IInv, BreakerTypeOK, TripsInTime, States,
        BreakerAssumption

\* A failure preserves it.
LEMMA InvFail ==
    ASSUME IInv, NEW c \in Clients, Fail(c)
    PROVE  IInv'
<1>1. /\ failures \in 0..CounterCap /\ badRun \in 0..CounterCap
      /\ failures <= badRun
    BY DEF IInv, BreakerTypeOK
<1>2. /\ Bump(failures) \in 0..CounterCap /\ Bump(badRun) \in 0..CounterCap
      /\ Bump(failures) <= Bump(badRun)
    BY <1>1, BumpBounds
<1>3. /\ failures' = Bump(failures) /\ badRun' = Bump(badRun)
      /\ successes' = 0 /\ goodRun' = 0
      /\ state' \in {"open", state}
      /\ state' = "closed" => Bump(failures) < FailureThreshold
      /\ UNCHANGED <<probes, period, healthy, leaked>>
      /\ cooled' = FALSE /\ calling' \subseteq calling
    BY <1>2, BreakerAssumption DEF Fail, Leave, Trips, BreakerAssumption
<1>4. BreakerTypeOK'
    <2>1. /\ state' \in States
          /\ cooled' \in BOOLEAN /\ healthy' \in BOOLEAN /\ leaked' \in BOOLEAN
          /\ calling' \subseteq Clients /\ period' \subseteq Clients
          /\ probes' \in 0..HalfOpenMaxCalls
        BY <1>3 DEF IInv, BreakerTypeOK, States
    <2>2. /\ failures' \in 0..CounterCap /\ badRun' \in 0..CounterCap
          /\ successes' \in 0..CounterCap /\ goodRun' \in 0..CounterCap
        BY <1>2, <1>3, BreakerAssumption DEF BreakerAssumption
    <2> QED
        BY <2>1, <2>2 DEF BreakerTypeOK
<1> QED
    BY <1>2, <1>3, <1>4 DEF IInv, TripsInTime

\* Cancellations and the environment preserve it.
LEMMA InvRest ==
    ASSUME IInv,
           \/ \E c \in Clients : Cancel(c)
           \/ Cool
           \/ HealthChanges
           \/ UNCHANGED breakerVars
    PROVE  IInv'
<1>1. CASE \E c \in Clients : Cancel(c)
    BY <1>1 DEF Cancel, Leave, breaker, results, IInv, BreakerTypeOK, TripsInTime
<1>2. CASE Cool
    BY <1>2 DEF Cool, IInv, BreakerTypeOK, TripsInTime
<1>3. CASE HealthChanges
    BY <1>3 DEF HealthChanges, breaker, results, IInv, BreakerTypeOK, TripsInTime
<1>4. CASE UNCHANGED breakerVars
    BY <1>4 DEF breakerVars, IInv, BreakerTypeOK, TripsInTime
<1> QED
    BY <1>1, <1>2, <1>3, <1>4

\* Every step preserves the invariant.
LEMMA InvNext == IInv /\ [BreakerNext]_breakerVars => IInv'
<1> SUFFICES ASSUME IInv, [BreakerNext]_breakerVars PROVE IInv'
    OBVIOUS
<1> QED
    BY InvEnter, InvReject, InvSucceed, InvFail, InvRest DEF BreakerNext

\* The inductive invariant holds of every behaviour of the breaker.
THEOREM BreakerInvariant == BreakerSpec => []IInv
<1> QED
    BY InvInit, InvNext, PTL DEF BreakerSpec

\* Every variable of the breaker keeps its type; in particular the probes
\* counted never exceed half_open_max_calls.
THEOREM TypeCorrect == BreakerSpec => []BreakerTypeOK
<1>1. IInv => BreakerTypeOK
    BY DEF IInv
<1> QED
    BY <1>1, BreakerInvariant, PTL

\* In one half-open period at most half_open_max_calls callers reach the
\* dependency, however many callers there are.
THEOREM ProbesAreBounded == BreakerSpec => []ProbesBounded
<1>1. IInv => ProbesBounded
    <2> SUFFICES ASSUME IInv, state = "half_open"
                 PROVE  Cardinality(period) <= HalfOpenMaxCalls
        BY DEF ProbesBounded
    <2>1. Cardinality(period) \in Nat
        <3>1. IsFiniteSet(period)
            BY FS_Subset, BreakerAssumption DEF IInv, BreakerTypeOK, BreakerAssumption
        <3> QED
            BY <3>1, FS_CardinalityType
    <2> QED
        BY <2>1, BreakerAssumption DEF IInv, BreakerTypeOK, BreakerAssumption
<1> QED
    BY <1>1, BreakerInvariant, PTL

\* A closed breaker holds fewer failures than the threshold.
THEOREM TripsOnTime == BreakerSpec => []TripsInTime
<1>1. IInv => TripsInTime
    BY DEF IInv
<1> QED
    BY <1>1, BreakerInvariant, PTL

\* The breaker trips and closes on consecutive results only.
THEOREM ConsecutiveResults == BreakerSpec => TurnsOnConsecutiveResults
<1> DEFINE Turns ==
        /\ state = "closed" /\ state' # "closed" => badRun' >= FailureThreshold
        /\ state # "closed" /\ state' = "closed" => goodRun' >= SuccessThreshold
<1>1. IInv /\ [BreakerNext]_breakerVars => [Turns]_breakerVars
    <2> SUFFICES ASSUME IInv, BreakerNext PROVE Turns
        OBVIOUS
    <2> USE DEF IInv, BreakerTypeOK
    <2>1. ASSUME NEW c \in Clients, Enter(c) \/ Reject(c) PROVE Turns
        BY <2>1 DEF Enter, Reject, StateAtEntry, ToHalfOpen
    <2>2. ASSUME NEW c \in Clients, Succeed(c) PROVE Turns
        <3>1. Bump(successes) <= Bump(goodRun) /\ Bump(goodRun) \in 0..CounterCap
              /\ Bump(successes) \in 0..CounterCap
            BY BumpBounds
        <3> QED
            BY <2>2, <3>1, BreakerAssumption DEF Succeed, BreakerAssumption
    <2>3. ASSUME NEW c \in Clients, Fail(c) PROVE Turns
        <3>1. Bump(failures) <= Bump(badRun) /\ Bump(badRun) \in 0..CounterCap
              /\ Bump(failures) \in 0..CounterCap
            BY BumpBounds
        <3> QED
            BY <2>3, <3>1, BreakerAssumption DEF Fail, Trips, BreakerAssumption
    <2>4. ASSUME NEW c \in Clients, Cancel(c) PROVE Turns
        BY <2>4 DEF Cancel, breaker
    <2>5. ASSUME Cool \/ HealthChanges PROVE Turns
        BY <2>5 DEF Cool, HealthChanges, breaker
    <2> QED
        BY <2>1, <2>2, <2>3, <2>4, <2>5 DEF BreakerNext
<1> QED
    BY <1>1, BreakerInvariant, PTL DEF BreakerSpec, TurnsOnConsecutiveResults
=============================================================================
