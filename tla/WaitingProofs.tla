---------------------------- MODULE WaitingProofs ----------------------------
(* What a call may wait for, for any number of tasks, slots, jobs and          *)
(* attempts: the limiter loses no slot and lets nobody pass, and the           *)
(* deliveries of a decision implement Sending.                                 *)
EXTENDS BackpressureLimiter, Delivery, FiniteSetTheorems, TLAPS

\* An attempt that the service may still meet while its sender waits for it.
UnderWay(j) == IF sender[j].pc = "waiting" /\ ~sender[j].arrived THEN 1 ELSE 0

\* Every copy of a job, made or still to come, has an attempt of its own.
Accounted(j) ==
    /\ arrivals[j] + late[j] + UnderWay(j) <= sender[j].attempt
    /\ sender[j].pc = "ok" \/ sender[j].arrived => arrivals[j] > 0
    /\ sender[j].pc = "backoff" => sender[j].attempt \in 1..Attempts - 1
    /\ sender[j].pc = "idle" => sender[j].attempt = 0

\* A job is attempted when those before it are settled.
InTurn ==
    \A i, k \in DOMAIN Order :
        i < k /\ sender[Order[k]].attempt > 0 => Settled(Order[i])

DeliveryInv ==
    /\ DeliveryTypeOK
    /\ \A j \in Deliveries : Accounted(j)
    /\ InTurn

-----------------------------------------------------------------------------
\* A job of a decision has a place in its order.
LEMMA Places == \A i \in DOMAIN Order : Order[i] \in Deliveries
BY DEF Deliveries, Range

\* Nothing has been sent when a decision has just been made.
LEMMA DeliveryInvInit == DeliveryInit => DeliveryInv
<1> SUFFICES ASSUME DeliveryInit PROVE DeliveryInv
    OBVIOUS
<1>1. DeliveryTypeOK
    BY DeliveryAssumption DEF DeliveryInit, DeliveryTypeOK, DeliveryAssumption
<1>2. \A j \in Deliveries : Accounted(j)
    BY DEF DeliveryInit, Accounted, UnderWay
<1>3. InTurn
    BY Places DEF DeliveryInit, InTurn
<1> QED
    BY <1>1, <1>2, <1>3 DEF DeliveryInv

\* An attempt begins in its turn, and is the next one.
LEMMA DeliveryInvAttempt ==
    ASSUME DeliveryInv, NEW j \in Deliveries, Attempt(j)
    PROVE  DeliveryInv'
<1>1. /\ sender[j].attempt \in 0..Attempts
      /\ sender[j].attempt < Attempts
      /\ arrivals[j] \in Nat /\ late[j] \in Nat
      /\ arrivals[j] + late[j] <= sender[j].attempt
      /\ UNCHANGED <<late, arrivals, running>>
    <2>1. sender[j].pc \in {"idle", "backoff"}
        BY DEF Attempt, Turn
    <2>2. Attempts \in Nat \ {0} /\ Accounted(j) /\ DeliveryTypeOK
        BY DeliveryAssumption DEF DeliveryInv, DeliveryAssumption
    <2>3. sender[j].attempt < Attempts
        BY <2>1, <2>2 DEF Accounted
    <2> QED
        BY <2>2, <2>3 DEF DeliveryTypeOK, Accounted, UnderWay, Attempt
<1>2. sender' = [sender EXCEPT ![j] =
          [pc |-> "waiting", attempt |-> sender[j].attempt + 1, arrived |-> FALSE]]
    BY DEF Attempt
<1>3. sender[j].attempt + 1 \in 0..Attempts
    BY <1>1, DeliveryAssumption DEF DeliveryAssumption
<1>4. DeliveryTypeOK'
    BY <1>1, <1>2, <1>3 DEF DeliveryInv, DeliveryTypeOK
<1>5. ASSUME NEW d \in Deliveries PROVE Accounted(d)'
    <2>1. CASE d = j
        BY <1>1, <1>2, <2>1 DEF DeliveryInv, DeliveryTypeOK, Accounted, UnderWay
    <2>2. CASE d # j
        BY <1>1, <1>2, <2>2 DEF DeliveryInv, DeliveryTypeOK, Accounted, UnderWay
    <2> QED
        BY <2>1, <2>2
<1>6. InTurn'
    <2> SUFFICES ASSUME NEW i \in DOMAIN Order, NEW k \in DOMAIN Order,
                        i < k, sender'[Order[k]].attempt > 0
                 PROVE  Settled(Order[i])'
        BY DEF InTurn
    <2>1. Settled(Order[i])
        <3>1. CASE Order[k] = j /\ Turn(j)
            <4>1. PICK n \in DOMAIN Order :
                      /\ Order[n] = j
                      /\ \A m \in 1..n - 1 : Settled(Order[m])
                BY <3>1 DEF Turn
            <4>2. n = k
                BY <3>1, <4>1, DeliveryAssumption DEF DeliveryAssumption
            <4> QED
                BY <4>1, <4>2, DeliveryAssumption DEF DeliveryAssumption
        <3>2. CASE Order[k] = j /\ ~Turn(j)
            <4>1. sender[j].attempt > 0
                BY <3>2, <1>1 DEF Attempt, DeliveryInv, Accounted
            <4> QED
                BY <3>2, <4>1 DEF DeliveryInv, InTurn
        <3>3. CASE Order[k] # j
            <4>1. sender'[Order[k]] = sender[Order[k]]
                BY <1>2, <3>3, Places DEF DeliveryInv, DeliveryTypeOK
            <4> QED
                BY <4>1 DEF DeliveryInv, InTurn
        <3> QED
            BY <3>1, <3>2, <3>3
    <2>2. Order[i] # j
        BY <2>1 DEF Settled, Attempt, Turn
    <2> QED
        BY <1>2, <2>1, <2>2, Places DEF Settled, DeliveryInv, DeliveryTypeOK
<1> QED
    BY <1>4, <1>5, <1>6 DEF DeliveryInv

\* A step that begins no attempt and unsettles no job keeps the turns.
LEMMA InTurnKept ==
    ASSUME InTurn,
           \A j \in Deliveries : sender'[j].attempt = sender[j].attempt,
           \A j \in Deliveries : Settled(j) => Settled(j)'
    PROVE  InTurn'
BY Places DEF InTurn

\* An attempt that arrives, in time or not, was accounted for.
LEMMA DeliveryInvArrive ==
    ASSUME DeliveryInv, NEW j \in Deliveries, Arrive(j)
    PROVE  /\ DeliveryInv'
           /\ arrivals[j] < Attempts
<1>1. /\ DeliveryTypeOK /\ Accounted(j) /\ Attempts \in Nat \ {0}
      /\ sender[j].attempt \in 0..Attempts
      /\ arrivals[j] \in Nat /\ late[j] \in Nat
    BY DeliveryAssumption DEF DeliveryInv, DeliveryTypeOK, DeliveryAssumption
<1>2. /\ sender[j].pc = "waiting"
      /\ arrivals' = [arrivals EXCEPT ![j] = arrivals[j] + 1]
      /\ running' = [running EXCEPT ![j] = j \in Workflows]
      /\ sender' = [sender EXCEPT ![j].arrived = TRUE]
      /\ late' = late
    BY DEF Arrive, Accept
<1>3. arrivals[j] + late[j] + 1 <= sender[j].attempt
    BY <1>1 DEF Arrive, Accounted, UnderWay
<1>4. arrivals[j] < Attempts /\ arrivals[j] + 1 \in 0..Attempts
    BY <1>1, <1>3
<1>5. DeliveryTypeOK'
    <2>1. running' \in [Deliveries -> BOOLEAN]
        BY <1>1, <1>2 DEF DeliveryTypeOK
    <2> QED
        BY <1>1, <1>2, <1>4, <2>1 DEF DeliveryTypeOK
<1>6. ASSUME NEW d \in Deliveries PROVE Accounted(d)'
    BY <1>1, <1>2, <1>3 DEF DeliveryInv, DeliveryTypeOK, Accounted, UnderWay
<1>7. InTurn'
    BY <1>1, <1>2, InTurnKept DEF DeliveryInv, DeliveryTypeOK, Settled
<1> QED
    BY <1>4, <1>5, <1>6, <1>7 DEF DeliveryInv

\* A copy whose client has given up on it is counted once more, and no more.
LEMMA DeliveryInvArriveLate ==
    ASSUME DeliveryInv, NEW j \in Deliveries, ArriveLate(j)
    PROVE  /\ DeliveryInv'
           /\ arrivals[j] < Attempts
<1>1. /\ DeliveryTypeOK /\ Accounted(j) /\ Attempts \in Nat \ {0}
      /\ sender[j].attempt \in 0..Attempts
      /\ arrivals[j] \in Nat /\ late[j] \in 0..Attempts
    BY DeliveryAssumption DEF DeliveryInv, DeliveryTypeOK, DeliveryAssumption
<1>2. /\ late[j] > 0
      /\ arrivals' = [arrivals EXCEPT ![j] = arrivals[j] + 1]
      /\ running' = [running EXCEPT ![j] = j \in Workflows]
      /\ late' = [late EXCEPT ![j] = late[j] - 1]
      /\ sender' = sender
    BY DEF ArriveLate, Accept
<1>3. /\ arrivals[j] + late[j] + UnderWay(j) <= sender[j].attempt
      /\ UnderWay(j) \in Nat
    BY <1>1 DEF Accounted, UnderWay
<1>4. /\ arrivals[j] < Attempts /\ arrivals[j] + 1 \in 0..Attempts
      /\ late[j] - 1 \in 0..Attempts
    BY <1>1, <1>2, <1>3
<1>5. DeliveryTypeOK'
    BY <1>1, <1>2, <1>4 DEF DeliveryTypeOK
<1>6. ASSUME NEW d \in Deliveries PROVE Accounted(d)'
    <2>1. CASE d = j
        BY <1>1, <1>2, <1>3, <2>1 DEF DeliveryTypeOK, Accounted, UnderWay
    <2>2. CASE d # j
        BY <1>1, <1>2, <2>2 DEF DeliveryInv, DeliveryTypeOK, Accounted, UnderWay
    <2> QED
        BY <2>1, <2>2
<1>7. InTurn'
    BY <1>1, <1>2, InTurnKept DEF DeliveryInv, Settled
<1> QED
    BY <1>4, <1>5, <1>6, <1>7 DEF DeliveryInv

\* A service that has done its work frees its turn.
LEMMA DeliveryInvComplete ==
    ASSUME DeliveryInv, NEW j \in Deliveries, Complete(j)
    PROVE  DeliveryInv'
BY DEF DeliveryInv, Complete, DeliveryTypeOK, Accounted, UnderWay, InTurn, Settled

\* An acknowledged job has arrived, and the next one's turn has come.
LEMMA DeliveryInvAcknowledge ==
    ASSUME DeliveryInv, NEW j \in Deliveries, Acknowledge(j)
    PROVE  DeliveryInv'
<1>1. DeliveryTypeOK'
    BY DEF DeliveryInv, Acknowledge, DeliveryTypeOK
<1>2. \A d \in Deliveries : Accounted(d)'
    BY DEF DeliveryInv, Acknowledge, DeliveryTypeOK, Accounted, UnderWay
<1>3. InTurn'
    BY InTurnKept DEF DeliveryInv, Acknowledge, DeliveryTypeOK, Settled
<1> QED
    BY <1>1, <1>2, <1>3 DEF DeliveryInv

\* An attempt that is given up may still be on its way: it is then late.
LEMMA OverdueAccounted ==
    ASSUME DeliveryInv, NEW j \in Deliveries, Overdue(j), sender[j].pc = "waiting"
    PROVE  /\ late' \in [Deliveries -> 0..Attempts]
           /\ \A d \in Deliveries \ {j} : late'[d] = late[d]
           /\ arrivals[j] + late'[j] <= sender[j].attempt
<1>1. /\ DeliveryTypeOK /\ Accounted(j) /\ Attempts \in Nat \ {0}
      /\ sender[j].attempt \in 0..Attempts
    BY DeliveryAssumption DEF DeliveryInv, DeliveryTypeOK, DeliveryAssumption
<1> QED
    BY <1>1 DEF Overdue, DeliveryTypeOK, Accounted, UnderWay

\* After an error the job is tried again or has failed; what is on its way may still arrive.
LEMMA DeliveryInvError ==
    ASSUME DeliveryInv, NEW j \in Deliveries, Error(j)
    PROVE  DeliveryInv'
<1>1. /\ DeliveryTypeOK /\ Accounted(j) /\ Attempts \in Nat \ {0}
      /\ sender[j].attempt \in 0..Attempts
    BY DeliveryAssumption DEF DeliveryInv, DeliveryTypeOK, DeliveryAssumption
<1>2. /\ sender[j].pc = "waiting"
      /\ sender' = [sender EXCEPT ![j].pc = AfterError(sender[j].attempt)]
      /\ UNCHANGED <<arrivals, running>>
      /\ AfterError(sender[j].attempt) \in {"failed", "backoff"}
      /\ AfterError(sender[j].attempt) = "backoff" => sender[j].attempt # Attempts
    BY DEF Error, AfterError
<1>3. /\ late' \in [Deliveries -> 0..Attempts]
      /\ \A d \in Deliveries \ {j} : late'[d] = late[d]
      /\ arrivals[j] + late'[j] <= sender[j].attempt
    BY OverdueAccounted DEF Error
<1>4. DeliveryTypeOK'
    BY <1>1, <1>2, <1>3 DEF DeliveryTypeOK
<1>5. ASSUME NEW d \in Deliveries PROVE Accounted(d)'
    <2>1. sender[j].attempt > 0
        BY <1>1, <1>2 DEF DeliveryTypeOK, Accounted, UnderWay
    <2>2. CASE d = j
        <3>1. /\ sender'[j].pc \in {"failed", "backoff"}
              /\ sender'[j].pc = "backoff" => sender[j].attempt # Attempts
              /\ sender'[j].attempt = sender[j].attempt
              /\ sender'[j].arrived = sender[j].arrived
              /\ arrivals' = arrivals
            BY <1>1, <1>2 DEF DeliveryTypeOK
        <3>2. UnderWay(j)' = 0 /\ late'[j] \in Nat /\ arrivals[j] \in Nat
            BY <1>1, <1>3, <3>1 DEF DeliveryTypeOK, UnderWay
        <3> QED
            BY <1>1, <1>3, <2>1, <2>2, <3>1, <3>2 DEF Accounted
    <2>3. CASE d # j
        BY <1>1, <1>2, <1>3, <2>3 DEF DeliveryInv, DeliveryTypeOK, Accounted, UnderWay
    <2> QED
        BY <2>2, <2>3
<1>6. InTurn'
    BY <1>1, <1>2, InTurnKept DEF DeliveryInv, DeliveryTypeOK, Settled
<1> QED
    BY <1>4, <1>5, <1>6 DEF DeliveryInv

\* A pod that dies leaves behind what is on its way.
LEMMA DeliveryInvPodDies ==
    ASSUME DeliveryInv, PodDies
    PROVE  DeliveryInv'
<1>1. DeliveryTypeOK /\ \A j \in Deliveries : Accounted(j)
    BY DEF DeliveryInv
<1>2. /\ sender' = [j \in Deliveries |->
              IF Settled(j) THEN sender[j] ELSE [sender[j] EXCEPT !.pc = "gone"]]
      /\ UNCHANGED <<arrivals, running>>
    BY DEF PodDies
<1>3. /\ late' \in [Deliveries -> 0..Attempts]
      /\ \A j \in Deliveries :
            \/ late'[j] = late[j]
            \/ sender[j].pc = "waiting" /\ arrivals[j] + late'[j] <= sender[j].attempt
    BY <1>1, OverdueAccounted DEF PodDies, DeliveryTypeOK
<1>4. DeliveryTypeOK'
    BY <1>1, <1>2, <1>3 DEF DeliveryTypeOK
<1>5. ASSUME NEW d \in Deliveries PROVE Accounted(d)'
    <2>1. CASE Settled(d)
        BY <1>1, <1>2, <1>3, <2>1 DEF DeliveryTypeOK, Accounted, UnderWay, Settled
    <2>2. CASE ~Settled(d)
        <3>1. /\ sender'[d].pc = "gone" /\ sender'[d].arrived = sender[d].arrived
              /\ sender'[d].attempt = sender[d].attempt /\ arrivals' = arrivals
              /\ sender[d].attempt \in Nat
            BY <1>1, <1>2, <2>2, DeliveryAssumption DEF DeliveryTypeOK, DeliveryAssumption
        <3>2. arrivals[d] + late'[d] <= sender[d].attempt
            BY <1>1, <1>3, <3>1 DEF DeliveryTypeOK, Accounted, UnderWay
        <3> QED
            BY <1>1, <1>3, <3>1, <3>2 DEF DeliveryTypeOK, Accounted, UnderWay
    <2> QED
        BY <2>1, <2>2
<1>6. InTurn'
    BY <1>1, <1>2, InTurnKept DEF DeliveryInv, DeliveryTypeOK, Settled
<1> QED
    BY <1>4, <1>5, <1>6 DEF DeliveryInv

\* The invariant of the deliveries, for any decision and any number of attempts.
THEOREM DeliveryInvariant == DeliverySpec => []DeliveryInv
<1>1. DeliveryInv /\ [DeliveryNext]_delivery => DeliveryInv'
    <2> SUFFICES ASSUME DeliveryInv, [DeliveryNext]_delivery PROVE DeliveryInv'
        OBVIOUS
    <2>1. CASE UNCHANGED delivery
        BY <2>1 DEF delivery, DeliveryInv, DeliveryTypeOK, Accounted, UnderWay, InTurn, Settled
    <2>2. CASE PodDies
        BY <2>2, DeliveryInvPodDies
    <2>3. ASSUME NEW j \in Deliveries,
                 Attempt(j) \/ Arrive(j) \/ ArriveLate(j)
                    \/ Complete(j) \/ Acknowledge(j) \/ Error(j)
          PROVE  DeliveryInv'
        BY <2>3, DeliveryInvAttempt, DeliveryInvArrive, DeliveryInvArriveLate,
           DeliveryInvComplete, DeliveryInvAcknowledge, DeliveryInvError
    <2> QED
        BY <2>1, <2>2, <2>3 DEF DeliveryNext
<1> QED
    BY DeliveryInvInit, <1>1, PTL DEF DeliverySpec

\* Consumers meet the events of a decision in the order of the code: a copy of
\* a later job has an attempt, and that came after the earlier jobs' end.
THEOREM ArrivalsOrdered == DeliverySpec => []ArrivalsInOrder
<1>1. DeliveryInv => ArrivalsInOrder
    <2> SUFFICES ASSUME DeliveryInv, NEW i \in DOMAIN Order, NEW k \in DOMAIN Order,
                        i < k, arrivals[Order[k]] > 0
                 PROVE  arrivals[Order[i]] > 0 \/ sender[Order[i]].pc = "failed"
        BY DEF ArrivalsInOrder
    <2>1. /\ Accounted(Order[i]) /\ Accounted(Order[k])
          /\ Order[k] \in Deliveries /\ DeliveryTypeOK
        BY Places DEF DeliveryInv
    <2>2. sender[Order[k]].attempt > 0
        BY <2>1, DeliveryAssumption
        DEF DeliveryTypeOK, Accounted, UnderWay, DeliveryAssumption
    <2> QED
        BY <2>1, <2>2 DEF DeliveryInv, InTurn, Settled, Accounted
<1> QED
    BY DeliveryInvariant, <1>1, PTL

-----------------------------------------------------------------------------
\* The retry loops map to the abstract sending: their first states ...
LEMMA SendingStarts == DeliveryInit => Promise!SendingInit
BY DEF DeliveryInit, Promise!SendingInit, Settled

\* ... an arrival to a copy that the promise allows ...
LEMMA ArrivalsReach ==
    ASSUME DeliveryInv, NEW j \in Deliveries, Arrive(j) \/ ArriveLate(j)
    PROVE  Promise!Reach(j)
<1>1. arrivals[j] < Attempts /\ DeliveryTypeOK
    BY DeliveryInvArrive, DeliveryInvArriveLate DEF DeliveryInv
<1>2. arrivals' = [arrivals EXCEPT ![j] = arrivals[j] + 1]
    BY DEF Arrive, ArriveLate, Accept
<1>3. \A d \in Deliveries : sender'[d].pc = sender[d].pc
    BY <1>1 DEF Arrive, ArriveLate, DeliveryTypeOK
<1> QED
    BY <1>1, <1>2, <1>3 DEF Promise!Reach, Settled

\* ... and the end of a retry loop to its answer.
LEMMA EndsAnswer ==
    ASSUME DeliveryInv, NEW j \in Deliveries, NEW said \in {"ok", "failed"},
           sender[j].pc = "waiting", said = "ok" => arrivals[j] > 0,
           sender' = [sender EXCEPT ![j].pc = said], arrivals' = arrivals
    PROVE  Promise!Answered(j, said)
<1>1. DeliveryTypeOK
    BY DEF DeliveryInv
<1>2. /\ sender'[j].pc = said
      /\ \A d \in Deliveries \ {j} : sender'[d].pc = sender[d].pc
    BY <1>1 DEF DeliveryTypeOK
<1> QED
    BY <1>1, <1>2 DEF Promise!Answered, Settled

\* Every step maps to a step or a stutter.
LEMMA StepsImplementSending ==
    DeliveryInv /\ [DeliveryNext]_delivery => [Promise!SendingNext]_(Promise!sending)
<1> SUFFICES ASSUME DeliveryInv, [DeliveryNext]_delivery
             PROVE  [Promise!SendingNext]_(Promise!sending)
    OBVIOUS
<1>0. DeliveryTypeOK
    BY DEF DeliveryInv
<1>1. CASE UNCHANGED delivery
    BY <1>1 DEF delivery, Promise!sending, Settled
<1>2. CASE PodDies
    <2>1. \A j \in Deliveries :
              sender'[j].pc = IF Settled(j) THEN sender[j].pc ELSE "gone"
        BY <1>0, <1>2 DEF PodDies, DeliveryTypeOK
    <2>2. \A j \in Deliveries : sender[j].pc # "gone"
        BY <1>2 DEF PodDies
    <2>3. Promise!AllFail
        BY <1>2, <2>1, <2>2 DEF Promise!AllFail, PodDies, Settled
    <2> QED
        BY <2>3 DEF Promise!SendingNext
<1>3. ASSUME NEW j \in Deliveries, Attempt(j)
      PROVE  UNCHANGED Promise!sending
    <2>1. /\ sender'[j].pc = "waiting" /\ sender[j].pc \in {"idle", "backoff"}
          /\ \A d \in Deliveries \ {j} : sender'[d].pc = sender[d].pc
        BY <1>0, <1>3 DEF Attempt, Turn, DeliveryTypeOK
    <2> QED
        BY <1>3, <2>1 DEF Promise!sending, Settled, Attempt
<1>4. ASSUME NEW j \in Deliveries, Arrive(j) \/ ArriveLate(j)
      PROVE  Promise!SendingNext
    BY <1>4, ArrivalsReach DEF Promise!SendingNext
<1>5. ASSUME NEW j \in Deliveries, Complete(j)
      PROVE  UNCHANGED Promise!sending
    BY <1>5 DEF Complete, Promise!sending, Settled
<1>6. ASSUME NEW j \in Deliveries, Acknowledge(j)
      PROVE  Promise!SendingNext
    <2>1. arrivals[j] > 0
        BY <1>6 DEF DeliveryInv, Accounted, Acknowledge
    <2>2. Promise!Answered(j, "ok")
        BY <1>6, <2>1, EndsAnswer DEF Acknowledge
    <2> QED
        BY <2>2 DEF Promise!SendingNext
<1>7. ASSUME NEW j \in Deliveries, Error(j)
      PROVE  [Promise!SendingNext]_(Promise!sending)
    <2>1. CASE sender[j].attempt = Attempts
        <3>1. Promise!Answered(j, "failed")
            BY <1>7, <2>1, EndsAnswer DEF Error, AfterError
        <3> QED
            BY <3>1 DEF Promise!SendingNext
    <2>2. CASE sender[j].attempt # Attempts
        <3>1. /\ sender'[j].pc = "backoff" /\ sender[j].pc = "waiting"
              /\ \A d \in Deliveries \ {j} : sender'[d].pc = sender[d].pc
            BY <1>0, <1>7, <2>2 DEF Error, AfterError, DeliveryTypeOK
        <3> QED
            BY <1>7, <3>1 DEF Promise!sending, Settled, Error
    <2> QED
        BY <2>1, <2>2
<1> QED
    BY <1>1, <1>2, <1>3, <1>4, <1>5, <1>6, <1>7 DEF DeliveryNext

\* RetryingEventBus and RetryingHandoffWorkflowEngine keep the promise of
\* Sending, for every number of jobs and attempts.
THEOREM DeliveryImplementsSending == DeliverySpec => SendingImplemented
BY SendingStarts, StepsImplementSending, DeliveryInvariant, PTL
DEF DeliverySpec, SendingImplemented, Promise!SendingSpec

-----------------------------------------------------------------------------
\* The tasks in one of the phases ph, where f says in which each is.
Those(f, ph) == {c \in Callers : f[c] \in ph}

Slots == {"granted", "revoked", "holding"}

\* The tasks that wait stand in a line, and nobody else does.
Line(before, f) ==
    /\ \A c \in Callers : before[c] \subseteq Those(f, InLine) \ {c}
    /\ \A c \in Callers : f[c] \notin InLine => before[c] = {}
    /\ \A c, d \in Those(f, InLine) : c # d => c \in before[d] \/ d \in before[c]
    /\ \A c, d \in Callers : c \in before[d] => before[c] \subseteq before[d]

\* The waiting gauge covers whoever is in line: it never goes below zero.
GaugeCovers == Cardinality(In(InLine)) <= waiting

LimiterInv == TypeOK /\ SlotsConserved /\ GaugeCovers /\ Line(ahead, phase)

\* Sets of tasks are finite, and can be counted.
LEMMA TasksCounted ==
    ASSUME NEW S \in SUBSET Callers
    PROVE  IsFiniteSet(S) /\ Cardinality(S) \in Nat
BY FS_Subset, FS_CardinalityType, LimiterAssumption DEF LimiterAssumption

\* Whoever stands behind a task that waits has more of them before itself.
LEMMA RankGrows ==
    ASSUME NEW before \in [Callers -> SUBSET Callers], NEW f \in [Callers -> Phases],
           Line(before, f), NEW c \in Callers, NEW d \in Callers,
           c \in before[d], f[c] = "pending"
    PROVE  /\ Pending(before[c], f) \in Nat /\ Pending(before[d], f) \in Nat
           /\ Pending(before[c], f) < Pending(before[d], f)
<1> DEFINE C == {e \in before[c] : f[e] = "pending"}
           D == {e \in before[d] : f[e] = "pending"}
<1>1. C \in SUBSET D /\ D \in SUBSET Callers /\ c \in D /\ c \notin C
    BY DEF Line
<1>2. /\ IsFiniteSet(D) /\ Cardinality(D) \in Nat /\ Cardinality(C) \in Nat
      /\ Cardinality(C) <= Cardinality(D)
      /\ Cardinality(C) = Cardinality(D) => C = D
    BY <1>1, TasksCounted, FS_Subset
<1>3. Cardinality(C) # Cardinality(D)
    BY <1>1, <1>2
<1> QED
    BY <1>2, <1>3 DEF Pending

\* As many are woken as there are slots, at most: the number of tasks that wait
\* before it tells each of the woken from the others.
LEMMA WokenBounded ==
    ASSUME NEW before \in [Callers -> SUBSET Callers], NEW f \in [Callers -> Phases],
           Line(before, f), NEW v \in Nat, NEW n \in Nat
    PROVE  /\ Woken(before, f, v, n) \in SUBSET Those(f, {"pending"})
           /\ IsFiniteSet(Woken(before, f, v, n))
           /\ Cardinality(Woken(before, f, v, n)) \in 0..v
<1> DEFINE W == Woken(before, f, v, n)
           rank == [c \in W |-> Pending(before[c], f)]
<1>1. W \in SUBSET Those(f, {"pending"})
    BY DEF Woken, Those
<1>2. \A c \in W : rank[c] \in Nat /\ rank[c] < v
    <2> SUFFICES ASSUME NEW c \in W PROVE Pending(before[c], f) \in Nat /\ Pending(before[c], f) < v
        OBVIOUS
    <2>1. {e \in before[c] : f[e] = "pending"} \in SUBSET Callers
        BY DEF Woken
    <2> QED
        BY <2>1, TasksCounted DEF Woken, Pending
<1>3. rank \in [W -> 0..v - 1]
    BY <1>2
<1>4. \A c, d \in W : rank[c] = rank[d] => c = d
    <2> SUFFICES ASSUME NEW c \in W, NEW d \in W, c # d PROVE rank[c] # rank[d]
        OBVIOUS
    <2>1. /\ c \in Callers /\ d \in Callers /\ f[c] = "pending" /\ f[d] = "pending"
          /\ c \in before[d] \/ d \in before[c]
        BY DEF Woken, Line, Those, InLine
    <2>2. \/ /\ rank[c] \in Nat /\ rank[d] \in Nat /\ rank[c] < rank[d]
          \/ /\ rank[c] \in Nat /\ rank[d] \in Nat /\ rank[d] < rank[c]
        BY <2>1, RankGrows
    <2> QED
        BY <2>2
<1>5. rank \in Injection(W, 0..v - 1)
    <2> HIDE DEF rank, W
    <2> QED
        BY <1>3, <1>4 DEF Injection, IsInjective
<1>6. IsFiniteSet(0..v - 1) /\ Cardinality(0..v - 1) = v
    BY FS_Interval
<1>7. IsFiniteSet(W) /\ Cardinality(W) <= v
    BY <1>5, <1>6, FS_Injection
<1> QED
    BY <1>1, <1>7, FS_CardinalityType

\* Granting moves slots to waiters: whatever is granted was free.
LEMMA GrantKeeps ==
    ASSUME NEW before \in [Callers -> SUBSET Callers], NEW f \in [Callers -> Phases],
           Line(before, f), NEW v \in Nat, NEW n \in Nat, Grant(before, f, v, n),
           v + Cardinality(Those(f, Slots)) = MaxConcurrent,
           inFlight' = Cardinality(Those(f, {"holding"})), waiting' \in Nat,
           Cardinality(Those(f, InLine)) <= waiting'
    PROVE  LimiterInv'
<1> DEFINE W == Woken(before, f, v, n)
<1>1. /\ W \in SUBSET Those(f, {"pending"}) /\ IsFiniteSet(W)
      /\ Cardinality(W) \in 0..v
    BY WokenBounded
<1>2. /\ phase' = [c \in Callers |-> IF c \in W THEN "granted" ELSE f[c]]
      /\ value' = v - Cardinality(W)
      /\ ahead' = before
    BY DEF Grant
<1> HIDE DEF W
<1>3. phase' \in [Callers -> Phases]
    BY <1>2 DEF Phases, InLine
<1>4. In(Slots)' = Those(f, Slots) \cup W /\ Those(f, Slots) \cap W = {}
    BY <1>1, <1>2 DEF In, Those, Slots
<1>5. Cardinality(In(Slots)') = Cardinality(Those(f, Slots)) + Cardinality(W)
    <2>1. Those(f, Slots) \in SUBSET Callers
        BY DEF Those
    <2>2. IsFiniteSet(Those(f, Slots)) /\ Cardinality(Those(f, Slots)) \in Nat
        BY <2>1, TasksCounted
    <2>3. Cardinality(Those(f, Slots) \cup W)
              = Cardinality(Those(f, Slots)) + Cardinality(W)
                - Cardinality(Those(f, Slots) \cap W)
        BY <1>1, <2>2, FS_Union
    <2>4. Cardinality(Those(f, Slots) \cap W) = 0
        BY <1>4, FS_EmptySet
    <2> HIDE DEF Slots
    <2> QED
        BY <1>1, <1>4, <2>2, <2>3, <2>4
<1>6. In({"holding"})' = Those(f, {"holding"})
    BY <1>1, <1>2 DEF In, Those
<1>7. Those(f, Slots) \in SUBSET Callers /\ Those(f, {"holding"}) \in SUBSET Callers
    BY DEF Those
<1>8. Cardinality(Those(f, Slots)) \in Nat /\ Cardinality(Those(f, {"holding"})) \in Nat
    BY <1>7, TasksCounted
<1>9. TypeOK'
    BY <1>1, <1>2, <1>3, <1>8, LimiterAssumption DEF TypeOK, LimiterAssumption
<1>10. SlotsConserved'
    BY <1>1, <1>2, <1>5, <1>6, <1>8 DEF SlotsConserved, Slots
<1>11. Line(ahead, phase)'
    <2>1. \A c \in Callers : phase'[c] \in InLine <=> f[c] \in InLine
        BY <1>1, <1>2 DEF Those, InLine
    <2> QED
        BY <1>2, <2>1 DEF Line, Those
<1>12. GaugeCovers'
    <2>1. In(InLine)' = Those(f, InLine)
        BY <1>1, <1>2 DEF In, Those, InLine
    <2> QED
        BY <2>1 DEF GaugeCovers
<1> QED
    BY <1>9, <1>10, <1>11, <1>12 DEF LimiterInv

\* Leaving the line keeps the order of the others.
LEMMA LineWithout ==
    ASSUME TypeOK, Line(ahead, phase), NEW c \in Callers, NEW ph \in Phases \ InLine
    PROVE  /\ Without(c) \in [Callers -> SUBSET Callers]
           /\ [phase EXCEPT ![c] = ph] \in [Callers -> Phases]
           /\ Line(Without(c), [phase EXCEPT ![c] = ph])
<1>1. Without(c) \in [Callers -> SUBSET Callers]
    BY DEF TypeOK, Without
<1>2. [phase EXCEPT ![c] = ph] \in [Callers -> Phases]
    BY DEF TypeOK
<1>3. Line(Without(c), [phase EXCEPT ![c] = ph])
    BY DEF TypeOK, Line, Those, Without
<1> QED
    BY <1>1, <1>2, <1>3

\* How the slots change hands when one task changes its phase.
LEMMA SlotsOfOne ==
    ASSUME TypeOK, NEW c \in Callers, NEW ph \in Phases, NEW S \in SUBSET Phases
    PROVE  /\ Cardinality(In(S)) \in Nat
           /\ Cardinality(Those([phase EXCEPT ![c] = ph], S)) =
                 Cardinality(In(S)) + (IF ph \in S THEN 1 ELSE 0)
                                    - (IF phase[c] \in S THEN 1 ELSE 0)
<1> DEFINE T == Those([phase EXCEPT ![c] = ph], S)
<1>1. In(S) \in SUBSET Callers /\ T \in SUBSET Callers
    BY DEF In, Those
<1>2. /\ IsFiniteSet(In(S)) /\ Cardinality(In(S)) \in Nat
      /\ IsFiniteSet(T) /\ Cardinality(T) \in Nat
    BY <1>1, TasksCounted
<1>3. T \ {c} = In(S) \ {c} /\ (c \in T <=> ph \in S) /\ (c \in In(S) <=> phase[c] \in S)
    BY DEF In, Those, TypeOK
<1>4. /\ Cardinality(T \ {c}) = IF c \in T THEN Cardinality(T) - 1 ELSE Cardinality(T)
      /\ Cardinality(In(S) \ {c}) =
            IF c \in In(S) THEN Cardinality(In(S)) - 1 ELSE Cardinality(In(S))
    BY <1>2, FS_RemoveElement
<1> HIDE DEF T
<1>5. Cardinality(T) = Cardinality(In(S)) + (IF ph \in S THEN 1 ELSE 0)
                                          - (IF phase[c] \in S THEN 1 ELSE 0)
    BY <1>2, <1>3, <1>4
<1> QED
    BY <1>2, <1>5 DEF T

\* A step that grants nothing keeps the invariant when the counts still add up.
LEMMA MoveKeeps ==
    ASSUME LimiterInv, NEW c \in Callers, NEW ph \in Phases,
           phase' = [phase EXCEPT ![c] = ph], ahead' \in [Callers -> SUBSET Callers],
           value' \in 0..MaxConcurrent, inFlight' \in Nat, waiting' \in Nat,
           value' + Cardinality(Those(phase', Slots)) = MaxConcurrent,
           inFlight' = Cardinality(Those(phase', {"holding"})),
           Cardinality(Those(phase', InLine)) <= waiting',
           Line(ahead', phase')
    PROVE  LimiterInv'
<1>1. phase' \in [Callers -> Phases]
    BY DEF LimiterInv, TypeOK
<1>2. TypeOK'
    BY <1>1 DEF TypeOK
<1>3. /\ In(Slots)' = Those(phase', Slots)
      /\ In({"holding"})' = Those(phase', {"holding"})
      /\ In(InLine)' = Those(phase', InLine)
    BY DEF In, Those
<1>4. SlotsConserved' /\ GaugeCovers'
    BY <1>3 DEF SlotsConserved, GaugeCovers, Slots
<1>5. Line(ahead, phase)'
    BY DEF Line, Those
<1> QED
    BY <1>2, <1>4, <1>5 DEF LimiterInv

\* What the counts are before any step.
LEMMA CountsNow ==
    ASSUME LimiterInv
    PROVE  /\ value + Cardinality(In(Slots)) = MaxConcurrent
           /\ inFlight = Cardinality(In({"holding"}))
           /\ Cardinality(In(InLine)) <= waiting
           /\ Slots \in SUBSET Phases /\ InLine \in SUBSET Phases
           /\ {"holding"} \in SUBSET Phases
           /\ Cardinality(In(Slots)) \in Nat /\ Cardinality(In(InLine)) \in Nat
           /\ Cardinality(In({"holding"})) \in Nat
           /\ value \in Nat /\ MaxConcurrent \in Nat
<1>1. In(Slots) \in SUBSET Callers /\ In(InLine) \in SUBSET Callers
      /\ In({"holding"}) \in SUBSET Callers
    BY DEF In
<1> QED
    BY <1>1, TasksCounted, LimiterAssumption
    DEF LimiterInv, SlotsConserved, GaugeCovers, TypeOK, Slots, InLine, Phases,
        LimiterAssumption

\* What they become when one task changes its phase.
LEMMA CountsAfter ==
    ASSUME LimiterInv, NEW c \in Callers, NEW ph \in Phases
    PROVE  LET f == [phase EXCEPT ![c] = ph]
               Change(S) == (IF ph \in S THEN 1 ELSE 0) - (IF phase[c] \in S THEN 1 ELSE 0)
           IN  /\ Cardinality(Those(f, Slots)) = Cardinality(In(Slots)) + Change(Slots)
               /\ Cardinality(Those(f, {"holding"})) =
                     Cardinality(In({"holding"})) + Change({"holding"})
               /\ Cardinality(Those(f, InLine)) = Cardinality(In(InLine)) + Change(InLine)
<1> DEFINE f == [phase EXCEPT ![c] = ph]
           Change(S) == (IF ph \in S THEN 1 ELSE 0) - (IF phase[c] \in S THEN 1 ELSE 0)
<1>1. TypeOK
    BY DEF LimiterInv
<1>2. ASSUME NEW S \in SUBSET Phases
      PROVE  Cardinality(Those(f, S)) = Cardinality(In(S)) + Change(S)
    <2>1. /\ Cardinality(In(S)) \in Nat
          /\ Cardinality(Those(f, S)) = Cardinality(In(S))
                + (IF ph \in S THEN 1 ELSE 0) - (IF phase[c] \in S THEN 1 ELSE 0)
        BY <1>1, SlotsOfOne
    <2> HIDE DEF f
    <2> QED
        BY <2>1
<1> HIDE DEF f, Change
<1>3. /\ Cardinality(Those(f, Slots)) = Cardinality(In(Slots)) + Change(Slots)
      /\ Cardinality(Those(f, {"holding"})) =
            Cardinality(In({"holding"})) + Change({"holding"})
      /\ Cardinality(Those(f, InLine)) = Cardinality(In(InLine)) + Change(InLine)
    BY <1>2, CountsNow
<1> QED
    BY <1>3 DEF f, Change

\* Which phases hold a slot, and which are in line.
LEMMA PhaseSets ==
    /\ \A ph \in {"idle", "pending", "cancelled"} : ph \notin Slots /\ ph \in Phases
    /\ \A ph \in {"granted", "revoked", "holding"} : ph \in Slots /\ ph \in Phases
    /\ \A ph \in {"pending", "granted", "cancelled", "revoked"} : ph \in InLine
    /\ "idle" \notin InLine /\ "holding" \notin InLine
    /\ \A ph \in Phases : ph \in {"holding"} <=> ph = "holding"
BY DEF Slots, InLine, Phases

\* A task in line is counted there.
LEMMA InLineCounted ==
    ASSUME LimiterInv, NEW c \in Callers, phase[c] \in InLine
    PROVE  Cardinality(In(InLine)) >= 1 /\ waiting >= 1
<1>1. In(InLine) \in SUBSET Callers /\ c \in In(InLine)
    BY DEF In
<1>2. Cardinality(In(InLine)) # 0 /\ Cardinality(In(InLine)) \in Nat
    BY <1>1, TasksCounted, FS_EmptySet
<1> QED
    BY <1>2 DEF LimiterInv, GaugeCovers, TypeOK

\* acquire with a free slot.
LEMMA AcquireFreeKeeps ==
    ASSUME LimiterInv, NEW c \in Callers, AcquireFree(c)
    PROVE  LimiterInv'
<1> DEFINE f == [phase EXCEPT ![c] = "holding"]
<1>0. phase[c] = "idle"
    BY DEF AcquireFree
<1>1. /\ phase[c] = "idle" /\ value # 0
      /\ phase' = [phase EXCEPT ![c] = "holding"] /\ value' = value - 1
      /\ inFlight' = inFlight + 1 /\ ahead' = ahead /\ waiting' = waiting
    BY DEF AcquireFree, Locked
<1>2. TypeOK /\ Line(ahead, phase)
    BY DEF LimiterInv
<1>3. /\ Cardinality(Those(f, Slots)) = Cardinality(In(Slots)) + 1
      /\ Cardinality(Those(f, {"holding"})) = Cardinality(In({"holding"})) + 1
      /\ Cardinality(Those(f, InLine)) = Cardinality(In(InLine))
    BY <1>0, CountsNow, CountsAfter, PhaseSets
<1>4. Line(ahead', phase')
    BY <1>1, <1>2 DEF TypeOK, Line, Those, InLine
<1>5. value' \in 0..MaxConcurrent /\ inFlight' \in Nat /\ waiting' \in Nat
    BY <1>1, <1>2, CountsNow DEF TypeOK
<1>6. ahead' \in [Callers -> SUBSET Callers] /\ "holding" \in Phases
    BY <1>1, <1>2 DEF TypeOK, Phases
<1>7. /\ value' + Cardinality(Those(phase', Slots)) = MaxConcurrent
      /\ inFlight' = Cardinality(Those(phase', {"holding"}))
      /\ Cardinality(Those(phase', InLine)) <= waiting'
    BY <1>1, <1>3, CountsNow
<1> QED
    BY <1>1, <1>4, <1>5, <1>6, <1>7, MoveKeeps

\* acquire without one: the task stands behind everybody in line.
LEMMA AcquireWaitKeeps ==
    ASSUME LimiterInv, NEW c \in Callers, AcquireWait(c)
    PROVE  LimiterInv'
<1> DEFINE f == [phase EXCEPT ![c] = "pending"]
<1>0. phase[c] = "idle"
    BY DEF AcquireWait
<1>1. /\ phase[c] = "idle" /\ phase' = [phase EXCEPT ![c] = "pending"]
      /\ ahead' = [ahead EXCEPT ![c] = In(InLine)]
      /\ waiting' = waiting + 1 /\ value' = value /\ inFlight' = inFlight
    BY DEF AcquireWait
<1>2. TypeOK /\ Line(ahead, phase)
    BY DEF LimiterInv
<1>3. /\ Cardinality(Those(f, Slots)) = Cardinality(In(Slots))
      /\ Cardinality(Those(f, {"holding"})) = Cardinality(In({"holding"}))
      /\ Cardinality(Those(f, InLine)) = Cardinality(In(InLine)) + 1
    BY <1>0, CountsNow, CountsAfter, PhaseSets
<1>4. Line(ahead', phase')
    <2>1. c \notin In(InLine) /\ \A d \in Callers : c \notin ahead[d]
        BY <1>1, <1>2 DEF Line, Those, InLine, In
    <2>2. Those(phase', InLine) = In(InLine) \cup {c} /\ In(InLine) = Those(phase, InLine)
        BY <1>1, <1>2 DEF TypeOK, Those, In, InLine
    <2>3. /\ ahead'[c] = In(InLine)
          /\ \A d \in Callers \ {c} : ahead'[d] = ahead[d] /\ phase'[d] = phase[d]
          /\ phase'[c] \in InLine
        BY <1>1, <1>2 DEF TypeOK, InLine
    <2>4. Those(phase', InLine) = Those(phase, InLine) \cup {c}
        BY <2>2
    <2>5. \A d \in Callers : ahead'[d] \subseteq Those(phase', InLine) \ {d}
        BY <1>2, <2>1, <2>2, <2>3, <2>4 DEF Line
    <2>6. \A d \in Callers : phase'[d] \notin InLine => ahead'[d] = {}
        BY <1>2, <2>3 DEF Line
    <2>7. \A d, e \in Those(phase', InLine) :
              d # e => d \in ahead'[e] \/ e \in ahead'[d]
        BY <1>2, <2>2, <2>3, <2>4 DEF Line, Those
    <2>8. \A d, e \in Callers : d \in ahead'[e] => ahead'[d] \subseteq ahead'[e]
        BY <1>2, <2>1, <2>2, <2>3 DEF Line
    <2> QED
        BY <2>5, <2>6, <2>7, <2>8 DEF Line
<1>5. value' \in 0..MaxConcurrent /\ inFlight' \in Nat /\ waiting' \in Nat
    BY <1>1, <1>2 DEF TypeOK
<1>6. ahead' \in [Callers -> SUBSET Callers] /\ "pending" \in Phases
    BY <1>1, <1>2 DEF TypeOK, Phases, InLine, In
<1>7. /\ value' + Cardinality(Those(phase', Slots)) = MaxConcurrent
      /\ inFlight' = Cardinality(Those(phase', {"holding"}))
      /\ Cardinality(Those(phase', InLine)) <= waiting'
    BY <1>1, <1>2, <1>3, CountsNow DEF TypeOK
<1> QED
    BY <1>1, <1>4, <1>5, <1>6, <1>7, MoveKeeps

\* A granted waiter resumes.
LEMMA ResumeKeeps ==
    ASSUME LimiterInv, NEW c \in Callers, Resume(c)
    PROVE  LimiterInv'
<1> DEFINE f == [phase EXCEPT ![c] = "holding"]
<1>1. /\ phase[c] = "granted" /\ Grant(Without(c), f, value, value)
      /\ waiting' = waiting - 1 /\ inFlight' = inFlight + 1
    BY DEF Resume
<1>2. TypeOK /\ Line(ahead, phase)
    BY DEF LimiterInv
<1>3. /\ Cardinality(Those(f, Slots)) = Cardinality(In(Slots))
      /\ Cardinality(Those(f, {"holding"})) = Cardinality(In({"holding"})) + 1
      /\ Cardinality(Those(f, InLine)) = Cardinality(In(InLine)) - 1
    BY <1>1, <1>2, CountsNow, CountsAfter, PhaseSets
<1>4. waiting >= 1 /\ waiting \in Nat
    BY <1>1, <1>2, InLineCounted DEF InLine, TypeOK
<1>5. /\ Without(c) \in [Callers -> SUBSET Callers] /\ f \in [Callers -> Phases]
      /\ Line(Without(c), f)
    BY <1>2, LineWithout DEF Phases, InLine
<1> HIDE DEF f
<1>6. /\ value + Cardinality(Those(f, Slots)) = MaxConcurrent /\ value \in Nat
      /\ inFlight' = Cardinality(Those(f, {"holding"})) /\ waiting' \in Nat
      /\ Cardinality(Those(f, InLine)) <= waiting'
    BY <1>1, <1>3, <1>4, CountsNow
<1> QED
    BY <1>1, <1>5, <1>6, GrantKeeps

\* A timeout, or a cancellation, reaches a waiter.
LEMMA ExpireKeeps ==
    ASSUME LimiterInv, NEW c \in Callers, Expire(c)
    PROVE  LimiterInv'
<1> DEFINE ph == IF phase[c] = "pending" THEN "cancelled" ELSE "revoked"
           f == [phase EXCEPT ![c] = ph]
<1>0. phase[c] \in {"pending", "granted"}
    BY DEF Expire
<1>1. /\ phase[c] \in {"pending", "granted"} /\ phase' = [phase EXCEPT ![c] = ph]
      /\ UNCHANGED <<ahead, value, inFlight, waiting>>
    BY DEF Expire
<1>2. TypeOK /\ Line(ahead, phase) /\ ph \in Phases
    BY DEF LimiterInv, Phases, InLine
<1>3. /\ Cardinality(Those(f, Slots)) = Cardinality(In(Slots))
      /\ Cardinality(Those(f, {"holding"})) = Cardinality(In({"holding"}))
      /\ Cardinality(Those(f, InLine)) = Cardinality(In(InLine))
    BY <1>0, CountsNow, CountsAfter, PhaseSets
<1>4. Line(ahead', phase')
    BY <1>1, <1>2 DEF TypeOK, Line, Those, InLine
<1> HIDE DEF ph
<1>5. /\ value' \in 0..MaxConcurrent /\ inFlight' \in Nat /\ waiting' \in Nat
      /\ ahead' \in [Callers -> SUBSET Callers]
    BY <1>1, <1>2 DEF TypeOK
<1>6. /\ value' + Cardinality(Those(phase', Slots)) = MaxConcurrent
      /\ inFlight' = Cardinality(Those(phase', {"holding"}))
      /\ Cardinality(Those(phase', InLine)) <= waiting'
    BY <1>1, <1>3, CountsNow
<1> QED
    BY <1>1, <1>2, <1>4, <1>5, <1>6, MoveKeeps

\* A waiter leaves without holding: it gives back what it was granted.
LEMMA LeaveLineKeeps ==
    ASSUME LimiterInv, NEW c \in Callers, LeaveLine(c),
           waiting' = waiting \/ waiting' = waiting - 1
    PROVE  LimiterInv'
<1> DEFINE f == [phase EXCEPT ![c] = "idle"]
           v == SlotsAfter(c)
<1>1. /\ phase[c] \in {"cancelled", "revoked"} /\ Grant(Without(c), f, v, v)
      /\ inFlight' = inFlight
    BY DEF LeaveLine
<1>2. TypeOK /\ Line(ahead, phase)
    BY DEF LimiterInv
<1>3. /\ Cardinality(Those(f, Slots)) =
             Cardinality(In(Slots)) - (IF phase[c] = "revoked" THEN 1 ELSE 0)
      /\ Cardinality(Those(f, {"holding"})) = Cardinality(In({"holding"}))
      /\ Cardinality(Those(f, InLine)) = Cardinality(In(InLine)) - 1
    BY <1>1, <1>2, CountsNow, CountsAfter, PhaseSets
<1>4. waiting >= 1 /\ waiting \in Nat
    BY <1>1, <1>2, InLineCounted DEF InLine, TypeOK
<1>5. /\ Without(c) \in [Callers -> SUBSET Callers] /\ f \in [Callers -> Phases]
      /\ Line(Without(c), f)
    BY <1>2, LineWithout DEF Phases, InLine
<1> HIDE DEF f
<1>6. /\ v + Cardinality(Those(f, Slots)) = MaxConcurrent /\ v \in Nat
      /\ inFlight' = Cardinality(Those(f, {"holding"})) /\ waiting' \in Nat
      /\ Cardinality(Those(f, InLine)) <= waiting'
    BY <1>1, <1>3, <1>4, CountsNow DEF SlotsAfter
<1> HIDE DEF v
<1> QED
    BY <1>1, <1>5, <1>6, GrantKeeps

\* A holder releases its slot.
LEMMA ReleaseKeeps ==
    ASSUME LimiterInv, NEW c \in Callers, Release(c)
    PROVE  LimiterInv'
<1> DEFINE f == [phase EXCEPT ![c] = "idle"]
<1>1. /\ phase[c] = "holding" /\ Grant(ahead, f, value + 1, WakesOnRelease)
      /\ inFlight' = InFlightAfter /\ waiting' = waiting
    BY DEF Release
<1>2. TypeOK /\ Line(ahead, phase)
    BY DEF LimiterInv
<1>3. /\ Cardinality(Those(f, Slots)) = Cardinality(In(Slots)) - 1
      /\ Cardinality(Those(f, {"holding"})) = Cardinality(In({"holding"})) - 1
      /\ Cardinality(Those(f, InLine)) = Cardinality(In(InLine))
    BY <1>1, <1>2, CountsNow, CountsAfter, PhaseSets
<1>4. Cardinality(Those(f, {"holding"})) \in Nat
    <2>1. Those(f, {"holding"}) \in SUBSET Callers
        BY DEF Those
    <2> QED
        BY <2>1, TasksCounted
<1>5. /\ ahead \in [Callers -> SUBSET Callers] /\ f \in [Callers -> Phases]
      /\ Line(ahead, f)
    BY <1>1, <1>2 DEF TypeOK, Line, Those, InLine, Phases
<1> HIDE DEF f
<1>6. /\ value + 1 + Cardinality(Those(f, Slots)) = MaxConcurrent
      /\ value + 1 \in Nat /\ WakesOnRelease \in Nat
      /\ inFlight' = Cardinality(Those(f, {"holding"})) /\ waiting' \in Nat
      /\ Cardinality(Those(f, InLine)) <= waiting'
    BY <1>1, <1>2, <1>3, <1>4, CountsNow DEF InFlightAfter, WakesOnRelease, TypeOK
<1> QED
    BY <1>1, <1>5, <1>6, GrantKeeps

\* Every step keeps the invariant.
LEMMA LimiterInvStep == LimiterInv /\ [Next]_vars => LimiterInv'
<1> SUFFICES ASSUME LimiterInv, [Next]_vars
             PROVE  LimiterInv'
    OBVIOUS
<1>1. CASE UNCHANGED vars
    BY <1>1 DEF vars, LimiterInv, TypeOK, SlotsConserved, GaugeCovers, Line, Those, In
<1>2. ASSUME NEW c \in Callers, AcquireFree(c)
      PROVE  LimiterInv'
    BY <1>2, AcquireFreeKeeps
<1>3. ASSUME NEW c \in Callers, AcquireWait(c)
      PROVE  LimiterInv'
    BY <1>3, AcquireWaitKeeps
<1>4. ASSUME NEW c \in Callers, Resume(c)
      PROVE  LimiterInv'
    BY <1>4, ResumeKeeps
<1>5. ASSUME NEW c \in Callers, Expire(c)
      PROVE  LimiterInv'
    BY <1>5, ExpireKeeps
<1>6. ASSUME NEW c \in Callers, TimedOut(c) \/ Cancelled(c)
      PROVE  LimiterInv'
    BY <1>6, LeaveLineKeeps DEF TimedOut, Cancelled
<1>7. ASSUME NEW c \in Callers, Release(c)
      PROVE  LimiterInv'
    BY <1>7, ReleaseKeeps
<1> QED
    BY <1>1, <1>2, <1>3, <1>4, <1>5, <1>6, <1>7 DEF Next

\* Nobody is in line when the limiter is made, and every slot is free.
LEMMA LimiterInvInit == Init => LimiterInv
<1> SUFFICES ASSUME Init PROVE LimiterInv
    OBVIOUS
<1>1. In(Slots) = {} /\ In({"holding"}) = {} /\ In(InLine) = {}
    BY DEF Init, In, Slots, InLine
<1>2. TypeOK
    BY LimiterAssumption DEF Init, TypeOK, LimiterAssumption, Phases
<1>3. SlotsConserved /\ GaugeCovers
    BY <1>1, FS_EmptySet, LimiterAssumption
    DEF Init, SlotsConserved, GaugeCovers, Slots, LimiterAssumption
<1>4. Line(ahead, phase)
    BY DEF Init, Line, Those, InLine
<1> QED
    BY <1>2, <1>3, <1>4 DEF LimiterInv

\* The invariant of BackpressureLimiter: the slots add up, and the waiters stand
\* in one line.
THEOREM LimiterInvariant == Spec => []LimiterInv
BY LimiterInvInit, LimiterInvStep, PTL DEF Spec

\* No slot is lost or made up by a timeout that races a grant, by a cancellation
\* or by a release, for every number of tasks and of slots.
THEOREM SlotsAreConserved == Spec => []SlotsConserved
<1>1. LimiterInv => SlotsConserved
    BY DEF LimiterInv
<1> QED
    BY <1>1, LimiterInvariant, PTL

\* Granting passes nobody: with a waiter, everybody before it is granted a slot.
LEMMA GrantInOrder ==
    ASSUME NEW before \in [Callers -> SUBSET Callers], NEW f \in [Callers -> Phases],
           Line(before, f), NEW v \in Nat, NEW n \in Nat, Grant(before, f, v, n),
           NEW c \in Callers, NEW d \in Callers, d \in before[c],
           f[c] = "pending", phase'[c] = "granted"
    PROVE  phase'[d] # "pending"
<1> SUFFICES ASSUME phase'[d] = "pending" PROVE FALSE
    OBVIOUS
<1>1. /\ c \in Woken(before, f, v, n)
      /\ d \notin Woken(before, f, v, n) /\ f[d] = "pending"
    BY DEF Grant
<1>2. /\ Pending(before[d], f) \in Nat /\ Pending(before[c], f) \in Nat
      /\ Pending(before[d], f) < Pending(before[c], f)
    BY <1>1, RankGrows
<1>3. Pending(before[c], f) < v /\ Pending(before[c], f) < n
    BY <1>1 DEF Woken
<1>4. d \in Woken(before, f, v, n)
    BY <1>1, <1>2, <1>3 DEF Woken
<1> QED
    BY <1>1, <1>4

\* The waiters that one task's step lets in are let in first come, first served.
LEMMA LeaverLetsInInOrder ==
    ASSUME LimiterInv, NEW x \in Callers, NEW ph \in Phases \ InLine,
           NEW before, before = Without(x) \/ (before = ahead /\ phase[x] \notin InLine),
           NEW v \in Nat, NEW n \in Nat,
           Grant(before, [phase EXCEPT ![x] = ph], v, n),
           phase[x] # "pending", NEW c \in Callers, NEW d \in Callers,
           phase[c] = "pending", phase'[c] = "granted", d \in ahead[c]
    PROVE  phase'[d] # "pending"
<1> DEFINE f == [phase EXCEPT ![x] = ph]
<1>1. TypeOK /\ Line(ahead, phase) /\ ph \in Phases /\ ph \notin InLine
    BY DEF LimiterInv
<1>2. /\ before \in [Callers -> SUBSET Callers] /\ f \in [Callers -> Phases]
      /\ Line(before, f)
    <2>1. CASE before = ahead /\ phase[x] \notin InLine
        BY <1>1, <2>1 DEF TypeOK, Line, Those
    <2>2. CASE before = Without(x)
        BY <1>1, <2>2, LineWithout
    <2> QED
        BY <2>1, <2>2
<1>3. c # x /\ f[c] = "pending" /\ f[x] # "pending"
    BY <1>1 DEF TypeOK, InLine
<1>4. CASE d = x
    <2>1. x \notin Woken(before, f, v, n)
        BY <1>3 DEF Woken
    <2> QED
        BY <1>3, <1>4, <2>1 DEF Grant
<1>5. CASE d # x
    <2>1. d \in before[c]
        BY <1>3, <1>5 DEF Without
    <2> HIDE DEF f
    <2> QED
        BY <1>2, <1>3, <2>1, GrantInOrder DEF f
<1> QED
    BY <1>4, <1>5

\* Nobody is passed in any step.
LEMMA FifoStep ==
    LimiterInv /\ [Next]_vars =>
        [\A c, d \in Callers :
            (\/ phase[c] = "pending" /\ phase'[c] = "granted" /\ d \in ahead[c]
             \/ phase[c] = "idle" /\ phase'[c] = "holding")
            => phase'[d] # "pending"]_vars
<1> SUFFICES ASSUME LimiterInv, Next, NEW c \in Callers, NEW d \in Callers,
                    \/ phase[c] = "pending" /\ phase'[c] = "granted" /\ d \in ahead[c]
                    \/ phase[c] = "idle" /\ phase'[c] = "holding"
             PROVE  phase'[d] # "pending"
    OBVIOUS
<1>0. TypeOK
    BY DEF LimiterInv
<1>1. ASSUME NEW x \in Callers, AcquireFree(x)
      PROVE  phase'[d] # "pending"
    BY <1>0, <1>1 DEF AcquireFree, Locked, In, TypeOK
<1>2. ASSUME NEW x \in Callers, AcquireWait(x) \/ Expire(x)
      PROVE  phase'[d] # "pending"
    BY <1>0, <1>2 DEF AcquireWait, Expire, TypeOK
<1>3. ASSUME NEW x \in Callers, Resume(x)
      PROVE  phase'[d] # "pending"
    <2>1. phase[c] = "pending" /\ phase'[c] = "granted" /\ d \in ahead[c]
        BY <1>0, <1>3 DEF Resume, Grant, TypeOK
    <2> QED
        BY <1>0, <1>3, <2>1, CountsNow, LeaverLetsInInOrder
        DEF Resume, Phases, InLine
<1>4. ASSUME NEW x \in Callers, LeaveLine(x)
      PROVE  phase'[d] # "pending"
    <2>1. phase[c] = "pending" /\ phase'[c] = "granted" /\ d \in ahead[c]
        BY <1>0, <1>4 DEF LeaveLine, Grant, TypeOK
    <2>2. SlotsAfter(x) \in Nat
        BY CountsNow DEF SlotsAfter
    <2> QED
        BY <1>0, <1>4, <2>1, <2>2, LeaverLetsInInOrder
        DEF LeaveLine, Phases, InLine
<1>5. ASSUME NEW x \in Callers, Release(x)
      PROVE  phase'[d] # "pending"
    <2>1. phase[c] = "pending" /\ phase'[c] = "granted" /\ d \in ahead[c]
        BY <1>0, <1>5 DEF Release, Grant, TypeOK
    <2>2. value + 1 \in Nat /\ WakesOnRelease \in Nat
        BY CountsNow DEF WakesOnRelease
    <2> QED
        BY <1>0, <1>5, <2>1, <2>2, LeaverLetsInInOrder
        DEF Release, Phases, InLine
<1> QED
    BY <1>1, <1>2, <1>3, <1>4, <1>5 DEF Next, TimedOut, Cancelled

\* First come, first served, whatever times out, is cancelled or released.
THEOREM FirstComeFirstServed == Spec => Fifo
BY LimiterInvariant, FifoStep, PTL DEF Spec, Fifo

=============================================================================
