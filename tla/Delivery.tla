------------------------------ MODULE Delivery -------------------------------
(***************************************************************************)
(* How a decision that hands off reaches the services around it            *)
(* (integrations/workflow.py, integrations/event_bus.py): it starts the    *)
(* workflow, then publishes its events, each in turn and each retried. An  *)
(* attempt may be lost, arrive without an acknowledgement, or arrive after *)
(* the client gave it up; the pod may die in between.                      *)
(***************************************************************************)
EXTENDS Naturals, Sequences, Functions

CONSTANTS
    Order,          \* the jobs of one decision, in the order they are done
    Workflows,      \* those that start a workflow; the others publish an event
    Attempts        \* max(1, retry_attempts)

Deliveries == Range(Order)

ASSUME DeliveryAssumption ==
    /\ Order \in Seq(Deliveries)
    /\ \A i, k \in DOMAIN Order : Order[i] = Order[k] => i = k
    /\ Workflows \subseteq Deliveries
    /\ Attempts \in Nat \ {0}

VARIABLES
    sender,     \* per job: where its retry loop is and the attempt it makes
    late,       \* per job: attempts given up that may still arrive
    arrivals,   \* per job: copies published, or executions started
    running     \* per job: an execution of its workflow is open

delivery == <<sender, late, arrivals, running>>

DeliveryInit ==
    /\ sender = [j \in Deliveries |-> [pc |-> "idle", attempt |-> 0, arrived |-> FALSE]]
    /\ late = [j \in Deliveries |-> 0]
    /\ arrivals = [j \in Deliveries |-> 0]
    /\ running = [j \in Deliveries |-> FALSE]

Settled(j) == sender[j].pc \in {"ok", "failed"}

\* Mutants: the jobs are not awaited one after the other; an exception of one
\* is not caught.
Turn_AtOnce(j) == sender[j].pc = "idle"
Turn_Uncaught(j) ==
    /\ sender[j].pc = "idle"
    /\ \E i \in DOMAIN Order :
          /\ Order[i] = j
          /\ \A k \in 1..i - 1 : sender[Order[k]].pc = "ok"

\* start_handoff before the answer, then the events of _publish_events; an
\* exception is logged and the next job has its turn.
Turn(j) ==
    /\ sender[j].pc = "idle"
    /\ \E i \in DOMAIN Order :
          /\ Order[i] = j
          /\ \A k \in 1..i - 1 : Settled(Order[k])

\* The next attempt: the first one, or the one after the backoff.
Attempt(j) ==
    /\ Turn(j) \/ sender[j].pc = "backoff"
    /\ sender' = [sender EXCEPT ![j] =
          [pc |-> "waiting", attempt |-> @.attempt + 1, arrived |-> FALSE]]
    /\ UNCHANGED <<late, arrivals, running>>

\* What the service makes of an attempt. The workflow's id is the handoff's:
\* a second start is refused while an execution is open, but not after it.
Accept(j) ==
    /\ ~running[j]
    /\ arrivals' = [arrivals EXCEPT ![j] = @ + 1]
    /\ running' = [running EXCEPT ![j] = j \in Workflows]

Arrive(j) ==
    /\ sender[j].pc = "waiting" /\ ~sender[j].arrived
    /\ Accept(j)
    /\ sender' = [sender EXCEPT ![j].arrived = TRUE]
    /\ UNCHANGED late

ArriveLate(j) ==
    /\ late[j] > 0
    /\ Accept(j)
    /\ late' = [late EXCEPT ![j] = @ - 1]
    /\ UNCHANGED sender

\* The workflow ends.
Complete(j) ==
    /\ running[j]
    /\ running' = [running EXCEPT ![j] = FALSE]
    /\ UNCHANGED <<sender, late, arrivals>>

\* The acknowledgement: publish returns, start_handoff answers the id.
Acknowledge(j) ==
    /\ sender[j].pc = "waiting" /\ sender[j].arrived
    /\ sender' = [sender EXCEPT ![j].pc = "ok"]
    /\ UNCHANGED <<late, arrivals, running>>

\* Mutant: the last error is not raised.
AfterError_Swallowed(attempt) == IF attempt = Attempts THEN "ok" ELSE "backoff"

AfterError(attempt) == IF attempt = Attempts THEN "failed" ELSE "backoff"

\* An attempt that is on its way when the client stops waiting is lost, or not.
Overdue(j) ==
    \/ UNCHANGED late
    \/ ~sender[j].arrived /\ late' = [late EXCEPT ![j] = @ + 1]

\* An error or a timeout; also a start that is refused, and one that was
\* accepted but not acknowledged.
Error(j) ==
    /\ sender[j].pc = "waiting"
    /\ sender' = [sender EXCEPT ![j].pc = AfterError(sender[j].attempt)]
    /\ Overdue(j)
    /\ UNCHANGED <<arrivals, running>>

\* The pod dies; nobody makes the attempts that are left.
PodDies ==
    /\ \E j \in Deliveries : ~Settled(j)
    /\ \A j \in Deliveries : sender[j].pc # "gone"
    /\ sender' = [j \in Deliveries |->
          IF Settled(j) THEN sender[j] ELSE [sender[j] EXCEPT !.pc = "gone"]]
    /\ \/ UNCHANGED late
       \/ \E j \in Deliveries : sender[j].pc = "waiting" /\ Overdue(j)
    /\ UNCHANGED <<arrivals, running>>

DeliveryNext ==
    \/ \E j \in Deliveries :
          \/ Attempt(j) \/ Arrive(j) \/ ArriveLate(j)
          \/ Complete(j) \/ Acknowledge(j) \/ Error(j)
    \/ PodDies

DeliverySpec == DeliveryInit /\ [][DeliveryNext]_delivery

-----------------------------------------------------------------------------
\* Every variable of the delivery holds values of its type.
DeliveryTypeOK ==
    /\ sender \in [Deliveries -> [pc : {"idle", "waiting", "backoff", "ok", "failed", "gone"},
                                 attempt : 0..Attempts, arrived : BOOLEAN]]
    /\ late \in [Deliveries -> 0..Attempts]
    /\ arrivals \in [Deliveries -> 0..Attempts]
    /\ running \in [Deliveries -> BOOLEAN]

\* The senders of the decision path keep the promise of Sending: what the dead
\* pod did not finish counts as failed.
Promise == INSTANCE Sending WITH
    Jobs <- Deliveries, AtMost <- Attempts, copies <- arrivals,
    verdict <- [j \in Deliveries |->
                  IF sender[j].pc = "gone" THEN "failed"
                  ELSE IF Settled(j) THEN sender[j].pc ELSE "asked"]

\* RetryingEventBus and RetryingHandoffWorkflowEngine implement Sending: "ok" is
\* said only of what arrived, retries make at most Attempts copies of it, some
\* perhaps after the answer, and an answer is never taken back.
SendingImplemented == Promise!SendingSpec

\* Consumers meet the events of a decision in the order of the code, as far as
\* the earlier one was accepted at all: the first copy of a later job arrives
\* only when an earlier one has arrived or was given up (or the pod died).
ArrivalsInOrder ==
    \A i, k \in DOMAIN Order :
        i < k /\ arrivals[Order[k]] > 0 =>
            arrivals[Order[i]] > 0 \/ sender[Order[i]].pc = "failed"

\* The decision path does not hang on its services: once a decision has begun
\* with its jobs all of them end, unless its pod dies, whatever the services do.
EveryDeliveryEnds ==
    (\E j \in Deliveries : sender[j].pc # "idle")
        ~> (\A j \in Deliveries : Settled(j) \/ sender[j].pc = "gone")
==============================================================================
