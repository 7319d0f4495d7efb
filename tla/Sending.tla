------------------------------- MODULE Sending -------------------------------
(***************************************************************************)
(* What the decision path is promised by event_bus.publish and by          *)
(* workflow_engine.start_handoff: an answer, "ok" only for what arrived,   *)
(* and no more copies than attempts, of which some may arrive late.        *)
(***************************************************************************)
EXTENDS Naturals

CONSTANTS Jobs, AtMost

VARIABLES
    verdict,    \* per job: "asked", "ok" or "failed"
    copies      \* per job: how often it arrived at the service

SendingInit ==
    /\ verdict = [j \in Jobs |-> "asked"]
    /\ copies = [j \in Jobs |-> 0]

Reach(j) ==
    /\ copies[j] < AtMost
    /\ copies' = [copies EXCEPT ![j] = @ + 1]
    /\ UNCHANGED verdict

Answered(j, said) ==
    /\ verdict[j] = "asked"
    /\ said = "ok" => copies[j] > 0
    /\ verdict' = [verdict EXCEPT ![j] = said]
    /\ UNCHANGED copies

\* The death of the pod ends several jobs at once.
AllFail ==
    /\ verdict' = [j \in Jobs |-> IF verdict[j] = "asked" THEN "failed" ELSE verdict[j]]
    /\ UNCHANGED copies

SendingNext ==
    \/ \E j \in Jobs : Reach(j) \/ Answered(j, "ok") \/ Answered(j, "failed")
    \/ AllFail

sending == <<verdict, copies>>

SendingSpec == SendingInit /\ [][SendingNext]_sending
==============================================================================
