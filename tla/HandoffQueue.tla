---------------------------- MODULE HandoffQueue ----------------------------
(***************************************************************************)
(* The handoff queue and the ground truth: PATCH requests of reviewers     *)
(* (app/storage/handoff_store.py), feedback of customers                   *)
(* (app/storage/feedback_store.py) and the view vw_latest_ground_truth     *)
(* that evaluation reads (migrations/0004_model_ops_evaluation.sql).       *)
(*                                                                         *)
(* A patch is one transaction: it takes its timestamp when it begins,      *)
(* waits for the row lock of its handoff, and updates, inserts and commits *)
(* at once. Patches overlap; a client whose answer was lost sends its      *)
(* patch again, which is one more patch.                                   *)
(***************************************************************************)
EXTENDS Integers, FiniteSets

CONSTANTS
    Handoffs,        \* rows of the queue
    Tenants,
    Requests,        \* inference requests, of one tenant each
    RequestOf,       \* the request of a handoff
    TenantOf,        \* the tenant of a request
    UuidRequests,    \* requests whose id is a UUID
    Unreadable,      \* handoffs whose payload no longer parses
    Decisions,       \* recommend, abstain, escalate
    None,            \* no patch; incomplete reviewer fields; no accepted_decision
    Patchers,        \* connections that run patches
    MaxEvents        \* bound on patches and feedback that begin

ASSUME QueueAssumption ==
    /\ RequestOf \in [Handoffs -> Requests]
    /\ TenantOf \in [Requests -> Tenants]
    /\ UuidRequests \subseteq Requests
    /\ Unreadable \subseteq Handoffs
    /\ None \notin Decisions
    /\ MaxEvents \in Nat

HandoffQueueStatus == {"open", "in_review", "resolved", "closed"}

VARIABLES
    status,    \* database: queue_status of a handoff
    outcomes,  \* database: reviewer_outcomes
    feedback,  \* database: feedback_events
    patch,     \* per connection: the patch it runs
    clock      \* now() of the database: a fresh stamp for each transaction

vars == <<status, outcomes, feedback, patch, clock>>

Stamps == 1..MaxEvents
Patch == [handoff : Handoffs, tenant : Tenants, status : HandoffQueueStatus,
          final : Decisions \cup {None}, at : Stamps]
Outcome == [handoff : Handoffs, request : Requests, tenant : Tenants,
            final : Decisions, at : Stamps]

\* request_id_uuid of an event: the request's row, or a UUID of no row.
NoRow == "no row"
Feedback == [request : Requests \cup {NoRow}, tenant : Tenants,
             decision : Decisions \cup {None}, at : Stamps, source : {"customer", "reviewer"}]

Init ==
    /\ status = [h \in Handoffs |-> "open"]
    /\ outcomes = {} /\ feedback = {}
    /\ patch = [p \in Patchers |-> None]
    /\ clock = 0

-----------------------------------------------------------------------------
\* Mutant: closing is accepted without the reviewer's fields.
Accepted_Any(s, final) == TRUE

\* Closing asks for the reviewer's fields; nothing else does.
Accepted(s, final) == s = "closed" => final # None

\* update_queue_status begins its transaction with the UPDATE, which waits
\* for the row. Any status may follow any other.
Begin(p) ==
    /\ patch[p] = None
    /\ clock < MaxEvents
    /\ \E h \in Handoffs, t \in Tenants, s \in HandoffQueueStatus,
          final \in Decisions \cup {None} :
          /\ Accepted(s, final)
          /\ patch' = [patch EXCEPT ![p] =
                [handoff |-> h, tenant |-> t, status |-> s, final |-> final,
                 at |-> clock + 1]]
    /\ clock' = clock + 1
    /\ UNCHANGED <<status, outcomes, feedback>>

\* The UPDATE finds the row of the tenant.
Found(x) == TenantOf[RequestOf[x.handoff]] = x.tenant

\* A resolution or closure with the reviewer's fields is an outcome.
Captures(x) == x.status \in {"resolved", "closed"} /\ x.final # None

\* Mutant: the outcome is stored for the request id of the feedback route.
MirroredRequest_Feedback(x) ==
    IF RequestOf[x.handoff] \in UuidRequests THEN RequestOf[x.handoff] ELSE NoRow

\* The mirrored event carries the request_id of the queue's row, a UUID.
MirroredRequest(x) == RequestOf[x.handoff]

\* The row is there and its payload parses: status, outcome and mirrored
\* feedback commit together.
Apply(p) ==
    LET x == patch[p]
        r == RequestOf[x.handoff] IN
    /\ x # None
    /\ Found(x) /\ x.handoff \notin Unreadable
    /\ status' = [status EXCEPT ![x.handoff] = x.status]
    /\ IF Captures(x)
       THEN /\ outcomes' = outcomes \cup
                  {[handoff |-> x.handoff, request |-> r, tenant |-> x.tenant,
                    final |-> x.final, at |-> x.at]}
            /\ feedback' = feedback \cup
                  {[request |-> MirroredRequest(x), tenant |-> x.tenant,
                    decision |-> x.final, at |-> x.at, source |-> "reviewer"]}
       ELSE UNCHANGED <<outcomes, feedback>>
    /\ patch' = [patch EXCEPT ![p] = None]
    /\ UNCHANGED clock

\* 404 for a row of another tenant, a rollback for an unreadable payload or a
\* database error: nothing is stored.
Abandon(p) ==
    /\ patch[p] # None
    /\ patch' = [patch EXCEPT ![p] = None]
    /\ UNCHANGED <<status, outcomes, feedback, clock>>

\* _to_uuid of the feedback store hashes an id that is no UUID under a scope
\* of its own, not under that of the inference store.
FeedbackRequest(r) == IF r \in UuidRequests THEN r ELSE NoRow

\* A customer's feedback, which may leave the accepted decision out; when
\* storing it fails the customer is not told.
GiveFeedback ==
    /\ clock < MaxEvents
    /\ \E r \in Requests, d \in Decisions \cup {None} :
          feedback' = feedback \cup
             {[request |-> FeedbackRequest(r), tenant |-> TenantOf[r],
               decision |-> d, at |-> clock + 1, source |-> "customer"]}
    /\ clock' = clock + 1
    /\ UNCHANGED <<status, outcomes, patch>>

Next ==
    \/ GiveFeedback
    \/ \E p \in Patchers : Begin(p) \/ Apply(p) \/ Abandon(p)

Spec == Init /\ [][Next]_vars

-----------------------------------------------------------------------------
\* ROW_NUMBER() ... ORDER BY created_at DESC, rank 1
Latest(rows) == {x \in rows : \A y \in rows : y.at <= x.at}

LatestReviewer(r) == Latest({o \in outcomes : o.request = r /\ o.tenant = TenantOf[r]})
LatestFeedback(r) == Latest({f \in feedback : f.request = r /\ f.tenant = TenantOf[r]})

\* Mutant: the latest event decides, whoever it is from.
GroundTruth_LatestEvent(r) ==
    {f.decision : f \in LatestFeedback(r)} \ {None}

\* ground_truth_decision of the view: the reviewer's, or else the one of the
\* latest feedback; empty (NULL) when there is neither.
GroundTruth(r) ==
    IF LatestReviewer(r) # {} THEN {o.final : o \in LatestReviewer(r)}
    ELSE {f.decision : f \in LatestFeedback(r)} \ {None}

\* Every variable holds values of its type.
TypeOK ==
    /\ status \in [Handoffs -> HandoffQueueStatus]
    /\ outcomes \subseteq Outcome
    /\ feedback \subseteq Feedback
    /\ patch \in [Patchers -> Patch \cup {None}]
    /\ clock \in 0..MaxEvents

\* README "Handoff closure requires reviewer_id + final_decision +
\* final_resolution_path, mirrored back to evaluation tables": a closed
\* handoff has ground truth, recorded for its own request and tenant, however
\* it was reopened, reassigned or patched concurrently before.
ClosedHasGroundTruth ==
    \A h \in Handoffs : status[h] = "closed" =>
        /\ \E o \in outcomes : o.handoff = h
        /\ GroundTruth(RequestOf[h]) # {}

\* Both evaluation tables tell the same story: each outcome has its mirrored
\* event under the same request, and no event claims a reviewer without one.
OutcomesMirrored ==
    {[r |-> o.request, t |-> o.tenant, d |-> o.final, at |-> o.at] : o \in outcomes}
    = {[r |-> f.request, t |-> f.tenant, d |-> f.decision, at |-> f.at] :
          f \in {e \in feedback : e.source = "reviewer"}}

\* The decision of the patch that began last is the ground truth: a patch
\* overrides the outcomes of patches that began before it, and leaves the
\* ground truth alone if it captures no outcome or began before another that
\* has committed first.
LatestPatchDecides ==
    [][\A p \in Patchers, r \in Requests :
          Apply(p) /\ RequestOf[patch[p].handoff] = r =>
             IF /\ Captures(patch[p])
                /\ \A o \in outcomes : o.request = r => o.at < patch[p].at
             THEN GroundTruth(r)' = {patch[p].final}
             ELSE GroundTruth(r)' = GroundTruth(r)]_vars
=============================================================================
