---------------------------- MODULE Orchestrator ----------------------------
(***************************************************************************)
(* DecisionOrchestrator.decide: the asynchronous pipeline that answers a   *)
(* decision request. Calls run concurrently on one event loop, on several  *)
(* pods, against one database, one workflow engine and one event bus; a    *)
(* call gives up the loop at every await, so that the calls interleave     *)
(* there and only there. Each action is the code between two awaits.       *)
(*                                                                         *)
(* A call is named by the fresh trace id and handoff id (uuid4) it draws,  *)
(* so a stored answer, a handoff row, a workflow or an event is identified *)
(* with the call that made it. The database rows of one request id         *)
(* (inference_requests and inference_results, upserted in one transaction) *)
(* are the call that wrote them last.                                      *)
(***************************************************************************)
EXTENDS DecisionPolicy, FiniteSets

CONSTANTS
    Calls,                \* decide() invocations, first attempts and retries
    NoCall,               \* no row for a request id
    Requests,             \* [id, tenant, text, highRisk, riskTerm]
    LookupAnswers,        \* the store can answer a lookup; FALSE of PostgreSQL
    Chunks,               \* evidence the retrieval may return
    Tainted,              \* chunks whose injection risk is at least 0.5
    EvidenceScores,       \* mean scores of a non-empty pack
    Primary, Challenger,  \* predictions of the two routing services
    ShadowEnabled,        \* shadow_routing_service is not None
    CanaryPercents,       \* what _resolve_canary_percent may return
    Bucket,               \* sha256 bucket of a tenant and a request id
    UseOpa,               \* settings.use_opa
    GenerationFailOpen,   \* the template answers when the backend does not
    MaxInFlight,          \* calls in progress at a time
    MaxCrashes,           \* pod crashes
    Faults                \* which dependencies may fail

FaultKinds == {"fetch", "persist", "shadow", "opa", "backend", "workflow",
               "lostack", "publish"}

Ids == {req.id : req \in Requests}

ASSUME OrchestratorAssumption ==
    /\ NoCall \notin Calls
    /\ LookupAnswers \in BOOLEAN
    /\ Tainted \subseteq Chunks
    /\ EvidenceScores \subseteq Percent
    /\ Primary \subseteq Prediction /\ Challenger \subseteq Prediction
    /\ ShadowEnabled \in BOOLEAN /\ UseOpa \in BOOLEAN
    /\ GenerationFailOpen \in BOOLEAN
    /\ CanaryPercents \subseteq Percent
    /\ MaxInFlight \in Nat /\ MaxCrashes \in Nat
    /\ Faults \subseteq FaultKinds

VARIABLES
    pc,         \* where each call is
    request,    \* the request of each call
    evidence,   \* evidence pack after the injection filter
    scored,     \* the scored predictions of both models
    variant,    \* selected_model_variant
    response,   \* the response the call built
    answer,     \* whose response the call returned: its own or a stored one
    stored,     \* database: the call whose rows a request id holds
    handoffs,   \* database: calls whose handoff row was inserted
    shadows,    \* database: calls whose shadow prediction was inserted
    workflows,  \* workflow engine: calls whose handoff workflow runs
    acked,      \* calls that learned their workflow id
    events,     \* event bus: delivered [type, call]
    crashes,    \* number of crashes so far
    before      \* history: the calls that had ended when each call arrived

vars == <<pc, request, evidence, scored, variant, response, answer, stored,
          handoffs, shadows, workflows, acked, events, crashes, before>>

database == <<stored, handoffs, shadows>>
external == <<workflows, acked, events>>

Steps == {"fetch", "retrieve", "canary", "shadow", "policy", "workflow",
          "persist", "completed", "created"}
InFlight == {c \in Calls : pc[c] \in Steps}

Response == [decision : Decisions, policy : PolicyResult, source : {"opa", "local"},
             draft : BOOLEAN, handoff : BOOLEAN]

\* Placeholders for what a call has not computed yet.
NoScores == [primary |-> [conf |-> 0, esc |-> 0, fallback |-> FALSE],
             challenger |-> [conf |-> 0, esc |-> 0, fallback |-> FALSE]]
NoResponse == [decision |-> "abstain",
               policy |-> [allow |-> FALSE, decision |-> "abstain", reasons |-> {}],
               source |-> "local", draft |-> FALSE, handoff |-> FALSE]

\* The call has built its response (every response has a draft or a handoff).
Built(c) == response[c] # NoResponse

Init ==
    /\ pc = [c \in Calls |-> "idle"]
    /\ request \in [Calls -> Requests]
    /\ evidence = [c \in Calls |-> {}]
    /\ scored = [c \in Calls |-> NoScores]
    /\ variant = [c \in Calls |-> "primary"]
    /\ response = [c \in Calls |-> NoResponse]
    /\ answer = [c \in Calls |-> NoCall]
    /\ stored = [i \in Ids |-> NoCall]
    /\ handoffs = {} /\ shadows = {}
    /\ workflows = {} /\ acked = {} /\ events = {}
    /\ crashes = 0
    /\ before = [c \in Calls |-> {}]

Goto(c, step) == pc' = [pc EXCEPT ![c] = step]

-----------------------------------------------------------------------------
\* A client sends its request; decide() runs up to the lookup of a stored
\* answer. The scans for personal data and prompt injection only
\* log: what follows works on the request as it came.
Arrive(c) ==
    /\ pc[c] = "idle"
    /\ Cardinality(InFlight) < MaxInFlight
    /\ Goto(c, "fetch")
    /\ before' = [before EXCEPT ![c] = {d \in Calls : pc[d] \in {"done", "lost"}}]
    /\ UNCHANGED <<request, evidence, scored, variant, response, answer, crashes>>
    /\ UNCHANGED database /\ UNCHANGED external

\* Mutant: a lookup by request id alone.
Matches_IdOnly(d, c) == request[d].id = request[c].id

\* fetch: the stored rows answer only the request they were written for: the
\* query compares every column of it (max_evidence_chunks is none).
Matches(d, c) == request[d] = request[c]

\* PostgreSQL refuses the query for the untyped parameter of "%s IS NULL", fetch
\* swallows the error, and every lookup is a miss. A store that answers, like
\* the one of the tests, replays.
Replay(c) ==
    LET d == stored[request[c].id] IN
    /\ pc[c] = "fetch"
    /\ LookupAnswers
    /\ d # NoCall
    /\ Matches(d, c)
    /\ answer' = [answer EXCEPT ![c] = d]
    /\ Goto(c, "done")
    /\ UNCHANGED <<request, evidence, scored, variant, response, crashes, before>>
    /\ UNCHANGED database /\ UNCHANGED external

Miss(c) ==
    LET d == stored[request[c].id] IN
    /\ pc[c] = "fetch"
    /\ \/ d = NoCall
       \/ d # NoCall /\ ~Matches(d, c)
       \/ ~LookupAnswers \/ "fetch" \in Faults  \* an error is a miss
    /\ Goto(c, "retrieve")
    /\ UNCHANGED <<request, evidence, scored, variant, response, answer, crashes, before>>
    /\ UNCHANGED database /\ UNCHANGED external

\* Retrieval returns, tainted chunks are dropped, and both routing services
\* predict, synchronously, on what is left.
Retrieve(c) ==
    /\ pc[c] = "retrieve"
    /\ \E pack \in SUBSET Chunks, score \in EvidenceScores,
          p \in Primary, q \in Challenger :
          LET kept == pack \ Tainted IN
          /\ evidence' = [evidence EXCEPT ![c] = kept]
          /\ scored' = [scored EXCEPT ![c] =
                [primary |-> Score(p, kept # {}, score),
                 challenger |-> IF ShadowEnabled THEN Score(q, kept # {}, score)
                                ELSE NoScores.challenger]]
    /\ Goto(c, IF ShadowEnabled THEN "canary" ELSE "policy")
    /\ UNCHANGED <<request, variant, response, answer, crashes, before>>
    /\ UNCHANGED database /\ UNCHANGED external

\* _request_in_canary_bucket
InCanaryBucket(req, percent) ==
    percent > 0 /\ (percent >= 100 \/ Bucket[<<req.tenant, req.id>>] < percent)

\* _resolve_canary_percent returns; the traffic bucket is decided.
ResolveCanary(c) ==
    /\ pc[c] = "canary"
    /\ \E percent \in CanaryPercents :
          variant' = [variant EXCEPT ![c] =
              IF InCanaryBucket(request[c], percent) THEN "challenger" ELSE "primary"]
    /\ Goto(c, "shadow")
    /\ UNCHANGED <<request, evidence, scored, response, answer, crashes, before>>
    /\ UNCHANGED database /\ UNCHANGED external

\* _persist_shadow_prediction: the row references the inference_requests row
\* of its request id; the insert fails without one, and any failure is
\* swallowed.
ShadowInserted(c) == stored[request[c].id] # NoCall

\* Mutant: the insert is retried until the row it references exists.
PersistShadow_WaitsForRow(c) ==
    /\ pc[c] = "shadow"
    /\ ShadowInserted(c)
    /\ shadows' = shadows \cup {c}
    /\ Goto(c, "policy")
    /\ UNCHANGED <<request, evidence, scored, variant, response, answer, crashes, before>>
    /\ UNCHANGED <<stored, handoffs>> /\ UNCHANGED external

PersistShadow(c) ==
    /\ pc[c] = "shadow"
    /\ \/ ShadowInserted(c) /\ shadows' = shadows \cup {c}
       \/ ~ShadowInserted(c) /\ UNCHANGED shadows
       \/ "shadow" \in Faults /\ UNCHANGED shadows
    /\ Goto(c, "policy")
    /\ UNCHANGED <<request, evidence, scored, variant, response, answer, crashes, before>>
    /\ UNCHANGED <<stored, handoffs>> /\ UNCHANGED external

-----------------------------------------------------------------------------
\* Mutant: the guardrail and the policy read the primary's numbers when the
\* challenger answers.
Selected_Primary(c) == scored[c].primary

\* The numbers of the selected model.
Selected(c) == IF variant[c] = "challenger" THEN scored[c].challenger
                                            ELSE scored[c].primary

\* build_grounded_response: what keeps a draft from being written, if
\* anything does. A backend answer that fails its checks twice, or an
\* exception, counts as no answer.
GenerationFailures(c) ==
    IF evidence[c] = {} THEN {"generation_no_evidence"}
    ELSE IF ~GenerationFailOpen /\ "backend" \in Faults
         THEN {"none", "generation_backend_unavailable"}
         ELSE {"none"}

\* Mutant: a failed generation escalates but keeps the policy's permission.
WithoutDraft_KeepsPolicy(result, src, failure) ==
    [decision |-> "escalate", policy |-> result, source |-> src,
     draft |-> FALSE, handoff |-> TRUE]

\* A recommendation that got no draft becomes an escalation.
WithoutDraft(result, src, failure) ==
    [decision |-> "escalate",
     policy |-> [allow |-> FALSE, decision |-> "escalate",
                 reasons |-> result.reasons \cup {failure}],
     source |-> src, draft |-> FALSE, handoff |-> TRUE]

WithDraft(result, src) ==
    [decision |-> "recommend", policy |-> result, source |-> src,
     draft |-> TRUE, handoff |-> FALSE]

\* Mutant: the reported decision of a handoff is none of the three.
HandedOff_Handoff(result, src, s) ==
    [decision |-> "handoff", policy |-> result, source |-> src,
     draft |-> FALSE, handoff |-> TRUE]

\* Anything else is handed off; an abstention at a high escalation
\* probability is reported as an escalation.
HandedOff(result, src, s) ==
    [decision |-> IF result.decision = "abstain" /\ s.esc > AbstainEscalation
                  THEN "escalate" ELSE result.decision,
     policy |-> result, source |-> src, draft |-> FALSE, handoff |-> TRUE]

\* The policy evaluation of a source: OPA, or the local rules when OPA is
\* off or its call fails.
Evaluated(c, src) ==
    Guarded(IF src = "opa" THEN EvaluateOpa(request[c], Selected(c))
                           ELSE EvaluateLocal(request[c], Selected(c)),
            Selected(c))

Sources == IF ~UseOpa THEN {"local"}
           ELSE IF "opa" \in Faults THEN {"opa", "local"} ELSE {"opa"}

\* The response of a call, for each way generation may go.
Outcomes(c, src) ==
    LET result == Evaluated(c, src) IN
    IF result.decision = "recommend" /\ result.allow
    THEN {IF f = "none" THEN WithDraft(result, src) ELSE WithoutDraft(result, src, f) :
             f \in GenerationFailures(c)}
    ELSE {HandedOff(result, src, Selected(c))}

\* The policy answers; guardrail, generation and the handoff payload follow
\* without an await.
Decide(c) ==
    /\ pc[c] = "policy"
    /\ \E src \in Sources : \E r \in Outcomes(c, src) :
          /\ response' = [response EXCEPT ![c] = r]
          /\ Goto(c, IF r.handoff THEN "workflow" ELSE "persist")
    /\ UNCHANGED <<request, evidence, scored, variant, answer, crashes, before>>
    /\ UNCHANGED database /\ UNCHANGED external

\* _start_handoff_workflow: started, started with the acknowledgement lost,
\* or not started; the call goes on in each case.
StartWorkflow(c) ==
    /\ pc[c] = "workflow"
    /\ \/ workflows' = workflows \cup {c} /\ acked' = acked \cup {c}
       \/ "lostack" \in Faults /\ workflows' = workflows \cup {c} /\ UNCHANGED acked
       \/ "workflow" \in Faults /\ UNCHANGED <<workflows, acked>>
    /\ Goto(c, "persist")
    /\ UNCHANGED <<request, evidence, scored, variant, response, answer, crashes, before>>
    /\ UNCHANGED events /\ UNCHANGED database

\* Mutant: the handoff row is only inserted for a request id that is new.
HandoffsAfter_NewOnly(c) ==
    IF response[c].handoff /\ stored[request[c].id] = NoCall
    THEN handoffs \cup {c} ELSE handoffs

\* The handoff row a transaction inserts, keyed by the call's fresh id.
HandoffsAfter(c) ==
    IF response[c].handoff THEN handoffs \cup {c} ELSE handoffs

\* persist: one transaction, or nothing when it fails; a failure is swallowed.
Persist(c) ==
    /\ pc[c] = "persist"
    /\ \/ /\ stored' = [stored EXCEPT ![request[c].id] = c]
          /\ handoffs' = HandoffsAfter(c)
       \/ "persist" \in Faults /\ UNCHANGED <<stored, handoffs>>
    /\ Goto(c, "completed")
    /\ UNCHANGED <<request, evidence, scored, variant, response, answer, crashes, before>>
    /\ UNCHANGED shadows /\ UNCHANGED external

Publish(c, type) ==
    \/ events' = events \cup {[type |-> type, call |-> c]}
    \/ "publish" \in Faults /\ UNCHANGED events

Return(c) ==
    /\ Goto(c, "done")
    /\ answer' = [answer EXCEPT ![c] = c]

\* _publish_events: assist.inference.completed always ...
PublishCompleted(c) ==
    /\ pc[c] = "completed"
    /\ Publish(c, "completed")
    /\ IF response[c].handoff
       THEN Goto(c, "created") /\ UNCHANGED answer
       ELSE Return(c)
    /\ UNCHANGED <<request, evidence, scored, variant, response, crashes, before>>
    /\ UNCHANGED <<workflows, acked>> /\ UNCHANGED database

\* ... assist.handoff.created for a handoff. The call returns its response.
PublishCreated(c) ==
    /\ pc[c] = "created"
    /\ Publish(c, "created")
    /\ Return(c)
    /\ UNCHANGED <<request, evidence, scored, variant, response, crashes, before>>
    /\ UNCHANGED <<workflows, acked>> /\ UNCHANGED database

\* A pod dies with the calls it serves; their clients get no answer.
Crash ==
    /\ crashes < MaxCrashes
    /\ \E pod \in SUBSET InFlight :
          /\ pod # {}
          /\ pc' = [c \in Calls |-> IF c \in pod THEN "lost" ELSE pc[c]]
    /\ crashes' = crashes + 1
    /\ UNCHANGED <<request, evidence, scored, variant, response, answer, before>>
    /\ UNCHANGED database /\ UNCHANGED external

CallStep(c) ==
    \/ Replay(c) \/ Miss(c) \/ Retrieve(c) \/ ResolveCanary(c)
    \/ PersistShadow(c) \/ Decide(c) \/ StartWorkflow(c) \/ Persist(c)
    \/ PublishCompleted(c) \/ PublishCreated(c)

Next == Crash \/ \E c \in Calls : Arrive(c) \/ CallStep(c)

Spec == Init /\ [][Next]_vars

\* Every await of a call returns: OPA, backend and event bus have timeouts, the
\* rest answers or breaks the connection, and every error is caught.
FairSpec == Spec /\ \A c \in Calls : WF_vars(CallStep(c))
-----------------------------------------------------------------------------
\* Every variable holds values of its type.
TypeOK ==
    /\ pc \in [Calls -> Steps \cup {"idle", "done", "lost"}]
    /\ request \in [Calls -> Requests]
    /\ evidence \in [Calls -> SUBSET Chunks]
    /\ scored \in [Calls -> [primary : Scored, challenger : Scored]]
    /\ variant \in [Calls -> {"primary", "challenger"}]
    /\ response \in [Calls -> Response]
    /\ answer \in [Calls -> Calls \cup {NoCall}]
    /\ stored \in [Ids -> Calls \cup {NoCall}]
    /\ handoffs \subseteq Calls /\ shadows \subseteq Calls
    /\ workflows \subseteq Calls /\ acked \subseteq workflows
    /\ events \subseteq [type : {"completed", "created"}, call : Calls]
    /\ crashes \in 0..MaxCrashes
    /\ before \in [Calls -> SUBSET Calls]

\* A draft goes to a customer only on untainted evidence and only when the
\* numbers of the model variant that is reported clear the policy that was
\* applied and the guardrail, whatever the other variant said, whether OPA or
\* the local rules decided, and also when a stored answer is what is replayed.
AutoResponsesJustified ==
    \A c \in Calls : response[c].draft =>
        /\ evidence[c] # {} /\ evidence[c] \cap Tainted = {}
        /\ Justified(request[c], scored[c][variant[c]],
                     IF response[c].source = "opa" THEN BaseThreshold
                     ELSE Threshold(request[c]))

\* A response is either a draft or a handoff, and its three accounts of that
\* (the decision, the policy result, the payloads) agree, on every path:
\* policy, guardrail override, generation failure.
OutcomesConsistent ==
    \A c \in Calls : Built(c) =>
        /\ response[c].draft # response[c].handoff
        /\ response[c].draft = (response[c].decision = "recommend")
        /\ response[c].draft = response[c].policy.allow

\* A replayed answer was built for the very same request, and the call that
\* replays it leaves no trace of its own: no row, no workflow, no event.
ReplaysAreFaithful ==
    \A c \in Calls : answer[c] \notin {NoCall, c} =>
        /\ request[answer[c]] = request[c]
        /\ Built(answer[c])
        /\ c \notin handoffs \cup shadows \cup workflows
        /\ \A e \in events : e.call # c

\* Whatever call wrote a request's rows last, through retries, races and
\* crashes: its handoff is in the queue exactly if its response promises one.
StoredOutcomesComplete ==
    \A i \in Ids : stored[i] # NoCall =>
        /\ Built(stored[i])
        /\ request[stored[i]].id = i
        /\ response[stored[i]].handoff = (stored[i] \in handoffs)

\* Who hears of a new handoff on the event bus finds it in the queue (a
\* failed transaction is swallowed, so this needs a database that does not
\* fail).
AnnouncedHandoffsQueued ==
    \A e \in events : e.type = "created" => e.call \in handoffs

\* README "Idempotency: prevent duplicate processing": a retry that arrives
\* when an earlier call for the very same request has ended, with its handoff in
\* the queue, is answered with what is stored and processes nothing again.
RetriesReplay ==
    \A c, d \in Calls :
        (d \in before[c] /\ d \in handoffs /\ request[d] = request[c]) => ~Built(c)

\* README "at-most-once semantics": a request creates at most one handoff.
AtMostOneHandoff ==
    \A c, d \in handoffs : request[c] = request[d] => c = d

\* README "challenger prediction (persisted separately)": a call that ran to
\* its end left its challenger prediction in the database.
ShadowPredictionsKept ==
    \A c \in Calls : (ShadowEnabled /\ answer[c] = c) => c \in shadows

\* Every call that arrives is answered, unless its pod dies.
EveryCallReturns ==
    \A c \in Calls : pc[c] = "fetch" ~> pc[c] \in {"done", "lost"}

\* With a database that does not fail and pods that do not die, a handoff
\* that was decided reaches the queue, whatever becomes of its workflow.
HandoffsReachQueue ==
    \A c \in Calls : response[c].handoff ~> c \in handoffs
=============================================================================
