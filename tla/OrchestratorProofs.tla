------------------------- MODULE OrchestratorProofs -------------------------
(***************************************************************************)
(* What holds of the orchestrator for any number of calls, requests,       *)
(* predictions, canary percentages and any set of failing dependencies.    *)
(***************************************************************************)
EXTENDS Orchestrator, TLAPS

\* The steps before the policy evaluation.
Early == {"idle", "fetch", "retrieve", "canary", "shadow", "policy"}
Late == {"workflow", "persist", "completed", "created"}

\* What the position of a call says of what it has left behind: nothing before
\* its response is built; then a response, and no rows before the transaction;
\* an answer only at the end. A database that does not fail has the handoff
\* row before the events go out.
PhaseInv ==
    \A c \in Calls :
        /\ pc[c] \in Early => /\ response[c] = NoResponse
                              /\ c \notin workflows
        /\ pc[c] \in Early \ {"policy"} => c \notin shadows
        /\ pc[c] \in Late => Built(c)
        /\ pc[c] \in {"workflow", "created"} => response[c].handoff
        /\ pc[c] \in Early \cup {"workflow", "persist"} =>
              /\ c \notin handoffs
              /\ \A i \in Ids : stored[i] # c
              /\ \A e \in events : e.call # c
        /\ pc[c] # "done" => answer[c] = NoCall
        /\ "persist" \notin Faults /\ response[c].handoff
              /\ pc[c] \in {"completed", "created"} => c \in handoffs

\* The injection filter has been applied to every evidence pack.
Untainted == \A c \in Calls : evidence[c] \cap Tainted = {}

\* The inductive invariant.
IInv == /\ TypeOK /\ PhaseInv /\ Untainted
        /\ AutoResponsesJustified /\ OutcomesConsistent
        /\ StoredOutcomesComplete /\ ReplaysAreFaithful
        /\ "persist" \notin Faults => AnnouncedHandoffsQueued

-----------------------------------------------------------------------------
LEMMA ScoreType ==
    ASSUME NEW p \in Prediction, NEW b \in BOOLEAN, NEW e \in Percent
    PROVE  Score(p, b, e) \in Scored
<1>. USE DEF Prediction, Percent, Scored, Score
<1>1. ASSUME NEW r \in Percent, NEW v \in Percent, NEW s \in Percent,
             NEW o \in Percent, NEW k \in Percent
      PROVE  FinalConfidence(r, v, s, o, k) \in Int
  BY DEF FinalConfidence, Clamp
<1>2. /\ p.route \in Percent /\ p.esc \in Percent /\ p.ood \in Percent
      /\ p.contra \in Percent /\ p.fallback \in BOOLEAN
  OBVIOUS
<1>3. FinalConfidence(p.route, e, p.esc, p.ood, p.contra) \in Int
  BY <1>1, <1>2
<1>4. FinalConfidence(p.route, 0, p.esc, 95, 30) \in Int
  <2>1. 0 \in Percent /\ 95 \in Percent /\ 30 \in Percent
    OBVIOUS
  <2>. QED  BY <1>1, <1>2, <2>1, Zenon
<1>. QED
  BY <1>2, <1>3, <1>4

LEMMA RulesType ==
    ASSUME NEW req, NEW s, NEW t
    PROVE  Rules(req, s, t) \in PolicyResult
<1>1. \A d \in Decisions, r \in Reasons : Denied(d, r) \in PolicyResult
  BY DEF Denied, PolicyResult
<1>2. Allowed \in PolicyResult
  BY DEF Allowed, PolicyResult, Decisions
<1>3. Rules(req, s, t) \in {Denied("escalate", "policy_high_risk"),
                            Denied("abstain", "low_confidence"),
                            Denied("abstain", "high_escalation_risk"), Allowed}
  BY Zenon DEF Rules
<1>. QED
  BY <1>1, <1>2, <1>3 DEF Decisions, Reasons

\* What the rules permit, they justify.
LEMMA RulesSound ==
    ASSUME NEW req, NEW s \in Scored, NEW t \in Int
    PROVE  LET r == Rules(req, s, t) IN
           \/ /\ r.allow = TRUE /\ r.decision = "recommend"
              /\ ~req.riskTerm /\ s.conf >= t /\ s.esc < MaxAutoEscalation
           \/ r.allow = FALSE /\ r.decision # "recommend"
<1>. DEFINE R == Rules(req, s, t)
<1>1. s.conf \in Int /\ s.esc \in Int /\ MaxAutoEscalation \in Int
  BY PolicyAssumption DEF Scored, Percent
<1>2. CASE req.riskTerm
  <2>1. R = Denied("escalate", "policy_high_risk")
    BY <1>2 DEF Rules
  <2>. QED  BY <2>1 DEF Denied
<1>3. CASE ~req.riskTerm /\ s.conf < t
  <2>1. R = Denied("abstain", "low_confidence")
    BY <1>3, <1>1 DEF Rules
  <2>. QED  BY <2>1 DEF Denied
<1>4. CASE ~req.riskTerm /\ s.conf >= t /\ s.esc >= MaxAutoEscalation
  <2>1. R = Denied("abstain", "high_escalation_risk")
    BY <1>4, <1>1 DEF Rules
  <2>. QED  BY <2>1 DEF Denied
<1>5. CASE ~req.riskTerm /\ s.conf >= t /\ s.esc < MaxAutoEscalation
  <2>1. R = Allowed
    BY <1>5, <1>1 DEF Rules
  <2>. QED  BY <2>1, <1>5 DEF Allowed
<1>6. \/ req.riskTerm
      \/ ~req.riskTerm /\ s.conf < t
      \/ ~req.riskTerm /\ s.conf >= t /\ s.esc >= MaxAutoEscalation
      \/ ~req.riskTerm /\ s.conf >= t /\ s.esc < MaxAutoEscalation
  BY <1>1
<1>. QED
  BY <1>2, <1>3, <1>4, <1>5, <1>6

\* The guardrail only takes permissions away, and takes away every one that a
\* fallback engine or a confidence outside the band would have used.
LEMMA GuardedSound ==
    ASSUME NEW req, NEW s \in Scored, NEW t \in Int
    PROVE  LET g == Guarded(Rules(req, s, t), s) IN
           /\ g \in PolicyResult
           /\ \/ /\ g.allow = TRUE /\ g.decision = "recommend"
                 /\ Justified(req, s, t)
              \/ g.allow = FALSE /\ g.decision # "recommend"
<1>. DEFINE R == Rules(req, s, t)
<1>1. R \in PolicyResult
  BY RulesType
<1>2. R.reasons \in SUBSET Reasons
  BY <1>1 DEF PolicyResult
<1>3. CASE GuardrailReasons(s) = {}
  <2>1. Guarded(R, s) = R
    BY <1>3 DEF Guarded
  <2>2. /\ ~(ForceHandoffOnFallback /\ s.fallback)
        /\ ~(s.conf < LowerBound \/ s.conf > UpperBound)
    BY <1>3 DEF GuardrailReasons
  <2>3. LowerBound <= s.conf /\ s.conf <= UpperBound
    BY <2>2, PolicyAssumption DEF Scored
  <2>. QED
    BY <2>1, <2>2, <2>3, <1>1, RulesSound DEF Justified
<1>4. CASE GuardrailReasons(s) # {}
  <2>1. Guarded(R, s) = [allow |-> FALSE, decision |-> "escalate",
                         reasons |-> R.reasons \cup GuardrailReasons(s)]
    BY <1>4 DEF Guarded
  <2>2. GuardrailReasons(s) \in SUBSET Reasons
    BY DEF GuardrailReasons, Reasons
  <2>3. R.reasons \cup GuardrailReasons(s) \in SUBSET Reasons
    BY <1>2, <2>2
  <2>4. Guarded(R, s) \in PolicyResult
    BY <2>1, <2>3 DEF PolicyResult, Decisions
  <2>. QED
    BY <2>1, <2>4
<1>. QED
  BY <1>3, <1>4

\* The threshold the policy of a source applies to a request.
ThresholdOf(req, src) == IF src = "opa" THEN BaseThreshold ELSE Threshold(req)

\* Every response decide() can build agrees with itself and is justified.
LEMMA OutcomesSound ==
    ASSUME TypeOK, NEW c \in Calls, NEW src \in Sources,
           NEW r \in Outcomes(c, src)
    PROVE  /\ r \in Response
           /\ r.source = src
           /\ \/ /\ r.draft = TRUE /\ r.handoff = FALSE
                 /\ r.policy.allow = TRUE /\ r.decision = "recommend"
                 /\ evidence[c] # {}
                 /\ Justified(request[c], scored[c][variant[c]],
                              ThresholdOf(request[c], src))
              \/ /\ r.draft = FALSE /\ r.handoff = TRUE
                 /\ r.policy.allow = FALSE /\ r.decision # "recommend"
<1>. DEFINE s == scored[c][variant[c]]
            t == ThresholdOf(request[c], src)
            g == Evaluated(c, src)
<1>1. s \in Scored /\ s = Selected(c)
  BY DEF TypeOK, Selected
<1>2. t \in Int
  BY PolicyAssumption DEF ThresholdOf, Threshold
<1>3. src \in {"opa", "local"}
  BY DEF Sources
<1>4. g = Guarded(Rules(request[c], s, t), s)
  BY <1>1, <1>3, Zenon DEF Evaluated, EvaluateOpa, EvaluateLocal, ThresholdOf
<1>5. /\ g \in PolicyResult
      /\ \/ /\ g.allow = TRUE /\ g.decision = "recommend"
            /\ Justified(request[c], s, t)
         \/ g.allow = FALSE /\ g.decision # "recommend"
  <2>. HIDE DEF s, t, g
  <2>. QED  BY <1>1, <1>2, <1>4, GuardedSound
<1>6. /\ g.allow \in BOOLEAN /\ g.decision \in Decisions
      /\ g.reasons \in SUBSET Reasons
  BY <1>5 DEF PolicyResult
<1>7. CASE g.decision = "recommend" /\ g.allow
  <2>1. PICK f \in GenerationFailures(c) :
           r = IF f = "none" THEN WithDraft(g, src) ELSE WithoutDraft(g, src, f)
    BY <1>7 DEF Outcomes
  <2>2. CASE f = "none"
    <3>1. r = WithDraft(g, src)
      BY <2>1, <2>2
    <3>2. evidence[c] # {}
      BY <2>2 DEF GenerationFailures
    <3>. QED
      BY <3>1, <3>2, <1>3, <1>5, <1>7 DEF WithDraft, Response, Decisions
  <2>3. CASE f # "none"
    <3>1. r = WithoutDraft(g, src, f)
      BY <2>1, <2>3
    <3>2. f \in Reasons
      BY <2>3 DEF GenerationFailures, Reasons
    <3>3. g.reasons \cup {f} \in SUBSET Reasons
      BY <3>2, <1>6
    <3>4. r.policy \in PolicyResult
      BY <3>1, <3>3 DEF WithoutDraft, PolicyResult, Decisions
    <3>. QED
      BY <3>1, <3>4, <1>3 DEF WithoutDraft, Response, Decisions
  <2>. QED  BY <2>2, <2>3
<1>8. CASE ~(g.decision = "recommend" /\ g.allow)
  <2>1. r = HandedOff(g, src, Selected(c))
    BY <1>8 DEF Outcomes
  <2>2. g.decision # "recommend" /\ g.allow = FALSE
    BY <1>8, <1>5, <1>6
  <2>. QED
    BY <2>1, <2>2, <1>3, <1>5, <1>6 DEF HandedOff, Response, Decisions
<1>. QED
  BY <1>7, <1>8

-----------------------------------------------------------------------------
\* Type correctness: the variables keep their types through every handler.
THEOREM TypeCorrect == Spec => []TypeOK
<1>1. Init => TypeOK
  BY OrchestratorAssumption
     DEF Init, TypeOK, NoScores, Scored, Percent, NoResponse, Response,
         PolicyResult, Decisions, Reasons, Steps, Ids
<1>2. TypeOK /\ [Next]_vars => TypeOK'
  <2> SUFFICES ASSUME TypeOK, [Next]_vars
               PROVE  TypeOK'
    OBVIOUS
  <2>. USE DEF TypeOK, Goto, database, external, Steps
  <2>1. ASSUME NEW c \in Calls, Arrive(c)
        PROVE  TypeOK'
    BY <2>1 DEF Arrive
  <2>2. ASSUME NEW c \in Calls, Replay(c)
        PROVE  TypeOK'
    <3>1. stored[request[c].id] \in Calls
      BY <2>2 DEF Replay, Ids
    <3>. QED  BY <2>2, <3>1 DEF Replay
  <2>3. ASSUME NEW c \in Calls, Miss(c)
        PROVE  TypeOK'
    BY <2>3 DEF Miss
  <2>4. ASSUME NEW c \in Calls, Retrieve(c)
        PROVE  TypeOK'
    <3>1. PICK pack \in SUBSET Chunks, score \in EvidenceScores,
               p \in Primary, q \in Challenger :
            /\ evidence' = [evidence EXCEPT ![c] = pack \ Tainted]
            /\ scored' = [scored EXCEPT ![c] =
                 [primary |-> Score(p, pack \ Tainted # {}, score),
                  challenger |-> IF ShadowEnabled
                                 THEN Score(q, pack \ Tainted # {}, score)
                                 ELSE NoScores.challenger]]
      BY <2>4 DEF Retrieve
    <3>2. /\ Score(p, pack \ Tainted # {}, score) \in Scored
          /\ Score(q, pack \ Tainted # {}, score) \in Scored
      BY ScoreType, OrchestratorAssumption
    <3>3. NoScores.challenger \in Scored
      BY DEF NoScores, Scored, Percent
    <3>4. scored' \in [Calls -> [primary : Scored, challenger : Scored]]
      BY <3>1, <3>2, <3>3
    <3>5. evidence' \in [Calls -> SUBSET Chunks]
      BY <3>1
    <3>. QED  BY <2>4, <3>4, <3>5 DEF Retrieve
  <2>5. ASSUME NEW c \in Calls, ResolveCanary(c)
        PROVE  TypeOK'
    BY <2>5 DEF ResolveCanary
  <2>6. ASSUME NEW c \in Calls, PersistShadow(c)
        PROVE  TypeOK'
    BY <2>6 DEF PersistShadow
  <2>7. ASSUME NEW c \in Calls, Decide(c)
        PROVE  TypeOK'
    <3>1. PICK src \in Sources :
             \E r \in Outcomes(c, src) : response' = [response EXCEPT ![c] = r]
      BY <2>7 DEF Decide
    <3>2. PICK r \in Outcomes(c, src) : response' = [response EXCEPT ![c] = r]
      BY <3>1
    <3>3. r \in Response
      BY OutcomesSound
    <3>4. response' \in [Calls -> Response]
      BY <3>2, <3>3
    <3>5. pc' \in [Calls -> Steps \cup {"idle", "done", "lost"}]
      BY <2>7 DEF Decide
    <3>. QED  BY <2>7, <3>4, <3>5 DEF Decide
  <2>8. ASSUME NEW c \in Calls, StartWorkflow(c)
        PROVE  TypeOK'
    BY <2>8 DEF StartWorkflow
  <2>9. ASSUME NEW c \in Calls, Persist(c)
        PROVE  TypeOK'
    BY <2>9 DEF Persist, HandoffsAfter
  <2>10. ASSUME NEW c \in Calls, PublishCompleted(c)
         PROVE  TypeOK'
    BY <2>10 DEF PublishCompleted, Publish, Return
  <2>11. ASSUME NEW c \in Calls, PublishCreated(c)
         PROVE  TypeOK'
    BY <2>11 DEF PublishCreated, Publish, Return
  <2>12. CASE Crash
    BY <2>12, OrchestratorAssumption DEF Crash
  <2>13. CASE UNCHANGED vars
    BY <2>13 DEF vars
  <2>. QED
    BY <2>1, <2>2, <2>3, <2>4, <2>5, <2>6, <2>7, <2>8, <2>9, <2>10, <2>11,
       <2>12, <2>13 DEF Next, CallStep
<1>. QED
  BY <1>1, <1>2, PTL DEF Spec

-----------------------------------------------------------------------------
LEMMA InvInit == Init => IInv
<1>. SUFFICES ASSUME Init PROVE IInv
  OBVIOUS
<1>1. TypeOK
  BY OrchestratorAssumption
     DEF Init, TypeOK, NoScores, Scored, Percent, NoResponse, Response,
         PolicyResult, Decisions, Reasons, Steps, Ids
<1>2. /\ PhaseInv /\ Untainted
  BY OrchestratorAssumption DEF Init, PhaseInv, Untainted, Early, Late
<1>3. /\ AutoResponsesJustified /\ OutcomesConsistent
  BY DEF Init, AutoResponsesJustified, OutcomesConsistent, NoResponse, Built
<1>4. /\ StoredOutcomesComplete /\ ReplaysAreFaithful /\ AnnouncedHandoffsQueued
  BY DEF Init, StoredOutcomesComplete, ReplaysAreFaithful,
         AnnouncedHandoffsQueued
<1>. QED
  BY <1>1, <1>2, <1>3, <1>4 DEF IInv

\* The steps before the decision leave responses and rows alone.
LEMMA InvPrepare ==
    ASSUME IInv, TypeOK', NEW c \in Calls,
           \/ Arrive(c) \/ Miss(c) \/ Retrieve(c)
           \/ ResolveCanary(c) \/ PersistShadow(c)
    PROVE  IInv'
<1>1. /\ UNCHANGED <<request, response, answer, stored, handoffs, workflows, events>>
      /\ pc[c] \in Early \ {"policy"} /\ pc'[c] \in Early
      /\ \A d \in Calls \ {c} :
            /\ pc'[d] = pc[d] /\ evidence'[d] = evidence[d]
            /\ scored'[d] = scored[d] /\ variant'[d] = variant[d]
            /\ d \in shadows' <=> d \in shadows
      /\ pc'[c] # "policy" => (c \in shadows' <=> c \in shadows)
      /\ evidence'[c] \cap Tainted = {}
  <2>. USE DEF IInv, TypeOK, Goto, database, external, Steps, Early, Untainted
  <2>1. CASE Arrive(c)
    BY <2>1 DEF Arrive
  <2>2. CASE Miss(c)
    BY <2>2 DEF Miss
  <2>3. CASE Retrieve(c)
    BY <2>3 DEF Retrieve
  <2>4. CASE ResolveCanary(c)
    BY <2>4 DEF ResolveCanary
  <2>5. CASE PersistShadow(c)
    BY <2>5 DEF PersistShadow
  <2>. QED  BY <2>1, <2>2, <2>3, <2>4, <2>5
<1>2. response[c] = NoResponse /\ answer[c] = NoCall
  BY <1>1 DEF IInv, PhaseInv, Early
<1>3. PhaseInv'
  <2>. SUFFICES ASSUME NEW d \in Calls
                PROVE  PhaseInv!(d)'
    BY DEF PhaseInv
  <2>. QED  BY <1>1, <1>2 DEF IInv, PhaseInv, Early, Late, Built
<1>4. Untainted'
  BY <1>1 DEF IInv, Untainted
<1>5. AutoResponsesJustified'
  BY <1>1, <1>2 DEF IInv, AutoResponsesJustified, NoResponse
<1>6. OutcomesConsistent'
  BY <1>1 DEF IInv, OutcomesConsistent, Built
<1>7. StoredOutcomesComplete'
  BY <1>1 DEF IInv, StoredOutcomesComplete, Built
<1>8. ReplaysAreFaithful'
  BY <1>1, <1>2 DEF IInv, ReplaysAreFaithful, Built
<1>9. "persist" \notin Faults => AnnouncedHandoffsQueued'
  BY <1>1 DEF IInv, AnnouncedHandoffsQueued
<1>. QED
  BY <1>3, <1>4, <1>5, <1>6, <1>7, <1>8, <1>9 DEF IInv

\* The decision: a call without rows or answer gets its response.
LEMMA InvDecide ==
    ASSUME IInv, TypeOK', NEW c \in Calls, Decide(c)
    PROVE  IInv'
<1>. USE DEF Goto, database, external
<1>1. PICK src \in Sources :
         \E r \in Outcomes(c, src) :
            /\ response' = [response EXCEPT ![c] = r]
            /\ Goto(c, IF r.handoff THEN "workflow" ELSE "persist")
  BY DEF Decide
<1>2. PICK r \in Outcomes(c, src) :
         /\ response' = [response EXCEPT ![c] = r]
         /\ Goto(c, IF r.handoff THEN "workflow" ELSE "persist")
  BY <1>1
<1>3. /\ r \in Response /\ r.source = src
      /\ \/ /\ r.draft = TRUE /\ r.handoff = FALSE
            /\ r.policy.allow = TRUE /\ r.decision = "recommend"
            /\ evidence[c] # {}
            /\ Justified(request[c], scored[c][variant[c]],
                         ThresholdOf(request[c], src))
         \/ /\ r.draft = FALSE /\ r.handoff = TRUE
            /\ r.policy.allow = FALSE /\ r.decision # "recommend"
  BY OutcomesSound DEF IInv
<1>4. r # NoResponse
  BY <1>3 DEF NoResponse
<1>5. /\ UNCHANGED <<request, evidence, scored, variant, answer, stored,
                    handoffs, shadows, workflows, events>>
      /\ pc[c] = "policy" /\ response'[c] = r
      /\ pc'[c] = IF r.handoff THEN "workflow" ELSE "persist"
      /\ \A d \in Calls \ {c} : pc'[d] = pc[d] /\ response'[d] = response[d]
  BY <1>2 DEF Decide, IInv, TypeOK
<1>6. /\ response[c] = NoResponse /\ answer[c] = NoCall
      /\ \A i \in Ids : stored[i] # c
  BY <1>5 DEF IInv, PhaseInv, Early
<1>7. PhaseInv'
  <2>. SUFFICES ASSUME NEW d \in Calls
                PROVE  PhaseInv!(d)'
    BY DEF PhaseInv
  <2>. QED  BY <1>3, <1>4, <1>5, <1>6 DEF IInv, PhaseInv, Early, Late, Built
<1>8. Untainted'
  BY <1>5 DEF IInv, Untainted
<1>9. AutoResponsesJustified'
  <2>. SUFFICES ASSUME NEW d \in Calls, response'[d].draft
                PROVE  AutoResponsesJustified!(d)!2'
    BY DEF AutoResponsesJustified
  <2>1. CASE d = c
    <3>. HIDE DEF Justified
    <3>1. src = "opa" \/ src = "local"
      BY DEF Sources
    <3>. QED
      BY <2>1, <1>3, <1>5, <1>8, <3>1 DEF Untainted, ThresholdOf
  <2>2. CASE d # c
    BY <2>2, <1>5 DEF IInv, AutoResponsesJustified
  <2>. QED  BY <2>1, <2>2
<1>10. OutcomesConsistent'
  BY <1>3, <1>5 DEF IInv, OutcomesConsistent, Built
<1>11. StoredOutcomesComplete'
  BY <1>4, <1>5, <1>6 DEF IInv, StoredOutcomesComplete, Built, TypeOK
<1>12. ReplaysAreFaithful'
  BY <1>4, <1>5, <1>6 DEF IInv, ReplaysAreFaithful, Built, TypeOK
<1>13. "persist" \notin Faults => AnnouncedHandoffsQueued'
  BY <1>5 DEF IInv, AnnouncedHandoffsQueued
<1>. QED
  BY <1>7, <1>8, <1>9, <1>10, <1>11, <1>12, <1>13 DEF IInv

\* A replay copies the answer of the call whose rows match.
LEMMA InvReplay ==
    ASSUME IInv, TypeOK', NEW c \in Calls, Replay(c)
    PROVE  IInv'
<1>. DEFINE s == stored[request[c].id]
<1>1. /\ s \in Calls /\ Built(s) /\ request[s] = request[c]
      /\ s = stored[request[c].id] /\ request[c].id \in Ids
  BY DEF Replay, Matches, IInv, TypeOK, StoredOutcomesComplete, Ids
<1>2. /\ UNCHANGED <<request, evidence, scored, variant, response, stored,
                    handoffs, shadows, workflows, events>>
      /\ pc[c] = "fetch" /\ pc'[c] = "done" /\ answer'[c] = s
      /\ \A d \in Calls \ {c} : pc'[d] = pc[d] /\ answer'[d] = answer[d]
  BY DEF Replay, Goto, database, external, IInv, TypeOK
<1>3. /\ response[c] = NoResponse
      /\ c \notin handoffs /\ c \notin workflows /\ c \notin shadows
      /\ \A e \in events : e.call # c
      /\ \A i \in Ids : stored[i] # c
  BY <1>2 DEF IInv, PhaseInv, Early
<1>. HIDE DEF s
<1>4. PhaseInv'
  <2>. SUFFICES ASSUME NEW d \in Calls
                PROVE  PhaseInv!(d)'
    BY DEF PhaseInv
  <2>. QED  BY <1>2 DEF IInv, PhaseInv, Early, Late, Built
<1>5. /\ Untainted' /\ AutoResponsesJustified' /\ OutcomesConsistent'
      /\ StoredOutcomesComplete'
      /\ "persist" \notin Faults => AnnouncedHandoffsQueued'
  BY <1>2 DEF IInv, Untainted, AutoResponsesJustified, OutcomesConsistent,
              StoredOutcomesComplete, AnnouncedHandoffsQueued, Built
<1>6. ReplaysAreFaithful'
  BY <1>1, <1>2, <1>3 DEF IInv, ReplaysAreFaithful, Built
<1>. QED
  BY <1>4, <1>5, <1>6 DEF IInv

\* The transaction writes the rows of its call together.
LEMMA InvPersist ==
    ASSUME IInv, TypeOK', NEW c \in Calls, Persist(c)
    PROVE  IInv'
<1>1. /\ UNCHANGED <<request, evidence, scored, variant, response, answer,
                    shadows, workflows, events>>
      /\ pc[c] = "persist" /\ pc'[c] = "completed"
      /\ \A d \in Calls \ {c} : pc'[d] = pc[d]
      /\ \/ /\ stored' = [stored EXCEPT ![request[c].id] = c]
            /\ handoffs' = HandoffsAfter(c)
         \/ "persist" \in Faults /\ UNCHANGED <<stored, handoffs>>
  BY DEF Persist, Goto, database, external, IInv, TypeOK
<1>2. /\ Built(c) /\ answer[c] = NoCall /\ c \notin handoffs
      /\ \A i \in Ids : stored[i] # c
      /\ \A e \in events : e.call # c
      /\ request[c].id \in Ids /\ stored \in [Ids -> Calls \cup {NoCall}]
      /\ c # NoCall
  BY <1>1, OrchestratorAssumption DEF IInv, PhaseInv, Late, TypeOK, Ids
<1>3. /\ \A d \in Calls \ {c} : d \in handoffs' <=> d \in handoffs
      /\ "persist" \notin Faults => (c \in handoffs' <=> response[c].handoff)
      /\ stored' # stored => (c \in handoffs' <=> response[c].handoff)
  BY <1>1, <1>2 DEF HandoffsAfter
<1>4. PhaseInv'
  <2>. SUFFICES ASSUME NEW d \in Calls
                PROVE  PhaseInv!(d)'
    BY DEF PhaseInv
  <2>1. CASE d = c
    BY <2>1, <1>1, <1>2, <1>3 DEF IInv, PhaseInv, Early, Late, Built
  <2>2. CASE d # c
    <3>1. \A i \in Ids : stored'[i] = d => stored[i] = d
      BY <2>2, <1>1, <1>2
    <3>. QED
      BY <2>2, <3>1, <1>1, <1>2, <1>3 DEF IInv, PhaseInv, Early, Late, Built
  <2>. QED  BY <2>1, <2>2
<1>5. /\ Untainted' /\ AutoResponsesJustified' /\ OutcomesConsistent'
  BY <1>1 DEF IInv, Untainted, AutoResponsesJustified, OutcomesConsistent, Built
<1>6. StoredOutcomesComplete'
  <2>. SUFFICES ASSUME NEW i \in Ids, stored'[i] # NoCall
                PROVE  StoredOutcomesComplete!(i)!2'
    BY DEF StoredOutcomesComplete
  <2>1. CASE stored'[i] = stored[i]
    <3>1. stored[i] \in Calls \ {c}
      BY <2>1, <1>2
    <3>. QED
      BY <2>1, <3>1, <1>1, <1>3 DEF IInv, StoredOutcomesComplete, Built
  <2>2. CASE stored'[i] # stored[i]
    <3>1. /\ i = request[c].id /\ stored'[i] = c
          /\ c \in handoffs' <=> response[c].handoff
      BY <2>2, <1>1, <1>2, <1>3
    <3>2. response[c].handoff \in BOOLEAN
      BY DEF IInv, TypeOK, Response
    <3>. QED
      BY <3>1, <3>2, <1>1, <1>2 DEF Built
  <2>. QED  BY <2>1, <2>2
<1>7. ReplaysAreFaithful'
  BY <1>1, <1>2, <1>3 DEF IInv, ReplaysAreFaithful, Built
<1>8. "persist" \notin Faults => AnnouncedHandoffsQueued'
  BY <1>1, <1>2, <1>3 DEF IInv, AnnouncedHandoffsQueued, TypeOK
<1>. QED
  BY <1>4, <1>5, <1>6, <1>7, <1>8 DEF IInv

\* The workflow and the event bus are told of what was decided before.
LEMMA InvNotify ==
    ASSUME IInv, TypeOK', NEW c \in Calls,
           StartWorkflow(c) \/ PublishCompleted(c) \/ PublishCreated(c)
    PROVE  IInv'
<1>1. /\ UNCHANGED <<request, evidence, scored, variant, response, stored,
                    handoffs, shadows>>
      /\ pc[c] \in {"workflow", "completed", "created"}
      /\ \A d \in Calls \ {c} :
            /\ pc'[d] = pc[d] /\ answer'[d] = answer[d]
            /\ d \in workflows' <=> d \in workflows
      /\ \A e \in events' : e \in events \/ e.call = c
      /\ \/ /\ pc[c] = "workflow" /\ pc'[c] = "persist"
            /\ answer'[c] = answer[c] /\ UNCHANGED events
         \/ /\ pc[c] = "completed" /\ pc'[c] = "created" /\ response[c].handoff
            /\ answer'[c] = answer[c]
            /\ \A e \in events' : e \in events \/ e.type = "completed"
         \/ /\ pc[c] = "completed" /\ pc'[c] = "done" /\ answer'[c] = c
            /\ \A e \in events' : e \in events \/ e.type = "completed"
         \/ pc[c] = "created" /\ pc'[c] = "done" /\ answer'[c] = c
  <2>. USE DEF IInv, TypeOK, Goto, Return, Publish, database, external
  <2>1. CASE StartWorkflow(c)
    BY <2>1 DEF StartWorkflow
  <2>2. CASE PublishCompleted(c)
    BY <2>2 DEF PublishCompleted
  <2>3. CASE PublishCreated(c)
    BY <2>3 DEF PublishCreated
  <2>. QED  BY <2>1, <2>2, <2>3
<1>2. /\ Built(c) /\ answer[c] = NoCall
      /\ pc[c] \in {"workflow", "created"} => response[c].handoff
      /\ "persist" \notin Faults /\ response[c].handoff
            /\ pc[c] \in {"completed", "created"} => c \in handoffs
  BY <1>1 DEF IInv, PhaseInv, Late
<1>3. PhaseInv'
  <2>. SUFFICES ASSUME NEW d \in Calls
                PROVE  PhaseInv!(d)'
    BY DEF PhaseInv
  <2>1. CASE d = c
    BY <2>1, <1>1, <1>2 DEF IInv, PhaseInv, Early, Late, Built
  <2>2. CASE d # c
    BY <2>2, <1>1 DEF IInv, PhaseInv, Early, Late, Built
  <2>. QED  BY <2>1, <2>2
<1>4. /\ Untainted' /\ AutoResponsesJustified' /\ OutcomesConsistent'
      /\ StoredOutcomesComplete'
  BY <1>1 DEF IInv, Untainted, AutoResponsesJustified, OutcomesConsistent,
              StoredOutcomesComplete, Built
<1>5. ReplaysAreFaithful'
  BY <1>1, <1>2 DEF IInv, ReplaysAreFaithful, Built
<1>6. "persist" \notin Faults => AnnouncedHandoffsQueued'
  <2>. SUFFICES ASSUME "persist" \notin Faults,
                       NEW e \in events', e.type = "created"
                PROVE  e.call \in handoffs
    BY <1>1 DEF AnnouncedHandoffsQueued
  <2>1. CASE e \in events
    BY <2>1 DEF IInv, AnnouncedHandoffsQueued
  <2>2. CASE e \notin events
    BY <2>2, <1>1, <1>2
  <2>. QED  BY <2>1, <2>2
<1>. QED
  BY <1>3, <1>4, <1>5, <1>6 DEF IInv

\* A crash forgets where calls were, and nothing that was written.
LEMMA InvCrash ==
    ASSUME IInv, TypeOK', Crash
    PROVE  IInv'
<1>1. /\ UNCHANGED <<request, evidence, scored, variant, response, answer,
                    stored, handoffs, shadows, workflows, events>>
      /\ \A d \in Calls : \/ pc'[d] = pc[d]
                          \/ pc[d] \in Steps /\ pc'[d] = "lost"
  BY DEF Crash, InFlight, database, external
<1>2. PhaseInv'
  <2>. SUFFICES ASSUME NEW d \in Calls
                PROVE  PhaseInv!(d)'
    BY DEF PhaseInv
  <2>. QED  BY <1>1 DEF IInv, PhaseInv, Early, Late, Built, Steps
<1>3. /\ Untainted' /\ AutoResponsesJustified' /\ OutcomesConsistent'
      /\ StoredOutcomesComplete' /\ ReplaysAreFaithful'
      /\ "persist" \notin Faults => AnnouncedHandoffsQueued'
  BY <1>1 DEF IInv, Untainted, AutoResponsesJustified, OutcomesConsistent,
              StoredOutcomesComplete, ReplaysAreFaithful,
              AnnouncedHandoffsQueued, Built
<1>. QED
  BY <1>2, <1>3 DEF IInv

LEMMA InvStutter ==
    ASSUME IInv, UNCHANGED vars
    PROVE  IInv'
  BY DEF vars, IInv, TypeOK, PhaseInv, Untainted, AutoResponsesJustified,
         OutcomesConsistent, StoredOutcomesComplete, ReplaysAreFaithful,
         AnnouncedHandoffsQueued, Built

\* The inductive invariant holds of every behaviour.
THEOREM InvariantHolds == Spec => []IInv
<1>1. IInv /\ TypeOK' /\ [Next]_vars => IInv'
  BY InvPrepare, InvReplay, InvDecide, InvPersist, InvNotify, InvCrash,
     InvStutter DEF Next, CallStep
<1>. QED
  BY <1>1, InvInit, TypeCorrect, PTL DEF Spec

\* A draft is only ever sent on untainted evidence and on numbers that clear
\* the policy and the guardrail, for any predictions and thresholds.
THEOREM DraftsJustified == Spec => []AutoResponsesJustified
  BY InvariantHolds, PTL DEF IInv

\* Draft or handoff, never both or neither, on every path through decide().
THEOREM Consistent == Spec => []OutcomesConsistent
  BY InvariantHolds, PTL DEF IInv

\* Rows of a request id and queue agree, whatever fails, races or crashes.
THEOREM StoredComplete == Spec => []StoredOutcomesComplete
  BY InvariantHolds, PTL DEF IInv

\* A replay answers the same request and does nothing else.
THEOREM ReplaysFaithful == Spec => []ReplaysAreFaithful
  BY InvariantHolds, PTL DEF IInv

\* With a database that does not fail, announced handoffs are in the queue.
THEOREM AnnouncedQueued ==
    Spec => []("persist" \notin Faults => AnnouncedHandoffsQueued)
  BY InvariantHolds, PTL DEF IInv
=============================================================================
