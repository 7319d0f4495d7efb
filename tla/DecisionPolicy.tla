--------------------------- MODULE DecisionPolicy ---------------------------
(***************************************************************************)
(* The pure part of a decision: how the raw scores of a routing model and  *)
(* the evidence become a confidence, what the policy says of it (the local *)
(* rules of app/services/policy.py or the Rego rules of                    *)
(* policy/decision.rego), and when a model guardrail overrides the policy. *)
(*                                                                         *)
(* Probabilities are integers in hundredths, confidences integers in       *)
(* ten-thousandths, the precision the code rounds them to.                 *)
(***************************************************************************)
EXTENDS Integers

CONSTANTS
    BaseThreshold,          \* settings.base_confidence_threshold (6500)
    HighRiskBump,           \* added for risk_level = high. In floating point
                            \* 0.65 + 0.05 is above 0.70, so a confidence of
                            \* exactly 0.7000 is rejected: the bump is 501.
    MaxAutoEscalation,      \* settings.max_auto_escalation_prob (55)
    AbstainEscalation,      \* an abstention above it becomes an escalation (80)
    LowerBound, UpperBound, \* the confidence band of the guardrail (500, 9800)
    ForceHandoffOnFallback  \* model_guardrail_force_handoff_on_fallback

ASSUME PolicyAssumption ==
    /\ BaseThreshold \in Nat /\ HighRiskBump \in Nat
    /\ MaxAutoEscalation \in Nat /\ AbstainEscalation \in Nat
    /\ LowerBound \in Nat /\ UpperBound \in Nat
    /\ LowerBound < UpperBound
    /\ ForceHandoffOnFallback \in BOOLEAN

Percent == 0..100
Decisions == {"recommend", "abstain", "escalate"}
Reasons == {"policy_high_risk", "low_confidence", "high_escalation_risk",
            "model_backend_fallback", "confidence_out_of_band",
            "generation_no_evidence", "generation_backend_unavailable"}

\* What a routing model returns for a request, before the evidence is
\* weighed in: top route probability, escalation probability, out-of-
\* distribution and contradiction scores, and whether the heuristic fallback
\* engine produced it.
Prediction == [route : Percent, esc : Percent, ood : Percent,
               contra : Percent, fallback : BOOLEAN]

\* What the decision keeps of a prediction.
Scored == [conf : Int, esc : Percent, fallback : BOOLEAN]

PolicyResult == [allow : BOOLEAN, decision : Decisions,
                 reasons : SUBSET Reasons]

Clamp(x) == IF x < 0 THEN 0 ELSE IF x > 10000 THEN 10000 ELSE x

\* compute_final_confidence
FinalConfidence(route, evidence, esc, ood, contra) ==
    Clamp(45 * route + 25 * evidence + 20 * (100 - esc) - 7 * ood - 3 * contra)

\* _build_confidence on the scores of predict_with_metadata: an empty evidence
\* pack scores 0 and fixes the out-of-distribution and contradiction scores.
Score(p, hasEvidence, evidenceScore) ==
    [conf |-> IF hasEvidence
              THEN FinalConfidence(p.route, evidenceScore, p.esc, p.ood, p.contra)
              ELSE FinalConfidence(p.route, 0, p.esc, 95, 30),
     esc |-> p.esc,
     fallback |-> p.fallback]

-----------------------------------------------------------------------------
Denied(decision, reason) ==
    [allow |-> FALSE, decision |-> decision, reasons |-> {reason}]

Allowed == [allow |-> TRUE, decision |-> "recommend", reasons |-> {}]

\* The rules shared by the local policy and the Rego module, in their order.
Rules(req, s, threshold) ==
    CASE req.riskTerm -> Denied("escalate", "policy_high_risk")
      [] ~req.riskTerm /\ s.conf < threshold -> Denied("abstain", "low_confidence")
      [] ~req.riskTerm /\ s.conf >= threshold /\ s.esc >= MaxAutoEscalation ->
            Denied("abstain", "high_escalation_risk")
      [] OTHER -> Allowed

\* The local policy asks more of a high-risk request ...
Threshold(req) == BaseThreshold + (IF req.highRisk THEN HighRiskBump ELSE 0)

EvaluateLocal(req, s) == Rules(req, s, Threshold(req))

\* ... which the OPA input does not carry.
EvaluateOpa(req, s) == Rules(req, s, BaseThreshold)

\* _guardrail_reasons
GuardrailReasons(s) ==
    {r \in {"model_backend_fallback", "confidence_out_of_band"} :
        \/ r = "model_backend_fallback" /\ ForceHandoffOnFallback /\ s.fallback
        \/ r = "confidence_out_of_band"
           /\ (s.conf < LowerBound \/ s.conf > UpperBound)}

\* The policy result after the guardrail.
Guarded(result, s) ==
    IF GuardrailReasons(s) = {}
    THEN result
    ELSE [allow |-> FALSE, decision |-> "escalate",
          reasons |-> result.reasons \cup GuardrailReasons(s)]

\* An automatic answer is justified by the numbers of the model that was used.
Justified(req, s, threshold) ==
    /\ ~req.riskTerm
    /\ s.conf >= threshold
    /\ s.esc < MaxAutoEscalation
    /\ LowerBound <= s.conf /\ s.conf <= UpperBound
    /\ ForceHandoffOnFallback => ~s.fallback
=============================================================================
