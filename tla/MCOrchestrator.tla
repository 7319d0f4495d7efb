--------------------------- MODULE MCOrchestrator ---------------------------
(* Small instances of the orchestrator for TLC. *)
EXTENDS Orchestrator, TLC

CONSTANTS c1, c2, c3, clean, tainted

TwoCalls == {c1, c2}
ThreeCalls == {c1, c2, c3}
CallSymmetry == Permutations(Calls)

Req(id, high, term) ==
    [id |-> id, tenant |-> "acme", text |-> IF term THEN 1 ELSE 0,
     highRisk |-> high, riskTerm |-> term]

Plain == Req(1, FALSE, FALSE)

OneRequest == {Plain}
\* Two requests that share their id and differ in risk level.
SameId == {Plain, Req(1, TRUE, FALSE)}
\* A third one is escalated for what it says.
Varied == SameId \cup {Req(2, FALSE, TRUE)}

Packs == {clean, tainted}
TaintedChunks == {tainted}

P(route, esc, fb) == [route |-> route, esc |-> esc, ood |-> 10, contra |-> 3,
                      fallback |-> fb]

\* With an evidence score of 80 the confidences are 7991 (allowed), 6821
\* (allowed by OPA, and by the local rules unless the risk is high), 5771
\* (abstain, which its escalation probability turns into an escalation), and
\* 7991 from the fallback engine (overridden). Without evidence all are below
\* the threshold.
GoodPrediction == {P(100, 28, FALSE)}
BadPrediction == {P(40, 90, FALSE)}
OneOfEach == GoodPrediction \cup BadPrediction
PrimaryPredictions == {P(74, 28, FALSE), P(100, 28, TRUE)}

Score80 == {80}
Buckets == [k \in {"acme"} \X {1, 2} |-> IF k[2] = 1 THEN 20 ELSE 70]
NoCanary == {0}
SomeCanary == {0, 25}
DurabilityFaults == {"fetch", "persist", "lostack"}
LiveFaults == {"fetch", "opa", "backend", "shadow", "workflow"}
NoFaults == {}
=============================================================================
