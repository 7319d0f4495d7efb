--------------------------- MODULE MCReleaseGates ---------------------------
(* A small calendar of the release gates for TLC: a baseline of one day, a *)
(* window of two.                                                          *)
EXTENDS ReleaseGates

CONSTANTS r1

OneRun == {r1}
NoLookups == {}
NoPods == {}
NoPodOf == [l \in {} |-> l]

W(samples, acc, rec, ece, abst) ==
    [samples |-> samples, route_accuracy |-> acc, escalation_recall |-> rec,
     ece |-> ece, abstain_rate |-> abst]
Good == W("enough", "within", "within", "within", "within")
Bad == W("enough", "below", "within", "within", "within")
SomeWindows == {Good, Bad, NoWindow}

ControlAges == [incident_endpoint_verification |-> 2, secret_rotation |-> 3]

L(pred, actual, correct, conf, secs) ==
    [pred |-> pred, actual |-> actual, correct |-> correct, confidence |-> conf,
     seconds |-> secs]

\* A day before the assistant helped: slow answers, many escalations.
Before == [canary |-> Good, drift |-> "quiet", slo |-> FALSE,
           workload |-> {[tenant |-> "a", eligible |-> 10, agents |-> 2]},
           assisted |-> 10,
           rows |-> <<L(TRUE, TRUE, "yes", 95, 100), L(TRUE, FALSE, "no", 40, 90)>>,
           reviewers |-> {"x", "y"}, closed |-> 1, outcomes |-> 1, labels |-> 1,
           controls |-> [t \in DOMAIN ControlAges |-> "pass"],
           calibration |-> [s \in CalibrationScopes |-> "enough"]]

\* A day on which it does.
Helped == [Before EXCEPT
           !.rows = <<L(FALSE, FALSE, "yes", 95, 50), L(TRUE, TRUE, "yes", 95, Unmeasured),
                      L(FALSE, FALSE, "unknown", 50, 60)>>,
           !.controls = [t \in DOMAIN ControlAges |-> "none"],
           !.calibration = [s \in CalibrationScopes |-> "none"]]

\* Days on which something is wrong.
Alarmed == [Before EXCEPT !.canary = Bad, !.drift = "alert", !.slo = TRUE]
Unfed == [Helped EXCEPT !.workload = {}, !.labels = 0]

\* Two days pass before the assistant helps.
SomeDays == <<{Before, Alarmed}, {Before, Helped, Alarmed},
              {Helped, Alarmed, Unfed}, {Helped, Unfed}, {}>>
=============================================================================
