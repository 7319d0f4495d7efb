-------------------------- MODULE BusinessScorecard --------------------------
(***************************************************************************)
(* scripts/compute_business_scorecard.py: ten KPIs of one model variant    *)
(* over a window of days, against a baseline window and the targets of     *)
(* migration 0007. A KPI is a fraction <<numerator, denominator>>; a       *)
(* denominator of 0 is the SQL NULL. Confidences and targets are percents, *)
(* handling times whole seconds. The operators read a function from days   *)
(* to what the tables hold of them, for one tenant and section.            *)
(***************************************************************************)
EXTENDS Integers, Sequences, FiniteSets, SequencesExt

\* A labelled answer: a row of evaluation_daily_dataset with ground truth.
\* A route nobody judged is "unknown", a time nobody measured is Unmeasured.
Unmeasured == -1
Labelled == [pred : BOOLEAN, actual : BOOLEAN, correct : {"yes", "no", "unknown"},
             confidence : 0..100, seconds : Nat \cup {Unmeasured}]

\* A row of ops_workload_daily: the counts of one tenant on one day.
Workload == [tenant : STRING, eligible : Nat, agents : Nat]

-----------------------------------------------------------------------------
\* The rows of the labelled answers of the days D, by day and position.
Rows(day, D) == UNION {{<<d, i>> : i \in 1..Len(day[d].rows)} : d \in D}
RowOf(day, x) == day[x[1]].rows[x[2]]
CountRows(day, D, P(_)) == Cardinality({x \in Rows(day, D) : P(RowOf(day, x))})

Null == <<0, 0>>
Ratio(n, d) == IF d = 0 THEN Null ELSE <<n, d>>

Eligible(day, D) ==
    MapThenSumSet(LAMBDA d : MapThenSumSet(LAMBDA w : w.eligible, day[d].workload), D)
Assisted(day, D) == MapThenSumSet(LAMBDA d : day[d].assisted, D)

\* current_assist over eligible_total
AssistedCoverage(day, D) == Ratio(Assisted(day, D), Eligible(day, D))

\* wau_start: the days of the window that are among its last seven.
WeekOf(D, week) == {d \in D : d > Max(D) - week}

\* active_reviewers over active_agents: the agents are the largest count of a
\* row, not the sum over the tenants of a day.
WeeklyActiveUsage(day, D, week) ==
    LET W == WeekOf(D, week)
        agents == UNION {{w.agents : w \in day[d].workload} : d \in W}
    IN  Ratio(Cardinality(UNION {day[d].reviewers : d \in W}), Max(agents \cup {0}))

\* closed_handoffs_with_outcome over closed_handoffs
FeedbackCompleteness(day, D) ==
    Ratio(MapThenSumSet(LAMBDA d : day[d].outcomes, D),
          MapThenSumSet(LAMBDA d : day[d].closed, D))

RouteAccuracy(day, D) ==
    Ratio(CountRows(day, D, LAMBDA r : r.correct = "yes"),
          CountRows(day, D, LAMBDA r : r.correct # "unknown"))

TruePositives(day, D) == CountRows(day, D, LAMBDA r : r.pred /\ r.actual)
EscalationPrecision(day, D) ==
    Ratio(TruePositives(day, D), CountRows(day, D, LAMBDA r : r.pred))
EscalationRecall(day, D) ==
    Ratio(TruePositives(day, D), CountRows(day, D, LAMBDA r : r.actual))

\* ece_bins: ten bins of the confidence, and one for a confidence of 1. The
\* weighted gap of a bin is the difference of its sums.
Gap(day, X) ==
    LET right == 100 * Cardinality({x \in X : RowOf(day, x).correct = "yes"})
        sure == MapThenSumSet(LAMBDA x : RowOf(day, x).confidence, X)
    IN  IF right >= sure THEN right - sure ELSE sure - right
CalibrationError(day, D) ==
    LET judged == {x \in Rows(day, D) : RowOf(day, x).correct # "unknown"}
        bin(b) == {x \in judged : RowOf(day, x).confidence \div 10 = b}
    IN  Ratio(MapThenSumSet(LAMBDA b : Gap(day, bin(b)), 0..10), 100 * Cardinality(judged))

\* The reduction from one fraction to another; NULL when either is NULL or
\* the baseline is 0.
Reduction(base, current) ==
    IF base[1] = 0 \/ current[2] = 0 THEN Null
    ELSE <<base[1] * current[2] - current[1] * base[2], base[1] * current[2]>>

EscalationRate(day, D) ==
    Ratio(CountRows(day, D, LAMBDA r : r.pred), Cardinality(Rows(day, D)))

\* percentile_cont: the value at p tenths of the way through the sorted
\* times, interpolated between its two neighbours, over a denominator of 10.
Percentile(day, D, p) ==
    LET timed == {x \in Rows(day, D) : RowOf(day, x).seconds # Unmeasured}
        time(x) == RowOf(day, x).seconds
        s == SetToSortSeq(timed, LAMBDA x, y : time(x) < time(y))
        at == p * (Len(s) - 1)
        lo == at \div 10 + 1
        hi == IF at % 10 = 0 THEN lo ELSE lo + 1
    IN  IF s = <<>> THEN Null
        ELSE <<10 * time(s[lo]) + (at % 10) * (time(s[hi]) - time(s[lo])), 10>>

\* business_kpi_targets: the comparator and the target of each KPI, percents.
TARGETS ==
    [assisted_coverage_pct |-> <<"gte", 80>>,
     agent_weekly_active_usage_pct |-> <<"gte", 70>>,
     feedback_completeness_pct |-> <<"gte", 95>>,
     top1_route_accuracy_pct |-> <<"gte", 85>>,
     escalation_precision_pct |-> <<"gte", 80>>,
     escalation_recall_pct |-> <<"gte", 75>>,
     ece |-> <<"lte", 10>>,
     escalation_rate_reduction_pct |-> <<"gte", 20>>,
     median_handling_time_reduction_pct |-> <<"gte", 25>>,
     p90_handling_time_reduction_pct |-> <<"gte", 15>>]

\* The KPIs over the window D against the baseline window B.
KPIs(day, D, B, week) ==
    [assisted_coverage_pct |-> AssistedCoverage(day, D),
     agent_weekly_active_usage_pct |-> WeeklyActiveUsage(day, D, week),
     feedback_completeness_pct |-> FeedbackCompleteness(day, D),
     top1_route_accuracy_pct |-> RouteAccuracy(day, D),
     escalation_precision_pct |-> EscalationPrecision(day, D),
     escalation_recall_pct |-> EscalationRecall(day, D),
     ece |-> CalibrationError(day, D),
     escalation_rate_reduction_pct |->
        Reduction(EscalationRate(day, B), EscalationRate(day, D)),
     median_handling_time_reduction_pct |->
        Reduction(Percentile(day, B, 5), Percentile(day, D, 5)),
     p90_handling_time_reduction_pct |->
        Reduction(Percentile(day, B, 9), Percentile(day, D, 9))]

\* The status of a KPI: NULL is insufficient data, not a failure and no pass.
KpiStatus(target, actual) ==
    IF actual[2] = 0 THEN "insufficient_data"
    ELSE IF \/ target[1] = "gte" /\ 100 * actual[1] >= target[2] * actual[2]
            \/ target[1] = "lte" /\ 100 * actual[1] <= target[2] * actual[2]
         THEN "pass" ELSE "fail"

\* compute_business_scorecard: the status of every KPI.
Scorecard(day, D, B, week) ==
    [k \in DOMAIN TARGETS |-> KpiStatus(TARGETS[k], KPIs(day, D, B, week)[k])]
==============================================================================
