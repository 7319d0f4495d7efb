------------------------- MODULE EvaluationPipeline -------------------------
(***************************************************************************)
(* The daily evaluation: scripts/build_daily_evaluation.py joins the       *)
(* predictions of a day with the latest ground truth into                  *)
(* evaluation_daily_dataset, compute_daily_metrics.py aggregates the day,  *)
(* compute_drift_metrics.py compares it with the days before, and          *)
(* run_model_ops_daily.py does the three in a row. Each is a READ          *)
(* COMMITTED transaction of two statements that take no lock on the day:   *)
(* a DELETE of the rows of the day that are there, and an INSERT ... ON    *)
(* CONFLICT DO UPDATE of the rows as they are by then.                     *)
(*                                                                         *)
(* Jobs interleave between the statements, also those of one day; requests *)
(* are answered meanwhile, and answered again, and ground truth comes in.  *)
(* Of two transactions that touch the same row the one that commits first  *)
(* here is the one that got the row; the other's wait for it is left out.  *)
(* The INSERT and the commit are one step.                                 *)
(***************************************************************************)
EXTENDS Integers, FiniteSets

CONSTANTS
    Requests,
    NoResult,          \* a request that was not answered yet
    LastDay,           \* bound on the calendar
    Routes,            \* resolution paths
    NoRoute,           \* a path that is null
    Predictions,       \* what a model may predict: [escalate, route]
    Truths,            \* what reviewers and customers may say: [escalate, route]
    NoTruth,           \* no reviewer outcome and no feedback yet
    NoMetrics,         \* no row of evaluation_daily_metrics
    MaxShadows,        \* bound on the shadow rows
    Jobs,              \* processes that run the scripts
    MaxJobs,           \* bound on the runs
    BaselineDays       \* settings.evaluation_baseline_days

Days == 1..LastDay
Variants == {"primary", "challenger"}
Buckets == {"shadow", "canary"}  \* traffic_bucket
Verdict == [escalate : BOOLEAN, route : Routes \cup {NoRoute}]
Result == [day : Days, variant : Variants, answer : Predictions]
MetricsRow == [size : Nat, labelled : Nat, right : Nat, predicted : Nat,
               actual : Nat, caught : Nat]

ASSUME EvaluationAssumption ==
    /\ IsFiniteSet(Requests)
    /\ LastDay \in Nat \ {0}
    /\ NoResult \notin Result /\ NoMetrics \notin MetricsRow
    /\ Predictions \subseteq Verdict
    /\ Truths \subseteq Verdict /\ NoTruth \notin Truths
    /\ MaxShadows \in Nat /\ MaxJobs \in Nat /\ BaselineDays \in Nat

VARIABLES
    today,
    result,     \* inference_requests joined with inference_results
    shadows,    \* model_shadow_predictions
    truth,      \* vw_latest_ground_truth
    dataset,    \* evaluation_daily_dataset, by day
    metrics,    \* evaluation_daily_metrics, by day and variant
    drift,      \* drift_daily_metrics, by day and metric
    job,        \* per job: the transaction that comes next, its date
    jobs,       \* number of runs so far
    txn,        \* per job: its open transaction
    evaluated,  \* history: days with a successful build after they were over
    fresh       \* history: per day, the tables recomputed since its last build,
                \* that build included, by a job that met no other's rows

traffic == <<result, shadows, truth>>
tables == <<dataset, metrics, drift>>
history == <<evaluated, fresh>>
vars == <<today, result, shadows, truth, dataset, metrics, drift, job, jobs, txn,
          evaluated, fresh>>

Idle == [step |-> "idle", day |-> 1]
NoPoints == [traffic |-> "none", outcome |-> "none"]

\* What a transaction has deleted, by key; the drift points it has read, and
\* "metrics" if these are of metrics that describe the dataset of this moment.
Closed == [open |-> FALSE, gone |-> {}, points |-> NoPoints, read |-> {}]

Init ==
    /\ today = 1
    /\ result = [r \in Requests |-> NoResult]
    /\ shadows = {}
    /\ truth = [r \in Requests |-> NoTruth]
    /\ dataset = [d \in Days |-> {}]
    /\ metrics = [d \in Days |-> [v \in Variants |-> NoMetrics]]
    /\ drift = [d \in Days |-> NoPoints]
    /\ job = [j \in Jobs |-> Idle]
    /\ jobs = 0
    /\ txn = [j \in Jobs |-> Closed]
    /\ evaluated = {}
    /\ fresh = [d \in Days |-> {}]

NextDay ==
    /\ today < LastDay
    /\ today' = today + 1
    /\ UNCHANGED <<job, jobs, txn>> /\ UNCHANGED traffic /\ UNCHANGED tables
    /\ UNCHANGED history

-----------------------------------------------------------------------------
\* created_at of a request: the upsert leaves it alone.
FirstDay(r) == IF result[r] = NoResult THEN today ELSE result[r].day

\* A call of decide() for a request: the shadow row, which is lost unless the
\* request row exists already, and the upsert of request and result.
Answer(r) ==
    /\ \E bucket \in Buckets, answer, other \in Predictions :
          /\ \/ /\ result[r] # NoResult
                /\ Cardinality(shadows) < MaxShadows
                /\ shadows' = shadows \cup
                      {[n |-> Cardinality(shadows), req |-> r, day |-> today,
                        bucket |-> bucket, answer |-> other]}
             \/ UNCHANGED shadows
          /\ result' = [result EXCEPT ![r] =
                [day |-> FirstDay(r),
                 variant |-> IF bucket = "canary" THEN "challenger" ELSE "primary",
                 answer |-> answer]]
    /\ UNCHANGED <<today, truth, job, jobs, txn>> /\ UNCHANGED tables
    /\ UNCHANGED history

\* A reviewer's or a customer's verdict on an answer.
Label(r) ==
    /\ result[r] # NoResult
    /\ \E g \in Truths : truth' = [truth EXCEPT ![r] = g]
    /\ UNCHANGED <<today, result, shadows, job, jobs, txn>> /\ UNCHANGED tables
    /\ UNCHANGED history

-----------------------------------------------------------------------------
\* vw_model_prediction_events: answers by the day of the request, shadow
\* predictions by their own day.
Events(d) ==
    {[n |-> 0, req |-> r, variant |-> result[r].variant, source |-> "inference",
      answer |-> result[r].answer] :
        r \in {q \in Requests : result[q] # NoResult /\ result[q].day = d}}
    \cup
    {[n |-> s.n, req |-> s.req, variant |-> "challenger", source |-> s.bucket,
      answer |-> s.answer] : s \in {t \in shadows : t.day = d}}

\* Two events under one key: INSERT ... ON CONFLICT DO UPDATE refuses to
\* touch a row twice, and the statement fails.
Collides(d) ==
    \E e, f \in Events(d) : e # f /\ e.req = f.req /\ e.variant = f.variant

\* A dataset row: the event and the ground truth of its request.
Row(e) == [req |-> e.req, variant |-> e.variant, source |-> e.source,
           answer |-> e.answer, truth |-> truth[e.req]]

Rows(d) == {Row(e) : e \in Events(d)}

\* is_escalation_actual: false, not null, without ground truth or decision.
Actual(x) == x.truth # NoTruth /\ x.truth.escalate

\* is_route_correct is not null.
Labelled(x) ==
    x.truth # NoTruth /\ NoRoute \notin {x.truth.route, x.answer.route}

RouteCorrect(x) == Labelled(x) /\ x.truth.route = x.answer.route

Key(x) == <<x.req, x.variant>>

\* Mutant: the day is built by upserts alone.
DatasetAfter_NoDelete(j) ==
    LET rows == Rows(job[j].day)
    IN  {x \in dataset[job[j].day] : Key(x) \notin {Key(y) : y \in rows}} \cup rows

\* The day after the DELETE and the INSERT of a build: its rows, and the rows
\* that another build has put there between the two, under other keys.
DatasetAfter(j) ==
    LET rows == Rows(job[j].day)
    IN  {x \in dataset[job[j].day] :
            Key(x) \notin txn[j].gone \cup {Key(y) : y \in rows}} \cup rows

\* The row counts a metrics row of a variant is computed from.
Summary(rows) ==
    [size |-> Cardinality(rows),
     labelled |-> Cardinality({x \in rows : Labelled(x)}),
     right |-> Cardinality({x \in rows : RouteCorrect(x)}),
     predicted |-> Cardinality({x \in rows : x.answer.escalate}),
     actual |-> Cardinality({x \in rows : Actual(x)}),
     caught |-> Cardinality({x \in rows : x.answer.escalate /\ Actual(x)})]

Summaries(d) ==
    [v \in Variants |->
        LET rows == {x \in dataset[d] : x.variant = v}
        IN  IF rows = {} THEN NoMetrics ELSE Summary(rows)]

\* Mutant: the metrics of a day are upserted alone.
MetricsAfter_NoDelete(j) ==
    LET d == job[j].day
    IN  [v \in Variants |->
            IF Summaries(d)[v] = NoMetrics THEN metrics[d][v] ELSE Summaries(d)[v]]

\* The metrics after DELETE and INSERT, with what another job has put between.
MetricsAfter(j) ==
    LET d == job[j].day
    IN  [v \in Variants |->
            IF Summaries(d)[v] = NoMetrics /\ <<"metrics", v>> \notin txn[j].gone
            THEN metrics[d][v] ELSE Summaries(d)[v]]

-----------------------------------------------------------------------------
\* route_accuracy of the primary is null on a day without labelled rows.
Judged(d) == metrics[d]["primary"] # NoMetrics /\ metrics[d]["primary"].labelled > 0

Baseline(d) == {b \in Days : b < d /\ d <= b + BaselineDays}

\* _fetch_points and the comparison with a threshold: none without a value of
\* the day, no delta without one of the baseline.
Point(current, baseline) ==
    IF ~current THEN {"none"}
    ELSE IF baseline THEN {"quiet", "alert"} ELSE {"quiet"}

OutcomePoint(d) == Point(Judged(d), \E b \in Baseline(d) : Judged(b))
TrafficPoint(d) == Point(dataset[d] # {}, \E b \in Baseline(d) : dataset[b] # {})

\* The rows drift upserts over what is left of the day.
DriftAfter(j) ==
    [m \in {"traffic", "outcome"} |->
        IF txn[j].points[m] = "none" /\ <<"drift", m>> \notin txn[j].gone
        THEN drift[job[j].day][m] ELSE txn[j].points[m]]

-----------------------------------------------------------------------------
\* A script is started by itself or the three in a row, for a date.
Start(j) ==
    /\ job[j] = Idle
    /\ jobs < MaxJobs
    /\ \E d \in 1..today, step \in {"build", "metrics", "drift"} :
          job' = [job EXCEPT ![j] = [step |-> step, day |-> d]]
    /\ jobs' = jobs + 1
    /\ UNCHANGED <<today, txn>> /\ UNCHANGED traffic /\ UNCHANGED tables
    /\ UNCHANGED history

\* The rows that stand in the table of the job's next transaction.
Present(j) ==
    LET d == job[j].day IN
    CASE job[j].step = "build" -> {Key(x) : x \in dataset[d]}
      [] job[j].step = "metrics" ->
            {<<"metrics", v>> : v \in {w \in Variants : metrics[d][w] # NoMetrics}}
      [] job[j].step = "drift" ->
            {<<"drift", m>> : m \in {n \in {"traffic", "outcome"} : drift[d][n] # "none"}}

\* A transaction deletes the rows of its day; drift has read its points before.
Delete(j) ==
    LET d == job[j].day IN
    /\ job[j].step # "idle" /\ ~txn[j].open
    /\ IF job[j].step = "drift"
       THEN \E t \in TrafficPoint(d), o \in OutcomePoint(d) :
               txn' = [txn EXCEPT ![j] =
                  [open |-> TRUE, gone |-> Present(j),
                   points |-> [traffic |-> t, outcome |-> o],
                   read |-> fresh[d] \cap {"metrics"}]]
       ELSE txn' = [txn EXCEPT ![j] = [open |-> TRUE, gone |-> Present(j),
                                       points |-> NoPoints, read |-> {}]]
    /\ UNCHANGED <<today, job, jobs>> /\ UNCHANGED traffic /\ UNCHANGED tables
    /\ UNCHANGED history

\* No other job has put rows on the day since the DELETE of this one.
Alone(j) == Present(j) \subseteq txn[j].gone

\* The commit ends the transaction of j. What it deleted is no more the other
\* transactions' to delete, and after a build what drift has read is outdated.
Committed(j) ==
    txn' = [k \in Jobs |->
        IF k = j THEN Closed
        ELSE IF job[k].day = job[j].day
        THEN [open |-> txn[k].open, gone |-> txn[k].gone \ txn[j].gone,
              points |-> txn[k].points,
              read |-> IF job[j].step = "build" THEN {} ELSE txn[k].read]
        ELSE txn[k]]

\* After a transaction the pipeline goes on; a script by itself ends, and so
\* does a pipeline that dies.
Continue(j, step) ==
    job' \in {[job EXCEPT ![j] = [@ EXCEPT !.step = step]], [job EXCEPT ![j] = Idle]}

BuildDailyDataset(j) ==
    LET d == job[j].day IN
    /\ job[j].step = "build" /\ txn[j].open
    /\ ~Collides(d)
    /\ dataset' = [dataset EXCEPT ![d] = DatasetAfter(j)]
    /\ Continue(j, "metrics") /\ Committed(j)
    /\ evaluated' = IF d < today THEN evaluated \cup {d} ELSE evaluated
    /\ fresh' = [fresh EXCEPT ![d] = IF Alone(j) THEN {"dataset"} ELSE {}]
    /\ UNCHANGED <<today, metrics, drift, jobs>> /\ UNCHANGED traffic

\* Mutant: rows are deleted in a transaction of their own.
Fail_DeletesDay(j) ==
    /\ job[j] # Idle
    /\ dataset' = IF job[j].step = "build" THEN [dataset EXCEPT ![job[j].day] = {}]
                                           ELSE dataset
    /\ job' = [job EXCEPT ![j] = Idle]
    /\ txn' = [txn EXCEPT ![j] = Closed]
    /\ UNCHANGED <<today, metrics, drift, jobs>> /\ UNCHANGED traffic
    /\ UNCHANGED history

\* A statement fails (a build must when its day collides) or the process
\* dies: the transaction is rolled back, the rest of the run does not happen.
Fail(j) ==
    /\ job[j] # Idle
    /\ job' = [job EXCEPT ![j] = Idle]
    /\ txn' = [txn EXCEPT ![j] = Closed]
    /\ UNCHANGED <<today, jobs>> /\ UNCHANGED traffic /\ UNCHANGED tables
    /\ UNCHANGED history

ComputeDailyMetrics(j) ==
    LET d == job[j].day IN
    /\ job[j].step = "metrics" /\ txn[j].open
    /\ metrics' = [metrics EXCEPT ![d] = MetricsAfter(j)]
    /\ Continue(j, "drift") /\ Committed(j)
    /\ fresh' = [fresh EXCEPT ![d] = (@ \ {"metrics"}) \cup
                                     (IF Alone(j) THEN {"metrics"} ELSE {})]
    /\ UNCHANGED <<today, dataset, drift, jobs, evaluated>> /\ UNCHANGED traffic

ComputeDriftMetrics(j) ==
    LET d == job[j].day IN
    /\ job[j].step = "drift" /\ txn[j].open
    /\ drift' = [drift EXCEPT ![d] = DriftAfter(j)]
    /\ job' = [job EXCEPT ![j] = Idle] /\ Committed(j)
    /\ fresh' = [fresh EXCEPT ![d] =
          (@ \ {"drift"}) \cup
          (IF Alone(j) /\ "metrics" \in txn[j].read THEN {"drift"} ELSE {})]
    /\ UNCHANGED <<today, dataset, metrics, jobs, evaluated>> /\ UNCHANGED traffic

Next ==
    \/ NextDay
    \/ \E r \in Requests : Answer(r) \/ Label(r)
    \/ \E j \in Jobs : \/ Start(j) \/ Delete(j) \/ Fail(j) \/ BuildDailyDataset(j)
                       \/ ComputeDailyMetrics(j) \/ ComputeDriftMetrics(j)

Spec == Init /\ [][Next]_vars
-----------------------------------------------------------------------------
Points == {"none", "quiet", "alert"}
Keys == (Requests \X Variants) \cup ({"metrics"} \X Variants)
        \cup ({"drift"} \X {"traffic", "outcome"})
DatasetRow == [req : Requests, variant : Variants, source : Buckets \cup {"inference"},
               answer : Predictions, truth : Truths \cup {NoTruth}]

\* Every variable holds values of its type.
TypeOK ==
    /\ today \in Days
    /\ result \in [Requests -> Result \cup {NoResult}]
    /\ shadows \subseteq [n : Nat, req : Requests, day : Days, bucket : Buckets,
                          answer : Predictions]
    /\ truth \in [Requests -> Truths \cup {NoTruth}]
    /\ dataset \in [Days -> SUBSET DatasetRow]
    /\ metrics \in [Days -> [Variants -> MetricsRow \cup {NoMetrics}]]
    /\ drift \in [Days -> [traffic : Points, outcome : Points]]
    /\ job \in [Jobs -> [step : {"idle", "build", "metrics", "drift"}, day : Days]]
    /\ jobs \in 0..MaxJobs
    /\ txn \in [Jobs -> [open : BOOLEAN, gone : SUBSET Keys,
                         points : [traffic : Points, outcome : Points],
                         read : SUBSET {"metrics"}]]
    /\ evaluated \subseteq Days
    /\ fresh \in [Days -> SUBSET {"dataset", "metrics", "drift"}]

\* A day that was built successfully when it was over holds every request
\* answered on it from then on: whatever is answered again, rebuilt, collides
\* or dies later.
DaysEvaluated ==
    \A r \in Requests :
        (result[r] # NoResult /\ result[r].day \in evaluated)
            => \E x \in dataset[result[r].day] : x.req = r /\ x.source = "inference"

\* The answer to a request is evaluated on one day only, and once, not under
\* both variants, however often it was answered and its day rebuilt, unless
\* another build of the day committed between the two statements of its last
\* build: no metric and no calibration counts it twice.
AnswersCountOnce ==
    \A d, e \in Days : \A x \in dataset[d], y \in dataset[e] :
        (x.source = "inference" /\ y.source = "inference" /\ x.req = y.req)
            => d = e /\ ("dataset" \in fresh[d] => x = y)

\* Metrics that were recomputed after the last build of their day describe
\* the dataset, and a drift report that read them, with no build between its
\* reading and its commit or since, has an outcome point exactly if the dataset
\* has a labelled answer of the primary; jobs that met the rows of another one
\* for their day between their two statements excepted.
ReportsDescribeDataset ==
    \A d \in Days :
        /\ "metrics" \in fresh[d] => metrics[d] = Summaries(d)
        /\ "drift" \in fresh[d] =>
              (drift[d].outcome # "none") =
                  (\E x \in dataset[d] : x.variant = "primary" /\ Labelled(x))
=============================================================================
