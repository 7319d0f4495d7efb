------------------------ MODULE RecalibrationProofs ------------------------
(***************************************************************************)
(* Theorems about the daily evaluation and the recalibration, for every    *)
(* number of requests, days, jobs and runs.                                *)
(*                                                                         *)
(* What makes the evaluation safe to repeat is that a request keeps the    *)
(* day of its first answer: its row has one place, whatever is answered    *)
(* again, rebuilt or aborted. What makes the calibration record reliable   *)
(* is that both files are written before the commit.                       *)
(***************************************************************************)
EXTENDS Recalibration, TLAPS, FiniteSetTheorems

\* The rows of an answer stand on the day of its request.
AnswersDated ==
    \A d \in Days : \A x \in dataset[d] : x.source = "inference" =>
        /\ x.req \in Requests
        /\ result[x.req] # NoResult /\ result[x.req].day = d

\* The types of what the pipeline reads, and where its jobs are.
Shapes ==
    /\ today \in Days
    /\ result \in [Requests -> Result \cup {NoResult}]
    /\ shadows \subseteq [n : Nat, req : Requests, day : Days, bucket : Buckets,
                          answer : Predictions]
    /\ IsFiniteSet(shadows)
    /\ DOMAIN dataset = Days /\ DOMAIN metrics = Days /\ DOMAIN drift = Days
    /\ DOMAIN fresh = Days
    /\ txn = [k \in Jobs |-> txn[k]]
    /\ job \in [Jobs -> [step : {"idle", "build", "metrics", "drift"}, day : Days]]
    /\ evaluated \subseteq {d \in Days : d < today}
    /\ \A d \in Days : IsFiniteSet(dataset[d])

\* Where the recalibration is, and what its files then hold.
CalibrationInv ==
    /\ runs \in Nat /\ fit \in 0..3
    /\ artifact \in [Scopes -> [run : Nat, whole : BOOLEAN]]
    /\ recorded \subseteq 0..runs
    /\ fit # 0 => runs \notin recorded
    /\ \A s \in Scopes : artifact[s].run <= runs
    /\ fit \in {2, 3} => artifact["routing_temperature"] = [run |-> runs, whole |-> TRUE]
    /\ fit = 3 => artifact["escalation_platt"] = [run |-> runs, whole |-> TRUE]

\* A labelled answer of the primary stands in the dataset of a day.
HasJudged(d) == \E x \in dataset[d] : x.variant = "primary" /\ Labelled(x)

\* What an open drift transaction has read of metrics that described the
\* dataset is still so.
ReadingHolds ==
    \A k \in Jobs :
        /\ job[k].step = "idle" => txn[k].read = {}
        /\ "metrics" \in txn[k].read =>
              (txn[k].points.outcome # "none") = HasJudged(job[k].day)

PipelineInv ==
    /\ Shapes
    /\ ReadingHolds
    /\ AnswersDated
    /\ DaysEvaluated
    /\ AnswersCountOnce
    /\ ReportsDescribeDataset

IInv == PipelineInv /\ CalibrationInv /\ RecordedCalibrationInstalled

-----------------------------------------------------------------------------
\* The image of a finite set under a function.
LEMMA FiniteImage ==
    ASSUME NEW S, IsFiniteSet(S), NEW f, f = [x \in S |-> f[x]]
    PROVE  IsFiniteSet({f[x] : x \in S})
<1>. DEFINE T == {f[x] : x \in S}
<1>1. f \in Surjection(S, T)
  BY DEF Surjection
<1>. QED
  BY <1>1, FS_Surjection

LEMMA EventsFinite ==
    ASSUME Shapes, NEW d
    PROVE  IsFiniteSet(Rows(d))
<1>. DEFINE A == {r \in Requests : result[r] # NoResult /\ result[r].day = d}
            B == {t \in shadows : t.day = d}
            answer == [r \in A |->
                [n |-> 0, req |-> r, variant |-> result[r].variant,
                 source |-> "inference", answer |-> result[r].answer]]
            shadow == [t \in B |->
                [n |-> t.n, req |-> t.req, variant |-> "challenger",
                 source |-> t.bucket, answer |-> t.answer]]
            row == [e \in Events(d) |-> Row(e)]
<1>1. IsFiniteSet(A)
  BY FS_Subset, EvaluationAssumption
<1>2. IsFiniteSet(B)
  BY FS_Subset DEF Shapes
<1>3. IsFiniteSet({answer[r] : r \in A})
  <2>1. answer = [r \in A |-> answer[r]]
    OBVIOUS
  <2>. HIDE DEF A, answer
  <2>. QED  BY <1>1, <2>1, FiniteImage
<1>4. IsFiniteSet({shadow[t] : t \in B})
  <2>1. shadow = [t \in B |-> shadow[t]]
    OBVIOUS
  <2>. HIDE DEF B, shadow
  <2>. QED  BY <1>2, <2>1, FiniteImage
<1>5. Events(d) = {answer[r] : r \in A} \cup {shadow[t] : t \in B}
  BY DEF Events
<1>6. IsFiniteSet(Events(d))
  <2>. HIDE DEF answer, shadow, A, B
  <2>. QED  BY <1>3, <1>4, <1>5, FS_Union
<1>7. IsFiniteSet({row[e] : e \in Events(d)})
  BY <1>6, FiniteImage
<1>8. Rows(d) = {row[e] : e \in Events(d)}
  BY DEF Rows
<1>. QED
  BY <1>7, <1>8

\* The inference rows of a day: one per request that was first answered on it.
LEMMA AnswerRows ==
    ASSUME Shapes, NEW d \in Days
    PROVE  /\ \A x \in Rows(d) : x.source = "inference" =>
                 /\ x.req \in Requests /\ result[x.req] # NoResult
                 /\ result[x.req].day = d
           /\ \A x, y \in Rows(d) :
                 (x.source = "inference" /\ y.source = "inference" /\ x.req = y.req)
                    => x = y
           /\ \A r \in Requests : (result[r] # NoResult /\ result[r].day = d) =>
                 \E x \in Rows(d) : x.req = r /\ x.source = "inference"
<1>. DEFINE Of(r) == [n |-> 0, req |-> r, variant |-> result[r].variant,
                      source |-> "inference", answer |-> result[r].answer]
<1>1. \A x \in Rows(d) : x.source = "inference" =>
         \E r \in Requests : /\ result[r] # NoResult /\ result[r].day = d
                             /\ x = Row(Of(r))
  <2>1. \A t \in shadows : t.bucket # "inference"
    BY DEF Shapes, Buckets
  <2>. QED
    BY <2>1 DEF Rows, Row, Events
<1>2. \A r \in Requests : Row(Of(r)).req = r /\ Row(Of(r)).source = "inference"
  BY DEF Row
<1>3. \A r \in Requests : (result[r] # NoResult /\ result[r].day = d) =>
         Row(Of(r)) \in Rows(d)
  BY DEF Rows, Events
<1>. HIDE DEF Of
<1>. QED
  BY <1>1, <1>2, <1>3

-----------------------------------------------------------------------------
LEMMA InitHolds == RecalibrationInit => IInv
<1>. SUFFICES ASSUME RecalibrationInit PROVE IInv
  OBVIOUS
<1>. USE DEF RecalibrationInit, Init
<1>1. Shapes
  BY EvaluationAssumption, FS_EmptySet DEF Shapes, Days, Idle
<1>2. /\ AnswersDated /\ DaysEvaluated /\ AnswersCountOnce /\ ReportsDescribeDataset
      /\ ReadingHolds
  BY DEF ReadingHolds, Closed, AnswersDated, DaysEvaluated, AnswersCountOnce, ReportsDescribeDataset
<1>3. CalibrationInv /\ RecordedCalibrationInstalled
  BY DEF CalibrationInv, RecordedCalibrationInstalled
<1>. QED
  BY <1>1, <1>2, <1>3 DEF IInv, PipelineInv

\* Readings hold while jobs, transactions and the dataset are left alone.
LEMMA ReadingAlone ==
    ASSUME ReadingHolds, UNCHANGED <<job, txn, dataset>>
    PROVE  ReadingHolds'
BY DEF ReadingHolds, HasJudged, Labelled

\* Steps that leave the tables of the evaluation and the answers alone.
LEMMA TablesAlone ==
    ASSUME PipelineInv, Shapes', ReadingHolds', UNCHANGED <<result, dataset, metrics, drift>>,
           UNCHANGED <<evaluated, fresh>>
    PROVE  PipelineInv'
<1>1. AnswersDated' /\ AnswersCountOnce'
  BY DEF PipelineInv, AnswersDated, AnswersCountOnce
<1>2. DaysEvaluated'
  BY DEF PipelineInv, DaysEvaluated
<1>3. ReportsDescribeDataset'
  <2>1. \A d : Summaries(d)' = Summaries(d)
    BY DEF Summaries
  <2>. QED
    BY <2>1 DEF PipelineInv, ReportsDescribeDataset
<1>. QED
  BY <1>1, <1>2, <1>3 DEF PipelineInv

LEMMA NextDayKeeps == ASSUME PipelineInv, NextDay PROVE PipelineInv'
<1>1. /\ today' = today + 1 /\ today < LastDay
      /\ UNCHANGED <<result, shadows, dataset, metrics, drift, job, txn, evaluated, fresh>>
  BY DEF NextDay, traffic, tables, history
<1>2. today' \in Days /\ evaluated' \subseteq {d \in Days : d < today'}
  BY <1>1, EvaluationAssumption DEF PipelineInv, Shapes, Days
<1>3. Shapes' /\ ReadingHolds'
  BY <1>1, <1>2, ReadingAlone DEF PipelineInv, Shapes
<1>. QED
  BY <1>1, <1>3, TablesAlone

LEMMA LabelKeeps ==
    ASSUME PipelineInv, NEW r \in Requests, Label(r) PROVE PipelineInv'
<1>1. UNCHANGED <<today, result, shadows, dataset, metrics, drift, job, txn, evaluated, fresh>>
  BY DEF Label, tables, history
<1>2. Shapes' /\ ReadingHolds'
  BY <1>1, ReadingAlone DEF PipelineInv, Shapes
<1>. QED
  BY <1>1, <1>2, TablesAlone

\* A job that starts has read nothing yet, and one that fails nothing any more.
LEMMA JobKeeps ==
    ASSUME PipelineInv, NEW j \in Jobs, Start(j) \/ Fail(j) PROVE PipelineInv'
<1>1. UNCHANGED <<today, result, shadows, dataset, metrics, drift, evaluated, fresh>>
  BY DEF Start, Fail, traffic, tables, history
<1>2. CASE Start(j)
  <2>1. PICK d \in 1..today, step \in {"build", "metrics", "drift"} :
           job' = [job EXCEPT ![j] = [step |-> step, day |-> d]]
    BY <1>2 DEF Start
  <2>2. d \in Days
    BY EvaluationAssumption DEF PipelineInv, Shapes, Days
  <2>3. /\ job' \in [Jobs -> [step : {"idle", "build", "metrics", "drift"}, day : Days]]
        /\ \A k \in Jobs \ {j} : job'[k] = job[k]
    BY <2>1, <2>2 DEF PipelineInv, Shapes
  <2>4. txn' = txn /\ job[j].step = "idle" /\ job'[j].step # "idle"
    BY <1>2, <2>1 DEF Start, Idle, PipelineInv, Shapes
  <2>5. Shapes'
    BY <1>1, <2>3, <2>4 DEF PipelineInv, Shapes
  <2>6. \A d_1 : HasJudged(d_1)' = HasJudged(d_1)
    BY <1>1 DEF HasJudged, Labelled
  <2>7. ReadingHolds'
    BY <2>3, <2>4, <2>6 DEF PipelineInv, ReadingHolds
  <2>. QED
    BY <1>1, <2>5, <2>7, TablesAlone
<1>3. CASE Fail(j)
  <2>1. job' = [job EXCEPT ![j] = Idle] /\ txn' = [txn EXCEPT ![j] = Closed]
    BY <1>3 DEF Fail
  <2>2. Idle \in [step : {"idle", "build", "metrics", "drift"}, day : Days]
    BY EvaluationAssumption DEF Idle, Days
  <2>3. /\ job' \in [Jobs -> [step : {"idle", "build", "metrics", "drift"}, day : Days]]
        /\ txn' = [k \in Jobs |-> txn'[k]] /\ txn'[j] = Closed
        /\ \A k \in Jobs \ {j} : job'[k] = job[k] /\ txn'[k] = txn[k]
    BY <2>1, <2>2 DEF PipelineInv, Shapes
  <2>5. Shapes'
    BY <1>1, <2>3 DEF PipelineInv, Shapes
  <2>6. \A d : HasJudged(d)' = HasJudged(d)
    BY <1>1 DEF HasJudged, Labelled
  <2>7. ReadingHolds'
    BY <2>3, <2>6 DEF PipelineInv, ReadingHolds, Closed
  <2>. QED
    BY <1>1, <2>5, <2>7, TablesAlone
<1>. QED
  BY <1>2, <1>3

\* Answering again leaves the day of a request alone.
LEMMA AnswerKeeps ==
    ASSUME PipelineInv, NEW r \in Requests, Answer(r) PROVE PipelineInv'
<1>1. PICK bucket \in Buckets, answer \in Predictions, other \in Predictions :
         /\ \/ shadows' = shadows \cup
                  {[n |-> Cardinality(shadows), req |-> r, day |-> today,
                    bucket |-> bucket, answer |-> other]}
            \/ shadows' = shadows
         /\ result' = [result EXCEPT ![r] =
               [day |-> FirstDay(r),
                variant |-> IF bucket = "canary" THEN "challenger" ELSE "primary",
                answer |-> answer]]
  BY DEF Answer
<1>2. UNCHANGED <<today, truth, job, jobs, txn, dataset, metrics, drift, evaluated, fresh>>
  BY DEF Answer, tables, history
<1>3. FirstDay(r) \in Days 
  BY EvaluationAssumption DEF PipelineInv, Shapes, FirstDay, Result
<1>4. result'[r] \in Result /\ result'[r] # NoResult
  BY <1>1, <1>3, EvaluationAssumption DEF PipelineInv, Shapes, Result, Variants
<1>5. \A q \in Requests \ {r} : result'[q] = result[q]
  BY <1>1 DEF PipelineInv, Shapes
<1>6. /\ IsFiniteSet(shadows')
      /\ shadows' \subseteq [n : Nat, req : Requests, day : Days, bucket : Buckets,
                             answer : Predictions]
  <2>1. Cardinality(shadows) \in Nat
    BY FS_CardinalityType DEF PipelineInv, Shapes
  <2>2. \A x : IsFiniteSet(shadows \cup {x})
    BY FS_AddElement DEF PipelineInv, Shapes
  <2>3. [n |-> Cardinality(shadows), req |-> r, day |-> today, bucket |-> bucket,
         answer |-> other] \in [n : Nat, req : Requests, day : Days,
                                   bucket : Buckets, answer : Predictions]
    BY <1>3, <2>1 DEF PipelineInv, Shapes
  <2>4. shadows \subseteq [n : Nat, req : Requests, day : Days, bucket : Buckets,
                            answer : Predictions] /\ IsFiniteSet(shadows)
    BY DEF PipelineInv, Shapes
  <2>. QED
    BY <1>1, <2>2, <2>3, <2>4
<1>7. Shapes'
  BY <1>1, <1>2, <1>4, <1>6 DEF PipelineInv, Shapes
<1>8. result[r] # NoResult => result'[r].day = result[r].day
  BY <1>1 DEF FirstDay, PipelineInv, Shapes
<1>9. result[r] = NoResult => result'[r].day = today
  BY <1>1 DEF FirstDay, PipelineInv, Shapes
<1>10. AnswersDated'
  BY <1>2, <1>4, <1>5, <1>8 DEF PipelineInv, AnswersDated
<1>11. DaysEvaluated'
  <2>1. today \notin evaluated
    BY DEF PipelineInv, Shapes, Days
  <2>. QED
    BY <1>2, <1>5, <1>8, <1>9, <2>1 DEF PipelineInv, DaysEvaluated
<1>12. AnswersCountOnce' /\ ReportsDescribeDataset'
  <2>1. \A d : Summaries(d)' = Summaries(d)
    BY <1>2 DEF Summaries
  <2>2. AnswersCountOnce'
    BY <1>2 DEF PipelineInv, AnswersCountOnce
  <2>3. ReportsDescribeDataset'
    BY <1>2, <2>1 DEF PipelineInv, ReportsDescribeDataset, Labelled
  <2>. QED
    BY <2>2, <2>3
<1>13. ReadingHolds'
  BY <1>2, ReadingAlone DEF PipelineInv
<1>. QED
  BY <1>7, <1>10, <1>11, <1>12, <1>13 DEF PipelineInv

\* A day has an accuracy exactly if a labelled answer of the primary stands
\* in the dataset its metrics were computed from.
LEMMA JudgedDays ==
    ASSUME PipelineInv, NEW d \in Days, metrics[d] = Summaries(d)
    PROVE  Judged(d) <=> \E x \in dataset[d] : x.variant = "primary" /\ Labelled(x)
<1>. DEFINE rows == {x \in dataset[d] : x.variant = "primary"}
            labelled == {x \in rows : Labelled(x)}
<1>1. IsFiniteSet(rows) /\ IsFiniteSet(labelled)
  <2>1. IsFiniteSet(rows)
    BY FS_Subset DEF PipelineInv, Shapes
  <2>. QED
    BY <2>1, FS_Subset
<1>2. metrics[d]["primary"] = IF rows = {} THEN NoMetrics ELSE Summary(rows)
  BY DEF Summaries, Variants
<1>3. Summary(rows) # NoMetrics
  <2>1. \A S \in SUBSET rows : Cardinality(S) \in Nat
    BY <1>1, FS_Subset, FS_CardinalityType
  <2>2. Summary(rows) \in MetricsRow
    <3>. HIDE DEF rows
    <3>. QED  BY <2>1 DEF Summary, MetricsRow
  <2>. QED
    BY <2>2, EvaluationAssumption
<1>4. Summary(rows).labelled = Cardinality(labelled)
  BY DEF Summary
<1>5. Cardinality(labelled) > 0 <=> labelled # {}
  <2>. HIDE DEF labelled
  <2>. QED  BY <1>1, FS_EmptySet, FS_CardinalityType
<1>6. Judged(d) <=> rows # {} /\ labelled # {}
  <2>. HIDE DEF rows, labelled
  <2>. QED  BY <1>2, <1>3, <1>4, <1>5 DEF Judged
<1>. QED
  BY <1>6

\* A commit ends what its job has read, and what the others have read of a day
\* that it has built anew.
LEMMA CommitKeepsReadings ==
    ASSUME PipelineInv, NEW j \in Jobs, Committed(j),
           \A k \in Jobs \ {j} : job'[k] = job[k],
           \A e \in Days : \/ dataset'[e] = dataset[e]
                           \/ job[j].step = "build" /\ e = job[j].day
    PROVE  txn' = [k \in Jobs |-> txn'[k]] /\ ReadingHolds'
<1>1. txn' = [k \in Jobs |-> txn'[k]]
  BY DEF Committed
<1>2. txn'[j].read = {}
  BY DEF Committed, Closed
<1>3. ASSUME NEW k \in Jobs \ {j}
      PROVE  /\ txn'[k].read \subseteq txn[k].read
             /\ txn'[k].points = txn[k].points
             /\ "metrics" \in txn'[k].read =>
                    ~(job[j].step = "build" /\ job[k].day = job[j].day)
  BY DEF Committed
<1>5. \A k \in Jobs : job[k].day \in Days
  BY DEF PipelineInv, Shapes
<1>6. ASSUME NEW k \in Jobs \ {j}
      PROVE  /\ job'[k].step = "idle" => txn'[k].read = {}
             /\ "metrics" \in txn'[k].read =>
                   (txn'[k].points.outcome # "none") = HasJudged(job[k].day)'
  <2>1. /\ job[k].step = "idle" => txn[k].read = {}
        /\ "metrics" \in txn[k].read =>
              (txn[k].points.outcome # "none") = HasJudged(job[k].day)
    BY DEF PipelineInv, ReadingHolds
  <2>2. job'[k] = job[k] /\ job[k].day \in Days
    BY <1>5
  <2>3. CASE "metrics" \in txn'[k].read
    <3>1. dataset'[job[k].day] = dataset[job[k].day]
      BY <1>3, <2>2, <2>3
    <3>2. HasJudged(job[k].day)' = HasJudged(job[k].day)
      BY <2>2, <3>1 DEF HasJudged, Labelled
    <3>. QED
      BY <1>3, <2>1, <2>2, <2>3, <3>2
  <2>4. CASE "metrics" \notin txn'[k].read
    BY <1>3, <2>1, <2>2, <2>4
  <2>. QED
    BY <2>3, <2>4
<1>7. ReadingHolds'
  BY <1>2, <1>6 DEF ReadingHolds
<1>. QED
  BY <1>1, <1>7

\* A transaction that begins to delete notes what it has read: an outcome point
\* exactly if the primary has labelled answers, where the metrics describe them.
LEMMA DeleteKeeps ==
    ASSUME PipelineInv, NEW j \in Jobs, Delete(j) PROVE PipelineInv'
<1>. DEFINE d == job[j].day
<1>1. /\ UNCHANGED <<today, result, shadows, truth, dataset, metrics, drift, job>>
      /\ UNCHANGED <<evaluated, fresh>> /\ job[j].step # "idle" /\ d \in Days
  BY DEF Delete, traffic, tables, history, PipelineInv, Shapes
<1>2. /\ txn' = [k \in Jobs |-> txn'[k]]
      /\ \A k \in Jobs \ {j} : txn'[k] = txn[k]
      /\ "metrics" \in txn'[j].read =>
            "metrics" \in fresh[d] /\ txn'[j].points.outcome \in OutcomePoint(d)
  BY DEF Delete, PipelineInv, Shapes
<1>3. "metrics" \in fresh[d] => \A o \in OutcomePoint(d) : (o # "none") = HasJudged(d)
  <2>. SUFFICES ASSUME "metrics" \in fresh[d], NEW o \in OutcomePoint(d)
                PROVE  (o # "none") = HasJudged(d)
    OBVIOUS
  <2>1. metrics[d] = Summaries(d)
    BY <1>1 DEF PipelineInv, ReportsDescribeDataset
  <2>2. Judged(d) <=> HasJudged(d)
    BY <1>1, <2>1, JudgedDays DEF HasJudged
  <2>3. o # "none" <=> Judged(d)
    BY DEF OutcomePoint, Point
  <2>4. (o # "none") \in BOOLEAN /\ HasJudged(d) \in BOOLEAN
    BY DEF HasJudged
  <2>. QED
    BY <2>2, <2>3, <2>4
<1>4. Shapes'
  BY <1>1, <1>2 DEF PipelineInv, Shapes
<1>5. \A k \in Jobs : HasJudged(job[k].day)' = HasJudged(job[k].day)
  BY <1>1 DEF HasJudged, Labelled
<1>. HIDE DEF d
<1>6. ASSUME NEW k \in Jobs
      PROVE  /\ job'[k].step = "idle" => txn'[k].read = {}
             /\ "metrics" \in txn'[k].read =>
                   (txn'[k].points.outcome # "none") = HasJudged(job[k].day)'
  <2>1. CASE k = j
    BY <1>1, <1>2, <1>3, <1>5, <2>1 DEF d
  <2>2. CASE k # j
    BY <1>1, <1>2, <1>5, <2>2 DEF PipelineInv, ReadingHolds
  <2>. QED
    BY <2>1, <2>2
<1>7. ReadingHolds'
  BY <1>6 DEF ReadingHolds
<1>. QED
  BY <1>1, <1>4, <1>7, TablesAlone

\* A successful build puts a row for every answer of the day in its place, and
\* nothing but these if it has met no other build's rows.
LEMMA BuildKeeps ==
    ASSUME PipelineInv, NEW j \in Jobs, BuildDailyDataset(j)
    PROVE  PipelineInv'
<1>. DEFINE d == job[j].day
            kept == {x \in dataset[d] :
                        Key(x) \notin txn[j].gone \cup {Key(y) : y \in Rows(d)}}
<1>1. /\ dataset' = [dataset EXCEPT ![d] = kept \cup Rows(d)]
      /\ evaluated' \subseteq evaluated \cup {d}
      /\ d \in evaluated' => d < today \/ d \in evaluated
      /\ evaluated' \subseteq evaluated \cup (IF d < today THEN {d} ELSE {})
      /\ fresh' = [fresh EXCEPT ![d] = IF Alone(j) THEN {"dataset"} ELSE {}]
      /\ UNCHANGED <<today, result, shadows, truth, metrics, drift>>
  BY DEF BuildDailyDataset, DatasetAfter, traffic
<1>2. d \in Days
  BY DEF PipelineInv, Shapes
<1>3. /\ job' \in [Jobs -> [step : {"idle", "build", "metrics", "drift"}, day : Days]]
      /\ \A k \in Jobs \ {j} : job'[k] = job[k]
  <2>1. job' \in {[job EXCEPT ![j] = [@ EXCEPT !.step = "metrics"]],
                  [job EXCEPT ![j] = Idle]}
    BY DEF BuildDailyDataset, Continue
  <2>2. Idle \in [step : {"idle", "build", "metrics", "drift"}, day : Days]
    BY EvaluationAssumption DEF Idle, Days
  <2>. QED
    BY <2>1, <2>2 DEF PipelineInv, Shapes
<1>12. Alone(j) => kept = {}
  BY DEF BuildDailyDataset, Alone, Present
<1>13. Committed(j) /\ job[j].step = "build" /\ kept \subseteq dataset[d]
  BY DEF BuildDailyDataset
<1>14. job[j].day = d
  OBVIOUS
<1>. HIDE DEF d, kept
<1>4. /\ dataset'[d] = kept \cup Rows(d)
      /\ \A e \in Days \ {d} : dataset'[e] = dataset[e]
      /\ DOMAIN dataset' = Days
  BY <1>1, <1>2 DEF PipelineInv, Shapes
<1>11. /\ fresh'[d] \subseteq {"dataset"}
       /\ "dataset" \in fresh'[d] => kept = {}
       /\ \A e \in Days \ {d} : fresh'[e] = fresh[e]
  BY <1>1, <1>2, <1>12 DEF PipelineInv, Shapes
<1>15. txn' = [k \in Jobs |-> txn'[k]] /\ ReadingHolds'
  BY <1>3, <1>4, <1>13, <1>14, CommitKeepsReadings
<1>5. Shapes'
  <2>1. IsFiniteSet(Rows(d))
    BY EventsFinite DEF PipelineInv
  <2>4. IsFiniteSet(kept \cup Rows(d))
    <3>1. IsFiniteSet(kept)
      BY <1>2, <1>13, FS_Subset DEF PipelineInv, Shapes
    <3>. QED
      BY <2>1, <3>1, FS_Union
  <2>2. \A e \in Days : IsFiniteSet(dataset'[e])
    BY <1>4, <2>4 DEF PipelineInv, Shapes
  <2>3. evaluated' \subseteq {e \in Days : e < today}
    BY <1>1, <1>2 DEF PipelineInv, Shapes
  <2>. QED
    BY <1>1, <1>3, <1>4, <1>15, <2>2, <2>3 DEF PipelineInv, Shapes
<1>6. /\ \A x \in Rows(d) : x.source = "inference" =>
            /\ x.req \in Requests /\ result[x.req] # NoResult
            /\ result[x.req].day = d
      /\ \A x, y \in Rows(d) :
            (x.source = "inference" /\ y.source = "inference" /\ x.req = y.req)
               => x = y
      /\ \A r \in Requests : (result[r] # NoResult /\ result[r].day = d) =>
            \E x \in Rows(d) : x.req = r /\ x.source = "inference"
  BY <1>2, AnswerRows DEF PipelineInv
<1>7. AnswersDated'
  BY <1>1, <1>2, <1>4, <1>6, <1>13 DEF PipelineInv, AnswersDated
<1>8. DaysEvaluated'
  <2>. SUFFICES ASSUME NEW r \in Requests, result[r] # NoResult,
                       result[r].day \in evaluated'
                PROVE  \E x \in dataset'[result[r].day] :
                          x.req = r /\ x.source = "inference"
    BY <1>1 DEF DaysEvaluated
  <2>1. result[r].day \in Days
    BY <1>5 DEF Shapes
  <2>2. CASE result[r].day = d
    BY <2>2, <1>4, <1>6
  <2>3. CASE result[r].day # d
    BY <2>1, <2>3, <1>1, <1>4 DEF PipelineInv, DaysEvaluated
  <2>. QED
    BY <2>2, <2>3
<1>9. AnswersCountOnce'
  <2>. SUFFICES ASSUME NEW e \in Days, NEW f \in Days,
                       NEW x \in dataset'[e], NEW y \in dataset'[f],
                       x.source = "inference", y.source = "inference",
                       x.req = y.req
                PROVE  e = f /\ ("dataset" \in fresh'[e] => x = y)
    BY DEF AnswersCountOnce
  <2>1. e = f
    BY <1>7, <1>1 DEF AnswersDated
  <2>2. CASE e = d
    <3>1. ASSUME "dataset" \in fresh'[d] PROVE x = y
      <4>1. dataset'[d] = Rows(d)
        BY <1>4, <1>11, <3>1
      <4>. QED
        BY <4>1, <2>1, <2>2, <1>6
    <3>. QED
      BY <2>1, <2>2, <3>1
  <2>3. CASE e # d
    BY <2>1, <2>3, <1>4, <1>11 DEF PipelineInv, AnswersCountOnce
  <2>. QED
    BY <2>1, <2>2, <2>3
<1>10. ReportsDescribeDataset'
  <2>. SUFFICES ASSUME NEW e \in Days
                PROVE  /\ "metrics" \in fresh'[e] => metrics[e] = Summaries(e)'
                       /\ "drift" \in fresh'[e] =>
                             (drift[e].outcome # "none") =
                                (\E x \in dataset'[e] :
                                    x.variant = "primary" /\ Labelled(x))
    BY <1>1 DEF ReportsDescribeDataset, Labelled
  <2>1. CASE e = d
    <3>1. "metrics" \notin fresh'[d] /\ "drift" \notin fresh'[d]
      BY <1>11
    <3>. QED
      BY <2>1, <3>1
  <2>2. CASE e # d
    <3>1. Summaries(e)' = Summaries(e)
      BY <2>2, <1>4 DEF Summaries
    <3>. QED
      BY <2>2, <3>1, <1>4, <1>11 DEF PipelineInv, ReportsDescribeDataset
  <2>. QED
    BY <2>1, <2>2
<1>. QED
  BY <1>5, <1>7, <1>8, <1>9, <1>10, <1>15 DEF PipelineInv

\* Metrics that met no other job's rows are those of the dataset.
LEMMA MetricsKeep ==
    ASSUME PipelineInv, NEW j \in Jobs, ComputeDailyMetrics(j)
    PROVE  PipelineInv'
<1>. DEFINE d == job[j].day
<1>1. /\ metrics' = [metrics EXCEPT ![d] = MetricsAfter(j)]
      /\ fresh' = [fresh EXCEPT ![d] = (fresh[d] \ {"metrics"}) \cup
                                       (IF Alone(j) THEN {"metrics"} ELSE {})]
      /\ UNCHANGED <<today, result, shadows, truth, dataset, drift, evaluated>>
  BY DEF ComputeDailyMetrics, traffic
<1>2. d \in Days
  BY DEF PipelineInv, Shapes
<1>3. /\ job' \in [Jobs -> [step : {"idle", "build", "metrics", "drift"}, day : Days]]
      /\ \A k \in Jobs \ {j} : job'[k] = job[k]
  <2>1. job' \in {[job EXCEPT ![j] = [@ EXCEPT !.step = "drift"]],
                  [job EXCEPT ![j] = Idle]}
    BY DEF ComputeDailyMetrics, Continue
  <2>2. Idle \in [step : {"idle", "build", "metrics", "drift"}, day : Days]
    BY EvaluationAssumption DEF Idle, Days
  <2>. QED
    BY <2>1, <2>2 DEF PipelineInv, Shapes
<1>7. Alone(j) => MetricsAfter(j) = Summaries(d)
  <2>. SUFFICES ASSUME Alone(j) PROVE MetricsAfter(j) = Summaries(d)
    OBVIOUS
  <2>1. \A v \in Variants : metrics[d][v] # NoMetrics => <<"metrics", v>> \in txn[j].gone
    BY DEF ComputeDailyMetrics, Alone, Present
  <2>2. \A v \in Variants : MetricsAfter(j)[v] = Summaries(d)[v]
    BY <2>1 DEF MetricsAfter
  <2>. QED
    BY <2>2 DEF MetricsAfter, Summaries
<1>8. txn' = [k \in Jobs |-> txn'[k]] /\ ReadingHolds'
  BY <1>1, <1>3, CommitKeepsReadings DEF ComputeDailyMetrics
<1>. HIDE DEF d
<1>4. Shapes'
  BY <1>1, <1>3, <1>8 DEF PipelineInv, Shapes
<1>9. /\ "metrics" \in fresh'[d] => metrics'[d] = Summaries(d)
      /\ \A t \in {"dataset", "drift"} : t \in fresh'[d] => t \in fresh[d]
      /\ \A e \in Days \ {d} : fresh'[e] = fresh[e] /\ metrics'[e] = metrics[e]
  BY <1>1, <1>2, <1>7 DEF PipelineInv, Shapes
<1>5. AnswersDated' /\ DaysEvaluated' /\ AnswersCountOnce'
  <2>1. \A e \in Days : "dataset" \in fresh'[e] => "dataset" \in fresh[e]
    BY <1>9
  <2>. QED
    BY <1>1, <2>1 DEF PipelineInv, AnswersDated, DaysEvaluated, AnswersCountOnce
<1>6. ReportsDescribeDataset'
  <2>. SUFFICES ASSUME NEW e \in Days
                PROVE  /\ "metrics" \in fresh'[e] => metrics'[e] = Summaries(e)
                       /\ "drift" \in fresh'[e] =>
                             (drift[e].outcome # "none") =
                                (\E x \in dataset[e] :
                                    x.variant = "primary" /\ Labelled(x))
    BY <1>1 DEF ReportsDescribeDataset, Labelled, Summaries
  <2>1. "drift" \in fresh'[e] => "drift" \in fresh[e]
    BY <1>9
  <2>2. CASE e = d
    BY <1>9, <2>1, <2>2 DEF PipelineInv, ReportsDescribeDataset
  <2>3. CASE e # d
    BY <1>9, <2>3 DEF PipelineInv, ReportsDescribeDataset
  <2>. QED
    BY <2>2, <2>3
<1>. QED
  BY <1>4, <1>5, <1>6, <1>8 DEF PipelineInv

\* Drift that met no other job's rows leaves the points it has read.
LEMMA DriftKeeps ==
    ASSUME PipelineInv, NEW j \in Jobs, ComputeDriftMetrics(j)
    PROVE  PipelineInv'
<1>. DEFINE d == job[j].day
<1>1. /\ drift' = [drift EXCEPT ![d] = DriftAfter(j)]
      /\ fresh' = [fresh EXCEPT ![d] = (fresh[d] \ {"drift"}) \cup
            (IF Alone(j) /\ "metrics" \in txn[j].read THEN {"drift"} ELSE {})]
      /\ UNCHANGED <<today, result, shadows, truth, dataset, metrics, evaluated>>
  BY DEF ComputeDriftMetrics, traffic
<1>2. d \in Days
  BY DEF PipelineInv, Shapes
<1>3. /\ job' \in [Jobs -> [step : {"idle", "build", "metrics", "drift"}, day : Days]]
      /\ \A k \in Jobs \ {j} : job'[k] = job[k]
  BY EvaluationAssumption DEF ComputeDriftMetrics, Idle, PipelineInv, Shapes, Days
<1>7. Alone(j) => DriftAfter(j).outcome = txn[j].points.outcome
  <2>. SUFFICES ASSUME Alone(j) PROVE DriftAfter(j).outcome = txn[j].points.outcome
    OBVIOUS
  <2>1. drift[d]["outcome"] # "none" => <<"drift", "outcome">> \in txn[j].gone
    BY DEF ComputeDriftMetrics, Alone, Present
  <2>. QED
    BY <2>1 DEF DriftAfter
<1>8. txn' = [k \in Jobs |-> txn'[k]] /\ ReadingHolds'
  BY <1>1, <1>3, CommitKeepsReadings DEF ComputeDriftMetrics
<1>10. "metrics" \in txn[j].read => (txn[j].points.outcome # "none") = HasJudged(d)
  BY DEF PipelineInv, ReadingHolds
<1>. HIDE DEF d
<1>4. Shapes'
  BY <1>1, <1>3, <1>8 DEF PipelineInv, Shapes
<1>9. /\ drift'[d] = DriftAfter(j)
      /\ "drift" \in fresh'[d] => Alone(j) /\ "metrics" \in txn[j].read
      /\ \A t \in {"dataset", "metrics"} : t \in fresh'[d] => t \in fresh[d]
      /\ \A e \in Days \ {d} : fresh'[e] = fresh[e] /\ drift'[e] = drift[e]
  BY <1>1, <1>2 DEF PipelineInv, Shapes
<1>5. AnswersDated' /\ DaysEvaluated' /\ AnswersCountOnce'
  <2>1. \A e \in Days : "dataset" \in fresh'[e] => "dataset" \in fresh[e]
    BY <1>9
  <2>. QED
    BY <1>1, <2>1 DEF PipelineInv, AnswersDated, DaysEvaluated, AnswersCountOnce
<1>6. ReportsDescribeDataset'
  <2>. SUFFICES ASSUME NEW e \in Days
                PROVE  /\ "metrics" \in fresh'[e] => metrics[e] = Summaries(e)
                       /\ "drift" \in fresh'[e] => (drift'[e].outcome # "none") = HasJudged(e)
    BY <1>1 DEF ReportsDescribeDataset, HasJudged, Labelled, Summaries
  <2>1. "metrics" \in fresh'[e] => metrics[e] = Summaries(e)
    BY <1>9 DEF PipelineInv, ReportsDescribeDataset
  <2>2. CASE e = d
    BY <1>7, <1>9, <1>10, <2>1, <2>2
  <2>3. CASE e # d
    BY <1>9, <2>1, <2>3 DEF PipelineInv, ReportsDescribeDataset, HasJudged
  <2>. QED
    BY <2>2, <2>3
<1>. QED
  BY <1>4, <1>5, <1>6, <1>8 DEF PipelineInv

-----------------------------------------------------------------------------
\* A run overwrites a file, in full or in part, before it is recorded itself.
LEMMA WrittenKeeps ==
    ASSUME CalibrationInv, RecordedCalibrationInstalled, fit # 0,
           NEW s \in Scopes, NEW w \in BOOLEAN,
           artifact' = [artifact EXCEPT ![s] = [run |-> runs, whole |-> w]],
           UNCHANGED <<runs, recorded>>,
           \/ fit' = 0
           \/ fit = 1 /\ fit' = 2 /\ s = "routing_temperature" /\ w
           \/ fit = 2 /\ fit' = 3 /\ s = "escalation_platt" /\ w
    PROVE  CalibrationInv' /\ RecordedCalibrationInstalled'
<1>. USE DEF CalibrationInv
<1>1. /\ artifact'[s] = [run |-> runs, whole |-> w]
      /\ \A q \in Scopes \ {s} : artifact'[q] = artifact[q]
  OBVIOUS
<1>2. artifact' \in [Scopes -> [run : Nat, whole : BOOLEAN]]
  OBVIOUS
<1>3. \A q \in Scopes : artifact'[q].run <= runs
  BY <1>1
<1>4. /\ fit' \in {2, 3} => artifact'["routing_temperature"] = [run |-> runs, whole |-> TRUE]
      /\ fit' = 3 => artifact'["escalation_platt"] = [run |-> runs, whole |-> TRUE]
  <2>1. "routing_temperature" \in Scopes /\ "escalation_platt" \in Scopes
    BY DEF Scopes
  <2>2. CASE fit' = 0
    BY <2>2
  <2>3. CASE fit = 1 /\ fit' = 2 /\ s = "routing_temperature" /\ w
    BY <1>1, <2>3
  <2>4. CASE fit = 2 /\ fit' = 3 /\ s = "escalation_platt" /\ w
    <3>1. artifact'["routing_temperature"] = artifact["routing_temperature"]
      BY <1>1, <2>1, <2>4
    <3>. QED
      BY <1>1, <2>4, <3>1
  <2>. QED
    BY <2>2, <2>3, <2>4
<1>7. CalibrationInv'
  <2>1. runs' = runs /\ recorded' = recorded /\ fit' \in 0..3
    OBVIOUS
  <2>. QED
    BY <1>2, <1>3, <1>4, <2>1
<1>5. \A k \in recorded : runs > k
  <2>1. recorded \subseteq 0..runs /\ runs \notin recorded /\ runs \in Nat
    OBVIOUS
  <2>. HIDE DEF CalibrationInv
  <2>2. \A k \in recorded : k \in 0..runs /\ k # runs
    BY <2>1
  <2>. QED
    BY <2>1, <2>2
<1>6. RecordedCalibrationInstalled'
  BY <1>1, <1>5 DEF RecordedCalibrationInstalled
<1>. QED
  BY <1>6, <1>7

\* Both files are written before the run is recorded.
LEMMA CalibrationKeeps ==
    ASSUME IInv, QuerySamples \/ WriteArtifact \/ PersistRun \/ Die
    PROVE  IInv'
<1>. USE DEF CalibrationInv, RecordedCalibrationInstalled
<1>1. PipelineInv'
  <2>1. UNCHANGED vars
    BY DEF QuerySamples, WriteArtifact, PersistRun, Die
  <2>2. Shapes' /\ ReadingHolds'
    BY <2>1, ReadingAlone DEF vars, IInv, PipelineInv, Shapes
  <2>. QED
    BY <2>1, <2>2, TablesAlone DEF vars, IInv
<1>2. CASE QuerySamples
  BY <1>1, <1>2 DEF IInv, QuerySamples
<1>3. CASE WriteArtifact
  <2>1. PICK s \in Scopes : /\ Order[fit] = s
                            /\ artifact' = [artifact EXCEPT ![s] =
                                              [run |-> runs, whole |-> TRUE]]
    BY <1>3 DEF WriteArtifact
  <2>2. UNCHANGED <<runs, recorded>> /\ fit \in 1..3
    BY <1>3 DEF WriteArtifact, IInv
  <2>3. \/ fit = 1 /\ s = "routing_temperature" /\ fit' = 2
        \/ fit = 2 /\ s = "escalation_platt" /\ fit' = 3
    BY <1>3, <2>1, <2>2 DEF WriteArtifact, Order, Advance, Scopes
  <2>. QED
    <3>1. CalibrationInv' /\ RecordedCalibrationInstalled'
      <4>1. CalibrationInv /\ RecordedCalibrationInstalled /\ fit # 0
        BY <2>2 DEF IInv
      <4>. HIDE DEF CalibrationInv, RecordedCalibrationInstalled
      <4>. QED
        BY <2>1, <2>2, <2>3, <4>1, WrittenKeeps
    <3>. QED
      BY <1>1, <3>1 DEF IInv
<1>4. CASE PersistRun
  <2>1. fit = 3 /\ fit' = 0
    BY <1>4 DEF PersistRun, IInv, Order, Advance
  <2>2. UNCHANGED <<runs, artifact>> /\ recorded' = recorded \cup {runs}
    BY <1>4 DEF PersistRun
  <2>. QED
    BY <1>1, <2>1, <2>2 DEF IInv, Scopes
<1>5. CASE Die
  <2>1. UNCHANGED <<runs, recorded>> /\ fit' = 0 /\ fit # 0
    BY <1>5 DEF Die
  <2>2. CASE UNCHANGED artifact
    BY <1>1, <2>1, <2>2 DEF IInv
  <2>3. CASE \E s \in Scopes : artifact' = [artifact EXCEPT ![s] =
                                              [run |-> runs, whole |-> FALSE]]
    BY <1>1, <2>1, <2>3, WrittenKeeps DEF IInv
  <2>. QED
    BY <1>5, <2>2, <2>3 DEF Die
<1>. QED
  BY <1>2, <1>3, <1>4, <1>5

LEMMA StepKeeps == IInv /\ [RecalibrationNext]_allVars => IInv'
<1>. SUFFICES ASSUME IInv, [RecalibrationNext]_allVars PROVE IInv'
  OBVIOUS
<1>1. CASE Next /\ UNCHANGED calibration
  <2>1. PipelineInv'
    BY <1>1, NextDayKeeps, AnswerKeeps, LabelKeeps, JobKeeps, DeleteKeeps,
       BuildKeeps, MetricsKeep, DriftKeeps DEF Next, IInv
  <2>. QED
    BY <1>1, <2>1 DEF IInv, CalibrationInv, RecordedCalibrationInstalled, calibration
<1>2. CASE UNCHANGED allVars
  <2>1. Shapes' /\ ReadingHolds'
    BY <1>2, ReadingAlone DEF allVars, vars, IInv, PipelineInv, Shapes
  <2>2. PipelineInv'
    BY <1>2, <2>1, TablesAlone DEF allVars, vars, IInv
  <2>. QED
    BY <1>2, <2>2 DEF IInv, CalibrationInv, RecordedCalibrationInstalled,
                      allVars, calibration
<1>. QED
  BY <1>1, <1>2, CalibrationKeeps DEF RecalibrationNext

\* The invariant holds in every reachable state.
THEOREM InvariantHolds == RecalibrationSpec => []IInv
  BY InitHolds, StepKeeps, PTL DEF RecalibrationSpec

\* A day that was built when it was over holds every request answered on it
\* (build_daily_dataset, over any rebuilds, failures and later answers).
THEOREM DaysStayEvaluated == RecalibrationSpec => []DaysEvaluated
  BY InvariantHolds, PTL DEF IInv, PipelineInv

\* An answer is evaluated on one day, and not twice on it unless another build
\* of the day committed between the DELETE and the INSERT of its last build
\* (created_at of inference_requests, build_daily_dataset).
THEOREM CountedOnce == RecalibrationSpec => []AnswersCountOnce
  BY InvariantHolds, PTL DEF IInv, PipelineInv

\* Metrics and drift recomputed after a build describe the dataset, unless they
\* met another job's rows for the day (compute_daily_metrics,
\* compute_drift_metrics).
THEOREM ReportsMatch == RecalibrationSpec => []ReportsDescribeDataset
  BY InvariantHolds, PTL DEF IInv, PipelineInv

\* What model_calibration_runs records is in the artifact files, through any
\* number of runs that die anywhere (recalibrate).
THEOREM RecordsInstalled == RecalibrationSpec => []RecordedCalibrationInstalled
  BY InvariantHolds, PTL DEF IInv
=============================================================================
