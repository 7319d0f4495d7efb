---------------------------- MODULE ReleaseGates ----------------------------
(***************************************************************************)
(* The way to a release: scripts/promote_canary.py moves the canary        *)
(* (CanaryRollout), every day leaves its evidence in the database, and     *)
(* scripts/production_readiness_gate.py passes or blocks: the live rollout *)
(* validation, the business scorecard, the workload and label coverage and *)
(* the operational controls.                                               *)
(*                                                                         *)
(* The gate reads statement by statement (READ COMMITTED, three            *)
(* connections): the rollout row first, the log of its changes later, the  *)
(* rest last, while the promotion script commits and midnight passes. Days *)
(* count from 1; nothing was recorded before. A run of the script ends on  *)
(* the day it began, and the evaluation jobs have dated a day's evidence   *)
(* when it is over; the seconds between a change of the row and the pods'  *)
(* caches are in the instances of CanaryRollout, not here.                 *)
(***************************************************************************)
EXTENDS CanaryRollout, BusinessScorecard

CONSTANTS
    MaxDays,            \* bound on the days
    DayKinds,           \* per day: what it may leave behind
    WindowDays,         \* --window-days
    BaselineDays,       \* --baseline-days
    QualityDays,        \* stable_days_min: the lesser of 14 and the window
    HistoryDays,        \* stable_days_max
    LookbackDays,       \* --lookback-days of the promotion script
    WeekDays,           \* the days of the scorecard's weekly usage
    MinGroundTruth,     \* reviewer outcomes in the quality window
    CONTROL_MAX_AGE_DAYS,
    CalibrationMaxAge

ControlTypes == DOMAIN CONTROL_MAX_AGE_DAYS
CalibrationScopes == {"routing_temperature", "escalation_platt"}

\* What a day leaves behind: the aggregates of the challenger's canary rows,
\* drift rows, firing SLO alerts, the workload feed, the primary's answers and
\* labelled rows, reviewers, closed handoffs with and without outcome, recorded
\* controls ("dry" is a pass that was not live) and calibration runs.
Day == [canary : Window, drift : {"none", "quiet", "alert"}, slo : BOOLEAN,
        workload : SUBSET Workload, assisted : Nat, rows : Seq(Labelled),
        reviewers : SUBSET STRING, closed : Nat, outcomes : Nat, labels : Nat,
        controls : [ControlTypes -> {"none", "fail", "dry", "pass"}],
        calibration : [CalibrationScopes -> {"none", "few", "enough"}]]

NoDay == [canary |-> NoWindow, drift |-> "none", slo |-> FALSE, workload |-> {},
          assisted |-> 0, rows |-> <<>>, reviewers |-> {}, closed |-> 0,
          outcomes |-> 0, labels |-> 0,
          controls |-> [t \in ControlTypes |-> "none"],
          calibration |-> [s \in CalibrationScopes |-> "none"]]

ASSUME ReleaseAssumption ==
    /\ MaxDays \in Nat \ {0} /\ DayKinds \in [1..MaxDays -> SUBSET Day]
    /\ {WindowDays, BaselineDays, QualityDays, LookbackDays, WeekDays} \subseteq Nat \ {0}
    /\ HistoryDays \in Nat /\ QualityDays <= WindowDays /\ QualityDays <= HistoryDays
    /\ MinGroundTruth \in Nat /\ CalibrationMaxAge \in Nat
    /\ \A t \in ControlTypes : CONTROL_MAX_AGE_DAYS[t] \in Nat

VARIABLES
    today,      \* the date
    day,        \* per past day: its evidence
    served,     \* per day: the variants that answered some of its traffic
    gate,       \* the gate's run: what it has read, and the log when it began
    verdict     \* the last release the gate let pass

evidence == <<today, day, served>>
releaseVars == <<vars, evidence, gate, verdict>>

\* Nothing is known of the days before the first.
Days == (1 - WindowDays - BaselineDays - HistoryDays)..MaxDays
Trailing(end, n) == (end - n + 1)..end

\* The variants that answer at a percentage.
Serving(p) == (IF p < 100 THEN {"primary"} ELSE {}) \cup (IF p > 0 THEN {"canary"} ELSE {})

Rest == [pc |-> "idle", end |-> 0, percent |-> 0, began |-> {}, log |-> {},
         live |-> FALSE]

ReleaseInit ==
    /\ Init
    /\ today = 1
    /\ day = [d \in Days |-> NoDay]
    /\ served = [d \in Days |-> IF d = 1 THEN Serving(0) ELSE {}]
    /\ gate = Rest
    /\ verdict = [passed |-> FALSE, end |-> 0, began |-> {}, log |-> {}]

-----------------------------------------------------------------------------
\* Mutant: answers are stored under the primary's name, whoever gave them.
Left_PrimaryName(kind, variants) ==
    [kind EXCEPT !.canary = IF "canary" \in variants THEN @ ELSE NoWindow]

\* The evidence of a kind of day, of the variants that answered on it.
Left(kind, variants) ==
    [kind EXCEPT
        !.canary = IF "canary" \in variants THEN @ ELSE NoWindow,
        !.assisted = IF "primary" \in variants THEN @ ELSE 0,
        !.rows = IF "primary" \in variants THEN @ ELSE <<>>]

\* Midnight. Events logged from now on are dated after the end of a gate that
\* began before.
EndDay ==
    /\ today < MaxDays
    /\ Running = {}
    /\ \E kind \in DayKinds[today] : day' = [day EXCEPT ![today] = Left(kind, served[today])]
    /\ today' = today + 1
    /\ served' = [served EXCEPT ![today + 1] = Serving(percent)]
    /\ gate' = IF gate.pc = "row"
               THEN [gate EXCEPT !.pc = "overnight", !.log = events] ELSE gate
    /\ UNCHANGED <<vars, verdict>>

\* What _compute_window_metrics may make of the canary rows of the days D: the
\* measures are pooled; a pooled calibration error may be within its gate when
\* that of no day is. Daily and window sample minimums differ.
Pools(w, D) ==
    LET measured(m) == {day[d].canary[m] : d \in D} \ {"missing"}
        samples == {day[d].canary.samples : d \in D}
    IN  /\ \A m \in {"route_accuracy", "escalation_recall", "ece", "abstain_rate"} :
              \/ measured(m) = {} /\ w[m] = "missing"
              \/ measured(m) = {"below", "within"} /\ w[m] # "missing"
              \/ measured(m) = {w[m]}
              \/ m = "ece" /\ measured(m) = {"below"} /\ w[m] = "within"
        /\ \/ samples \subseteq {"none"} /\ w.samples = "none"
           \/ "enough" \in samples /\ w.samples = "enough"
           \/ "few" \in samples /\ w.samples # "none"

\* A run of the promotion script: at 0 the shadow predictions count too, and
\* may say anything; above only the canary's.
RunReads(r) ==
    /\ ReadConfig(r)
    /\ percent = 0 \/ Pools(run'[r].window, Trailing(today - 1, LookbackDays))
    /\ UNCHANGED <<evidence, gate, verdict>>

RunCommits(r) ==
    /\ Commit(r)
    /\ served' = [served EXCEPT ![today] = @ \cup Serving(percent')]
    /\ UNCHANGED <<today, day, gate, verdict>>

-----------------------------------------------------------------------------
\* main, validate_live_rollout: the end date is yesterday, and the rollout row
\* is the first thing that is read.
GateBegins ==
    /\ gate.pc = "idle"
    /\ gate' = [pc |-> "row", end |-> today - 1, percent |-> percent,
                began |-> events, log |-> {}, live |-> FALSE]
    /\ UNCHANGED <<vars, evidence, verdict>>

\* _evaluate_daily_row: a missing measure fails the day, a missing abstain
\* rate does not.
DayPasses(d) == BlockingReasons(day[d].canary) = {}

\* Mutant: a day without rows does not end the window.
TrailingStableDays_Gaps(end) ==
    Max({n \in 0..HistoryDays :
            \A d \in Trailing(end, n) :
                day[d].canary.samples = "none" \/ DayPasses(d)})

\* trailing_stable_days: the days up to the end that passed without a gap.
TrailingStableDays(end) ==
    Max({n \in 0..HistoryDays : \A d \in Trailing(end, n) : DayPasses(d)})

DriftPassed(end) ==
    LET D == Trailing(end, QualityDays)
    IN  /\ \E d \in D : day[d].drift # "none"
        /\ \A d \in D : day[d].drift # "alert"

\* A closed handoff without an outcome, however old, blocks.
LabelingPassed(end) ==
    /\ \A d \in 1..(today - 1) : day[d].outcomes = day[d].closed
    /\ MapThenSumSet(LAMBDA d : day[d].labels, Trailing(end, QualityDays)) >= MinGroundTruth

SloPassed(end) == \A d \in Trailing(end, QualityDays) : ~day[d].slo

\* The promotions of a log, in the order of created_at, reach the stages in order.
StagesPromoted(log) ==
    \E pick \in [REQUIRED_CANARY_STAGES -> log] :
        /\ \A s \in REQUIRED_CANARY_STAGES : pick[s].to = s /\ pick[s].to > pick[s].from
        /\ \A s, t \in REQUIRED_CANARY_STAGES :
              s < t => pick[s].created < pick[t].created

\* Mutant: the row need not stand at 100.
CanaryChecked_AnyPercent(at, log) == StagesPromoted(log)

\* canary_passed: of the row that was read first, and the events of the log
\* that are dated up to the end.
CanaryChecked(at, log) == at = 100 /\ StagesPromoted(log)

RollbackDrilled(log) == \E e \in log : e.to < e.from

\* The age of a calibration is that of the newer scope.
CalibrationPassed(end) ==
    LET ran(s) == {d \in 1..(today - 1) : day[d].calibration[s] # "none"}
    IN  /\ \A s \in CalibrationScopes :
              ran(s) # {} /\ day[Max(ran(s))].calibration[s] = "enough"
        /\ end - Max(UNION {ran(s) : s \in CalibrationScopes}) <= CalibrationMaxAge

\* The rest of validate_live_rollout; its verdict is stored and nobody reads it.
LiveRolloutPassed(at, end, log) ==
    /\ TrailingStableDays(end) >= QualityDays
    /\ DriftPassed(end)
    /\ LabelingPassed(end)
    /\ SloPassed(end)
    /\ CanaryChecked(at, log)
    /\ RollbackDrilled(log)
    /\ CalibrationPassed(end)

GateValidates ==
    /\ gate.pc \in {"row", "overnight"}
    /\ LET log == IF gate.pc = "row" THEN events ELSE gate.log
       IN  gate' = [gate EXCEPT !.pc = "live", !.log = log,
                                !.live = LiveRolloutPassed(gate.percent, gate.end, log)]
    /\ UNCHANGED <<vars, evidence, verdict>>

-----------------------------------------------------------------------------
GateWindow(end) == Trailing(end, WindowDays)
Baseline(end) == Trailing(end - WindowDays, BaselineDays)

\* business_passed: every KPI of the primary passes; one without data blocks.
BusinessPassed(end) ==
    \A k \in DOMAIN TARGETS :
        Scorecard(day, GateWindow(end), Baseline(end), WeekDays)[k] = "pass"

WorkloadCovered(end) == \A d \in GateWindow(end) : day[d].workload # {}
LabelsCovered(end) == \A d \in GateWindow(end) : day[d].outcomes = day[d].closed

\* _check_control_recency: the latest pass, whatever was recorded after it, by
\* the age it has on the day of the check, not at the end of the window; an
\* incident drill must have been live.
ControlPassed(t) ==
    LET passes == {d \in 1..(today - 1) : day[d].controls[t] \in {"dry", "pass"}}
    IN  /\ passes # {}
        /\ (today - 1) - Max(passes) <= CONTROL_MAX_AGE_DAYS[t]
        /\ t = "incident_endpoint_verification" =>
              day[Max(passes)].controls[t] = "pass"

\* The scorecard, the controls and the coverage; a blocked gate leaves nothing
\* that is read again.
GateDecides ==
    /\ gate.pc = "live"
    /\ gate' = Rest
    /\ verdict' = IF /\ gate.live
                     /\ BusinessPassed(gate.end)
                     /\ WorkloadCovered(gate.end)
                     /\ LabelsCovered(gate.end)
                     /\ \A t \in ControlTypes : ControlPassed(t)
                  THEN [passed |-> TRUE, end |-> gate.end, began |-> gate.began,
                        log |-> gate.log]
                  ELSE verdict
    /\ UNCHANGED <<vars, evidence>>

\* The database goes away under the gate: it exits without a verdict.
GateFails ==
    /\ gate.pc # "idle"
    /\ gate' = Rest
    /\ UNCHANGED <<vars, evidence, verdict>>

ReleaseNext ==
    \/ EndDay
    \/ \E r \in Runs : RunReads(r) \/ RunCommits(r)
    \/ GateBegins \/ GateValidates \/ GateDecides \/ GateFails

ReleaseSpec == ReleaseInit /\ [][ReleaseNext]_releaseVars

-----------------------------------------------------------------------------
\* Every variable of the release holds values of its type.
ReleaseTypeOK ==
    /\ today \in 1..MaxDays
    /\ day \in [Days -> Day]
    /\ served \in [Days -> SUBSET {"primary", "canary"}]
    /\ gate \in [pc : {"idle", "row", "overnight", "live"}, end : Nat,
                 percent : 0..100, began : SUBSET Event, log : SUBSET Event,
                 live : BOOLEAN]
    /\ verdict \in [passed : BOOLEAN, end : Nat, began : SUBSET Event,
                    log : SUBSET Event]

\* A release was earned: the gate's log shows each stage reached on a window
\* that supports it and an applied rollback, and on every day of the quality
\* window the canary carried traffic, with samples, ground truth and no alert,
\* whatever the script committed while the gate was reading.
ReleaseEarned ==
    verdict.passed =>
        /\ \A stage \in REQUIRED_CANARY_STAGES :
              \E e \in verdict.log : e.to = stage /\ Supports(e.window)
        /\ \E e \in verdict.log : e.to < e.from
        /\ \A d \in Trailing(verdict.end, QualityDays) :
              /\ "canary" \in served[d]
              /\ Supports(day[d].canary)
              /\ day[d].drift # "alert" /\ ~day[d].slo

\* What was released stood at 100 when the gate began: a rollback that was
\* committed before, by the log, is never released. It holds of runs that
\* follow one another (LogMatchesRow says when overlapping ones break it).
ReleasedRolloutStood ==
    verdict.passed => EndsAt(verdict.began, 100)

\* The scorecard is about the primary model: the gate passes while that model
\* still answers, and no more when the canary has stood at 100 for the whole
\* window.
ReleaseNeedsPrimary ==
    verdict.passed => \E d \in GateWindow(verdict.end) : "primary" \in served[d]
=============================================================================
