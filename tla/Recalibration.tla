---------------------------- MODULE Recalibration ----------------------------
(***************************************************************************)
(* scripts/recalibrate_models.py on top of the daily evaluation: it fits a *)
(* temperature to the routing probabilities and a Platt scaling to the     *)
(* escalation probabilities of the days in its lookback, overwrites the    *)
(* two artifact files, one after the other, and then commits the two rows  *)
(* of model_calibration_runs that the live validation reads. It may die    *)
(* between any two of these. Runs follow one another.                      *)
(***************************************************************************)
EXTENDS EvaluationPipeline, Sequences

CONSTANTS LookbackDays, MaxRuns

ASSUME RecalibrationAssumption ==
    LookbackDays \in Nat \ {0} /\ MaxRuns \in Nat

Scopes == {"routing_temperature", "escalation_platt"}

VARIABLES
    fit,       \* the run in progress: its next step
    runs,      \* number of runs so far; a run is named by its number
    artifact,  \* files: the run that wrote each (0: as shipped), to the end or not
    recorded   \* model_calibration_runs

calibration == <<fit, runs, artifact, recorded>>
allVars == <<vars, calibration>>

\* Mutant: the run is recorded before its artifacts are written.
Order_RecordFirst == <<"record", "routing_temperature", "escalation_platt">>

\* What a run does with its two fits, in this order.
Order == <<"routing_temperature", "escalation_platt", "record">>

RecalibrationInit ==
    /\ Init
    /\ fit = 0
    /\ runs = 0
    /\ artifact = [s \in Scopes |-> [run |-> 0, whole |-> TRUE]]
    /\ recorded = {}

\* The days of the lookback, without today.
Window == {d \in Days : d < today /\ today <= d + LookbackDays}

\* _query_samples: routing samples have ground truth. is_escalation_actual is
\* never null, so that every row is an escalation sample.
Samples(s) ==
    {x \in UNION {dataset[d] : d \in Window} :
        /\ x.variant = "primary"
        /\ s = "routing_temperature" => Labelled(x)}

QuerySamples ==
    /\ fit = 0
    /\ runs < MaxRuns
    /\ fit' = 1
    /\ runs' = runs + 1
    /\ UNCHANGED <<artifact, recorded>> /\ UNCHANGED vars

Advance == fit' = IF fit = Len(Order) THEN 0 ELSE fit + 1

\* _write_json
WriteArtifact ==
    /\ fit # 0
    /\ \E s \in Scopes :
          /\ Order[fit] = s
          /\ artifact' = [artifact EXCEPT ![s] = [run |-> runs, whole |-> TRUE]]
    /\ Advance
    /\ UNCHANGED <<runs, recorded>> /\ UNCHANGED vars

\* _persist_calibration_run, for both scopes in one transaction.
PersistRun ==
    /\ fit # 0
    /\ Order[fit] = "record"
    /\ recorded' = recorded \cup {runs}
    /\ Advance
    /\ UNCHANGED <<runs, artifact>> /\ UNCHANGED vars

\* An error or a death rolls the transaction back and keeps the files as they
\* are; one that was being written is cut short.
Die ==
    /\ fit # 0
    /\ fit' = 0
    /\ \/ UNCHANGED artifact
       \/ \E s \in Scopes :
             /\ Order[fit] = s
             /\ artifact' = [artifact EXCEPT ![s] = [run |-> runs, whole |-> FALSE]]
    /\ UNCHANGED <<runs, recorded>> /\ UNCHANGED vars

RecalibrationNext ==
    \/ QuerySamples \/ WriteArtifact \/ PersistRun \/ Die
    \/ Next /\ UNCHANGED calibration

RecalibrationSpec == RecalibrationInit /\ [][RecalibrationNext]_allVars
-----------------------------------------------------------------------------
\* What the database records of a calibration, and the live validation goes
\* by, is what the artifact files hold in full, unless a later run has begun to
\* overwrite them: also when runs die while they write or before they commit.
RecordedCalibrationInstalled ==
    \A k \in recorded, s \in Scopes :
        \/ artifact[s] = [run |-> k, whole |-> TRUE]
        \/ artifact[s].run > k

\* recalibrate_models.py "from labeled traffic": a sample is an answer whose
\* ground truth is known.
FitsOnLabelledTraffic ==
    [][QuerySamples => \A s \in Scopes : \A x \in Samples(s) : x.truth # NoTruth]_allVars
=============================================================================
