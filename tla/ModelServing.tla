---------------------------- MODULE ModelServing -----------------------------
(***************************************************************************)
(* What answers a prediction: the pod's routing engine, built once in      *)
(* api/deps.py, the model server behind HttpRoutingModelEngine             *)
(* (model_server/app.py), or a heuristic that stands in for either of them *)
(* (services/model_serving.py); and the readiness check of the pod         *)
(* (services/readiness.py), after which Kubernetes sends it traffic.       *)
(*                                                                         *)
(* A prediction runs on the event loop of the pod from the call of the     *)
(* engine to the reading of its flag: a pod has one at a time. The model   *)
(* server is the one of the primary, with its default backend.             *)
(***************************************************************************)
EXTENDS Naturals, Sequences

CONSTANTS
    Backends,       \* values of ROUTING_MODEL_BACKEND
    Enabled,        \* the checks of USE_POSTGRES and USE_REDIS that are on
    ModelFiles,     \* the artifacts of a model, in the order they are loaded
    Replaced,       \* those that are replaced while the system runs
    MaxStarts       \* bound on the starts of a process

ASSUME ModelServingAssumption ==
    /\ Backends \subseteq {"artifact", "http", "heuristic"}
    /\ Enabled \subseteq {"database", "redis"}
    /\ ModelFiles \in Seq(STRING) /\ ModelFiles # <<>>
    /\ MaxStarts \in Nat

VARIABLES
    backend,            \* ROUTING_MODEL_BACKEND
    readable,           \* the artifact files that hold a JSON object
    process,            \* the pod and the model server, with their engines
    starts,             \* per process: how often it was started
    lastUsedFallback,   \* of the pod's FallbackRoutingModelEngine
    call,               \* the prediction in progress
    prediction,         \* the last one that ended
    check,              \* the readiness check in progress
    inService,          \* does Kubernetes send the pod traffic?
    disturbed           \* history: did the server fail since it began to?

serving == <<backend, readable, process, starts, lastUsedFallback, call,
             prediction, check, inService, disturbed>>

AllFiles == {ModelFiles[i] : i \in DOMAIN ModelFiles}

\* _load_json: a file that is missing or cut short raises.
Loads(f) == f \in readable

Off == [pc |-> "down", loaded |-> 0, engine |-> "none", torn |-> FALSE]
NoCall == [pc |-> "none", at |-> "pod", engine |-> "none", torn |-> FALSE, excused |-> FALSE]
NoPrediction == [at |-> "pod", engine |-> "none", torn |-> FALSE, excused |-> FALSE,
                 flagged |-> FALSE]

\* The engine of a process has answered.
AnsweredBy(p) == [pc |-> "answered", at |-> p, engine |-> process[p].engine,
                  torn |-> process[p].torn, excused |-> FALSE]
NoCheck == [pc |-> "none", ok |-> TRUE, failed |-> FALSE]

ServingInit ==
    /\ backend \in Backends
    /\ readable = AllFiles
    /\ process = [p \in {"pod", "server"} |-> Off]
    /\ starts = [p \in {"pod", "server"} |-> 0]
    /\ lastUsedFallback = FALSE
    /\ call = NoCall
    /\ prediction = NoPrediction
    /\ check = NoCheck
    /\ inService = FALSE
    /\ disturbed = FALSE

-----------------------------------------------------------------------------
\* An artifact is replaced: from its truncation to its last byte no engine can
\* load it. A starting process is marked, whether it will read it or has.
BeginReplacing(f) ==
    /\ f \in Replaced \cap readable
    /\ readable' = readable \ {f}
    /\ process' = [p \in DOMAIN process |->
                    [process[p] EXCEPT !.torn = @ \/ process[p].pc = "starting"]]
    /\ UNCHANGED <<backend, starts, lastUsedFallback, call, prediction, check,
                   inService, disturbed>>

EndReplacing(f) ==
    /\ f \in AllFiles \ readable
    /\ readable' = readable \cup {f}
    /\ UNCHANGED <<backend, process, starts, lastUsedFallback, call, prediction,
                   check, inService, disturbed>>

\* Only an artifact engine has anything to load.
StartProcess(p) ==
    /\ process[p].pc = "down"
    /\ starts[p] < MaxStarts
    /\ starts' = [starts EXCEPT ![p] = @ + 1]
    /\ process' = [process EXCEPT ![p] =
          IF p = "pod" /\ backend # "artifact"
          THEN [Off EXCEPT !.pc = "up", !.engine = backend]
          ELSE [Off EXCEPT !.pc = "starting", !.torn = readable # AllFiles]]
    /\ lastUsedFallback' = (p # "pod" /\ lastUsedFallback)
    /\ UNCHANGED <<backend, readable, call, prediction, check, inService, disturbed>>

\* The next file is loaded; with one that cannot be, the process serves the
\* heuristic until its next start, and nothing wraps it.
LoadArtifact(p) ==
    /\ process[p].pc = "starting"
    /\ LET n == process[p].loaded + 1 IN
       process' = [process EXCEPT ![p] =
          IF ~Loads(ModelFiles[n])
          THEN [@ EXCEPT !.pc = "up", !.engine = "heuristic"]
          ELSE IF n = Len(ModelFiles)
               THEN [@ EXCEPT !.pc = "up", !.engine = "artifact", !.loaded = n]
               ELSE [@ EXCEPT !.loaded = n]]
    /\ UNCHANGED <<backend, readable, starts, lastUsedFallback, call, prediction,
                   check, inService, disturbed>>

\* The server fails, and a check that is under way may not have seen it yet.
ServerFailed == disturbed' = TRUE /\ check' = [check EXCEPT !.failed = check.pc # "none"]

StopPod ==
    /\ process["pod"].pc # "down"
    /\ process' = [process EXCEPT !["pod"] = Off]
    /\ call' = NoCall
    /\ check' = NoCheck
    /\ inService' = FALSE
    /\ UNCHANGED <<backend, readable, starts, lastUsedFallback, prediction, disturbed>>

StopServer ==
    /\ process["server"].pc # "down"
    /\ process' = [process EXCEPT !["server"] = Off]
    /\ ServerFailed
    /\ UNCHANGED <<backend, readable, starts, lastUsedFallback, call, prediction, inService>>

-----------------------------------------------------------------------------
\* A FallbackRoutingModelEngine is around every primary that could be built.
Wrapped == process["pod"].engine \in {"artifact", "http"}

\* Mutant: the flag of the call before is not reset.
FlagOnEntry_Kept == lastUsedFallback

FlagOnEntry == FALSE

\* The engine is called; but for the model server's it answers at once.
AskModel ==
    /\ process["pod"].pc = "up" /\ inService
    /\ call.pc = "none"
    /\ lastUsedFallback' = IF Wrapped THEN FlagOnEntry ELSE lastUsedFallback
    /\ call' = IF process["pod"].engine = "http"
               THEN [NoCall EXCEPT !.pc = "asked"]
               ELSE AnsweredBy("pod")
    /\ UNCHANGED <<backend, readable, process, starts, prediction, check, inService, disturbed>>

\* The response does not say to the pod by which engine.
ServerAnswers ==
    /\ call.pc = "asked"
    /\ process["server"].pc = "up"
    /\ call' = AnsweredBy("server")
    /\ UNCHANGED <<backend, readable, process, starts, lastUsedFallback, prediction,
                   check, inService, disturbed>>

\* The server is down, or the call meets its timeout, an error or a body that
\* is no prediction: the pod's heuristic answers.
CallFails ==
    /\ call.pc = "asked"
    /\ lastUsedFallback' = TRUE
    /\ IF process["server"].pc = "up" THEN ServerFailed ELSE UNCHANGED <<disturbed, check>>
    /\ call' = [pc |-> "answered", at |-> "fallback", engine |-> "heuristic",
                torn |-> FALSE, excused |-> disturbed']
    /\ UNCHANGED <<backend, readable, process, starts, prediction, inService>>

\* predict_with_metadata reads the flag after the call, if there is one.
ReadFlag ==
    /\ call.pc = "answered"
    /\ prediction' = [at |-> call.at, engine |-> call.engine, torn |-> call.torn,
                      excused |-> call.excused, flagged |-> Wrapped /\ lastUsedFallback]
    /\ call' = NoCall
    /\ UNCHANGED <<backend, readable, process, starts, lastUsedFallback, check,
                   inService, disturbed>>

-----------------------------------------------------------------------------
\* The checks, in their order.
Checks == <<"database", "redis", "model_serving">>

\* Mutant: the model server is not asked.
Asked_NotModel(d) == d \in Enabled

\* A check that is not asked is skipped, and does not count.
Asked(d) == d \in Enabled \/ (d = "model_serving" /\ backend = "http")

CheckBegins ==
    /\ process["pod"].pc # "down"
    /\ check.pc = "none"
    /\ check' = [NoCheck EXCEPT !.pc = Checks[1]]
    /\ UNCHANGED <<backend, readable, process, starts, lastUsedFallback, call,
                   prediction, inService, disturbed>>

\* One dependency after the other; a failed one does not end the check. A
\* server that is up may also fail its probe.
Ping(i) ==
    /\ check.pc = Checks[i]
    /\ \E answered \in BOOLEAN :
          /\ Checks[i] = "model_serving" /\ answered => process["server"].pc = "up"
          /\ check' = [check EXCEPT
                !.pc = IF i = Len(Checks) THEN "answer" ELSE Checks[i + 1],
                !.ok = @ /\ (Asked(Checks[i]) => answered)]
    /\ UNCHANGED <<backend, readable, process, starts, lastUsedFallback, call,
                   prediction, inService, disturbed>>

\* 200 puts the pod into service; 503, or no answer in time, takes it out in
\* the end.
CheckEnds ==
    /\ check.pc = "answer"
    /\ inService' \in IF check.ok THEN {TRUE} ELSE {inService, FALSE}
    /\ disturbed' = IF check.ok THEN check.failed ELSE disturbed
    /\ check' = NoCheck
    /\ UNCHANGED <<backend, readable, process, starts, lastUsedFallback, call, prediction>>

CheckTimesOut ==
    /\ check.pc # "none"
    /\ check' = NoCheck
    /\ inService' \in {inService, FALSE}
    /\ UNCHANGED <<backend, readable, process, starts, lastUsedFallback, call,
                   prediction, disturbed>>

ServingNext ==
    \/ \E f \in Replaced : BeginReplacing(f) \/ EndReplacing(f)
    \/ \E p \in {"pod", "server"} : StartProcess(p) \/ LoadArtifact(p)
    \/ StopPod \/ StopServer
    \/ AskModel \/ ServerAnswers \/ CallFails \/ ReadFlag
    \/ CheckBegins \/ (\E i \in DOMAIN Checks : Ping(i)) \/ CheckEnds \/ CheckTimesOut

ServingSpec == ServingInit /\ [][ServingNext]_serving

-----------------------------------------------------------------------------
\* Every variable of the model serving holds values of its type.
ServingTypeOK ==
    /\ readable \subseteq AllFiles
    /\ \A p \in {"pod", "server"} :
          /\ process[p].pc \in {"down", "starting", "up"}
          /\ process[p].engine \in {"none", "artifact", "http", "heuristic"}
          /\ process[p].loaded \in 0..Len(ModelFiles)
    /\ call.pc \in {"none", "asked", "answered"}
    /\ check.pc \in {"none", "answer"} \cup {Checks[i] : i \in DOMAIN Checks}
    /\ {lastUsedFallback, inService, disturbed} \subseteq BOOLEAN

\* used_fallback, by which the guardrail hands over (README.md "Force handoff
\* if model used fallback"), says of every prediction whether the pod's
\* stand-in gave it, of that one and not of an earlier one. A heuristic answer
\* without the flag was configured, or comes from a process that met an
\* unreadable artifact while it started, in the pod or in the model server.
FlagTellsTruth ==
    /\ prediction.flagged <=> prediction.at = "fallback"
    /\ prediction.engine = "heuristic" /\ ~prediction.flagged =>
          backend = "heuristic" \/ prediction.torn

\* Traffic meets the stand-in only after a failure: the model server went away
\* or failed a call since the readiness check began that put the pod into
\* service.
FallbackFollowsFailure == prediction.at = "fallback" => prediction.excused
==============================================================================
