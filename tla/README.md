# A TLA+ model of the decision platform

This directory specifies and verifies the control logic of the industry-agnostic
decision platform: the service that takes a request (a ticket, a claim, a
complaint), retrieves evidence, scores it with a routing model, decides between
an automatic answer, an abstention and an escalation, hands what it does not
answer to human reviewers, and rolls a challenger model out with the ground
truth the reviewers produce.

Paths are relative to the repository (`src/` in `PROJECT.json`). The code is the
reference: every definition is translated from it, and `PROJECT.json` names the
lines each stands for.

- [The system](#the-system)
- [Modules](#modules)
- [Runs](#runs)
- [Fairness](#fairness)
- [Theorems](#theorems)
- [Where the code and its documentation disagree](#where-the-code-and-its-documentation-disagree)
- [What is not modelled](#what-is-not-modelled)
- [Plan](#plan)
- [Running it](#running-it)

## The system

FastAPI pods serve `POST /v1/decide`. All of them share one PostgreSQL database,
one workflow engine (Temporal), one event bus (Pub/Sub), one OPA and one Redis.
Inside a pod the handlers are coroutines of one event loop; they interleave at
`await`s and nowhere else, except for what is sent to worker threads (retrieval,
store calls). Scheduled jobs (evaluation, rollout, recalibration) work on the
same database. Human reviewers and customers come in through further routes.

| Component | Code | State | Operations | Talks to |
|---|---|---|---|---|
| Decision orchestrator | `app/services/orchestrator.py` | the locals of each running `decide()`, the cached canary percentage | `decide` | everything below, in a fixed order, one await each |
| Policy, guardrail, confidence | `app/services/policy.py`, `policy/decision.rego`, `orchestrator.py`, `utils/confidence.py` | none | `evaluate`, `_guardrail_reasons`, `compute_final_confidence` | OPA over HTTP, local rules when it fails |
| Inference store | `app/storage/inference_store.py` | `inference_requests`, `inference_results`, `handoffs` | `fetch`, `persist` | database |
| Model ops store | `app/storage/model_ops_store.py` | `model_shadow_predictions`, `model_rollout_config` | `persist_shadow_prediction`, `get_rollout_config` | database |
| Handoff queue | `app/storage/handoff_store.py` | `handoffs.queue_status`, `reviewer_outcomes` | `list`, `update_queue_status` | database, mirrored into `feedback_events` |
| Feedback and ground truth | `app/storage/feedback_store.py`, `migrations/0004_*` | `feedback_events`, view `vw_latest_ground_truth` | `persist` | database |
| Canary rollout | `scripts/promote_canary.py` | `model_rollout_config`, `model_rollout_events` | evaluate, promote, roll back | database |
| Live rollout validation | `scripts/validate_live_rollout.py` | none (reads) | `validate_live_rollout` | database, Prometheus |
| Circuit breaker | `app/utils/circuit_breaker.py` | state, counters, probe count, time of the last failure | `call`, `_on_success`, `_on_failure` | wraps a dependency |
| Backpressure limiter | same file | a semaphore and two gauges | `acquire`, `release` | wraps a dependency |
| Routing, model serving | `app/services/routing.py`, `model_serving.py`, `model_server/`, `app/api/deps.py` | the engine each process could load, the flag of the fallback engine | start, `predict_with_metadata` | artifact files, the model server, heuristic stand-ins in both processes |
| Generation | `app/services/generation.py` | none | `build_grounded_response` | model backend |
| Evaluation pipeline | `scripts/build_daily_evaluation.py`, `compute_*_metrics.py`, `run_model_ops_daily.py` | `evaluation_daily_dataset`, `evaluation_daily_metrics`, `drift_daily_metrics` | build, metrics, drift of a day, one transaction each | database: the answers, the shadow rows, the ground truth |
| Recalibration | `scripts/recalibrate_models.py` | two artifact files, `model_calibration_runs` | `recalibrate` | the dataset; the files are read by model serving, the rows by the live validation |
| Release gates | `scripts/production_readiness_gate.py`, `compute_business_scorecard.py` | none (reads) | the gate, the scorecard | database, through the live validation as well |
| Rate limiter | `app/security/rate_limit.py` | token buckets in Redis, one per tenant and action, one per user of both | `enforce` | Redis (one Lua script per bucket) |
| Model registry | `app/services/model_registry.py` | artifacts, their stages and the lineage, in memory | `register`, `promote` | none |
| Chunk store, retrieval | `app/storage/in_memory_store.py`, `postgres_store.py`, `services/retrieval.py` | the list of chunks of a pod | `load_chunks`, `reload_chunks`, `retrieve` | chunks file, database, worker threads |
| Event bus, workflow engine | `app/integrations/` | the attempt of a running retry loop | `publish`, `start_handoff` with retries | Pub/Sub, Temporal |
| Secrets, key rotation | `app/security/secrets.py` | cached secrets of a pod | `get_secret`, `rotate_secret`, the rotation policy | Vault |
| Authentication, routes | `app/security/auth.py`, `app/api/` | none | token, permission and tenant checks before every charge | identity provider |
| Readiness | `app/services/readiness.py` | none | the checks of `/ready`, one after the other | database, Redis, model server; Kubernetes acts on the answer |
| Migrations | `scripts/migrate.py`, `migrations/` | `schema_migrations` | `apply_migrations` | database |
| Redaction, injection scan, text | `app/security/`, `app/utils/` | none | pattern matching | none |
| Observability, tooling, MCP server | `app/observability/`, `scripts/`, `mcp_server/` | counters | export | none |

### What is hard, and what makes each part correct

- **Orchestrator.** Up to nine awaits, from the lookup of a stored answer to the
  last event; retries of the same request overlap, pods die anywhere, every
  dependency may fail and most failures are swallowed. Correct means: a draft
  only goes out on numbers of the selected model that clear policy and
  guardrail; decision, policy result and payload agree; what is stored and what
  is queued agree; a replay answers the same request; a call always answers.
- **Stores.** Transactions of overlapping calls on one request id; upserts that
  replace the rows of another request. Correct means all or nothing, and rows
  that belong together.
- **Handoff queue and ground truth.** Reviewers patch concurrently, in any order
  of statuses; a patch writes three tables; evaluation reads a view over two of
  them. Correct means that a closed handoff has ground truth, and that it is the
  right reviewer's.
- **Canary rollout.** Runs of the script overlap and read without a lock; pods
  read through a cache while the database may fail. Correct means stages in
  order, a log whose order is that of the changes, bounded staleness after a rollback, and a
  validated rollout that was earned.
- **Circuit breaker.** Results arrive after the state they were admitted in has
  gone; calls are cancelled; probe slots are finite. Correct means bounded
  probes, trips on consecutive failures only, recovery.
- **Backpressure limiter.** A timeout may fire after a waiter was granted its
  slot. Correct means that no slot and no wake-up is lost, in order of arrival.

- **Evaluation pipeline.** Jobs delete and rebuild days while requests are
  answered again and labelled; a statement fails when a request has two events
  under one key; later transactions of a pipeline may not happen. Correct means
  that an evaluated day stays evaluated, that no answer counts twice, and that
  reports belong to the dataset they were made from.
- **Recalibration.** Files and database rows are written one after the other and
  nothing joins them. Correct means that what is recorded is installed, and that
  fits use judged answers.
- **Release gates.** The gate reads the rollout row, its log and the evidence of
  many days statement by statement while the promotion script commits and
  midnight passes. Correct means that a release was earned stage by stage and
  day by day, and that no rollback is released.
- **Admission.** Pods note the time, the scripts run later, in any order, on keys
  that expire, and Redis may fail after it has run one. Correct means bounded
  charges, and refusals only of what was used up.
- **Event bus and workflow engine.** Requests and acknowledgements are lost,
  arrive late, and are retried. Correct means an `ok` only for what arrived,
  bounded duplicates, events in their order, and an end.
- **Model serving.** Three places may put a heuristic in the place of the model:
  the pod at its start, the pod at a call, the model server at its start. Correct
  means that the flag the guardrail reads belongs to the answer it comes with.
- **Secrets, chunks, migrations, registry.** A fetch that began before a rotation
  ends after it; a list is cleared and filled while others walk it; migrations
  overlap and die; artifacts change stages in any order.

`PROJECT.json` lists the hazards one by one, with the line where each bites and
the properties that cover it.

## Modules

| Module | Models | Builds on |
|---|---|---|
| `DecisionPolicy` | confidence, local and Rego rules, guardrail, as operators on integers | |
| `Orchestrator` | `decide()` with its stores, workflow engine and event bus | `DecisionPolicy` |
| `OrchestratorProofs` | theorems about it | `Orchestrator` |
| `CircuitBreaker`, `CircuitBreakerProofs` | the breaker under concurrent callers | |
| `BackpressureLimiter` | the limiter over asyncio's semaphore | |
| `Sending` | what a sender promises: the abstract specification | |
| `Delivery` | the retry loops of event bus and workflow engine | implements `Sending` |
| `WaitingProofs` | theorems about limiter and deliveries | `BackpressureLimiter`, `Delivery` |
| `HandoffQueue`, `HandoffQueueProofs` | queue, reviewer outcomes, feedback, ground truth | |
| `CanaryRollout`, `CanaryRolloutProofs` | promotion script, rollout row, pods' cache | |
| `BusinessScorecard` | the ten KPIs, as operators over days | |
| `ReleaseGates` | live validation and readiness gate over a calendar | `CanaryRollout`, `BusinessScorecard` |
| `ReleaseProofs` | theorems about it | `ReleaseGates`, `CanaryRolloutProofs` |
| `EvaluationPipeline` | the daily dataset, metrics and drift under jobs that interleave | |
| `Recalibration` | samples, artifact files and record | `EvaluationPipeline` |
| `RecalibrationProofs` | theorems about both | `Recalibration` |
| `Admission` | tokens, permissions, tenant access, both token buckets | |
| `ModelServing` | which engine answers, the fallback flag, readiness | |
| `ChunkStore` | the chunk list under reloads and retrievals | |
| `Secrets` | the Vault cache of the pods under a rotation | |
| `Migrations` | `migrate.py` under overlapping deployments | |
| `ModelRegistry` | stages, lineage and the active artifact | |
| `ServicesProofs` | theorems about the last six, each by itself | the components |
| `MCWaiting`, `MCServices` | components that share no state, side by side | the components |
| other `MC*` | small instances for TLC | |

### Orchestrator

A *call* is one invocation of `decide()`. `pc[c]` is the await the call is at;
each action is the code from one await to the next, so that other calls run
exactly where the event loop can switch to them.

| `pc` | the call is waiting for | action that leaves it |
|---|---|---|
| `idle` | its client | `Arrive` |
| `fetch` | the lookup of a stored answer | `Replay`, `Miss` |
| `retrieve` | retrieval on a worker thread | `Retrieve`: filters tainted chunks, scores both models |
| `canary` | the rollout percentage | `ResolveCanary`: picks the variant |
| `shadow` | the insert of the shadow row | `PersistShadow` |
| `policy` | OPA or the local rules | `Decide`: policy, guardrail, generation, payloads |
| `workflow` | the workflow engine | `StartWorkflow` |
| `persist` | the transaction | `Persist` |
| `completed`, `created` | the event bus | `PublishCompleted`, `PublishCreated` |

`done` is answered, `lost` is a call whose pod died (`Crash` takes any set of
running calls with it: the calls of a pod). A call draws a fresh trace id and a
fresh handoff id, so rows, workflows and events are identified with the call
that made them: `stored[i]` is the call whose rows the request id `i` holds,
`handoffs` the calls whose handoff row was inserted, and so on. `answer[c]` is
`c` itself or, for a replay, the call whose stored response was returned.
`before[c]` is a history variable: the calls that had ended when `c` arrived.

`LookupAnswers` says whether the store can answer the lookup. PostgreSQL cannot:
it refuses the query for an untyped parameter (finding 2 below), so that `Replay`
is reached only with a store that answers, like the one of
`tests/test_idempotent_replay.py`. `durability` and the theorems cover both;
`decide`, `retries` and `shadow_kept` run with the store the code has. The lookup
compares every column of a request; `max_evidence_chunks` is none and is left out
of the model's requests. An exception of retrieval or of an artifact engine's
`predict` is outside any `try` of `decide` (`orchestrator.py:153`) and reaches the
route's handler; such a call is not modelled.

`Faults` says which dependencies may fail, and each failure is a disjunct of the
step that calls the dependency: `fetch` (an error is a miss), `persist` (rolled
back and swallowed), `shadow`, `opa` (local rules take over), `backend` (no
draft), `workflow` (not started), `lostack` (started, not known), `publish`.

Probabilities are integers in hundredths, confidences integers in
ten-thousandths, which is the precision the code rounds to before it compares.
`HighRiskBump` is 501 rather than 500: in floating point `0.65 + 0.05` is above
`0.70`, so the local rules reject a high-risk request of confidence 0.7000.
A prediction is any tuple of scores from the sets the configuration gives; the
evidence pack is any set of chunks; texts are members of a small set.

### CircuitBreaker

Admission and the recording of a result are one step each, because the asyncio
lock is never held across an await; the dependency runs between them. `period`,
`goodRun`, `badRun` and `leaked` are history variables that only properties
read: the callers admitted since the breaker last went half-open, the results
recorded since the last failure and the last success, and whether a probe of
the period was cancelled. Time is the one fact the code asks for: that the
recovery timeout has elapsed since the last recorded failure.

### BackpressureLimiter

The semaphore is the one of asyncio in Python 3.13 (external code, modelled from
how the class uses it): a waiter is *granted* a slot when another task releases
one, and resumes at a later turn of the loop; its timeout or its cancellation
may reach it in between (`revoked`), and then it hands the slot on. The line is
kept as the set of tasks `ahead` of each, which is what "first come, first
served" is about: a release wakes the first task in line that is still pending
(`Woken`). The limiter is used as `async with limiter`, so `release` follows a
successful `acquire`.

### HandoffQueue

A patch takes the timestamp of its transaction when it begins (PostgreSQL's
`NOW()`) and updates, inserts and mirrors in one commit (`Apply`), or does
nothing (`Abandon`: a row of another tenant, a payload that does not parse, a
database error). `GroundTruth(r)` is `vw_latest_ground_truth`: the latest
reviewer outcome, or else the latest feedback event. Request ids are abstracted
to what the two stores do with them: a UUID is kept, anything else is hashed
under a scope that differs between the stores.

### CanaryRollout

A run of the script reads the row and its metrics window (`ReadConfig`) and
later sets the row and adds the event (`Commit`), in one READ COMMITTED
transaction that does not lock what it read. The log is a set: its readers order
it by `created_at`, which is the start of the transaction that logged it, so a run
takes its place in the log when it begins and not when it commits (`Stamps`).
`overtaken` is history: the run that changed the row last began before one that is
in the log already. Then the log need not end at the row: with the row at 25, run A
(to 50) begins, run B (a rollback to 5) begins and commits, A commits; the row
holds 50 and the log ends at 5. `LogMatchesRow` excepts that and nothing else. The metrics of a window are
abstracted to how each compares with its gate (`within`, `below`, `missing`).
Lookups of a pod are the three moments of `_resolve_canary_percent`: the time is
noted, the database answers a worker thread, the event loop writes the cache.
Time is ages in ticks that stop counting above the TTL; `held[k]` is history, the
percentages the row held `k` ticks ago.

### BusinessScorecard and ReleaseGates

A `day` is what a past day has left in the tables: the aggregates of the
challenger's canary rows, drift, alerts, the workload feed, the primary's
labelled answers, reviewers, closed handoffs, controls and calibration runs.
`EndDay` picks one of the kinds the instance offers and keeps of it what the
variants that served on that day can have left (`Left`): a canary at 0 % leaves
no canary rows, one at 100 % no primary rows. The promotion script is that of
`CanaryRollout`, its window now drawn from the days (`Pools`).

The gate is a process: `GateBegins` reads the rollout row and fixes the end
date, `GateValidates` the log of the rollout, with the rest of
the live validation, `GateDecides` the scorecard and the controls. Between them
the script commits and midnight passes; `GateFails` is a database that goes away.
`verdict` remembers the release that passed and what the gate had read when it began.

KPIs are fractions compared by cross-multiplication; a null numerator or
denominator follows the SQL. Abstractions: one tenant and section; a control
and a calibration run are dated by their day; a run of the promotion script
does not go on past midnight.

### EvaluationPipeline and Recalibration

`dataset[d]`, `metrics[d]` and `drift[d]` are the rows of day `d`;
`Events(d)` is `vw_model_prediction_events`: the current answers to requests,
by the day of the request (an upsert keeps `created_at`), and the shadow
predictions by their own day. `Answer` and `Label` are what the orchestrator and
the handoff queue do to those tables, seen from the jobs: a call upserts its
rows and may add a shadow row, a verdict replaces the ground truth.

A job is a process at its next transaction, `build`, `metrics` or `drift`: a
script by itself, or the pipeline that does the three in a row. Each transaction
is two steps, its two statements: `Delete` deletes the rows of the day that are
there (`drift` has read its points before), the action named after the script
inserts the rows as they are by then and commits. Between two steps other jobs and
calls run, on the same day too; `txn` holds what an open transaction has deleted,
and `DatasetAfter`, `MetricsAfter` and `DriftAfter` leave in place what another job
has inserted since under other keys. `Fail` is a transaction that
rolls back and a process that ends. `BuildDailyDataset` has no successful
outcome when two events of its day collide under one key (`Collides`), because
`ON CONFLICT DO UPDATE` does not touch a row twice: the whole transaction fails.

Abstractions: one tenant and one section (rows of others are apart by key); of a
drift point only whether it exists and whether it can be an alert; one prediction
is a decision and a route. A transaction of a request commits on the day it
began. A transaction that must wait for a row of another one is modelled from the
time when it goes on, and the INSERT and the commit are one step, as are the reads
and the DELETE of drift.

`evaluated` and `fresh` are history: the days with a successful build after they
were over, and the tables of a day recomputed since its last build (and that build
itself) by a transaction that has met no rows of another one (`Alone`). Two builds
of one day that overlap, with an answer by the other variant between them, leave
both rows of the request, and `AnswersCountOnce` claims nothing of such a day until
it is built again; `ReportsDescribeDataset` likewise.

In `Recalibration`, `fit` is the next step of the run in progress (0 when there
is none), and `artifact[s]` tells which run wrote a file and whether to the end.
Runs follow one another and are for the primary.

### Sending and Delivery

`Sending` promises of a job an answer, `ok` only for what arrived, and at most
`AtMost` copies, of which some may arrive after the answer. `Delivery` is the
code: the jobs of one decision in their order (`start_handoff`, then the two
events), each with its retry loop, the sleep between attempts (`backoff`), an
attempt that is lost, acknowledged or not, or still under way when the client
gives up (`late`), and the death of the pod. `SendingImplemented` is the
refinement: `verdict` and `copies` are mapped in `Promise`. It is also what
lets `Orchestrator` take a call of these services as one step that may fail with
or without effect. A workflow id is refused while its execution is open, not
after it has ended, so that a late start may run a second time.

### Admission

`Enter` is the authentication, the permission and the tenant check and the
pod's reading of its clock; `Charge` and `Refuse` are the Lua script on the
tenant's key and, at a later step, on the user's. The script is translated on
integers: whole refill periods, the remainder kept, the expiry in whole seconds
of Redis' own clock. `ScriptFails` covers both settings of
`rate_limit_fail_open` because neither asks another bucket. `charges` is
history: the times at which a key gave a token. The bound is stated over every
stretch of that log and allows `Slack`, the time by which two noted times may be
out of order.

### ModelServing

`process` is the pod and the model server: each loads its artifacts in order at
its start and serves the heuristic when one cannot be read. `call` is the
prediction of the pod in progress; `predict` is synchronous on the event loop, so
a pod has one at a time and the flag is read with its own call. `check` walks
the checks of `/ready`, and `inService` is what Kubernetes makes of the answer,
late if it must. `torn` and `disturbed` are history: a start that met an
unreadable file, and a failure of the server since the check that put the pod
into service began. The challenger's engine is a second instance of this code.

### ChunkStore, Secrets, Migrations, ModelRegistry

- `ChunkStore`: `reload_chunks` is three steps, load, `clear()`, `extend()`;
  `retrieve` walks the list by index, as an iterator of a Python list does.
  `offered` is history: what the overlapping reloads have read.
- `Secrets`: a read is a hit, or a question to Vault, Vault's answer and the
  store into the cache, each a step of a thread without a lock. A rotation posts
  and then forgets the entry of its own pod.
- `Migrations`: the applied versions are read once; a file and its row of the
  ledger are one transaction; a row of another transaction makes the insert
  wait or fail. `schema` is what is in effect.
- `ModelRegistry`: `Register`, `Move` and `Release` are `register`, `promote` to
  another stage and `promote` to production. A rollback is a promotion like any other.

### MCWaiting and MCServices

These two compose components that share no state. Interleaving them would
multiply their states and show nothing, so a rigid variable `focus` is chosen
initially and says which of them moves; every property is checked over the whole
instance of its component, and the actions of the others are disabled by their
guard.

## Runs

| Run | Instance | Shows |
|---|---|---|
| `decide` | 2 overlapping calls out of three requests (two share an id and differ in risk; one holds an escalation term), both models, canary at 0 or 25 %, OPA that may fail, generation that may fail, workflow and shadow failures, a lookup that never answers | drafts are justified, the three accounts of an outcome agree, every call answers, decided handoffs reach the queue |
| `durability` | 3 calls, 2 at a time, on one request id with two risk levels, a lookup that answers or fails, a crash, failing transactions, lost acknowledgements | replays are faithful; rows and queue agree |
| `at_most_once` | 2 overlapping calls of one request, a lookup that answers, nothing fails | violated: both create a handoff |
| `retries` | 2 calls of one request, one after the other, nothing fails but the lookup | violated: the retry is processed again |
| `shadow_kept` | 2 calls, nothing fails | violated: the shadow row of a new request is lost |
| `breaker_default` | the defaults (5 failures, 1 probe, 2 successes), 2 callers | violated: it never closes again |
| `waiting` | a breaker with 3 callers, thresholds of 2, 2 probes and cancellations; a limiter with 4 callers, 2 slots, timeouts and cancellations; a decision's workflow and two events, 2 attempts each, losses, late arrivals, a death of the pod | probes bounded, trips and closes on consecutive results, recovery; slots conserved, first come first served, no endless wait; the retry loops implement `Sending`, events arrive in order, every delivery ends |
| `services` | seven components side by side (bounds below) | charges bounded and refusals justified; rotated secrets gone in time; the chunk list made of whole versions, empty results explained; the ledger is the schema; one artifact in production, explained by the lineage; the fallback flag true and the fallback excused; closed handoffs have ground truth, tables agree, the latest patch decides |
| `evaluation` | one request that is answered again, a shadow row, two days, two job runs that interleave statement by statement, two recalibrations | evaluated days stay evaluated, no answer counts twice and reports describe the dataset unless transactions of one day overlapped, recorded calibrations are installed |
| `unlabeled_fit` | one request, one build, one recalibration | violated: an answer nobody judged is an escalation sample |
| `release` | five days, one run of the script at a time, 6 applied changes, four kinds of day, the gate in its three reads | a release was earned by stage and by day, stood at 100 % when the gate began, needs the primary; stages in order |
| `rollout_cache` | 2 overlapping runs, 2 overlapping lookups of a pod, TTL of 2 ticks, a database that may fail | staleness bounded by the TTL; the log ends at the row, overtaken runs excepted |

**Bounds.** Calls: two are enough for every race on a request id (a lookup and a
persist of two calls); the third lets a call replay what two others left behind.
Calls, runs and patchers of symmetric sets are permuted where no liveness is
checked. The database rows of one request id are independent of those of
another, so one or two ids suffice. `MaxCrashes` bounds crashes and
`MaxInFlight` concurrency. In `CircuitBreaker` the counters stop at `CounterCap`,
which is at least every threshold, so that no comparison changes; the theorems
hold for every cap. In the limiter, `WaitingCap` bounds the gauge that
cancellations leak. In `CanaryRollout` ages above the TTL are not told
apart because the code compares with the TTL only. Two ticks of TTL let a write
of the cache fall before, at and after its end.

In `waiting`, two attempts are the least that has a first, a last and a backoff
between them, and three jobs the most a decision has; four callers keep two in
line behind two holders.

In `release`, six events climb the four stages with a rollback and a second
promotion between, the least a passing gate needs. The windows are shortened
with the calendar: a window and a quality window of two days, a baseline and a
lookback of one each, a stable streak of up to three days, a week of two. Five days are one baseline, a window, the day of the gate and two
for it to slip into; a pass needs days that differ, which the kinds of day give.

In `services`:

| Component | Instance | Why it is enough |
|---|---|---|
| admission | 2 calls of one user and an expired token, a tenant limit of 2, a user limit of 1, a window of 4 ticks, a second of 2, delays of 1 tick, 6 ticks, 4 charges per key | both limits are met, refill periods of 2 and 4 ticks have a remainder, keys expire, and the clock runs longer than a refill of each bucket; the pods' clocks agree (`Skew` 0), and what they could be off by acts like the delay |
| chunks | 2 versions of a file that two tenants share, 2 reloaders, 1 retriever, 3 reloads, 3 queries | two reloads overlap in every order, and a third follows both |
| handoffs | 3 handoffs on 2 requests of 2 tenants, 2 patchers, 3 stamps | an outcome, a later and an overlapping patch; two handoffs of one request; one that does not parse |
| migrations | 3 deployments of 2, 3 and 2 files (one edited), each run up to twice | an older and a newer checkout and an edited file, overlapping and repeated |
| registry | 3 artifacts of 2 types, 3 stages, 5 events | a release, a second one that supersedes it, and a demotion before or after |
| secrets | 2 pods, 3 threads, a lifetime of 2 ticks, fetches of up to 1, 1 rotation, 4 ticks | two threads of one pod race with each other and the rotation; the other pod does not know of it |
| serving | both backends, the database check, 4 artifacts of which one is replaced, 2 starts per process | a restart on either side of a replacement, a failure on either side of a check |

In `evaluation`, one request on two days meets itself in every way (answered
again by the other variant, in shadow, labelled before and after a build; one
shadow row collides with the canary's answer of its day), two
job runs let a rebuild fall between the statements of another and the steps of a pipeline, and the second
recalibration tears what the first has recorded; the theorems hold for every
number of each.

**Deadlock** is checked in `rollout_cache`. The orchestrator's
calls, the deliveries of a decision, and the bounded calendars, clocks, runs and
logs of the other instances come to an end, so their configurations turn the
check off.

Every property of a passing run has a *mutant* in `PROJECT.json`: a definition
replaced by a plausible bug (named `<definition>_<Bug>` next to the original),
under which TLC finds the property violated.

## Fairness

- `Orchestrator!FairSpec`: weak fairness of each call's steps. OPA (3 s), the
  model backend and the event bus have client timeouts, retrieval and scoring
  are local, and the failure of a store or an engine is caught and passed over.
  Of the database and of Temporal the code sets no timeout: there, that they
  answer or break the connection is an assumption. Nothing is assumed of
  clients or crashes.
- `CircuitBreaker!BreakerFairSpec` and `MCWaiting!BreakerFairness`: a call of the
  dependency ends (its client has a timeout), time passes, and callers keep calling. The last holds of a service
  that still gets requests; a breaker without traffic stays where it is.
- `MCWaiting!LimiterFairness`: a task that can run does, a timeout that has
  reached its waiter is handled, and a holder's call ends. That a timeout fires
  is not assumed: waiters are served without it.
- `MCWaiting!SenderFairness`: the event loop comes back to a sender after its
  sleep, and a client call ends, with an answer, an error or its own timeout.
  Pub/Sub's `result(timeout=...)` has one; of the Temporal client the code sets
  none, and there it is an assumption. That anything arrives is not assumed.
- The other components have no liveness property: runs, patches, reloads and
  rotations happen when people or schedules start them, a caller of the rate
  limiter is answered in two steps, and Kubernetes gives no promise by when a
  pod is in service again.

## Theorems

Each proof module extends its component, states an inductive invariant (`IInv`,
or named after the component), proves that it holds initially, that each action
preserves it (a lemma per action or group), and that it implies the properties.
All hold for every value of the constants that the component's assumption allows.
`PROJECT.json` lists the theorems with the property each states: every safety
and action property of a passing run is one of them, and so is the refinement of
`Sending`.

- **OrchestratorProofs.** `TypeCorrect` comes first and is used as a fact of the
  second invariant. The properties are not inductive alone: whether a draft is
  justified depends on what the call computed awaits ago. `IInv` adds `PhaseInv`
  (what a call at each `pc` has and has not built, which rows and events carry
  its name, and that only a returned call has an answer) and `Untainted`. From
  it follow `DraftsJustified`, `Consistent`, `StoredComplete`, `ReplaysFaithful`
  and, for a database that does not fail (`"persist" \notin Faults`),
  `AnnouncedQueued`. They hold of any number of calls, crashes and faults, with a
  store whose lookups answer and with one whose lookups do not.
- **CircuitBreakerProofs.** `IInv` counts: the number of callers of a half-open
  period is the number of probes, which is at most `HalfOpenMaxCalls`, and the
  history counters agree with the code's. It gives `ProbesAreBounded`,
  `TripsOnTime` and, as an action property, `ConsecutiveResults`.
- **CanaryRolloutProofs.** `IInv` says of each lookup and each cache entry that
  its percentage was held within its age (`Recent`); dating an entry when the
  lookup *began* is what makes it inductive, and the reason why a slow lookup
  that writes late does no harm. It gives `StalenessBounded` and `LogIsHistory`:
  a commit that is not overtaken has the latest stamp of the log (`CommitEndsLog`).
  With one run at a time no commit is (`BeganLast`), and the log always ends at
  the row (`OneRunLogIsHistory`).
  Besides, no promotion is logged on a window that blocks it, however runs overlap
  (`PromotionsAreSupported`); and `OneRunMovesStageByStage` has the hypothesis that
  there is one run, which is where two overlapping runs break `StageByStage`: its
  core is `RowAsRead`, the run in progress has read the row as it is.
- **RecalibrationProofs.** A request keeps the day of its first answer, so that
  `AnswersDated` (an inference row stands on the day of its request) is
  inductive and a rebuild cannot move an answer; a transaction that met no rows of
  another leaves exactly its own, so that it does not double one either; no answer can
  be added to a day that is over, so that a build of such a day is complete for
  good. `CalibrationInv` says which files the run in progress has written. They
  give `DaysStayEvaluated`, `CountedOnce`, `ReportsMatch` (whose core is
  `JudgedDays`: a metrics row has an accuracy exactly if its variant has a
  labelled row) and `RecordsInstalled`. `ReadingHolds` carries what an open drift
  transaction has read to its commit: a build in between voids it.
- **ReleaseProofs.** `ReleaseImplementsRollout` shows that the calendar and the
  gate leave the rollout as it is (`ReleaseSpec => Spec`), so that everything
  proved of the rollout is a fact here. `ReleaseInv` says what the gate has read:
  it ended yesterday or earlier, its part of the log stays in the log, and those
  days cannot change any more (`EarnedStays`); what passes the live validation was
  earned by that log and those days. `ReleasedRolloutsStood` has the hypothesis that
  there is one run of the script at a time: only then does the log end at the row.
  The checks that look for the earliest or the latest of several days rest on `Least` and `Greatest`, proved from the library's
  theorem that finite sets have no infinite descent. `PassNeedsPrimary` goes
  through the KPIs: without a row of the primary one of them is null.
- **WaitingProofs.** `DeliveryInv` accounts for copies: those made, those under
  way and the one being attempted never exceed the attempts. With it each step of
  `Delivery` maps to a step of `Sending` or a stutter. `LimiterInv` says that the
  tasks in line are totally ordered by `ahead`, and that the waiting gauge covers
  them; `RankGrows` (a task behind another has more pending tasks before it)
  makes the woken task unique. `Fifo` follows, as an action property.
- **HandoffQueueProofs.** `QueueInv` says what a patch that waits for its row may
  rely on when it gets it: its stamp is nobody else's, and each outcome belongs to
  the request and tenant of its handoff. From different stamps follows that the
  latest outcome is unique, which is `TheLatestPatchDecides`; a row that a reviewer
  closed never loses its last outcome.
- **ServicesProofs**, seven invariants that share nothing:
  - `MigrationsInv`: a run is at most one file beyond what is in effect, an
    inserted row is that of the next version, and only one run holds it (`InStep`).
  - `RegistryInv`: one event that starts at the artifact's stage keeps the lineage
    an explanation (`EventExplains`); a release appends two, in that order.
  - `SecretsInv` dates a value by the rotation that ended it (`ValueSince`): a read
    in progress holds one that was Vault's when it asked, an entry one that was
    Vault's a fetch before it was stored.
  - `ServingInv`: a process that started by an unreadable file is marked; a
    prediction in progress keeps its engine and its flag; a server that is down
    behind a passed check failed after the check began.
  - `AdmissionInv` accounts for tokens from both sides (`Filled`): from any charge
    on, no more was given than the limit and a token per period since, and the
    tokens that are missing were given in the last periods. The first gives
    `BucketsAreBounded`, the second `RefusalsAreJustified`. An expired bucket is a
    full one because the expiry outlives the refill by a second: the theorems
    assume that delays and clock differences add up to at most that
    (`MaxDelay + 2 * Skew <= Second`). The code sets no timeout on Redis
    (`rate_limit.py:97`), notes the time once (`rate_limit.py:109`) and bounds no
    skew, so this is an assumption on the deployment, not something it ensures.
  - `ChunkStoreInv`: a walk that no reload disturbed is over the list it began
    with, and nothing it has passed was a candidate.
  - `WholeInv`: the list is one version per reload that ended since the last
    clear, or the clear of the reloads under way is still ahead. `FlattenSeq` is a
    recursive function, so what it does with one sequence more (`FlattenAppend`)
    is proved by `Induction` over the numbers, from the same fact on finite sets.

**Assumptions of the theorems** are those of each module (`ASSUME`), which TLC
evaluates. Of those that are more than types: `MaxDelay + 2 * Skew <= Second`
(a script runs within a second of the time its pod noted, clocks included; an
expired bucket is only then a full one), the versions of the migration files are
their positions, the jobs of a decision differ, no window of the gate is empty,
and an id is never the word that stands for none.

**Only model-checked.** Liveness (`EveryCallReturns`, `HandoffsReachQueue`,
`Recovers`, `WaitersServed`, `EveryDeliveryEnds`), which the provers do not
handle under fairness.

## Where the code and its documentation disagree

Five disagreements have a run of their own (`findings` in `PROJECT.json`):

1. `at_most_once`: README.md:387 promises at-most-once semantics; overlapping
   calls of one request both look up before either persists.
2. `retries`: the same line promises that the lookup prevents duplicate
   processing. `inference_store.py:50` binds a parameter in `%s IS NULL`; psycopg 3
   binds on the server, PostgreSQL cannot tell the type of that parameter and
   refuses the query, and `inference_store.py:75-80` swallows the error and answers a
   miss. Every retry is processed again. Other queries of the repository write
   `%s::text IS NULL` (`validate_live_rollout.py:351`,
   `production_readiness_gate.py:118`), and the tests replay from a store of their own.
3. `shadow_kept`: the shadow row references a request row that is inserted six
   steps later, so it is lost for every first call of a request id.
4. `breaker_default`: with one probe and two successes to close, the breaker
   stays half-open for ever.
5. `unlabeled_fit`: recalibration "from labeled traffic" fits the escalation
   scaling to unlabelled answers as negatives, because the dataset stores FALSE
   for them and the filter asks for NOT NULL.

Others were met while modelling and are in the modules' definitions:

- `docs/ARCHITECTURE.md:178` keys the lookup by `(tenant_id, request_id)`; the
  tables are keyed by the request id alone, and a lookup compares the rest.
- `orchestrator.py:131` logs "forcing escalation" for a suspected prompt
  injection and README.md:386 says it is rejected above 0.60; the scan of the
  request only logs. (Tainted *chunks* are dropped.)
- `docs/ARCHITECTURE.md:620` says an unreachable OPA denies by default; the local
  rules decide instead.
- The Rego input carries no risk level, so the higher threshold of high-risk
  requests exists in the local rules only.
- `docs/MODEL_OPS_PLAYBOOK.md:48` fixes the stages 0, 5, 25, 50, 100; overlapping
  runs of the script can skip one.
- The log of the rollout need not end at the row when runs overlap
  (`LogMatchesRow`): the live validation reads it by `created_at`
  (`validate_live_rollout.py:521`), which is the start of a run and not its end.
- A transaction of `persist` that fails is swallowed (`inference_store.py:187`), and
  the call announces a handoff that is in no queue.
- Two overlapping builds of a day can leave the rows of both variants for one
  answer (`build_daily_evaluation.py:85-93`: two statements, no lock), and both are
  counted until the day is built again.
- README.md:520 relates a handoff to at most one reviewer outcome; each closing
  patch adds one.
- README.md:399 gives the guardrail band as [0.10, 0.99]; the settings default
  to 0.05 and 0.98.
- README.md:518 relates requests to their feedback. An id that is no UUID is
  hashed as `feedback-request:<id>` by one store and as `request:<id>` by the
  other, so feedback on it reaches no request (`FeedbackRequest`).
- `docs/MODEL_OPS_PLAYBOOK.md:52` gates a rollout on rows with
  `source=shadow:canary`. The canary's answer itself is a challenger row of the
  same request: when both fall on one day the build fails for that day
  (`Collides`), and nothing of it is evaluated.
- `docs/MODEL_OPS_PLAYBOOK.md:83-87` rebuilds with the latest ground truth before
  refitting; `make model-ops-daily` rebuilds yesterday only, so labels that come
  later than that enter when someone runs the script for an older date.
- A cancelled probe of the breaker keeps its slot, because `CancelledError` is
  no `Exception`.
- README.md:399 forces a handoff "if model used fallback". The flag tells of one
  stand-in out of three: an artifact engine that fails to load at the pod's start
  (`api/deps.py:90-92`) is replaced by an unwrapped heuristic, and a model server
  that could not load (`model_server/app.py:79-82`) answers with its own, which
  `HttpRoutingModelEngine` does not look at. `/ready` shows neither; both last
  until the next start. `FlagTellsTruth` states exactly this.
- `recalibrate_models.py` writes `*_latest.json`; the defaults of the model
  serving read `*_v1.json`, so a new calibration is served only when somebody
  changes the setting and restarts.
- `docs/PRODUCTION_COMPLETION_PLAYBOOK.md:157` wants the controls "fresh and
  PASS". The gate looks for the latest pass (`production_readiness_gate.py:57`)
  and ignores a newer failure; the calibration's age is that of the newer of the
  two scopes; `--skip-db` passes without a look at anything.
- The scorecard is about the primary: once the canary has stood at 100 % for a
  window its KPIs are null and the gate blocks (`ReleaseNeedsPrimary`). The
  active agents of a week are the largest count of one tenant on one day, not
  their sum.
- `model_registry.py:192` calls `get_active` the current production model; it goes
  on answering one that was demoted since. An artifact *registered* in production
  is never active, and is left out of `OneInProduction`. A promotion passes
  whether or not its quality gate did, which is recorded only.
- Two overlapping reloads may leave every chunk twice or bring an older version
  back; a retrieval may meet the moment between `clear()` and `extend()`.
  `WholeVersions` and `EmptyOnlyIfDisturbed` say what remains true.
- A get that overlaps a rotation caches the old secret for a whole lifetime, in
  the pod that rotated it too.
- A user whose own bucket is empty goes on using up the tenant's bucket, which is
  charged first and not given back; README.md:384 promises fair sharing.
- A workflow whose start is accepted but not acknowledged in any attempt is
  reported as none; a late attempt can start it a second time after it ended.

`ModelRegistry`, `VaultSecretsProvider`, `CircuitBreaker` and
`BackpressureLimiter` are used by tests only; they are modelled as they stand.

## What is not modelled

- **Numerics and text.** The engines' scores, retrieval ranking, similarity
  checks, drift values, fits; prompts, templates, redaction and injection
  patterns; HTTP framing and schemas; logging, metrics and traces;
  infrastructure.
- **Retrieval from Postgres**, beyond "it does not answer".
  `postgres_store.py:51` executes `SET app.current_tenant = %s` with a bound
  parameter; psycopg 3 binds on the server, PostgreSQL takes no parameter in
  `SET`, so every search raises and `retrieval.py` falls back to the list in
  memory, and the scripts that seed the table stop. `reindex_embeddings.py` reads
  `row[0]` of rows that are dicts and stops before it changes anything.
- **Encryption and `KeyRotationPolicy`**: functions of their arguments.
- **Overlap left out**: two recalibrations, and a
  recalibration of the challenger, which overwrites the same default files.
- **The time a read of Vault takes**: `FetchTime` bounds it as a whole, while the
  `timeout=5.0` of httpx bounds each of its operations.
- **The client of Pub/Sub** retries on its own as well; its duplicates are not
  counted in "at most `Attempts` copies".
- **Tooling**: data imports, bootstrap, reports nobody reads back, the shell
  scripts that chain the others, the MCP server (a client of the API).

Assumptions of the abstraction: the rollout row exists (the migration inserts
it); two transactions of the promotion script do not begin in the same microsecond.

## Plan

Modelled and checked: the decision path, the resilience primitives and
integrations around it, the loop from reviewers over evaluation to rollout,
recalibration and release, and the services beside it. Proved: every safety and
action property of a passing run, the refinement of `Sending` by the retry loops,
and that of the rollout by the release procedure.

What is left, in this order:

1. An abstract specification of what a request id promises its client (an answer
   is stored whole, replayed as it is, or replaced by another call's) and the
   orchestrator shown to implement it.
2. Lemmas on the rules as they stand: that the local rules and Rego differ only
   where the disagreements above say, and that confidence stays within 0 and 1.
3. The bound that *is* true of overlapping promotion runs, beside
   `PromotionsAreSupported`: a row that skips a stage was written by a run that
   read before another one's commit.

## Running it

In this directory, with TLC and TLAPS installed:

    tlc -workers 2 -config MCOrchestrator_decide.cfg MCOrchestrator
    tlapm OrchestratorProofs.tla

`PROJECT.json` pairs each configuration with its module. The longest run takes
a minute or two, the longest proof a few minutes.
