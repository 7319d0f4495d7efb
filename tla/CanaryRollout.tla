---------------------------- MODULE CanaryRollout ----------------------------
(***************************************************************************)
(* The canary percentage: the row of model_rollout_config in the database, *)
(* scripts/promote_canary.py that moves it along the stages, and the pods  *)
(* that read it through the 15-second cache of                             *)
(* DecisionOrchestrator._resolve_canary_percent to bucket requests.        *)
(*                                                                         *)
(* Several runs of the script may overlap: each is a READ COMMITTED        *)
(* transaction that reads the row without locking it and updates it later. *)
(* The log of the applied changes has no order but created_at, which       *)
(* defaults to now(): the start of the transaction, not its commit.        *)
(* Lookups of a pod overlap too: each notes the time before it asks the    *)
(* database. Time is ages in ticks, which stop counting above the TTL.     *)
(***************************************************************************)
EXTENDS Integers, FiniteSets

CONSTANTS
    Runs,              \* runs of the script that may overlap
    MaxEvents,         \* bound on the times at which runs begin
    Windows,           \* quality metrics a run may find in its window
    RollbackOnFail,    \* --rollback-on-fail
    Lookups,           \* decide() calls that resolve the percentage
    Pods, PodOf,       \* the pod of each lookup
    TTL,               \* _rollout_cache_ttl_seconds
    DefaultPercent,    \* settings.canary_traffic_percent
    DbFails            \* a lookup's database call may fail

STAGES == {0, 5, 25, 50, 100}

Measures == {"missing", "below", "within"}
Window == [samples : {"none", "few", "enough"}, route_accuracy : Measures,
           escalation_recall : Measures, ece : Measures, abstain_rate : Measures]

ASSUME RolloutAssumption ==
    /\ MaxEvents \in Nat
    /\ Windows \subseteq Window
    /\ RollbackOnFail \in BOOLEAN /\ DbFails \in BOOLEAN
    /\ PodOf \in [Lookups -> Pods]
    /\ TTL \in Nat
    /\ DefaultPercent \in 0..100

VARIABLES
    percent,    \* database: canary_percent
    events,     \* database: the applied rows of model_rollout_events
    run,        \* per run: where it is, when it began, what it read
    cache,      \* per pod: _rollout_cache_percent
    cacheAge,   \* per pod: age of _rollout_cache_updated_at
    lookup,     \* per lookup: where it is, its percentage, the age of its "now"
    held,       \* history: the percentages the row held k ticks ago
    overtaken   \* history: a run that began later is in the log already when
                \* the run that changed the row last commits

script == <<percent, events, run, overtaken>>
serving == <<cache, cacheAge, lookup>>
vars == <<percent, events, run, cache, cacheAge, lookup, held, overtaken>>

Expired == TTL + 1
Ages == 0..Expired

-----------------------------------------------------------------------------
\* _next_stage: the first stage above; a percentage above all of them stays.
NextStage(p) ==
    LET above == {s \in STAGES : s > p}
    IN  IF above = {} THEN p ELSE CHOOSE s \in above : \A t \in above : s <= t

\* Mutant: a rollback goes all the way down.
PreviousStage_Zero(p) == 0

\* _previous_stage: the last stage below.
PreviousStage(p) ==
    LET below == {s \in STAGES : s < p}
    IN  IF below = {} THEN 0 ELSE CHOOSE s \in below : \A t \in below : t <= s

\* _build_blocking_reasons: too few samples, a measure beyond its gate, or a
\* missing one (a missing abstain rate does not block).
BlockingReasons(w) ==
    {m \in {"route_accuracy", "escalation_recall", "ece"} : w[m] # "within"}
        \cup (IF w.abstain_rate = "below" THEN {"abstain_rate"} ELSE {})
        \cup (IF w.samples # "enough" THEN {"samples"} ELSE {})

\* The percentage a run aims at, from the one it read.
Target(read, w) ==
    IF BlockingReasons(w) = {} THEN NextStage(read)
    ELSE IF RollbackOnFail /\ read > 0 THEN PreviousStage(read)
    ELSE read

NoWindow == [samples |-> "none", route_accuracy |-> "missing",
             escalation_recall |-> "missing", ece |-> "missing",
             abstain_rate |-> "missing"]
Running == {r \in Runs : run[r].pc = "read"}
Idle == [pc |-> "idle", created |-> 0, read |-> 0, window |-> NoWindow]
Event == [created : Nat \ {0}, from : 0..100, to : 0..100, window : Windows]

\* The transaction times that are taken; the clock moves on between two.
Stamps == {0} \cup {e.created : e \in events} \cup {run[r].created : r \in Running}

Init ==
    /\ percent = 0
    /\ events = {}
    /\ overtaken = FALSE
    /\ run = [r \in Runs |-> Idle]
    /\ cache = [p \in Pods |-> DefaultPercent]
    /\ cacheAge = [p \in Pods |-> Expired]
    /\ lookup = [l \in Lookups |-> [pc |-> "idle", percent |-> 0, age |-> 0]]
    /\ held = [k \in Ages |-> IF k = 0 THEN {0} ELSE {}]

\* evaluate_and_promote reads the row, with which its transaction starts, and
\* the metrics of its window ...
ReadConfig(r) ==
    /\ run[r].pc = "idle"
    /\ \E now \in 1..MaxEvents, w \in Windows :
          /\ now - 1 \in Stamps /\ \A s \in Stamps : s < now
          /\ run' = [run EXCEPT ![r] = [pc |-> "read", created |-> now,
                                        read |-> percent, window |-> w]]
    /\ UNCHANGED <<percent, events, overtaken, held>> /\ UNCHANGED serving

\* A run with --apply changes the row when the target differs from what it read.
Applied(r) == Target(run[r].read, run[r].window) # run[r].read

\* Mutant: the update is conditional on the row being what the run read, and
\* the log is not.
RowAfter_CompareAndSet(r) ==
    IF Applied(r) /\ percent = run[r].read
    THEN Target(run[r].read, run[r].window) ELSE percent

\* The row after a run: an absolute value, whatever the row holds by now.
RowAfter(r) ==
    IF Applied(r) THEN Target(run[r].read, run[r].window) ELSE percent

\* ... and sets the row and logs the event in the same transaction.
Commit(r) ==
    /\ run[r].pc = "read"
    /\ percent' = RowAfter(r)
    /\ events' = events \cup
          (IF Applied(r)
           THEN {[created |-> run[r].created, from |-> run[r].read,
                  to |-> Target(run[r].read, run[r].window), window |-> run[r].window]}
           ELSE {})
    /\ overtaken' = IF Applied(r)
                    THEN \E e \in events : run[r].created < e.created
                    ELSE overtaken
    /\ run' = [run EXCEPT ![r] = Idle]
    /\ held' = [held EXCEPT ![0] = @ \cup {percent'}]
    /\ UNCHANGED serving

REQUIRED_CANARY_STAGES == {5, 25, 50, 100}

-----------------------------------------------------------------------------
\* The cached percentage is at most TTL old.
Fresh(p) == cacheAge[p] <= TTL

\* _resolve_canary_percent with a fresh cache ...
ServeCached(l) ==
    LET p == PodOf[l] IN
    /\ lookup[l].pc = "idle"
    /\ Fresh(p)
    /\ lookup' = [lookup EXCEPT ![l] = [pc |-> "served", percent |-> cache[p],
                                        age |-> cacheAge[p]]]
    /\ UNCHANGED <<cache, cacheAge, held>> /\ UNCHANGED script

\* ... and with a stale one: it notes the time and asks the database.
BeginFetch(l) ==
    /\ lookup[l].pc = "idle"
    /\ ~Fresh(PodOf[l])
    /\ lookup' = [lookup EXCEPT ![l] = [pc |-> "asked", percent |-> 0, age |-> 0]]
    /\ UNCHANGED <<cache, cacheAge, held>> /\ UNCHANGED script

\* The database answers the worker thread (a failure is answered by the
\* default of the settings) ...
Answer(l) ==
    /\ lookup[l].pc = "asked"
    /\ \E p \in {percent} \cup (IF DbFails THEN {DefaultPercent} ELSE {}) :
          lookup' = [lookup EXCEPT ![l] = [pc |-> "answered", percent |-> p,
                                           age |-> lookup[l].age]]
    /\ UNCHANGED <<cache, cacheAge, held>> /\ UNCHANGED script

\* Mutant: the entry is dated when the answer arrives.
EntryAge_Now(l) == 0

\* The entry is dated when the lookup began.
EntryAge(l) == lookup[l].age

\* ... and the event loop writes the answer to the pod's cache, over whatever
\* a later lookup may have put there meanwhile.
EndFetch(l) ==
    /\ lookup[l].pc = "answered"
    /\ cache' = [cache EXCEPT ![PodOf[l]] = lookup[l].percent]
    /\ cacheAge' = [cacheAge EXCEPT ![PodOf[l]] = EntryAge(l)]
    /\ lookup' = [lookup EXCEPT ![l].pc = "served"]
    /\ UNCHANGED held /\ UNCHANGED script

\* The call goes on; a later one may look up again.
Forget(l) ==
    /\ lookup[l].pc = "served"
    /\ lookup' = [lookup EXCEPT ![l] = [pc |-> "idle", percent |-> 0, age |-> 0]]
    /\ UNCHANGED <<cache, cacheAge, held>> /\ UNCHANGED script

Older(age) == IF age < Expired THEN age + 1 ELSE age

\* Time passes.
Tick ==
    /\ cacheAge' = [p \in Pods |-> Older(cacheAge[p])]
    /\ lookup' = [l \in Lookups |->
                     IF lookup[l].pc \in {"asked", "answered"}
                     THEN [lookup[l] EXCEPT !.age = Older(@)] ELSE lookup[l]]
    /\ held' = [k \in Ages |-> IF k = 0 THEN {percent}
                               ELSE IF k = Expired THEN {} ELSE held[k - 1]]
    /\ UNCHANGED cache /\ UNCHANGED script

LookupStep(l) ==
    ServeCached(l) \/ BeginFetch(l) \/ Answer(l) \/ EndFetch(l) \/ Forget(l)

Next ==
    \/ Tick
    \/ \E r \in Runs : ReadConfig(r) \/ Commit(r)
    \/ \E l \in Lookups : LookupStep(l)

Spec == Init /\ [][Next]_vars

-----------------------------------------------------------------------------
\* Every variable holds values of its type.
TypeOK ==
    /\ percent \in 0..100
    /\ events \subseteq Event
    /\ overtaken \in BOOLEAN
    /\ run \in [Runs -> [pc : {"idle", "read"}, created : Nat, read : 0..100,
                         window : Windows \cup {NoWindow}]]
    /\ cache \in [Pods -> 0..100]
    /\ cacheAge \in [Pods -> Ages]
    /\ lookup \in [Lookups -> [pc : {"idle", "asked", "answered", "served"},
                               percent : 0..100, age : Ages]]
    /\ held \in [Ages -> SUBSET (0..100)]

\* A percentage that a pod serves from its cache is one the row held at most
\* TTL ticks ago, or the default of the settings while the database fails,
\* also when overlapping lookups write the cache in the wrong order: a rollback
\* has reached every pod when the TTL is over.
BoundedStaleness ==
    \A p \in Pods : Fresh(p) =>
        \/ \E k \in 0..TTL : cache[p] \in held[k]
        \/ DbFails /\ cache[p] = DefaultPercent

\* A log, read in the order of created_at, ends at the percentage p.
EndsAt(log, p) ==
    \/ log = {} /\ p = 0
    \/ \E e \in log : e.to = p /\ \A f \in log \ {e} : f.created < e.created

\* The log of applied events, read as validate_live_rollout reads it, ends at
\* the percentage the row holds, also when runs overlap and overwrite one
\* another, unless the run that changed the row last began before one that is
\* in the log already: that run's change is logged out of its turn.
LogMatchesRow == ~overtaken => EndsAt(events, percent)

\* A window that supports a promotion: samples enough, ground truth for every
\* gated measure, and none beyond its gate.
Supports(w) ==
    /\ w.samples = "enough"
    /\ \A m \in {"route_accuracy", "escalation_recall", "ece"} : w[m] = "within"
    /\ w.abstain_rate # "below"

\* docs/MODEL_OPS_PLAYBOOK.md "Promotion stages are fixed:
\* 0 -> 5 -> 25 -> 50 -> 100": the row stands on a stage and passes over none,
\* up or down. It holds of runs that follow one another.
StageByStage ==
    [][percent' # percent =>
          /\ percent' \in STAGES
          /\ \A s \in STAGES : ~(percent < s /\ s < percent')
                            /\ ~(percent' < s /\ s < percent)]_vars
=============================================================================
