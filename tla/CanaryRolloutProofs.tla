------------------------- MODULE CanaryRolloutProofs -------------------------
(* The staleness of the canary cache and the rollout log, for any number of *)
(* pods, lookups, script runs and any TTL.                                  *)
EXTENDS CanaryRollout, TLAPS

\* By the history h, p is a percentage the row held in the last a ticks, or
\* the default of a failing database; nothing is known of what is older than
\* the TTL.
Recent(p, a, h) ==
    \/ a = Expired
    \/ \E k \in 0..a : p \in h[k]
    \/ DbFails /\ p = DefaultPercent

\* No two transactions begin at the same time. What a lookup has been answered is
\* as recent as the time it noted, and so is the cache: the age of an entry is
\* the age of the question, not of the answer.
IInv ==
    /\ TypeOK
    /\ \A r \in Runs : run[r].pc = "read" =>
          /\ run[r].window \in Windows /\ run[r].created # 0
          /\ \A e \in events : e.created # run[r].created
          /\ \A q \in Runs \ {r} :
                run[q].pc = "read" => run[q].created # run[r].created
    /\ percent \in held[0]
    /\ \A p \in Pods : Recent(cache[p], cacheAge[p], held)
    /\ \A l \in Lookups : lookup[l].pc = "answered" =>
          Recent(lookup[l].percent, lookup[l].age, held)

-----------------------------------------------------------------------------
\* The script aims at the neighbouring stages.
LEMMA StageNeighbours ==
    ASSUME NEW p \in 0..100
    PROVE  /\ \/ NextStage(p) = p /\ \A s \in STAGES : s <= p
              \/ /\ NextStage(p) \in STAGES /\ p < NextStage(p)
                 /\ \A s \in STAGES : p < s => NextStage(p) <= s
           /\ \/ PreviousStage(p) = 0 /\ \A s \in STAGES : p <= s
              \/ /\ PreviousStage(p) \in STAGES /\ PreviousStage(p) < p
                 /\ \A s \in STAGES : s < p => s <= PreviousStage(p)
<1> DEFINE above == {s \in STAGES : s > p}
           below == {s \in STAGES : s < p}
<1>1. \/ NextStage(p) = p /\ \A s \in STAGES : s <= p
      \/ /\ NextStage(p) \in STAGES /\ p < NextStage(p)
         /\ \A s \in STAGES : p < s => NextStage(p) <= s
    <2>1. CASE above = {}
        BY <2>1 DEF NextStage, STAGES
    <2>2. CASE above # {}
        <3>1. \E s \in above : \A t \in above : s <= t
            <4>1. CASE p < 5
                BY <4>1, 5 \in above DEF STAGES
            <4>2. CASE p >= 5 /\ p < 25
                BY <4>2, 25 \in above DEF STAGES
            <4>3. CASE p >= 25 /\ p < 50
                BY <4>3, 50 \in above DEF STAGES
            <4>4. CASE p >= 50
                BY <4>4, <2>2 DEF STAGES
            <4> QED
                BY <4>1, <4>2, <4>3, <4>4
        <3> DEFINE next == CHOOSE s \in above : \A t \in above : s <= t
        <3>2. next \in above /\ \A t \in above : next <= t
            BY <3>1
        <3>3. NextStage(p) = next
            BY <2>2 DEF NextStage
        <3> HIDE DEF next
        <3> QED
            BY <3>2, <3>3
    <2> QED
        BY <2>1, <2>2
<1>2. \/ PreviousStage(p) = 0 /\ \A s \in STAGES : p <= s
      \/ /\ PreviousStage(p) \in STAGES /\ PreviousStage(p) < p
         /\ \A s \in STAGES : s < p => s <= PreviousStage(p)
    <2>1. CASE below = {}
        BY <2>1 DEF PreviousStage, STAGES
    <2>2. CASE below # {}
        <3>1. \E s \in below : \A t \in below : t <= s
            <4>1. CASE p <= 5
                BY <4>1, <2>2 DEF STAGES
            <4>2. CASE p > 5 /\ p <= 25
                BY <4>2, 5 \in below DEF STAGES
            <4>3. CASE p > 25 /\ p <= 50
                BY <4>3, 25 \in below DEF STAGES
            <4>4. CASE p > 50
                BY <4>4, 50 \in below DEF STAGES
            <4> QED
                BY <4>1, <4>2, <4>3, <4>4
        <3> DEFINE previous == CHOOSE s \in below : \A t \in below : t <= s
        <3>2. previous \in below /\ \A t \in below : t <= previous
            BY <3>1
        <3>3. PreviousStage(p) = previous
            BY <2>2 DEF PreviousStage
        <3> HIDE DEF previous
        <3> QED
            BY <3>2, <3>3
    <2> QED
        BY <2>1, <2>2
<1> QED
    BY <1>1, <1>2

\* The target of a run is a percentage.
LEMMA TargetType ==
    ASSUME NEW p \in 0..100, NEW w
    PROVE  Target(p, w) \in 0..100
BY StageNeighbours DEF Target, STAGES

\* The invariant holds of the initial states.
LEMMA InvInit == Init => IInv
<1> SUFFICES ASSUME Init PROVE IInv
    OBVIOUS
<1>1. TypeOK
    <2>1. percent \in 0..100 /\ events \subseteq Event /\ overtaken \in BOOLEAN
        <3>1. percent = 0 /\ events = {} /\ overtaken = FALSE
            BY DEF Init
        <3>2. overtaken \in BOOLEAN
            BY <3>1
        <3> QED
            BY <3>1, <3>2
    <2>2. run \in [Runs -> [pc : {"idle", "read"}, created : Nat, read : 0..100,
                            window : Windows \cup {NoWindow}]]
        <3>1. Idle \in [pc : {"idle", "read"}, created : Nat, read : 0..100,
                        window : Windows \cup {NoWindow}]
            BY DEF Idle
        <3> QED
            BY <3>1 DEF Init
    <2>3. /\ cache \in [Pods -> 0..100] /\ cacheAge \in [Pods -> Ages]
          /\ lookup \in [Lookups -> [pc : {"idle", "asked", "answered", "served"},
                                     percent : 0..100, age : Ages]]
          /\ held \in [Ages -> SUBSET (0..100)]
        BY RolloutAssumption DEF Init, Ages, Expired, RolloutAssumption
    <2> QED
        BY <2>1, <2>2, <2>3 DEF TypeOK
<1> QED
    BY <1>1, RolloutAssumption
    DEF Init, IInv, Recent, Ages, Expired, Idle, RolloutAssumption, Running

\* A row whose past only grew leaves what is recent recent.
LEMMA RecentMonotone ==
    ASSUME NEW a \in Ages, NEW p, NEW h, NEW g, Recent(p, a, h),
           \A k \in Ages : h[k] \subseteq g[k]
    PROVE  Recent(p, a, g)
<1>1. \A k \in 0..a : a # Expired => k \in Ages
    BY RolloutAssumption DEF Ages, Expired, RolloutAssumption
<1> QED
    BY <1>1 DEF Recent

RunRecord == [pc : {"idle", "read"}, created : Nat, read : 0..100,
              window : Windows \cup {NoWindow}]

\* Reading the row preserves it.
LEMMA InvRead ==
    ASSUME IInv, NEW r \in Runs, ReadConfig(r)
    PROVE  IInv'
<1>1. PICK now \in 1..MaxEvents, w \in Windows :
        /\ \A t \in Stamps : t < now
        /\ run' = [run EXCEPT ![r] = [pc |-> "read", created |-> now,
                                      read |-> percent, window |-> w]]
    BY DEF ReadConfig
<1>2. /\ UNCHANGED <<percent, events, overtaken, held, cache, cacheAge, lookup>>
      /\ percent \in 0..100 /\ run \in [Runs -> RunRecord]
      /\ now \in Nat /\ now # 0
    BY <1>1, RolloutAssumption
    DEF ReadConfig, serving, IInv, TypeOK, RunRecord, RolloutAssumption
<1> DEFINE record == [pc |-> "read", created |-> now, read |-> percent, window |-> w]
<1>3. /\ record \in RunRecord /\ record.pc = "read"
      /\ record.created = now /\ record.window = w
    BY <1>2 DEF RunRecord
<1>4. run' = [run EXCEPT ![r] = record]
    BY <1>1
<1> HIDE DEF record
<1>5. run' \in [Runs -> RunRecord] /\ run'[r] = record
      /\ \A q \in Runs \ {r} : run'[q] = run[q]
    BY <1>2, <1>3, <1>4
<1>6. TypeOK'
    BY <1>2, <1>5 DEF IInv, TypeOK, RunRecord, Event
<1>7. /\ \A e \in events : e.created # now
      /\ \A q \in Runs \ {r} : run[q].pc = "read" => run[q].created # now
    <2>1. \A t \in Stamps : t # now
        <3>1. Stamps \subseteq Nat
            BY <1>2 DEF Stamps, Running, IInv, TypeOK, Event, RunRecord
        <3> QED
            BY <1>1, <1>2, <3>1
    <2> QED
        BY <2>1 DEF Stamps, Running
<1>8. \A q \in Runs : run'[q].pc = "read" =>
          /\ run'[q].window \in Windows /\ run'[q].created # 0
          /\ \A e \in events : e.created # run'[q].created
          /\ \A o \in Runs \ {q} :
                run'[o].pc = "read" => run'[o].created # run'[q].created
    BY <1>2, <1>3, <1>5, <1>7 DEF IInv
<1> QED
    BY <1>2, <1>6, <1>8 DEF IInv, Recent

\* Committing preserves it: the row's past only grows.
LEMMA InvCommit ==
    ASSUME IInv, NEW r \in Runs, Commit(r)
    PROVE  IInv'
<1>1. /\ run[r].read \in 0..100 /\ run[r].window \in Windows
      /\ run \in [Runs -> RunRecord] /\ percent \in 0..100
      /\ run[r].created \in Nat /\ run[r].created # 0 /\ run[r].pc = "read"
    BY DEF Commit, IInv, TypeOK, RunRecord
<1> DEFINE target == Target(run[r].read, run[r].window)
<1>2. target \in 0..100
    BY <1>1, TargetType
<1>3. percent' \in 0..100
    BY <1>1, <1>2 DEF Commit, RowAfter
<1>4. events' \subseteq Event /\ \A e \in events' :
          e \in events \/ e.created = run[r].created
    <2> DEFINE event == [created |-> run[r].created, from |-> run[r].read,
                         to |-> target, window |-> run[r].window]
    <2>1. events' \subseteq events \cup {event} /\ event.created = run[r].created
        BY DEF Commit
    <2>2. events \subseteq Event /\ event \in Event
        BY <1>1, <1>2 DEF IInv, TypeOK, Event
    <2> HIDE DEF event
    <2> QED
        BY <2>1, <2>2
<1>5. run' \in [Runs -> RunRecord] /\ overtaken' \in BOOLEAN
      /\ run'[r] = Idle /\ \A q \in Runs \ {r} : run'[q] = run[q]
    <2>1. Idle \in RunRecord
        BY DEF Idle, RunRecord
    <2>2. run' \in [Runs -> RunRecord] /\ run'[r] = Idle
          /\ \A q \in Runs \ {r} : run'[q] = run[q]
        BY <1>1, <2>1 DEF Commit
    <2>3. overtaken' \in BOOLEAN
        BY DEF Commit, IInv, TypeOK
    <2> QED
        BY <2>2, <2>3
<1>6. \A q \in Runs : run'[q].pc = "read" =>
          /\ run'[q].window \in Windows /\ run'[q].created # 0
          /\ \A e \in events' : e.created # run'[q].created
          /\ \A o \in Runs \ {q} :
                run'[o].pc = "read" => run'[o].created # run'[q].created
    <2> SUFFICES ASSUME NEW q \in Runs, run'[q].pc = "read"
                 PROVE  /\ run'[q].window \in Windows /\ run'[q].created # 0
                        /\ \A e \in events' : e.created # run'[q].created
                        /\ \A o \in Runs \ {q} :
                              run'[o].pc = "read" => run'[o].created # run'[q].created
        OBVIOUS
    <2>1. q # r /\ run'[q] = run[q] /\ run[q].pc = "read"
        BY <1>5 DEF Idle
    <2>2. /\ run[q].window \in Windows /\ run[q].created # 0
          /\ \A e \in events : e.created # run[q].created
          /\ \A o \in Runs \ {q} :
                run[o].pc = "read" => run[o].created # run[q].created
        BY <2>1 DEF IInv
    <2>3. \A o \in Runs \ {q} :
              run'[o].pc = "read" => run'[o].created # run[q].created
        BY <1>5, <2>2 DEF Idle
    <2>4. \A e \in events' : e.created # run[q].created
        BY <1>1, <1>4, <2>1, <2>2
    <2> QED
        BY <2>1, <2>2, <2>3, <2>4
<1>7. /\ held' = [held EXCEPT ![0] = held[0] \cup {percent'}]
      /\ held \in [Ages -> SUBSET (0..100)] /\ 0 \in Ages
      /\ UNCHANGED <<cache, cacheAge, lookup>>
    <2>1. held' = [held EXCEPT ![0] = held[0] \cup {percent'}]
        BY DEF Commit
    <2>2. held \in [Ages -> SUBSET (0..100)]
        BY DEF IInv, TypeOK
    <2>3. 0 \in Ages
        BY RolloutAssumption DEF Ages, Expired, RolloutAssumption
    <2> QED
        BY <2>1, <2>2, <2>3 DEF Commit, serving
<1>8. /\ held' \in [Ages -> SUBSET (0..100)]
      /\ percent' \in held'[0]
      /\ \A k \in Ages : held[k] \subseteq held'[k]
    BY <1>3, <1>7
<1>9. TypeOK'
    BY <1>3, <1>4, <1>5, <1>7, <1>8 DEF IInv, TypeOK, RunRecord
<1>10. \A p \in Pods : Recent(cache'[p], cacheAge'[p], held')
    <2> SUFFICES ASSUME NEW p \in Pods PROVE Recent(cache'[p], cacheAge'[p], held')
        OBVIOUS
    <2>1. cacheAge[p] \in Ages /\ Recent(cache[p], cacheAge[p], held)
        BY DEF IInv, TypeOK
    <2> QED
        BY <2>1, <1>7, <1>8, RecentMonotone DEF Recent
<1>11. \A l \in Lookups : lookup'[l].pc = "answered" =>
          Recent(lookup'[l].percent, lookup'[l].age, held')
    <2> SUFFICES ASSUME NEW l \in Lookups, lookup[l].pc = "answered"
                 PROVE  Recent(lookup'[l].percent, lookup'[l].age, held')
        BY <1>7
    <2>1. lookup[l].age \in Ages /\ Recent(lookup[l].percent, lookup[l].age, held)
        BY DEF IInv, TypeOK
    <2> QED
        BY <2>1, <1>7, <1>8, RecentMonotone DEF Recent
<1> QED
    BY <1>6, <1>8, <1>9, <1>10, <1>11 DEF IInv

LookupRecord == [pc : {"idle", "asked", "answered", "served"},
                 percent : 0..100, age : Ages]

\* The steps of a lookup preserve it: an answer is the row's percentage of
\* this moment, so recent for any age; the cache takes over answer and age.
LEMMA InvLookup ==
    ASSUME IInv, NEW l \in Lookups, LookupStep(l)
    PROVE  IInv'
<1> DEFINE p == PodOf[l]
<1>1. /\ p \in Pods /\ DefaultPercent \in 0..100 /\ 0 \in Ages
      /\ \A a \in Ages : a >= 0 /\ 0 \in 0..a
    BY RolloutAssumption DEF RolloutAssumption, Ages, Expired
<1>2. /\ lookup \in [Lookups -> LookupRecord]
      /\ cache \in [Pods -> 0..100] /\ cacheAge \in [Pods -> Ages]
      /\ percent \in 0..100
    BY DEF IInv, TypeOK, LookupRecord
<1>3. UNCHANGED <<percent, events, run, overtaken, held>>
    BY DEF LookupStep, ServeCached, BeginFetch, Answer, EndFetch, Forget, script
<1>5. ASSUME UNCHANGED <<cache, cacheAge>>,
             NEW entry \in LookupRecord,
             lookup' = [lookup EXCEPT ![l] = entry],
             entry.pc = "answered" => Recent(entry.percent, entry.age, held)
      PROVE  IInv'
    <2>1. lookup' \in [Lookups -> LookupRecord]
        BY <1>2, <1>5
    <2>2. TypeOK'
        BY <1>3, <1>5, <2>1 DEF IInv, TypeOK, LookupRecord
    <2>3. \A m \in Lookups : lookup'[m].pc = "answered" =>
            Recent(lookup'[m].percent, lookup'[m].age, held)
        BY <1>2, <1>5 DEF IInv
    <2> QED
        BY <1>3, <1>5, <2>2, <2>3 DEF IInv, Recent
<1>6. CASE ServeCached(l)
    <2> DEFINE entry == [pc |-> "served", percent |-> cache[p], age |-> cacheAge[p]]
    <2>1. entry \in LookupRecord /\ entry.pc = "served"
        BY <1>1, <1>2 DEF LookupRecord
    <2>2. lookup' = [lookup EXCEPT ![l] = entry] /\ UNCHANGED <<cache, cacheAge>>
        BY <1>6 DEF ServeCached
    <2> HIDE DEF entry
    <2> QED
        BY <1>5, <2>1, <2>2
<1>7. CASE BeginFetch(l)
    <2> DEFINE entry == [pc |-> "asked", percent |-> 0, age |-> 0]
    <2>1. entry \in LookupRecord /\ entry.pc = "asked"
        BY <1>1 DEF LookupRecord
    <2>2. lookup' = [lookup EXCEPT ![l] = entry] /\ UNCHANGED <<cache, cacheAge>>
        BY <1>7 DEF BeginFetch
    <2> HIDE DEF entry
    <2> QED
        BY <1>5, <2>1, <2>2
<1>8. CASE Answer(l)
    <2>1. PICK q \in {percent} \cup (IF DbFails THEN {DefaultPercent} ELSE {}) :
            lookup' = [lookup EXCEPT ![l] = [pc |-> "answered", percent |-> q,
                                             age |-> lookup[l].age]]
        BY <1>8 DEF Answer
    <2>2. UNCHANGED <<cache, cacheAge>>
        BY <1>8 DEF Answer
    <2> DEFINE entry == [pc |-> "answered", percent |-> q, age |-> lookup[l].age]
    <2>3. q \in 0..100
        BY <1>1, <1>2, <2>1
    <2>4. entry \in LookupRecord
        <3>1. lookup[l].age \in Ages
            BY <1>2 DEF LookupRecord
        <3> QED
            BY <2>3, <3>1 DEF LookupRecord
    <2>5. lookup' = [lookup EXCEPT ![l] = entry]
        BY <2>1
    <2>6. Recent(q, lookup[l].age, held)
        <3>1. lookup[l].age \in Ages
            BY <1>2 DEF LookupRecord
        <3>2. CASE q = percent
            BY <1>1, <3>1, <3>2 DEF Recent, IInv
        <3>3. CASE DbFails /\ q = DefaultPercent
            BY <3>3 DEF Recent
        <3> QED
            BY <2>1, <3>2, <3>3
    <2>7. entry.percent = q /\ entry.age = lookup[l].age
        OBVIOUS
    <2> HIDE DEF entry
    <2> QED
        BY <1>5, <2>2, <2>4, <2>5, <2>6, <2>7
<1>9. CASE EndFetch(l)
    <2>1. /\ cache' = [cache EXCEPT ![p] = lookup[l].percent]
          /\ cacheAge' = [cacheAge EXCEPT ![p] = lookup[l].age]
          /\ lookup' = [lookup EXCEPT ![l].pc = "served"]
          /\ lookup[l].pc = "answered"
        BY <1>9 DEF EndFetch, EntryAge
    <2>2. /\ lookup[l].percent \in 0..100 /\ lookup[l].age \in Ages
          /\ Recent(lookup[l].percent, lookup[l].age, held)
        BY <1>2, <2>1 DEF IInv, LookupRecord
    <2>3. /\ cache' \in [Pods -> 0..100] /\ cacheAge' \in [Pods -> Ages]
          /\ \A q \in Pods : Recent(cache'[q], cacheAge'[q], held)
        BY <1>1, <1>2, <2>1, <2>2 DEF IInv
    <2>4. /\ lookup' \in [Lookups -> LookupRecord]
          /\ \A m \in Lookups : lookup'[m].pc = "answered" => lookup'[m] = lookup[m]
        BY <1>2, <2>1 DEF LookupRecord
    <2>5. TypeOK'
        BY <1>3, <2>3, <2>4 DEF IInv, TypeOK, LookupRecord
    <2>6. \A m \in Lookups : lookup'[m].pc = "answered" =>
            Recent(lookup'[m].percent, lookup'[m].age, held)
        BY <2>4 DEF IInv
    <2> QED
        BY <1>3, <2>3, <2>5, <2>6 DEF IInv, Recent
<1>10. CASE Forget(l)
    <2> DEFINE entry == [pc |-> "idle", percent |-> 0, age |-> 0]
    <2>1. entry \in LookupRecord /\ entry.pc = "idle"
        BY <1>1 DEF LookupRecord
    <2>2. lookup' = [lookup EXCEPT ![l] = entry] /\ UNCHANGED <<cache, cacheAge>>
        BY <1>10 DEF Forget
    <2> HIDE DEF entry
    <2> QED
        BY <1>5, <2>1, <2>2
<1> QED
    BY <1>6, <1>7, <1>8, <1>9, <1>10 DEF LookupStep

\* What was held k ticks ago was held k + 1 ticks ago one tick later.
LEMMA RecentAges ==
    ASSUME NEW a \in Ages, NEW q, NEW h, NEW g, Recent(q, a, h),
           \A k \in 0..TTL : k # 0 => g[k] = h[k - 1]
    PROVE  Older(a) \in Ages /\ Recent(q, Older(a), g)
<1>1. TTL \in Nat
    BY RolloutAssumption DEF RolloutAssumption
<1>2. Older(a) \in Ages
    BY <1>1 DEF Older, Ages, Expired
<1>3. CASE Older(a) = Expired
    BY <1>2, <1>3 DEF Recent
<1>4. CASE DbFails /\ q = DefaultPercent
    BY <1>2, <1>4 DEF Recent
<1>5. CASE a < Expired /\ Older(a) # Expired /\ \E k \in 0..a : q \in h[k]
    <2>1. Older(a) = a + 1
        BY <1>5 DEF Older
    <2>2. PICK k \in 0..a : q \in h[k]
        BY <1>5
    <2>3. /\ k + 1 \in 0..(a + 1) /\ k + 1 \in 0..TTL
          /\ k + 1 # 0 /\ (k + 1) - 1 = k
        BY <1>1, <1>2, <1>5, <2>1, <2>2 DEF Ages, Expired
    <2>4. g[k + 1] = h[k]
        BY <2>3
    <2> QED
        BY <1>2, <2>1, <2>2, <2>3, <2>4 DEF Recent
<1>6. a = Expired => Older(a) = Expired
    BY <1>1 DEF Older, Expired
<1>7. a < Expired \/ a = Expired
    BY <1>1 DEF Ages, Expired
<1> QED
    BY <1>3, <1>4, <1>5, <1>6, <1>7 DEF Recent

\* An age stays an age.
LEMMA OlderType ==
    ASSUME NEW a \in Ages
    PROVE  Older(a) \in Ages
BY RolloutAssumption DEF Older, Ages, Expired, RolloutAssumption

\* Time preserves it.
LEMMA InvTick ==
    ASSUME IInv, Tick
    PROVE  IInv'
<1>1. /\ lookup \in [Lookups -> LookupRecord]
      /\ cache \in [Pods -> 0..100] /\ cacheAge \in [Pods -> Ages]
      /\ percent \in 0..100 /\ held \in [Ages -> SUBSET (0..100)]
      /\ UNCHANGED <<percent, events, run, overtaken, cache>>
    BY DEF IInv, TypeOK, LookupRecord, Tick, script
<1>2. /\ \A k \in 0..TTL : k # 0 => held'[k] = held[k - 1]
      /\ held' \in [Ages -> SUBSET (0..100)]
      /\ percent \in held'[0]
    <2>1. held' = [k \in Ages |-> IF k = 0 THEN {percent}
                                  ELSE IF k = Expired THEN {} ELSE held[k - 1]]
        BY DEF Tick
    <2>2. /\ 0 \in Ages /\ \A k \in 0..TTL : k \in Ages /\ k # Expired
          /\ \A k \in Ages : k # 0 => k - 1 \in Ages
        BY RolloutAssumption DEF RolloutAssumption, Ages, Expired
    <2> QED
        BY <1>1, <2>1, <2>2
<1>3. cacheAge' = [p \in Pods |-> Older(cacheAge[p])]
    BY DEF Tick
<1>4. \A p \in Pods : /\ Older(cacheAge[p]) \in Ages
                       /\ Recent(cache[p], Older(cacheAge[p]), held')
    BY <1>1, <1>2, RecentAges DEF IInv
<1>5. /\ cacheAge' \in [Pods -> Ages]
      /\ \A p \in Pods : Recent(cache'[p], cacheAge'[p], held')
    BY <1>1, <1>3, <1>4
<1>6. \A l \in Lookups :
        /\ lookup[l] \in LookupRecord /\ lookup[l].age \in Ages
        /\ lookup'[l] = IF lookup[l].pc \in {"asked", "answered"}
                        THEN [lookup[l] EXCEPT !.age = Older(lookup[l].age)]
                        ELSE lookup[l]
    BY <1>1 DEF Tick, LookupRecord
<1>7. \A l \in Lookups :
        /\ lookup'[l] \in LookupRecord
        /\ lookup'[l].pc = "answered" =>
              Recent(lookup'[l].percent, lookup'[l].age, held')
    <2> SUFFICES ASSUME NEW l \in Lookups
                 PROVE  /\ lookup'[l] \in LookupRecord
                        /\ lookup'[l].pc = "answered" =>
                            Recent(lookup'[l].percent, lookup'[l].age, held')
        OBVIOUS
    <2>1. Older(lookup[l].age) \in Ages
        BY <1>6, OlderType
    <2>2. lookup'[l] \in LookupRecord /\ lookup'[l].pc = lookup[l].pc
        BY <1>6, <2>1 DEF LookupRecord
    <2>3. CASE lookup[l].pc = "answered"
        <3>1. Recent(lookup[l].percent, lookup[l].age, held)
            BY <2>3 DEF IInv
        <3>2. Recent(lookup[l].percent, Older(lookup[l].age), held')
            BY <1>2, <1>6, <3>1, RecentAges
        <3>3. /\ lookup'[l].percent = lookup[l].percent
              /\ lookup'[l].age = Older(lookup[l].age)
            BY <1>6, <2>3 DEF LookupRecord
        <3> QED
            BY <2>2, <3>2, <3>3
    <2> QED
        BY <2>2, <2>3
<1>8. lookup' \in [Lookups -> LookupRecord]
    <2>1. DOMAIN lookup' = Lookups /\ lookup' = [l \in Lookups |-> lookup'[l]]
        BY DEF Tick
    <2> QED
        BY <1>7, <2>1
<1>9. TypeOK'
    BY <1>1, <1>2, <1>5, <1>8 DEF IInv, TypeOK, LookupRecord
<1> QED
    BY <1>1, <1>2, <1>5, <1>7, <1>9 DEF IInv

\* Every step preserves it.
LEMMA InvNext == IInv /\ [Next]_vars => IInv'
<1> SUFFICES ASSUME IInv, [Next]_vars PROVE IInv'
    OBVIOUS
<1>1. CASE UNCHANGED vars
    BY <1>1 DEF vars, IInv, TypeOK
<1> QED
    BY <1>1, InvTick, InvRead, InvCommit, InvLookup DEF Next

\* The inductive invariant holds of every behaviour.
THEOREM RolloutInvariant == Spec => []IInv
<1> QED
    BY InvInit, InvNext, PTL DEF Spec

\* Every variable of the rollout keeps its type.
THEOREM TypeCorrect == Spec => []TypeOK
<1>1. IInv => TypeOK
    BY DEF IInv
<1> QED
    BY <1>1, RolloutInvariant, PTL

\* For any TTL, any number of pods and overlapping lookups, a pod serves from
\* its cache a percentage that the row held within the TTL.
THEOREM StalenessBounded == Spec => []BoundedStaleness
<1>1. IInv => BoundedStaleness
    <2> SUFFICES ASSUME IInv, NEW p \in Pods, Fresh(p)
                 PROVE  \/ \E k \in 0..TTL : cache[p] \in held[k]
                        \/ DbFails /\ cache[p] = DefaultPercent
        BY DEF BoundedStaleness
    <2>1. cacheAge[p] \in Ages /\ Recent(cache[p], cacheAge[p], held)
        BY DEF IInv, TypeOK
    <2>2. cacheAge[p] # Expired /\ \A k \in 0..cacheAge[p] : k \in 0..TTL
        BY <2>1, RolloutAssumption DEF Fresh, Ages, Expired, RolloutAssumption
    <2> QED
        BY <2>1, <2>2 DEF Recent
<1> QED
    BY <1>1, RolloutInvariant, PTL

\* A commit that is not overtaken leaves the log ending at the row.
LEMMA CommitEndsLog ==
    ASSUME IInv, NEW r \in Runs, Commit(r), Applied(r),
           \A e \in events : ~(run[r].created < e.created)
    PROVE  EndsAt(events', percent')
<1> DEFINE target == Target(run[r].read, run[r].window)
           event == [created |-> run[r].created, from |-> run[r].read, to |-> target,
                     window |-> run[r].window]
<1>1. events' = events \cup {event} /\ percent' = target
    BY DEF Commit, RowAfter
<1>2. event.created = run[r].created /\ event.to = target
    OBVIOUS
<1> HIDE DEF event, target
<1>3. \A e \in events : e.created \in Nat /\ e.created # run[r].created
    BY DEF IInv, TypeOK, Event, Commit
<1>4. run[r].created \in Nat
    BY DEF IInv, TypeOK
<1>5. \A e \in events' \ {event} : e.created < event.created
    BY <1>1, <1>2, <1>3, <1>4
<1> QED
    BY <1>1, <1>2, <1>5 DEF EndsAt

\* The log of applied events ends at the percentage the row holds, for any
\* number of overlapping runs, unless the run that changed the row last was
\* overtaken by one that began after it (LogMatchesRow).
THEOREM LogIsHistory == Spec => []LogMatchesRow
<1>1. Init => LogMatchesRow
    BY DEF Init, LogMatchesRow, EndsAt
<1>2. IInv /\ LogMatchesRow /\ [Next]_vars => LogMatchesRow'
    <2> SUFFICES ASSUME IInv, LogMatchesRow, [Next]_vars PROVE LogMatchesRow'
        OBVIOUS
    <2>1. ASSUME NEW r \in Runs, Commit(r) PROVE LogMatchesRow'
        <3>1. CASE Applied(r)
            <4>1. overtaken' = \E e \in events : run[r].created < e.created
                BY <2>1, <3>1 DEF Commit
            <4> QED
                BY <2>1, <3>1, <4>1, CommitEndsLog DEF LogMatchesRow, EndsAt
        <3>2. CASE ~Applied(r)
            BY <2>1, <3>2 DEF Commit, RowAfter, LogMatchesRow, EndsAt
        <3> QED
            BY <3>1, <3>2
    <2>2. CASE UNCHANGED <<percent, events, overtaken>>
        BY <2>2 DEF LogMatchesRow, EndsAt
    <2> QED
        BY <2>1, <2>2 DEF Next, Tick, ReadConfig, LookupStep, ServeCached, BeginFetch,
            Answer, EndFetch, Forget, script, vars
<1> QED
    BY <1>1, <1>2, RolloutInvariant, PTL DEF Spec

\* A run in progress began after every run that is in the log.
BeganLast ==
    \A r \in Runs : run[r].pc = "read" =>
        \A e \in events : ~(run[r].created < e.created)

\* One run of the script at a time is never overtaken: its log always ends at
\* the row.
THEOREM OneRunLogIsHistory ==
    ASSUME \A r, q \in Runs : r = q
    PROVE  Spec => []EndsAt(events, percent)
<1> DEFINE Ends == EndsAt(events, percent)
<1>1. Init => Ends /\ BeganLast
    BY DEF Init, EndsAt, BeganLast, Idle
<1>2. ASSUME IInv, Ends, BeganLast, [Next]_vars PROVE Ends' /\ BeganLast'
    <2>1. ASSUME NEW r \in Runs, Commit(r) PROVE Ends' /\ BeganLast'
        <3>1. BeganLast'
            <4>1. \A q \in Runs : run'[q].pc # "read"
                BY <1>2, <2>1 DEF Commit, Idle, IInv, TypeOK
            <4> QED
                BY <4>1 DEF BeganLast
        <3>2. CASE Applied(r)
            BY <1>2, <2>1, <3>1, <3>2, CommitEndsLog DEF BeganLast, Commit
        <3>3. CASE ~Applied(r)
            BY <1>2, <2>1, <3>1, <3>3 DEF Commit, RowAfter, EndsAt
        <3> QED
            BY <3>1, <3>2, <3>3
    <2>2. ASSUME NEW r \in Runs, ReadConfig(r) PROVE Ends' /\ BeganLast'
        <3>1. PICK now \in 1..MaxEvents, w \in Windows :
                /\ \A t \in Stamps : t < now
                /\ run' = [run EXCEPT ![r] = [pc |-> "read", created |-> now,
                                              read |-> percent, window |-> w]]
            BY <2>2 DEF ReadConfig
        <3>2. \A e \in events : e.created \in Nat /\ e.created < now
            BY <1>2, <3>1 DEF Stamps, IInv, TypeOK, Event
        <3>3. UNCHANGED <<percent, events>> /\ now \in Nat
            BY <2>2, RolloutAssumption DEF ReadConfig, RolloutAssumption
        <3>4. \A q \in Runs : run'[q].pc = "read" => run'[q].created = now
            BY <1>2, <3>1 DEF IInv, TypeOK
        <3> QED
            BY <1>2, <3>2, <3>3, <3>4 DEF BeganLast, EndsAt
    <2>3. CASE UNCHANGED <<percent, events, run>>
        BY <1>2, <2>3 DEF BeganLast, EndsAt
    <2> QED
        BY <1>2, <2>1, <2>2, <2>3 DEF Next, Tick, LookupStep, ServeCached, BeginFetch,
            Answer, EndFetch, Forget, script, vars
<1>3. IInv /\ Ends /\ BeganLast /\ [Next]_vars => Ends' /\ BeganLast'
    BY <1>2
<1> QED
    BY <1>1, <1>3, RolloutInvariant, PTL DEF Spec

-----------------------------------------------------------------------------
\* A window without blocking reasons supports a promotion, and no other does.
LEMMA BlockingOrSupport ==
    ASSUME NEW w
    PROVE  BlockingReasons(w) = {} <=> Supports(w)
BY DEF BlockingReasons, Supports

\* A target above what a run read is a promotion.
LEMMA PromotionNeedsSupport ==
    ASSUME NEW p \in 0..100, NEW w, Target(p, w) > p
    PROVE  Supports(w)
<1>1. PreviousStage(p) \in 0..100 /\ PreviousStage(p) <= p
    BY StageNeighbours DEF STAGES
<1>2. Target(p, w) \in {p, PreviousStage(p)} \/ BlockingReasons(w) = {}
    BY DEF Target
<1>3. BlockingReasons(w) = {}
    BY <1>1, <1>2
<1> QED
    BY <1>3, BlockingOrSupport

\* Every promotion in the log was made on a window that supports it.
PromotionsSupported ==
    \A e \in events : e.to > e.from => Supports(e.window)

\* However runs overlap, no promotion is logged on a window that blocks it.
THEOREM PromotionsAreSupported == Spec => []PromotionsSupported
<1>1. Init => PromotionsSupported
    BY DEF Init, PromotionsSupported
<1>2. IInv /\ PromotionsSupported /\ [Next]_vars => PromotionsSupported'
    <2> SUFFICES ASSUME IInv, PromotionsSupported, [Next]_vars
                 PROVE  PromotionsSupported'
        OBVIOUS
    <2>1. ASSUME NEW r \in Runs, Commit(r), Applied(r) PROVE PromotionsSupported'
        <3> DEFINE event == [created |-> run[r].created, from |-> run[r].read,
                             to |-> Target(run[r].read, run[r].window),
                             window |-> run[r].window]
        <3>1. events' = events \cup {event} /\ run[r].read \in 0..100
            BY <2>1 DEF Commit, IInv, TypeOK
        <3>2. event.to > event.from => Supports(event.window)
            BY <3>1, PromotionNeedsSupport
        <3> HIDE DEF event
        <3> QED
            BY <3>1, <3>2 DEF PromotionsSupported
    <2>2. CASE UNCHANGED events
        BY <2>2 DEF PromotionsSupported
    <2> QED
        BY <2>1, <2>2 DEF Next, Commit, Tick, ReadConfig, LookupStep, ServeCached,
            BeginFetch, Answer, EndFetch, Forget, script, vars
<1> QED
    BY <1>1, <1>2, RolloutInvariant, PTL DEF Spec

\* The row stands on a stage, and a run in progress read the row as it is.
RowAsRead == percent \in STAGES /\ \A r \in Runs : run[r].pc = "read" => run[r].read = percent

\* While one run at a time reads and commits, the row moves from stage to stage:
\* this is where a later run that overwrites an earlier one has to be excluded.
THEOREM OneRunMovesStageByStage ==
    ASSUME \A r, q \in Runs : r = q
    PROVE  Spec => StageByStage
<1>1. Init => RowAsRead
    BY DEF Init, RowAsRead, Idle, STAGES
<1>2. ASSUME IInv, RowAsRead, [Next]_vars
      PROVE  /\ RowAsRead'
             /\ percent' # percent =>
                  /\ percent' \in STAGES
                  /\ \A s \in STAGES : ~(percent < s /\ s < percent')
                                    /\ ~(percent' < s /\ s < percent)
    <2>1. ASSUME NEW r \in Runs, Commit(r)
          PROVE  /\ RowAsRead'
                 /\ percent' # percent =>
                      /\ percent' \in STAGES
                      /\ \A s \in STAGES : ~(percent < s /\ s < percent')
                                        /\ ~(percent' < s /\ s < percent)
        <3>1. percent \in STAGES /\ run[r].read = percent /\ percent \in 0..100
            BY <1>2, <2>1 DEF RowAsRead, Commit, IInv, TypeOK
        <3>2. percent' \in {percent, NextStage(percent), PreviousStage(percent)}
            BY <2>1, <3>1 DEF Commit, RowAfter, Target
        <3>3. percent' # percent =>
                  /\ percent' \in STAGES
                  /\ \A s \in STAGES : ~(percent < s /\ s < percent')
                                    /\ ~(percent' < s /\ s < percent)
            BY <3>1, <3>2, StageNeighbours DEF STAGES
        <3>4. \A q \in Runs : run'[q].pc # "read"
            BY <1>2, <2>1 DEF Commit, Idle, IInv, TypeOK
        <3> QED
            BY <3>1, <3>3, <3>4 DEF RowAsRead
    <2>2. ASSUME NEW r \in Runs, ReadConfig(r)
          PROVE  RowAsRead' /\ percent' = percent
        BY <1>2, <2>2 DEF ReadConfig, RowAsRead, IInv, TypeOK
    <2>3. CASE UNCHANGED <<percent, run>>
        BY <1>2, <2>3 DEF RowAsRead
    <2> QED
        BY <1>2, <2>1, <2>2, <2>3 DEF Next, Tick, LookupStep, ServeCached,
            BeginFetch, Answer, EndFetch, Forget, script, vars
<1>3. IInv /\ RowAsRead /\ [Next]_vars =>
          [percent' # percent =>
              /\ percent' \in STAGES
              /\ \A s \in STAGES : ~(percent < s /\ s < percent')
                                /\ ~(percent' < s /\ s < percent)]_vars
    BY <1>2
<1>4. IInv /\ RowAsRead /\ [Next]_vars => RowAsRead'
    BY <1>2
<1> QED
    BY <1>1, <1>3, <1>4, RolloutInvariant, PTL DEF Spec, StageByStage
=============================================================================
