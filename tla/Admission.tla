------------------------------ MODULE Admission ------------------------------
(***************************************************************************)
(* What stands before every handler of the API: the token and its          *)
(* permission, access to the tenant (security/auth.py, security/deps.py,   *)
(* api/routes.py), and the token buckets of security/rate_limit.py, one    *)
(* per tenant and action and one per user of the tenant and action.        *)
(*                                                                         *)
(* A call notes the time of its pod once; the tenant's script and then the *)
(* user's run in Redis, each atomically, after any number of other calls.  *)
(* Time is integer ticks of Redis' clock; pods are off by up to Skew, and  *)
(* a call lives MaxDelay ticks at most.                                    *)
(***************************************************************************)
EXTENDS Integers, Sequences, FiniteSets

CONSTANTS
    Calls,              \* concurrent API calls; each may be followed by another
    Tokens,             \* bearer tokens the calls carry
    Permissions,        \* what a route asks for; also the action of its buckets
    TenantIds,          \* tenants of the requests
    AuthEnabled,        \* settings.auth_enabled
    TenantLimit, UserLimit, WindowTicks,
    Second,             \* ticks of a second, the unit of EXPIRE
    RedisFails,         \* a script call may fail, before or after it ran
    Skew, MaxDelay,
    MaxTime, MaxCharges \* bounds on the clock and on a bucket's log

Nobody == "none"        \* no token, or a claim that is absent

\* Claims of a token after _normalize_set.
Token == [state : {"missing", "invalid", "expired", "valid"}, sub : STRING,
          admin : BOOLEAN, permissions : SUBSET (Permissions \cup {"*"}),
          scope : SUBSET (Permissions \cup {"*"}),
          tenants : SUBSET (TenantIds \cup {"*"}), tenant : TenantIds \cup {Nobody},
          future : BOOLEAN]

\* refill_us: the window shared out over the limit, rounded down.
TenantRefill == WindowTicks \div TenantLimit
UserRefill == WindowTicks \div UserLimit

ASSUME AdmissionAssumption ==
    /\ Tokens \subseteq Token
    /\ {TenantLimit, UserLimit, WindowTicks, Second} \subseteq Nat \ {0}
    /\ TenantRefill > 0 /\ UserRefill > 0
    /\ {Skew, MaxDelay, MaxTime, MaxCharges} \subseteq Nat
    /\ MaxDelay + 2 * Skew <= Second
    /\ {AuthEnabled, RedisFails} \subseteq BOOLEAN

VARIABLES
    redisTime,  \* Redis' clock
    bucket,     \* Redis: per key, its fields and its expiry
    apiCall,    \* per call: where it is, its key fields and the time it noted
    charges     \* history: per key, the times at which it gave a token

admission == <<redisTime, bucket, apiCall, charges>>

-----------------------------------------------------------------------------
\* _build_context: scope stands in for absent permissions, and a star among
\* the tenants or the permissions makes an administrator.
PermissionsOf(t) == IF t.permissions = {} THEN t.scope ELSE t.permissions
TenantsOf(t) == t.tenants \cup ({t.tenant} \ {Nobody})
IsPlatformAdmin(t) == t.admin \/ "*" \in TenantsOf(t) \/ "*" \in PermissionsOf(t)

\* authenticate, _decode: no token, a bad one, one without a subject or one
\* from the future.
Authenticated(t) == t.state = "valid" /\ t.sub # Nobody /\ ~t.future

\* require_permission, then enforce_tenant_access
Permitted(t, permission) == IsPlatformAdmin(t) \/ permission \in PermissionsOf(t)
TenantAllowed(t, tenant) == IsPlatformAdmin(t) \/ tenant \in TenantsOf(t)

\* Every other call is answered 401 or 403 before it reaches a limiter.
LetThrough(t, permission, tenant) ==
    AuthEnabled => /\ Authenticated(t)
                   /\ Permitted(t, permission)
                   /\ TenantAllowed(t, tenant)

\* With authentication off everybody is the same local administrator.
SubjectOf(t) == IF AuthEnabled THEN t.sub ELSE "dev-local"

TenantKeys == {<<"tenant", t, p>> : t \in TenantIds, p \in Permissions}
Subjects == {SubjectOf(t) : t \in Tokens}
UserKeys == {<<"user", t, u, p>> : t \in TenantIds, u \in Subjects, p \in Permissions}
Keys == TenantKeys \cup UserKeys

Limit(k) == IF k[1] = "tenant" THEN TenantLimit ELSE UserLimit
Refill(k) == IF k[1] = "tenant" THEN TenantRefill ELSE UserRefill

NoKey == [tokens |-> -1, last |-> 0, expires |-> 0]
\* A call that was answered; its caller may come back.
Ended == [pc |-> "idle", tenant |-> Nobody, subject |-> Nobody,
          permission |-> Nobody, noted |-> 0, began |-> 0]

AdmissionInit ==
    /\ redisTime = 0
    /\ bucket = [k \in Keys |-> NoKey]
    /\ apiCall = [c \in Calls |-> Ended]
    /\ charges = [k \in Keys |-> <<>>]

-----------------------------------------------------------------------------
\* A call arrives: identity, permission and tenant are checked before the time
\* is noted, and a call that is not let through touches no bucket.
Enter(c) ==
    /\ apiCall[c].pc = "idle"
    /\ \E t \in Tokens, permission \in Permissions, tenant \in TenantIds,
          off \in (-Skew)..Skew :
          /\ LetThrough(t, permission, tenant)
          /\ apiCall' = [apiCall EXCEPT ![c] =
                [pc |-> "tenant", tenant |-> tenant, subject |-> SubjectOf(t),
                 permission |-> permission, noted |-> redisTime + off, began |-> redisTime]]
    /\ UNCHANGED <<redisTime, bucket, charges>>

KeyOf(c) ==
    IF apiCall[c].pc = "tenant"
    THEN <<"tenant", apiCall[c].tenant, apiCall[c].permission>>
    ELSE <<"user", apiCall[c].tenant, apiCall[c].subject, apiCall[c].permission>>

\* The key as the script finds it: an expired or a new one is full.
FoundBucket(k, noted) ==
    IF bucket[k].tokens = -1 \/ redisTime >= bucket[k].expires
    THEN [tokens |-> Limit(k), last |-> noted] ELSE bucket[k]

\* Mutant: the remainder of the period is lost with every call.
Refilled_Resets(k, noted) ==
    LET b == FoundBucket(k, noted)
        elapsed == IF noted > b.last THEN noted - b.last ELSE 0
        tokens == b.tokens + elapsed \div Refill(k)
    IN  [tokens |-> IF tokens < Limit(k) THEN tokens ELSE Limit(k),
         last |-> b.last + elapsed]

\* The bucket after the refill: whole periods only, the remainder is kept, and
\* a clock that goes back refills nothing.
Refilled(k, noted) ==
    LET b == FoundBucket(k, noted)
        elapsed == IF noted > b.last THEN noted - b.last ELSE 0
        periods == elapsed \div Refill(k)
        tokens == b.tokens + periods
    IN  [tokens |-> IF tokens < Limit(k) THEN tokens ELSE Limit(k),
         last |-> b.last + periods * Refill(k)]

\* math.ceil(max_tokens * refill_us / 1000000) + 1 seconds
Ttl(k) == ((Limit(k) * Refill(k) + Second - 1) \div Second + 1) * Second

\* Mutant: a bucket may go one below empty.
Gives_Overdraft(b) == b.tokens >= 0

Gives(b) == b.tokens > 0

\* The Lua script on a key, with the time the call has noted.
RunScript(k, noted) ==
    LET b == Refilled(k, noted) IN
    /\ bucket' = [bucket EXCEPT ![k] =
          [tokens |-> IF Gives(b) THEN b.tokens - 1 ELSE b.tokens,
           last |-> b.last, expires |-> redisTime + Ttl(k)]]
    /\ charges' = IF Gives(b) THEN [charges EXCEPT ![k] = Append(@, redisTime)] ELSE charges

Roomy(k) == Len(charges[k]) < MaxCharges

\* enforce: the tenant's bucket, then the user's, and the handler runs.
Charge(c) ==
    LET k == KeyOf(c) IN
    /\ apiCall[c].pc # "idle"
    /\ Roomy(k)
    /\ Gives(Refilled(k, apiCall[c].noted))
    /\ RunScript(k, apiCall[c].noted)
    /\ apiCall' = [apiCall EXCEPT ![c] =
          IF @.pc = "user" THEN Ended ELSE [@ EXCEPT !.pc = "user"]]
    /\ UNCHANGED redisTime

\* 429: what the tenant's bucket gave is not given back when the user's is empty.
Refuse(c) ==
    LET k == KeyOf(c) IN
    /\ apiCall[c].pc # "idle"
    /\ ~Gives(Refilled(k, apiCall[c].noted))
    /\ RunScript(k, apiCall[c].noted)
    /\ apiCall' = [apiCall EXCEPT ![c] = Ended]
    /\ UNCHANGED redisTime

\* Redis fails a script call, perhaps after it ran: the call is let in
\* (rate_limit_fail_open) or answered 503, and no further bucket is asked.
ScriptFails(c) ==
    /\ RedisFails
    /\ apiCall[c].pc # "idle"
    /\ \/ Roomy(KeyOf(c)) /\ RunScript(KeyOf(c), apiCall[c].noted)
       \/ UNCHANGED <<bucket, charges>>
    /\ apiCall' = [apiCall EXCEPT ![c] = Ended]
    /\ UNCHANGED redisTime

\* A call that is too old is over before the clock goes on.
Elapse ==
    /\ redisTime < MaxTime
    /\ \A c \in Calls : apiCall[c].pc # "idle" => redisTime < apiCall[c].began + MaxDelay
    /\ redisTime' = redisTime + 1
    /\ UNCHANGED <<bucket, apiCall, charges>>

AdmissionNext ==
    \/ \E c \in Calls : Enter(c) \/ Charge(c) \/ Refuse(c) \/ ScriptFails(c)
    \/ Elapse

AdmissionSpec == AdmissionInit /\ [][AdmissionNext]_admission

-----------------------------------------------------------------------------
\* Every variable of the admission holds values of its type.
AdmissionTypeOK ==
    /\ redisTime \in 0..MaxTime
    /\ bucket \in [Keys -> [tokens : -1..TenantLimit + UserLimit, last : Int, expires : Nat]]
    /\ \A c \in Calls :
          /\ apiCall[c].pc \in {"idle", "tenant", "user"}
          /\ apiCall[c].pc # "idle" => KeyOf(c) \in Keys
    /\ charges \in [Keys -> Seq(0..MaxTime)]

\* How far the times that two calls noted may be out of order.
Slack == MaxDelay + 2 * Skew

\* A bucket gives at most its limit at once and then one token per refill
\* period: over any stretch of its log, in whatever order the scripts ran, and
\* when the key expired in between, as long as delays and the differences of
\* the clocks add up to at most the second by which an expiry is too late.
AdmissionBounded ==
    \A k \in Keys : \A i, j \in 1..Len(charges[k]) :
        i <= j =>
            (j - i + 1 - Limit(k)) * Refill(k)
                <= charges[k][j] - charges[k][i] + Slack + Refill(k) - 1

\* The time in which an empty bucket is full again, seen by any pod.
FullAgain(k) == Limit(k) * Refill(k) + Slack

\* Nobody is refused by a bucket that had time to fill: before a refusal it
\* gave its whole limit within the time it takes to refill. (What it gave
\* counts also when the call was then refused by the user's bucket.)
RefusalsJustified ==
    [][\A c \in Calls : Refuse(c) =>
          LET k == KeyOf(c) IN
          Cardinality({i \in 1..Len(charges[k]) :
                          charges[k][i] >= redisTime - FullAgain(k)}) >= Limit(k)]_admission
==============================================================================
