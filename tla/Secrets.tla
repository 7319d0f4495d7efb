------------------------------- MODULE Secrets -------------------------------
(***************************************************************************)
(* VaultSecretsProvider (security/secrets.py) in the pods of a deployment: *)
(* each caches a secret for _cache_ttl, threads fetch it from Vault, and   *)
(* it is rotated through one of the pods. The secret's value is the number *)
(* of rotations that reached Vault.                                        *)
(***************************************************************************)
EXTENDS Integers, Sequences

CONSTANTS
    Pods,           \* each with a provider and its cache
    Readers,        \* threads that read the secret
    PodOf,          \* the pod of a thread
    CacheTtl,       \* _cache_ttl
    FetchTime,      \* the request's timeout, in the same ticks
    MaxRotations, MaxTicks  \* bounds on the rotations and on the clock

ASSUME SecretsAssumption ==
    /\ PodOf \in [Readers -> Pods]
    /\ CacheTtl \in Nat \ {0}
    /\ {FetchTime, MaxRotations, MaxTicks} \subseteq Nat

VARIABLES
    ticks,      \* time.monotonic
    rotatedAt,  \* Vault: the times of the rotations; their number is the value
    cached,     \* per pod: the cached value and when it was stored
    reader,     \* per thread: its get_secret
    rotator     \* the pod that posts a new value, or none

secrets == <<ticks, rotatedAt, cached, reader, rotator>>

NoPod == "none"
NotCached == [value |-> -1, at |-> 0]
AtRest == [pc |-> "rest", value |-> -1, began |-> 0]

SecretsInit ==
    /\ ticks = 0
    /\ rotatedAt = <<>>
    /\ cached = [p \in Pods |-> NotCached]
    /\ reader = [r \in Readers |-> AtRest]
    /\ rotator = NoPod

Fresh(p) == cached[p] # NotCached /\ ticks - cached[p].at < CacheTtl

\* A secret that get_secret returned now.
Returned(value) == [pc |-> "returned", value |-> value, began |-> ticks]

\* Mutant: a hit renews the entry.
Hit_Renews(r) ==
    /\ reader[r].pc = "rest"
    /\ Fresh(PodOf[r])
    /\ reader' = [reader EXCEPT ![r] = Returned(cached[PodOf[r]].value)]
    /\ cached' = [cached EXCEPT ![PodOf[r]].at = ticks]
    /\ UNCHANGED <<ticks, rotatedAt, rotator>>

Hit(r) ==
    /\ reader[r].pc = "rest"
    /\ Fresh(PodOf[r])
    /\ reader' = [reader EXCEPT ![r] = Returned(cached[PodOf[r]].value)]
    /\ UNCHANGED <<ticks, rotatedAt, cached, rotator>>

AskVault(r) ==
    /\ reader[r].pc = "rest"
    /\ ~Fresh(PodOf[r])
    /\ reader' = [reader EXCEPT ![r] = [pc |-> "asking", value |-> -1, began |-> ticks]]
    /\ UNCHANGED <<ticks, rotatedAt, cached, rotator>>

\* Vault reads the value; its response is on the way.
VaultReads(r) ==
    /\ reader[r].pc = "asking"
    /\ reader' = [reader EXCEPT ![r].pc = "answered", ![r].value = Len(rotatedAt)]
    /\ UNCHANGED <<ticks, rotatedAt, cached, rotator>>

\* The thread stores what it got, with the time at which it got it, and
\* whatever became of the entry in between.
StoreAnswer(r) ==
    /\ reader[r].pc = "answered"
    /\ cached' = [cached EXCEPT ![PodOf[r]] = [value |-> reader[r].value, at |-> ticks]]
    /\ reader' = [reader EXCEPT ![r] = Returned(@.value)]
    /\ UNCHANGED <<ticks, rotatedAt, rotator>>

\* SecretNotFoundError, or the caller is done with the value.
Rest(r) ==
    /\ reader[r].pc # "rest"
    /\ reader' = [reader EXCEPT ![r] = AtRest]
    /\ UNCHANGED <<ticks, rotatedAt, cached, rotator>>

\* rotate_secret: the new value is in Vault ...
Post(p) ==
    /\ rotator = NoPod
    /\ Len(rotatedAt) < MaxRotations
    /\ rotatedAt' = Append(rotatedAt, ticks)
    /\ rotator' = p
    /\ UNCHANGED <<ticks, cached, reader>>

\* ... and the pod that posted it forgets its entry, or gets no answer and
\* raises SecretRotationError with the entry still there.
PostEnds ==
    /\ rotator # NoPod
    /\ \/ cached' = [cached EXCEPT ![rotator] = NotCached]
       \/ UNCHANGED cached
    /\ rotator' = NoPod
    /\ UNCHANGED <<ticks, rotatedAt, reader>>

\* No request outlives its timeout, and a returned secret is used at once.
TickOn ==
    /\ ticks < MaxTicks
    /\ \A r \in Readers :
          /\ reader[r].pc # "returned"
          /\ reader[r].pc # "rest" => ticks < reader[r].began + FetchTime
    /\ ticks' = ticks + 1
    /\ UNCHANGED <<rotatedAt, cached, reader, rotator>>

SecretsNext ==
    \/ \E r \in Readers :
          Hit(r) \/ AskVault(r) \/ VaultReads(r) \/ StoreAnswer(r) \/ Rest(r)
    \/ \E p \in Pods : Post(p)
    \/ PostEnds
    \/ TickOn

SecretsSpec == SecretsInit /\ [][SecretsNext]_secrets

-----------------------------------------------------------------------------
\* Every variable of the secrets holds values of its type.
SecretsTypeOK ==
    /\ ticks \in 0..MaxTicks
    /\ rotatedAt \in Seq(0..MaxTicks)
    /\ cached \in [Pods -> [value : -1..MaxRotations, at : 0..MaxTicks]]
    /\ reader \in [Readers -> [pc : {"rest", "asking", "answered", "returned"},
                               value : -1..MaxRotations, began : 0..MaxTicks]]
    /\ rotator \in Pods \cup {NoPod}

\* A rotated secret is gone everywhere within the cache's lifetime and one
\* request: whatever get_secret returns, in the pod that rotated it or in
\* another, also when a fetch that began before the rotation put the old value
\* back, was Vault's value less than CacheTtl + FetchTime ticks ago.
StalenessBounded ==
    \A r \in Readers :
        reader[r].pc = "returned" /\ reader[r].value < Len(rotatedAt) =>
            ticks - rotatedAt[reader[r].value + 1] < CacheTtl + FetchTime
==============================================================================
