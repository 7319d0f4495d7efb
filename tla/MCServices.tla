----------------------------- MODULE MCServices ------------------------------
(***************************************************************************)
(* The components around the decision path, one instance of each. They     *)
(* share no state, so nothing is gained by interleaving them: a rigid      *)
(* variable says which of them moves.                                      *)
(***************************************************************************)
EXTENDS Admission, ChunkStore, HandoffQueue, Migrations, ModelRegistry,
        ModelServing, Secrets, TLC

VARIABLE focus

services == <<admission, chunkStore, vars, migrations, registry, secrets,
              serving, focus>>

ServicesInit ==
    /\ focus \in {"admission", "chunks", "handoffs", "migrations", "registry",
                 "secrets", "serving"}
    /\ AdmissionInit /\ ChunkStoreInit /\ Init
    /\ MigrationsInit /\ RegistryInit /\ SecretsInit /\ ServingInit
    /\ focus # "chunks" => file = CHOOSE v \in Versions : TRUE
    /\ focus # "serving" => backend = CHOOSE b \in Backends : TRUE

ServicesNext ==
    /\ UNCHANGED focus
    /\ \/ /\ focus = "admission"
          /\ AdmissionNext
          /\ UNCHANGED <<chunkStore, vars, migrations, registry, secrets, serving>>
       \/ /\ focus = "chunks"
          /\ ChunkStoreNext
          /\ UNCHANGED <<admission, vars, migrations, registry, secrets, serving>>
       \/ /\ focus = "handoffs"
          /\ Next
          /\ UNCHANGED <<admission, chunkStore, migrations, registry, secrets, serving>>
       \/ /\ focus = "migrations"
          /\ MigrationsNext
          /\ UNCHANGED <<admission, chunkStore, vars, registry, secrets, serving>>
       \/ /\ focus = "registry"
          /\ RegistryNext
          /\ UNCHANGED <<admission, chunkStore, vars, migrations, secrets, serving>>
       \/ /\ focus = "secrets"
          /\ SecretsNext
          /\ UNCHANGED <<admission, chunkStore, vars, migrations, registry, serving>>
       \/ /\ focus = "serving"
          /\ ServingNext
          /\ UNCHANGED <<admission, chunkStore, vars, migrations, registry, secrets>>

ServicesSpec == ServicesInit /\ [][ServicesNext]_services

-----------------------------------------------------------------------------
CONSTANTS c1, c2, tA, decide, s0, s1, w1, w2, rt1, anySection,
          h1, h2, h3, q1, q2, m1, m2, m3, a1, a2, a3, p1, p2, r1, r2, r3

TwoCalls == {c1, c2}
OneTenant == {tA}
OnePermission == {decide}
Tok(sub) == [state |-> "valid", sub |-> sub, admin |-> FALSE, permissions |-> {decide},
             scope |-> {}, tenants |-> {tA}, tenant |-> Nobody, future |-> FALSE]
SomeTokens == {Tok("x"), [Tok("x") EXCEPT !.state = "expired"]}

Chunk(t, s, n) == [tenant |-> t, section |-> s, id |-> n]
SomeChunks == {Chunk(t, s, n) : t \in {"A", "B"}, s \in {s0, s1}, n \in 1..2}
TwoVersions == {<<Chunk("A", s0, 1), Chunk("B", s1, 1)>>,
                <<Chunk("A", s1, 2), Chunk("A", s0, 2)>>}
TwoReloaders == {w1, w2}
OneRetriever == {rt1}
SomeQueries == {[tenant |-> "A", section |-> s0], [tenant |-> "B", section |-> s0],
                [tenant |-> "A", section |-> anySection]}

\* Two handoffs of one request, and one of another tenant's request; the
\* second has a payload that does not parse, the second request an id that is
\* not a UUID.
SomeHandoffs == {h1, h2, h3}
SomeRequests == {q1, q2}
SomeRequestOf == [h \in Handoffs |-> IF h = h3 THEN q2 ELSE q1]
SomeTenantOf == (q1 :> "acme") @@ (q2 :> "globex")
SomeTenants == {"acme", "globex"}
FirstIsUuid == {q1}
SecondUnreadable == {h2}
TwoDecisions == {"recommend", "escalate"}

File(v, checksum) == [version |-> v, checksum |-> checksum]
ThreeMigrators == {m1, m2, m3}
SomeFiles == m1 :> <<File(1, "a"), File(2, "a")>>
          @@ m2 :> <<File(1, "a"), File(2, "a"), File(3, "a")>>
          @@ m3 :> <<File(1, "a"), File(2, "edited")>>

ThreeArtifacts == {a1, a2, a3}
TwoTypes == {"routing_model", "calibration"}
TheirTypes == a1 :> "routing_model" @@ a2 :> "routing_model" @@ a3 :> "calibration"
SomeStages == {"development", "production", "archived"}

TwoBackends == {"artifact", "http"}
DatabaseOnly == {"database"}
FourArtifacts == <<"routing_model", "routing_calibration", "escalation_model",
                   "escalation_calibration">>
OneCalibration == {"routing_calibration"}

TwoPods == {p1, p2}
ThreeReaders == {r1, r2, r3}
TheirPods == r1 :> p1 @@ r2 :> p1 @@ r3 :> p2

\* Connections, calls, reloaders and deployments' readers are alike.
Alike == Permutations(Patchers) \cup Permutations(Calls) \cup Permutations(Reloaders)
            \cup Permutations({r1, r2})
==============================================================================
