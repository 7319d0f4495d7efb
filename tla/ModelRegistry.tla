---------------------------- MODULE ModelRegistry ----------------------------
(***************************************************************************)
(* services/model_registry.py: artifacts move between stages, every        *)
(* register and promote leaves a lineage event, and promoting to           *)
(* production archives the artifact that get_active answers so far. A      *)
(* failed quality gate is recorded in the event and stops nothing, so the  *)
(* model leaves it out.                                                    *)
(***************************************************************************)
EXTENDS Naturals, SequencesExt

CONSTANTS
    Artifacts,
    Types,          \* ArtifactType
    TypeOf,         \* the type an id is registered with, each time
    Stages,         \* ModelStage
    MaxLineage      \* bound on the lineage

NoArtifact == "none"
NoStage == "none"

\* An id is a UUID; a stage has a name of its own.
ASSUME ModelRegistryAssumption ==
    /\ TypeOf \in [Artifacts -> Types]
    /\ NoArtifact \notin Artifacts
    /\ {"production", "archived"} \subseteq Stages /\ NoStage \notin Stages
    /\ MaxLineage \in Nat

VARIABLES
    stage,      \* per artifact: its stage, or none before it is registered
    lineage,    \* the events, in order
    active      \* per type: the artifact promoted to production last, or none

registry == <<stage, lineage, active>>

RegistryInit ==
    /\ stage = [a \in Artifacts |-> NoStage]
    /\ lineage = <<>>
    /\ active = [t \in Types |-> NoArtifact]

LineageEvent(a, from, to) == [artifact |-> a, from |-> from, to |-> to]

\* A known id is overwritten, and active is left alone; nothing in the code
\* registers an artifact that is in production already.
Register(a) ==
    /\ Len(lineage) < MaxLineage
    /\ \E s \in Stages \ {"production"} :
          /\ stage' = [stage EXCEPT ![a] = s]
          /\ lineage' = Append(lineage, LineageEvent(a, NoStage, s))
    /\ UNCHANGED active

\* Mutant: active is set before the previous artifact is looked up.
Superseded_TooLate(a) == {a} \ {NoArtifact, a}

\* The artifact a promotion of a to production archives.
Superseded(a) == {active[TypeOf[a]]} \ {NoArtifact, a}

\* Mutant: the superseded artifact is archived behind the lineage's back.
ArchivedEvents_None(olds) == <<>>

\* The events of the promotions to archived that promote makes itself.
ArchivedEvents(olds) ==
    SetToSeq({LineageEvent(b, stage[b], "archived") : b \in olds})

\* promote to any stage but production; an unknown id raises.
Move(a) ==
    /\ stage[a] # NoStage
    /\ Len(lineage) < MaxLineage
    /\ \E s \in Stages \ {"production"} :
          /\ stage' = [stage EXCEPT ![a] = s]
          /\ lineage' = Append(lineage, LineageEvent(a, stage[a], s))
    /\ UNCHANGED active

\* promote to production: its own event, then the promotion of the previous
\* artifact to archived, whatever its stage is by now, then active.
Release(a) ==
    /\ stage[a] # NoStage
    /\ Len(lineage) + 1 < MaxLineage
    /\ stage' = [b \in Artifacts |->
                    IF b = a THEN "production"
                    ELSE IF b \in Superseded(a) THEN "archived" ELSE stage[b]]
    /\ lineage' = Append(lineage, LineageEvent(a, stage[a], "production"))
                    \o ArchivedEvents(Superseded(a))
    /\ active' = [active EXCEPT ![TypeOf[a]] = a]

RegistryNext == \E a \in Artifacts : Register(a) \/ Move(a) \/ Release(a)

RegistrySpec == RegistryInit /\ [][RegistryNext]_registry

-----------------------------------------------------------------------------
\* Every variable of the registry holds values of its type.
RegistryTypeOK ==
    /\ stage \in [Artifacts -> Stages \cup {NoStage}]
    /\ active \in [Types -> Artifacts \cup {NoArtifact}]
    /\ \A t \in Types : active[t] # NoArtifact => TypeOf[active[t]] = t
    /\ \A i \in DOMAIN lineage : lineage[i].artifact \in Artifacts

\* Whatever order artifacts are registered, promoted, demoted, rolled back and
\* registered again in, at most one of a type is in production, and it is the
\* one that get_active answers. (The reverse fails: get_active goes on answering
\* an artifact that was demoted or rolled back.)
OneInProduction ==
    \A a \in Artifacts : stage[a] = "production" => active[TypeOf[a]] = a

\* The positions of the events of an artifact.
EventsOf(a) == {i \in DOMAIN lineage : lineage[i].artifact = a}

\* The lineage alone explains the stages: the events of an artifact follow on
\* each other from a registration to the stage it has, archiving included.
LineageExplains ==
    \A a \in Artifacts :
        LET events == EventsOf(a) IN
        /\ stage[a] # NoStage <=> events # {}
        /\ \A i \in events :
              /\ (\A j \in events : j <= i) => lineage[i].to = stage[a]
              /\ \/ lineage[i].from = NoStage
                 \/ \E j \in events : /\ j < i /\ lineage[j].to = lineage[i].from
                                      /\ \A k \in events : k <= j \/ k >= i
==============================================================================
