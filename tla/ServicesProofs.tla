--------------------------- MODULE ServicesProofs ----------------------------
(***************************************************************************)
(* The components around the decision path, each by itself: what overlap,  *)
(* restarts and late answers cannot undo in any of them, for any number of *)
(* deployments, artifacts, pods and threads.                               *)
(***************************************************************************)
EXTENDS Admission, ChunkStore, Migrations, ModelRegistry, ModelServing, Secrets,
        FiniteSetTheorems, TLAPS

-----------------------------------------------------------------------------
(* scripts/migrate.py                                                      *)

Row == [version : Nat, checksum : STRING]

\* A run of migrate.py is at the first file it has not seen committed, or at an
\* earlier one; one that holds the key of a row holds the next one.
InStep(m) ==
    /\ migrator[m].pc \in {"next", "ran", "inserted"} =>
          migrator[m].index <= Len(schema) + 1
    /\ InTransaction(m) => migrator[m].index <= Len(Files[m])
    /\ migrator[m].pc = "inserted" => migrator[m].index = Len(schema) + 1

MigrationsInv ==
    /\ migrator \in [Migrators -> [pc : {"rest", "next", "ran", "inserted", "failed"},
                                   index : Nat \ {0}, seen : SUBSET ledger, runs : Nat]]
    /\ schema \in Seq(Row)
    /\ LedgerIsSchema
    /\ \A m \in Migrators : InStep(m) /\ (migrator[m].pc = "rest" => migrator[m].index = 1)
    /\ \A m, n \in Migrators :
          migrator[m].pc = "inserted" /\ migrator[n].pc = "inserted" => m = n

\* The file a run is at is the one with the version of its index.
LEMMA CurrentVersion ==
    ASSUME MigrationsInv, NEW m \in Migrators, migrator[m].index <= Len(Files[m])
    PROVE  Current(m) \in Row /\ Current(m).version = migrator[m].index
<1>1. Files[m] \in Seq(Row) /\ migrator[m].index \in Nat \ {0}
    BY MigrationsAssumption DEF MigrationsAssumption, MigrationsInv, Row
<1>2. migrator[m].index \in DOMAIN Files[m]
    BY <1>1
<1> QED
    BY <1>1, <1>2, MigrationsAssumption DEF MigrationsAssumption, Current

\* A committed version is one of those in effect.
LEMMA CommittedVersions ==
    ASSUME MigrationsInv
    PROVE  /\ \A row \in ledger : row.version \in 1..Len(schema)
           /\ \A v \in 1..Len(schema) : \E row \in ledger : row.version = v
<1>1. schema \in Seq(Row) /\ ledger = {schema[i] : i \in DOMAIN schema}
      /\ \A i \in DOMAIN schema : schema[i].version = i
    BY DEF MigrationsInv, LedgerIsSchema, ToSet
<1>2. DOMAIN schema = 1..Len(schema)
    BY <1>1
<1> QED
    BY <1>1, <1>2

\* A step of one run that commits nothing keeps the invariant, if it leaves that
\* run in step.
LEMMA MigratorStep ==
    ASSUME MigrationsInv, NEW m \in Migrators, UNCHANGED <<ledger, schema>>,
           NEW to \in [pc : {"rest", "next", "ran", "inserted", "failed"},
                       index : Nat \ {0}, seen : SUBSET ledger, runs : Nat],
           migrator' = [migrator EXCEPT ![m] = to],
           to.pc = "rest" => to.index = 1,
           to.pc \in {"next", "ran", "inserted"} => to.index <= Len(schema) + 1,
           to.pc \in {"ran", "inserted"} => to.index <= Len(Files[m]),
           to.pc = "inserted" =>
              /\ to.index = Len(schema) + 1
              /\ \A n \in Migrators \ {m} : migrator[n].pc # "inserted"
    PROVE  MigrationsInv'
<1>1. migrator'[m] = to /\ \A n \in Migrators \ {m} : migrator'[n] = migrator[n]
    BY DEF MigrationsInv
<1>2. migrator' \in [Migrators -> [pc : {"rest", "next", "ran", "inserted", "failed"},
                                   index : Nat \ {0}, seen : SUBSET ledger, runs : Nat]]
    BY DEF MigrationsInv
<1>3. \A n \in Migrators :
          InStep(n)' /\ (migrator'[n].pc = "rest" => migrator'[n].index = 1)
    BY <1>1 DEF MigrationsInv, InStep, InTransaction
<1>4. \A n, k \in Migrators :
          migrator'[n].pc = "inserted" /\ migrator'[k].pc = "inserted" => n = k
    BY <1>1 DEF MigrationsInv
<1>5. LedgerIsSchema'
    BY DEF MigrationsInv, LedgerIsSchema
<1> QED
    BY <1>2, <1>3, <1>4, <1>5 DEF MigrationsInv

\* The row of a version is inserted: no other run holds one, and it is the next.
LEMMA InsertRowKeeps ==
    ASSUME MigrationsInv, NEW m \in Migrators, InsertRow(m)
    PROVE  MigrationsInv'
<1>1. /\ migrator[m].pc = "ran" /\ ~Waits(m) /\ ~Conflicts(m)
      /\ migrator' = [migrator EXCEPT ![m] = [migrator[m] EXCEPT !.pc = "inserted"]]
      /\ UNCHANGED <<ledger, schema>>
    BY DEF InsertRow, MigrationsInv
<1>2. /\ migrator[m].index \in Nat \ {0} /\ migrator[m].index <= Len(schema) + 1
      /\ migrator[m].index <= Len(Files[m]) /\ Len(schema) \in Nat
    BY <1>1 DEF MigrationsInv, InStep, InTransaction
<1>3. Current(m).version = migrator[m].index
    BY <1>2, CurrentVersion
<1>4. migrator[m].index = Len(schema) + 1
    <2>1. ~(migrator[m].index \in 1..Len(schema))
        BY <1>1, <1>3, CommittedVersions DEF Conflicts
    <2> QED
        BY <1>2, <2>1
<1>5. \A n \in Migrators \ {m} : migrator[n].pc # "inserted"
    <2> SUFFICES ASSUME NEW n \in Migrators \ {m}, migrator[n].pc = "inserted"
                 PROVE  FALSE
        OBVIOUS
    <2>1. migrator[n].index = Len(schema) + 1 /\ migrator[n].index <= Len(Files[n])
        BY DEF MigrationsInv, InStep, InTransaction
    <2>2. Current(n).version = migrator[n].index
        BY <2>1, CurrentVersion
    <2> QED
        BY <1>1, <1>3, <1>4, <2>1, <2>2 DEF Waits
<1> DEFINE to == [migrator[m] EXCEPT !.pc = "inserted"]
<1>6. /\ to \in [pc : {"rest", "next", "ran", "inserted", "failed"},
                 index : Nat \ {0}, seen : SUBSET ledger, runs : Nat]
      /\ to.pc = "inserted" /\ to.index = Len(schema) + 1
      /\ to.index <= Len(schema) + 1 /\ to.index <= Len(Files[m])
    BY <1>2, <1>4 DEF MigrationsInv
<1>7. migrator' = [migrator EXCEPT ![m] = to]
    BY <1>1
<1> HIDE DEF to
<1> QED
    BY <1>1, <1>5, <1>6, <1>7, MigratorStep

\* The transaction commits: its version is the next, and no other run holds it.
LEMMA CommitKeeps ==
    ASSUME MigrationsInv, NEW m \in Migrators, Commit(m)
    PROVE  MigrationsInv'
<1>1. /\ migrator[m].pc = "inserted" /\ ledger' = ledger \cup {Current(m)}
      /\ schema' = Append(schema, Current(m))
      /\ migrator' = [migrator EXCEPT ![m].pc = "next", ![m].index = migrator[m].index + 1]
    BY DEF Commit
<1>2. /\ migrator[m].index \in Nat \ {0} /\ migrator[m].index = Len(schema) + 1
      /\ migrator[m].index <= Len(Files[m]) /\ Len(schema) \in Nat /\ schema \in Seq(Row)
    BY <1>1 DEF MigrationsInv, InStep, InTransaction
<1>3. Current(m) \in Row /\ Current(m).version = Len(schema) + 1
    BY <1>2, CurrentVersion
<1>4. /\ schema' \in Seq(Row) /\ Len(schema') = Len(schema) + 1
      /\ DOMAIN schema' = DOMAIN schema \cup {Len(schema) + 1}
      /\ \A i \in DOMAIN schema : schema'[i] = schema[i]
      /\ schema'[Len(schema) + 1] = Current(m)
    BY <1>1, <1>2, <1>3
<1>5. LedgerIsSchema'
    <2>1. ledger = {schema[i] : i \in DOMAIN schema}
        BY DEF MigrationsInv, LedgerIsSchema, ToSet
    <2>2. ledger' = {schema'[i] : i \in DOMAIN schema'}
        BY <1>1, <1>4, <2>1
    <2>3. \A i \in DOMAIN schema' : schema'[i].version = i
        BY <1>3, <1>4 DEF MigrationsInv, LedgerIsSchema
    <2> QED
        BY <2>2, <2>3 DEF LedgerIsSchema, ToSet
<1>6. /\ migrator' \in [Migrators -> [pc : {"rest", "next", "ran", "inserted", "failed"},
                                      index : Nat \ {0}, seen : SUBSET ledger', runs : Nat]]
      /\ migrator'[m].pc = "next" /\ migrator'[m].index = Len(schema) + 2
      /\ \A n \in Migrators \ {m} : migrator'[n] = migrator[n]
    BY <1>1, <1>2 DEF MigrationsInv
<1>7. \A n \in Migrators \ {m} : migrator[n].pc # "inserted"
    BY <1>1 DEF MigrationsInv
<1>8. \A n \in Migrators :
          InStep(n)' /\ (migrator'[n].pc = "rest" => migrator'[n].index = 1)
    <2> SUFFICES ASSUME NEW n \in Migrators
                 PROVE  InStep(n)' /\ (migrator'[n].pc = "rest" => migrator'[n].index = 1)
        OBVIOUS
    <2>1. CASE n = m
        BY <1>2, <1>4, <1>6, <2>1 DEF InStep, InTransaction
    <2>2. CASE n # m
        <3>1. /\ migrator'[n] = migrator[n] /\ migrator[n].pc # "inserted"
              /\ migrator[n].index \in Nat
            BY <1>6, <1>7, <2>2 DEF MigrationsInv
        <3> QED
            BY <1>2, <1>4, <3>1 DEF MigrationsInv, InStep, InTransaction
    <2> QED
        BY <2>1, <2>2
<1> QED
    BY <1>4, <1>5, <1>6, <1>7, <1>8 DEF MigrationsInv

\* The other steps of a run.
LEMMA MigrationsInvStep ==
    ASSUME MigrationsInv, [MigrationsNext]_migrations
    PROVE  MigrationsInv'
<1>1. CASE UNCHANGED migrations
    BY <1>1 DEF migrations, MigrationsInv, LedgerIsSchema, InStep, InTransaction
<1>2. ASSUME NEW m \in Migrators,
             \/ ReadApplied(m) \/ Skip(m) \/ Mismatch(m) \/ RunSql(m)
             \/ SqlFails(m) \/ MigratorDies(m) \/ RunAgain(m)
      PROVE  MigrationsInv'
    <2> DEFINE States == [pc : {"rest", "next", "ran", "inserted", "failed"},
                          index : Nat \ {0}, seen : SUBSET ledger, runs : Nat]
    <2>1. /\ migrator[m] \in States /\ UNCHANGED <<ledger, schema>>
          /\ Len(schema) \in Nat /\ migrator[m].index \in Nat \ {0}
        BY <1>2 DEF MigrationsInv, ReadApplied, Skip, Mismatch, RunSql, SqlFails,
            MigratorDies, RunAgain
    <2>2. CASE ReadApplied(m)
        <3> DEFINE to == [migrator[m] EXCEPT !.pc = "next", !.seen = ledger]
        <3>1. to \in States /\ to.pc = "next" /\ migrator' = [migrator EXCEPT ![m] = to]
            BY <2>1, <2>2 DEF ReadApplied
        <3>2. to.index = 1
            BY <2>1, <2>2 DEF ReadApplied, MigrationsInv
        <3>3. to.index <= Len(schema) + 1
            BY <2>1, <3>2
        <3> HIDE DEF to
        <3> QED
            BY <2>1, <3>1, <3>3, MigratorStep
    <2>3. CASE Skip(m)
        <3> DEFINE to == [migrator[m] EXCEPT !.index = migrator[m].index + 1]
        <3>1. /\ to \in States /\ to.pc = "next" /\ to.index = migrator[m].index + 1
              /\ migrator' = [migrator EXCEPT ![m] = to]
              /\ migrator[m].index <= Len(Files[m]) /\ Current(m) \in migrator[m].seen
            BY <2>1, <2>3 DEF Skip, HasFile
        <3>2. Current(m).version = migrator[m].index /\ Current(m) \in ledger
            BY <2>1, <3>1, CurrentVersion
        <3>3. migrator[m].index \in 1..Len(schema)
            BY <3>2, CommittedVersions
        <3>4. to.index <= Len(schema) + 1
            BY <2>1, <3>1, <3>3
        <3> HIDE DEF to
        <3> QED
            BY <2>1, <3>1, <3>4, MigratorStep
    <2>4. CASE RunSql(m)
        <3> DEFINE to == [migrator[m] EXCEPT !.pc = "ran"]
        <3>1. /\ to \in States /\ to.pc = "ran" /\ to.index = migrator[m].index
              /\ migrator' = [migrator EXCEPT ![m] = to]
              /\ migrator[m].index <= Len(Files[m]) /\ migrator[m].pc = "next"
            BY <2>1, <2>4 DEF RunSql, HasFile
        <3>2. migrator[m].index <= Len(schema) + 1
            BY <3>1 DEF MigrationsInv, InStep
        <3> HIDE DEF to
        <3> QED
            BY <2>1, <3>1, <3>2, MigratorStep
    <2>5. CASE Mismatch(m) \/ SqlFails(m) \/ MigratorDies(m)
        <3> DEFINE to == [migrator[m] EXCEPT !.pc = "failed"]
        <3>1. to \in States /\ to.pc = "failed" /\ migrator' = [migrator EXCEPT ![m] = to]
            BY <2>1, <2>5 DEF Mismatch, SqlFails, MigratorDies
        <3> HIDE DEF to
        <3> QED
            BY <2>1, <3>1, MigratorStep
    <2>6. CASE RunAgain(m)
        <3> DEFINE to == NotStarted(migrator[m].runs + 1)
        <3>1. /\ to \in States /\ to.pc = "rest" /\ to.index = 1
              /\ migrator' = [migrator EXCEPT ![m] = to]
            BY <2>1, <2>6 DEF RunAgain, NotStarted
        <3> HIDE DEF to
        <3> QED
            BY <2>1, <3>1, MigratorStep
    <2> QED
        BY <1>2, <2>2, <2>3, <2>4, <2>5, <2>6
<1>3. ASSUME NEW m \in Migrators, InsertRow(m) PROVE MigrationsInv'
    BY <1>3, InsertRowKeeps
<1>4. ASSUME NEW m \in Migrators, Commit(m) PROVE MigrationsInv'
    BY <1>4, CommitKeeps
<1> QED
    BY <1>1, <1>2, <1>3, <1>4 DEF MigrationsNext

\* The state of every run of migrate.py fits what is committed.
THEOREM MigrationsInvariant == MigrationsSpec => []MigrationsInv
<1>1. MigrationsInit => MigrationsInv
    BY DEF MigrationsInit, MigrationsInv, NotStarted, LedgerIsSchema, ToSet, InStep,
        InTransaction
<1>2. MigrationsInv /\ [MigrationsNext]_migrations => MigrationsInv'
    BY MigrationsInvStep
<1> QED
    BY <1>1, <1>2, PTL DEF MigrationsSpec

\* No overlap, death or repetition of deployments applies a version twice or out
\* of order, and the ledger says what is in effect (LedgerIsSchema).
THEOREM TheLedgerIsTheSchema == MigrationsSpec => []LedgerIsSchema
<1>1. MigrationsInv => LedgerIsSchema
    BY DEF MigrationsInv
<1> QED
    BY <1>1, MigrationsInvariant, PTL

-----------------------------------------------------------------------------
(* services/model_registry.py                                              *)

Event == [artifact : Artifacts, from : Stages \cup {NoStage}, to : Stages]

\* LineageExplains of any stages and log, and that an artifact with events has a
\* last one.
Explained(at, log) ==
    \A a \in Artifacts :
        LET of == {i \in DOMAIN log : log[i].artifact = a} IN
        /\ at[a] # NoStage <=> of # {}
        /\ of # {} => \E i \in of : \A j \in of : j <= i
        /\ \A i \in of :
              /\ (\A j \in of : j <= i) => log[i].to = at[a]
              /\ \/ log[i].from = NoStage
                 \/ \E j \in of : /\ j < i /\ log[j].to = log[i].from
                                  /\ \A k \in of : k <= j \/ k >= i

RegistryInv ==
    /\ stage \in [Artifacts -> Stages \cup {NoStage}]
    /\ active \in [Types -> Artifacts \cup {NoArtifact}]
    /\ lineage \in Seq(Event)
    /\ OneInProduction
    /\ Explained(stage, lineage)

\* An event that starts at the artifact's stage, or at none, and is followed by
\* the stage keeps the stages explained.
LEMMA EventExplains ==
    ASSUME NEW at \in [Artifacts -> Stages \cup {NoStage}], NEW log \in Seq(Event),
           Explained(at, log), NEW a \in Artifacts, NEW s \in Stages,
           NEW from \in {NoStage, at[a]}
    PROVE  /\ [at EXCEPT ![a] = s] \in [Artifacts -> Stages \cup {NoStage}]
           /\ Append(log, LineageEvent(a, from, s)) \in Seq(Event)
           /\ Explained([at EXCEPT ![a] = s], Append(log, LineageEvent(a, from, s)))
<1> DEFINE new == [at EXCEPT ![a] = s]
           longer == Append(log, LineageEvent(a, from, s))
           last == Len(log) + 1
<1>1. /\ LineageEvent(a, from, s) \in Event
      /\ LineageEvent(a, from, s).artifact = a /\ LineageEvent(a, from, s).from = from
      /\ LineageEvent(a, from, s).to = s
    BY DEF LineageEvent, Event
<1>2. /\ longer \in Seq(Event) /\ new \in [Artifacts -> Stages \cup {NoStage}]
      /\ DOMAIN longer = DOMAIN log \cup {last} /\ Len(log) \in Nat
      /\ DOMAIN log = 1..Len(log)
      /\ \A i \in DOMAIN log : longer[i] = log[i]
      /\ longer[last].artifact = a /\ longer[last].from = from /\ longer[last].to = s
    BY <1>1
<1>3. new[a] = s /\ \A b \in Artifacts \ {a} : new[b] = at[b]
    OBVIOUS
<1>4. s # NoStage
    BY ModelRegistryAssumption DEF ModelRegistryAssumption
<1> HIDE DEF new, longer
<1>5. ASSUME NEW b \in Artifacts
      PROVE  LET of == {i \in DOMAIN longer : longer[i].artifact = b} IN
             /\ new[b] # NoStage <=> of # {}
             /\ of # {} => \E i \in of : \A j \in of : j <= i
             /\ \A i \in of :
                   /\ (\A j \in of : j <= i) => longer[i].to = new[b]
                   /\ \/ longer[i].from = NoStage
                      \/ \E j \in of : /\ j < i /\ longer[j].to = longer[i].from
                                       /\ \A k \in of : k <= j \/ k >= i
    <2> DEFINE of == {i \in DOMAIN longer : longer[i].artifact = b}
               old == {i \in DOMAIN log : log[i].artifact = b}
    <2>1. /\ at[b] # NoStage <=> old # {}
          /\ old # {} => \E i \in old : \A j \in old : j <= i
          /\ \A i \in old :
                /\ (\A j \in old : j <= i) => log[i].to = at[b]
                /\ \/ log[i].from = NoStage
                   \/ \E j \in old : /\ j < i /\ log[j].to = log[i].from
                                     /\ \A k \in old : k <= j \/ k >= i
        BY DEF Explained
    <2>2. CASE b # a
        <3>1. of = old /\ \A i \in old : longer[i] = log[i]
            BY <1>2, <2>2
        <3>2. new[b] = at[b]
            BY <1>3, <2>2
        <3> HIDE DEF of, old
        <3>3. /\ new[b] # NoStage <=> of # {}
              /\ of # {} => \E i \in of : \A j \in of : j <= i
              /\ \A i \in of :
                    /\ (\A j \in of : j <= i) => longer[i].to = new[b]
                    /\ \/ longer[i].from = NoStage
                       \/ \E j \in of : /\ j < i /\ longer[j].to = longer[i].from
                                        /\ \A k \in of : k <= j \/ k >= i
            BY <2>1, <3>1, <3>2
        <3> QED
            BY <3>3 DEF of
    <2>3. CASE b = a
        <3>1. /\ of = old \cup {last} /\ \A i \in old : longer[i] = log[i]
              /\ \A i \in old : i \in Nat /\ i < last /\ last \in Nat
            BY <1>2, <2>3
        <3>2. /\ new[b] = s /\ longer[last].to = s /\ from \in {NoStage, at[b]}
              /\ longer[last].from = from
            BY <1>2, <1>3, <2>3
        <3> HIDE DEF of, old
        <3>3. \E i \in of : \A j \in of : j <= i
            BY <3>1, <1>2
        <3>4. ASSUME NEW i \in of, \A j \in of : j <= i PROVE longer[i].to = new[b]
            <4>1. i = last
                BY <3>1, <3>4, <1>2
            <4> QED
                BY <3>2, <4>1
        <3>5. ASSUME NEW i \in of
              PROVE  \/ longer[i].from = NoStage
                     \/ \E j \in of : /\ j < i /\ longer[j].to = longer[i].from
                                      /\ \A k \in of : k <= j \/ k >= i
            <4>1. CASE i \in old
                <5>1. CASE log[i].from = NoStage
                    BY <3>1, <4>1, <5>1
                <5>2. ASSUME NEW j \in old, j < i, log[j].to = log[i].from,
                             \A k \in old : k <= j \/ k >= i
                      PROVE  \E h \in of : /\ h < i /\ longer[h].to = longer[i].from
                                           /\ \A k \in of : k <= h \/ k >= i
                    <6>1. j \in of /\ longer[j].to = longer[i].from
                        BY <3>1, <4>1, <5>2
                    <6>2. \A k \in of : k <= j \/ k >= i
                        BY <3>1, <4>1, <5>2
                    <6> QED
                        BY <5>2, <6>1, <6>2
                <5> QED
                    BY <2>1, <4>1, <5>1, <5>2
            <4>2. CASE i = last /\ from # NoStage
                <5>1. PICK j \in old : \A k \in old : k <= j
                    BY <2>1, <3>2, <4>2
                <5>2. log[j].to = at[b]
                    BY <2>1, <5>1
                <5>3. j \in of /\ j < i /\ longer[j].to = longer[i].from
                    BY <3>1, <3>2, <4>2, <5>2
                <5>4. \A k \in of : k <= j \/ k >= i
                    BY <3>1, <4>2, <5>1
                <5> QED
                    BY <5>3, <5>4
            <4>3. CASE i = last /\ from = NoStage
                BY <3>2, <4>3
            <4> QED
                BY <3>1, <4>1, <4>2, <4>3
        <3>6. new[b] # NoStage /\ of # {}
            BY <1>4, <3>1, <3>2
        <3>7. /\ new[b] # NoStage <=> of # {}
              /\ of # {} => \E i \in of : \A j \in of : j <= i
              /\ \A i \in of :
                    /\ (\A j \in of : j <= i) => longer[i].to = new[b]
                    /\ \/ longer[i].from = NoStage
                       \/ \E j \in of : /\ j < i /\ longer[j].to = longer[i].from
                                        /\ \A k \in of : k <= j \/ k >= i
            BY <3>3, <3>4, <3>5, <3>6
        <3> QED
            BY <3>7 DEF of
    <2> QED
        BY <2>2, <2>3
<1>6. Explained(new, longer)
    BY <1>5 DEF Explained
<1> QED
    BY <1>2, <1>6 DEF new, longer

\* One superseded artifact leaves one event.
LEMMA OneArchivedEvent ==
    ASSUME NEW b
    PROVE  ArchivedEvents({b}) = <<LineageEvent(b, stage[b], "archived")>>
<1> DEFINE e == LineageEvent(b, stage[b], "archived")
           f == [i \in 1..1 |-> e]
<1>1. ArchivedEvents({b}) = SetToSeq({e})
    <2>1. {LineageEvent(c, stage[c], "archived") : c \in {b}} = {e}
        OBVIOUS
    <2> QED
        BY <2>1 DEF ArchivedEvents
<1> HIDE DEF e
<1>2. Cardinality({e}) = 1
    BY FS_Singleton
<1>3. f \in [1..1 -> {e}] /\ IsInjective(f)
    BY DEF IsInjective
<1>4. SetToSeq({e}) \in [1..1 -> {e}]
    BY <1>2, <1>3 DEF SetToSeq
<1>5. SetToSeq({e}) = <<e>>
    BY <1>4
<1> QED
    BY <1>1, <1>5 DEF e

\* Nothing superseded leaves none.
LEMMA NoArchivedEvent == ArchivedEvents({}) = <<>>
<1>1. ArchivedEvents({}) = SetToSeq({})
    BY DEF ArchivedEvents
<1>2. Cardinality({}) = 0
    BY FS_EmptySet
<1> DEFINE f == [i \in 1..0 |-> 0]
<1>3. f \in [1..0 -> {}] /\ IsInjective(f)
    BY DEF IsInjective
<1>4. SetToSeq({}) \in [1..0 -> {}]
    BY <1>2, <1>3 DEF SetToSeq
<1>5. SetToSeq({}) = <<>>
    BY <1>4
<1> QED
    BY <1>1, <1>5

\* To any stage but production, at a registration or a move.
LEMMA StageSetKeeps ==
    ASSUME RegistryInv, NEW a \in Artifacts, NEW s \in Stages \ {"production"},
           NEW from \in {NoStage, stage[a]},
           stage' = [stage EXCEPT ![a] = s],
           lineage' = Append(lineage, LineageEvent(a, from, s)),
           active' = active
    PROVE  RegistryInv'
<1>1. /\ stage' \in [Artifacts -> Stages \cup {NoStage}] /\ lineage' \in Seq(Event)
      /\ Explained(stage', lineage')
    BY EventExplains DEF RegistryInv
<1>2. OneInProduction'
    BY DEF RegistryInv, OneInProduction
<1> QED
    BY <1>1, <1>2 DEF RegistryInv

\* To production: the artifact of the type that was in production is the active
\* one, and that is archived.
LEMMA ReleaseKeeps ==
    ASSUME RegistryInv, NEW a \in Artifacts, Release(a)
    PROVE  RegistryInv'
<1> DEFINE released == [stage EXCEPT ![a] = "production"]
           logged == Append(lineage, LineageEvent(a, stage[a], "production"))
<1>1. /\ stage' = [b \in Artifacts |->
                      IF b = a THEN "production"
                      ELSE IF b \in Superseded(a) THEN "archived" ELSE stage[b]]
      /\ lineage' = logged \o ArchivedEvents(Superseded(a))
      /\ active' = [active EXCEPT ![TypeOf[a]] = a]
    BY DEF Release
<1>2. /\ {"production", "archived"} \subseteq Stages /\ NoArtifact \notin Artifacts
      /\ TypeOf \in [Artifacts -> Types]
    BY ModelRegistryAssumption DEF ModelRegistryAssumption
<1>3. /\ stage \in [Artifacts -> Stages \cup {NoStage}] /\ lineage \in Seq(Event)
      /\ active \in [Types -> Artifacts \cup {NoArtifact}] /\ Explained(stage, lineage)
    BY DEF RegistryInv
<1>4. /\ released \in [Artifacts -> Stages \cup {NoStage}] /\ logged \in Seq(Event)
      /\ Explained(released, logged)
    BY <1>2, <1>3, EventExplains
<1>5. /\ stage' \in [Artifacts -> Stages \cup {NoStage}] /\ lineage' \in Seq(Event)
      /\ Explained(stage', lineage')
    <2>1. CASE Superseded(a) = {}
        <3>1. stage' = released
            BY <1>1, <1>3, <2>1
        <3>2. lineage' = logged
            BY <1>1, <1>4, <2>1, NoArchivedEvent
        <3> QED
            BY <1>4, <3>1, <3>2
    <2>2. CASE Superseded(a) # {}
        <3>1. PICK b \in Artifacts : b # a /\ Superseded(a) = {b}
            BY <1>2, <1>3, <2>2 DEF Superseded
        <3>2. stage' = [released EXCEPT ![b] = "archived"]
            BY <1>1, <1>3, <3>1
        <3>3. lineage' = logged \o <<LineageEvent(b, stage[b], "archived")>>
            BY <1>1, <3>1, OneArchivedEvent
        <3>4. lineage' = Append(logged, LineageEvent(b, stage[b], "archived"))
            <4>1. LineageEvent(b, stage[b], "archived") \in Event
                BY <1>2, <1>3, <3>1 DEF LineageEvent, Event
            <4> HIDE DEF logged
            <4> QED
                BY <1>4, <3>3, <4>1
        <3>5. stage[b] \in {NoStage, released[b]}
            BY <1>3, <3>1
        <3> HIDE DEF released, logged
        <3> QED
            BY <1>2, <1>4, <3>1, <3>2, <3>4, <3>5, EventExplains
    <2> QED
        BY <2>1, <2>2
<1>6. active' \in [Types -> Artifacts \cup {NoArtifact}] /\ active'[TypeOf[a]] = a
    BY <1>1, <1>2, <1>3
<1>7. OneInProduction'
    <2> SUFFICES ASSUME NEW b \in Artifacts, stage'[b] = "production"
                 PROVE  active'[TypeOf[b]] = b
        BY DEF OneInProduction
    <2>1. CASE b = a
        BY <1>6, <2>1
    <2>2. CASE b # a
        <3>1. b \notin Superseded(a) /\ stage[b] = "production"
            BY <1>1, <2>2
        <3>2. active[TypeOf[b]] = b
            BY <3>1 DEF RegistryInv, OneInProduction
        <3>3. TypeOf[b] # TypeOf[a]
            BY <1>2, <2>2, <3>1, <3>2 DEF Superseded
        <3> QED
            BY <1>1, <1>2, <1>3, <3>2, <3>3
    <2> QED
        BY <2>1, <2>2
<1> QED
    BY <1>5, <1>6, <1>7 DEF RegistryInv

\* The stages, the active artifacts and the lineage belong together.
THEOREM RegistryInvariant == RegistrySpec => []RegistryInv
<1>1. RegistryInit => RegistryInv
    <2> SUFFICES ASSUME RegistryInit PROVE RegistryInv
        OBVIOUS
    <2>1. \A a \in Artifacts : stage[a] = NoStage /\ NoStage # "production"
        BY DEF RegistryInit, NoStage
    <2>2. Explained(stage, lineage)
        BY <2>1 DEF RegistryInit, Explained
    <2> QED
        BY <2>1, <2>2 DEF RegistryInit, RegistryInv, OneInProduction
<1>2. RegistryInv /\ [RegistryNext]_registry => RegistryInv'
    <2> SUFFICES ASSUME RegistryInv, [RegistryNext]_registry PROVE RegistryInv'
        OBVIOUS
    <2>1. CASE UNCHANGED registry
        BY <2>1 DEF registry, RegistryInv, OneInProduction
    <2>2. ASSUME NEW a \in Artifacts, Register(a) \/ Move(a) PROVE RegistryInv'
        <3>1. PICK s \in Stages \ {"production"} : \E from \in {NoStage, stage[a]} :
                  /\ stage' = [stage EXCEPT ![a] = s]
                  /\ lineage' = Append(lineage, LineageEvent(a, from, s))
            BY <2>2 DEF Register, Move
        <3> QED
            BY <2>2, <3>1, StageSetKeeps DEF Register, Move
    <2>3. ASSUME NEW a \in Artifacts, Release(a) PROVE RegistryInv'
        BY <2>3, ReleaseKeeps
    <2> QED
        BY <2>1, <2>2, <2>3 DEF RegistryNext
<1> QED
    BY <1>1, <1>2, PTL DEF RegistrySpec

\* At most one artifact of a type is in production, and get_active answers it
\* (OneInProduction).
THEOREM ProductionIsActive == RegistrySpec => []OneInProduction
<1>1. RegistryInv => OneInProduction
    BY DEF RegistryInv
<1> QED
    BY <1>1, RegistryInvariant, PTL

\* The lineage explains every stage, also that of an artifact that a promotion
\* archived (LineageExplains).
THEOREM StagesAreExplained == RegistrySpec => []LineageExplains
<1>1. RegistryInv => LineageExplains
    BY DEF RegistryInv, Explained, LineageExplains, EventsOf
<1> QED
    BY <1>1, RegistryInvariant, PTL

-----------------------------------------------------------------------------
(* security/secrets.py                                                     *)

\* Was Vault's value at a time no earlier than t.
ValueSince(value, t) ==
    /\ value \in 0..Len(rotatedAt)
    /\ value < Len(rotatedAt) => t <= rotatedAt[value + 1]

\* A cached value was fetched within one request of its storing.
CacheEntry(p) ==
    cached[p] # NotCached =>
        cached[p].at <= ticks /\ ValueSince(cached[p].value, cached[p].at - FetchTime)

\* A fetch is no older than its timeout, an answered one holds a value of its
\* time, and a returned value is younger than the bound.
ReaderState(r) ==
    /\ reader[r].pc \in {"asking", "answered"} =>
          reader[r].began <= ticks /\ ticks <= reader[r].began + FetchTime
    /\ reader[r].pc = "answered" => ValueSince(reader[r].value, reader[r].began)
    /\ reader[r].pc = "returned" =>
          ValueSince(reader[r].value, ticks - FetchTime - CacheTtl + 1)

SecretsInv ==
    /\ ticks \in Nat /\ rotatedAt \in Seq(Nat)
    /\ cached \in [Pods -> [value : Int, at : Nat]]
    /\ reader \in [Readers -> [pc : {"rest", "asking", "answered", "returned"},
                               value : Int, began : Nat]]
    /\ \A p \in Pods : CacheEntry(p)
    /\ \A r \in Readers : ReaderState(r)

\* A value that was Vault's at a time or later was so at an earlier one.
LEMMA SinceEarlier ==
    ASSUME NEW value, NEW s \in Int, NEW t \in Int, t <= s, rotatedAt \in Seq(Nat),
           ValueSince(value, s)
    PROVE  ValueSince(value, t)
<1>1. ASSUME value \in 0..Len(rotatedAt), value < Len(rotatedAt)
      PROVE  rotatedAt[value + 1] \in Nat
    BY <1>1
<1> QED
    BY <1>1 DEF ValueSince

\* What the proofs need of the constants.
LEMMA SecretsBounds ==
    CacheTtl \in Nat \ {0} /\ FetchTime \in Nat /\ PodOf \in [Readers -> Pods]
BY SecretsAssumption DEF SecretsAssumption

\* A step of a thread that leaves Vault and the clock alone.
LEMMA ReaderStep ==
    ASSUME SecretsInv, UNCHANGED <<ticks, rotatedAt>>, NEW r \in Readers,
           NEW to \in [pc : {"rest", "asking", "answered", "returned"},
                       value : Int, began : Nat],
           reader' = [reader EXCEPT ![r] = to],
           to.pc \in {"asking", "answered"} =>
              to.began <= ticks /\ ticks <= to.began + FetchTime,
           to.pc = "answered" => ValueSince(to.value, to.began),
           to.pc = "returned" => ValueSince(to.value, ticks - FetchTime - CacheTtl + 1)
    PROVE  /\ reader' \in [Readers -> [pc : {"rest", "asking", "answered", "returned"},
                                       value : Int, began : Nat]]
           /\ \A q \in Readers : ReaderState(q)'
<1>1. reader'[r] = to /\ \A q \in Readers \ {r} : reader'[q] = reader[q]
    BY DEF SecretsInv
<1>2. reader' \in [Readers -> [pc : {"rest", "asking", "answered", "returned"},
                              value : Int, began : Nat]]
    BY DEF SecretsInv
<1>3. \A v, t : ValueSince(v, t) => ValueSince(v, t)'
    BY DEF ValueSince
<1>4. \A q \in Readers : ReaderState(q)'
    <2> SUFFICES ASSUME NEW q \in Readers PROVE ReaderState(q)'
        OBVIOUS
    <2>1. CASE q = r
        BY <1>1, <1>3, <2>1 DEF ReaderState, ValueSince
    <2>2. CASE q # r
        BY <1>1, <1>3, <2>2 DEF SecretsInv, ReaderState, ValueSince
    <2> QED
        BY <2>1, <2>2
<1> QED
    BY <1>2, <1>4

\* A thread finds a fresh entry, asks Vault, or is done.
LEMMA HitAskRestKeep ==
    ASSUME SecretsInv, NEW r \in Readers, Hit(r) \/ AskVault(r) \/ Rest(r)
    PROVE  SecretsInv'
<1>1. UNCHANGED <<ticks, rotatedAt, cached>> /\ ticks \in Nat
    BY DEF Hit, AskVault, Rest, SecretsInv
<1>2. \A p \in Pods : CacheEntry(p)'
    BY <1>1 DEF SecretsInv, CacheEntry, ValueSince
<1>3. CASE Hit(r)
    <2> DEFINE p == PodOf[r]
               to == Returned(cached[p].value)
    <2>1. p \in Pods /\ Fresh(p) /\ reader' = [reader EXCEPT ![r] = to]
        BY <1>3, SecretsBounds DEF Hit
    <2>2. /\ to \in [pc : {"rest", "asking", "answered", "returned"},
                     value : Int, began : Nat]
          /\ to.pc = "returned" /\ to.value = cached[p].value
        BY <1>1, <2>1 DEF Returned, SecretsInv
    <2>3. ValueSince(cached[p].value, ticks - FetchTime - CacheTtl + 1)
        <3>1. /\ ticks - cached[p].at < CacheTtl /\ cached[p].at \in Nat
              /\ ValueSince(cached[p].value, cached[p].at - FetchTime)
              /\ rotatedAt \in Seq(Nat)
            BY <2>1 DEF Fresh, SecretsInv, CacheEntry
        <3> DEFINE s == cached[p].at - FetchTime
                   t == ticks - FetchTime - CacheTtl + 1
        <3>2. s \in Int /\ t \in Int /\ t <= s
            <4> DEFINE at == cached[p].at
            <4>1. at \in Int /\ ticks \in Int /\ ticks - at < CacheTtl
                BY <1>1, <3>1
            <4>2. CacheTtl \in Int /\ FetchTime \in Int
                BY SecretsBounds
            <4> HIDE DEF at, p
            <4>3. /\ at - FetchTime \in Int /\ ticks - FetchTime - CacheTtl + 1 \in Int
                  /\ ticks - FetchTime - CacheTtl + 1 <= at - FetchTime
                BY <4>1, <4>2
            <4> QED
                BY <4>3 DEF at
        <3> HIDE DEF s, t
        <3>3. ValueSince(cached[p].value, t)
            BY <3>1, <3>2, SinceEarlier DEF s
        <3> QED
            BY <3>3 DEF t
    <2> HIDE DEF to
    <2> QED
        BY <1>1, <1>2, <2>1, <2>2, <2>3, ReaderStep DEF SecretsInv
<1>4. CASE AskVault(r)
    <2> DEFINE to == [pc |-> "asking", value |-> -1, began |-> ticks]
    <2>1. /\ reader' = [reader EXCEPT ![r] = to]
          /\ to \in [pc : {"rest", "asking", "answered", "returned"},
                     value : Int, began : Nat]
          /\ to.pc = "asking" /\ to.began = ticks
        BY <1>1, <1>4 DEF AskVault
    <2>2. to.began <= ticks /\ ticks <= to.began + FetchTime
        BY <1>1, <2>1, SecretsBounds
    <2> HIDE DEF to
    <2> QED
        BY <1>1, <1>2, <2>1, <2>2, ReaderStep DEF SecretsInv
<1>5. CASE Rest(r)
    <2>1. /\ reader' = [reader EXCEPT ![r] = AtRest] /\ AtRest.pc = "rest"
          /\ AtRest \in [pc : {"rest", "asking", "answered", "returned"},
                         value : Int, began : Nat]
        BY <1>5 DEF Rest, AtRest
    <2> QED
        BY <1>1, <1>2, <2>1, ReaderStep DEF SecretsInv
<1> QED
    BY <1>3, <1>4, <1>5

\* Vault answers with its value of that moment.
LEMMA VaultReadsKeeps ==
    ASSUME SecretsInv, NEW r \in Readers, VaultReads(r)
    PROVE  SecretsInv'
<1> DEFINE to == [reader[r] EXCEPT !.pc = "answered", !.value = Len(rotatedAt)]
<1>1. /\ UNCHANGED <<ticks, rotatedAt, cached>> /\ ticks \in Nat
      /\ Len(rotatedAt) \in Nat /\ reader[r].pc = "asking"
      /\ reader[r].began <= ticks /\ ticks <= reader[r].began + FetchTime
    BY DEF VaultReads, SecretsInv, ReaderState
<1>2. \A p \in Pods : CacheEntry(p)'
    BY <1>1 DEF SecretsInv, CacheEntry, ValueSince
<1>3. reader' = [reader EXCEPT ![r] = to]
    BY DEF VaultReads, SecretsInv
<1>4. /\ to \in [pc : {"rest", "asking", "answered", "returned"}, value : Int, began : Nat]
      /\ to.pc = "answered" /\ to.began = reader[r].began /\ to.value = Len(rotatedAt)
    <2>1. reader[r] \in [pc : {"rest", "asking", "answered", "returned"},
                        value : Int, began : Nat]
        BY DEF SecretsInv
    <2>2. to.pc = "answered" /\ to.value = Len(rotatedAt)
        BY <2>1
    <2>3. to.began = reader[r].began
        BY <2>1
    <2>4. to \in [pc : {"rest", "asking", "answered", "returned"}, value : Int, began : Nat]
        <3>1. [reader[r] EXCEPT !.pc = "answered"]
                  \in [pc : {"rest", "asking", "answered", "returned"}, value : Int, began : Nat]
            BY <2>1
        <3>2. Len(rotatedAt) \in Int
            BY <1>1
        <3> QED
            BY <3>1, <3>2
    <2> QED
        BY <2>2, <2>3, <2>4
<1>5. ValueSince(Len(rotatedAt), reader[r].began)
    BY <1>1 DEF ValueSince
<1> HIDE DEF to
<1> QED
    BY <1>1, <1>2, <1>3, <1>4, <1>5, ReaderStep DEF SecretsInv

\* The answer is stored within the request's timeout.
LEMMA StoreAnswerKeeps ==
    ASSUME SecretsInv, NEW r \in Readers, StoreAnswer(r)
    PROVE  SecretsInv'
<1> DEFINE entry == [value |-> reader[r].value, at |-> ticks]
           to == Returned(reader[r].value)
<1>1. /\ UNCHANGED <<ticks, rotatedAt>> /\ ticks \in Nat /\ rotatedAt \in Seq(Nat)
      /\ reader[r].pc = "answered" /\ reader[r].began \in Nat /\ reader[r].value \in Int
      /\ ticks <= reader[r].began + FetchTime
      /\ ValueSince(reader[r].value, reader[r].began)
    BY DEF StoreAnswer, SecretsInv, ReaderState
<1>2. /\ cached' = [cached EXCEPT ![PodOf[r]] = entry]
      /\ reader' = [reader EXCEPT ![r] = to]
    BY DEF StoreAnswer, SecretsInv
<1>3. /\ to \in [pc : {"rest", "asking", "answered", "returned"}, value : Int, began : Nat]
      /\ to.pc = "returned" /\ to.value = reader[r].value
    BY <1>1 DEF Returned
<1>4. /\ ValueSince(reader[r].value, ticks - FetchTime)
      /\ ValueSince(reader[r].value, ticks - FetchTime - CacheTtl + 1)
    <2> DEFINE s == reader[r].began
               t == ticks - FetchTime
               u == ticks - FetchTime - CacheTtl + 1
    <2>1. s \in Int /\ t \in Int /\ u \in Int /\ t <= s /\ u <= s
        BY <1>1, SecretsBounds
    <2> HIDE DEF s, t, u
    <2>2. ValueSince(reader[r].value, t) /\ ValueSince(reader[r].value, u)
        BY <1>1, <2>1, SinceEarlier DEF s
    <2> QED
        BY <2>2 DEF t, u
<1>5. cached' \in [Pods -> [value : Int, at : Nat]]
    BY <1>1, <1>2, SecretsBounds DEF SecretsInv
<1>6. \A p \in Pods : CacheEntry(p)'
    <2> SUFFICES ASSUME NEW p \in Pods PROVE CacheEntry(p)'
        OBVIOUS
    <2>1. CASE p = PodOf[r]
        <3>1. cached'[p] = entry
            BY <1>2, <2>1 DEF SecretsInv
        <3> QED
            BY <1>1, <1>4, <3>1 DEF CacheEntry, ValueSince
    <2>2. CASE p # PodOf[r]
        <3>1. cached'[p] = cached[p]
            BY <1>2, <2>2 DEF SecretsInv
        <3> QED
            BY <1>1, <3>1 DEF SecretsInv, CacheEntry, ValueSince
    <2> QED
        BY <2>1, <2>2
<1> HIDE DEF to
<1>7. /\ reader' \in [Readers -> [pc : {"rest", "asking", "answered", "returned"},
                                  value : Int, began : Nat]]
      /\ \A q \in Readers : ReaderState(q)'
    BY <1>1, <1>2, <1>3, <1>4, ReaderStep
<1> QED
    BY <1>1, <1>5, <1>6, <1>7 DEF SecretsInv

\* A rotation: every value that was Vault's until now still is since then.
LEMMA PostKeeps ==
    ASSUME SecretsInv, NEW pod \in Pods, Post(pod)
    PROVE  SecretsInv'
<1>1. /\ rotatedAt' = Append(rotatedAt, ticks) /\ UNCHANGED <<ticks, cached, reader>>
      /\ ticks \in Nat /\ rotatedAt \in Seq(Nat)
    BY DEF Post, SecretsInv
<1>2. /\ rotatedAt' \in Seq(Nat) /\ Len(rotatedAt') = Len(rotatedAt) + 1
      /\ \A i \in 1..Len(rotatedAt) : rotatedAt'[i] = rotatedAt[i]
      /\ rotatedAt'[Len(rotatedAt) + 1] = ticks /\ Len(rotatedAt) \in Nat
    BY <1>1
<1>3. ASSUME NEW v \in Int, NEW t \in Int, t <= ticks, ValueSince(v, t)
      PROVE  ValueSince(v, t)'
    BY <1>1, <1>2, <1>3 DEF ValueSince
<1>4. \A p \in Pods : CacheEntry(p)'
    <2> SUFFICES ASSUME NEW p \in Pods, cached[p] # NotCached
                 PROVE  cached[p].at <= ticks /\ ValueSince(cached[p].value, cached[p].at - FetchTime)'
        BY <1>1 DEF CacheEntry, ValueSince
    <2>1. /\ cached[p].value \in Int /\ cached[p].at \in Nat /\ cached[p].at <= ticks
          /\ ValueSince(cached[p].value, cached[p].at - FetchTime)
        BY DEF SecretsInv, CacheEntry
    <2>2. cached[p].at - FetchTime \in Int /\ cached[p].at - FetchTime <= ticks
        BY <1>1, <2>1, SecretsBounds
    <2> QED
        BY <1>1, <1>3, <2>1, <2>2
<1>5. \A r \in Readers : ReaderState(r)'
    <2> SUFFICES ASSUME NEW r \in Readers PROVE ReaderState(r)'
        OBVIOUS
    <2>1. reader[r].value \in Int /\ reader[r].began \in Nat /\ ReaderState(r)
        BY DEF SecretsInv
    <2>2. /\ ticks - FetchTime - CacheTtl + 1 \in Int
          /\ ticks - FetchTime - CacheTtl + 1 <= ticks
        BY <1>1, SecretsBounds
    <2>3. reader[r].pc = "answered" => ValueSince(reader[r].value, reader[r].began)'
        BY <1>1, <1>3, <2>1 DEF ReaderState
    <2>4. reader[r].pc = "returned" =>
              ValueSince(reader[r].value, ticks - FetchTime - CacheTtl + 1)'
        BY <1>1, <1>3, <2>1, <2>2 DEF ReaderState
    <2> QED
        BY <1>1, <2>1, <2>3, <2>4 DEF ReaderState, ValueSince
<1> QED
    BY <1>1, <1>2, <1>4, <1>5 DEF SecretsInv

\* Time goes on: no fetch is at its timeout, and nothing was just returned.
LEMMA TickOnKeeps ==
    ASSUME SecretsInv, TickOn
    PROVE  SecretsInv'
<1>1. /\ ticks' = ticks + 1 /\ UNCHANGED <<rotatedAt, cached, reader>> /\ ticks \in Nat
      /\ \A r \in Readers :
            /\ reader[r].pc # "returned"
            /\ reader[r].pc # "rest" => ticks < reader[r].began + FetchTime
    BY DEF TickOn, SecretsInv
<1>2. ASSUME NEW p \in Pods PROVE CacheEntry(p)'
    <2>1. CacheEntry(p) /\ cached[p].at \in Nat
        BY DEF SecretsInv
    <2> QED
        BY <1>1, <2>1 DEF CacheEntry, ValueSince
<1>3. ASSUME NEW r \in Readers PROVE ReaderState(r)'
    <2>1. ReaderState(r) /\ reader[r].began \in Nat /\ FetchTime \in Nat
        BY SecretsBounds DEF SecretsInv
    <2> QED
        BY <1>1, <2>1 DEF ReaderState, ValueSince
<1> QED
    BY <1>1, <1>2, <1>3 DEF SecretsInv

\* Every cached, fetched and returned value is as old as the invariant says.
THEOREM SecretsInvariant == SecretsSpec => []SecretsInv
<1>1. SecretsInit => SecretsInv
    BY DEF SecretsInit, SecretsInv, CacheEntry, ReaderState, NotCached, AtRest
<1>2. SecretsInv /\ [SecretsNext]_secrets => SecretsInv'
    <2> SUFFICES ASSUME SecretsInv, [SecretsNext]_secrets PROVE SecretsInv'
        OBVIOUS
    <2>1. CASE UNCHANGED secrets
        BY <2>1 DEF secrets, SecretsInv, CacheEntry, ReaderState, ValueSince
    <2>2. ASSUME NEW r \in Readers, Hit(r) \/ AskVault(r) \/ Rest(r) PROVE SecretsInv'
        BY <2>2, HitAskRestKeep
    <2>3. ASSUME NEW r \in Readers, VaultReads(r) PROVE SecretsInv'
        BY <2>3, VaultReadsKeeps
    <2>4. ASSUME NEW r \in Readers, StoreAnswer(r) PROVE SecretsInv'
        BY <2>4, StoreAnswerKeeps
    <2>5. ASSUME NEW p \in Pods, Post(p) PROVE SecretsInv'
        BY <2>5, PostKeeps
    <2>6. CASE PostEnds
        <3>1. /\ \/ cached' = [cached EXCEPT ![rotator] = NotCached]
                 \/ cached' = cached
              /\ UNCHANGED <<ticks, rotatedAt, reader>>
              /\ cached \in [Pods -> [value : Int, at : Nat]]
              /\ NotCached \in [value : Int, at : Nat]
            BY <2>6 DEF PostEnds, SecretsInv, NotCached
        <3>2. /\ \A p \in Pods : cached'[p] = cached[p] \/ cached'[p] = NotCached
              /\ cached' \in [Pods -> [value : Int, at : Nat]]
            BY <3>1
        <3> QED
            BY <3>1, <3>2 DEF SecretsInv, CacheEntry, ReaderState, ValueSince
    <2>7. CASE TickOn
        BY <2>7, TickOnKeeps
    <2> QED
        BY <2>1, <2>2, <2>3, <2>4, <2>5, <2>6, <2>7 DEF SecretsNext
<1> QED
    BY <1>1, <1>2, PTL DEF SecretsSpec

\* A rotated secret is gone everywhere within the cache's lifetime and one
\* request (StalenessBounded).
THEOREM RotatedSecretsExpire == SecretsSpec => []StalenessBounded
<1>1. SecretsInv => StalenessBounded
    <2> SUFFICES ASSUME SecretsInv, NEW r \in Readers, reader[r].pc = "returned",
                        reader[r].value < Len(rotatedAt)
                 PROVE  ticks - rotatedAt[reader[r].value + 1] < CacheTtl + FetchTime
        BY DEF StalenessBounded
    <2>1. /\ reader[r].value \in 0..Len(rotatedAt) /\ ticks \in Nat
          /\ rotatedAt \in Seq(Nat)
          /\ ticks - FetchTime - CacheTtl + 1 <= rotatedAt[reader[r].value + 1]
        BY DEF SecretsInv, ReaderState, ValueSince
    <2>2. rotatedAt[reader[r].value + 1] \in Nat
        BY <2>1
    <2> QED
        BY <2>1, <2>2, SecretsBounds
<1> QED
    BY <1>1, SecretsInvariant, PTL

-----------------------------------------------------------------------------
(* services/model_serving.py, model_server/app.py, services/readiness.py   *)

Engines == {"none", "artifact", "http", "heuristic"}
ProcessState == [pc : {"down", "starting", "up"}, loaded : 0..Len(ModelFiles),
                 engine : Engines, torn : BOOLEAN]
CallState == [pc : {"none", "asked", "answered"}, at : {"pod", "server", "fallback"},
              engine : Engines, torn : BOOLEAN, excused : BOOLEAN]
CheckState == [pc : {"none", "answer", "database", "redis", "model_serving"},
               ok : BOOLEAN, failed : BOOLEAN]

\* A process that is starting is marked as soon as a file is unreadable, so a
\* heuristic that nobody configured runs in a marked process.
ProcessInv(p) ==
    /\ process[p].pc = "starting" =>
          /\ process[p].loaded < Len(ModelFiles)
          /\ readable # AllFiles => process[p].torn
    /\ process[p].engine = "heuristic" =>
          process[p].torn \/ (p = "pod" /\ backend = "heuristic")

EngineInv ==
    /\ readable \subseteq AllFiles
    /\ backend \in {"artifact", "http", "heuristic"}
    /\ process \in [{"pod", "server"} -> ProcessState]
    /\ \A p \in {"pod", "server"} : ProcessInv(p)
    /\ process["pod"].engine = "http" => backend = "http"

\* The engine of a prediction stays what it is until the flag is read.
CallInv ==
    /\ call \in CallState /\ lastUsedFallback \in BOOLEAN
    /\ call.pc # "none" => process["pod"].pc = "up"
    /\ call.pc = "asked" => process["pod"].engine = "http" /\ ~lastUsedFallback
    /\ call.pc = "answered" =>
          /\ (Wrapped /\ lastUsedFallback) <=> call.at = "fallback"
          /\ call.engine = "heuristic" /\ call.at # "fallback" =>
                backend = "heuristic" \/ call.torn
          /\ call.at = "fallback" => call.excused

\* A model server that is not up, for a pod in service or a check that passed,
\* failed after the check had begun.
CheckInv ==
    /\ check \in CheckState /\ inService \in BOOLEAN /\ disturbed \in BOOLEAN
    /\ backend = "http" /\ process["server"].pc # "up" =>
          /\ check.pc = "answer" /\ check.ok => check.failed
          /\ inService \/ call.pc = "asked" => disturbed

PredictionInv == FlagTellsTruth /\ FallbackFollowsFailure

ServingInv == EngineInv /\ CallInv /\ CheckInv /\ PredictionInv

\* What the proofs need of the artifacts.
LEMMA FilesOfModel ==
    /\ Len(ModelFiles) \in Nat \ {0} /\ \A n \in 1..Len(ModelFiles) : ModelFiles[n] \in AllFiles
BY ModelServingAssumption DEF ModelServingAssumption, AllFiles

\* A prediction that is not ended leaves the last one as it was.
LEMMA PredictionStays ==
    ASSUME PredictionInv, UNCHANGED <<backend, prediction>>
    PROVE  PredictionInv'
BY DEF PredictionInv, FlagTellsTruth, FallbackFollowsFailure

\* Replacing a file and ending it.
LEMMA ReplacingKeeps ==
    ASSUME ServingInv, NEW f \in Replaced, BeginReplacing(f) \/ EndReplacing(f)
    PROVE  ServingInv'
<1>1. UNCHANGED <<backend, starts, lastUsedFallback, call, prediction, check,
                  inService, disturbed>>
    BY DEF BeginReplacing, EndReplacing
<1>2. /\ process \in [{"pod", "server"} -> ProcessState] /\ readable \subseteq AllFiles
      /\ \A p \in {"pod", "server"} : ProcessInv(p)
    BY DEF ServingInv, EngineInv
<1>3. /\ process' \in [{"pod", "server"} -> ProcessState] /\ readable' \subseteq AllFiles
      /\ \A p \in {"pod", "server"} :
            /\ process'[p].pc = process[p].pc /\ process'[p].engine = process[p].engine
            /\ process'[p].loaded = process[p].loaded
            /\ process[p].torn => process'[p].torn
            /\ process[p].pc = "starting" /\ readable' # AllFiles => process'[p].torn
    <2>1. CASE BeginReplacing(f)
        <3>1. /\ readable' = readable \ {f}
              /\ process' = [p \in {"pod", "server"} |->
                    [process[p] EXCEPT !.torn = process[p].torn \/ process[p].pc = "starting"]]
            BY <1>2, <2>1 DEF BeginReplacing
        <3>2. ASSUME NEW p \in {"pod", "server"}
              PROVE  /\ process'[p] \in ProcessState
                     /\ process'[p].pc = process[p].pc
                     /\ process'[p].engine = process[p].engine
                     /\ process'[p].loaded = process[p].loaded
                     /\ process'[p].torn = (process[p].torn \/ process[p].pc = "starting")
            <4>1. process[p] \in ProcessState
                BY <1>2
            <4>2. process'[p] = [process[p] EXCEPT
                                    !.torn = process[p].torn \/ process[p].pc = "starting"]
                BY <3>1
            <4> QED
                BY <4>1, <4>2 DEF ProcessState
        <3> QED
            BY <1>2, <3>1, <3>2
    <2>2. CASE EndReplacing(f)
        BY <1>2, <2>2 DEF EndReplacing, ProcessInv
    <2> QED
        BY <2>1, <2>2
<1>4. \A p \in {"pod", "server"} : ProcessInv(p)'
    BY <1>1, <1>2, <1>3 DEF ProcessInv
<1>5. EngineInv'
    BY <1>1, <1>3, <1>4 DEF ServingInv, EngineInv
<1>6. CallInv'
    BY <1>1, <1>3 DEF ServingInv, CallInv, Wrapped
<1>7. CheckInv'
    BY <1>1, <1>3 DEF ServingInv, CheckInv
<1> QED
    BY <1>1, <1>5, <1>6, <1>7, PredictionStays DEF ServingInv

\* One process changes: what has to be shown of it, the rest follows.
LEMMA ProcessStep ==
    ASSUME ServingInv, NEW p \in {"pod", "server"}, NEW to \in ProcessState,
           process' = [process EXCEPT ![p] = to],
           UNCHANGED <<backend, readable>>,
           to.pc = "starting" =>
              to.loaded < Len(ModelFiles) /\ (readable # AllFiles => to.torn),
           to.engine = "heuristic" => to.torn \/ (p = "pod" /\ backend = "heuristic"),
           p = "pod" /\ to.engine = "http" => backend = "http"
    PROVE  EngineInv'
<1>1. process'[p] = to /\ \A q \in {"pod", "server"} \ {p} : process'[q] = process[q]
    BY DEF ServingInv, EngineInv
<1>2. process' \in [{"pod", "server"} -> ProcessState]
    BY DEF ServingInv, EngineInv
<1>3. \A q \in {"pod", "server"} : ProcessInv(q)'
    BY <1>1 DEF ServingInv, EngineInv, ProcessInv
<1>4. process'["pod"].engine = "http" => backend = "http"
    BY <1>1 DEF ServingInv, EngineInv
<1> QED
    BY <1>2, <1>3, <1>4 DEF ServingInv, EngineInv

\* A change of fields, one after the other, leaves a state of a process.
LEMMA FieldChanges ==
    ASSUME NEW x \in ProcessState
    PROVE  /\ \A v \in {"down", "starting", "up"} : [x EXCEPT !.pc = v] \in ProcessState
           /\ \A v \in Engines : [x EXCEPT !.engine = v] \in ProcessState
           /\ \A v \in 0..Len(ModelFiles) : [x EXCEPT !.loaded = v] \in ProcessState
           /\ \A v \in BOOLEAN : [x EXCEPT !.torn = v] \in ProcessState
           /\ \A v, w : [x EXCEPT !.pc = v, !.engine = w] = [[x EXCEPT !.pc = v] EXCEPT !.engine = w]
           /\ \A v, w : [x EXCEPT !.pc = v, !.torn = w] = [[x EXCEPT !.pc = v] EXCEPT !.torn = w]
           /\ \A v, w, l : [x EXCEPT !.pc = v, !.engine = w, !.loaded = l]
                              = [[[x EXCEPT !.pc = v] EXCEPT !.engine = w] EXCEPT !.loaded = l]
BY DEF ProcessState

\* A process that is down.
LEMMA OffState == Off \in ProcessState /\ Off.pc = "down" /\ Off.engine = "none"
BY FilesOfModel DEF Off, ProcessState, Engines

\* A process starts; only an artifact engine has files to load.
LEMMA StartProcessKeeps ==
    ASSUME ServingInv, NEW p \in {"pod", "server"}, StartProcess(p)
    PROVE  ServingInv'
<1> DEFINE to == IF p = "pod" /\ backend # "artifact"
                 THEN [Off EXCEPT !.pc = "up", !.engine = backend]
                 ELSE [Off EXCEPT !.pc = "starting", !.torn = readable # AllFiles]
<1>1. /\ process[p].pc = "down" /\ process' = [process EXCEPT ![p] = to]
      /\ lastUsedFallback' = (p # "pod" /\ lastUsedFallback)
      /\ UNCHANGED <<backend, readable, call, prediction, check, inService, disturbed>>
    BY DEF StartProcess
<1>2. backend \in {"artifact", "http", "heuristic"}
    BY DEF ServingInv, EngineInv
<1>3. /\ to \in ProcessState
      /\ to.pc = "starting" => to.loaded < Len(ModelFiles) /\ (readable # AllFiles => to.torn)
      /\ to.engine = "heuristic" => to.torn \/ (p = "pod" /\ backend = "heuristic")
      /\ p = "pod" /\ to.engine = "http" => backend = "http"
      /\ p = "server" => to.pc # "up"
    <2>1. CASE p = "pod" /\ backend # "artifact"
        <3>1. backend \in Engines
            BY <1>2 DEF Engines
        <3>2. to \in ProcessState
            BY <2>1, <3>1, OffState, FieldChanges
        <3>3. to.pc = "up" /\ to.engine = backend
            BY <2>1 DEF Off
        <3> QED
            BY <2>1, <3>2, <3>3
    <2>2. CASE ~(p = "pod" /\ backend # "artifact")
        <3>1. to \in ProcessState
            BY <2>2, OffState, FieldChanges
        <3>2. /\ to.pc = "starting" /\ to.engine = "none" /\ to.loaded = 0
              /\ readable # AllFiles => to.torn
            BY <2>2 DEF Off
        <3>3. 0 < Len(ModelFiles)
            BY FilesOfModel
        <3> HIDE DEF to
        <3> QED
            BY <2>2, <3>1, <3>2, <3>3
    <2> QED
        BY <2>1, <2>2
<1> HIDE DEF to
<1>4. EngineInv'
    BY <1>1, <1>3, ProcessStep
<1>5. process'[p] = to /\ \A q \in {"pod", "server"} \ {p} : process'[q] = process[q]
    BY <1>1 DEF ServingInv, EngineInv
<1>6. CASE p = "pod"
    <2>1. call.pc = "none" /\ lastUsedFallback' = FALSE
        BY <1>1, <1>6 DEF ServingInv, CallInv, CallState
    <2>2. process'["server"] = process["server"]
        BY <1>5, <1>6
    <2>3. CallInv' /\ CheckInv'
        BY <1>1, <2>1, <2>2 DEF ServingInv, CallInv, CheckInv
    <2> QED
        BY <1>1, <1>4, <2>3, PredictionStays DEF ServingInv
<1>7. CASE p = "server"
    <2>1. /\ lastUsedFallback' = lastUsedFallback /\ process'["pod"] = process["pod"]
          /\ process["server"].pc # "up"
        BY <1>1, <1>5, <1>7 DEF ServingInv, CallInv
    <2>2. CallInv' /\ CheckInv'
        BY <1>1, <2>1 DEF ServingInv, CallInv, CheckInv, Wrapped
    <2> QED
        BY <1>1, <1>4, <2>2, PredictionStays DEF ServingInv
<1> QED
    BY <1>6, <1>7

\* The next artifact is loaded, or the heuristic stands in for the engine.
LEMMA LoadArtifactKeeps ==
    ASSUME ServingInv, NEW p \in {"pod", "server"}, LoadArtifact(p)
    PROVE  ServingInv'
<1> DEFINE n == process[p].loaded + 1
           to == IF ~Loads(ModelFiles[n])
                 THEN [process[p] EXCEPT !.pc = "up", !.engine = "heuristic"]
                 ELSE IF n = Len(ModelFiles)
                      THEN [process[p] EXCEPT !.pc = "up", !.engine = "artifact", !.loaded = n]
                      ELSE [process[p] EXCEPT !.loaded = n]
<1>1. /\ process[p].pc = "starting" /\ process' = [process EXCEPT ![p] = to]
      /\ UNCHANGED <<backend, readable, starts, lastUsedFallback, call, prediction,
                     check, inService, disturbed>>
      /\ process[p] \in ProcessState /\ ProcessInv(p)
      /\ readable \subseteq AllFiles
    BY DEF LoadArtifact, ServingInv, EngineInv
<1>2. /\ process[p].loaded \in Nat /\ process[p].loaded < Len(ModelFiles)
      /\ Len(ModelFiles) \in Nat /\ n \in 1..Len(ModelFiles)
    BY <1>1, FilesOfModel DEF ProcessState, ProcessInv
<1>3. ~Loads(ModelFiles[n]) => process[p].torn
    BY <1>1, <1>2, FilesOfModel DEF Loads, ProcessInv
<1>4. process[p].engine = "heuristic" => process[p].torn \/ (p = "pod" /\ backend = "heuristic")
    BY <1>1 DEF ProcessInv
<1> HIDE DEF n
<1>5. to \in ProcessState
    <2>1. {"heuristic", "artifact"} \subseteq Engines /\ n \in 0..Len(ModelFiles)
        BY <1>2 DEF Engines
    <2>2. \A e \in Engines : [process[p] EXCEPT !.pc = "up", !.engine = e] \in ProcessState
        BY <1>1, FieldChanges
    <2>3. [process[p] EXCEPT !.pc = "up", !.engine = "artifact", !.loaded = n] \in ProcessState
        <3>1. [process[p] EXCEPT !.pc = "up"] \in ProcessState
            BY <1>1, FieldChanges
        <3>2. [[process[p] EXCEPT !.pc = "up"] EXCEPT !.engine = "artifact"] \in ProcessState
            BY <2>1, <3>1, FieldChanges
        <3> QED
            BY <1>1, <2>1, <3>2, FieldChanges
    <2>4. [process[p] EXCEPT !.loaded = n] \in ProcessState
        BY <1>1, <2>1, FieldChanges
    <2> QED
        BY <2>1, <2>2, <2>3, <2>4
<1>6. /\ to.torn = process[p].torn
      /\ to.pc = "starting" => to.loaded = n /\ n # Len(ModelFiles)
      /\ to.engine = "heuristic" => process[p].engine = "heuristic" \/ ~Loads(ModelFiles[n])
      /\ to.engine = "http" => process[p].engine = "http"
    BY <1>1 DEF ProcessState
<1> HIDE DEF to
<1>7. EngineInv'
    <2>1. to.pc = "starting" => to.loaded < Len(ModelFiles) /\ (readable # AllFiles => to.torn)
        BY <1>1, <1>2, <1>6 DEF ProcessInv
    <2>2. p = "pod" /\ to.engine = "http" => backend = "http"
        BY <1>6 DEF ServingInv, EngineInv
    <2> QED
        BY <1>1, <1>3, <1>4, <1>5, <1>6, <2>1, <2>2, ProcessStep
<1>8. process'[p] = to /\ \A q \in {"pod", "server"} \ {p} : process'[q] = process[q]
    BY <1>1 DEF ServingInv, EngineInv
<1>9. CallInv'
    <2>1. CASE p = "pod"
        <3>1. call.pc = "none"
            BY <1>1, <2>1 DEF ServingInv, CallInv, CallState
        <3> QED
            BY <1>1, <3>1 DEF ServingInv, CallInv
    <2>2. CASE p = "server"
        <3>1. process'["pod"] = process["pod"]
            BY <1>8, <2>2
        <3> QED
            BY <1>1, <3>1 DEF ServingInv, CallInv, Wrapped
    <2> QED
        BY <2>1, <2>2
<1>10. process'["server"].pc # "up" => process["server"].pc # "up"
    BY <1>1, <1>8
<1>11. CheckInv'
    BY <1>1, <1>10 DEF ServingInv, CheckInv
<1> QED
    BY <1>1, <1>7, <1>9, <1>11, PredictionStays DEF ServingInv

\* A process stops: a pod takes its call and its check with it, a model server is
\* seen to have failed.
LEMMA StopKeeps ==
    ASSUME ServingInv, StopPod \/ StopServer
    PROVE  ServingInv'
<1>1. Off \in ProcessState /\ Off.pc = "down" /\ Off.engine = "none"
    BY OffState
<1>2. CASE StopPod
    <2>1. /\ process' = [process EXCEPT !["pod"] = Off] /\ call' = NoCall
          /\ check' = NoCheck /\ inService' = FALSE
          /\ UNCHANGED <<backend, readable, starts, lastUsedFallback, prediction, disturbed>>
        BY <1>2 DEF StopPod
    <2>2. EngineInv'
        BY <1>1, <2>1, ProcessStep
    <2>3. CallInv' /\ CheckInv'
        BY <2>1 DEF ServingInv, CallInv, CheckInv, NoCall, NoCheck, CallState,
            CheckState, Engines
    <2> QED
        BY <2>1, <2>2, <2>3, PredictionStays DEF ServingInv
<1>3. CASE StopServer
    <2>1. /\ process' = [process EXCEPT !["server"] = Off] /\ disturbed' = TRUE
          /\ check' = [check EXCEPT !.failed = (check.pc # "none")]
          /\ UNCHANGED <<backend, readable, starts, lastUsedFallback, call, prediction,
                         inService>>
        BY <1>3 DEF StopServer, ServerFailed
    <2>2. EngineInv'
        BY <1>1, <2>1, ProcessStep
    <2>3. process'["pod"] = process["pod"]
        BY <2>1 DEF ServingInv, EngineInv
    <2>4. CallInv'
        BY <2>1, <2>3 DEF ServingInv, CallInv, Wrapped
    <2>5. check' \in CheckState /\ check'.pc = check.pc /\ check'.failed = (check.pc # "none")
        BY <2>1 DEF ServingInv, CheckInv, CheckState
    <2>6. CheckInv'
        BY <2>1, <2>5 DEF ServingInv, CheckInv
    <2> QED
        BY <2>1, <2>2, <2>4, <2>6, PredictionStays DEF ServingInv
<1> QED
    BY <1>2, <1>3

\* The engine is called, and may have answered at once.
LEMMA AskModelKeeps ==
    ASSUME ServingInv, AskModel
    PROVE  ServingInv'
<1>1. /\ process["pod"].pc = "up" /\ inService /\ call.pc = "none"
      /\ lastUsedFallback' = IF Wrapped THEN FALSE ELSE lastUsedFallback
      /\ UNCHANGED <<backend, readable, process, starts, prediction, check, inService, disturbed>>
    BY DEF AskModel, FlagOnEntry
<1>2. /\ process["pod"] \in ProcessState /\ ProcessInv("pod")
      /\ process["pod"].engine = "http" => backend = "http"
    BY DEF ServingInv, EngineInv
<1>3. EngineInv'
    BY <1>1 DEF ServingInv, EngineInv, ProcessInv
<1>4. CASE process["pod"].engine = "http"
    <2>1. call' = [NoCall EXCEPT !.pc = "asked"] /\ Wrapped /\ lastUsedFallback' = FALSE
        BY <1>1, <1>4 DEF AskModel, Wrapped
    <2>2. call'.pc = "asked" /\ call' \in CallState
        BY <2>1 DEF NoCall, CallState, Engines
    <2>3. CallInv'
        BY <1>1, <1>4, <2>1, <2>2 DEF CallInv
    <2>4. CheckInv'
        BY <1>1 DEF ServingInv, CheckInv
    <2> QED
        BY <1>1, <1>3, <2>3, <2>4, PredictionStays DEF ServingInv
<1>5. CASE process["pod"].engine # "http"
    <2>1. call' = AnsweredBy("pod")
        BY <1>5 DEF AskModel
    <2>2. /\ call'.pc = "answered" /\ call'.at = "pod"
          /\ call'.engine = process["pod"].engine /\ call'.torn = process["pod"].torn
        BY <2>1 DEF AnsweredBy
    <2>3. call' \in CallState
        BY <1>2, <2>1 DEF AnsweredBy, CallState, ProcessState
    <2>4. Wrapped => lastUsedFallback' = FALSE
        BY <1>1
    <2>5. lastUsedFallback' \in BOOLEAN
        BY <1>1 DEF ServingInv, CallInv
    <2>6. CallInv'
        BY <1>1, <1>2, <2>2, <2>3, <2>4, <2>5 DEF CallInv, Wrapped, ProcessInv
    <2>7. CheckInv'
        BY <1>1, <2>2 DEF ServingInv, CheckInv
    <2> QED
        BY <1>1, <1>3, <2>6, <2>7, PredictionStays DEF ServingInv
<1> QED
    BY <1>4, <1>5

\* The model server answers, or the pod's heuristic in its place.
LEMMA AnswerKeeps ==
    ASSUME ServingInv, ServerAnswers \/ CallFails
    PROVE  ServingInv'
<1>1. /\ call.pc = "asked" /\ UNCHANGED <<backend, readable, process, starts, prediction, inService>>
    BY DEF ServerAnswers, CallFails
<1>2. /\ process["pod"].pc = "up" /\ process["pod"].engine = "http" /\ ~lastUsedFallback
      /\ lastUsedFallback \in BOOLEAN /\ backend = "http" /\ Wrapped
      /\ process["server"] \in ProcessState /\ ProcessInv("server")
    BY <1>1 DEF ServingInv, CallInv, EngineInv, Wrapped
<1>3. EngineInv'
    BY <1>1 DEF ServingInv, EngineInv, ProcessInv
<1>4. CASE ServerAnswers
    <2>1. /\ call' = AnsweredBy("server") /\ UNCHANGED <<lastUsedFallback, check, disturbed>>
        BY <1>4 DEF ServerAnswers
    <2>2. /\ call'.pc = "answered" /\ call'.at = "server"
          /\ call'.engine = process["server"].engine /\ call'.torn = process["server"].torn
        BY <2>1 DEF AnsweredBy
    <2>3. call' \in CallState
        BY <1>2, <2>1 DEF AnsweredBy, CallState, ProcessState
    <2>4. call'.engine = "heuristic" => call'.torn
        BY <1>2, <2>2 DEF ProcessInv
    <2>5. CallInv'
        BY <1>1, <1>2, <2>1, <2>2, <2>3, <2>4 DEF CallInv, Wrapped
    <2>6. CheckInv'
        BY <1>1, <2>1, <2>2 DEF ServingInv, CheckInv
    <2> QED
        BY <1>1, <1>3, <2>5, <2>6, PredictionStays DEF ServingInv
<1>5. CASE CallFails
    <2>1. /\ lastUsedFallback' = TRUE
          /\ call' = [pc |-> "answered", at |-> "fallback", engine |-> "heuristic",
                      torn |-> FALSE, excused |-> disturbed']
          /\ \/ /\ process["server"].pc = "up" /\ disturbed' = TRUE
                /\ check' = [check EXCEPT !.failed = (check.pc # "none")]
             \/ process["server"].pc # "up" /\ UNCHANGED <<disturbed, check>>
        BY <1>5 DEF CallFails, ServerFailed
    <2>2. disturbed' = TRUE
        BY <1>1, <1>2, <2>1 DEF ServingInv, CheckInv
    <2>3. /\ call' \in CallState /\ call'.pc = "answered" /\ call'.at = "fallback"
          /\ call'.excused = TRUE
        BY <2>1, <2>2 DEF CallState, Engines
    <2>4. CallInv'
        BY <1>1, <1>2, <2>1, <2>3 DEF CallInv, Wrapped
    <2>5. check' \in CheckState /\ (process["server"].pc # "up" => check' = check)
        BY <2>1 DEF ServingInv, CheckInv, CheckState
    <2>6. CheckInv'
        BY <1>1, <2>2, <2>3, <2>5 DEF ServingInv, CheckInv
    <2> QED
        BY <1>1, <1>3, <2>4, <2>6, PredictionStays DEF ServingInv
<1> QED
    BY <1>4, <1>5

\* The flag is read: it is that of this call.
LEMMA ReadFlagKeeps ==
    ASSUME ServingInv, ReadFlag
    PROVE  ServingInv'
<1>1. /\ call.pc = "answered" /\ call' = NoCall
      /\ prediction' = [at |-> call.at, engine |-> call.engine, torn |-> call.torn,
                        excused |-> call.excused, flagged |-> Wrapped /\ lastUsedFallback]
      /\ UNCHANGED <<backend, readable, process, starts, lastUsedFallback, check,
                     inService, disturbed>>
    BY DEF ReadFlag
<1>2. EngineInv'
    BY <1>1 DEF ServingInv, EngineInv, ProcessInv
<1>3. NoCall \in CallState /\ NoCall.pc = "none"
    BY DEF NoCall, CallState, Engines
<1>4. CallInv' /\ CheckInv'
    BY <1>1, <1>3 DEF ServingInv, CallInv, CheckInv
<1>5. /\ prediction'.at = call.at /\ prediction'.engine = call.engine
      /\ prediction'.torn = call.torn /\ prediction'.excused = call.excused
      /\ prediction'.flagged = (Wrapped /\ lastUsedFallback)
    BY <1>1
<1>6. /\ (Wrapped /\ lastUsedFallback) <=> call.at = "fallback"
      /\ call.engine = "heuristic" /\ call.at # "fallback" => backend = "heuristic" \/ call.torn
      /\ call.at = "fallback" => call.excused
    BY <1>1 DEF ServingInv, CallInv
<1>7. PredictionInv'
    BY <1>1, <1>5, <1>6 DEF PredictionInv, FlagTellsTruth, FallbackFollowsFailure
<1> QED
    BY <1>2, <1>4, <1>7 DEF ServingInv

\* The readiness check goes on, ends or is given up.
LEMMA CheckKeeps ==
    ASSUME ServingInv,
           CheckBegins \/ (\E i \in DOMAIN Checks : Ping(i)) \/ CheckEnds \/ CheckTimesOut
    PROVE  ServingInv'
<1>1. UNCHANGED <<backend, readable, process, starts, lastUsedFallback, call, prediction>>
    BY DEF CheckBegins, Ping, CheckEnds, CheckTimesOut
<1>2. EngineInv' /\ CallInv'
    BY <1>1 DEF ServingInv, EngineInv, ProcessInv, CallInv, Wrapped
<1>3. NoCheck \in CheckState /\ NoCheck.pc = "none"
    BY DEF NoCheck, CheckState
<1>4. /\ check \in CheckState /\ inService \in BOOLEAN /\ disturbed \in BOOLEAN
      /\ backend = "http" /\ process["server"].pc # "up" =>
            /\ check.pc = "answer" /\ check.ok => check.failed
            /\ inService \/ call.pc = "asked" => disturbed
    BY DEF ServingInv, CheckInv
<1>5. CASE CheckBegins
    <2>1. /\ check' = [NoCheck EXCEPT !.pc = "database"] /\ UNCHANGED <<inService, disturbed>>
        BY <1>5 DEF CheckBegins, Checks
    <2>2. check' \in CheckState /\ check'.pc = "database"
        BY <2>1 DEF NoCheck, CheckState
    <2>3. CheckInv'
        BY <1>1, <1>4, <2>1, <2>2 DEF CheckInv
    <2> QED
        BY <1>1, <1>2, <2>3, PredictionStays DEF ServingInv
<1>6. ASSUME NEW i \in DOMAIN Checks, Ping(i) PROVE ServingInv'
    <2>1. PICK answered \in BOOLEAN :
              /\ Checks[i] = "model_serving" /\ answered => process["server"].pc = "up"
              /\ check' = [check EXCEPT
                    !.pc = IF i = Len(Checks) THEN "answer" ELSE Checks[i + 1],
                    !.ok = check.ok /\ (Asked(Checks[i]) => answered)]
        BY <1>6 DEF Ping
    <2>2. /\ i \in {1, 2, 3} /\ Len(Checks) = 3 /\ Checks[1] = "database"
          /\ Checks[2] = "redis" /\ Checks[3] = "model_serving"
        BY DEF Checks
    <2>3. UNCHANGED <<inService, disturbed>>
        BY <1>6 DEF Ping
    <2> DEFINE next == IF i = Len(Checks) THEN "answer" ELSE Checks[i + 1]
               ok == check.ok /\ (Asked(Checks[i]) => answered)
    <2>4. next \in {"answer", "redis", "model_serving"} /\ (next = "answer" <=> i = 3)
        BY <2>2
    <2>5. ok \in BOOLEAN
        OBVIOUS
    <2>6. check' = [check EXCEPT !.pc = next, !.ok = ok]
        BY <2>1
    <2>7. backend = "http" /\ ok /\ i = 3 => process["server"].pc = "up"
        BY <2>1, <2>2 DEF Asked
    <2> HIDE DEF next, ok
    <2>8. check' \in CheckState /\ check'.pc = next /\ check'.ok = ok
        BY <1>4, <2>4, <2>5, <2>6 DEF CheckState
    <2>9. CheckInv'
        BY <1>1, <1>4, <2>3, <2>4, <2>7, <2>8 DEF CheckInv
    <2> QED
        BY <1>1, <1>2, <2>9, PredictionStays DEF ServingInv
<1>7. CASE CheckEnds
    <2>1. /\ check.pc = "answer" /\ check' = NoCheck
          /\ \/ check.ok /\ inService' = TRUE /\ disturbed' = check.failed
             \/ inService' \in {inService, FALSE} /\ disturbed' = disturbed
        BY <1>7 DEF CheckEnds
    <2>2. disturbed' \in BOOLEAN /\ inService' \in BOOLEAN
        BY <1>4, <2>1 DEF CheckState
    <2>3. CheckInv'
        BY <1>1, <1>3, <1>4, <2>1, <2>2 DEF CheckInv
    <2> QED
        BY <1>1, <1>2, <2>3, PredictionStays DEF ServingInv
<1>8. CASE CheckTimesOut
    <2>1. /\ check' = NoCheck /\ disturbed' = disturbed
          /\ inService' = inService \/ inService' = FALSE
        BY <1>8 DEF CheckTimesOut
    <2>2. inService' \in BOOLEAN /\ (inService' => inService)
        <3>1. inService \in BOOLEAN /\ (inService' = inService \/ inService' = FALSE)
            BY <1>4, <2>1
        <3>2. CASE inService' = inService
            BY <3>1, <3>2
        <3>3. CASE inService' = FALSE
            BY <3>3
        <3> QED
            BY <3>1, <3>2, <3>3
    <2>3. check' \in CheckState /\ check'.pc = "none" /\ disturbed' \in BOOLEAN
        BY <1>3, <1>4, <2>1
    <2>4. CheckInv'
        BY <1>1, <1>4, <2>1, <2>2, <2>3 DEF CheckInv
    <2> QED
        BY <1>1, <1>2, <2>4, PredictionStays DEF ServingInv
<1> QED
    BY <1>5, <1>6, <1>7, <1>8

\* The engines, the call, the check and the last prediction belong together.
THEOREM ServingInvariant == ServingSpec => []ServingInv
<1>1. ServingInit => ServingInv
    <2> SUFFICES ASSUME ServingInit PROVE ServingInv
        OBVIOUS
    <2>1. EngineInv
        <3>1. process \in [{"pod", "server"} -> ProcessState]
            BY OffState DEF ServingInit
        <3>2. \A p \in {"pod", "server"} : process[p] = Off
            BY DEF ServingInit
        <3>3. backend \in {"artifact", "http", "heuristic"}
            BY ModelServingAssumption DEF ModelServingAssumption, ServingInit
        <3> QED
            BY <3>1, <3>2, <3>3, OffState DEF ServingInit, EngineInv, ProcessInv
    <2>2. CallInv
        BY DEF ServingInit, CallInv, NoCall, CallState, Engines
    <2>3. CheckInv
        BY DEF ServingInit, CheckInv, NoCheck, CheckState, NoCall
    <2>4. PredictionInv
        BY DEF ServingInit, PredictionInv, FlagTellsTruth, FallbackFollowsFailure, NoPrediction
    <2> QED
        BY <2>1, <2>2, <2>3, <2>4 DEF ServingInv
<1>2. ServingInv /\ [ServingNext]_serving => ServingInv'
    <2> SUFFICES ASSUME ServingInv, [ServingNext]_serving PROVE ServingInv'
        OBVIOUS
    <2>1. CASE UNCHANGED serving
        BY <2>1 DEF serving, ServingInv, EngineInv, ProcessInv, CallInv, CheckInv, Wrapped,
            PredictionInv, FlagTellsTruth, FallbackFollowsFailure
    <2>2. CASE \E f \in Replaced : BeginReplacing(f) \/ EndReplacing(f)
        BY <2>2, ReplacingKeeps
    <2>3. CASE \E p \in {"pod", "server"} : StartProcess(p) \/ LoadArtifact(p)
        BY <2>3, StartProcessKeeps, LoadArtifactKeeps
    <2>4. CASE StopPod \/ StopServer
        BY <2>4, StopKeeps
    <2>5. CASE AskModel
        BY <2>5, AskModelKeeps
    <2>6. CASE ServerAnswers \/ CallFails
        BY <2>6, AnswerKeeps
    <2>7. CASE ReadFlag
        BY <2>7, ReadFlagKeeps
    <2>8. CASE CheckBegins \/ (\E i \in DOMAIN Checks : Ping(i)) \/ CheckEnds \/ CheckTimesOut
        BY <2>8, CheckKeeps
    <2> QED
        BY <2>1, <2>2, <2>3, <2>4, <2>5, <2>6, <2>7, <2>8 DEF ServingNext
<1> QED
    BY <1>1, <1>2, PTL DEF ServingSpec

\* used_fallback is that of its own prediction, and a heuristic answer without it
\* is explained (FlagTellsTruth).
THEOREM TheFlagIsTrue == ServingSpec => []FlagTellsTruth
<1>1. ServingInv => FlagTellsTruth
    BY DEF ServingInv, PredictionInv
<1> QED
    BY <1>1, ServingInvariant, PTL

\* Traffic meets the stand-in only after a failure (FallbackFollowsFailure).
THEOREM FallbacksFollowFailures == ServingSpec => []FallbackFollowsFailure
<1>1. ServingInv => FallbackFollowsFailure
    BY DEF ServingInv, PredictionInv
<1> QED
    BY <1>1, ServingInvariant, PTL

-----------------------------------------------------------------------------
(* security/rate_limit.py                                                  *)

\* How far behind Redis' clock a time may be that a call has noted.
Lag == MaxDelay + Skew
Noted(t) == t \in Int /\ redisTime - Lag <= t /\ t <= redisTime + Skew

\* What a bucket of limit l and period r holds, up to which time it was refilled,
\* and its log. From any token of the log on, no more were given than the limit
\* and a token per period since. And the m-th last token, of those that are
\* missing, was given in the last periods: fewer than the bucket has room for.
Filled(l, r, tokens, last, log) ==
    /\ tokens \in 0..l /\ last \in Int /\ log \in Seq(Int)
    /\ \A i \in 1..Len(log) :
          (tokens + Len(log) - i + 1 - l) * r <= last - log[i] + Lag + r - 1
    /\ \A m \in 1..(l - tokens) :
          m <= Len(log) /\ log[Len(log) - m + 1] >= last - (m - 1 + tokens) * r - Skew

\* AdmissionBounded, of one log.
Within(l, r, log) ==
    \A i, j \in 1..Len(log) :
        i <= j => (j - i + 1 - l) * r <= log[j] - log[i] + Slack + r - 1

KeyInv(k) ==
    /\ bucket[k].tokens = -1 => charges[k] = <<>>
    /\ bucket[k].tokens # -1 =>
          /\ Filled(Limit(k), Refill(k), bucket[k].tokens, bucket[k].last, charges[k])
          /\ bucket[k].last <= bucket[k].expires - Ttl(k) + Skew
          /\ bucket[k].expires <= redisTime + Ttl(k)
    /\ Within(Limit(k), Refill(k), charges[k])

\* A call that is under way: its keys, and how old its time can be.
CallAge(c) ==
    apiCall[c].pc # "idle" =>
        /\ apiCall[c].pc \in {"tenant", "user"}
        /\ apiCall[c].tenant \in TenantIds /\ apiCall[c].permission \in Permissions
        /\ apiCall[c].subject \in Subjects
        /\ apiCall[c].noted \in Int /\ apiCall[c].began \in Nat
        /\ apiCall[c].began <= redisTime /\ redisTime <= apiCall[c].began + MaxDelay
        /\ apiCall[c].began - Skew <= apiCall[c].noted
        /\ apiCall[c].noted <= apiCall[c].began + Skew

AdmissionInv ==
    /\ redisTime \in Nat
    /\ bucket \in [Keys -> [tokens : Int, last : Int, expires : Int]]
    /\ charges \in [Keys -> Seq(Int)]
    /\ \A k \in Keys : KeyInv(k)
    /\ DOMAIN apiCall = Calls /\ \A c \in Calls : CallAge(c)

\* Division rounds down.
LEMMA Division ==
    ASSUME NEW a \in Nat, NEW b \in Nat \ {0}
    PROVE  a \div b \in Nat /\ (a \div b) * b <= a /\ a < (a \div b) * b + b
OBVIOUS

\* The limit, the period and the expiry of a key: it outlives its refilling.
LEMMA KeyBounds ==
    ASSUME NEW k
    PROVE  /\ Limit(k) \in Nat \ {0} /\ Refill(k) \in Nat \ {0}
           /\ Ttl(k) \in Nat /\ Ttl(k) >= Limit(k) * Refill(k) + Slack
           /\ Lag \in Nat /\ Skew \in Nat /\ MaxDelay \in Nat /\ Slack = Lag + Skew
           /\ Slack \in Nat
<1>1. /\ TenantLimit \in Nat \ {0} /\ UserLimit \in Nat \ {0} /\ WindowTicks \in Nat
      /\ Second \in Nat \ {0} /\ TenantRefill > 0 /\ UserRefill > 0
      /\ Skew \in Nat /\ MaxDelay \in Nat /\ MaxDelay + 2 * Skew <= Second
    BY AdmissionAssumption DEF AdmissionAssumption
<1>2. TenantRefill \in Nat \ {0} /\ UserRefill \in Nat \ {0}
    BY <1>1, Division DEF TenantRefill, UserRefill
<1>3. Limit(k) \in Nat \ {0} /\ Refill(k) \in Nat \ {0}
    BY <1>1, <1>2 DEF Limit, Refill
<1>4. Slack = Lag + Skew /\ Lag \in Nat /\ Slack \in Nat /\ Slack <= Second
    BY <1>1 DEF Slack, Lag
<1> DEFINE full == Limit(k) * Refill(k)
           seconds == (full + Second - 1) \div Second
<1>5. full \in Nat
    BY <1>3
<1> HIDE DEF full
<1>6. full + Second - 1 \in Nat
    BY <1>1, <1>5
<1>7. seconds \in Nat /\ full + Second - 1 < seconds * Second + Second
    BY <1>1, <1>6, Division
<1>8. Ttl(k) = (seconds + 1) * Second
    BY DEF Ttl, full
<1> HIDE DEF seconds
<1>9. /\ (seconds + 1) * Second = seconds * Second + Second
      /\ seconds * Second \in Nat
    BY <1>1, <1>7
<1>10. Ttl(k) \in Nat /\ Ttl(k) >= full + Slack
    BY <1>1, <1>4, <1>5, <1>7, <1>8, <1>9
<1> QED
    BY <1>1, <1>3, <1>4, <1>10 DEF full

\* p periods later the bucket has p tokens more, unless it is full before.
LEMMA RefillKeepsFilled ==
    ASSUME NEW l \in Nat \ {0}, NEW r \in Nat \ {0}, NEW tokens, NEW last, NEW log,
           Filled(l, r, tokens, last, log), NEW p \in Nat, Lag \in Nat, Skew \in Nat
    PROVE  Filled(l, r, IF tokens + p < l THEN tokens + p ELSE l, last + p * r, log)
<1> DEFINE more == IF tokens + p < l THEN tokens + p ELSE l
<1>1. /\ tokens \in 0..l /\ last \in Int /\ log \in Seq(Int) /\ p * r \in Nat
      /\ Len(log) \in Nat /\ \A i \in 1..Len(log) : log[i] \in Int
    BY DEF Filled
<1>2. more \in 0..l /\ more <= tokens + p /\ (more < l => more = tokens + p)
    BY <1>1
<1> HIDE DEF more
<1>3. ASSUME NEW i \in 1..Len(log)
      PROVE  (more + Len(log) - i + 1 - l) * r <= last + p * r - log[i] + Lag + r - 1
    <2> DEFINE d == tokens + Len(log) - i + 1 - l
               e == more + Len(log) - i + 1 - l
    <2>1. d * r <= last - log[i] + Lag + r - 1
        BY DEF Filled
    <2>2. d \in Int /\ e \in Int /\ e <= d + p
        BY <1>1, <1>2
    <2> HIDE DEF d, e
    <2>3. e * r <= (d + p) * r
        BY <2>2
    <2>4. (d + p) * r = d * r + p * r /\ d * r \in Int /\ e * r \in Int
        BY <2>2
    <2> DEFINE x == d * r
               y == e * r
               z == p * r
    <2>5. /\ x \in Int /\ y \in Int /\ z \in Int /\ y <= x + z
          /\ x <= last - log[i] + Lag + r - 1 /\ log[i] \in Int
        BY <1>1, <2>1, <2>3, <2>4
    <2> DEFINE g == log[i]
    <2> HIDE DEF x, y, z, g
    <2>6. y <= last + z - g + Lag + r - 1
        <3>1. g \in Int /\ last \in Int /\ x <= last - g + Lag + r - 1
            BY <1>1, <2>5 DEF g
        <3> QED
            BY <2>5, <3>1
    <2> QED
        BY <2>6 DEF e, g, y, z
<1>4. ASSUME NEW m \in 1..(l - more)
      PROVE  /\ m <= Len(log)
             /\ log[Len(log) - m + 1] >= last + p * r - (m - 1 + more) * r - Skew
    <2>1. more = tokens + p /\ m \in 1..(l - tokens)
        BY <1>1, <1>2
    <2>2. m <= Len(log) /\ log[Len(log) - m + 1] >= last - (m - 1 + tokens) * r - Skew
        BY <2>1 DEF Filled
    <2> DEFINE d == m - 1 + tokens
    <2>3. m - 1 + more = d + p /\ d \in Int
        BY <1>1, <2>1
    <2> HIDE DEF d
    <2>4. (d + p) * r = d * r + p * r /\ d * r \in Int
        BY <2>3
    <2>5. log[Len(log) - m + 1] >= last - d * r - Skew
        BY <2>2 DEF d
    <2>6. log[Len(log) - m + 1] \in Int
        BY <1>1, <2>2
    <2> QED
        BY <1>1, <2>2, <2>3, <2>4, <2>5, <2>6
<1>5. last + p * r \in Int
    BY <1>1
<1> QED
    BY <1>1, <1>2, <1>3, <1>4, <1>5 DEF Filled, more

\* A token is given at t.
LEMMA GiveKeepsFilled ==
    ASSUME NEW l \in Nat \ {0}, NEW r \in Nat \ {0}, NEW tokens, NEW last, NEW log,
           Filled(l, r, tokens, last, log), tokens > 0, NEW t \in Int,
           Lag \in Nat, Skew \in Nat, last <= t + Skew, last >= t - Lag - r + 1
    PROVE  Filled(l, r, tokens - 1, last, Append(log, t))
<1> DEFINE longer == Append(log, t)
           less == tokens - 1
<1>1. /\ tokens \in 0..l /\ last \in Int /\ log \in Seq(Int) /\ Len(log) \in Nat
    BY DEF Filled
<1>2. /\ longer \in Seq(Int) /\ Len(longer) = Len(log) + 1
      /\ \A i \in 1..Len(log) : longer[i] = log[i]
      /\ longer[Len(log) + 1] = t
    BY <1>1
<1>3. less \in 0..l /\ tokens = less + 1
    BY <1>1
<1> HIDE DEF longer, less
<1>4. ASSUME NEW i \in 1..Len(longer)
      PROVE  (less + Len(longer) - i + 1 - l) * r <= last - longer[i] + Lag + r - 1
    <2>1. CASE i \in 1..Len(log)
        <3>1. (tokens + Len(log) - i + 1 - l) * r <= last - log[i] + Lag + r - 1
            BY <2>1 DEF Filled
        <3>2. less + Len(longer) - i + 1 - l = tokens + Len(log) - i + 1 - l
            BY <1>1, <1>2, <1>3
        <3> QED
            BY <1>2, <2>1, <3>1, <3>2
    <2>2. CASE i = Len(log) + 1
        <3> DEFINE d == less + Len(longer) - i + 1 - l
        <3>1. d \in Int /\ d <= 0
            BY <1>1, <1>2, <1>3, <2>2
        <3> HIDE DEF d
        <3>2. d * r <= 0 /\ d * r \in Int
            BY <3>1
        <3>3. d * r <= last - longer[i] + Lag + r - 1
            BY <1>1, <1>2, <2>2, <3>2
        <3> QED
            BY <3>3 DEF d
    <2> QED
        BY <1>1, <1>2, <2>1, <2>2
<1>5. ASSUME NEW m \in 1..(l - less)
      PROVE  /\ m <= Len(longer)
             /\ longer[Len(longer) - m + 1] >= last - (m - 1 + less) * r - Skew
    <2>1. CASE m = 1
        <3>1. Len(longer) - m + 1 = Len(log) + 1 /\ m - 1 + less = less
            BY <1>1, <1>2, <1>3, <2>1
        <3>2. less * r \in Nat
            BY <1>3
        <3> QED
            BY <1>1, <1>2, <2>1, <3>1, <3>2
    <2>2. CASE m > 1
        <3>1. m - 1 \in 1..(l - tokens)
            BY <1>1, <1>3, <2>2
        <3>2. /\ m - 1 <= Len(log)
              /\ log[Len(log) - (m - 1) + 1] >= last - ((m - 1) - 1 + tokens) * r - Skew
            BY <3>1 DEF Filled
        <3>3. /\ Len(longer) - m + 1 = Len(log) - (m - 1) + 1
              /\ Len(log) - (m - 1) + 1 \in 1..Len(log)
              /\ m - 1 + less = (m - 1) - 1 + tokens
            BY <1>1, <1>2, <1>3, <2>2, <3>2
        <3>4. longer[Len(longer) - m + 1] = log[Len(log) - (m - 1) + 1]
            BY <1>2, <3>3
        <3>5. m <= Len(longer)
            BY <1>1, <1>2, <3>2
        <3> QED
            BY <3>2, <3>3, <3>4, <3>5
    <2> QED
        BY <2>1, <2>2
<1> QED
    BY <1>1, <1>2, <1>3, <1>4, <1>5 DEF Filled, longer, less

\* Then the log with that token is within the bound, if it was without it.
LEMMA GiveKeepsWithin ==
    ASSUME NEW l \in Nat \ {0}, NEW r \in Nat \ {0}, NEW tokens, NEW last, NEW log \in Seq(Int),
           NEW t \in Int, Filled(l, r, tokens, last, Append(log, t)), Within(l, r, log),
           Lag \in Nat, Skew \in Nat, Slack = Lag + Skew, last <= t + Skew
    PROVE  Within(l, r, Append(log, t))
<1> DEFINE longer == Append(log, t)
<1>1. /\ longer \in Seq(Int) /\ Len(longer) = Len(log) + 1 /\ Len(log) \in Nat
      /\ \A i \in 1..Len(log) : longer[i] = log[i]
      /\ longer[Len(log) + 1] = t /\ tokens \in Nat /\ last \in Int
    BY DEF Filled
<1>2. Filled(l, r, tokens, last, longer)
    OBVIOUS
<1> HIDE DEF longer
<1>3. ASSUME NEW i \in 1..Len(longer), NEW j \in 1..Len(longer), i <= j
      PROVE  (j - i + 1 - l) * r <= longer[j] - longer[i] + Slack + r - 1
    <2>1. CASE j \in 1..Len(log)
        <3>1. i \in 1..Len(log)
            BY <1>3, <2>1
        <3> QED
            BY <1>1, <1>3, <2>1, <3>1 DEF Within
    <2>2. CASE j = Len(log) + 1
        <3> DEFINE d == j - i + 1 - l
                   e == tokens + Len(longer) - i + 1 - l
        <3>1. e * r <= last - longer[i] + Lag + r - 1
            BY <1>2 DEF Filled
        <3>2. d \in Int /\ e \in Int /\ d <= e
            BY <1>1, <2>2
        <3> HIDE DEF d, e
        <3>3. d * r <= e * r /\ d * r \in Int /\ e * r \in Int
            BY <3>2
        <3>4. longer[i] \in Int /\ longer[j] = t
            BY <1>1, <2>2
        <3> DEFINE x == d * r
                   y == e * r
        <3>5. x \in Int /\ y \in Int /\ x <= y /\ y <= last - longer[i] + Lag + r - 1
            BY <3>1, <3>3 DEF e
        <3> DEFINE g == longer[i]
        <3> HIDE DEF x, y, g
        <3>6. /\ x <= y /\ y <= last - g + Lag + r - 1
              /\ x \in Int /\ y \in Int /\ g \in Int /\ last \in Int
            BY <1>1, <3>4, <3>5 DEF g
        <3>7. last + Lag <= t + Slack
            BY <3>6
        <3>8. x <= t - g + Slack + r - 1
            BY <3>6, <3>7
        <3> QED
            BY <3>4, <3>8 DEF d, g, x
    <2> QED
        BY <1>1, <2>1, <2>2
<1> QED
    BY <1>3 DEF Within, longer

\* The bucket as the script finds it: one that expired had time to fill, so the
\* log fits a full one, too.
LEMMA FoundIsFilled ==
    ASSUME AdmissionInv, NEW k \in Keys, NEW noted, Noted(noted)
    PROVE  LET f == FoundBucket(k, noted) IN
           /\ Filled(Limit(k), Refill(k), f.tokens, f.last, charges[k])
           /\ f.last <= redisTime + Skew
<1> DEFINE l == Limit(k)
           r == Refill(k)
           log == charges[k]
           b == bucket[k]
<1>1. /\ l \in Nat \ {0} /\ r \in Nat \ {0} /\ Ttl(k) \in Nat
      /\ Ttl(k) >= l * r + Slack
      /\ Lag \in Nat /\ Skew \in Nat /\ Slack = Lag + Skew /\ Slack \in Nat
    BY KeyBounds
<1>2. /\ redisTime \in Nat /\ log \in Seq(Int) /\ Len(log) \in Nat
      /\ b \in [tokens : Int, last : Int, expires : Int] /\ KeyInv(k)
      /\ noted \in Int /\ redisTime - Lag <= noted /\ noted <= redisTime + Skew
    BY DEF AdmissionInv, Noted
<1>3. CASE b.tokens # -1 /\ redisTime < b.expires
    <2>1. FoundBucket(k, noted) = b
        BY <1>2, <1>3 DEF FoundBucket
    <2>2. /\ Filled(l, r, b.tokens, b.last, log)
          /\ b.last <= b.expires - Ttl(k) + Skew /\ b.expires <= redisTime + Ttl(k)
        BY <1>2, <1>3 DEF KeyInv
    <2> DEFINE last == b.last
               expires == b.expires
    <2>3. /\ last \in Int /\ expires \in Int /\ redisTime \in Int /\ Ttl(k) \in Int
          /\ Skew \in Int
          /\ last <= expires - Ttl(k) + Skew /\ expires <= redisTime + Ttl(k)
        BY <1>1, <1>2, <2>2
    <2> HIDE DEF last, expires
    <2>4. last <= redisTime + Skew
        BY <2>3
    <2> QED
        BY <2>1, <2>2, <2>4 DEF last
<1>4. CASE b.tokens = -1 \/ redisTime >= b.expires
    <2>1. FoundBucket(k, noted) = [tokens |-> l, last |-> noted]
        BY <1>4 DEF FoundBucket
    <2>2. ASSUME NEW i \in 1..Len(log)
          PROVE  (l + Len(log) - i + 1 - l) * r <= noted - log[i] + Lag + r - 1
        <3>1. b.tokens # -1
            BY <1>2 DEF KeyInv
        <3>2. /\ Filled(l, r, b.tokens, b.last, log)
              /\ b.last <= b.expires - Ttl(k) + Skew /\ redisTime >= b.expires
            BY <1>2, <1>4, <3>1 DEF KeyInv
        <3> DEFINE d == Len(log) - i + 1
                   e == b.tokens + Len(log) - i + 1 - l
        <3>3. e * r <= b.last - log[i] + Lag + r - 1 /\ b.tokens \in 0..l
            BY <3>2 DEF Filled
        <3>4. /\ b.tokens \in Int /\ b.last \in Int /\ b.expires \in Int /\ log[i] \in Int
              /\ i \in Int
            BY <1>2
        <3>5. l \in Int /\ Len(log) \in Int /\ b.tokens >= 0
            BY <1>1, <1>2, <3>3
        <3>6. /\ Lag \in Int /\ Skew \in Int /\ Slack = Lag + Skew /\ Ttl(k) \in Int /\ r \in Int
              /\ noted \in Int /\ redisTime \in Int /\ redisTime - Lag <= noted
            BY <1>1, <1>2
        <3> HIDE DEF l, r, log, b
        <3>7. d \in Int /\ e \in Int /\ d <= e + l /\ l + Len(log) - i + 1 - l = d
            BY <3>4, <3>5
        <3> HIDE DEF d, e
        <3>8. d * r <= (e + l) * r
            BY <1>1, <3>7
        <3>9. (e + l) * r = e * r + l * r
            BY <1>1, <3>7
        <3> DEFINE x == d * r
                   y == e * r
                   z == l * r
        <3>10. /\ x \in Int /\ y \in Int /\ z \in Int /\ x <= y + z
              /\ y <= b.last - log[i] + Lag + r - 1 /\ Ttl(k) >= z + Slack
            BY <1>1, <3>3, <3>7, <3>8, <3>9 DEF e
        <3> DEFINE last == b.last
                   expires == b.expires
                   g == log[i]
                   ttl == Ttl(k)
        <3> HIDE DEF x, y, z, last, expires, g, ttl
        <3>11. /\ last \in Int /\ expires \in Int /\ g \in Int /\ ttl \in Int
               /\ last <= expires - ttl + Skew /\ redisTime >= expires
               /\ y <= last - g + Lag + r - 1 /\ ttl >= z + Lag + Skew
            BY <3>2, <3>10, <3>4, <3>6 DEF last, expires, g, ttl
        <3>12. last <= redisTime - ttl + Skew
            BY <3>6, <3>11
        <3>13. last + z <= noted
            BY <3>10, <3>6, <3>11, <3>12
        <3>14. x <= noted - g + Lag + r - 1
            BY <3>10, <3>13, <3>6, <3>11
        <3> QED
            BY <3>7, <3>14 DEF x, g
    <2>3. Filled(l, r, l, noted, log)
        BY <1>1, <1>2, <2>2 DEF Filled
    <2> QED
        BY <1>2, <2>1, <2>3
<1> QED
    BY <1>2, <1>3, <1>4

\* The bucket after the refill: it was refilled up to the noted time but for a
\* part of a period.
LEMMA RefilledIsFilled ==
    ASSUME AdmissionInv, NEW k \in Keys, NEW noted, Noted(noted)
    PROVE  LET b == Refilled(k, noted) IN
           /\ Filled(Limit(k), Refill(k), b.tokens, b.last, charges[k])
           /\ b.last <= redisTime + Skew /\ b.last >= redisTime - Lag - Refill(k) + 1
<1> DEFINE l == Limit(k)
           r == Refill(k)
           f == FoundBucket(k, noted)
           elapsed == IF noted > f.last THEN noted - f.last ELSE 0
           p == elapsed \div r
<1>1. /\ l \in Nat \ {0} /\ r \in Nat \ {0} /\ Lag \in Nat /\ Skew \in Nat
    BY KeyBounds
<1>2. /\ redisTime \in Nat /\ noted \in Int /\ redisTime - Lag <= noted
      /\ noted <= redisTime + Skew
    BY DEF AdmissionInv, Noted
<1>3. Filled(l, r, f.tokens, f.last, charges[k]) /\ f.last <= redisTime + Skew
    BY FoundIsFilled
<1>4. f.last \in Int /\ f.tokens \in 0..l
    BY <1>3 DEF Filled
<1> DEFINE more == IF f.tokens + p < l THEN f.tokens + p ELSE l
           upTo == f.last + p * r
<1>5. Refilled(k, noted) = [tokens |-> more, last |-> upTo]
    BY DEF Refilled
<1> HIDE DEF f
<1>6. elapsed \in Nat
    BY <1>2, <1>4
<1>7. /\ noted > f.last => elapsed = noted - f.last
      /\ noted <= f.last => elapsed = 0
    BY <1>2, <1>4
<1> HIDE DEF elapsed
<1>8. p \in Nat /\ p * r <= elapsed /\ elapsed < p * r + r
    BY <1>1, <1>6, Division
<1> HIDE DEF p
<1>9. Filled(l, r, more, upTo, charges[k])
    BY <1>1, <1>3, <1>8, RefillKeepsFilled
<1> DEFINE x == p * r
<1>10. x \in Int /\ x >= 0 /\ x <= elapsed /\ elapsed < x + r
    BY <1>1, <1>8
<1> HIDE DEF x
<1>11. f.last + x <= redisTime + Skew /\ f.last + x >= redisTime - Lag - r + 1
    BY <1>1, <1>2, <1>3, <1>4, <1>6, <1>7, <1>10
<1>12. upTo = f.last + x
    BY DEF x
<1> HIDE DEF more, upTo
<1> QED
    BY <1>5, <1>9, <1>11, <1>12

\* The script on a key leaves every key in order.
LEMMA RunScriptKeeps ==
    ASSUME AdmissionInv, NEW k \in Keys, NEW noted, Noted(noted), RunScript(k, noted),
           redisTime' = redisTime
    PROVE  /\ bucket' \in [Keys -> [tokens : Int, last : Int, expires : Int]]
           /\ charges' \in [Keys -> Seq(Int)]
           /\ \A q \in Keys : KeyInv(q)'
<1> DEFINE l == Limit(k)
           r == Refill(k)
           b == Refilled(k, noted)
           gave == IF Gives(b) THEN b.tokens - 1 ELSE b.tokens
           log == IF Gives(b) THEN Append(charges[k], redisTime) ELSE charges[k]
           entry == [tokens |-> gave, last |-> b.last, expires |-> redisTime + Ttl(k)]
<1>1. /\ l \in Nat \ {0} /\ r \in Nat \ {0} /\ Ttl(k) \in Nat
      /\ Lag \in Nat /\ Skew \in Nat /\ Slack = Lag + Skew
    BY KeyBounds
<1>2. /\ redisTime \in Nat /\ charges[k] \in Seq(Int) /\ KeyInv(k)
      /\ bucket \in [Keys -> [tokens : Int, last : Int, expires : Int]]
      /\ charges \in [Keys -> Seq(Int)]
    BY DEF AdmissionInv
<1>3. /\ Filled(l, r, b.tokens, b.last, charges[k])
      /\ b.last <= redisTime + Skew /\ b.last >= redisTime - Lag - r + 1
    BY RefilledIsFilled
<1>4. b.tokens \in 0..l /\ b.last \in Int
    BY <1>3 DEF Filled
<1>5. /\ bucket' = [bucket EXCEPT ![k] = entry]
      /\ charges' = [charges EXCEPT ![k] = log]
    <2>1. bucket' = [bucket EXCEPT ![k] = entry]
        BY DEF RunScript
    <2>2. charges' = IF Gives(b) THEN [charges EXCEPT ![k] = Append(charges[k], redisTime)]
                     ELSE charges
        BY DEF RunScript
    <2>3. charges = [charges EXCEPT ![k] = charges[k]]
        BY <1>2
    <2> HIDE DEF b
    <2> QED
        BY <2>1, <2>2, <2>3
<1> HIDE DEF b
<1>6. Filled(l, r, gave, b.last, log) /\ Within(l, r, log)
    <2>1. Within(l, r, charges[k])
        BY <1>2 DEF KeyInv
    <2>2. CASE Gives(b)
        <3>0. b.tokens > 0 /\ redisTime \in Int
            BY <1>2, <2>2 DEF Gives
        <3> HIDE DEF l, r
        <3>1. Filled(l, r, b.tokens - 1, b.last, Append(charges[k], redisTime))
            BY <1>1, <1>3, <3>0, GiveKeepsFilled
        <3>2. Within(l, r, Append(charges[k], redisTime))
            BY <1>1, <1>2, <1>3, <2>1, <3>1, GiveKeepsWithin
        <3> QED
            BY <2>2, <3>1, <3>2
    <2>3. CASE ~Gives(b)
        BY <1>3, <2>1, <2>3
    <2> QED
        BY <2>2, <2>3
<1> HIDE DEF gave, log
<1>7. gave \in Int /\ gave # -1 /\ log \in Seq(Int)
    BY <1>1, <1>6 DEF Filled
<1>8. entry \in [tokens : Int, last : Int, expires : Int]
    BY <1>1, <1>2, <1>4, <1>7
<1>9. /\ bucket' \in [Keys -> [tokens : Int, last : Int, expires : Int]]
      /\ charges' \in [Keys -> Seq(Int)]
    BY <1>2, <1>5, <1>7, <1>8
<1>10. KeyInv(k)'
    <2>1. /\ bucket'[k].tokens = gave /\ bucket'[k].last = b.last
          /\ bucket'[k].expires = redisTime + Ttl(k) /\ charges'[k] = log
        BY <1>2, <1>5
    <2>2. /\ bucket'[k].last <= bucket'[k].expires - Ttl(k) + Skew
          /\ bucket'[k].expires <= redisTime + Ttl(k)
        BY <1>1, <1>2, <1>3, <1>4, <2>1
    <2>3. Filled(l, r, bucket'[k].tokens, bucket'[k].last, charges'[k])
          /\ Within(l, r, charges'[k])
        BY <1>6, <2>1
    <2> HIDE DEF l, r
    <2> QED
        BY <1>7, <2>1, <2>2, <2>3 DEF KeyInv, l, r
<1>11. ASSUME NEW q \in Keys, q # k PROVE KeyInv(q)'
    <2>1. bucket'[q] = bucket[q] /\ charges'[q] = charges[q]
        BY <1>2, <1>5, <1>11
    <2>2. KeyInv(q)
        BY DEF AdmissionInv
    <2> QED
        BY <2>1, <2>2 DEF KeyInv
<1> QED
    BY <1>9, <1>10, <1>11

\* A call charges a key of its tenant, at a time that is not too far off.
LEMMA CallsKey ==
    ASSUME AdmissionInv, NEW c \in Calls, apiCall[c].pc # "idle"
    PROVE  KeyOf(c) \in Keys /\ Noted(apiCall[c].noted)
<1>1. CallAge(c) /\ redisTime \in Nat
    BY DEF AdmissionInv
<1>2. Noted(apiCall[c].noted)
    <2>1. Skew \in Nat /\ MaxDelay \in Nat
        BY KeyBounds
    <2> QED
        BY <1>1, <2>1 DEF CallAge, Noted, Lag
<1>3. KeyOf(c) \in Keys
    BY <1>1 DEF CallAge, KeyOf, Keys, TenantKeys, UserKeys
<1> QED
    BY <1>2, <1>3

\* A call is charged, refused or fails at a script.
LEMMA ScriptsKeep ==
    ASSUME AdmissionInv, NEW c \in Calls, Charge(c) \/ Refuse(c) \/ ScriptFails(c)
    PROVE  AdmissionInv'
<1>1. apiCall[c].pc # "idle" /\ redisTime' = redisTime
    BY DEF Charge, Refuse, ScriptFails
<1>2. KeyOf(c) \in Keys /\ Noted(apiCall[c].noted)
    BY <1>1, CallsKey
<1>3. /\ bucket' \in [Keys -> [tokens : Int, last : Int, expires : Int]]
      /\ charges' \in [Keys -> Seq(Int)]
      /\ \A k \in Keys : KeyInv(k)'
    <2>1. CASE RunScript(KeyOf(c), apiCall[c].noted)
        BY <1>1, <1>2, <2>1, RunScriptKeeps
    <2>2. CASE UNCHANGED <<bucket, charges>>
        BY <1>1, <2>2 DEF AdmissionInv, KeyInv
    <2> QED
        BY <2>1, <2>2 DEF Charge, Refuse, ScriptFails
<1>4. \/ apiCall' = [apiCall EXCEPT ![c] = Ended]
      \/ apiCall' = [apiCall EXCEPT ![c] = [apiCall[c] EXCEPT !.pc = "user"]]
    BY DEF Charge, Refuse, ScriptFails
<1>5. DOMAIN apiCall = Calls /\ \A d \in Calls : CallAge(d)
    BY DEF AdmissionInv
<1>6. DOMAIN apiCall' = Calls /\ \A d \in Calls \ {c} : apiCall'[d] = apiCall[d]
    BY <1>4, <1>5
<1>7. CallAge(c)'
    <2>1. CASE apiCall' = [apiCall EXCEPT ![c] = Ended]
        <3>1. apiCall'[c] = Ended /\ Ended.pc = "idle"
            BY <1>5, <2>1 DEF Ended
        <3> QED
            BY <3>1 DEF CallAge
    <2>2. CASE apiCall' = [apiCall EXCEPT ![c] = [apiCall[c] EXCEPT !.pc = "user"]]
        <3>1. apiCall'[c] = [apiCall[c] EXCEPT !.pc = "user"]
            BY <1>5, <2>2
        <3>2. /\ apiCall'[c].tenant = apiCall[c].tenant
              /\ apiCall'[c].permission = apiCall[c].permission
              /\ apiCall'[c].subject = apiCall[c].subject
              /\ apiCall'[c].noted = apiCall[c].noted /\ apiCall'[c].began = apiCall[c].began
            BY <3>1
        <3>3. apiCall'[c].pc \in {"tenant", "user"}
            BY <1>1, <1>5, <3>1 DEF CallAge
        <3> QED
            BY <1>1, <1>5, <3>2, <3>3 DEF CallAge
    <2> QED
        BY <1>4, <2>1, <2>2
<1>8. \A d \in Calls : CallAge(d)'
    BY <1>1, <1>5, <1>6, <1>7 DEF CallAge
<1> QED
    BY <1>1, <1>3, <1>6, <1>8 DEF AdmissionInv

\* A call arrives with a time of its own.
LEMMA EnterKeeps ==
    ASSUME AdmissionInv, NEW c \in Calls, Enter(c)
    PROVE  AdmissionInv'
<1>1. PICK t \in Tokens, permission \in Permissions, tenant \in TenantIds,
           off \in (-Skew)..Skew :
          apiCall' = [apiCall EXCEPT ![c] =
             [pc |-> "tenant", tenant |-> tenant, subject |-> SubjectOf(t),
              permission |-> permission, noted |-> redisTime + off, began |-> redisTime]]
    BY DEF Enter
<1>2. UNCHANGED <<redisTime, bucket, charges>> /\ redisTime \in Nat
      /\ DOMAIN apiCall = Calls
    BY DEF Enter, AdmissionInv
<1>3. /\ DOMAIN apiCall' = Calls /\ \A d \in Calls \ {c} : apiCall'[d] = apiCall[d]
      /\ apiCall'[c] = [pc |-> "tenant", tenant |-> tenant, subject |-> SubjectOf(t),
             permission |-> permission, noted |-> redisTime + off, began |-> redisTime]
    BY <1>1, <1>2
<1>4. CallAge(c)'
    <2>1. Skew \in Nat /\ MaxDelay \in Nat
        BY KeyBounds
    <2>2. SubjectOf(t) \in Subjects
        BY DEF Subjects
    <2>3. /\ apiCall'[c].noted = redisTime + off /\ apiCall'[c].began = redisTime
          /\ apiCall'[c].pc = "tenant" /\ apiCall'[c].tenant = tenant
          /\ apiCall'[c].subject = SubjectOf(t) /\ apiCall'[c].permission = permission
        BY <1>3
    <2>4. /\ off \in Int /\ -Skew <= off /\ off <= Skew
        BY <2>1
    <2> QED
        BY <1>2, <2>1, <2>2, <2>3, <2>4 DEF CallAge
<1>5. \A d \in Calls : CallAge(d)'
    BY <1>2, <1>3, <1>4 DEF AdmissionInv, CallAge
<1>6. \A k \in Keys : KeyInv(k)'
    BY <1>2 DEF AdmissionInv, KeyInv
<1> QED
    BY <1>2, <1>3, <1>5, <1>6 DEF AdmissionInv

\* Redis' clock goes on, past no call's life.
LEMMA ElapseKeeps ==
    ASSUME AdmissionInv, Elapse
    PROVE  AdmissionInv'
<1>1. /\ redisTime' = redisTime + 1 /\ UNCHANGED <<bucket, apiCall, charges>>
      /\ redisTime \in Nat
      /\ \A c \in Calls : apiCall[c].pc # "idle" => redisTime < apiCall[c].began + MaxDelay
    BY DEF Elapse, AdmissionInv
<1>2. ASSUME NEW c \in Calls PROVE CallAge(c)'
    <2>1. CallAge(c) /\ MaxDelay \in Nat
        BY KeyBounds DEF AdmissionInv
    <2> QED
        BY <1>1, <2>1 DEF CallAge
<1>3. ASSUME NEW k \in Keys PROVE KeyInv(k)'
    <2>1. /\ KeyInv(k) /\ Ttl(k) \in Nat /\ bucket[k].expires \in Int
        BY KeyBounds DEF AdmissionInv
    <2>2. bucket[k].expires <= redisTime + Ttl(k) => bucket[k].expires <= redisTime' + Ttl(k)
        BY <1>1, <2>1
    <2> QED
        BY <1>1, <2>1, <2>2 DEF KeyInv
<1> QED
    BY <1>1, <1>2, <1>3 DEF AdmissionInv

\* The buckets, their logs and the calls fit each other.
THEOREM AdmissionInvariant == AdmissionSpec => []AdmissionInv
<1>1. AdmissionInit => AdmissionInv
    <2> SUFFICES ASSUME AdmissionInit PROVE AdmissionInv
        OBVIOUS
    <2>1. NoKey \in [tokens : Int, last : Int, expires : Int] /\ NoKey.tokens = -1
        BY DEF NoKey
    <2>2. \A k \in Keys : KeyInv(k)
        BY <2>1 DEF AdmissionInit, KeyInv, Within
    <2>3. \A c \in Calls : CallAge(c)
        BY DEF AdmissionInit, CallAge, Ended
    <2> QED
        BY <2>1, <2>2, <2>3 DEF AdmissionInit, AdmissionInv
<1>2. AdmissionInv /\ [AdmissionNext]_admission => AdmissionInv'
    <2> SUFFICES ASSUME AdmissionInv, [AdmissionNext]_admission PROVE AdmissionInv'
        OBVIOUS
    <2>1. CASE UNCHANGED admission
        BY <2>1 DEF admission, AdmissionInv, KeyInv, CallAge
    <2>2. ASSUME NEW c \in Calls, Enter(c) PROVE AdmissionInv'
        BY <2>2, EnterKeeps
    <2>3. ASSUME NEW c \in Calls, Charge(c) \/ Refuse(c) \/ ScriptFails(c)
          PROVE  AdmissionInv'
        BY <2>3, ScriptsKeep
    <2>4. CASE Elapse
        BY <2>4, ElapseKeeps
    <2> QED
        BY <2>1, <2>2, <2>3, <2>4 DEF AdmissionNext
<1> QED
    BY <1>1, <1>2, PTL DEF AdmissionSpec

\* Every bucket stays within its limit and rate over any stretch of its log
\* (AdmissionBounded), for any limits, and for delays and clock skews that add
\* up to at most a second (AdmissionAssumption), which no line of the code sees
\* to: with longer ones a key may expire that is not full again.
THEOREM BucketsAreBounded == AdmissionSpec => []AdmissionBounded
<1>1. AdmissionInv => AdmissionBounded
    BY DEF AdmissionInv, KeyInv, Within, AdmissionBounded
<1> QED
    BY <1>1, AdmissionInvariant, PTL

\* A bucket that is empty after a refill gave its limit not long ago.
LEMMA EmptyGaveItsLimit ==
    ASSUME AdmissionInv, NEW k \in Keys, NEW noted, Noted(noted),
           ~Gives(Refilled(k, noted))
    PROVE  Cardinality({i \in 1..Len(charges[k]) :
                          charges[k][i] >= redisTime - FullAgain(k)}) >= Limit(k)
<1> DEFINE l == Limit(k)
           r == Refill(k)
           b == Refilled(k, noted)
           log == charges[k]
           n == Len(log)
           recent == {i \in 1..n : log[i] >= redisTime - FullAgain(k)}
<1>1. /\ l \in Nat \ {0} /\ r \in Nat \ {0} /\ Lag \in Nat /\ Skew \in Nat
      /\ Slack = Lag + Skew
    BY KeyBounds
<1>2. /\ Filled(l, r, b.tokens, b.last, log) /\ b.last >= redisTime - Lag - r + 1
    BY RefilledIsFilled
<1>3. /\ redisTime \in Nat /\ log \in Seq(Int) /\ n \in Nat
    BY DEF AdmissionInv
<1>4. b.tokens = 0 /\ b.last \in Int
    BY <1>1, <1>2 DEF Filled, Gives
<1>5. \A m \in 1..l : m <= n /\ log[n - m + 1] >= b.last - (m - 1) * r - Skew
    <2>1. l - b.tokens = l
        BY <1>1, <1>4
    <2>2. \A m \in Nat : m - 1 + b.tokens = m - 1
        BY <1>4
    <2> HIDE DEF b, l, r, log
    <2>3. \A m \in 1..l :
              m <= n /\ log[n - m + 1] >= b.last - (m - 1 + b.tokens) * r - Skew
        BY <1>2, <2>1 DEF Filled
    <2>4. \A m \in 1..l : m \in Nat
        BY <1>1
    <2> QED
        BY <2>2, <2>3, <2>4
<1> HIDE DEF b
<1>6. l <= n
    BY <1>1, <1>5
<1>7. ASSUME NEW i \in (n - l + 1)..n PROVE i \in recent
    <2> DEFINE m == n - i + 1
    <2>0. i \in Int /\ n - l + 1 <= i /\ i <= n /\ l \in Int /\ n \in Int /\ l <= n
        BY <1>1, <1>3, <1>6, <1>7
    <2>1. m \in 1..l /\ n - m + 1 = i /\ i \in 1..n /\ log[i] \in Int
        <3>1. i \in 1..n
            <4> HIDE DEF n, l
            <4> QED
                BY <2>0
        <3>2. log[i] \in Int
            BY <1>3, <3>1
        <3> HIDE DEF n, l
        <3>3. m \in 1..l /\ n - m + 1 = i
            BY <2>0
        <3> QED
            BY <3>1, <3>2, <3>3
    <2> HIDE DEF m
    <2>2. log[i] >= b.last - (m - 1) * r - Skew
        BY <1>5, <2>1
    <2>3. (m - 1) * r <= (l - 1) * r
        <3>1. m - 1 \in Int /\ l - 1 \in Int /\ m - 1 <= l - 1 /\ r \in Nat
            BY <1>1, <2>1
        <3> DEFINE d == m - 1
                   e == l - 1
        <3> HIDE DEF d, e, r, l
        <3>2. d * r <= e * r
            BY <3>1 DEF d, e
        <3> QED
            BY <3>2 DEF d, e
    <2>4. (l - 1) * r = l * r - r
        BY <1>1
    <2>5. FullAgain(k) = l * r + Slack
        BY DEF FullAgain
    <2> DEFINE x == (m - 1) * r
               y == l * r
               g == log[i]
               last == b.last
    <2>6. x \in Int /\ y \in Int
        BY <1>1, <2>1
    <2>7. x <= y - r
        BY <2>3, <2>4
    <2>8. r \in Int /\ Lag \in Int /\ Skew \in Int /\ Slack = Lag + Skew
        BY <1>1
    <2>9. /\ g \in Int /\ last \in Int /\ redisTime \in Int
          /\ g >= last - x - Skew /\ last >= redisTime - Lag - r + 1
          /\ FullAgain(k) = y + Slack
        BY <1>2, <1>3, <1>4, <2>1, <2>2, <2>5
    <2> HIDE DEF x, y, g, last, l, r
    <2>10. g >= redisTime - (y + Slack)
        BY <2>6, <2>7, <2>8, <2>9
    <2> QED
        BY <2>1, <2>9, <2>10 DEF g
<1>8. /\ IsFiniteSet((n - l + 1)..n) /\ Cardinality((n - l + 1)..n) = l
    <2> DEFINE first == n - l + 1
    <2>1. first \in Int /\ n \in Int /\ ~(first > n) /\ n - first + 1 = l
        BY <1>1, <1>3
    <2> HIDE DEF first, n, l
    <2>2. IsFiniteSet(first..n) /\ Cardinality(first..n) = n - first + 1
        BY <2>1, FS_Interval
    <2> QED
        BY <2>1, <2>2 DEF first
<1>9. IsFiniteSet(1..n) /\ recent \subseteq 1..n
    BY <1>3, FS_Interval
<1>10. IsFiniteSet(recent)
    BY <1>9, FS_Subset
<1>11. (n - l + 1)..n \subseteq recent
    BY <1>7
<1> HIDE DEF recent
<1>12. /\ Cardinality((n - l + 1)..n) <= Cardinality(recent)
    BY <1>10, <1>11, FS_Subset
<1>13. Cardinality(recent) \in Nat
    BY <1>10, FS_CardinalityType
<1> QED
    BY <1>1, <1>8, <1>12, <1>13 DEF recent

\* Nobody is refused by a bucket that had time to fill (RefusalsJustified),
\* under the same bound on delays and skews.
THEOREM RefusalsAreJustified == AdmissionSpec => RefusalsJustified
<1>1. ASSUME AdmissionInv, NEW c \in Calls, Refuse(c)
      PROVE  LET k == KeyOf(c) IN
             Cardinality({i \in 1..Len(charges[k]) :
                             charges[k][i] >= redisTime - FullAgain(k)}) >= Limit(k)
    <2>1. apiCall[c].pc # "idle" /\ ~Gives(Refilled(KeyOf(c), apiCall[c].noted))
        BY <1>1 DEF Refuse
    <2>2. KeyOf(c) \in Keys /\ Noted(apiCall[c].noted)
        BY <1>1, <2>1, CallsKey
    <2> QED
        BY <1>1, <2>1, <2>2, EmptyGaveItsLimit
<1>2. AdmissionInv =>
          [\A c \in Calls : Refuse(c) =>
              LET k == KeyOf(c) IN
              Cardinality({i \in 1..Len(charges[k]) :
                              charges[k][i] >= redisTime - FullAgain(k)}) >= Limit(k)]_admission
    BY <1>1
<1> QED
    BY <1>2, AdmissionInvariant, PTL DEF RefusalsJustified

-----------------------------------------------------------------------------
(* storage/in_memory_store.py, services/retrieval.py                       *)

Requests == Queries \cup {NoRetrieval.request}

\* The walk of a retrieval that no reload disturbed: the list is the one it began
\* with, for a reload that extends it would have cleared it before, and while
\* nothing is found nothing that was passed is a candidate.
WalkInv(q) ==
    retriever[q].pc # "rest" /\ ~retriever[q].disturbed =>
        /\ \A w \in Reloaders : reloader[w].pc # "cleared"
        /\ retriever[q].pc \in {"section", "tenant"} /\ retriever[q].found = <<>> =>
              \A i \in DOMAIN chunkList : i < retriever[q].index => ~Candidate(q, chunkList[i])
        /\ retriever[q].pc = "found" /\ retriever[q].found = <<>> =>
              \A i \in DOMAIN chunkList : chunkList[i].tenant # retriever[q].request.tenant

ReloaderStates == [pc : {"rest", "loaded", "cleared"}, loaded : Seq(Chunks)]
RetrieverStates == [pc : {"rest", "section", "tenant", "found"}, request : Requests,
                    index : Nat \ {0}, found : Seq(Chunks), disturbed : BOOLEAN]

ChunkStoreInv ==
    /\ file \in Seq(Chunks) /\ chunkList \in Seq(Chunks)
    /\ reloader \in [Reloaders -> ReloaderStates]
    /\ retriever \in [Retrievers -> RetrieverStates]
    /\ \A q \in Retrievers : WalkInv(q)

\* What is at rest.
LEMMA RestStates ==
    /\ NoReload \in ReloaderStates /\ NoReload.pc = "rest" /\ NoReload.loaded = <<>>
    /\ NoRetrieval \in RetrieverStates /\ NoRetrieval.pc = "rest"
BY DEF NoReload, NoRetrieval, ReloaderStates, RetrieverStates, Requests

\* A step that leaves the list and the threads alone, or moves one reloader to a
\* state in which it has not just cleared, leaves the walks as they are.
LEMMA WalksStay ==
    ASSUME ChunkStoreInv, UNCHANGED <<chunkList, retriever>>,
           \A w \in Reloaders : reloader'[w].pc = "cleared" => reloader[w].pc = "cleared"
    PROVE  \A q \in Retrievers : WalkInv(q)'
<1> SUFFICES ASSUME NEW q \in Retrievers PROVE WalkInv(q)'
    OBVIOUS
<1>1. WalkInv(q)
    BY DEF ChunkStoreInv
<1>2. \A chunk : Candidate(q, chunk)' = Candidate(q, chunk)
    BY DEF Candidate
<1> QED
    BY <1>1, <1>2 DEF WalkInv, Candidate

\* The file is edited or loaded.
LEMMA EditLoadKeep ==
    ASSUME ChunkStoreInv, EditFile \/ (\E w \in Reloaders : Load(w))
    PROVE  ChunkStoreInv'
<1>1. Versions \subseteq Seq(Chunks)
    BY ChunkStoreAssumption DEF ChunkStoreAssumption
<1>2. UNCHANGED <<chunkList, retriever>> /\ file' \in Seq(Chunks)
    <2>1. <<>> \in Seq(Chunks) /\ file \in Seq(Chunks)
        BY DEF ChunkStoreInv
    <2>2. CASE EditFile
        BY <1>1, <2>1, <2>2 DEF EditFile
    <2>3. ASSUME NEW w \in Reloaders, Load(w)
          PROVE  UNCHANGED <<file, chunkList, retriever>>
        BY <2>3 DEF Load
    <2> QED
        BY <2>1, <2>2, <2>3
<1>3. /\ reloader' \in [Reloaders -> ReloaderStates]
      /\ \A w \in Reloaders : reloader'[w].pc = "cleared" => reloader[w].pc = "cleared"
    <2>1. CASE EditFile
        BY <2>1 DEF EditFile, ChunkStoreInv
    <2>2. ASSUME NEW w \in Reloaders, Load(w)
          PROVE  /\ reloader' \in [Reloaders -> ReloaderStates]
                 /\ \A v \in Reloaders : reloader'[v].pc = "cleared" => reloader[v].pc = "cleared"
        <3>1. reloader' = [reloader EXCEPT ![w] = [pc |-> "loaded", loaded |-> file]]
            BY <2>2 DEF Load
        <3>2. [pc |-> "loaded", loaded |-> file] \in ReloaderStates
            BY DEF ChunkStoreInv, ReloaderStates
        <3> QED
            BY <3>1, <3>2 DEF ChunkStoreInv
    <2> QED
        BY <2>1, <2>2
<1>4. \A q \in Retrievers : WalkInv(q)'
    BY <1>2, <1>3, WalksStay
<1> QED
    BY <1>2, <1>3, <1>4 DEF ChunkStoreInv

\* The list is cleared: every retrieval under way is disturbed.
LEMMA ClearKeeps ==
    ASSUME ChunkStoreInv, NEW w \in Reloaders, Clear(w)
    PROVE  ChunkStoreInv'
<1>1. /\ chunkList' = <<>> /\ UNCHANGED file
      /\ reloader' = [reloader EXCEPT ![w] = [reloader[w] EXCEPT !.pc = "cleared"]]
      /\ retriever' = [q \in Retrievers |->
            [retriever[q] EXCEPT !.disturbed = retriever[q].disturbed \/ retriever[q].pc # "rest"]]
    BY DEF Clear, Cleared
<1>2. reloader' \in [Reloaders -> ReloaderStates]
    <2>1. reloader[w] \in ReloaderStates
        BY DEF ChunkStoreInv
    <2>2. [reloader[w] EXCEPT !.pc = "cleared"] \in ReloaderStates
        BY <2>1 DEF ReloaderStates
    <2> QED
        BY <1>1, <2>2 DEF ChunkStoreInv
<1>3. ASSUME NEW q \in Retrievers
      PROVE  retriever'[q] \in RetrieverStates /\ WalkInv(q)'
    <2>1. retriever[q] \in RetrieverStates
        BY DEF ChunkStoreInv
    <2>2. retriever'[q] = [retriever[q] EXCEPT
                              !.disturbed = retriever[q].disturbed \/ retriever[q].pc # "rest"]
        BY <1>1
    <2>3. /\ retriever'[q] \in RetrieverStates /\ retriever'[q].pc = retriever[q].pc
          /\ retriever'[q].disturbed = (retriever[q].disturbed \/ retriever[q].pc # "rest")
        BY <2>1, <2>2 DEF RetrieverStates
    <2>4. WalkInv(q)'
        BY <2>3 DEF WalkInv
    <2> QED
        BY <2>3, <2>4
<1>4. retriever' \in [Retrievers -> RetrieverStates]
    BY <1>1, <1>3
<1>5. chunkList' \in Seq(Chunks)
    BY <1>1
<1> QED
    BY <1>1, <1>2, <1>3, <1>4, <1>5 DEF ChunkStoreInv

\* The list is extended, after a clear: no retrieval under way is undisturbed.
LEMMA ExtendKeeps ==
    ASSUME ChunkStoreInv, NEW w \in Reloaders, Extend(w)
    PROVE  ChunkStoreInv'
<1>1. /\ reloader[w].pc = "cleared" /\ chunkList' = chunkList \o reloader[w].loaded
      /\ reloader' = [reloader EXCEPT ![w] = NoReload] /\ UNCHANGED <<file, retriever>>
    BY DEF Extend
<1>2. chunkList' \in Seq(Chunks)
    <2>1. reloader[w].loaded \in Seq(Chunks) /\ chunkList \in Seq(Chunks)
        BY DEF ChunkStoreInv, ReloaderStates
    <2> QED
        BY <1>1, <2>1
<1>3. reloader' \in [Reloaders -> ReloaderStates]
    BY <1>1, RestStates DEF ChunkStoreInv
<1>4. \A q \in Retrievers : WalkInv(q)'
    BY <1>1 DEF ChunkStoreInv, WalkInv
<1> QED
    BY <1>1, <1>2, <1>3, <1>4 DEF ChunkStoreInv

\* One retrieval moves: what has to be shown of it.
LEMMA RetrieverStep ==
    ASSUME ChunkStoreInv, NEW q \in Retrievers, NEW to \in RetrieverStates,
           retriever' = [retriever EXCEPT ![q] = to],
           UNCHANGED <<file, chunkList, reloader>>, WalkInv(q)'
    PROVE  ChunkStoreInv'
<1>1. ASSUME NEW p \in Retrievers, p # q PROVE WalkInv(p)'
    <2>1. retriever'[p] = retriever[p] /\ WalkInv(p)
        BY <1>1 DEF ChunkStoreInv
    <2> QED
        BY <2>1 DEF WalkInv, Candidate
<1>2. retriever' \in [Retrievers -> RetrieverStates]
    BY DEF ChunkStoreInv
<1> QED
    BY <1>1, <1>2 DEF ChunkStoreInv

\* A retrieval begins, at the head of the list.
LEMMA BeginRetrievalKeeps ==
    ASSUME ChunkStoreInv, NEW q \in Retrievers, BeginRetrieval(q)
    PROVE  ChunkStoreInv'
<1>1. PICK r \in Queries :
          retriever' = [retriever EXCEPT ![q] =
              [NoRetrieval EXCEPT !.pc = "section", !.request = r,
                  !.disturbed = \E w \in Reloaders : reloader[w].pc = "cleared"]]
    BY DEF BeginRetrieval
<1> DEFINE felt == \E w \in Reloaders : reloader[w].pc = "cleared"
           to == [NoRetrieval EXCEPT !.pc = "section", !.request = r, !.disturbed = felt]
<1>2. retriever' = [retriever EXCEPT ![q] = to]
    BY <1>1
<1> HIDE DEF felt
<1>0. felt \in BOOLEAN
    BY DEF felt
<1>3. /\ to \in RetrieverStates /\ to.pc = "section" /\ to.index = 1
      /\ to.disturbed = felt
    <2> DEFINE start == [NoRetrieval EXCEPT !.pc = "section"]
               asked == [start EXCEPT !.request = r]
    <2>1. start \in RetrieverStates /\ start.pc = "section" /\ start.index = 1
        <3>1. NoRetrieval \in RetrieverStates /\ NoRetrieval.index = 1
            BY RestStates DEF NoRetrieval
        <3> QED
            BY <3>1 DEF RetrieverStates
    <2>2. to = [asked EXCEPT !.disturbed = felt]
        OBVIOUS
    <2> HIDE DEF to, start
    <2>3. asked \in RetrieverStates /\ asked.pc = "section" /\ asked.index = 1
        BY <2>1 DEF RetrieverStates, Requests
    <2> HIDE DEF asked
    <2> QED
        BY <1>0, <2>2, <2>3 DEF RetrieverStates
<1> HIDE DEF to
<1>4. retriever'[q] = to
    BY <1>2 DEF ChunkStoreInv
<1>5. UNCHANGED <<file, chunkList, reloader>>
    BY DEF BeginRetrieval
<1>6. WalkInv(q)'
    <2>1. /\ retriever'[q].pc = "section" /\ retriever'[q].index = 1
          /\ retriever'[q].disturbed = felt
        BY <1>3, <1>4
    <2>2. \A i \in DOMAIN chunkList : ~(i < 1)
        BY DEF ChunkStoreInv
    <2> QED
        BY <1>5, <2>1, <2>2 DEF WalkInv, felt
<1> QED
    BY <1>2, <1>3, <1>5, <1>6, RetrieverStep

\* One turn of the walk.
LEMMA WalkKeeps ==
    ASSUME ChunkStoreInv, NEW q \in Retrievers, Walk(q)
    PROVE  ChunkStoreInv'
<1> DEFINE chunk == chunkList[retriever[q].index]
           found == IF Candidate(q, chunk) THEN Append(retriever[q].found, chunk)
                    ELSE retriever[q].found
           to == [retriever[q] EXCEPT !.index = retriever[q].index + 1, !.found = found]
<1>1. /\ retriever[q].pc \in {"section", "tenant"} /\ retriever[q].index <= Len(chunkList)
      /\ UNCHANGED <<file, chunkList, reloader>> /\ retriever' = [retriever EXCEPT ![q] = to]
    BY DEF Walk
<1>2. /\ retriever[q] \in RetrieverStates /\ chunkList \in Seq(Chunks) /\ WalkInv(q)
      /\ retriever \in [Retrievers -> RetrieverStates]
    BY DEF ChunkStoreInv
<1>3. /\ retriever[q].index \in Nat \ {0} /\ retriever[q].index \in DOMAIN chunkList
      /\ chunk \in Chunks /\ retriever[q].found \in Seq(Chunks)
    BY <1>1, <1>2 DEF RetrieverStates
<1>4. found \in Seq(Chunks)
    BY <1>3
<1>5. found = <<>> => ~Candidate(q, chunk) /\ retriever[q].found = <<>>
    BY <1>3
<1> HIDE DEF chunk, found
<1>6. /\ to \in RetrieverStates /\ to.pc = retriever[q].pc /\ to.found = found
      /\ to.request = retriever[q].request /\ to.disturbed = retriever[q].disturbed
      /\ to.index = retriever[q].index + 1
    <2> DEFINE mid == [retriever[q] EXCEPT !.index = retriever[q].index + 1]
    <2>1. retriever[q].index + 1 \in Nat \ {0}
        BY <1>3
    <2>2. /\ mid \in RetrieverStates /\ mid.pc = retriever[q].pc
          /\ mid.request = retriever[q].request /\ mid.disturbed = retriever[q].disturbed
          /\ mid.index = retriever[q].index + 1
        BY <1>2, <2>1 DEF RetrieverStates
    <2>3. to = [mid EXCEPT !.found = found]
        OBVIOUS
    <2> HIDE DEF to, mid
    <2>4. /\ to.pc = mid.pc /\ to.found = found /\ to.index = mid.index
          /\ to.request = mid.request /\ to.disturbed = mid.disturbed
        BY <2>2, <2>3 DEF RetrieverStates
    <2>5. to \in RetrieverStates
        BY <1>4, <2>2, <2>3 DEF RetrieverStates
    <2> QED
        BY <2>2, <2>4, <2>5
<1> HIDE DEF to
<1>7. retriever'[q] = to
    BY <1>1, <1>2
<1>8. WalkInv(q)'
    <2>1. \A c : Candidate(q, c)' <=> Candidate(q, c)
        BY <1>6, <1>7 DEF Candidate
    <2>2. ASSUME ~to.disturbed, to.found = <<>>, NEW i \in DOMAIN chunkList, i < to.index
          PROVE  ~Candidate(q, chunkList[i])
        <3>1. CASE i = retriever[q].index
            BY <1>5, <1>6, <2>2, <3>1 DEF chunk
        <3>2. CASE i # retriever[q].index
            <4>1. i < retriever[q].index
                BY <1>2, <1>3, <1>6, <2>2, <3>2
            <4> QED
                BY <1>1, <1>2, <1>5, <1>6, <2>2, <4>1 DEF WalkInv
        <3> QED
            BY <3>1, <3>2
    <2>3. ~to.disturbed => \A w \in Reloaders : reloader[w].pc # "cleared"
        BY <1>1, <1>2, <1>6 DEF WalkInv
    <2>4. to.pc # "found"
        BY <1>1, <1>6
    <2> QED
        BY <1>1, <1>6, <1>7, <2>1, <2>2, <2>3, <2>4 DEF WalkInv
<1> QED
    BY <1>1, <1>6, <1>8, RetrieverStep

\* A walk ends, and another or the answer follows.
LEMMA EndWalkKeeps ==
    ASSUME ChunkStoreInv, NEW q \in Retrievers, EndWalk(q)
    PROVE  ChunkStoreInv'
<1> DEFINE to == [retriever[q] EXCEPT !.pc = NextPass(q), !.index = 1]
<1>1. /\ retriever[q].pc \in {"section", "tenant"} /\ retriever[q].index > Len(chunkList)
      /\ UNCHANGED <<file, chunkList, reloader>> /\ retriever' = [retriever EXCEPT ![q] = to]
    BY DEF EndWalk
<1>2. /\ retriever[q] \in RetrieverStates /\ chunkList \in Seq(Chunks) /\ WalkInv(q)
      /\ retriever \in [Retrievers -> RetrieverStates]
    BY DEF ChunkStoreInv
<1>3. /\ NextPass(q) \in {"tenant", "found"}
      /\ NextPass(q) = "found" /\ retriever[q].found = <<>> =>
            retriever[q].pc = "tenant" \/ retriever[q].request.section = AnySection
    BY <1>1 DEF NextPass
<1>4. /\ to \in RetrieverStates /\ to.pc = NextPass(q) /\ to.found = retriever[q].found
      /\ to.request = retriever[q].request /\ to.disturbed = retriever[q].disturbed
      /\ to.index = 1
    <2> DEFINE mid == [retriever[q] EXCEPT !.pc = NextPass(q)]
    <2>1. /\ mid \in RetrieverStates /\ mid.pc = NextPass(q) /\ mid.found = retriever[q].found
          /\ mid.request = retriever[q].request /\ mid.disturbed = retriever[q].disturbed
        BY <1>2, <1>3 DEF RetrieverStates
    <2>2. to = [mid EXCEPT !.index = 1]
        OBVIOUS
    <2> HIDE DEF to, mid
    <2>3. /\ to.pc = mid.pc /\ to.found = mid.found /\ to.index = 1
          /\ to.request = mid.request /\ to.disturbed = mid.disturbed
        BY <2>1, <2>2 DEF RetrieverStates
    <2>4. to \in RetrieverStates
        BY <2>1, <2>2 DEF RetrieverStates
    <2> QED
        BY <2>1, <2>3, <2>4
<1> HIDE DEF to
<1>5. retriever'[q] = to
    BY <1>1, <1>2
<1>6. WalkInv(q)'
    <2>1. \A i \in DOMAIN chunkList : ~(i < 1) /\ i < retriever[q].index
        BY <1>1, <1>2 DEF RetrieverStates
    <2>2. ASSUME ~to.disturbed, to.pc = "found", to.found = <<>>, NEW i \in DOMAIN chunkList
          PROVE  chunkList[i].tenant # to.request.tenant
        <3>1. ~Candidate(q, chunkList[i])
            BY <1>1, <1>2, <1>4, <2>1, <2>2 DEF WalkInv
        <3> QED
            BY <1>3, <1>4, <2>2, <3>1 DEF Candidate
    <2>3. ~to.disturbed => \A w \in Reloaders : reloader[w].pc # "cleared"
        BY <1>1, <1>2, <1>4 DEF WalkInv
    <2> QED
        BY <1>1, <1>4, <1>5, <2>1, <2>2, <2>3 DEF WalkInv
<1> QED
    BY <1>1, <1>4, <1>6, RetrieverStep

\* The threads, their walks and the list fit each other.
THEOREM ChunkStoreInvariant == ChunkStoreSpec => []ChunkStoreInv
<1>1. ChunkStoreInit => ChunkStoreInv
    BY RestStates, ChunkStoreAssumption
       DEF ChunkStoreInit, ChunkStoreInv, ChunkStoreAssumption, WalkInv
<1>2. ChunkStoreInv /\ [ChunkStoreNext]_chunkStore => ChunkStoreInv'
    <2> SUFFICES ASSUME ChunkStoreInv, [ChunkStoreNext]_chunkStore PROVE ChunkStoreInv'
        OBVIOUS
    <2>1. CASE UNCHANGED chunkStore
        BY <2>1, WalksStay DEF chunkStore, ChunkStoreInv
    <2>2. CASE EditFile
        BY <2>2, EditLoadKeep
    <2>3. ASSUME NEW w \in Reloaders, Load(w) \/ Clear(w) \/ Extend(w) PROVE ChunkStoreInv'
        BY <2>3, EditLoadKeep, ClearKeeps, ExtendKeeps
    <2>4. ASSUME NEW q \in Retrievers, BeginRetrieval(q) \/ Walk(q) \/ EndWalk(q)
          PROVE  ChunkStoreInv'
        BY <2>4, BeginRetrievalKeeps, WalkKeeps, EndWalkKeeps
    <2>5. ASSUME NEW q \in Retrievers, Answer(q) PROVE ChunkStoreInv'
        <3>1. /\ retriever' = [retriever EXCEPT ![q] = NoRetrieval]
              /\ UNCHANGED <<file, chunkList, reloader>>
            BY <2>5 DEF Answer
        <3>2. retriever'[q] = NoRetrieval
            BY <3>1 DEF ChunkStoreInv
        <3>3. WalkInv(q)'
            BY <3>2, RestStates DEF WalkInv
        <3> QED
            BY <3>1, <3>3, RestStates, RetrieverStep
    <2> QED
        BY <2>1, <2>2, <2>3, <2>4, <2>5 DEF ChunkStoreNext
<1> QED
    BY <1>1, <1>2, PTL DEF ChunkStoreSpec

\* A retrieval that found nothing, undisturbed, is of a tenant without chunks
\* (EmptyOnlyIfDisturbed).
THEOREM NothingIsMissed == ChunkStoreSpec => []EmptyOnlyIfDisturbed
<1>1. ChunkStoreInv => EmptyOnlyIfDisturbed
    BY DEF ChunkStoreInv, WalkInv, EmptyOnlyIfDisturbed
<1> QED
    BY <1>1, ChunkStoreInvariant, PTL

\* What is true of 0, and of n + 1 when it is of n, is true of every number.
LEMMA Induction ==
    ASSUME NEW A, 0 \in A, \A n \in Nat : n \in A => n + 1 \in A
    PROVE  Nat \subseteq A
<1> SUFFICES ASSUME NEW k \in Nat, k \notin A PROVE FALSE
    OBVIOUS
<1> DEFINE T == {0..n : n \in Nat \ A}
<1>1. T \subseteq FiniteSubsetsOf(Nat) /\ T # {}
    <2>1. \A n \in Nat : IsFiniteSet(0..n) /\ 0..n \in SUBSET Nat
        BY FS_Interval
    <2> QED
        BY <2>1 DEF FiniteSubsetsOf
<1>2. PICK x \in T : \A y \in T : ~(<<y, x>> \in StrictSubsetOrdering(Nat))
    <2>1. IsWellFoundedOn(StrictSubsetOrdering(Nat), FiniteSubsetsOf(Nat))
        BY FS_StrictSubsetOrderingWellFounded
    <2> HIDE DEF T
    <2> QED
        BY <1>1, <2>1, WFMin
<1>3. PICK m \in Nat \ A : x = 0..m
    BY <1>2
<1>4. m # 0 /\ m - 1 \in Nat /\ (m - 1) + 1 = m
    BY <1>3
<1>5. m - 1 \in Nat \ A
    BY <1>3, <1>4
<1>6. /\ 0..(m - 1) \in T /\ 0..(m - 1) \in SUBSET Nat /\ 0..m \in SUBSET Nat
      /\ 0..(m - 1) \subseteq 0..m /\ 0..(m - 1) # 0..m
    <2>1. m \in 0..m /\ m \notin 0..(m - 1)
        BY <1>4
    <2> QED
        BY <1>4, <1>5, <2>1
<1> QED
    BY <1>2, <1>3, <1>6 DEF StrictSubsetOrdering

\* The function by which FlattenSeq is defined: what the first i sequences make.
Flattens(s, f) == f = [i \in 1..Len(s) |-> IF i = 1 THEN s[i] ELSE f[i - 1] \o s[i]]

Flattened(s) == CHOOSE f : Flattens(s, f)

\* FlattenSeq is the last value of that function.
LEMMA FlattenIs ==
    ASSUME NEW s
    PROVE  FlattenSeq(s) = IF Len(s) = 0 THEN s ELSE Flattened(s)[Len(s)]
BY DEF FlattenSeq, Flattened, Flattens

\* There is such a function, for every sequence of sequences.
LEMMA FlattensExists ==
    ASSUME NEW S, NEW s \in Seq(Seq(S))
    PROVE  Flattens(s, Flattened(s))
<1> DEFINE Upto(n) == \E f \in [1..n -> Seq(S)] :
                          \A i \in 1..n : f[i] = IF i = 1 THEN s[i] ELSE f[i - 1] \o s[i]
           A == {n \in Nat : n <= Len(s) => Upto(n)}
<1>1. 0 \in A
    <2>1. [i \in 1..0 |-> <<>>] \in [1..0 -> Seq(S)] /\ \A i \in 1..0 : FALSE
        OBVIOUS
    <2>2. Upto(0)
        BY <2>1
    <2> QED
        BY <2>2
<1>2. ASSUME NEW n \in Nat, n \in A PROVE n + 1 \in A
    <2> HIDE DEF Upto
    <2> SUFFICES ASSUME n + 1 <= Len(s) PROVE Upto(n + 1)
        BY <1>2
    <2>0. n <= Len(s) => Upto(n)
        BY <1>2
    <2> USE DEF Upto
    <2>1. Len(s) \in Nat /\ n <= Len(s) /\ n + 1 \in 1..Len(s) /\ s[n + 1] \in Seq(S)
        BY <1>2
    <2>2. PICK f \in [1..n -> Seq(S)] :
              \A i \in 1..n : f[i] = IF i = 1 THEN s[i] ELSE f[i - 1] \o s[i]
        BY <2>0, <2>1
    <2> DEFINE last == IF n = 0 THEN s[n + 1] ELSE f[n] \o s[n + 1]
               g == [i \in 1..(n + 1) |-> IF i = n + 1 THEN last ELSE f[i]]
    <2>3. last \in Seq(S)
        BY <2>1
    <2>4. \A i \in 1..(n + 1) : i = n + 1 \/ i \in 1..n
        BY <1>2
    <2>5. g \in [1..(n + 1) -> Seq(S)]
        BY <2>3, <2>4
    <2>6. ASSUME NEW i \in 1..(n + 1)
          PROVE  g[i] = IF i = 1 THEN s[i] ELSE g[i - 1] \o s[i]
        <3>1. CASE i = n + 1
            <4>1. CASE n = 0
                BY <3>1, <4>1
            <4>2. CASE n # 0
                <5>1. i - 1 = n /\ n \in 1..(n + 1) /\ n # n + 1 /\ i # 1
                    BY <1>2, <3>1, <4>2
                <5> QED
                    BY <3>1, <4>2, <5>1
            <4> QED
                BY <4>1, <4>2
        <3>2. CASE i # n + 1
            <4>1. i \in 1..n /\ g[i] = f[i]
                BY <2>4, <3>2
            <4>2. CASE i = 1
                BY <2>2, <4>1, <4>2
            <4>3. CASE i # 1
                <5>1. i - 1 \in 1..(n + 1) /\ i - 1 # n + 1
                    BY <1>2, <4>3
                <5> QED
                    BY <2>2, <4>1, <4>3, <5>1
            <4> QED
                BY <4>2, <4>3
        <3> QED
            BY <3>1, <3>2
    <2> HIDE DEF g
    <2> QED
        BY <2>5, <2>6
<1>3. Upto(Len(s))
    <2>1. Len(s) \in Nat
        OBVIOUS
    <2> HIDE DEF Upto
    <2>2. Nat \subseteq A
        <3>1. \A n \in Nat : n \in A => n + 1 \in A
            BY <1>2
        <3> HIDE DEF A
        <3> QED
            BY <1>1, <3>1, Induction
    <2>3. Len(s) \in A
        BY <2>1, <2>2
    <2> QED
        BY <2>1, <2>3
<1>4. PICK f \in [1..Len(s) -> Seq(S)] :
          \A i \in 1..Len(s) : f[i] = IF i = 1 THEN s[i] ELSE f[i - 1] \o s[i]
    BY <1>3
<1>5. Flattens(s, f)
    BY <1>4 DEF Flattens
<1> QED
    BY <1>5 DEF Flattened

\* One sequence more is one sequence more at the end.
LEMMA FlattenAppend ==
    ASSUME NEW S, NEW s \in Seq(Seq(S)), NEW x \in Seq(S)
    PROVE  FlattenSeq(Append(s, x)) = IF Len(s) = 0 THEN x ELSE FlattenSeq(s) \o x
<1> DEFINE t == Append(s, x)
           n == Len(s)
           F == Flattened(s)
           G == Flattened(t)
           A == {i \in Nat : i \in 1..n => F[i] = G[i]}
<1>1. /\ t \in Seq(Seq(S)) /\ Len(t) = n + 1 /\ n \in Nat /\ t[n + 1] = x
      /\ \A i \in 1..n : t[i] = s[i]
    OBVIOUS
<1> HIDE DEF t
<1>2. Flattens(s, F) /\ Flattens(t, G)
    BY <1>1, FlattensExists
<1> HIDE DEF F, G
<1>3. /\ \A i \in 1..n : F[i] = IF i = 1 THEN s[i] ELSE F[i - 1] \o s[i]
      /\ \A i \in 1..(n + 1) : G[i] = IF i = 1 THEN t[i] ELSE G[i - 1] \o t[i]
    BY <1>1, <1>2 DEF Flattens
<1> HIDE DEF n
<1>4. 0 \in A
    OBVIOUS
<1>5. ASSUME NEW i \in Nat, i \in A PROVE i + 1 \in A
    <2> SUFFICES ASSUME i + 1 \in 1..n PROVE F[i + 1] = G[i + 1]
        BY <1>5
    <2>1. i + 1 \in 1..(n + 1) /\ t[i + 1] = s[i + 1] /\ (i + 1) - 1 = i
        BY <1>1, <1>5
    <2>2. CASE i = 0
        BY <1>3, <2>1, <2>2
    <2>3. CASE i # 0
        <3>1. i + 1 # 1 /\ i \in 1..n
            BY <1>1, <1>5, <2>3
        <3>2. F[i] = G[i]
            BY <1>5, <3>1
        <3>3. F[i + 1] = F[i] \o s[i + 1] /\ G[i + 1] = G[i] \o t[i + 1]
            BY <1>3, <2>1, <3>1
        <3> QED
            BY <2>1, <3>2, <3>3
    <2> QED
        BY <2>2, <2>3
<1>6. Nat \subseteq A
    <2>1. \A i \in Nat : i \in A => i + 1 \in A
        BY <1>5
    <2> HIDE DEF A
    <2> QED
        BY <1>4, <2>1, Induction
<1>7. FlattenSeq(t) = G[n + 1]
    BY <1>1, FlattenIs DEF G
<1>8. CASE n = 0
    <2>1. G[n + 1] = x
        BY <1>1, <1>3, <1>8
    <2> QED
        BY <1>7, <1>8, <2>1 DEF t, n
<1>9. CASE n # 0
    <2>1. n \in 1..n /\ n + 1 # 1 /\ n + 1 \in 1..(n + 1) /\ (n + 1) - 1 = n
        BY <1>1, <1>9
    <2>2. F[n] = G[n]
        BY <1>6, <2>1
    <2>3. G[n + 1] = G[n] \o x
        BY <1>1, <1>3, <2>1
    <2>4. FlattenSeq(s) = F[n]
        BY <1>9, FlattenIs DEF F, n
    <2> QED
        BY <1>7, <1>9, <2>2, <2>3, <2>4 DEF t, n
<1> QED
    BY <1>8, <1>9

\* The reloads that have begun and not ended.
UnderWay == {w \in Reloaders : reloader[w].pc # "rest"}

\* Reloads have begun, none has cleared the list.
ClearAhead == ~Quiet /\ \A w \in Reloaders : reloader[w].pc # "cleared"

\* What the list is made of: whole versions, one per reload that ended since the
\* list was last cleared, unless the clear of the present reloads is still ahead.
WholeInv ==
    /\ offered \subseteq Seq(Chunks)
    /\ reloads \in Nat /\ reloads <= MaxReloads
    /\ IsFiniteSet(UnderWay) /\ Cardinality(UnderWay) <= reloads
    /\ \A w \in Reloaders : reloader[w].pc # "rest" => reloader[w].loaded \in offered
    /\ \/ ClearAhead
       \/ \E read \in Seq(offered) :
              /\ chunkList = FlattenSeq(read)
              /\ Len(read) + Cardinality(UnderWay) <= reloads + 1
              /\ read = <<>> => \E w \in Reloaders : reloader[w].pc = "cleared"

\* One version is a whole version.
LEMMA FlattenFirst ==
    ASSUME NEW S, NEW x \in Seq(S)
    PROVE  FlattenSeq(<<x>>) = x /\ FlattenSeq(<<>>) = <<>>
<1>1. <<>> \in Seq(Seq(S)) /\ Append(<<>>, x) = <<x>> /\ Len(<<>>) = 0
    OBVIOUS
<1>2. FlattenSeq(Append(<<>>, x)) = x
    BY <1>1, FlattenAppend
<1> QED
    BY <1>1, <1>2, FlattenIs

\* A reload begins.
LEMMA LoadIsWhole ==
    ASSUME ChunkStoreInv, WholeInv, NEW w \in Reloaders, Load(w)
    PROVE  WholeInv'
<1>1. /\ reloader[w].pc = "rest" /\ reloads < MaxReloads /\ reloads' = reloads + 1
      /\ reloader' = [reloader EXCEPT ![w] = [pc |-> "loaded", loaded |-> file]]
      /\ offered' = IF Quiet THEN {file} ELSE offered \cup {file}
      /\ UNCHANGED chunkList /\ file \in Seq(Chunks)
    BY DEF Load, ChunkStoreInv
<1>2. /\ reloader'[w] = [pc |-> "loaded", loaded |-> file]
      /\ \A v \in Reloaders : v # w => reloader'[v] = reloader[v]
    BY <1>1 DEF ChunkStoreInv
<1>3. /\ reloads' \in Nat /\ reloads' <= MaxReloads /\ offered' \subseteq Seq(Chunks)
    BY <1>1, ChunkStoreAssumption DEF WholeInv, ChunkStoreAssumption
<1>4. UnderWay' = UnderWay \cup {w} /\ w \notin UnderWay
    BY <1>1, <1>2 DEF UnderWay
<1>5. IsFiniteSet(UnderWay') /\ Cardinality(UnderWay') = Cardinality(UnderWay) + 1
    BY <1>4, FS_AddElement DEF WholeInv
<1>6. Cardinality(UnderWay) \in Nat
    BY FS_CardinalityType DEF WholeInv
<1>7. \A v \in Reloaders : reloader'[v].pc # "rest" => reloader'[v].loaded \in offered'
    BY <1>1, <1>2 DEF WholeInv, Quiet
<1>8. CASE Quiet \/ ClearAhead
    <2>1. ClearAhead'
        BY <1>2, <1>8 DEF ClearAhead, Quiet
    <2> QED
        BY <1>1, <1>3, <1>5, <1>6, <1>7, <2>1 DEF WholeInv
<1>9. CASE ~Quiet /\ ~ClearAhead
    <2>1. PICK read \in Seq(offered) :
              /\ chunkList = FlattenSeq(read)
              /\ Len(read) + Cardinality(UnderWay) <= reloads + 1
              /\ read = <<>> => \E v \in Reloaders : reloader[v].pc = "cleared"
        BY <1>9 DEF WholeInv
    <2>2. read \in Seq(offered') /\ Len(read) \in Nat
        BY <1>1, <1>9, <2>1
    <2>3. /\ chunkList' = FlattenSeq(read)
          /\ Len(read) + Cardinality(UnderWay') <= reloads' + 1
        BY <1>1, <1>5, <1>6, <2>1, <2>2 DEF WholeInv
    <2>4. read = <<>> => \E v \in Reloaders : reloader'[v].pc = "cleared"
        BY <1>1, <1>2, <2>1
    <2> QED
        BY <1>1, <1>3, <1>5, <1>6, <1>7, <2>2, <2>3, <2>4 DEF WholeInv
<1> QED
    BY <1>8, <1>9

\* The list is cleared: no version is left, and the reload is to extend it.
LEMMA ClearIsWhole ==
    ASSUME ChunkStoreInv, WholeInv, NEW w \in Reloaders, Clear(w)
    PROVE  WholeInv'
<1>1. /\ reloader[w].pc = "loaded" /\ chunkList' = <<>> /\ UNCHANGED <<reloads, offered>>
      /\ reloader' = [reloader EXCEPT ![w] = [reloader[w] EXCEPT !.pc = "cleared"]]
    BY DEF Clear, Cleared
<1>2. /\ reloader[w] \in ReloaderStates /\ reloader' \in [Reloaders -> ReloaderStates]
    BY ClearKeeps DEF ChunkStoreInv
<1>3. /\ reloader'[w].pc = "cleared" /\ reloader'[w].loaded = reloader[w].loaded
      /\ \A v \in Reloaders : v # w => reloader'[v] = reloader[v]
    BY <1>1, <1>2 DEF ReloaderStates, ChunkStoreInv
<1>4. UnderWay' = UnderWay
    BY <1>1, <1>3 DEF UnderWay
<1>5. \A v \in Reloaders : reloader'[v].pc # "rest" => reloader'[v].loaded \in offered'
    BY <1>1, <1>3 DEF WholeInv
<1>6. <<>> \in Seq(offered') /\ FlattenSeq(<<>>) = <<>> /\ Len(<<>>) = 0
    BY FlattenIs
<1>7. Cardinality(UnderWay) \in Nat
    BY FS_CardinalityType DEF WholeInv
<1>8. \E read \in Seq(offered') :
          /\ chunkList' = FlattenSeq(read)
          /\ Len(read) + Cardinality(UnderWay') <= reloads' + 1
          /\ read = <<>> => \E v \in Reloaders : reloader'[v].pc = "cleared"
    <2>1. Len(<<>>) + Cardinality(UnderWay') <= reloads' + 1
        BY <1>1, <1>4, <1>6, <1>7 DEF WholeInv
    <2> QED
        BY <1>1, <1>3, <1>6, <2>1
<1> QED
    BY <1>1, <1>4, <1>5, <1>8 DEF WholeInv

\* The list is extended by one version more.
LEMMA ExtendIsWhole ==
    ASSUME ChunkStoreInv, WholeInv, NEW w \in Reloaders, Extend(w)
    PROVE  WholeInv'
<1>1. /\ reloader[w].pc = "cleared" /\ chunkList' = chunkList \o reloader[w].loaded
      /\ reloader' = [reloader EXCEPT ![w] = NoReload] /\ UNCHANGED <<reloads, offered>>
    BY DEF Extend
<1>2. /\ reloader'[w].pc = "rest" /\ \A v \in Reloaders : v # w => reloader'[v] = reloader[v]
    BY <1>1, RestStates DEF ChunkStoreInv
<1>3. UnderWay' = UnderWay \ {w} /\ w \in UnderWay
    BY <1>1, <1>2 DEF UnderWay
<1>4. IsFiniteSet(UnderWay') /\ Cardinality(UnderWay') = Cardinality(UnderWay) - 1
    BY <1>3, FS_RemoveElement DEF WholeInv
<1>5. Cardinality(UnderWay) \in Nat
    BY FS_CardinalityType DEF WholeInv
<1>6. \A v \in Reloaders : reloader'[v].pc # "rest" => reloader'[v].loaded \in offered'
    BY <1>1, <1>2 DEF WholeInv
<1>7. PICK read \in Seq(offered) :
          /\ chunkList = FlattenSeq(read)
          /\ Len(read) + Cardinality(UnderWay) <= reloads + 1
    BY <1>1 DEF WholeInv, ClearAhead
<1> DEFINE x == reloader[w].loaded
           more == Append(read, x)
<1>8. x \in offered /\ x \in Seq(Chunks) /\ read \in Seq(Seq(Chunks)) /\ offered \subseteq Seq(Chunks)
    BY <1>1, <1>7 DEF WholeInv
<1>9. /\ more \in Seq(offered) /\ Len(more) = Len(read) + 1 /\ Len(read) \in Nat /\ more # <<>>
    BY <1>8
<1>10. chunkList' = FlattenSeq(more)
    <2>1. FlattenSeq(more) = IF Len(read) = 0 THEN x ELSE FlattenSeq(read) \o x
        BY <1>8, FlattenAppend
    <2>2. CASE Len(read) = 0
        <3>1. read = <<>> /\ chunkList = <<>>
            BY <1>7, <1>8, <2>2, FlattenIs
        <3>2. <<>> \o x = x
            BY <1>8
        <3> QED
            BY <1>1, <2>1, <2>2, <3>1, <3>2
    <2> QED
        BY <1>1, <1>7, <2>1, <2>2
<1> HIDE DEF more, x
<1>11. Len(more) + Cardinality(UnderWay') <= reloads' + 1
    BY <1>1, <1>4, <1>5, <1>7, <1>9 DEF WholeInv
<1>12. \E seq \in Seq(offered') :
          /\ chunkList' = FlattenSeq(seq)
          /\ Len(seq) + Cardinality(UnderWay') <= reloads' + 1
          /\ seq = <<>> => \E v \in Reloaders : reloader'[v].pc = "cleared"
    BY <1>1, <1>9, <1>10, <1>11
<1>13. Cardinality(UnderWay') <= reloads'
    BY <1>1, <1>4, <1>5 DEF WholeInv
<1> QED
    BY <1>1, <1>4, <1>6, <1>12, <1>13 DEF WholeInv

\* Reloads replace the knowledge and never damage it (WholeVersions).
THEOREM KnowledgeIsWhole == ChunkStoreSpec => []WholeVersions
<1>1. ChunkStoreInit => WholeInv
    <2> SUFFICES ASSUME ChunkStoreInit PROVE WholeInv
        OBVIOUS
    <2>1. /\ file \in Seq(Chunks) /\ chunkList = file /\ offered = {file} /\ reloads = 0
          /\ \A w \in Reloaders : reloader[w].pc = "rest"
        BY RestStates, ChunkStoreAssumption DEF ChunkStoreInit, ChunkStoreAssumption
    <2>2. UnderWay = {} /\ IsFiniteSet(UnderWay) /\ Cardinality(UnderWay) = 0
        <3>1. UnderWay = {}
            BY <2>1 DEF UnderWay
        <3> QED
            BY <3>1, FS_EmptySet
    <2>3. /\ <<file>> \in Seq(offered) /\ FlattenSeq(<<file>>) = file
          /\ Len(<<file>>) = 1 /\ <<file>> # <<>>
        BY <2>1, FlattenFirst
    <2>4. MaxReloads \in Nat
        BY ChunkStoreAssumption DEF ChunkStoreAssumption
    <2>5. /\ offered \subseteq Seq(Chunks) /\ reloads \in Nat /\ reloads <= MaxReloads
          /\ Cardinality(UnderWay) <= reloads
        BY <2>1, <2>2, <2>4
    <2>6. \E read \in Seq(offered) :
              /\ chunkList = FlattenSeq(read)
              /\ Len(read) + Cardinality(UnderWay) <= reloads + 1
              /\ read = <<>> => \E w \in Reloaders : reloader[w].pc = "cleared"
        <3>1. Len(<<file>>) + Cardinality(UnderWay) <= reloads + 1
            BY <2>1, <2>2, <2>3
        <3> QED
            BY <2>1, <2>3, <3>1
    <2> QED
        BY <2>1, <2>2, <2>5, <2>6 DEF WholeInv
<1>2. ChunkStoreInv /\ WholeInv /\ [ChunkStoreNext]_chunkStore => WholeInv'
    <2> SUFFICES ASSUME ChunkStoreInv, WholeInv, [ChunkStoreNext]_chunkStore PROVE WholeInv'
        OBVIOUS
    <2>1. ASSUME UNCHANGED <<chunkList, reloader, reloads, offered>> PROVE WholeInv'
        BY <2>1 DEF WholeInv, UnderWay, ClearAhead, Quiet
    <2>2. CASE UNCHANGED chunkStore
        BY <2>1, <2>2 DEF chunkStore
    <2>3. CASE EditFile
        BY <2>1, <2>3 DEF EditFile
    <2>4. ASSUME NEW w \in Reloaders, Load(w) \/ Clear(w) \/ Extend(w) PROVE WholeInv'
        BY <2>4, LoadIsWhole, ClearIsWhole, ExtendIsWhole
    <2>5. ASSUME NEW q \in Retrievers,
                 BeginRetrieval(q) \/ Walk(q) \/ EndWalk(q) \/ Answer(q)
          PROVE  WholeInv'
        BY <2>1, <2>5 DEF BeginRetrieval, Walk, EndWalk, Answer
    <2> QED
        BY <2>2, <2>3, <2>4, <2>5 DEF ChunkStoreNext
<1>3. ChunkStoreInv /\ WholeInv => WholeVersions
    <2> SUFFICES ASSUME ChunkStoreInv, WholeInv, Quiet PROVE WholeVersions
        BY DEF WholeVersions
    <2>1. PICK read \in Seq(offered) :
              /\ chunkList = FlattenSeq(read)
              /\ Len(read) + Cardinality(UnderWay) <= reloads + 1
              /\ read # <<>>
        BY DEF WholeInv, ClearAhead, Quiet
    <2>2. /\ Cardinality(UnderWay) \in Nat /\ reloads \in Nat /\ reloads <= MaxReloads
          /\ MaxReloads \in Nat
        BY FS_CardinalityType, ChunkStoreAssumption DEF WholeInv, ChunkStoreAssumption
    <2>3. Len(read) \in 1..(MaxReloads + 1) /\ read \in [1..Len(read) -> offered]
        BY <2>1, <2>2
    <2> QED
        BY <2>1, <2>3 DEF WholeVersions
<1> QED
    BY <1>1, <1>2, <1>3, ChunkStoreInvariant, PTL DEF ChunkStoreSpec

=============================================================================
