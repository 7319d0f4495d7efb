----------------------------- MODULE Migrations ------------------------------
(***************************************************************************)
(* scripts/migrate.py, run by deployments that may overlap, die and be run *)
(* again: the applied versions are read once, and each new file runs in a  *)
(* transaction with its row of schema_migrations. Another's transaction    *)
(* shows itself only in the primary key of that row.                       *)
(***************************************************************************)
EXTENDS Naturals, SequencesExt

CONSTANTS
    Migrators,      \* runs of migrate.py that may overlap
    Files,          \* per run: its files by name, with version and checksum
    MaxRuns         \* bound on how often a run is started again

\* Versions count up, and an older checkout has a prefix of a newer one's files.
ASSUME MigrationsAssumption ==
    /\ MaxRuns \in Nat
    /\ Files \in [Migrators -> Seq([version : Nat, checksum : STRING])]
    /\ \A m \in Migrators : \A i \in DOMAIN Files[m] : Files[m][i].version = i

VARIABLES
    ledger,     \* schema_migrations, committed
    schema,     \* the SQL that is in effect: the files in order of their commits
    migrator    \* per run: where it is and the rows it has read

migrations == <<ledger, schema, migrator>>

NotStarted(runs) == [pc |-> "rest", index |-> 1, seen |-> {}, runs |-> runs]

MigrationsInit ==
    /\ ledger = {}
    /\ schema = <<>>
    /\ migrator = [m \in Migrators |-> NotStarted(0)]

Current(m) == Files[m][migrator[m].index]
SeenVersions(m) == {row.version : row \in migrator[m].seen}
HasFile(m) == migrator[m].pc = "next" /\ migrator[m].index <= Len(Files[m])
InTransaction(m) == migrator[m].pc \in {"ran", "inserted"}

\* ensure_migration_table and get_applied
ReadApplied(m) ==
    /\ migrator[m].pc = "rest"
    /\ migrator' = [migrator EXCEPT ![m].pc = "next", ![m].seen = ledger]
    /\ UNCHANGED <<ledger, schema>>

Skip(m) ==
    /\ HasFile(m)
    /\ Current(m) \in migrator[m].seen
    /\ migrator' = [migrator EXCEPT ![m].index = @ + 1]
    /\ UNCHANGED <<ledger, schema>>

\* The file of an applied version was edited: the run raises.
Mismatch(m) ==
    /\ HasFile(m)
    /\ Current(m) \notin migrator[m].seen
    /\ Current(m).version \in SeenVersions(m)
    /\ migrator' = [migrator EXCEPT ![m].pc = "failed"]
    /\ UNCHANGED <<ledger, schema>>

RunSql(m) ==
    /\ HasFile(m)
    /\ Current(m).version \notin SeenVersions(m)
    /\ migrator' = [migrator EXCEPT ![m].pc = "ran"]
    /\ UNCHANGED <<ledger, schema>>

\* Mutant: the version is no key.
Conflicts_NoKey(m) == FALSE

\* The row of the version is there, committed.
Conflicts(m) == \E row \in ledger : row.version = Current(m).version

\* Postgres lets the INSERT wait for a transaction that inserted the same key.
Waits(m) ==
    \E n \in Migrators \ {m} :
        migrator[n].pc = "inserted" /\ Current(n).version = Current(m).version

InsertRow(m) ==
    /\ migrator[m].pc = "ran"
    /\ ~Waits(m) /\ ~Conflicts(m)
    /\ migrator' = [migrator EXCEPT ![m].pc = "inserted"]
    /\ UNCHANGED <<ledger, schema>>

Commit(m) ==
    /\ migrator[m].pc = "inserted"
    /\ ledger' = ledger \cup {Current(m)}
    /\ schema' = Append(schema, Current(m))
    /\ migrator' = [migrator EXCEPT ![m].pc = "next", ![m].index = @ + 1]

\* The SQL fails, its DDL meets another's, or the version's row is there: the
\* exception leaves the connection's block, which rolls back.
SqlFails(m) ==
    /\ InTransaction(m) \/ (HasFile(m) /\ Current(m).version \notin SeenVersions(m))
    /\ migrator' = [migrator EXCEPT ![m].pc = "failed"]
    /\ UNCHANGED <<ledger, schema>>

\* The process dies, or its connection does.
MigratorDies(m) ==
    /\ migrator[m].pc \in {"next", "ran", "inserted"}
    /\ migrator' = [migrator EXCEPT ![m].pc = "failed"]
    /\ UNCHANGED <<ledger, schema>>

\* The deployment is tried again.
RunAgain(m) ==
    /\ migrator[m].pc = "failed" \/ (migrator[m].pc = "next" /\ ~HasFile(m))
    /\ migrator[m].runs < MaxRuns
    /\ migrator' = [migrator EXCEPT ![m] = NotStarted(@.runs + 1)]
    /\ UNCHANGED <<ledger, schema>>

MigrationsNext ==
    \E m \in Migrators :
        \/ ReadApplied(m) \/ Skip(m) \/ Mismatch(m) \/ RunSql(m)
        \/ InsertRow(m) \/ Commit(m) \/ SqlFails(m) \/ MigratorDies(m) \/ RunAgain(m)

MigrationsSpec == MigrationsInit /\ [][MigrationsNext]_migrations

-----------------------------------------------------------------------------
\* Every variable of the migrations holds values of its type.
MigrationsTypeOK ==
    /\ schema \in Seq(UNION {ToSet(Files[m]) : m \in Migrators})
    /\ ledger \subseteq UNION {ToSet(Files[m]) : m \in Migrators}
    /\ \A m \in Migrators :
          /\ migrator[m].pc \in {"rest", "next", "ran", "inserted", "failed"}
          /\ migrator[m].index \in 1..Len(Files[m]) + 1
          /\ InTransaction(m) => migrator[m].index <= Len(Files[m])

\* Overlapping, dying and repeated deployments never apply a version twice or
\* before the versions that precede it, whoever ran those, and the ledger says
\* exactly what is in effect.
LedgerIsSchema ==
    /\ ledger = ToSet(schema)
    /\ \A i \in DOMAIN schema : schema[i].version = i
==============================================================================
