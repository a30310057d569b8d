----------------------------- MODULE Migrations -----------------------------
(***************************************************************************)
(* Processes of several releases starting on one database, each of which   *)
(* migrates it first (internal/storage/migrate.go).  Nothing orders the    *)
(* starts: a server and a worker come up together, and a crash may hit     *)
(* between any two statements.                                             *)
(*                                                                         *)
(* A binary ships the migrations 1..Ships.  What a transaction did is      *)
(* visible from its commit on; the primary key of the ledger decides       *)
(* between two transactions that apply the same migration.                 *)
(***************************************************************************)
EXTENDS Naturals, Sequences

CONSTANTS
    Processes,
    Ships,      \* process -> the number of migrations its binary has
    MaxCrashes  \* bound: crashes

ASSUME MigrationsAssumption == Ships \in [Processes -> Nat] /\ MaxCrashes \in Nat

VARIABLES
    schema,     \* the migrations whose statements took effect, in order
    ledger,     \* the table schema_migrations
    pc,         \* process -> off, starting, migrating, commit, serving, refused, failed
    applied,    \* process -> appliedVersions, read once
    crashes

migrateVars == <<schema, ledger, pc, applied, crashes>>

MigrateInit ==
    /\ schema = <<>> /\ ledger = {}
    /\ pc = [p \in Processes |-> "off"]
    /\ applied = [p \in Processes |-> {}]
    /\ crashes = 0

Go(p, to) == pc' = [pc EXCEPT ![p] = to]

\* CREATE TABLE IF NOT EXISTS: two at once may collide on PostgreSQL.
Start(p) ==
    /\ pc[p] = "off"
    /\ \/ Go(p, "starting")
       \/ ledger = {} /\ (\E q \in Processes : pc[q] = "starting") /\ Go(p, "failed")
    /\ UNCHANGED <<schema, ledger, applied, crashes>>

\* Fault: the newest version alone is compared, one off.
RefuseSameSchema(p) == \E v \in ledger : v >= Ships[p] /\ Ships[p] > 0

\* A migration is recorded that this binary does not ship.
RefuseNewerSchema(p) == \E v \in ledger : v > Ships[p]

ReadApplied(p) ==
    /\ pc[p] = "starting"
    /\ applied' = [applied EXCEPT ![p] = ledger]
    /\ Go(p, IF RefuseNewerSchema(p) THEN "refused" ELSE "migrating")
    /\ UNCHANGED <<schema, ledger, crashes>>

\* The files that have not been applied.
Missing(p) == (1 .. Ships[p]) \ applied[p]

\* In ascending order.
NextVersion(p) == CHOOSE v \in Missing(p) : \A w \in Missing(p) : v <= w

\* applyMigration: the statements of one file, in a transaction,
RunStatements(p) ==
    /\ pc[p] = "migrating" /\ Missing(p) # {}
    /\ Go(p, "commit")
    /\ UNCHANGED <<schema, ledger, applied, crashes>>

\* Fault: a row that is already in the ledger is passed over.
CommitAnyway(p) ==
    /\ pc[p] = "commit"
    /\ schema' = Append(schema, NextVersion(p)) /\ ledger' = ledger \cup {NextVersion(p)}
    /\ applied' = [applied EXCEPT ![p] = @ \cup {NextVersion(p)}]
    /\ Go(p, "migrating")
    /\ UNCHANGED crashes

\* the row of the ledger, and the commit; a row that is there rolls all back.
Commit(p) ==
    LET v == NextVersion(p)
    IN /\ pc[p] = "commit"
       /\ \/ /\ v \notin ledger
             /\ schema' = Append(schema, v) /\ ledger' = ledger \cup {v}
             /\ applied' = [applied EXCEPT ![p] = @ \cup {v}]
             /\ Go(p, "migrating")
          \/ /\ v \in ledger
             /\ Go(p, "failed")
             /\ UNCHANGED <<schema, ledger, applied>>
       /\ UNCHANGED crashes

Serve(p) ==
    /\ pc[p] = "migrating" /\ Missing(p) = {}
    /\ Go(p, "serving")
    /\ UNCHANGED <<schema, ledger, applied, crashes>>

\* The error of Migrate ends the process; the deployment starts it again.
Restart(p) ==
    /\ pc[p] = "failed"
    /\ Go(p, "off")
    /\ UNCHANGED <<schema, ledger, applied, crashes>>

\* Also a stop, or a failed statement: the transaction is rolled back.
Crash(p) ==
    /\ pc[p] # "off" /\ crashes < MaxCrashes
    /\ crashes' = crashes + 1
    /\ Go(p, "off")
    /\ UNCHANGED <<schema, ledger, applied>>

Step(p) == Start(p) \/ ReadApplied(p) \/ RunStatements(p) \/ Commit(p) \/ Serve(p) \/ Restart(p)

MigrateNext == \E p \in Processes : Step(p) \/ Crash(p)

\* The deployment keeps its processes running.
MigrateFairness == \A p \in Processes : WF_migrateVars(Step(p))

MigrateSpec == MigrateInit /\ [][MigrateNext]_migrateVars /\ MigrateFairness
-----------------------------------------------------------------------------
(******************************* properties ********************************)

\* Every migration takes effect once, in order and without gaps, the ledger says
\* so at every moment, and a process serves on a schema that has all it ships,
\* whoever starts or crashes meanwhile (migrate, applyMigration).
AppliedOnceInOrder ==
    /\ schema = [v \in 1 .. Len(schema) |-> v]
    /\ ledger = 1 .. Len(schema)
    /\ \A p \in Processes : pc[p] = "serving" => 1 .. Ships[p] \subseteq ledger

\* Starting together is no reason to stay down: a process of the newest
\* release ends up serving, one of an older release serving or refused
\* (migrate, refuseNewerSchema).
EveryStartSettles ==
    \A p \in Processes :
        <>[](\/ pc[p] = "serving"
             \/ pc[p] = "refused" /\ \E q \in Processes : Ships[q] > Ships[p])
=============================================================================
