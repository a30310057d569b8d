----------------------------- MODULE MCProcess ------------------------------
(* A process of AlertLoop from its configuration file to its exit.  Its     *)
(* stages share no state, so that a behaviour is about one of them while    *)
(* the others rest where nothing happens any more, or nothing yet.          *)
EXTENDS MCConfiguration, MCRouting, Statements, Migrations, Lifecycle

\* One process of an older release beside two of the new one.
OldAndNew == [p \in Processes |-> IF p = "old" THEN 2 ELSE 3]

NoFile ==
    /\ stage = "off" /\ file = {} /\ env = <<>>
    /\ settings = BuiltIn /\ report = NothingFound /\ fallbacks = {} /\ refusals = 0

NotStarted ==
    /\ phase = "off" /\ config = Nothing /\ registry = Nothing
    /\ router = Nothing /\ warned = Nothing /\ routed = Nothing

NoScript ==
    /\ body = <<>>
    /\ scanner = [at |-> 1, inLine |-> FALSE, inString |-> FALSE, cur |-> <<>>, out |-> <<>>, done |-> TRUE]

AllMigrated ==
    /\ schema = <<1, 2, 3>> /\ ledger = {1, 2, 3} /\ crashes = MaxCrashes
    /\ pc = [p \in Processes |-> "serving"] /\ applied = [p \in Processes |-> {1, 2, 3}]

NotRunning ==
    /\ mode = "worker" /\ stopped = FALSE /\ cancelled = FALSE
    /\ listener = "off" /\ server = "off" /\ requests = 0 /\ overran = FALSE
    /\ worker = "off" /\ sends = 0 /\ reaper = "off" /\ retention = "off"
    /\ errCh = <<>> /\ main = "exited" /\ exitError = FALSE

ProcessInit ==
    \/ LoadInit /\ NotStarted /\ NoScript /\ AllMigrated /\ NotRunning
    \/ NoFile /\ StartInit /\ NoScript /\ AllMigrated /\ NotRunning
    \/ NoFile /\ NotStarted /\ ScanInit /\ AllMigrated /\ NotRunning
    \/ NoFile /\ NotStarted /\ NoScript /\ MigrateInit /\ NotRunning
    \/ NoFile /\ NotStarted /\ NoScript /\ AllMigrated /\ RunInit

ProcessNext ==
    \/ LoadNext /\ UNCHANGED <<startVars, scanVars, migrateVars, runVars>>
    \/ StartNext /\ UNCHANGED <<loadVars, scanVars, migrateVars, runVars>>
    \/ ScanNext /\ UNCHANGED <<loadVars, startVars, migrateVars, runVars>>
    \/ MigrateNext /\ UNCHANGED <<loadVars, startVars, scanVars, runVars>>
    \/ RunNext /\ UNCHANGED <<loadVars, startVars, scanVars, migrateVars>>

ProcessSpec ==
    /\ ProcessInit
    /\ [][ProcessNext]_<<loadVars, startVars, scanVars, migrateVars, runVars>>
    /\ MigrateFairness /\ RunFairness
=============================================================================
