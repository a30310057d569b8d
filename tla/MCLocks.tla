------------------------------ MODULE MCLocks ------------------------------
(* The two places where a lock orders what runs concurrently: the row locks  *)
(* of the database and the lock of the spool of the Monit integration.  They *)
(* share no state, so that a behaviour is about one of them.                 *)
EXTENDS Locks, MCSpool

\* A warning is only recorded, critical alerts mail.
Escalating == [type \in Types |-> [severity \in Severities |->
    IF severity = "critical" THEN <<"mail">> ELSE <<>>]]

MailToPager == [c \in Channels |-> IF c = "mail" THEN "pager" ELSE NoChannel]

VARIABLE about   \* what the behaviour is about

\* The lock is held by a run that does not go on: the timer has nothing to do.
SpoolAtRest ==
    /\ spool = {} /\ holder = Timer /\ clock = 0 /\ given = 0 /\ faults = 0
    /\ runs = [p \in RunIds |-> Rest] /\ kept = {} /\ accounted = {}
    /\ latest = [k \in {r.key : r \in Reports} |-> [last |-> NoReport, underLock |-> 0]]

LocksInit ==
    /\ Init
    /\ \/ about = "database" /\ SpoolAtRest
       \/ about = "spool" /\ SpoolInit

LocksNext ==
    /\ UNCHANGED about
    /\ \/ about = "database" /\ Next /\ UNCHANGED spoolVars
       \/ about = "spool" /\ SpoolNext /\ UNCHANGED vars

LocksSpec == LocksInit /\ [][LocksNext]_<<about, vars, spoolVars>> /\ SpoolFairness
=============================================================================
