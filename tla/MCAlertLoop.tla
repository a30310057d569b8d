---------------------------- MODULE MCAlertLoop ----------------------------
(* Constants for model-checking AlertLoop. *)
EXTENDS AlertLoop, TLC

\* Every severity goes to mail.
OneChannel == [type \in Types |-> [severity \in Severities |-> <<"mail">>]]

\* warning goes to mail, critical to pager, info nowhere.
BySeverity == [type \in Types |-> [severity \in Severities |->
    CASE severity = "critical" -> <<"pager">>
      [] severity = "warning"  -> <<"mail">>
      [] OTHER                 -> <<>>]]

\* A warning is only recorded, critical alerts mail.
Escalating == [type \in Types |-> [severity \in Severities |->
    IF severity = "critical" THEN <<"mail">> ELSE <<>>]]

NoFallback == [c \in Channels |-> NoChannel]

MailToPager == [c \in Channels |-> IF c = "mail" THEN "pager" ELSE NoChannel]

\* The ids the liveness run gives out.
MaxIds == 8

\* Every notification that is owed settles (EventuallySettles, for every id).
AllSettle == [](lastId <= MaxIds) /\ \A a \in 1 .. MaxIds : EventuallySettles(a)

\* The specification never tells two clients, or two workers, apart.
ClientSymmetry == Permutations(Clients)
WorkerSymmetry == Permutations(Workers)
=============================================================================
