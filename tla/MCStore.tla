------------------------------ MODULE MCStore ------------------------------
(* Constants for model-checking Store: a channel that falls back to another *)
(* one, and a route that changes with the severity.                         *)
EXTENDS StoreAnnounces

MCRoute == [type \in Types |-> [severity \in Severities |->
    IF severity = "critical" THEN <<"pager">> ELSE <<"mail">>]]

MCFallback == [c \in Channels |-> IF c = "mail" THEN "pager" ELSE NoChannel]
=============================================================================
