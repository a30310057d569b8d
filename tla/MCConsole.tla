----------------------------- MODULE MCConsole ------------------------------
(* What stands before the API: the accounts of the console, the limits on   *)
(* its requests, and the sources an API key is limited to.  They share no   *)
(* state, so a behaviour is about one of them.                              *)
EXTENDS Accounts, RateLimit, Ownership, TLC

VARIABLE part   \* what this behaviour is about

ConsoleInit == Init /\ RateInit /\ OwnInit /\ part \in {"accounts", "limits", "owners"}

ConsoleNext ==
    /\ UNCHANGED part
    /\ \/ part = "accounts" /\ Next /\ UNCHANGED <<rateVars, ownVars>>
       \/ part = "limits" /\ RateNext /\ UNCHANGED <<vars, ownVars>>
       \/ part = "owners" /\ OwnNext /\ UNCHANGED <<vars, rateVars>>

ConsoleSpec == ConsoleInit /\ [][ConsoleNext]_<<part, vars, rateVars, ownVars>>

\* An API key for every source, and one for the web alone.
MCLimits == {NoLimit, {"web"}}

\* No specification tells two requests apart.
RequestSymmetry == Permutations(Clients) \cup Permutations(Callers) \cup Permutations(Reporters)
=============================================================================
