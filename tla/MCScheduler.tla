---------------------------- MODULE MCScheduler ----------------------------
(* What concurrent parties share within bounds: the slots of a delivery      *)
(* worker, with a backlog for the channel that hangs ahead of attempts for   *)
(* the others; the heartbeats of several workers; the throttle and the       *)
(* password checks of the sign-ins.  They share no state, so that a          *)
(* behaviour is about one of them while the others rest.                     *)
EXTENDS Scheduler, Heartbeat, MCSignIn

MCJobChannel == [j \in Jobs |-> CASE j <= 3 -> "hung" [] j \in {4, 6} -> "mail" [] OTHER -> "chat"]

NothingQueued ==
    /\ row = [j \in Jobs |-> "settled"] /\ tries = [j \in Jobs |-> 0]
    /\ inFlight = [c \in Channels |-> 0] /\ total = 0 /\ done = [c \in Channels |-> 0]
    /\ pc = "stopped" /\ stop = TRUE /\ cancelled = TRUE

NoHeartbeat ==
    /\ time = Horizon /\ lastTickAt = Never
    /\ beats = [w \in Workers |-> [lastTick |-> Never, writing |-> NoTick, polled |-> Never]]

VARIABLE about   \* what the behaviour is about

SharedInit ==
    /\ SignInInit
    /\ \/ about = "worker" /\ Init /\ NoHeartbeat
       \/ about = "heartbeats" /\ NothingQueued /\ BeatInit
       \/ about = "sign-in" /\ NothingQueued /\ NoHeartbeat

SharedNext ==
    /\ UNCHANGED about
    /\ \/ about = "worker" /\ Next /\ UNCHANGED <<beatVars, signInVars>>
       \/ about = "heartbeats" /\ BeatNext /\ UNCHANGED <<vars, signInVars>>
       \/ about = "sign-in" /\ SignInNext /\ UNCHANGED <<vars, beatVars>>

SharedSpec ==
    /\ SharedInit
    /\ [][SharedNext]_<<about, vars, beatVars, signInVars>>
    /\ Fairness /\ SignInFairness
=============================================================================
