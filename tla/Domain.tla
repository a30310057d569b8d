------------------------------- MODULE Domain -------------------------------
(***************************************************************************)
(* The vocabulary of AlertLoop (internal/domain): the states of an event,  *)
(* the states and kinds of a delivery attempt, the order of severities and *)
(* the state machine behind the manual actions.  Pure definitions.         *)
(***************************************************************************)
EXTENDS Naturals

EventTypes == {"incident", "business_event", "audit"}

EventStates == {"new", "acknowledged", "resolved", "muted", "escalated"}

AllSeverities == {"info", "success", "warning", "error", "critical"}

\* info and success share a rank: neither is a rise over the other; an unknown
\* severity has none.
SeverityRank(s) ==
    CASE s \in {"info", "success"} -> 10
      [] s = "warning"             -> 20
      [] s = "error"               -> 30
      [] s = "critical"            -> 40
      [] OTHER                     -> 0

DeliveryStates ==
    {"pending", "sending", "sent", "failed", "dead_letter", "cancelled"}

DeliveryKinds == {"alert", "recovery"}

EventActions == {"ack", "resolve", "mute", "unmute", "escalate"}

\* The answer of ApplyAction when it returns ErrInvalidTransition.
Refused == "refused"

\* A resolved event takes no action; unmute needs a muted one.
ApplyAction(current, action) ==
    IF action = "unmute" THEN IF current = "muted" THEN "new" ELSE Refused
    ELSE IF current = "resolved" THEN Refused
    ELSE CASE action = "ack"      -> "acknowledged"
           [] action = "resolve"  -> "resolved"
           [] action = "mute"     -> "muted"
           [] action = "escalate" -> "escalated"

\* Actions apply to incidents only.
CheckActionAllowed(type) == type = "incident"
=============================================================================
