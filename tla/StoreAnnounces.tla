---------------------------- MODULE StoreAnnounces ----------------------------
(***************************************************************************)
(* Store implements Announcements.  The mapping forgets what the queue is  *)
(* for: pending, failed and sending are all "owed", so that claims, hand   *)
(* backs, retries, requeues and the passing of time are steps that change  *)
(* nothing; only a mark of `sent`, a dead letter, a cancellation, a replay *)
(* and the transactions on events are steps people could notice.           *)
(***************************************************************************)
EXTENDS Store

FateOf(state) ==
    CASE state = "sent"        -> "told"
      [] state = "dead_letter" -> "lost"
      [] state = "cancelled"   -> "withdrawn"
      [] OTHER                 -> "owed"

Incidents == [e \in DOMAIN events |-> IF events[e].state = "resolved" THEN "closed" ELSE "open"]

Notices ==
    [a \in DOMAIN attempts |->
        [incident |-> attempts[a].event, channel |-> attempts[a].channel,
         kind |-> attempts[a].kind, follows |-> attempts[a].recoveryFor,
         copyOf |-> attempts[a].fallbackOf, fate |-> FateOf(attempts[a].state)]]

Promised == INSTANCE Announcements WITH incidents <- Incidents, notices <- Notices

\* The store keeps its contract: whatever the interleaving of reports, actions,
\* workers, reapers, replays and retention, each transaction is one step of
\* Announcements or none.  In particular an alert in flight when its incident
\* closes still owes its recovery, an incident closed quietly stays quiet, no
\* recovery is told to a channel that was not told the alert, a rising severity
\* alerts only channels that had no alert of the incident, and nothing told or
\* withdrawn ever comes back.
KeepsPromises == Promised!AnnounceSpec
=============================================================================
