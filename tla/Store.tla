-------------------------------- MODULE Store --------------------------------
(***************************************************************************)
(* The database of AlertLoop (internal/storage): the table of events, the  *)
(* delivery queue, and the transactions that change them.  A transaction   *)
(* is one atomic step: SQLite runs on a single connection, and on          *)
(* PostgreSQL each one is serialised by the row locks it takes.            *)
(*                                                                         *)
(* StoreNext lets the services call any transaction at any time with any   *)
(* argument they can form, stale ones included.  It is the most general    *)
(* client: what StoreSpec guarantees does not depend on how requests,      *)
(* workers, reapers and retention are scheduled, and AlertLoop, the system *)
(* with those processes, implements StoreSpec.                             *)
(***************************************************************************)
EXTENDS Domain, Integers, Sequences, FiniteSets

CONSTANTS
    Keys,             \* the dedupe keys sources report
    NoKey,            \* the empty dedupe_key: never matches anything
    Types,            \* the event types reported
    Severities,       \* the severities reported
    Actions,          \* the manual actions operators use
    Channels,         \* the configured channel names
    NoChannel,        \* "this channel has no fallback"
    Route,            \* Router.Route: [Types -> [Severities -> Seq(Channels)]]
    Fallback,         \* Options.Fallbacks: [Channels -> Channels \cup {NoChannel}]
    MaxAttempts,      \* delivery.max_attempts
    NotifyOnResolve,  \* delivery.notify_on_resolve
    MaxEvents         \* bound: how many events are ever stored

ASSUME RouteAssumption ==
    /\ Types \subseteq EventTypes
    /\ Severities \subseteq AllSeverities
    /\ Actions \subseteq EventActions
    /\ Route \in [Types -> [Severities -> Seq(Channels)]]

\* config.go rejects a channel that is its own fallback.
ASSUME FallbackAssumption ==
    /\ Fallback \in [Channels -> Channels \cup {NoChannel}]
    /\ NoChannel \notin Channels
    /\ \A c \in Channels : Fallback[c] # c

ASSUME BoundsAssumption ==
    /\ MaxAttempts \in Nat \ {0}
    /\ MaxEvents \in Nat
    /\ NotifyOnResolve \in BOOLEAN

VARIABLES
    events,     \* id -> row of the table events
    attempts,   \* id -> row of the table delivery_attempts
    lastEvent,  \* event ids 1..lastEvent have been given out
    lastId      \* attempt ids 1..lastId have been given out (never reused)

storeVars == <<events, attempts, lastEvent, lastId>>

NoLink == 0   \* fallback_of and recovery_for are NULL

\* next_retry_at, as far as ClaimDue tells values apart: NULL, a time that has
\* come, a time still ahead.
RetryTimes == {"null", "due", "later"}

Event ==
    [key : Keys \cup {NoKey}, type : Types, severity : Severities, state : EventStates]

Attempt ==
    [event : Nat, channel : Channels, kind : DeliveryKinds, state : DeliveryStates,
     attempts : Nat, nextRetry : RetryTimes, fallbackOf : Nat, recoveryFor : Nat]
-----------------------------------------------------------------------------
(***************************** reading the tables **************************)

OpenEvents == {e \in DOMAIN events : events[e].state # "resolved"}

\* eventByDedupe: at most one row, by the partial unique index.
OpenByKey(key) == {e \in OpenEvents : key # NoKey /\ events[e].key = key}

AlertsOf(e) == {a \in DOMAIN attempts : attempts[a].event = e /\ attempts[a].kind = "alert"}

RecoveriesOf(e) == {a \in DOMAIN attempts : attempts[a].event = e /\ attempts[a].kind = "recovery"}

\* Any state counts, and so does a fallback copy.
AlertChannelNames(e) == {attempts[a].channel : a \in AlertsOf(e)}

\* Fault: an alert still in flight gets no recovery.
AlertsSent(e) == {a \in AlertsOf(e) : attempts[a].state \in {"sent", "dead_letter"}}

AlertsToRecover(e) == {a \in AlertsOf(e) : attempts[a].state # "cancelled"}

MutedAlert(a) ==
    /\ attempts[a].kind = "alert"
    /\ events[attempts[a].event].state = "muted"

\* Fault: a dead-lettered alert no longer holds its recovery.
DeliverableAfterDeadLetter(a) ==
    /\ attempts[a].state \in {"pending", "failed"}
    /\ attempts[a].nextRetry # "later"
    /\ attempts[a].kind = "recovery" =>
         attempts[attempts[a].recoveryFor].state \in {"sent", "dead_letter"}

\* Fault: a failed attempt is not taken up again.
DeliverableNeverRetried(a) ==
    /\ attempts[a].state = "pending"
    /\ attempts[a].nextRetry # "later"
    /\ attempts[a].kind = "recovery" => attempts[attempts[a].recoveryFor].state = "sent"

\* deliverableCond
Deliverable(a) ==
    /\ attempts[a].state \in {"pending", "failed"}
    /\ attempts[a].nextRetry # "later"
    /\ \/ attempts[a].kind # "recovery"
       \/ attempts[a].recoveryFor = NoLink
       \/ /\ attempts[a].recoveryFor \in DOMAIN attempts
          /\ attempts[attempts[a].recoveryFor].state = "sent"
-----------------------------------------------------------------------------
(****************************** writing rows *******************************)

Insert(table, rows) ==
    [x \in DOMAIN table \cup DOMAIN rows |-> IF x \in DOMAIN rows THEN rows[x] ELSE table[x]]

PendingAttempt(e, channel, kind, fallbackOf, recoveryFor) ==
    [event |-> e, channel |-> channel, kind |-> kind, state |-> "pending",
     attempts |-> 0, nextRetry |-> "null", fallbackOf |-> fallbackOf, recoveryFor |-> recoveryFor]

\* One pending alert of e per entry of route, except the channels in skip.
AlertRows(e, route, skip) ==
    [i \in {lastId + k : k \in {j \in DOMAIN route : route[j] \notin skip}} |->
        PendingAttempt(e, route[i - lastId], "alert", NoLink, NoLink)]

\* recoveryOf, for every alert that closing e owes a recovery.
RecoveryRows(e) ==
    [i \in {lastId + a : a \in AlertsToRecover(e)} |->
        PendingAttempt(e, attempts[i - lastId].channel, "recovery", NoLink, i - lastId)]

\* The alerts of e that mute cancels: the ones waiting to be sent.
CancelQueuedAlerts(e) ==
    [a \in DOMAIN attempts |->
        IF a \in AlertsOf(e) /\ attempts[a].state \in {"pending", "failed"}
          THEN [attempts[a] EXCEPT !.state = "cancelled", !.nextRetry = "null"]
          ELSE attempts[a]]
-----------------------------------------------------------------------------
(******************************* transactions ******************************)

StoreInit ==
    /\ events = <<>>
    /\ attempts = <<>>
    /\ lastEvent = 0
    /\ lastId = 0

\* CreateEventWithDeliveries, the transaction: the unique index on the open
\* dedupe_key refuses a second open event.
InsertEvent(key, type, severity) ==
    /\ lastEvent < MaxEvents
    /\ OpenByKey(key) = {}
    /\ LET e == lastEvent + 1
           route == Route[type][severity]
       IN /\ lastEvent' = e
          /\ events' = Insert(events, [x \in {e} |->
                [key |-> key, type |-> type, severity |-> severity, state |-> "new"]])
          /\ attempts' = Insert(attempts, AlertRows(e, route, {}))
          /\ lastId' = lastId + Len(route)

\* RefreshOpenEvent: adopt the reported severity; alert the channels of
\* alertsOnRise not alerted yet when the severity held by the row rises.
RefreshOpenEvent(e, severity, alertsOnRise) ==
    /\ e \in OpenEvents
    /\ events' = [events EXCEPT ![e].severity = severity]
    /\ LET alerted == AlertChannelNames(e)
           rises   == /\ events[e].state # "muted"
                      /\ SeverityRank(severity) > SeverityRank(events[e].severity)
       IN IF rises /\ \E k \in DOMAIN alertsOnRise : alertsOnRise[k] \notin alerted
            THEN /\ attempts' = Insert(attempts, AlertRows(e, alertsOnRise, alerted))
                 /\ lastId' = lastId + Len(alertsOnRise)
            ELSE UNCHANGED <<attempts, lastId>>
    /\ UNCHANGED lastEvent

\* Fault: the update is not conditional on the state that was read.
TransitionUnconditionally(e, from, to, cancelAlerts, recover) ==
    /\ e \in DOMAIN events
    /\ events' = [events EXCEPT ![e].state = to]
    /\ attempts' = Insert(IF cancelAlerts THEN CancelQueuedAlerts(e) ELSE attempts,
                          IF recover THEN RecoveryRows(e) ELSE <<>>)
    /\ lastId' = IF recover THEN 2 * lastId ELSE lastId
    /\ UNCHANGED lastEvent

\* TransitionEvent: a conditional update on the state the caller read, with
\* the cancellations of a mute and the recoveries of a close in the same
\* transaction.
TransitionEvent(e, from, to, cancelAlerts, recover) ==
    /\ e \in DOMAIN events
    /\ events[e].state = from
    /\ events' = [events EXCEPT ![e].state = to]
    /\ attempts' = Insert(IF cancelAlerts THEN CancelQueuedAlerts(e) ELSE attempts,
                          IF recover THEN RecoveryRows(e) ELSE <<>>)
    /\ lastId' = IF recover THEN 2 * lastId ELSE lastId
    /\ UNCHANGED lastEvent

\* Fault: the claimed rows are returned but not marked.
ClaimUnmarked(claim) ==
    /\ claim \subseteq {a \in DOMAIN attempts : Deliverable(a)}
    /\ UNCHANGED storeVars

\* ClaimDue: the rows in claim become `sending`.
ClaimDue(claim) ==
    /\ claim \subseteq {a \in DOMAIN attempts : Deliverable(a)}
    /\ attempts' = [a \in DOMAIN attempts |->
            IF a \in claim THEN [attempts[a] EXCEPT !.state = "sending"] ELSE attempts[a]]
    /\ UNCHANGED <<events, lastEvent, lastId>>

\* Fault: no unique index on fallback_of.
NeverRedirected(a) == FALSE

\* The unique index on fallback_of holds a copy of a.
Redirected(a) == \E c \in DOMAIN attempts : attempts[c].fallbackOf = a

\* Fault: the copy of an alert of a closed incident gets no recovery.
FallbackWithoutRecovery(a, channel) ==
    [i \in {lastId + 1} |-> PendingAttempt(attempts[a].event, channel, "alert", a, NoLink)]

\* queueFallback: the copy of a on channel, with its own recovery when the
\* incident is closed and has recoveries at all.
FallbackRows(a, channel) ==
    LET e    == attempts[a].event
        copy == lastId + 1
        late == events[e].state = "resolved" /\ RecoveriesOf(e) # {}
    IN [i \in IF late THEN {copy, copy + 1} ELSE {copy} |->
            IF i = copy THEN PendingAttempt(e, channel, "alert", a, NoLink)
                        ELSE PendingAttempt(e, channel, "recovery", NoLink, copy)]

\* MarkResult: the row must still be `sending`.  An alert that did not go out
\* while its incident is muted is cancelled instead.
MarkResult(a, result, count, retry, fallback) ==
    /\ a \in DOMAIN attempts
    /\ attempts[a].state = "sending"
    /\ LET cancel == result # "sent" /\ MutedAlert(a)
           stored == IF cancel THEN "cancelled" ELSE result
           marked == [attempts EXCEPT ![a].state = stored, ![a].attempts = count,
                                      ![a].nextRetry = IF cancel THEN "null" ELSE retry]
       IN IF stored = "dead_letter" /\ fallback # NoChannel /\ ~Redirected(a)
            THEN /\ attempts' = Insert(marked, FallbackRows(a, fallback))
                 /\ lastId' = lastId + 2
            ELSE attempts' = marked /\ UNCHANGED lastId
    /\ UNCHANGED <<events, lastEvent>>

\* Fault: a replay keeps the tries already used.
ReplayKeepingTries(a) ==
    /\ attempts[a].state = "dead_letter"
    /\ attempts' = [attempts EXCEPT ![a].state = "pending", ![a].nextRetry = "due"]
    /\ UNCHANGED <<events, lastEvent, lastId>>

\* Replay: by hand, only from dead_letter, due at once.
Replay(a) ==
    /\ attempts[a].state = "dead_letter"
    /\ attempts' = [attempts EXCEPT ![a].state = "pending", ![a].attempts = 0,
                                    ![a].nextRetry = "due"]
    /\ UNCHANGED <<events, lastEvent, lastId>>

\* Fault: the reaper does not look at mute.
RequeueIgnoringMute(stale) ==
    /\ stale \subseteq {a \in DOMAIN attempts : attempts[a].state = "sending"}
    /\ attempts' = [a \in DOMAIN attempts |->
            IF a \in stale THEN [attempts[a] EXCEPT !.state = "pending"] ELSE attempts[a]]
    /\ UNCHANGED <<events, lastEvent, lastId>>

\* RequeueStuckSending: one statement over the stale `sending` rows.
RequeueStuckSending(stale) ==
    /\ stale \subseteq {a \in DOMAIN attempts : attempts[a].state = "sending"}
    /\ attempts' = [a \in DOMAIN attempts |->
            IF a \notin stale THEN attempts[a]
            ELSE IF MutedAlert(a)
                   THEN [attempts[a] EXCEPT !.state = "cancelled", !.nextRetry = "null"]
                   ELSE [attempts[a] EXCEPT !.state = "pending"]]
    /\ UNCHANGED <<events, lastEvent, lastId>>

\* DeleteEventsBefore: one batch; the foreign key cascades to the attempts.
\* Any event may be old enough: the time between two steps is arbitrary.
DeleteEvents(old) ==
    /\ events' = [e \in DOMAIN events \ old |-> events[e]]
    /\ attempts' = [a \in {x \in DOMAIN attempts : attempts[x].event \notin old} |-> attempts[a]]
    /\ UNCHANGED <<lastEvent, lastId>>

\* Time passes: next_retry_at of a row is reached.
RetryTimeComes(a) ==
    /\ attempts[a].nextRetry = "later"
    /\ attempts' = [attempts EXCEPT ![a].nextRetry = "due"]
    /\ UNCHANGED <<events, lastEvent, lastId>>
-----------------------------------------------------------------------------
(***************************************************************************)
(* What the services ask of the store.                                     *)
(***************************************************************************)

\* RecoveryNotifier.attemptsFor: closing notifies for an incident that was not
\* muted, however it is closed.
NotifiesOnClose(type, from) == NotifyOnResolve /\ type = "incident" /\ from # "muted"

\* The write of service.transition.
Transition(e, from, to) ==
    TransitionEvent(e, from, to, to = "muted",
                    to = "resolved" /\ NotifiesOnClose(events[e].type, from))

\* Worker.fallbackFor: only an alert, and a copy goes nowhere further.
FallbackFor(a) ==
    IF attempts[a].kind = "alert" /\ attempts[a].fallbackOf = NoLink
      THEN Fallback[attempts[a].channel] ELSE NoChannel

\* Worker.process and save, after a send of attempt a claimed with the count
\* of earlier tries: it went out,
SaveSent(a, count) == MarkResult(a, "sent", count + 1, "null", NoChannel)

\* or failed,
SaveFailed(a, count) ==
    IF count + 1 >= MaxAttempts
      THEN MarkResult(a, "dead_letter", count + 1, "null", FallbackFor(a))
      ELSE MarkResult(a, "failed", count + 1, "later", NoChannel)

\* or was cut short by the shutdown, and goes back as it was claimed.
HandBack(a, count, retry) == MarkResult(a, "pending", count, retry, NoChannel)

\* Fault: the error of ApplyAction is not looked at.
TargetsUnchecked(e) == {"resolved"} \cup {ApplyAction(events[e].state, act) : act \in Actions}

\* The targets a request may move event e to: an action on an incident, or a
\* `resolved` report on an event of any type.
Targets(e) ==
    ( {"resolved"}
      \cup (IF CheckActionAllowed(events[e].type)
              THEN {ApplyAction(events[e].state, act) : act \in Actions} ELSE {}) )
    \ {Refused, events[e].state}

\* IngestService.refresh builds alerts for a rise of an incident only.
AlertsOnRise(e, severity) ==
    {<<>>} \cup (IF events[e].type = "incident" THEN {Route["incident"][severity]} ELSE {})

ANonEmptySubset(S) == (SUBSET S) \ {{}}

CreateStep ==
    \E key \in Keys \cup {NoKey}, type \in Types, severity \in Severities :
        InsertEvent(key, type, severity)

\* Only an event found by its key is reported again.
RefreshStep ==
    \E e \in DOMAIN events, severity \in Severities :
        /\ events[e].key # NoKey
        /\ \E alerts \in AlertsOnRise(e, severity) : RefreshOpenEvent(e, severity, alerts)

TransitionStep ==
    \E e \in DOMAIN events : \E to \in Targets(e) : Transition(e, events[e].state, to)

ClaimStep ==
    \E claim \in ANonEmptySubset({a \in DOMAIN attempts : Deliverable(a)}) : ClaimDue(claim)

ResultStep ==
    \E a \in DOMAIN attempts, count \in 0 .. MaxAttempts - 1 :
        \/ SaveSent(a, count)
        \/ SaveFailed(a, count)
        \/ \E retry \in {"null", "due"} : HandBack(a, count, retry)

ReplayStep == \E a \in DOMAIN attempts : Replay(a)

RequeueStep ==
    \E stale \in ANonEmptySubset({a \in DOMAIN attempts : attempts[a].state = "sending"}) :
        RequeueStuckSending(stale)

RetentionStep == \E old \in ANonEmptySubset(DOMAIN events) : DeleteEvents(old)

TimeStep == \E a \in DOMAIN attempts : RetryTimeComes(a)

StoreNext ==
    \/ CreateStep
    \/ RefreshStep
    \/ TransitionStep
    \/ ClaimStep
    \/ ResultStep
    \/ ReplayStep
    \/ RequeueStep
    \/ RetentionStep
    \/ TimeStep

StoreSpec == StoreInit /\ [][StoreNext]_storeVars
-----------------------------------------------------------------------------
(******************************* properties ********************************)

\* The tables hold rows of their types, under ids given out before.
StoreTypeOK ==
    /\ lastEvent \in Nat
    /\ lastId \in Nat
    /\ events \in [DOMAIN events -> Event]
    /\ DOMAIN events \subseteq 1 .. lastEvent
    /\ attempts \in [DOMAIN attempts -> Attempt]
    /\ DOMAIN attempts \subseteq 1 .. lastId

\* A recovery leaves the queue only after its own alert was sent: whatever was
\* retried, dead-lettered, replayed, requeued or redirected in between, no
\* recovery that a worker ever took follows an alert that is not `sent`
\* (deliverableCond, claim.go: "no recovery goes out ahead of its alert").
RecoveryAfterAlert ==
    \A r \in DOMAIN attempts :
        /\ attempts[r].kind = "recovery"
        /\ attempts[r].state # "pending" \/ attempts[r].attempts > 0
        => /\ attempts[r].recoveryFor \in DOMAIN attempts
           /\ attempts[attempts[r].recoveryFor].state = "sent"

\* A recovery follows an alert of its own event (recovery_for); with it,
\* RecoveryAfterAlert is inductive.
RecoveryLinked ==
    \A r \in DOMAIN attempts : attempts[r].kind = "recovery" =>
        LET a == attempts[r].recoveryFor
        IN /\ a \in DOMAIN attempts
           /\ attempts[a].kind = "alert"
           /\ attempts[a].event = attempts[r].event

\* Closing is announced completely and once: when an incident has a recovery
\* at all, it is resolved, every alert of it that was not cancelled, fallback
\* copies queued after the close included, has exactly one recovery on its own
\* channel, and a cancelled alert has none (TransitionEvent, queueFallback).
EveryAlertRecoveredOnce ==
    \A e \in DOMAIN events : RecoveriesOf(e) # {} =>
        /\ events[e].state = "resolved"
        /\ \A a \in AlertsOf(e) :
              LET its == {r \in RecoveriesOf(e) : attempts[r].recoveryFor = a}
              IN IF attempts[a].state = "cancelled" THEN its = {}
                 ELSE \E r \in its : its = {r} /\ attempts[r].channel = attempts[a].channel

\* While an incident is muted none of its alerts waits to be sent, except one
\* an operator replayed after the mute (pending again from zero, due at once):
\* mute, the failing worker, the reaper and a rising severity all agree
\* (TransitionEvent, MarkResult, RequeueStuckSending, RefreshOpenEvent).
MutedIsQuiet ==
    \A a \in DOMAIN attempts :
        MutedAlert(a) /\ attempts[a].state \in {"pending", "failed"}
        => attempts[a].state = "pending" /\ attempts[a].attempts = 0 /\ attempts[a].nextRetry = "due"

\* A dead-lettered alert whose channel has a fallback is never lost silently:
\* its copy is in the queue, on the fallback channel, exactly once, however
\* often the alert was replayed, and a copy is never copied again
\* (MarkResult, queueFallback, fallbackFor).
DeadLetterRedirected ==
    \A a \in DOMAIN attempts :
        LET copies == {c \in DOMAIN attempts : attempts[c].fallbackOf = a}
        IN /\ \A c, d \in copies : c = d
           /\ \A c \in copies : /\ attempts[a].fallbackOf = NoLink
                                 /\ attempts[c].channel = Fallback[attempts[a].channel]
           /\ (attempts[a].state = "dead_letter" /\ FallbackFor(a) # NoChannel) => copies # {}

\* The try budget: a row a worker may take has a try left, and only a row
\* without one is dead-lettered, whatever shutdowns, requeues and replays
\* happened (process, Replay, RequeueStuckSending).
BudgetKept ==
    \A a \in DOMAIN attempts :
        /\ attempts[a].state \in {"pending", "sending", "failed"} => attempts[a].attempts < MaxAttempts
        /\ attempts[a].state = "dead_letter" => attempts[a].attempts = MaxAttempts

\* At most one open event carries a dedupe key, although closing frees the key
\* and unmute, ack and escalate change states without looking at it.
OneOpenPerKey == \A key \in Keys : \A d, e \in OpenByKey(key) : d = e
=============================================================================
