----------------------------- MODULE StoreProofs -----------------------------
(***************************************************************************)
(* Theorems about Store, for every set of keys, channels and severities,   *)
(* every route and fallback, and every number of events and tries.         *)
(***************************************************************************)
EXTENDS Store, TLAPS

USE DEF NoLink

\* The empty table.
LEMMA EmptyTable == /\ DOMAIN <<>> = {}
                    /\ \A T : <<>> \in [DOMAIN <<>> -> T]
    OBVIOUS

(***************************************************************************)
(* A new pending row has the type of the table.                            *)
(***************************************************************************)
LEMMA PendingType ==
    ASSUME NEW e \in Nat, NEW channel \in Channels, NEW kind \in DeliveryKinds,
           NEW fallbackOf \in Nat, NEW recoveryFor \in Nat
    PROVE  PendingAttempt(e, channel, kind, fallbackOf, recoveryFor) \in Attempt
    BY DEF PendingAttempt, Attempt, DeliveryStates, RetryTimes

(***************************************************************************)
(* The rows a route adds: fresh ids, and the type of the table.            *)
(***************************************************************************)
LEMMA AlertRowsType ==
    ASSUME StoreTypeOK, NEW e \in Nat, NEW route \in Seq(Channels), NEW skip
    PROVE  /\ AlertRows(e, route, skip) \in [DOMAIN AlertRows(e, route, skip) -> Attempt]
           /\ DOMAIN AlertRows(e, route, skip) \subseteq (lastId + 1) .. (lastId + Len(route))
  <1> DEFINE ids == {lastId + k : k \in {j \in DOMAIN route : route[j] \notin skip}}
  <1>1. DOMAIN route = 1 .. Len(route) /\ Len(route) \in Nat
    OBVIOUS
  <1>2. lastId \in Nat
    BY DEF StoreTypeOK
  <1>3. ids \subseteq (lastId + 1) .. (lastId + Len(route))
    BY <1>1, <1>2
  <1>4. \A i \in ids : route[i - lastId] \in Channels
    BY <1>1, <1>2
  <1>5. \A i \in ids : PendingAttempt(e, route[i - lastId], "alert", NoLink, NoLink) \in Attempt
    BY <1>4, PendingType DEF DeliveryKinds
  <1> QED
    BY <1>3, <1>5 DEF AlertRows

LEMMA RecoveryRowsType ==
    ASSUME StoreTypeOK, NEW e \in Nat
    PROVE  /\ RecoveryRows(e) \in [DOMAIN RecoveryRows(e) -> Attempt]
           /\ DOMAIN RecoveryRows(e) = {lastId + a : a \in AlertsToRecover(e)}
           /\ DOMAIN RecoveryRows(e) \subseteq (lastId + 1) .. (2 * lastId)
  <1> DEFINE ids == {lastId + a : a \in AlertsToRecover(e)}
  <1>1. AlertsToRecover(e) \subseteq DOMAIN attempts /\ AlertsToRecover(e) \subseteq 1 .. lastId
    BY DEF AlertsToRecover, AlertsOf, StoreTypeOK
  <1>2. lastId \in Nat
    BY DEF StoreTypeOK
  <1>3. ids \subseteq (lastId + 1) .. (2 * lastId)
    BY <1>1, <1>2
  <1>4. \A i \in ids : i - lastId \in DOMAIN attempts /\ i - lastId \in Nat
    BY <1>1, <1>2
  <1>5. \A i \in ids : attempts[i - lastId].channel \in Channels
    BY <1>4 DEF StoreTypeOK, Attempt
  <1>6. \A i \in ids :
            PendingAttempt(e, attempts[i - lastId].channel, "recovery", NoLink, i - lastId) \in Attempt
    BY <1>4, <1>5, PendingType DEF DeliveryKinds
  <1> QED
    BY <1>3, <1>6 DEF RecoveryRows

LEMMA FallbackRowsType ==
    ASSUME StoreTypeOK, NEW a \in DOMAIN attempts, NEW channel \in Channels
    PROVE  /\ FallbackRows(a, channel) \in [DOMAIN FallbackRows(a, channel) -> Attempt]
           /\ DOMAIN FallbackRows(a, channel) \subseteq {lastId + 1, lastId + 2}
  <1>1. lastId \in Nat /\ attempts[a].event \in Nat /\ a \in Nat
    BY DEF StoreTypeOK, Attempt
  <1>2. /\ PendingAttempt(attempts[a].event, channel, "alert", a, NoLink) \in Attempt
        /\ PendingAttempt(attempts[a].event, channel, "recovery", NoLink, lastId + 1) \in Attempt
    BY <1>1, PendingType DEF DeliveryKinds
  <1> QED
    BY <1>1, <1>2 DEF FallbackRows
-----------------------------------------------------------------------------
(***************************************************************************)
(* Type correctness, one lemma per transaction.                            *)
(***************************************************************************)

LEMMA InsertEventType ==
    ASSUME StoreTypeOK, NEW key \in Keys \cup {NoKey}, NEW type \in Types,
           NEW severity \in Severities, InsertEvent(key, type, severity)
    PROVE  StoreTypeOK'
  <1> DEFINE route == Route[type][severity]
             e == lastEvent + 1
             row == [key |-> key, type |-> type, severity |-> severity, state |-> "new"]
             new == [x \in {e} |-> row]
  <1>1. route \in Seq(Channels) /\ Len(route) \in Nat
    BY RouteAssumption
  <1>2. e \in Nat /\ lastEvent \in Nat /\ lastId \in Nat
    BY DEF StoreTypeOK
  <1>3. new \in [DOMAIN new -> Event] /\ DOMAIN new = {e}
    BY DEF Event, EventStates
  <1>4. /\ events' = Insert(events, new)
        /\ attempts' = Insert(attempts, AlertRows(e, route, {}))
        /\ lastEvent' = e
        /\ lastId' = lastId + Len(route)
    BY DEF InsertEvent
  <1>5. events' \in [DOMAIN events' -> Event] /\ DOMAIN events' = DOMAIN events \cup {e}
    BY <1>3, <1>4 DEF StoreTypeOK, Insert
  <1>6. /\ AlertRows(e, route, {}) \in [DOMAIN AlertRows(e, route, {}) -> Attempt]
        /\ DOMAIN AlertRows(e, route, {}) \subseteq (lastId + 1) .. (lastId + Len(route))
    BY <1>1, <1>2, AlertRowsType
  <1>7. /\ attempts' \in [DOMAIN attempts' -> Attempt]
        /\ DOMAIN attempts' = DOMAIN attempts \cup DOMAIN AlertRows(e, route, {})
    BY <1>4, <1>6 DEF StoreTypeOK, Insert
  <1>8. DOMAIN events' \subseteq 1 .. lastEvent' /\ DOMAIN attempts' \subseteq 1 .. lastId'
    BY <1>1, <1>2, <1>4, <1>5, <1>6, <1>7 DEF StoreTypeOK
  <1>9. lastEvent' \in Nat /\ lastId' \in Nat
    BY <1>1, <1>2, <1>4
  <1> QED
    BY <1>5, <1>7, <1>8, <1>9 DEF StoreTypeOK

LEMMA RefreshType ==
    ASSUME StoreTypeOK, NEW e \in DOMAIN events, NEW severity \in Severities,
           NEW alerts \in Seq(Channels), RefreshOpenEvent(e, severity, alerts)
    PROVE  StoreTypeOK'
  <1> DEFINE rows == AlertRows(e, alerts, AlertChannelNames(e))
  <1>1. lastEvent \in Nat /\ lastId \in Nat /\ e \in Nat /\ Len(alerts) \in Nat
    BY DEF StoreTypeOK
  <1>2. events' \in [DOMAIN events' -> Event] /\ DOMAIN events' = DOMAIN events
    BY DEF RefreshOpenEvent, StoreTypeOK, Event
  <1>3. rows \in [DOMAIN rows -> Attempt] /\ DOMAIN rows \subseteq (lastId + 1) .. (lastId + Len(alerts))
    BY <1>1, AlertRowsType
  <1>4. CASE attempts' = Insert(attempts, rows) /\ lastId' = lastId + Len(alerts)
    <2>1. attempts' \in [DOMAIN attempts' -> Attempt] /\ DOMAIN attempts' = DOMAIN attempts \cup DOMAIN rows
      BY <1>3, <1>4 DEF StoreTypeOK, Insert
    <2>2. DOMAIN attempts' \subseteq 1 .. lastId' /\ lastId' \in Nat
      BY <1>1, <1>3, <1>4, <2>1 DEF StoreTypeOK
    <2> QED
      BY <1>2, <2>1, <2>2 DEF StoreTypeOK, RefreshOpenEvent
  <1>5. CASE UNCHANGED <<attempts, lastId>>
    BY <1>2, <1>5 DEF StoreTypeOK, RefreshOpenEvent
  <1> QED
    BY <1>4, <1>5 DEF RefreshOpenEvent

LEMMA CancelType ==
    ASSUME StoreTypeOK, NEW e
    PROVE  CancelQueuedAlerts(e) \in [DOMAIN attempts -> Attempt]
    BY ZenonT(30) DEF CancelQueuedAlerts, StoreTypeOK, Attempt, DeliveryStates, RetryTimes

LEMMA TransitionType ==
    ASSUME StoreTypeOK, NEW e \in DOMAIN events, NEW from, NEW to \in EventStates,
           NEW cancelAlerts \in BOOLEAN, NEW recover \in BOOLEAN,
           TransitionEvent(e, from, to, cancelAlerts, recover)
    PROVE  StoreTypeOK'
  <1> DEFINE old  == IF cancelAlerts THEN CancelQueuedAlerts(e) ELSE attempts
             rows == IF recover THEN RecoveryRows(e) ELSE <<>>
  <1>1. lastEvent \in Nat /\ lastId \in Nat /\ e \in Nat
    BY DEF StoreTypeOK
  <1>2. events' \in [DOMAIN events' -> Event] /\ DOMAIN events' = DOMAIN events
    BY DEF TransitionEvent, StoreTypeOK, Event
  <1>3. old \in [DOMAIN old -> Attempt] /\ DOMAIN old = DOMAIN attempts
    BY CancelType DEF StoreTypeOK
  <1>4. rows \in [DOMAIN rows -> Attempt]
        /\ DOMAIN rows \subseteq (lastId + 1) .. (IF recover THEN 2 * lastId ELSE lastId)
    BY <1>1, RecoveryRowsType, EmptyTable
  <1>5. attempts' = Insert(old, rows) /\ lastId' = IF recover THEN 2 * lastId ELSE lastId
    BY DEF TransitionEvent
  <1>6. attempts' \in [DOMAIN attempts' -> Attempt] /\ DOMAIN attempts' = DOMAIN attempts \cup DOMAIN rows
    BY <1>3, <1>4, <1>5 DEF Insert
  <1>7. DOMAIN attempts' \subseteq 1 .. lastId' /\ lastId' \in Nat
    BY <1>1, <1>4, <1>5, <1>6 DEF StoreTypeOK
  <1> QED
    BY <1>2, <1>6, <1>7 DEF StoreTypeOK, TransitionEvent

LEMMA MarkResultType ==
    ASSUME StoreTypeOK, NEW a \in DOMAIN attempts, NEW result \in DeliveryStates,
           NEW count \in Nat, NEW retry \in RetryTimes, NEW fallback \in Channels \cup {NoChannel},
           MarkResult(a, result, count, retry, fallback)
    PROVE  StoreTypeOK'
  <1> DEFINE cancel == result # "sent" /\ MutedAlert(a)
             stored == IF cancel THEN "cancelled" ELSE result
             marked == [attempts EXCEPT ![a].state = stored, ![a].attempts = count,
                                        ![a].nextRetry = IF cancel THEN "null" ELSE retry]
             rows == FallbackRows(a, fallback)
  <1>1. lastId \in Nat
    BY DEF StoreTypeOK
  <1>2. stored \in DeliveryStates /\ (IF cancel THEN "null" ELSE retry) \in RetryTimes
    BY DEF DeliveryStates, RetryTimes
  <1>3. marked \in [DOMAIN attempts -> Attempt]
    <2> DEFINE later == IF cancel THEN "null" ELSE retry
    <2>1. stored \in DeliveryStates /\ later \in RetryTimes
      BY <1>2
    <2>2. attempts \in [DOMAIN attempts -> Attempt]
      BY DEF StoreTypeOK
    <2> HIDE DEF stored, cancel, later
    <2>3. [attempts[a] EXCEPT !.state = stored, !.attempts = count, !.nextRetry = later] \in Attempt
      BY <2>1, <2>2 DEF Attempt
    <2>4. marked = [attempts EXCEPT ![a] =
                      [attempts[a] EXCEPT !.state = stored, !.attempts = count, !.nextRetry = later]]
      BY <2>2 DEF later, Attempt
    <2> QED
      BY <2>2, <2>3, <2>4
  <1>4. CASE fallback # NoChannel /\ attempts' = Insert(marked, rows) /\ lastId' = lastId + 2
    <2>1. rows \in [DOMAIN rows -> Attempt] /\ DOMAIN rows \subseteq {lastId + 1, lastId + 2}
      BY <1>4, FallbackRowsType
    <2>2. attempts' \in [DOMAIN attempts' -> Attempt] /\ DOMAIN attempts' = DOMAIN attempts \cup DOMAIN rows
      <3> HIDE DEF marked, rows
      <3> QED BY <1>3, <1>4, <2>1 DEF Insert
    <2>3. DOMAIN attempts' \subseteq 1 .. lastId' /\ lastId' \in Nat
      <3> HIDE DEF marked, rows
      <3> QED BY <1>1, <1>4, <2>1, <2>2 DEF StoreTypeOK
    <2> QED
      BY <2>2, <2>3 DEF StoreTypeOK, MarkResult
  <1>5. CASE attempts' = marked /\ UNCHANGED lastId
    <2> HIDE DEF marked
    <2> QED BY <1>3, <1>5 DEF StoreTypeOK, MarkResult
  <1> QED
    BY <1>4, <1>5 DEF MarkResult

\* The other transactions write into single rows, or remove rows.
LEMMA RowUpdatesType ==
    ASSUME StoreTypeOK
    PROVE  /\ \A claim : ClaimDue(claim) => StoreTypeOK'
           /\ \A a \in DOMAIN attempts : Replay(a) => StoreTypeOK'
           /\ \A stale : RequeueStuckSending(stale) => StoreTypeOK'
           /\ \A old : DeleteEvents(old) => StoreTypeOK'
           /\ \A a \in DOMAIN attempts : RetryTimeComes(a) => StoreTypeOK'
  <1>1. ASSUME NEW claim, ClaimDue(claim) PROVE StoreTypeOK'
    BY <1>1 DEF ClaimDue, StoreTypeOK, Attempt, DeliveryStates
  <1>2. ASSUME NEW a \in DOMAIN attempts, Replay(a) PROVE StoreTypeOK'
    BY <1>2 DEF Replay, StoreTypeOK, Attempt, DeliveryStates, RetryTimes
  <1>3. ASSUME NEW stale, RequeueStuckSending(stale) PROVE StoreTypeOK'
    <2>1. \A a \in DOMAIN attempts :
              /\ [attempts[a] EXCEPT !.state = "cancelled", !.nextRetry = "null"] \in Attempt
              /\ [attempts[a] EXCEPT !.state = "pending"] \in Attempt
              /\ attempts[a] \in Attempt
      BY DEF StoreTypeOK, Attempt, DeliveryStates, RetryTimes
    <2>2. DOMAIN attempts' = DOMAIN attempts /\ UNCHANGED <<events, lastEvent, lastId>>
      BY <1>3 DEF RequeueStuckSending
    <2>3. attempts' \in [DOMAIN attempts -> Attempt]
      BY <1>3, <2>1 DEF RequeueStuckSending
    <2> QED
      BY <2>2, <2>3 DEF StoreTypeOK
  <1>4. ASSUME NEW old, DeleteEvents(old) PROVE StoreTypeOK'
    BY <1>4 DEF DeleteEvents, StoreTypeOK
  <1>5. ASSUME NEW a \in DOMAIN attempts, RetryTimeComes(a) PROVE StoreTypeOK'
    BY <1>5 DEF RetryTimeComes, StoreTypeOK, Attempt, RetryTimes
  <1> QED
    BY <1>1, <1>2, <1>3, <1>4, <1>5

\* What the services ask for has the types the transactions expect.
LEMMA TargetsType ==
    ASSUME StoreTypeOK, NEW e \in DOMAIN events
    PROVE  Targets(e) \subseteq EventStates \ {"refused", events[e].state}
  <1>1. \A s, act : act \in EventActions => ApplyAction(s, act) \in EventStates \cup {Refused}
    BY DEF ApplyAction, EventActions, EventStates
  <1> QED
    BY <1>1, RouteAssumption DEF Targets, EventStates, Refused

LEMMA FallbackForType ==
    ASSUME StoreTypeOK, NEW a \in DOMAIN attempts
    PROVE  FallbackFor(a) \in Channels \cup {NoChannel}
    BY FallbackAssumption DEF FallbackFor, StoreTypeOK, Attempt

LEMMA AlertsOnRiseType ==
    ASSUME StoreTypeOK, NEW e \in DOMAIN events, NEW severity \in Severities
    PROVE  AlertsOnRise(e, severity) \subseteq Seq(Channels)
  <1>1. <<>> \in Seq(Channels)
    OBVIOUS
  <1>2. ASSUME events[e].type = "incident" PROVE Route["incident"][severity] \in Seq(Channels)
    <2>1. "incident" \in Types
      BY <1>2 DEF StoreTypeOK, Event
    <2> QED BY <2>1, RouteAssumption
  <1> QED
    BY <1>1, <1>2 DEF AlertsOnRise

LEMMA StoreTypeStep ==
    ASSUME StoreTypeOK, [StoreNext]_storeVars
    PROVE  StoreTypeOK'
  <1>1. CASE CreateStep
    BY <1>1, InsertEventType DEF CreateStep
  <1>2. CASE RefreshStep
    <2>1. PICK e \in DOMAIN events, severity \in Severities :
              \E alerts \in AlertsOnRise(e, severity) : RefreshOpenEvent(e, severity, alerts)
      BY <1>2 DEF RefreshStep
    <2> QED
      BY <2>1, AlertsOnRiseType, RefreshType
  <1>3. CASE TransitionStep
    <2>1. PICK e \in DOMAIN events : \E to \in Targets(e) : Transition(e, events[e].state, to)
      BY <1>3 DEF TransitionStep
    <2>2. PICK to \in EventStates : Transition(e, events[e].state, to)
      BY <2>1, TargetsType
    <2> QED
      BY <2>2, TransitionType DEF Transition
  <1>4. CASE ClaimStep
    BY <1>4, RowUpdatesType DEF ClaimStep
  <1>5. CASE ResultStep
    <2>1. PICK a \in DOMAIN attempts, count \in 0 .. MaxAttempts - 1 :
              \/ SaveSent(a, count)
              \/ SaveFailed(a, count)
              \/ \E retry \in {"null", "due"} : HandBack(a, count, retry)
      BY <1>5 DEF ResultStep
    <2>2. count \in Nat /\ count + 1 \in Nat
      BY BoundsAssumption
    <2>3. /\ FallbackFor(a) \in Channels \cup {NoChannel}
          /\ NoChannel \in Channels \cup {NoChannel}
          /\ {"sent", "failed", "dead_letter", "pending"} \subseteq DeliveryStates
          /\ {"null", "due", "later"} \subseteq RetryTimes
      BY FallbackForType DEF DeliveryStates, RetryTimes
    <2>4. CASE SaveSent(a, count)
      BY <2>2, <2>3, <2>4, MarkResultType DEF SaveSent
    <2>5. CASE SaveFailed(a, count)
      BY <2>2, <2>3, <2>5, MarkResultType DEF SaveFailed
    <2>6. ASSUME NEW retry \in {"null", "due"}, HandBack(a, count, retry) PROVE StoreTypeOK'
      BY <2>2, <2>3, <2>6, MarkResultType DEF HandBack
    <2> QED
      BY <2>1, <2>4, <2>5, <2>6
  <1>6. CASE ReplayStep
    BY <1>6, RowUpdatesType DEF ReplayStep
  <1>7. CASE RequeueStep
    BY <1>7, RowUpdatesType DEF RequeueStep
  <1>8. CASE RetentionStep
    BY <1>8, RowUpdatesType DEF RetentionStep
  <1>9. CASE TimeStep
    BY <1>9, RowUpdatesType DEF TimeStep
  <1>10. CASE UNCHANGED storeVars
    BY <1>10 DEF storeVars, StoreTypeOK
  <1> QED
    BY <1>1, <1>2, <1>3, <1>4, <1>5, <1>6, <1>7, <1>8, <1>9, <1>10 DEF StoreNext

(***************************************************************************)
(* The tables keep their types, whatever the services ask for.             *)
(***************************************************************************)
THEOREM StoreTypeCorrect == StoreSpec => []StoreTypeOK
  <1>1. StoreInit => StoreTypeOK
    BY EmptyTable DEF StoreInit, StoreTypeOK
  <1>2. StoreTypeOK /\ [StoreNext]_storeVars => StoreTypeOK'
    BY StoreTypeStep
  <1> QED
    BY <1>1, <1>2, PTL DEF StoreSpec
-----------------------------------------------------------------------------
(***************************************************************************)
(* No recovery ahead of its alert.                                         *)
(*                                                                         *)
(* RecoveryAfterAlert needs RecoveryLinked to be inductive: what keeps a   *)
(* recovery's alert `sent` is that no transaction takes a row out of       *)
(* `sent`, and that retention removes both together, because they belong   *)
(* to one event.  Every transaction moves the queue by a step that         *)
(* respects recoveries:                                                    *)
(***************************************************************************)

\* A worker took the recovery r at least once.
Taken(r) == attempts[r].state # "pending" \/ attempts[r].attempts > 0

\* A row that stays keeps its links and stays sent, and a recovery is taken
\* only when it is deliverable.
RowsRespected ==
    \A x \in DOMAIN attempts \cap DOMAIN attempts' :
        /\ attempts'[x].event = attempts[x].event
        /\ attempts'[x].kind = attempts[x].kind
        /\ attempts'[x].recoveryFor = attempts[x].recoveryFor
        /\ attempts[x].state = "sent" => attempts'[x].state = "sent"
        /\ attempts[x].kind = "recovery" /\ Taken(x)' => Taken(x) \/ Deliverable(x)

\* Rows go together with the whole event.
RemovedTogether ==
    \A x \in DOMAIN attempts \cap DOMAIN attempts', y \in DOMAIN attempts :
        attempts[x].event = attempts[y].event => y \in DOMAIN attempts'

\* A new recovery is pending and follows an alert of its event.
NewRowsRespect ==
    \A x \in DOMAIN attempts' \ DOMAIN attempts :
        attempts'[x].kind = "recovery" =>
            /\ attempts'[x].state = "pending" /\ attempts'[x].attempts = 0
            /\ attempts'[x].recoveryFor \in DOMAIN attempts'
            /\ attempts'[attempts'[x].recoveryFor].kind = "alert"
            /\ attempts'[attempts'[x].recoveryFor].event = attempts'[x].event

RespectsRecoveries == RowsRespected /\ RemovedTogether /\ NewRowsRespect

LEMMA RecoveryStep ==
    ASSUME StoreTypeOK, RecoveryLinked, RecoveryAfterAlert, RespectsRecoveries
    PROVE  RecoveryLinked' /\ RecoveryAfterAlert'
  <1>1. ASSUME NEW r \in DOMAIN attempts', attempts'[r].kind = "recovery"
        PROVE  LET a == attempts'[r].recoveryFor
               IN /\ a \in DOMAIN attempts'
                  /\ attempts'[a].kind = "alert"
                  /\ attempts'[a].event = attempts'[r].event
                  /\ Taken(r)' => attempts'[a].state = "sent"
    <2> DEFINE a == attempts[r].recoveryFor
    <2>1. CASE r \in DOMAIN attempts
      <3>1. attempts[r].kind = "recovery" /\ attempts'[r].recoveryFor = a
            /\ attempts'[r].event = attempts[r].event
        BY <1>1, <2>1 DEF RespectsRecoveries, RowsRespected
      <3>2. a \in DOMAIN attempts /\ attempts[a].kind = "alert" /\ attempts[a].event = attempts[r].event
        BY <2>1, <3>1 DEF RecoveryLinked
      <3>3. a \in DOMAIN attempts'
        BY <1>1, <2>1, <3>2 DEF RespectsRecoveries, RemovedTogether
      <3>4. attempts'[a].kind = "alert" /\ attempts'[a].event = attempts[r].event
        BY <3>2, <3>3 DEF RespectsRecoveries, RowsRespected
      <3>5. ASSUME Taken(r)' PROVE attempts'[a].state = "sent"
        <4>1. Taken(r) \/ Deliverable(r)
          BY <1>1, <2>1, <3>1, <3>5 DEF RespectsRecoveries, RowsRespected
        <4>2. Taken(r) => attempts[a].state = "sent"
          BY <2>1, <3>1 DEF Taken, RecoveryAfterAlert
        <4>3. a # NoLink
          BY <3>2 DEF StoreTypeOK
        <4>4. Deliverable(r) => attempts[a].state = "sent"
          BY <3>1, <4>3 DEF Deliverable
        <4> QED
          BY <3>2, <3>3, <4>1, <4>2, <4>4 DEF RespectsRecoveries, RowsRespected
      <3> QED
        BY <3>1, <3>3, <3>4, <3>5
    <2>2. CASE r \notin DOMAIN attempts
      BY <1>1, <2>2 DEF RespectsRecoveries, NewRowsRespect, Taken
    <2> QED
      BY <2>1, <2>2
  <1>2. RecoveryLinked'
    BY <1>1 DEF RecoveryLinked
  <1>3. RecoveryAfterAlert'
    BY <1>1 DEF RecoveryAfterAlert, Taken
  <1> QED
    BY <1>2, <1>3

\* Alerts added to an otherwise unchanged queue respect recoveries.
LEMMA AddedAlertsRespect ==
    ASSUME StoreTypeOK, NEW e \in Nat, NEW route \in Seq(Channels), NEW skip,
           attempts' = Insert(attempts, AlertRows(e, route, skip))
    PROVE  RespectsRecoveries
  <1> DEFINE rows == AlertRows(e, route, skip)
  <1>1. DOMAIN rows \cap DOMAIN attempts = {}
    BY AlertRowsType DEF StoreTypeOK
  <1>2. \A x \in DOMAIN rows : rows[x].kind = "alert"
    BY DEF AlertRows, PendingAttempt
  <1>3. /\ DOMAIN attempts' = DOMAIN attempts \cup DOMAIN rows
        /\ \A x \in DOMAIN attempts : attempts'[x] = attempts[x]
        /\ \A x \in DOMAIN rows : attempts'[x] = rows[x]
    BY <1>1 DEF Insert
  <1> QED
    BY <1>1, <1>2, <1>3 DEF RespectsRecoveries, RowsRespected, RemovedTogether, NewRowsRespect, Taken

LEMMA TransitionRespects ==
    ASSUME StoreTypeOK, NEW e \in DOMAIN events, NEW from, NEW to,
           NEW cancelAlerts \in BOOLEAN, NEW recover \in BOOLEAN,
           TransitionEvent(e, from, to, cancelAlerts, recover)
    PROVE  RespectsRecoveries
  <1> DEFINE old  == IF cancelAlerts THEN CancelQueuedAlerts(e) ELSE attempts
             rows == IF recover THEN RecoveryRows(e) ELSE <<>>
  <1>0. e \in Nat /\ lastId \in Nat
    BY DEF StoreTypeOK
  <1>1. DOMAIN rows \cap DOMAIN attempts = {}
    <2>1. DOMAIN rows \subseteq (lastId + 1) .. (2 * lastId)
      BY <1>0, RecoveryRowsType, EmptyTable
    <2> HIDE DEF rows
    <2> QED
      BY <1>0, <2>1 DEF StoreTypeOK
  <1>2. /\ DOMAIN old = DOMAIN attempts
        /\ \A x \in DOMAIN attempts :
              /\ old[x].event = attempts[x].event
              /\ old[x].kind = attempts[x].kind
              /\ old[x].recoveryFor = attempts[x].recoveryFor
              /\ attempts[x].state = "sent" => old[x].state = "sent"
              /\ attempts[x].kind = "recovery" => old[x] = attempts[x]
    <2>1. CASE cancelAlerts
      <3>1. DOMAIN old = DOMAIN attempts
        BY <2>1 DEF CancelQueuedAlerts
      <3>2. \A x \in DOMAIN attempts : old[x] =
                IF x \in AlertsOf(e) /\ attempts[x].state \in {"pending", "failed"}
                  THEN [attempts[x] EXCEPT !.state = "cancelled", !.nextRetry = "null"]
                  ELSE attempts[x]
        BY <2>1 DEF CancelQueuedAlerts
      <3> HIDE DEF old
      <3> QED
        BY <3>1, <3>2, ZenonT(30) DEF AlertsOf, StoreTypeOK, Attempt
    <2>2. CASE ~cancelAlerts
      BY <2>2
    <2> QED
      BY <2>1, <2>2
  <1>3. \A x \in DOMAIN rows :
            /\ rows[x].state = "pending" /\ rows[x].attempts = 0
            /\ rows[x].recoveryFor \in DOMAIN attempts
            /\ attempts[rows[x].recoveryFor].kind = "alert"
            /\ attempts[rows[x].recoveryFor].event = rows[x].event
    <2>1. CASE recover
      <3>0. AlertsToRecover(e) \subseteq Nat
        BY <1>0 DEF AlertsToRecover, AlertsOf, StoreTypeOK
      <3>1. \A x \in DOMAIN rows : x - lastId \in AlertsToRecover(e)
        <4>1. DOMAIN rows = {lastId + y : y \in AlertsToRecover(e)}
          BY <1>0, <2>1, RecoveryRowsType
        <4> HIDE DEF rows
        <4> QED BY <1>0, <3>0, <4>1
      <3>2. \A x \in DOMAIN rows : rows[x] =
                PendingAttempt(e, attempts[x - lastId].channel, "recovery", NoLink, x - lastId)
        BY <2>1 DEF RecoveryRows
      <3> HIDE DEF rows
      <3> QED
        BY <3>1, <3>2 DEF PendingAttempt, AlertsToRecover, AlertsOf
    <2>2. CASE ~recover
      BY <2>2, EmptyTable
    <2> QED
      BY <2>1, <2>2
  <1>4. attempts' = Insert(old, rows)
    BY DEF TransitionEvent
  <1> HIDE DEF old, rows
  <1>5. /\ DOMAIN attempts' = DOMAIN attempts \cup DOMAIN rows
        /\ \A x \in DOMAIN attempts : attempts'[x] = old[x]
        /\ \A x \in DOMAIN rows : attempts'[x] = rows[x]
    BY <1>1, <1>2, <1>4 DEF Insert
  <1>6. RowsRespected
    BY <1>2, <1>5 DEF RowsRespected, Taken
  <1>7. RemovedTogether
    BY <1>5 DEF RemovedTogether
  <1>8. NewRowsRespect
    BY <1>2, <1>3, <1>5 DEF NewRowsRespect
  <1> QED
    BY <1>6, <1>7, <1>8 DEF RespectsRecoveries

LEMMA MarkResultRespects ==
    ASSUME StoreTypeOK, NEW a \in DOMAIN attempts, NEW result, NEW count, NEW retry,
           NEW fallback \in Channels \cup {NoChannel},
           MarkResult(a, result, count, retry, fallback)
    PROVE  RespectsRecoveries
  <1> DEFINE cancel == result # "sent" /\ MutedAlert(a)
             stored == IF cancel THEN "cancelled" ELSE result
             marked == [attempts EXCEPT ![a].state = stored, ![a].attempts = count,
                                        ![a].nextRetry = IF cancel THEN "null" ELSE retry]
             rows == FallbackRows(a, fallback)
  <1>0. attempts[a].state = "sending" /\ lastId \in Nat
    BY DEF MarkResult, StoreTypeOK
  <1>1. /\ DOMAIN marked = DOMAIN attempts
        /\ \A x \in DOMAIN attempts : x # a => marked[x] = attempts[x]
        /\ marked[a].event = attempts[a].event
        /\ marked[a].kind = attempts[a].kind
        /\ marked[a].recoveryFor = attempts[a].recoveryFor
    BY DEF StoreTypeOK, Attempt
  <1>2. CASE attempts' = marked
    <2> HIDE DEF marked
    <2> QED
      BY <1>0, <1>1, <1>2 DEF RespectsRecoveries, RowsRespected, RemovedTogether, NewRowsRespect, Taken
  <1>3. CASE fallback # NoChannel /\ attempts' = Insert(marked, rows)
    <2>1. DOMAIN rows \subseteq {lastId + 1, lastId + 2} /\ lastId + 1 \in DOMAIN rows
      BY <1>3, FallbackRowsType DEF FallbackRows
    <2>2. DOMAIN rows \cap DOMAIN attempts = {}
      BY <1>0, <2>1 DEF StoreTypeOK
    <2>3. rows[lastId + 1].kind = "alert" /\ rows[lastId + 1].event = attempts[a].event
      BY <2>1 DEF FallbackRows, PendingAttempt
    <2>4. lastId + 2 \in DOMAIN rows =>
            /\ rows[lastId + 2].state = "pending" /\ rows[lastId + 2].attempts = 0
            /\ rows[lastId + 2].recoveryFor = lastId + 1
            /\ rows[lastId + 2].event = attempts[a].event
      BY <1>0 DEF FallbackRows, PendingAttempt
    <2> HIDE DEF marked, rows
    <2>5. /\ DOMAIN attempts' = DOMAIN attempts \cup DOMAIN rows
          /\ \A x \in DOMAIN attempts : attempts'[x] = marked[x]
          /\ \A x \in DOMAIN rows : attempts'[x] = rows[x]
      BY <1>1, <1>3, <2>2 DEF Insert
    <2>6. RowsRespected
      BY <1>0, <1>1, <2>5 DEF RowsRespected, Taken
    <2>7. RemovedTogether
      BY <2>5 DEF RemovedTogether
    <2>8. NewRowsRespect
      BY <2>1, <2>3, <2>4, <2>5 DEF NewRowsRespect
    <2> QED
      BY <2>6, <2>7, <2>8 DEF RespectsRecoveries
  <1> QED
    BY <1>2, <1>3 DEF MarkResult

LEMMA RowUpdatesRespect ==
    ASSUME StoreTypeOK
    PROVE  /\ \A claim : ClaimDue(claim) => RespectsRecoveries
           /\ \A a \in DOMAIN attempts : Replay(a) => RespectsRecoveries
           /\ \A stale : RequeueStuckSending(stale) => RespectsRecoveries
           /\ \A old : DeleteEvents(old) => RespectsRecoveries
           /\ \A a \in DOMAIN attempts : RetryTimeComes(a) => RespectsRecoveries
  <1> USE DEF RespectsRecoveries, RowsRespected, RemovedTogether, NewRowsRespect, Taken
  <1>1. ASSUME NEW claim, ClaimDue(claim) PROVE RespectsRecoveries
    BY <1>1 DEF ClaimDue, StoreTypeOK, Attempt, Deliverable
  <1>2. ASSUME NEW a \in DOMAIN attempts, Replay(a) PROVE RespectsRecoveries
    BY <1>2 DEF Replay, StoreTypeOK, Attempt
  <1>3. ASSUME NEW stale, RequeueStuckSending(stale) PROVE RespectsRecoveries
    <2>1. DOMAIN attempts' = DOMAIN attempts
      BY <1>3 DEF RequeueStuckSending
    <2>2. \A x \in DOMAIN attempts : x \notin stale => attempts'[x] = attempts[x]
      BY <1>3 DEF RequeueStuckSending
    <2>3. \A x \in stale :
            /\ attempts[x].state = "sending"
            /\ \/ attempts'[x] = [attempts[x] EXCEPT !.state = "cancelled", !.nextRetry = "null"]
               \/ attempts'[x] = [attempts[x] EXCEPT !.state = "pending"]
      BY <1>3 DEF RequeueStuckSending
    <2>4. \A x \in DOMAIN attempts :
            /\ attempts'[x].event = attempts[x].event
            /\ attempts'[x].kind = attempts[x].kind
            /\ attempts'[x].recoveryFor = attempts[x].recoveryFor
      <3> SUFFICES ASSUME NEW x \in DOMAIN attempts
                   PROVE  /\ attempts'[x].event = attempts[x].event
                          /\ attempts'[x].kind = attempts[x].kind
                          /\ attempts'[x].recoveryFor = attempts[x].recoveryFor
        OBVIOUS
      <3>1. attempts[x] \in Attempt
        BY DEF StoreTypeOK
      <3>2. CASE attempts'[x] = [attempts[x] EXCEPT !.state = "cancelled", !.nextRetry = "null"]
        BY <3>1, <3>2 DEF Attempt
      <3>3. CASE attempts'[x] = [attempts[x] EXCEPT !.state = "pending"]
        BY <3>1, <3>3 DEF Attempt
      <3> QED
        BY <2>2, <2>3, <3>2, <3>3
    <2> QED
      BY <2>1, <2>2, <2>3, <2>4
  <1>4. ASSUME NEW old, DeleteEvents(old) PROVE RespectsRecoveries
    BY <1>4 DEF DeleteEvents
  <1>5. ASSUME NEW a \in DOMAIN attempts, RetryTimeComes(a) PROVE RespectsRecoveries
    BY <1>5 DEF RetryTimeComes, StoreTypeOK, Attempt
  <1> QED
    BY <1>1, <1>2, <1>3, <1>4, <1>5

LEMMA StoreStepRespects ==
    ASSUME StoreTypeOK, [StoreNext]_storeVars
    PROVE  RespectsRecoveries
  <1>1. CASE CreateStep
    <2>1. PICK key \in Keys \cup {NoKey}, type \in Types, severity \in Severities :
              InsertEvent(key, type, severity)
      BY <1>1 DEF CreateStep
    <2>2. Route[type][severity] \in Seq(Channels) /\ lastEvent + 1 \in Nat
      BY RouteAssumption DEF StoreTypeOK
    <2>3. attempts' = Insert(attempts, AlertRows(lastEvent + 1, Route[type][severity], {}))
      BY <2>1 DEF InsertEvent
    <2> QED
      BY <2>2, <2>3, AddedAlertsRespect
  <1>2. CASE RefreshStep
    <2>1. PICK e \in DOMAIN events, severity \in Severities :
              \E alerts \in AlertsOnRise(e, severity) : RefreshOpenEvent(e, severity, alerts)
      BY <1>2 DEF RefreshStep
    <2>2. PICK alerts \in Seq(Channels) : RefreshOpenEvent(e, severity, alerts)
      BY <2>1, AlertsOnRiseType
    <2>3. e \in Nat
      BY DEF StoreTypeOK
    <2>4. CASE attempts' = Insert(attempts, AlertRows(e, alerts, AlertChannelNames(e)))
      BY <2>3, <2>4, AddedAlertsRespect
    <2>5. CASE UNCHANGED attempts
      BY <2>5 DEF RespectsRecoveries, RowsRespected, RemovedTogether, NewRowsRespect, Taken
    <2> QED
      BY <2>2, <2>4, <2>5 DEF RefreshOpenEvent
  <1>3. CASE TransitionStep
    BY <1>3, TransitionRespects DEF TransitionStep, Transition
  <1>4. CASE ClaimStep
    BY <1>4, RowUpdatesRespect DEF ClaimStep
  <1>5. CASE ResultStep
    <2>1. PICK a \in DOMAIN attempts, count \in 0 .. MaxAttempts - 1 :
              \/ SaveSent(a, count)
              \/ SaveFailed(a, count)
              \/ \E retry \in {"null", "due"} : HandBack(a, count, retry)
      BY <1>5 DEF ResultStep
    <2>2. FallbackFor(a) \in Channels \cup {NoChannel} /\ NoChannel \in Channels \cup {NoChannel}
      BY FallbackForType
    <2> QED
      BY <2>1, <2>2, MarkResultRespects DEF SaveSent, SaveFailed, HandBack
  <1>6. CASE ReplayStep
    BY <1>6, RowUpdatesRespect DEF ReplayStep
  <1>7. CASE RequeueStep
    BY <1>7, RowUpdatesRespect DEF RequeueStep
  <1>8. CASE RetentionStep
    BY <1>8, RowUpdatesRespect DEF RetentionStep
  <1>9. CASE TimeStep
    BY <1>9, RowUpdatesRespect DEF TimeStep
  <1>10. CASE UNCHANGED storeVars
    BY <1>10 DEF storeVars, RespectsRecoveries, RowsRespected, RemovedTogether, NewRowsRespect, Taken
  <1> QED
    BY <1>1, <1>2, <1>3, <1>4, <1>5, <1>6, <1>7, <1>8, <1>9, <1>10 DEF StoreNext

(***************************************************************************)
(* No recovery is ever taken from the queue ahead of its own alert, for    *)
(* any number of events, channels, tries, fallbacks, replays and workers.  *)
(***************************************************************************)
THEOREM RecoveryNeverAhead == StoreSpec => []RecoveryAfterAlert
  <1> DEFINE IInv == StoreTypeOK /\ RecoveryLinked /\ RecoveryAfterAlert
  <1>1. StoreInit => IInv
    BY EmptyTable DEF StoreInit, StoreTypeOK, RecoveryLinked, RecoveryAfterAlert
  <1>2. IInv /\ [StoreNext]_storeVars => IInv'
    <2> SUFFICES ASSUME IInv, [StoreNext]_storeVars PROVE IInv'
      OBVIOUS
    <2>1. StoreTypeOK'
      BY StoreTypeStep
    <2>2. RecoveryLinked' /\ RecoveryAfterAlert'
      BY StoreStepRespects, RecoveryStep
    <2> QED
      BY <2>1, <2>2
  <1>3. IInv => RecoveryAfterAlert
    OBVIOUS
  <1> QED
    BY <1>1, <1>2, <1>3, PTL DEF StoreSpec

(***************************************************************************)
(* The safety of the delivery queue.                                       *)
(*                                                                         *)
(* The first part says once what each transaction does to the rows: it     *)
(* creates an event with its alerts, refreshes or moves an event, moves    *)
(* rows that are there, redirects a dead letter, or removes events         *)
(* (StoreStepEffects).  The second part proves the invariants of Store     *)
(* from these effects alone.                                               *)
(***************************************************************************)

\* Row x stays in the queue, with what it is about.
Keeps(x) ==
    /\ x \in DOMAIN attempts'
    /\ attempts'[x].event = attempts[x].event
    /\ attempts'[x].channel = attempts[x].channel
    /\ attempts'[x].kind = attempts[x].kind
    /\ attempts'[x].fallbackOf = attempts[x].fallbackOf
    /\ attempts'[x].recoveryFor = attempts[x].recoveryFor

\* Row x takes new values in the columns that change.
Becomes(x, state, count, retry) ==
    /\ Keeps(x)
    /\ attempts'[x].state = state
    /\ attempts'[x].attempts = count
    /\ attempts'[x].nextRetry = retry

Rests(x) == x \in DOMAIN attempts' /\ attempts'[x] = attempts[x]

Added == DOMAIN attempts' \ DOMAIN attempts

\* The moves that a statement makes on many rows at once: claimed, and given
\* back or cancelled by the reaper.
MovesTogether(x) ==
    \/ /\ Deliverable(x)
       /\ Becomes(x, "sending", attempts[x].attempts, attempts[x].nextRetry)
    \/ /\ attempts[x].state = "sending"
       /\ ~MutedAlert(x)
       /\ Becomes(x, "pending", attempts[x].attempts, attempts[x].nextRetry)
    \/ /\ attempts[x].state = "sending"
       /\ MutedAlert(x)
       /\ Becomes(x, "cancelled", attempts[x].attempts, "null")

\* The moves of one row alone: the result of a send, a replay, a retry time
\* that comes.
MovesAlone(x) ==
    \/ /\ attempts[x].state = "sending"
       /\ \E count \in 1 .. MaxAttempts : Becomes(x, "sent", count, "null")
    \/ /\ attempts[x].state = "sending"
       /\ ~MutedAlert(x)
       /\ \E count \in 1 .. MaxAttempts - 1 : Becomes(x, "failed", count, "later")
    \/ /\ attempts[x].state = "sending"
       /\ ~MutedAlert(x)
       /\ FallbackFor(x) = NoChannel \/ Redirected(x)
       /\ Becomes(x, "dead_letter", MaxAttempts, "null")
    \/ /\ attempts[x].state = "sending"
       /\ ~MutedAlert(x)
       /\ \E count \in 0 .. MaxAttempts - 1, retry \in {"null", "due"} :
             Becomes(x, "pending", count, retry)
    \/ /\ attempts[x].state = "sending"
       /\ MutedAlert(x)
       /\ \E count \in Nat : Becomes(x, "cancelled", count, "null")
    \/ /\ attempts[x].state = "dead_letter"
       /\ Becomes(x, "pending", 0, "due")
    \/ /\ attempts[x].nextRetry = "later"
       /\ Becomes(x, attempts[x].state, attempts[x].attempts, "due")

\* Rows move and nothing else happens.
QueueMoves ==
    /\ UNCHANGED events
    /\ DOMAIN attempts' = DOMAIN attempts
    /\ \/ \A x \in DOMAIN attempts : Rests(x) \/ MovesTogether(x)
       \/ \E a \in DOMAIN attempts :
             /\ MovesAlone(a)
             /\ \A x \in DOMAIN attempts \ {a} : Rests(x)

\* Alerts of e are queued, on channels not in skip.
AddsAlerts(e, skip) ==
    /\ \A x \in DOMAIN attempts : Rests(x)
    /\ \A x \in Added :
          /\ attempts'[x].channel \notin skip
          /\ attempts'[x] = PendingAttempt(e, attempts'[x].channel, "alert", NoLink, NoLink)

Creates(e, key) ==
    /\ e \notin DOMAIN events
    /\ OpenByKey(key) = {}
    /\ DOMAIN events' = DOMAIN events \cup {e}
    /\ \A d \in DOMAIN events : events'[d] = events[d]
    /\ events'[e].key = key
    /\ events'[e].state = "new"
    /\ AddsAlerts(e, {})

Refreshes(e) ==
    /\ e \in DOMAIN events
    /\ DOMAIN events' = DOMAIN events
    /\ \A d \in DOMAIN events : /\ events'[d].key = events[d].key
                                /\ events'[d].type = events[d].type
                                /\ events'[d].state = events[d].state
    /\ AddsAlerts(e, AlertChannelNames(e))
    /\ Added # {} => events[e].state \notin {"muted", "resolved"}

\* Each alert that is not cancelled gets one recovery, and nothing else is queued.
AddsRecoveries(e) ==
    /\ \A r \in Added : \E a \in AlertsToRecover(e) :
          attempts'[r] = PendingAttempt(e, attempts[a].channel, "recovery", NoLink, a)
    /\ \A a \in AlertsToRecover(e) : \E r \in Added :
          \A s \in Added : attempts'[s].recoveryFor = a <=> s = r

Moves(e, to) ==
    /\ e \in DOMAIN events
    /\ events[e].state \notin {"resolved", to}
    /\ DOMAIN events' = DOMAIN events
    /\ \A d \in DOMAIN events \ {e} : events'[d] = events[d]
    /\ events'[e].key = events[e].key
    /\ events'[e].type = events[e].type
    /\ events'[e].state = to
    /\ \A x \in DOMAIN attempts :
          IF to = "muted" /\ x \in AlertsOf(e) /\ attempts[x].state \in {"pending", "failed"}
            THEN Becomes(x, "cancelled", attempts[x].attempts, "null")
            ELSE Rests(x)
    /\ Added = {} \/ (to = "resolved" /\ AddsRecoveries(e))

\* Alert a is dead-lettered and its copy queued.
Redirects(a) ==
    /\ UNCHANGED events
    /\ a \in DOMAIN attempts
    /\ attempts[a].state = "sending"
    /\ ~MutedAlert(a)
    /\ attempts[a].kind = "alert"
    /\ attempts[a].fallbackOf = NoLink
    /\ Fallback[attempts[a].channel] # NoChannel
    /\ ~Redirected(a)
    /\ Becomes(a, "dead_letter", MaxAttempts, "null")
    /\ \A x \in DOMAIN attempts \ {a} : Rests(x)
    /\ LET e       == attempts[a].event
           channel == Fallback[attempts[a].channel]
           late    == events[e].state = "resolved" /\ RecoveriesOf(e) # {}
       IN \E c \in Added :
             /\ attempts'[c] = PendingAttempt(e, channel, "alert", a, NoLink)
             /\ \/ ~late /\ Added = {c}
                \/ /\ late
                   /\ \E r \in Added \ {c} :
                         /\ Added = {c, r}
                         /\ attempts'[r] = PendingAttempt(e, channel, "recovery", NoLink, c)

Removes(old) ==
    /\ old \subseteq DOMAIN events
    /\ old # {}
    /\ events' = [e \in DOMAIN events \ old |-> events[e]]
    /\ attempts' = [a \in {x \in DOMAIN attempts : attempts[x].event \notin old} |-> attempts[a]]
-----------------------------------------------------------------------------
(***************************************************************************)
(* The effects of each transaction.                                        *)
(***************************************************************************)

\* A row updated in its changing columns.
LEMMA UpdatedRow ==
    ASSUME NEW row \in Attempt, NEW state, NEW count, NEW retry, NEW x,
           x \in DOMAIN attempts', attempts[x] = row,
           \/ attempts'[x] = [row EXCEPT !.state = state, !.attempts = count, !.nextRetry = retry]
           \/ /\ attempts'[x] = [row EXCEPT !.state = state, !.nextRetry = retry]
              /\ count = row.attempts
           \/ /\ attempts'[x] = [row EXCEPT !.state = state]
              /\ count = row.attempts
              /\ retry = row.nextRetry
           \/ /\ attempts'[x] = [row EXCEPT !.nextRetry = retry]
              /\ count = row.attempts
              /\ state = row.state
    PROVE  Becomes(x, state, count, retry)
    BY DEF Becomes, Keeps, Attempt

\* Rows added to the table under new ids.
LEMMA InsertedRows ==
    ASSUME NEW table, NEW rows, DOMAIN table \cap DOMAIN rows = {},
           DOMAIN table = DOMAIN attempts, attempts' = Insert(table, rows)
    PROVE  /\ Added = DOMAIN rows
           /\ DOMAIN attempts \subseteq DOMAIN attempts'
           /\ \A x \in DOMAIN attempts : attempts'[x] = table[x]
           /\ \A x \in DOMAIN rows : attempts'[x] = rows[x]
    BY DEF Insert, Added

LEMMA AlertRowsEffect ==
    ASSUME StoreTypeOK, NEW e \in Nat, NEW route \in Seq(Channels), NEW skip,
           attempts' = Insert(attempts, AlertRows(e, route, skip))
    PROVE  AddsAlerts(e, skip)
  <1> DEFINE rows == AlertRows(e, route, skip)
  <1>1. DOMAIN attempts \cap DOMAIN rows = {}
    BY AlertRowsType DEF StoreTypeOK
  <1>2. \A x \in DOMAIN rows : /\ rows[x].channel \notin skip
                               /\ rows[x] = PendingAttempt(e, rows[x].channel, "alert", NoLink, NoLink)
    <2> SUFFICES ASSUME NEW x \in DOMAIN rows
                 PROVE  /\ rows[x].channel \notin skip
                        /\ rows[x] = PendingAttempt(e, rows[x].channel, "alert", NoLink, NoLink)
      OBVIOUS
    <2>1. lastId \in Nat /\ DOMAIN route = 1 .. Len(route) /\ Len(route) \in Nat
      BY DEF StoreTypeOK
    <2>2. x - lastId \in DOMAIN route /\ route[x - lastId] \notin skip
      BY <2>1 DEF AlertRows
    <2>3. rows[x] = PendingAttempt(e, route[x - lastId], "alert", NoLink, NoLink)
      BY DEF AlertRows
    <2>4. rows[x].channel = route[x - lastId]
      BY <2>3 DEF PendingAttempt
    <2> QED
      BY <2>2, <2>3, <2>4
  <1> HIDE DEF rows
  <1>3. /\ Added = DOMAIN rows
        /\ DOMAIN attempts \subseteq DOMAIN attempts'
        /\ \A x \in DOMAIN attempts : attempts'[x] = attempts[x]
        /\ \A x \in DOMAIN rows : attempts'[x] = rows[x]
    BY <1>1, InsertedRows DEF rows
  <1> QED
    BY <1>2, <1>3 DEF AddsAlerts, Rests

LEMMA CreateEffect ==
    ASSUME StoreTypeOK, CreateStep
    PROVE  \E e, key : Creates(e, key)
  <1>1. PICK key \in Keys \cup {NoKey}, type \in Types, severity \in Severities :
            InsertEvent(key, type, severity)
    BY DEF CreateStep
  <1> DEFINE e == lastEvent + 1
  <1>2. Route[type][severity] \in Seq(Channels) /\ e \in Nat /\ e \notin DOMAIN events
    BY RouteAssumption DEF StoreTypeOK
  <1>3. AddsAlerts(e, {})
    BY <1>1, <1>2, AlertRowsEffect DEF InsertEvent
  <1>4. /\ OpenByKey(key) = {}
        /\ DOMAIN events' = DOMAIN events \cup {e}
        /\ \A d \in DOMAIN events : events'[d] = events[d]
        /\ events'[e].key = key
        /\ events'[e].state = "new"
    BY <1>1, <1>2 DEF InsertEvent, Insert
  <1>5. Creates(e, key)
    BY <1>2, <1>3, <1>4 DEF Creates
  <1> QED
    BY <1>5

LEMMA RefreshEffect ==
    ASSUME StoreTypeOK, RefreshStep
    PROVE  \E e : Refreshes(e)
  <1>1. PICK e \in DOMAIN events, severity \in Severities :
            \E alerts \in AlertsOnRise(e, severity) : RefreshOpenEvent(e, severity, alerts)
    BY DEF RefreshStep
  <1>2. PICK alerts \in Seq(Channels) : RefreshOpenEvent(e, severity, alerts)
    BY <1>1, AlertsOnRiseType
  <1>3. e \in Nat
    BY DEF StoreTypeOK
  <1>4. /\ DOMAIN events' = DOMAIN events
        /\ \A d \in DOMAIN events : /\ events'[d].key = events[d].key
                                    /\ events'[d].type = events[d].type
                                    /\ events'[d].state = events[d].state
    BY <1>2 DEF RefreshOpenEvent, StoreTypeOK, Event
  <1>5. CASE /\ events[e].state # "muted"
             /\ attempts' = Insert(attempts, AlertRows(e, alerts, AlertChannelNames(e)))
    <2>1. AddsAlerts(e, AlertChannelNames(e))
      BY <1>3, <1>5, AlertRowsEffect
    <2>2. events[e].state \notin {"muted", "resolved"}
      BY <1>2, <1>5 DEF RefreshOpenEvent, OpenEvents
    <2> QED
      BY <1>4, <2>1, <2>2 DEF Refreshes
  <1>6. CASE UNCHANGED attempts
    BY <1>4, <1>6 DEF Refreshes, AddsAlerts, Rests, Added
  <1> QED
    BY <1>2, <1>5, <1>6 DEF RefreshOpenEvent

LEMMA MuteEffect ==
    ASSUME StoreTypeOK, NEW e, DOMAIN attempts \subseteq DOMAIN attempts',
           \A x \in DOMAIN attempts : attempts'[x] = CancelQueuedAlerts(e)[x]
    PROVE  \A x \in DOMAIN attempts :
              IF x \in AlertsOf(e) /\ attempts[x].state \in {"pending", "failed"}
                THEN Becomes(x, "cancelled", attempts[x].attempts, "null")
                ELSE Rests(x)
  <1> SUFFICES ASSUME NEW x \in DOMAIN attempts
               PROVE  IF x \in AlertsOf(e) /\ attempts[x].state \in {"pending", "failed"}
                        THEN Becomes(x, "cancelled", attempts[x].attempts, "null")
                        ELSE Rests(x)
    OBVIOUS
  <1>1. attempts[x] \in Attempt
    BY DEF StoreTypeOK
  <1>2. attempts'[x] = IF x \in AlertsOf(e) /\ attempts[x].state \in {"pending", "failed"}
                         THEN [attempts[x] EXCEPT !.state = "cancelled", !.nextRetry = "null"]
                         ELSE attempts[x]
    BY DEF CancelQueuedAlerts
  <1> QED
    BY <1>1, <1>2, UpdatedRow DEF Rests

LEMMA RecoveryRowsEffect ==
    ASSUME StoreTypeOK, NEW e \in Nat, Added = DOMAIN RecoveryRows(e),
           \A x \in DOMAIN RecoveryRows(e) : attempts'[x] = RecoveryRows(e)[x]
    PROVE  AddsRecoveries(e)
  <1>1. Added = {lastId + a : a \in AlertsToRecover(e)}
    BY RecoveryRowsType
  <1>2. AlertsToRecover(e) \subseteq Nat /\ lastId \in Nat
    BY DEF AlertsToRecover, AlertsOf, StoreTypeOK
  <1>3. \A a \in AlertsToRecover(e) :
            /\ lastId + a \in Added
            /\ attempts'[lastId + a] =
                 PendingAttempt(e, attempts[a].channel, "recovery", NoLink, a)
    <2> SUFFICES ASSUME NEW a \in AlertsToRecover(e)
                 PROVE  /\ lastId + a \in Added
                        /\ attempts'[lastId + a] =
                             PendingAttempt(e, attempts[a].channel, "recovery", NoLink, a)
      OBVIOUS
    <2>1. (lastId + a) - lastId = a
      BY <1>2
    <2>2. attempts'[lastId + a] =
            PendingAttempt(e, attempts[(lastId + a) - lastId].channel, "recovery", NoLink,
                           (lastId + a) - lastId)
      BY <1>1 DEF RecoveryRows
    <2> QED
      BY <1>1, <2>1, <2>2
  <1>4. \A a \in AlertsToRecover(e) : attempts'[lastId + a].recoveryFor = a
    <2>1. \A a : PendingAttempt(e, attempts[a].channel, "recovery", NoLink, a).recoveryFor = a
      BY DEF PendingAttempt
    <2> QED
      BY <1>3, <2>1
  <1>5. \A r \in Added : \E a \in AlertsToRecover(e) : r = lastId + a
    BY <1>1
  <1> QED
    BY <1>3, <1>4, <1>5 DEF AddsRecoveries

\* No request moves a resolved event, and none leaves an event where it is.
LEMMA TargetsOpen ==
    ASSUME StoreTypeOK, NEW e \in DOMAIN events, NEW to \in Targets(e)
    PROVE  events[e].state \notin {"resolved", to}
  <1>1. \A act \in EventActions : ApplyAction("resolved", act) = Refused
    <2> SUFFICES ASSUME NEW act \in EventActions PROVE ApplyAction("resolved", act) = Refused
      OBVIOUS
    <2>1. CASE act = "unmute"
      BY <2>1 DEF ApplyAction
    <2>2. CASE act # "unmute"
      BY <2>2 DEF ApplyAction
    <2> QED
      BY <2>1, <2>2
  <1> QED
    BY <1>1, RouteAssumption DEF Targets

LEMMA TransitionEffect ==
    ASSUME StoreTypeOK, TransitionStep
    PROVE  \E e, to : Moves(e, to)
  <1>1. PICK e \in DOMAIN events : \E to \in Targets(e) : Transition(e, events[e].state, to)
    BY DEF TransitionStep
  <1>2. PICK to \in Targets(e) : Transition(e, events[e].state, to)
    BY <1>1
  <1> DEFINE recover == to = "resolved" /\ NotifiesOnClose(events[e].type, events[e].state)
             old  == IF to = "muted" THEN CancelQueuedAlerts(e) ELSE attempts
             rows == IF recover THEN RecoveryRows(e) ELSE <<>>
  <1>3. e \in Nat /\ lastId \in Nat
    BY DEF StoreTypeOK
  <1>4. DOMAIN old = DOMAIN attempts
    BY DEF CancelQueuedAlerts
  <1>5. attempts' = Insert(old, rows)
    BY <1>2 DEF Transition, TransitionEvent
  <1>6. DOMAIN old \cap DOMAIN rows = {}
    <2>1. DOMAIN rows \subseteq (lastId + 1) .. (2 * lastId)
      BY <1>3, RecoveryRowsType, EmptyTable
    <2> HIDE DEF rows, old
    <2> QED
      BY <1>3, <1>4, <2>1 DEF StoreTypeOK
  <1>7. /\ Added = DOMAIN rows
        /\ DOMAIN attempts \subseteq DOMAIN attempts'
        /\ \A x \in DOMAIN attempts : attempts'[x] = old[x]
        /\ \A x \in DOMAIN rows : attempts'[x] = rows[x]
    <2> HIDE DEF rows, old
    <2> QED
      BY <1>4, <1>5, <1>6, InsertedRows
  <1>8. \A x \in DOMAIN attempts :
          IF to = "muted" /\ x \in AlertsOf(e) /\ attempts[x].state \in {"pending", "failed"}
            THEN Becomes(x, "cancelled", attempts[x].attempts, "null")
            ELSE Rests(x)
    <2>1. CASE to = "muted"
      BY <1>7, <2>1, MuteEffect
    <2>2. CASE to # "muted"
      BY <1>7, <2>2 DEF Rests
    <2> QED
      BY <2>1, <2>2
  <1>9. Added = {} \/ (to = "resolved" /\ AddsRecoveries(e))
    <2>1. CASE recover
      BY <1>3, <1>7, <2>1, RecoveryRowsEffect
    <2>2. CASE ~recover
      BY <1>7, <2>2, EmptyTable
    <2> QED
      BY <2>1, <2>2
  <1>10. /\ DOMAIN events' = DOMAIN events
         /\ \A d \in DOMAIN events \ {e} : events'[d] = events[d]
         /\ events'[e].key = events[e].key
         /\ events'[e].type = events[e].type
         /\ events'[e].state = to
    BY <1>2 DEF Transition, TransitionEvent, StoreTypeOK, Event
  <1>11. events[e].state \notin {"resolved", to}
    BY TargetsOpen
  <1>12. Moves(e, to)
    BY <1>8, <1>9, <1>10, <1>11 DEF Moves
  <1> QED
    BY <1>12

LEMMA ClaimEffect ==
    ASSUME StoreTypeOK, ClaimStep
    PROVE  QueueMoves
  <1>1. PICK claim : ClaimDue(claim)
    BY DEF ClaimStep
  <1>2. UNCHANGED events /\ DOMAIN attempts' = DOMAIN attempts
    BY <1>1 DEF ClaimDue
  <1>3. ASSUME NEW x \in DOMAIN attempts PROVE Rests(x) \/ MovesTogether(x)
    <2>1. attempts[x] \in Attempt /\ x \in DOMAIN attempts'
      BY <1>2 DEF StoreTypeOK
    <2>2. CASE x \in claim
      <3>1. Deliverable(x) /\ attempts'[x] = [attempts[x] EXCEPT !.state = "sending"]
        BY <1>1, <2>2 DEF ClaimDue
      <3> QED
        BY <2>1, <3>1, UpdatedRow DEF MovesTogether
    <2>3. CASE x \notin claim
      BY <1>1, <2>1, <2>3 DEF ClaimDue, Rests
    <2> QED
      BY <2>2, <2>3
  <1> QED
    BY <1>2, <1>3 DEF QueueMoves

LEMMA RequeueEffect ==
    ASSUME StoreTypeOK, RequeueStep
    PROVE  QueueMoves
  <1>1. PICK stale : RequeueStuckSending(stale)
    BY DEF RequeueStep
  <1>2. UNCHANGED events /\ DOMAIN attempts' = DOMAIN attempts
    BY <1>1 DEF RequeueStuckSending
  <1>3. ASSUME NEW x \in DOMAIN attempts PROVE Rests(x) \/ MovesTogether(x)
    <2>1. attempts[x] \in Attempt /\ x \in DOMAIN attempts'
      BY <1>2 DEF StoreTypeOK
    <2>2. CASE x \in stale /\ MutedAlert(x)
      <3>1. /\ attempts[x].state = "sending"
            /\ attempts'[x] = [attempts[x] EXCEPT !.state = "cancelled", !.nextRetry = "null"]
        BY <1>1, <2>2 DEF RequeueStuckSending
      <3> QED
        BY <2>1, <2>2, <3>1, UpdatedRow DEF MovesTogether
    <2>3. CASE x \in stale /\ ~MutedAlert(x)
      <3>1. /\ attempts[x].state = "sending"
            /\ attempts'[x] = [attempts[x] EXCEPT !.state = "pending"]
        BY <1>1, <2>3 DEF RequeueStuckSending
      <3> QED
        BY <2>1, <2>3, <3>1, UpdatedRow DEF MovesTogether
    <2>4. CASE x \notin stale
      BY <1>1, <2>1, <2>4 DEF RequeueStuckSending, Rests
    <2> QED
      BY <2>2, <2>3, <2>4
  <1> QED
    BY <1>2, <1>3 DEF QueueMoves

LEMMA ReplayEffect ==
    ASSUME StoreTypeOK, ReplayStep \/ TimeStep
    PROVE  QueueMoves
  <1>1. ASSUME NEW a \in DOMAIN attempts, Replay(a) PROVE QueueMoves
    <2>1. UNCHANGED events /\ DOMAIN attempts' = DOMAIN attempts /\ attempts[a] \in Attempt
      BY <1>1 DEF Replay, StoreTypeOK
    <2>2. \A x \in DOMAIN attempts \ {a} : Rests(x)
      BY <1>1, <2>1 DEF Replay, Rests
    <2>3. attempts'[a] = [attempts[a] EXCEPT !.state = "pending", !.attempts = 0, !.nextRetry = "due"]
      BY <1>1, <2>1 DEF Replay, Attempt
    <2>4. Becomes(a, "pending", 0, "due")
      BY <2>1, <2>3, UpdatedRow
    <2> QED
      BY <1>1, <2>1, <2>2, <2>4 DEF Replay, QueueMoves, MovesAlone
  <1>2. ASSUME NEW a \in DOMAIN attempts, RetryTimeComes(a) PROVE QueueMoves
    <2>1. UNCHANGED events /\ DOMAIN attempts' = DOMAIN attempts /\ attempts[a] \in Attempt
      BY <1>2 DEF RetryTimeComes, StoreTypeOK
    <2>2. \A x \in DOMAIN attempts \ {a} : Rests(x)
      BY <1>2, <2>1 DEF RetryTimeComes, Rests
    <2>3. attempts'[a] = [attempts[a] EXCEPT !.nextRetry = "due"]
      BY <1>2, <2>1 DEF RetryTimeComes
    <2>4. Becomes(a, attempts[a].state, attempts[a].attempts, "due")
      BY <2>1, <2>3, UpdatedRow
    <2> QED
      BY <1>2, <2>1, <2>2, <2>4 DEF RetryTimeComes, QueueMoves, MovesAlone
  <1> QED
    BY <1>1, <1>2 DEF ReplayStep, TimeStep

LEMMA FallbackRowsEffect ==
    ASSUME StoreTypeOK, NEW a \in DOMAIN attempts, NEW channel \in Channels,
           Added = DOMAIN FallbackRows(a, channel),
           \A x \in DOMAIN FallbackRows(a, channel) : attempts'[x] = FallbackRows(a, channel)[x]
    PROVE  LET e    == attempts[a].event
               late == events[e].state = "resolved" /\ RecoveriesOf(e) # {}
           IN \E c \in Added :
                 /\ attempts'[c] = PendingAttempt(e, channel, "alert", a, NoLink)
                 /\ \/ ~late /\ Added = {c}
                    \/ /\ late
                       /\ \E r \in Added \ {c} :
                             /\ Added = {c, r}
                             /\ attempts'[r] = PendingAttempt(e, channel, "recovery", NoLink, c)
  <1> DEFINE e    == attempts[a].event
             late == events[e].state = "resolved" /\ RecoveriesOf(e) # {}
             c    == lastId + 1
  <1>1. lastId \in Nat /\ c + 1 # c
    BY DEF StoreTypeOK
  <1>2. c \in Added /\ attempts'[c] = PendingAttempt(e, channel, "alert", a, NoLink)
    BY <1>1 DEF FallbackRows
  <1>3. ~late => Added = {c}
    BY <1>1 DEF FallbackRows
  <1>4. late => /\ Added = {c, c + 1}
                /\ attempts'[c + 1] = PendingAttempt(e, channel, "recovery", NoLink, c)
    BY <1>1 DEF FallbackRows
  <1> QED
    BY <1>1, <1>2, <1>3, <1>4

LEMMA MarkEffect ==
    ASSUME StoreTypeOK, NEW a \in DOMAIN attempts, NEW result, NEW count \in Nat, NEW retry,
           NEW fallback \in Channels \cup {NoChannel},
           MarkResult(a, result, count, retry, fallback)
    PROVE  LET cancel == result # "sent" /\ MutedAlert(a)
               stored == IF cancel THEN "cancelled" ELSE result
               copied == stored = "dead_letter" /\ fallback # NoChannel /\ ~Redirected(a)
           IN /\ UNCHANGED events
              /\ attempts[a].state = "sending"
              /\ Becomes(a, stored, count, IF cancel THEN "null" ELSE retry)
              /\ \A x \in DOMAIN attempts \ {a} : Rests(x)
              /\ ~copied => DOMAIN attempts' = DOMAIN attempts
              /\ copied =>
                   /\ Added = DOMAIN FallbackRows(a, fallback)
                   /\ \A x \in DOMAIN FallbackRows(a, fallback) :
                         attempts'[x] = FallbackRows(a, fallback)[x]
  <1> DEFINE cancel == result # "sent" /\ MutedAlert(a)
             stored == IF cancel THEN "cancelled" ELSE result
             then   == IF cancel THEN "null" ELSE retry
             copied == stored = "dead_letter" /\ fallback # NoChannel /\ ~Redirected(a)
             marked == [attempts EXCEPT ![a].state = stored, ![a].attempts = count,
                                        ![a].nextRetry = then]
             rows   == FallbackRows(a, fallback)
  <1>1. UNCHANGED events /\ attempts[a].state = "sending"
    BY DEF MarkResult
  <1>2. IF copied THEN attempts' = Insert(marked, rows) ELSE attempts' = marked
    BY DEF MarkResult
  <1>3. /\ DOMAIN marked = DOMAIN attempts
        /\ attempts[a] \in Attempt
        /\ marked[a] = [attempts[a] EXCEPT !.state = stored, !.attempts = count, !.nextRetry = then]
        /\ \A x \in DOMAIN attempts \ {a} : marked[x] = attempts[x]
    <2> HIDE DEF stored, then
    <2> QED
      BY DEF StoreTypeOK, Attempt
  <1>4. CASE copied
    <2>1. DOMAIN marked \cap DOMAIN rows = {}
      <3>1. DOMAIN rows \subseteq {lastId + 1, lastId + 2} /\ lastId \in Nat
        BY <1>4, FallbackRowsType DEF StoreTypeOK
      <3> HIDE DEF rows, marked
      <3> QED
        BY <1>3, <3>1 DEF StoreTypeOK
    <2>2. attempts' = Insert(marked, rows)
      BY <1>2, <1>4
    <2>3. /\ Added = DOMAIN rows
          /\ DOMAIN attempts \subseteq DOMAIN attempts'
          /\ \A x \in DOMAIN attempts : attempts'[x] = marked[x]
          /\ \A x \in DOMAIN rows : attempts'[x] = rows[x]
      <3> HIDE DEF rows, marked
      <3> QED
        BY <1>3, <2>1, <2>2, InsertedRows
    <2>4. /\ Becomes(a, stored, count, then)
          /\ \A x \in DOMAIN attempts \ {a} : Rests(x)
      <3> HIDE DEF stored, then, rows, marked
      <3> QED
        BY <1>3, <2>3, UpdatedRow DEF Rests
    <2> QED
      BY <1>1, <1>4, <2>3, <2>4
  <1>5. CASE ~copied
    <2>1. attempts' = marked
      BY <1>2, <1>5
    <2>2. /\ Becomes(a, stored, count, then)
          /\ \A x \in DOMAIN attempts \ {a} : Rests(x)
      <3> HIDE DEF stored, then, marked
      <3> QED
        BY <1>3, <2>1, UpdatedRow DEF Rests
    <2> QED
      BY <1>1, <1>3, <1>5, <2>1, <2>2
  <1> QED
    BY <1>4, <1>5

\* A result that queues no copy.
LEMMA PlainMarkEffect ==
    ASSUME StoreTypeOK, NEW a \in DOMAIN attempts, NEW result, NEW count \in Nat, NEW retry,
           MarkResult(a, result, count, retry, NoChannel)
    PROVE  /\ UNCHANGED events
           /\ attempts[a].state = "sending"
           /\ result # "sent" /\ MutedAlert(a) => Becomes(a, "cancelled", count, "null")
           /\ result = "sent" \/ ~MutedAlert(a) => Becomes(a, result, count, retry)
           /\ \A x \in DOMAIN attempts \ {a} : Rests(x)
           /\ DOMAIN attempts' = DOMAIN attempts
  <1>1. CASE result # "sent" /\ MutedAlert(a)
    BY <1>1, MarkEffect
  <1>2. CASE ~(result # "sent" /\ MutedAlert(a))
    BY <1>2, MarkEffect
  <1> QED
    BY <1>1, <1>2

LEMMA ResultEffect ==
    ASSUME StoreTypeOK, ResultStep
    PROVE  QueueMoves \/ \E a : Redirects(a)
  <1>1. PICK a \in DOMAIN attempts, count \in 0 .. MaxAttempts - 1 :
            \/ SaveSent(a, count)
            \/ SaveFailed(a, count)
            \/ \E retry \in {"null", "due"} : HandBack(a, count, retry)
    BY DEF ResultStep
  <1>2. /\ count \in Nat /\ count + 1 \in Nat /\ count + 1 \in 1 .. MaxAttempts
        /\ count + 1 < MaxAttempts => count + 1 \in 1 .. MaxAttempts - 1
        /\ count + 1 >= MaxAttempts => count + 1 = MaxAttempts
    BY BoundsAssumption
  <1>3. FallbackFor(a) \in Channels \cup {NoChannel} /\ NoChannel \in Channels \cup {NoChannel}
    BY FallbackForType
  \* A result that queues no copy moves the row alone.
  <1>4. ASSUME UNCHANGED events, DOMAIN attempts' = DOMAIN attempts, MovesAlone(a),
               \A x \in DOMAIN attempts \ {a} : Rests(x)
        PROVE  QueueMoves
    BY <1>4 DEF QueueMoves
  <1>5. CASE SaveSent(a, count)
    <2>1. /\ UNCHANGED events
          /\ attempts[a].state = "sending"
          /\ Becomes(a, "sent", count + 1, "null")
          /\ \A x \in DOMAIN attempts \ {a} : Rests(x)
          /\ DOMAIN attempts' = DOMAIN attempts
      BY <1>2, <1>5, PlainMarkEffect DEF SaveSent
    <2> QED
      BY <1>2, <1>4, <2>1 DEF MovesAlone
  <1>6. CASE SaveFailed(a, count) /\ count + 1 < MaxAttempts
    <2>1. PICK n \in 1 .. MaxAttempts - 1 : n \in Nat /\ MarkResult(a, "failed", n, "later", NoChannel)
      BY <1>2, <1>6 DEF SaveFailed
    <2>2. /\ UNCHANGED events
          /\ attempts[a].state = "sending"
          /\ MutedAlert(a) => Becomes(a, "cancelled", n, "null")
          /\ ~MutedAlert(a) => Becomes(a, "failed", n, "later")
          /\ \A x \in DOMAIN attempts \ {a} : Rests(x)
          /\ DOMAIN attempts' = DOMAIN attempts
      <3>1. attempts[a].state = "sending"
        BY <2>1, PlainMarkEffect
      <3>2. UNCHANGED events
        BY <2>1, PlainMarkEffect
      <3>3. MutedAlert(a) => Becomes(a, "cancelled", n, "null")
        BY <2>1, PlainMarkEffect, "failed" # "sent"
      <3>4. ~MutedAlert(a) => Becomes(a, "failed", n, "later")
        BY <2>1, PlainMarkEffect, "failed" # "sent"
      <3>5. \A x \in DOMAIN attempts \ {a} : Rests(x)
        BY <2>1, PlainMarkEffect
      <3>6. DOMAIN attempts' = DOMAIN attempts
        BY <2>1, PlainMarkEffect
      <3> QED BY <3>1, <3>2, <3>3, <3>4, <3>5, <3>6
    <2> QED
      BY <1>4, <2>1, <2>2 DEF MovesAlone
  <1>7. CASE SaveFailed(a, count) /\ count + 1 >= MaxAttempts
    <2>1. MarkResult(a, "dead_letter", MaxAttempts, "null", FallbackFor(a)) /\ MaxAttempts \in Nat
      BY <1>2, <1>7, BoundsAssumption DEF SaveFailed
    <2> DEFINE copied == ~MutedAlert(a) /\ FallbackFor(a) # NoChannel /\ ~Redirected(a)
    <2>2. /\ UNCHANGED events
          /\ attempts[a].state = "sending"
          /\ IF MutedAlert(a) THEN Becomes(a, "cancelled", MaxAttempts, "null")
                              ELSE Becomes(a, "dead_letter", MaxAttempts, "null")
          /\ \A x \in DOMAIN attempts \ {a} : Rests(x)
          /\ ~copied => DOMAIN attempts' = DOMAIN attempts
          /\ copied => /\ Added = DOMAIN FallbackRows(a, FallbackFor(a))
                       /\ \A x \in DOMAIN FallbackRows(a, FallbackFor(a)) :
                             attempts'[x] = FallbackRows(a, FallbackFor(a))[x]
      BY <1>3, <2>1, MarkEffect
    <2>3. CASE ~copied
      BY <1>4, <2>1, <2>2, <2>3 DEF MovesAlone
    <2>4. CASE copied
      <3>1. /\ attempts[a].kind = "alert"
            /\ attempts[a].fallbackOf = NoLink
            /\ FallbackFor(a) = Fallback[attempts[a].channel]
            /\ FallbackFor(a) \in Channels
        BY <1>3, <2>4 DEF FallbackFor
      <3>2. Redirects(a)
        BY <2>2, <2>4, <3>1, FallbackRowsEffect DEF Redirects
      <3> QED
        BY <3>2
    <2> QED
      BY <2>3, <2>4
  <1>8. ASSUME NEW retry \in {"null", "due"}, HandBack(a, count, retry) PROVE QueueMoves
    <2>1. /\ UNCHANGED events
          /\ attempts[a].state = "sending"
          /\ MutedAlert(a) => Becomes(a, "cancelled", count, "null")
          /\ ~MutedAlert(a) => Becomes(a, "pending", count, retry)
          /\ \A x \in DOMAIN attempts \ {a} : Rests(x)
          /\ DOMAIN attempts' = DOMAIN attempts
      BY <1>2, <1>8, PlainMarkEffect, "pending" # "sent" DEF HandBack
    <2> QED
      BY <1>2, <1>4, <2>1 DEF MovesAlone
  <1> QED
    BY <1>1, <1>2, <1>5, <1>6, <1>7, <1>8, BoundsAssumption

(***************************************************************************)
(* Every step of the store has one of six effects on the rows.             *)
(***************************************************************************)
LEMMA StoreStepEffects ==
    ASSUME StoreTypeOK, [StoreNext]_storeVars
    PROVE  \/ \E e, key : Creates(e, key)
           \/ \E e : Refreshes(e)
           \/ \E e, to : Moves(e, to)
           \/ QueueMoves
           \/ \E a : Redirects(a)
           \/ \E old : Removes(old)
  <1>1. RetentionStep => \E old : Removes(old)
    BY DEF RetentionStep, DeleteEvents, Removes, ANonEmptySubset
  <1>2. UNCHANGED storeVars => QueueMoves
    BY DEF storeVars, QueueMoves, Rests
  <1> QED
    BY <1>1, <1>2, CreateEffect, RefreshEffect, TransitionEffect, ClaimEffect, ResultEffect,
       ReplayEffect, RequeueEffect DEF StoreNext

\* Ids grow: events and attempts that are new have ids not given out before.
LEMMA IdsGrow ==
    ASSUME StoreTypeOK, [StoreNext]_storeVars
    PROVE  /\ lastEvent \in Nat /\ lastEvent' \in Nat /\ lastEvent <= lastEvent'
           /\ lastId \in Nat /\ lastId' \in Nat /\ lastId <= lastId'
           /\ \A e \in DOMAIN events' : e \in DOMAIN events \/ e > lastEvent
           /\ \A x \in DOMAIN attempts' : x \in DOMAIN attempts \/ x > lastId
  <1> DEFINE Goal == /\ lastEvent <= lastEvent' /\ lastId <= lastId'
                     /\ \A e \in DOMAIN events' : e \in DOMAIN events \/ e > lastEvent
                     /\ \A x \in DOMAIN attempts' : x \in DOMAIN attempts \/ x > lastId
  <1>1. /\ lastEvent \in Nat /\ lastId \in Nat
        /\ lastEvent' \in Nat /\ lastId' \in Nat
    BY StoreTypeStep DEF StoreTypeOK
  \* Rows put in under the ids from lastId + 1 on.
  <1>2. ASSUME NEW table, NEW rows, NEW n \in Nat, attempts' = Insert(table, rows),
               DOMAIN table = DOMAIN attempts, DOMAIN rows \subseteq (lastId + 1) .. n
        PROVE  \A x \in DOMAIN attempts' : x \in DOMAIN attempts \/ x > lastId
    BY <1>1, <1>2 DEF Insert
  <1>3. CASE CreateStep
    <2>1. PICK key \in Keys \cup {NoKey}, type \in Types, severity \in Severities :
              InsertEvent(key, type, severity)
      BY <1>3 DEF CreateStep
    <2> DEFINE route == Route[type][severity]
               rows  == AlertRows(lastEvent + 1, route, {})
    <2>2. route \in Seq(Channels) /\ Len(route) \in Nat /\ lastEvent + 1 \in Nat
      BY <1>1, RouteAssumption
    <2>3. DOMAIN rows \subseteq (lastId + 1) .. (lastId + Len(route))
      BY <2>2, AlertRowsType
    <2>4. attempts' = Insert(attempts, rows) /\ lastId' = lastId + Len(route) /\ lastEvent' = lastEvent + 1
      BY <2>1 DEF InsertEvent
    <2>5. \A e \in DOMAIN events' : e \in DOMAIN events \/ e > lastEvent
      BY <1>1, <2>1 DEF InsertEvent, Insert
    <2> HIDE DEF route, rows
    <2>6. \A x \in DOMAIN attempts' : x \in DOMAIN attempts \/ x > lastId
      BY <1>1, <1>2, <2>2, <2>3, <2>4
    <2> QED
      BY <1>1, <2>2, <2>4, <2>5, <2>6
  <1>4. CASE RefreshStep
    <2>1. PICK e \in DOMAIN events, severity \in Severities :
              \E alerts \in AlertsOnRise(e, severity) : RefreshOpenEvent(e, severity, alerts)
      BY <1>4 DEF RefreshStep
    <2>2. PICK alerts \in Seq(Channels) : RefreshOpenEvent(e, severity, alerts)
      BY <2>1, AlertsOnRiseType
    <2> DEFINE rows == AlertRows(e, alerts, AlertChannelNames(e))
    <2>3. e \in Nat /\ Len(alerts) \in Nat
      BY DEF StoreTypeOK
    <2>4. DOMAIN rows \subseteq (lastId + 1) .. (lastId + Len(alerts))
      BY <2>3, AlertRowsType
    <2>5. DOMAIN events' = DOMAIN events /\ lastEvent' = lastEvent
      BY <2>2 DEF RefreshOpenEvent
    <2>6. \/ attempts' = Insert(attempts, rows) /\ lastId' = lastId + Len(alerts)
          \/ attempts' = attempts /\ lastId' = lastId
      BY <2>2 DEF RefreshOpenEvent
    <2> HIDE DEF rows
    <2>7. \A x \in DOMAIN attempts' : x \in DOMAIN attempts \/ x > lastId
      BY <1>1, <1>2, <2>3, <2>4, <2>6
    <2> QED
      BY <1>1, <2>3, <2>5, <2>6, <2>7
  <1>5. CASE TransitionStep
    <2>1. PICK e \in DOMAIN events : \E to \in Targets(e) : Transition(e, events[e].state, to)
      BY <1>5 DEF TransitionStep
    <2>2. PICK to : Transition(e, events[e].state, to)
      BY <2>1
    <2> DEFINE recover == to = "resolved" /\ NotifiesOnClose(events[e].type, events[e].state)
               old  == IF to = "muted" THEN CancelQueuedAlerts(e) ELSE attempts
               rows == IF recover THEN RecoveryRows(e) ELSE <<>>
    <2>3. e \in Nat /\ 2 * lastId \in Nat /\ lastId <= 2 * lastId
      BY <1>1 DEF StoreTypeOK
    <2>4. DOMAIN rows \subseteq (lastId + 1) .. (2 * lastId) /\ DOMAIN old = DOMAIN attempts
      BY <2>3, RecoveryRowsType, EmptyTable DEF CancelQueuedAlerts
    <2>5. /\ attempts' = Insert(old, rows)
          /\ lastId' = 2 * lastId \/ lastId' = lastId
          /\ DOMAIN events' = DOMAIN events /\ lastEvent' = lastEvent
      BY <2>2 DEF Transition, TransitionEvent
    <2> HIDE DEF rows, old
    <2>6. \A x \in DOMAIN attempts' : x \in DOMAIN attempts \/ x > lastId
      BY <1>1, <1>2, <2>3, <2>4, <2>5
    <2> QED
      BY <1>1, <2>3, <2>5, <2>6
  <1>6. ASSUME NEW a \in DOMAIN attempts, NEW result, NEW count, NEW retry,
               NEW fallback \in Channels \cup {NoChannel}, MarkResult(a, result, count, retry, fallback)
        PROVE  Goal
    <2> DEFINE marked == [attempts EXCEPT
                            ![a].state = IF result # "sent" /\ MutedAlert(a) THEN "cancelled" ELSE result,
                            ![a].attempts = count,
                            ![a].nextRetry = IF result # "sent" /\ MutedAlert(a) THEN "null" ELSE retry]
               rows == FallbackRows(a, fallback)
    <2>2. /\ UNCHANGED <<events, lastEvent>>
          /\ \/ attempts' = marked /\ lastId' = lastId
             \/ fallback # NoChannel /\ attempts' = Insert(marked, rows) /\ lastId' = lastId + 2
      BY <1>6 DEF MarkResult
    <2>3. DOMAIN marked = DOMAIN attempts
      OBVIOUS
    <2>4. fallback # NoChannel => DOMAIN rows \subseteq (lastId + 1) .. (lastId + 2)
      <3>1. fallback # NoChannel => DOMAIN rows \subseteq {lastId + 1, lastId + 2}
        BY FallbackRowsType
      <3> HIDE DEF rows
      <3> QED
        BY <1>1, <3>1
    <2> HIDE DEF marked, rows
    <2>5. \A x \in DOMAIN attempts' : x \in DOMAIN attempts \/ x > lastId
      BY <1>1, <1>2, <2>2, <2>3, <2>4
    <2> QED
      BY <1>1, <2>2, <2>5
  <1>7. CASE ResultStep
    <2>1. PICK a \in DOMAIN attempts, count \in 0 .. MaxAttempts - 1 :
              \/ SaveSent(a, count)
              \/ SaveFailed(a, count)
              \/ \E retry \in {"null", "due"} : HandBack(a, count, retry)
      BY <1>7 DEF ResultStep
    <2>2. FallbackFor(a) \in Channels \cup {NoChannel} /\ NoChannel \in Channels \cup {NoChannel}
      BY FallbackForType
    <2> HIDE DEF Goal
    <2>3. Goal
      BY <1>6, <2>1, <2>2 DEF SaveSent, SaveFailed, HandBack
    <2> QED
      BY <1>1, <2>3 DEF Goal
  <1>8. CASE ClaimStep \/ RequeueStep \/ ReplayStep \/ TimeStep
    <2>1. DOMAIN attempts' = DOMAIN attempts
      BY <1>8, ClaimEffect, RequeueEffect, ReplayEffect DEF QueueMoves
    <2>2. UNCHANGED <<events, lastEvent, lastId>>
      BY <1>8 DEF ClaimStep, ReplayStep, RequeueStep, TimeStep, ClaimDue, Replay,
         RequeueStuckSending, RetryTimeComes
    <2> QED
      BY <1>1, <2>1, <2>2
  <1>9. CASE RetentionStep
    BY <1>1, <1>9 DEF RetentionStep, DeleteEvents
  <1>10. CASE UNCHANGED storeVars
    BY <1>1, <1>10 DEF storeVars
  <1> QED
    BY <1>1, <1>3, <1>4, <1>5, <1>7, <1>8, <1>9, <1>10 DEF StoreNext
-----------------------------------------------------------------------------
(***************************************************************************)
(* The invariants that the proofs need beside the ones of Store.           *)
(***************************************************************************)

\* The foreign key: an attempt belongs to an event of the table.
AttemptsOwned == \A a \in DOMAIN attempts : attempts[a].event \in DOMAIN events

\* A copy is an alert of the same event as the alert it copies, which is no
\* copy itself.
CopyLinked ==
    \A c \in DOMAIN attempts : attempts[c].fallbackOf # NoLink =>
        LET a == attempts[c].fallbackOf
        IN /\ a \in DOMAIN attempts
           /\ attempts[a].event = attempts[c].event
           /\ attempts[a].fallbackOf = NoLink
           /\ attempts[c].channel = Fallback[attempts[a].channel]

\* The fields of a row just queued.
LEMMA PendingFields ==
    ASSUME NEW e, NEW channel, NEW kind, NEW fallbackOf, NEW recoveryFor, NEW row,
           row = PendingAttempt(e, channel, kind, fallbackOf, recoveryFor)
    PROVE  /\ row.event = e
           /\ row.channel = channel
           /\ row.kind = kind
           /\ row.state = "pending"
           /\ row.attempts = 0
           /\ row.nextRetry = "null"
           /\ row.fallbackOf = fallbackOf
           /\ row.recoveryFor = recoveryFor
    BY DEF PendingAttempt

\* Rows that move keep what they are about.
LEMMA MovesKeep ==
    ASSUME QueueMoves, NEW x \in DOMAIN attempts
    PROVE  /\ Keeps(x)
           /\ Rests(x) \/ MovesTogether(x) \/ MovesAlone(x)
  <1>1. Rests(x) => Keeps(x)
    BY DEF Rests, Keeps
  <1>2. MovesTogether(x) => Keeps(x)
    BY DEF MovesTogether, Becomes
  <1>3. MovesAlone(x) => Keeps(x)
    BY DEF MovesAlone, Becomes
  <1>4. Rests(x) \/ MovesTogether(x) \/ MovesAlone(x)
    BY DEF QueueMoves
  <1> QED
    BY <1>1, <1>2, <1>3, <1>4

LEMMA OwnedStep ==
    ASSUME StoreTypeOK, AttemptsOwned, [StoreNext]_storeVars
    PROVE  AttemptsOwned'
  <1>1. ASSUME NEW e, NEW key, Creates(e, key) PROVE AttemptsOwned'
    BY <1>1, PendingFields DEF Creates, AddsAlerts, Rests, Added, AttemptsOwned
  <1>2. ASSUME NEW e, Refreshes(e) PROVE AttemptsOwned'
    BY <1>2, PendingFields DEF Refreshes, AddsAlerts, Rests, Added, AttemptsOwned
  <1>3. ASSUME NEW e, NEW to, Moves(e, to) PROVE AttemptsOwned'
    <2>1. \A x \in DOMAIN attempts : Keeps(x)
      BY <1>3 DEF Moves, Becomes, Rests, Keeps
    <2>2. \A x \in Added : attempts'[x].event = e
      BY <1>3, PendingFields DEF Moves, AddsRecoveries
    <2> QED
      BY <1>3, <2>1, <2>2 DEF Moves, Keeps, Added, AttemptsOwned
  <1>4. QueueMoves => AttemptsOwned'
    BY MovesKeep DEF QueueMoves, Keeps, AttemptsOwned
  <1>5. ASSUME NEW a, Redirects(a) PROVE AttemptsOwned'
    <2>1. \A x \in DOMAIN attempts : Keeps(x)
      BY <1>5 DEF Redirects, Becomes, Rests, Keeps
    <2>2. \A x \in Added : attempts'[x].event = attempts[a].event
      BY <1>5, PendingFields DEF Redirects
    <2> QED
      BY <1>5, <2>1, <2>2 DEF Redirects, Keeps, Added, AttemptsOwned
  <1>6. ASSUME NEW old, Removes(old) PROVE AttemptsOwned'
    BY <1>6 DEF Removes, AttemptsOwned
  <1> QED
    BY <1>1, <1>2, <1>3, <1>4, <1>5, <1>6, StoreStepEffects

LEMMA BudgetStep ==
    ASSUME StoreTypeOK, BudgetKept, [StoreNext]_storeVars
    PROVE  BudgetKept'
  <1>0. MaxAttempts \in Nat /\ 0 < MaxAttempts
    BY BoundsAssumption
  \* A row just queued has every try left.
  <1> DEFINE Kept(row) ==
               /\ row.state \in {"pending", "sending", "failed"} => row.attempts < MaxAttempts
               /\ row.state = "dead_letter" => row.attempts = MaxAttempts
  <1>a. \A x \in DOMAIN attempts : Kept(attempts[x])
    BY DEF BudgetKept
  <1>b. SUFFICES ASSUME NEW x \in DOMAIN attempts' PROVE Kept(attempts'[x])
    BY DEF BudgetKept
  <1>c. Rests(x) /\ x \in DOMAIN attempts => Kept(attempts'[x])
    BY <1>a DEF Rests
  <1>d. ASSUME NEW e, NEW channel, NEW kind, NEW f, NEW r,
               attempts'[x] = PendingAttempt(e, channel, kind, f, r)
        PROVE  Kept(attempts'[x])
    BY <1>0, <1>d, PendingFields
  <1>1. ASSUME NEW e, NEW key, Creates(e, key) PROVE Kept(attempts'[x])
    BY <1>1, <1>c, <1>d DEF Creates, AddsAlerts, Added
  <1>2. ASSUME NEW e, Refreshes(e) PROVE Kept(attempts'[x])
    BY <1>2, <1>c, <1>d DEF Refreshes, AddsAlerts, Added
  <1>3. ASSUME NEW e, NEW to, Moves(e, to) PROVE Kept(attempts'[x])
    <2>1. CASE x \in Added
      BY <1>3, <1>d, <2>1 DEF Moves, AddsRecoveries
    <2>2. CASE x \notin Added
      <3>1. Rests(x) \/ Becomes(x, "cancelled", attempts[x].attempts, "null")
        BY <1>3, <2>2 DEF Moves, Added
      <3> QED
        BY <1>c, <2>2, <3>1 DEF Becomes, Added
    <2> QED
      BY <2>1, <2>2
  <1>4. CASE QueueMoves
    <2>1. x \in DOMAIN attempts /\ Kept(attempts[x])
      BY <1>4, <1>a DEF QueueMoves
    <2>2. MovesTogether(x) => Kept(attempts'[x])
      BY <2>1 DEF MovesTogether, Becomes, Deliverable
    <2>3. MovesAlone(x) => Kept(attempts'[x])
      BY <1>0, <2>1 DEF MovesAlone, Becomes
    <2> QED
      BY <1>4, <1>c, <2>1, <2>2, <2>3, MovesKeep
  <1>5. ASSUME NEW a, Redirects(a) PROVE Kept(attempts'[x])
    <2>1. CASE x \in Added
      BY <1>5, <1>d, <2>1 DEF Redirects
    <2>2. CASE x = a
      BY <1>0, <1>5, <2>2 DEF Redirects, Becomes
    <2>3. CASE x \notin Added /\ x # a
      BY <1>5, <1>c, <2>3 DEF Redirects, Added
    <2> QED
      BY <2>1, <2>2, <2>3
  <1>6. ASSUME NEW old, Removes(old) PROVE Kept(attempts'[x])
    BY <1>6, <1>a DEF Removes
  <1> QED
    BY <1>1, <1>2, <1>3, <1>4, <1>5, <1>6, StoreStepEffects

LEMMA OneOpenStep ==
    ASSUME StoreTypeOK, OneOpenPerKey, [StoreNext]_storeVars
    PROVE  OneOpenPerKey'
  <1> DEFINE Open(d) == d \in DOMAIN events /\ events[d].state # "resolved"
             OpenNext(d) == d \in DOMAIN events' /\ events'[d].state # "resolved"
  <1>a. \A d, e : Open(d) /\ Open(e) /\ events[d].key = events[e].key /\ events[d].key \in Keys
                  /\ events[d].key # NoKey => d = e
    BY DEF OneOpenPerKey, OpenByKey, OpenEvents
  <1>b. SUFFICES ASSUME NEW d, NEW e, OpenNext(d), OpenNext(e), events'[d].key = events'[e].key,
                        events'[d].key \in Keys, events'[d].key # NoKey
                 PROVE  d = e
    BY DEF OneOpenPerKey, OpenByKey, OpenEvents
  \* A step that opens no event leaves at most one open.
  <1>c. ASSUME \A x : OpenNext(x) => Open(x) /\ events'[x].key = events[x].key
        PROVE  d = e
    BY <1>a, <1>b, <1>c
  <1>1. ASSUME NEW new, NEW key, Creates(new, key) PROVE d = e
    <2>1. \A x : OpenNext(x) => x = new \/ (Open(x) /\ events'[x].key = events[x].key)
      BY <1>1 DEF Creates
    <2>2. \A x : Open(x) /\ key # NoKey => events[x].key # key
      BY <1>1 DEF Creates, OpenByKey, OpenEvents
    <2>3. events'[new].key = key
      BY <1>1 DEF Creates
    <2> HIDE DEF Open, OpenNext
    <2> QED
      BY <1>a, <1>b, <2>1, <2>2, <2>3
  <1>2. ASSUME NEW x, Refreshes(x) PROVE d = e
    BY <1>2, <1>c DEF Refreshes
  <1>3. ASSUME NEW x, NEW to, Moves(x, to) PROVE d = e
    BY <1>3, <1>c DEF Moves
  <1>4. CASE QueueMoves
    BY <1>4, <1>c DEF QueueMoves
  <1>5. ASSUME NEW a, Redirects(a) PROVE d = e
    BY <1>5, <1>c DEF Redirects
  <1>6. ASSUME NEW old, Removes(old) PROVE d = e
    BY <1>6, <1>c DEF Removes
  <1> QED
    BY <1>1, <1>2, <1>3, <1>4, <1>5, <1>6, StoreStepEffects

LEMMA QuietStep ==
    ASSUME StoreTypeOK, AttemptsOwned, MutedIsQuiet, [StoreNext]_storeVars
    PROVE  MutedIsQuiet'
  <1> DEFINE Replayed(row) == row.state = "pending" /\ row.attempts = 0 /\ row.nextRetry = "due"
             Waits(row) == row.kind = "alert" /\ row.state \in {"pending", "failed"}
  <1>a. \A x \in DOMAIN attempts :
            Waits(attempts[x]) /\ events[attempts[x].event].state = "muted" => Replayed(attempts[x])
    BY DEF MutedIsQuiet, MutedAlert
  <1>b. SUFFICES ASSUME NEW x \in DOMAIN attempts', Waits(attempts'[x]),
                        events'[attempts'[x].event].state = "muted"
                 PROVE  Replayed(attempts'[x])
    BY DEF MutedIsQuiet, MutedAlert
  <1>o. x \in DOMAIN attempts => attempts[x].event \in DOMAIN events
    BY DEF AttemptsOwned
  \* A row that rests in an event that was muted before.
  <1>c. ASSUME x \in DOMAIN attempts, Rests(x), events[attempts[x].event].state = "muted"
        PROVE  Replayed(attempts'[x])
    BY <1>a, <1>b, <1>c DEF Rests
  <1>1. ASSUME NEW e, NEW key, Creates(e, key) PROVE Replayed(attempts'[x])
    <2>1. CASE x \in Added
      <3>1. attempts'[x].event = e
        BY <1>1, <2>1, PendingFields DEF Creates, AddsAlerts
      <3> QED
        BY <1>1, <1>b, <3>1 DEF Creates
    <2>2. CASE x \notin Added
      BY <1>1, <1>b, <1>c, <1>o, <2>2 DEF Creates, AddsAlerts, Added, Rests
    <2> QED
      BY <2>1, <2>2
  <1>2. ASSUME NEW e, Refreshes(e) PROVE Replayed(attempts'[x])
    <2>1. CASE x \in Added
      <3>1. attempts'[x].event = e
        BY <1>2, <2>1, PendingFields DEF Refreshes, AddsAlerts
      <3> QED
        BY <1>2, <1>b, <2>1, <3>1 DEF Refreshes
    <2>2. CASE x \notin Added
      BY <1>2, <1>b, <1>c, <1>o, <2>2 DEF Refreshes, AddsAlerts, Added, Rests
    <2> QED
      BY <2>1, <2>2
  <1>3. ASSUME NEW e, NEW to, Moves(e, to) PROVE Replayed(attempts'[x])
    <2>1. CASE x \in Added
      <3>1. attempts'[x].kind = "recovery"
        BY <1>3, <2>1, PendingFields DEF Moves, AddsRecoveries
      <3> QED
        BY <1>b, <3>1
    <2>2. CASE x \notin Added
      <3>1. x \in DOMAIN attempts /\ Rests(x)
        BY <1>3, <1>b, <2>2 DEF Moves, Added, Becomes
      <3>2. attempts[x].event # e
        <4>1. SUFFICES ASSUME attempts[x].event = e PROVE FALSE
          OBVIOUS
        <4>2. to = "muted" /\ x \in AlertsOf(e) /\ attempts[x].state \in {"pending", "failed"}
          BY <1>3, <1>b, <3>1, <4>1 DEF Moves, Rests, AlertsOf
        <4>3. attempts'[x].state = "cancelled"
          BY <1>3, <3>1, <4>2 DEF Moves, Becomes
        <4> QED
          BY <1>b, <4>3
      <3>3. events[attempts[x].event].state = "muted"
        BY <1>3, <1>b, <1>o, <3>1, <3>2 DEF Moves, Rests
      <3> QED
        BY <1>c, <3>1, <3>3
    <2> QED
      BY <2>1, <2>2
  <1>4. CASE QueueMoves
    <2>1. x \in DOMAIN attempts /\ Keeps(x) /\ UNCHANGED events
      BY <1>4, MovesKeep DEF QueueMoves
    <2>2. MutedAlert(x)
      BY <1>b, <2>1 DEF MutedAlert, Keeps
    <2>3. Rests(x) => Replayed(attempts'[x])
      BY <1>c, <2>1, <2>2 DEF MutedAlert
    <2>4. MovesTogether(x) => Replayed(attempts'[x])
      BY <1>b, <2>2 DEF MovesTogether, Becomes
    <2>5. MovesAlone(x) => Replayed(attempts'[x])
      <3>1. Waits(attempts[x]) => attempts[x].nextRetry # "later"
        BY <1>a, <2>1, <2>2 DEF MutedAlert
      <3> QED
        BY <1>b, <2>1, <2>2, <3>1 DEF MovesAlone, Becomes, Keeps
    <2> QED
      BY <1>4, <2>1, <2>3, <2>4, <2>5, MovesKeep
  <1>5. ASSUME NEW a, Redirects(a) PROVE Replayed(attempts'[x])
    <2>1. CASE x \in Added
      <3>1. attempts'[x].event = attempts[a].event
        BY <1>5, <2>1, PendingFields DEF Redirects
      <3> QED
        BY <1>5, <1>b, <3>1 DEF Redirects, MutedAlert
    <2>2. CASE x = a
      BY <1>5, <1>b, <2>2 DEF Redirects, Becomes
    <2>3. CASE x \notin Added /\ x # a
      <3>1. x \in DOMAIN attempts /\ Rests(x) /\ UNCHANGED events
        BY <1>5, <2>3 DEF Redirects, Added
      <3> QED
        BY <1>b, <1>c, <3>1 DEF Rests
    <2> QED
      BY <2>1, <2>2, <2>3
  <1>6. ASSUME NEW old, Removes(old) PROVE Replayed(attempts'[x])
    <2>1. x \in DOMAIN attempts /\ Rests(x) /\ attempts[x].event \notin old
      BY <1>6 DEF Removes, Rests
    <2>2. events[attempts[x].event].state = "muted"
      BY <1>6, <1>b, <1>o, <2>1 DEF Removes, Rests
    <2> QED
      BY <1>c, <2>1, <2>2
  <1> QED
    BY <1>1, <1>2, <1>3, <1>4, <1>5, <1>6, StoreStepEffects

\* No copy is queued, and a row is removed only with its event's other rows.
LEMMA NoCopyStep ==
    ASSUME StoreTypeOK, StoreTypeOK', CopyLinked, DeadLetterRedirected,
           \A x \in DOMAIN attempts \cap DOMAIN attempts' : Keeps(x),
           \A x \in DOMAIN attempts \ DOMAIN attempts' : \A y \in DOMAIN attempts :
              attempts[x].event = attempts[y].event => y \notin DOMAIN attempts',
           \A x \in Added : attempts'[x].fallbackOf = NoLink /\ attempts'[x].state # "dead_letter",
           \A x \in DOMAIN attempts \cap DOMAIN attempts' :
              attempts'[x].state = "dead_letter" =>
                 attempts[x].state = "dead_letter" \/ FallbackFor(x) = NoChannel \/ Redirected(x)
    PROVE  CopyLinked' /\ DeadLetterRedirected'
  <1>0. NoLink \notin DOMAIN attempts /\ NoLink \notin DOMAIN attempts'
    BY DEF StoreTypeOK, NoLink
  <1>1. \A c \in DOMAIN attempts' : attempts'[c].fallbackOf # NoLink =>
            LET a == attempts'[c].fallbackOf
            IN /\ c \in DOMAIN attempts /\ attempts[c].fallbackOf = a
               /\ a \in DOMAIN attempts /\ a \in DOMAIN attempts'
               /\ attempts[a].event = attempts[c].event
               /\ attempts[a].fallbackOf = NoLink
               /\ attempts[c].channel = Fallback[attempts[a].channel]
    BY DEF CopyLinked, Added, Keeps
  <1>2. CopyLinked'
    BY <1>1 DEF CopyLinked, Keeps
  <1>3. ASSUME NEW a \in DOMAIN attempts'
        PROVE  LET copies == {c \in DOMAIN attempts' : attempts'[c].fallbackOf = a}
               IN /\ \A c, d \in copies : c = d
                  /\ \A c \in copies : /\ attempts'[a].fallbackOf = NoLink
                                        /\ attempts'[c].channel = Fallback[attempts'[a].channel]
                  /\ (attempts'[a].state = "dead_letter" /\ FallbackFor(a)' # NoChannel) => copies # {}
    <2>1. CASE a \in DOMAIN attempts
      <3>0. Keeps(a)
        BY <1>3, <2>1
      <3>1. ASSUME NEW c \in DOMAIN attempts', attempts'[c].fallbackOf = a
            PROVE  /\ c \in DOMAIN attempts /\ attempts[c].fallbackOf = a
                   /\ attempts'[a].fallbackOf = NoLink
                   /\ attempts'[c].channel = Fallback[attempts'[a].channel]
        BY <1>0, <1>1, <2>1, <3>0, <3>1 DEF Keeps
      <3>2. \A c, d \in {y \in DOMAIN attempts' : attempts'[y].fallbackOf = a} : c = d
        BY <2>1, <3>1 DEF DeadLetterRedirected
      <3>3. ASSUME attempts'[a].state = "dead_letter", FallbackFor(a)' # NoChannel
            PROVE  \E c \in DOMAIN attempts' : attempts'[c].fallbackOf = a
        <4>1. FallbackFor(a) # NoChannel
          BY <3>0, <3>3 DEF FallbackFor, Keeps
        <4>2. PICK c \in DOMAIN attempts : attempts[c].fallbackOf = a
          BY <1>3, <2>1, <3>3, <4>1 DEF Redirected, DeadLetterRedirected
        <4>3. attempts[c].event = attempts[a].event
          BY <1>0, <2>1, <4>2 DEF CopyLinked
        <4>4. c \in DOMAIN attempts'
          BY <1>3, <2>1, <4>3
        <4> QED
          BY <4>2, <4>4 DEF Keeps
      <3> QED
        BY <3>1, <3>2, <3>3
    <2>2. CASE a \notin DOMAIN attempts
      <3>1. attempts'[a].state # "dead_letter"
        BY <1>3, <2>2 DEF Added
      <3>2. a # NoLink => {c \in DOMAIN attempts' : attempts'[c].fallbackOf = a} = {}
        BY <1>1, <2>2
      <3> QED
        BY <1>0, <3>1, <3>2
    <2> QED
      BY <2>1, <2>2
  <1> QED
    BY <1>2, <1>3 DEF DeadLetterRedirected

LEMMA CopyStep ==
    ASSUME StoreTypeOK, CopyLinked, DeadLetterRedirected, [StoreNext]_storeVars
    PROVE  CopyLinked' /\ DeadLetterRedirected'
  <1>0. StoreTypeOK'
    BY StoreTypeStep
  \* A row just queued that is no copy, and a row that rests.
  <1>a. \A x, e, channel, kind, r :
            attempts'[x] = PendingAttempt(e, channel, kind, NoLink, r) =>
               attempts'[x].fallbackOf = NoLink /\ attempts'[x].state # "dead_letter"
    BY PendingFields
  <1>b. \A x : Rests(x) => Keeps(x) /\ attempts'[x].state = attempts[x].state
    BY DEF Rests, Keeps
  <1>1. ASSUME NEW e, NEW key, Creates(e, key) PROVE CopyLinked' /\ DeadLetterRedirected'
    <2>1. /\ \A x \in DOMAIN attempts : Rests(x)
          /\ \A x \in Added : attempts'[x].fallbackOf = NoLink /\ attempts'[x].state # "dead_letter"
      BY <1>1, <1>a DEF Creates, AddsAlerts
    <2> QED
      BY <1>0, <1>b, <2>1, NoCopyStep DEF Rests
  <1>2. ASSUME NEW e, Refreshes(e) PROVE CopyLinked' /\ DeadLetterRedirected'
    <2>1. /\ \A x \in DOMAIN attempts : Rests(x)
          /\ \A x \in Added : attempts'[x].fallbackOf = NoLink /\ attempts'[x].state # "dead_letter"
      BY <1>2, <1>a DEF Refreshes, AddsAlerts
    <2> QED
      BY <1>0, <1>b, <2>1, NoCopyStep DEF Rests
  <1>3. ASSUME NEW e, NEW to, Moves(e, to) PROVE CopyLinked' /\ DeadLetterRedirected'
    <2>1. \A x \in DOMAIN attempts :
              Keeps(x) /\ (attempts'[x].state = "dead_letter" => attempts[x].state = "dead_letter")
      BY <1>3, <1>b DEF Moves, Becomes
    <2>2. \A x \in Added : attempts'[x].fallbackOf = NoLink /\ attempts'[x].state # "dead_letter"
      BY <1>3, <1>a DEF Moves, AddsRecoveries
    <2> QED
      BY <1>0, <2>1, <2>2, NoCopyStep DEF Keeps
  <1>4. CASE QueueMoves
    <2>1. \A x \in DOMAIN attempts : Keeps(x)
      BY <1>4, MovesKeep
    <2>2. Added = {}
      BY <1>4 DEF QueueMoves, Added
    <2>3. ASSUME NEW x \in DOMAIN attempts, attempts'[x].state = "dead_letter"
          PROVE  attempts[x].state = "dead_letter" \/ FallbackFor(x) = NoChannel \/ Redirected(x)
      <3>1. MovesTogether(x) => FALSE
        BY <2>3 DEF MovesTogether, Becomes
      <3>2. MovesAlone(x) => attempts[x].state = "dead_letter" \/ FallbackFor(x) = NoChannel \/ Redirected(x)
        BY <2>3 DEF MovesAlone, Becomes
      <3> QED
        BY <1>4, <1>b, <2>3, <3>1, <3>2, MovesKeep
    <2> QED
      BY <1>0, <2>1, <2>2, <2>3, NoCopyStep DEF Keeps
  <1>5. ASSUME NEW a, Redirects(a) PROVE CopyLinked' /\ DeadLetterRedirected'
    <2> DEFINE channel == Fallback[attempts[a].channel]
    <2>1. /\ a \in DOMAIN attempts
          /\ attempts[a].fallbackOf = NoLink
          /\ ~Redirected(a)
          /\ \A x \in DOMAIN attempts : Keeps(x)
          /\ \A x \in DOMAIN attempts \ {a} : attempts'[x].state = attempts[x].state
      BY <1>5, <1>b DEF Redirects, Becomes
    <2>2. PICK c \in Added :
            /\ attempts'[c].fallbackOf = a
            /\ attempts'[c].event = attempts[a].event
            /\ attempts'[c].channel = channel
            /\ \A x \in Added \ {c} : attempts'[x].fallbackOf = NoLink
            /\ \A x \in Added : attempts'[x].state = "pending"
      <3>1. PICK c \in Added :
              /\ attempts'[c] = PendingAttempt(attempts[a].event, channel, "alert", a, NoLink)
              /\ \A r \in Added \ {c} :
                    attempts'[r] = PendingAttempt(attempts[a].event, channel, "recovery", NoLink, c)
        BY <1>5 DEF Redirects
      <3> QED
        BY <3>1, PendingFields
    <2>3. NoLink \notin DOMAIN attempts /\ NoLink \notin DOMAIN attempts'
      BY <1>0 DEF StoreTypeOK, NoLink
    <2>4. \A x \in DOMAIN attempts' : x \in DOMAIN attempts \/ x \in Added
      BY DEF Added
    <2>5. CopyLinked'
      <3> SUFFICES ASSUME NEW d \in DOMAIN attempts', attempts'[d].fallbackOf # NoLink
                   PROVE  LET b == attempts'[d].fallbackOf
                          IN /\ b \in DOMAIN attempts'
                             /\ attempts'[b].event = attempts'[d].event
                             /\ attempts'[b].fallbackOf = NoLink
                             /\ attempts'[d].channel = Fallback[attempts'[b].channel]
        BY DEF CopyLinked
      <3>1. CASE d = c
        BY <2>1, <2>2, <3>1 DEF Keeps
      <3>2. CASE d # c
        <4>1. d \in DOMAIN attempts /\ Keeps(d)
          BY <2>1, <2>2, <2>4, <3>2
        <4> QED
          BY <2>1, <4>1 DEF Keeps, CopyLinked
      <3> QED
        BY <3>1, <3>2
    <2>6. DeadLetterRedirected'
      <3> SUFFICES ASSUME NEW b \in DOMAIN attempts'
                   PROVE  /\ \A d1, d2 \in DOMAIN attempts' :
                                attempts'[d1].fallbackOf = b /\ attempts'[d2].fallbackOf = b => d1 = d2
                          /\ \A d \in DOMAIN attempts' : attempts'[d].fallbackOf = b =>
                                /\ attempts'[b].fallbackOf = NoLink
                                /\ attempts'[d].channel = Fallback[attempts'[b].channel]
                          /\ (attempts'[b].state = "dead_letter" /\ FallbackFor(b)' # NoChannel) =>
                                \E d \in DOMAIN attempts' : attempts'[d].fallbackOf = b
        BY DEF DeadLetterRedirected
      <3>1. \A d \in DOMAIN attempts' : attempts'[d].fallbackOf = b =>
                /\ attempts'[b].fallbackOf = NoLink
                /\ attempts'[d].channel = Fallback[attempts'[b].channel]
        BY <2>3, <2>5 DEF CopyLinked
      <3>2. \A d \in DOMAIN attempts' : attempts'[d].fallbackOf = b =>
                \/ d = c /\ b = a
                \/ d \in DOMAIN attempts /\ attempts[d].fallbackOf = b /\ b \in DOMAIN attempts
        BY <2>1, <2>2, <2>3, <2>4 DEF Keeps, CopyLinked
      <3>3. \A d1, d2 \in DOMAIN attempts' :
                attempts'[d1].fallbackOf = b /\ attempts'[d2].fallbackOf = b => d1 = d2
        <4>1. \A d \in DOMAIN attempts : attempts[d].fallbackOf # a
          BY <2>1 DEF Redirected
        <4> QED
          BY <3>2, <4>1 DEF DeadLetterRedirected
      <3>4. ASSUME attempts'[b].state = "dead_letter", FallbackFor(b)' # NoChannel
            PROVE  \E d \in DOMAIN attempts' : attempts'[d].fallbackOf = b
        <4>1. CASE b = a
          BY <2>2, <4>1 DEF Added
        <4>2. CASE b # a
          <5>1. b \in DOMAIN attempts /\ attempts[b].state = "dead_letter" /\ Keeps(b)
            BY <2>1, <2>2, <2>4, <3>4, <4>2
          <5>2. FallbackFor(b) # NoChannel
            BY <3>4, <5>1 DEF FallbackFor, Keeps
          <5>3. PICK d \in DOMAIN attempts : attempts[d].fallbackOf = b
            BY <5>1, <5>2 DEF DeadLetterRedirected
          <5> QED
            BY <2>1, <5>3 DEF Keeps
        <4> QED
          BY <4>1, <4>2
      <3> QED
        BY <3>1, <3>3, <3>4
    <2> QED
      BY <2>5, <2>6
  <1>6. ASSUME NEW old, Removes(old) PROVE CopyLinked' /\ DeadLetterRedirected'
    <2>1. /\ \A x \in DOMAIN attempts \cap DOMAIN attempts' : Rests(x)
          /\ \A x \in DOMAIN attempts \ DOMAIN attempts' : \A y \in DOMAIN attempts :
                attempts[x].event = attempts[y].event => y \notin DOMAIN attempts'
          /\ Added = {}
      BY <1>6 DEF Removes, Rests, Added
    <2> QED
      BY <1>0, <1>b, <2>1, NoCopyStep
  <1> QED
    BY <1>1, <1>2, <1>3, <1>4, <1>5, <1>6, StoreStepEffects

\* EveryAlertRecoveredOnce of one event, row by row.
RecoveredAt(e) ==
    RecoveriesOf(e) # {} =>
        /\ events[e].state = "resolved"
        /\ \A a \in AlertsOf(e) :
              /\ attempts[a].state = "cancelled" =>
                    \A s \in RecoveriesOf(e) : attempts[s].recoveryFor # a
              /\ attempts[a].state # "cancelled" =>
                    \E r \in RecoveriesOf(e) :
                       /\ attempts[r].channel = attempts[a].channel
                       /\ \A s \in RecoveriesOf(e) : attempts[s].recoveryFor = a <=> s = r

RecoveredRows == \A e \in DOMAIN events : RecoveredAt(e)

LEMMA RowsRecoveredOnce == EveryAlertRecoveredOnce <=> RecoveredRows
  <1>1. ASSUME NEW e, NEW a
        PROVE  LET its == {r \in RecoveriesOf(e) : attempts[r].recoveryFor = a}
               IN (\E r \in its : its = {r} /\ attempts[r].channel = attempts[a].channel) <=>
                  (\E r \in RecoveriesOf(e) :
                       /\ attempts[r].channel = attempts[a].channel
                       /\ \A s \in RecoveriesOf(e) : attempts[s].recoveryFor = a <=> s = r)
    OBVIOUS
  <1>2. ASSUME NEW e, NEW a
        PROVE  {r \in RecoveriesOf(e) : attempts[r].recoveryFor = a} = {} <=>
               \A s \in RecoveriesOf(e) : attempts[s].recoveryFor # a
    OBVIOUS
  <1> QED
    BY <1>1, <1>2 DEF EveryAlertRecoveredOnce, RecoveredRows, RecoveredAt

LEMMA RowsRecoveredOnceNext == EveryAlertRecoveredOnce' <=> RecoveredRows'
    BY RowsRecoveredOnce, PTL

\* A step that neither adds a row of e nor cancels one while e has recoveries.
LEMMA SameRowsRecovered ==
    ASSUME NEW e, RecoveredAt(e),
           events[e].state = "resolved" => events'[e].state = "resolved",
           \A x \in DOMAIN attempts : attempts[x].event = e => Keeps(x),
           RecoveriesOf(e) # {} =>
              \A x \in DOMAIN attempts : attempts[x].event = e =>
                 (attempts[x].state = "cancelled" <=> attempts'[x].state = "cancelled"),
           \A x \in DOMAIN attempts' : attempts'[x].event = e => x \in DOMAIN attempts /\ attempts[x].event = e
    PROVE  RecoveredAt(e)'
  <1>1. AlertsOf(e)' = AlertsOf(e) /\ RecoveriesOf(e)' = RecoveriesOf(e)
    BY DEF AlertsOf, RecoveriesOf, Keeps
  <1>2. \A x \in AlertsOf(e) \cup RecoveriesOf(e) : x \in DOMAIN attempts /\ attempts[x].event = e /\ Keeps(x)
    BY DEF AlertsOf, RecoveriesOf
  <1>3. SUFFICES ASSUME RecoveriesOf(e) # {}
                 PROVE  /\ events'[e].state = "resolved"
                        /\ \A a \in AlertsOf(e) :
                              /\ attempts'[a].state = "cancelled" =>
                                    \A s \in RecoveriesOf(e) : attempts'[s].recoveryFor # a
                              /\ attempts'[a].state # "cancelled" =>
                                    \E r \in RecoveriesOf(e) :
                                       /\ attempts'[r].channel = attempts'[a].channel
                                       /\ \A s \in RecoveriesOf(e) : attempts'[s].recoveryFor = a <=> s = r
    BY <1>1 DEF RecoveredAt
  <1> QED
    BY <1>2, <1>3 DEF RecoveredAt, Keeps

\* Without a recovery there is nothing to show.
LEMMA NothingRecovered ==
    ASSUME NEW e, \A x \in DOMAIN attempts' : ~(attempts'[x].event = e /\ attempts'[x].kind = "recovery")
    PROVE  RecoveredAt(e)'
    BY DEF RecoveredAt, RecoveriesOf

LEMMA RecoveredStep ==
    ASSUME StoreTypeOK, AttemptsOwned, RecoveryLinked, RecoveredRows, [StoreNext]_storeVars
    PROVE  RecoveredRows'
  <1> SUFFICES ASSUME NEW e \in DOMAIN events' PROVE RecoveredAt(e)'
    BY DEF RecoveredRows
  <1>a. \A x : Rests(x) => Keeps(x) /\ attempts'[x].state = attempts[x].state
    BY DEF Rests, Keeps
  <1>b. e \in DOMAIN events /\ events[e].state # "resolved" =>
            \A x \in DOMAIN attempts : ~(attempts[x].event = e /\ attempts[x].kind = "recovery")
    BY DEF RecoveredRows, RecoveredAt, RecoveriesOf
  <1>c. \A x \in DOMAIN attempts' : x \in DOMAIN attempts \/ x \in Added
    BY DEF Added
  <1>d. e \in DOMAIN events => RecoveredAt(e)
    BY DEF RecoveredRows
  <1>1. ASSUME NEW d, NEW key, Creates(d, key) PROVE RecoveredAt(e)'
    <2>1. /\ \A x \in DOMAIN attempts : Rests(x)
          /\ \A x \in Added : attempts'[x].event = d /\ attempts'[x].kind = "alert"
      BY <1>1, PendingFields DEF Creates, AddsAlerts
    <2>2. CASE e = d
      <3>1. \A x \in DOMAIN attempts : attempts[x].event # d
        BY <1>1 DEF Creates, AttemptsOwned
      <3> QED
        BY <1>c, <2>1, <2>2, <3>1, NothingRecovered DEF Rests
    <2>3. CASE e # d
      <3>1. e \in DOMAIN events /\ events'[e] = events[e]
        BY <1>1, <2>3 DEF Creates
      <3> QED
        BY <1>a, <1>c, <1>d, <2>1, <2>3, <3>1, SameRowsRecovered DEF Rests
    <2> QED
      BY <2>2, <2>3
  <1>2. ASSUME NEW d, Refreshes(d) PROVE RecoveredAt(e)'
    <2>1. /\ \A x \in DOMAIN attempts : Rests(x)
          /\ \A x \in Added : attempts'[x].event = d /\ attempts'[x].kind = "alert"
      BY <1>2, PendingFields DEF Refreshes, AddsAlerts
    <2>2. e \in DOMAIN events /\ events'[e].state = events[e].state
      BY <1>2 DEF Refreshes
    <2>3. CASE e = d /\ Added # {}
      <3>1. events[e].state # "resolved"
        BY <1>2, <2>3 DEF Refreshes
      <3> QED
        BY <1>b, <1>c, <2>1, <2>2, <3>1, NothingRecovered DEF Rests
    <2>4. CASE e # d \/ Added = {}
      BY <1>a, <1>c, <1>d, <2>1, <2>2, <2>4, SameRowsRecovered DEF Rests
    <2> QED
      BY <2>3, <2>4
  <1>3. ASSUME NEW d, NEW to, Moves(d, to) PROVE RecoveredAt(e)'
    <2>1. e \in DOMAIN events /\ d \in DOMAIN events
      BY <1>3 DEF Moves
    <2>2. \A x \in Added : attempts'[x].event = d /\ attempts'[x].kind = "recovery"
      BY <1>3, PendingFields DEF Moves, AddsRecoveries
    <2>3. \A x \in DOMAIN attempts : Keeps(x)
      BY <1>3, <1>a DEF Moves, Becomes
    <2>4. CASE e # d
      <3>1. events'[e] = events[e]
        BY <1>3, <2>1, <2>4 DEF Moves
      <3>2. \A x \in DOMAIN attempts : attempts[x].event = e => Rests(x)
        BY <1>3, <2>4 DEF Moves, AlertsOf
      <3> QED
        BY <1>a, <1>c, <1>d, <2>1, <2>2, <2>3, <2>4, <3>1, <3>2, SameRowsRecovered DEF Keeps
    <2>5. CASE e = d /\ Added = {}
      <3>1. \A x \in DOMAIN attempts : ~(attempts[x].event = e /\ attempts[x].kind = "recovery")
        BY <1>3, <1>b, <2>1, <2>5 DEF Moves
      <3> QED
        BY <1>c, <2>3, <2>5, <3>1, NothingRecovered DEF Keeps
    <2>6. CASE e = d /\ Added # {}
      <3>1. /\ to = "resolved" /\ AddsRecoveries(e)
            /\ events'[e].state = "resolved"
            /\ \A x \in DOMAIN attempts : Rests(x)
        BY <1>3, <2>6 DEF Moves
      <3>2. \A x \in DOMAIN attempts : ~(attempts[x].event = e /\ attempts[x].kind = "recovery")
        BY <1>3, <1>b, <2>1, <2>6 DEF Moves
      <3>3. RecoveriesOf(e)' = Added
        BY <1>c, <2>2, <2>6, <3>1, <3>2 DEF RecoveriesOf, Rests, Added
      <3>4. \A x \in AlertsOf(e)' : x \in AlertsOf(e) /\ attempts'[x] = attempts[x]
        BY <1>c, <2>2, <3>1 DEF AlertsOf, Rests
      <3>5. \A r \in Added : \E a \in AlertsToRecover(e) :
                attempts'[r].recoveryFor = a /\ attempts'[r].channel = attempts[a].channel
        BY <3>1, PendingFields DEF AddsRecoveries
      <3>6. ASSUME NEW a \in AlertsOf(e)', attempts'[a].state = "cancelled", NEW s \in Added
            PROVE  attempts'[s].recoveryFor # a
        BY <3>4, <3>5, <3>6 DEF AlertsToRecover
      <3>7. ASSUME NEW a \in AlertsOf(e)', attempts'[a].state # "cancelled"
            PROVE  \E r \in Added : /\ attempts'[r].channel = attempts'[a].channel
                                     /\ \A s \in Added : attempts'[s].recoveryFor = a <=> s = r
        <4>1. a \in AlertsToRecover(e)
          BY <3>4, <3>7 DEF AlertsToRecover
        <4>2. PICK r \in Added : \A s \in Added : attempts'[s].recoveryFor = a <=> s = r
          BY <3>1, <4>1 DEF AddsRecoveries
        <4>3. attempts'[r].channel = attempts'[a].channel
          BY <3>4, <3>5, <3>7, <4>2
        <4> QED
          BY <4>2, <4>3
      <3> QED
        BY <3>1, <3>3, <3>6, <3>7 DEF RecoveredAt
    <2> QED
      BY <2>4, <2>5, <2>6
  <1>4. CASE QueueMoves
    <2>1. e \in DOMAIN events /\ UNCHANGED events /\ DOMAIN attempts' = DOMAIN attempts
      BY <1>4 DEF QueueMoves
    <2>2. \A x \in DOMAIN attempts : Keeps(x)
      BY <1>4, MovesKeep
    <2>3. ASSUME RecoveriesOf(e) # {}, NEW x \in DOMAIN attempts, attempts[x].event = e
          PROVE  attempts[x].state = "cancelled" <=> attempts'[x].state = "cancelled"
      <3>1. ~MutedAlert(x)
        BY <1>d, <2>1, <2>3 DEF RecoveredAt, MutedAlert
      <3>2. MovesTogether(x) => (attempts[x].state = "cancelled" <=> attempts'[x].state = "cancelled")
        BY <3>1 DEF MovesTogether, Becomes, Deliverable
      <3>3. MovesAlone(x) => (attempts[x].state = "cancelled" <=> attempts'[x].state = "cancelled")
        BY <3>1 DEF MovesAlone, Becomes
      <3> QED
        BY <1>4, <1>a, <3>2, <3>3, MovesKeep
    <2> QED
      BY <1>d, <2>1, <2>2, <2>3, SameRowsRecovered DEF Keeps
  <1>5. ASSUME NEW b, Redirects(b) PROVE RecoveredAt(e)'
    <2> DEFINE d       == attempts[b].event
               channel == Fallback[attempts[b].channel]
               late    == events[d].state = "resolved" /\ RecoveriesOf(d) # {}
    <2>1. e \in DOMAIN events /\ UNCHANGED events /\ b \in DOMAIN attempts
      BY <1>5 DEF Redirects
    <2>2. \A x \in DOMAIN attempts :
              /\ Keeps(x)
              /\ attempts[x].state = "cancelled" <=> attempts'[x].state = "cancelled"
      BY <1>5, <1>a DEF Redirects, Becomes
    <2>3. PICK c \in Added :
            /\ attempts'[c] = PendingAttempt(d, channel, "alert", b, NoLink)
            /\ \/ ~late /\ Added = {c}
               \/ /\ late
                  /\ \E r \in Added \ {c} :
                        /\ Added = {c, r}
                        /\ attempts'[r] = PendingAttempt(d, channel, "recovery", NoLink, c)
      BY <1>5 DEF Redirects
    <2>4. \A x \in Added : attempts'[x].event = d
      BY <2>3, PendingFields
    <2>5. CASE e # d
      BY <1>c, <1>d, <2>1, <2>2, <2>4, <2>5, SameRowsRecovered DEF Keeps
    <2>6. CASE e = d /\ ~late
      <3>1. \A x \in DOMAIN attempts : ~(attempts[x].event = e /\ attempts[x].kind = "recovery")
        BY <1>b, <2>1, <2>6 DEF RecoveriesOf
      <3>2. \A x \in Added : attempts'[x].kind = "alert"
        BY <2>3, <2>6, PendingFields
      <3> QED
        BY <1>c, <2>2, <3>1, <3>2, NothingRecovered DEF Keeps
    <2>7. CASE e = d /\ late
      <3>1. PICK r \in Added \ {c} :
              Added = {c, r} /\ attempts'[r] = PendingAttempt(d, channel, "recovery", NoLink, c)
        BY <2>3, <2>7
      <3>2. /\ attempts'[c].kind = "alert" /\ attempts'[c].channel = channel
            /\ attempts'[c].state = "pending"
            /\ attempts'[r].kind = "recovery" /\ attempts'[r].channel = channel
            /\ attempts'[r].recoveryFor = c
        BY <2>3, <3>1, PendingFields
      <3>3. c \notin DOMAIN attempts /\ r \notin DOMAIN attempts /\ {c, r} \subseteq DOMAIN attempts'
        BY <3>1 DEF Added
      <3>4. RecoveriesOf(e)' = RecoveriesOf(e) \cup {r}
        BY <1>c, <2>2, <2>4, <2>7, <3>1, <3>2, <3>3 DEF RecoveriesOf, Keeps
      <3>5. AlertsOf(e)' = AlertsOf(e) \cup {c}
        BY <1>c, <2>2, <2>4, <2>7, <3>1, <3>2, <3>3 DEF AlertsOf, Keeps
      <3>6. \A s \in RecoveriesOf(e) : /\ s \in DOMAIN attempts
                                        /\ attempts[s].recoveryFor \in DOMAIN attempts
                                        /\ attempts'[s].recoveryFor = attempts[s].recoveryFor
                                        /\ attempts'[s].channel = attempts[s].channel
        BY <2>2 DEF RecoveriesOf, RecoveryLinked, Keeps
      <3>7. \A a \in AlertsOf(e) : /\ a \in DOMAIN attempts
                                    /\ attempts'[a].channel = attempts[a].channel
                                    /\ (attempts[a].state = "cancelled") = (attempts'[a].state = "cancelled")
        BY <2>2 DEF AlertsOf, Keeps
      <3>8. events'[e].state = "resolved"
        BY <2>1, <2>7
      <3>9. ASSUME NEW a \in AlertsOf(e)', attempts'[a].state = "cancelled", NEW s \in RecoveriesOf(e)'
            PROVE  attempts'[s].recoveryFor # a
        <4>1. a \in AlertsOf(e) /\ attempts[a].state = "cancelled"
          BY <3>2, <3>5, <3>7, <3>9
        <4>2. CASE s = r
          BY <3>2, <3>3, <3>7, <4>1, <4>2
        <4>3. CASE s # r
          BY <1>d, <2>1, <2>7, <3>4, <3>6, <3>9, <4>1, <4>3 DEF RecoveredAt
        <4> QED
          BY <4>2, <4>3
      <3>10. ASSUME NEW a \in AlertsOf(e)', attempts'[a].state # "cancelled"
             PROVE  \E t \in RecoveriesOf(e)' :
                       /\ attempts'[t].channel = attempts'[a].channel
                       /\ \A s \in RecoveriesOf(e)' : attempts'[s].recoveryFor = a <=> s = t
        <4>1. CASE a = c
          BY <3>2, <3>3, <3>4, <3>6, <4>1
        <4>2. CASE a # c
          <5>1. a \in AlertsOf(e) /\ attempts[a].state # "cancelled"
            BY <3>5, <3>7, <3>10, <4>2
          <5>2. PICK t \in RecoveriesOf(e) :
                  /\ attempts[t].channel = attempts[a].channel
                  /\ \A s \in RecoveriesOf(e) : attempts[s].recoveryFor = a <=> s = t
            BY <1>d, <2>1, <2>7, <5>1 DEF RecoveredAt
          <5>3. \A s \in RecoveriesOf(e)' : attempts'[s].recoveryFor = a <=> s = t
            BY <3>2, <3>3, <3>4, <3>6, <4>2, <5>2
          <5> QED
            BY <3>4, <3>6, <3>7, <5>1, <5>2, <5>3
        <4> QED
          BY <4>1, <4>2
      <3> QED
        BY <3>8, <3>9, <3>10 DEF RecoveredAt
    <2> QED
      BY <2>5, <2>6, <2>7
  <1>6. ASSUME NEW old, Removes(old) PROVE RecoveredAt(e)'
    <2>1. e \in DOMAIN events /\ events'[e] = events[e] /\ e \notin old
      BY <1>6 DEF Removes
    <2>2. \A x \in DOMAIN attempts : attempts[x].event = e => Rests(x)
      BY <1>6, <2>1 DEF Removes, Rests
    <2>3. \A x \in DOMAIN attempts' : x \in DOMAIN attempts /\ attempts'[x] = attempts[x]
      BY <1>6 DEF Removes
    <2> QED
      BY <1>a, <1>d, <2>1, <2>2, <2>3, SameRowsRecovered
  <1> QED
    BY <1>1, <1>2, <1>3, <1>4, <1>5, <1>6, StoreStepEffects
-----------------------------------------------------------------------------
(***************************************************************************)
(* The inductive invariant: the five properties of the queue need the type *)
(* of the tables and the three facts about links.                          *)
(***************************************************************************)
QueueInv ==
    /\ StoreTypeOK
    /\ AttemptsOwned
    /\ RecoveryLinked
    /\ RecoveryAfterAlert
    /\ CopyLinked
    /\ BudgetKept
    /\ OneOpenPerKey
    /\ MutedIsQuiet
    /\ DeadLetterRedirected
    /\ EveryAlertRecoveredOnce

LEMMA QueueInvStep ==
    ASSUME QueueInv, [StoreNext]_storeVars
    PROVE  QueueInv'
  <1> USE DEF QueueInv
  <1>1. StoreTypeOK'
    BY StoreTypeStep
  <1>2. RecoveryLinked' /\ RecoveryAfterAlert'
    BY StoreStepRespects, RecoveryStep
  <1>3. AttemptsOwned' /\ BudgetKept' /\ OneOpenPerKey' /\ MutedIsQuiet'
    BY OwnedStep, BudgetStep, OneOpenStep, QuietStep
  <1>4. CopyLinked' /\ DeadLetterRedirected'
    BY CopyStep
  <1>5. EveryAlertRecoveredOnce'
    BY RowsRecoveredOnce, RowsRecoveredOnceNext, RecoveredStep
  <1> QED
    BY <1>1, <1>2, <1>3, <1>4, <1>5

(***************************************************************************)
(* The store keeps its inductive invariant.                                *)
(***************************************************************************)
THEOREM QueueInvariant == StoreSpec => []QueueInv
  <1>1. StoreInit => QueueInv
    BY EmptyTable DEF StoreInit, QueueInv, StoreTypeOK, AttemptsOwned, RecoveryLinked,
       RecoveryAfterAlert, CopyLinked, BudgetKept, OneOpenPerKey, OpenByKey, OpenEvents,
       MutedIsQuiet, DeadLetterRedirected, EveryAlertRecoveredOnce
  <1>2. QueueInv /\ [StoreNext]_storeVars => QueueInv'
    BY QueueInvStep
  <1> QED
    BY <1>1, <1>2, PTL DEF StoreSpec

(***************************************************************************)
(* A row in the queue has a try left, and only a row without one is a dead *)
(* letter (process, Replay, RequeueStuckSending), for every budget.        *)
(***************************************************************************)
THEOREM BudgetAlwaysKept == StoreSpec => []BudgetKept
  <1>1. QueueInv => BudgetKept
    BY DEF QueueInv
  <1> QED
    BY <1>1, QueueInvariant, PTL

(***************************************************************************)
(* A dedupe key has at most one open event (CreateEventWithDeliveries and  *)
(* its unique index), for any set of keys and number of events.            *)
(***************************************************************************)
THEOREM OneOpenEventPerKey == StoreSpec => []OneOpenPerKey
  <1>1. QueueInv => OneOpenPerKey
    BY DEF QueueInv
  <1> QED
    BY <1>1, QueueInvariant, PTL

(***************************************************************************)
(* A muted incident sends nothing that was not replayed by hand            *)
(* (TransitionEvent, MarkResult, RequeueStuckSending, RefreshOpenEvent).   *)
(***************************************************************************)
THEOREM MutedStaysQuiet == StoreSpec => []MutedIsQuiet
  <1>1. QueueInv => MutedIsQuiet
    BY DEF QueueInv
  <1> QED
    BY <1>1, QueueInvariant, PTL

(***************************************************************************)
(* A dead-lettered alert with a fallback has exactly one copy, on the      *)
(* fallback channel, for every fallback configuration (queueFallback).     *)
(***************************************************************************)
THEOREM DeadLettersRedirected == StoreSpec => []DeadLetterRedirected
  <1>1. QueueInv => DeadLetterRedirected
    BY DEF QueueInv
  <1> QED
    BY <1>1, QueueInvariant, PTL

(***************************************************************************)
(* A close that is announced is announced once to each channel that was    *)
(* alerted (TransitionEvent, queueFallback), for any routes and fallbacks. *)
(***************************************************************************)
THEOREM CloseAnnouncedOnce == StoreSpec => []EveryAlertRecoveredOnce
  <1>1. QueueInv => EveryAlertRecoveredOnce
    BY DEF QueueInv
  <1> QED
    BY <1>1, QueueInvariant, PTL
=============================================================================
