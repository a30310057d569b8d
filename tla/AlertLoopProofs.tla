--------------------------- MODULE AlertLoopProofs ---------------------------
(***************************************************************************)
(* The running system, for every number of clients, workers and rare       *)
(* failures: AlertLoop uses the store only as StoreSpec allows, however    *)
(* stale the state a request or a worker acts on, so everything proved of  *)
(* the store holds of the system; and no channel hears that an incident is *)
(* over before, or hears the alert again after, it should.                 *)
(***************************************************************************)
EXTENDS AlertLoop, AnnounceProofs

-----------------------------------------------------------------------------
(***************************************************************************)
(* What a request has read and still relies on.  Every part of it survives *)
(* the steps of others: an event keeps its key and its type, and its id is *)
(* never given to another one.                                             *)
(***************************************************************************)
Reported == [key : Keys \cup {NoKey}, type : Types, severity : Severities, status : Statuses]

RequestOK(q, table, last) ==
    \/ q = Idle
    \/ q \in [pc : {"latest"}, key : Keys]
    \/ q \in [pc : {"insert", "conflict"}, report : Reported, retry : BOOLEAN]
    \/ q \in [pc : {"again"}, report : Reported]
    \/ /\ q \in [pc : {"refresh"}, event : Nat, report : Reported, alerts : Seq(Channels)]
       /\ q.event <= last
       /\ q.event \in DOMAIN table =>
            /\ table[q.event].key # NoKey
            /\ \/ q.alerts = <<>>
               \/ /\ table[q.event].type = "incident"
                  /\ q.alerts = Route["incident"][q.report.severity]
    \/ /\ q \in [pc : {"update", "reread"}, event : Nat, from : EventStates,
                 action : Actions \cup {"report"}, try : Nat]
       /\ q.event <= last
       /\ q.event \in DOMAIN table /\ q.action # "report" => table[q.event].type = "incident"
       /\ q.pc = "update" => Wanted(q.action, q.from) \notin {Refused, q.from}

RequestsOK ==
    /\ DOMAIN requests = Clients
    /\ \A c \in Clients : RequestOK(requests[c], events, lastEvent)

\* Events keep their key and type.
LEMMA EventsKept ==
    ASSUME StoreTypeOK, [StoreNext]_storeVars, NEW e \in DOMAIN events', e <= lastEvent
    PROVE  /\ e \in DOMAIN events
           /\ events'[e].key = events[e].key
           /\ events'[e].type = events[e].type
  <1>1. e \in DOMAIN events
    <2>1. lastEvent \in Nat /\ e \in Nat
      BY StoreTypeStep DEF StoreTypeOK
    <2> QED
      BY <2>1, IdsGrow
  <1> DEFINE Goal == events'[e].key = events[e].key /\ events'[e].type = events[e].type
  <1>2. ASSUME NEW d, NEW key, Creates(d, key) PROVE Goal
    BY <1>1, <1>2 DEF Creates
  <1>3. ASSUME NEW d, Refreshes(d) PROVE Goal
    BY <1>1, <1>3 DEF Refreshes
  <1>4. ASSUME NEW d, NEW to, Moves(d, to) PROVE Goal
    BY <1>1, <1>4 DEF Moves
  <1>5. ASSUME NEW a, Redirects(a) PROVE Goal
    BY <1>5 DEF Redirects
  <1>6. ASSUME NEW old, Removes(old) PROVE Goal
    BY <1>6 DEF Removes
  <1>7. QueueMoves => Goal
    BY DEF QueueMoves
  <1> HIDE DEF Goal
  <1>8. Goal
    BY <1>2, <1>3, <1>4, <1>5, <1>6, <1>7, StoreStepEffects
  <1> QED
    BY <1>1, <1>8 DEF Goal

LEMMA RequestKept ==
    ASSUME StoreTypeOK, [StoreNext]_storeVars, NEW q, RequestOK(q, events, lastEvent)
    PROVE  RequestOK(q, events', lastEvent')
  <1>1. lastEvent \in Nat /\ lastEvent' \in Nat /\ lastEvent <= lastEvent'
    BY IdsGrow
  <1>2. CASE q \in [pc : {"refresh"}, event : Nat, report : Reported, alerts : Seq(Channels)]
    <2>1. q.event \in Nat /\ q.pc = "refresh"
      BY <1>2
    <2>2. /\ q.event <= lastEvent
          /\ q.event \in DOMAIN events =>
               /\ events[q.event].key # NoKey
               /\ \/ q.alerts = <<>>
                  \/ /\ events[q.event].type = "incident"
                     /\ q.alerts = Route["incident"][q.report.severity]
      BY <2>1 DEF RequestOK, Idle
    <2>3. q.event <= lastEvent'
      BY <1>1, <2>1, <2>2
    <2> QED
      BY <1>2, <2>2, <2>3, EventsKept DEF RequestOK
  <1>3. CASE q \in [pc : {"update", "reread"}, event : Nat, from : EventStates,
                    action : Actions \cup {"report"}, try : Nat]
    <2>1. q.event \in Nat /\ q.pc \in {"update", "reread"}
      BY <1>3
    <2>2. /\ q.event <= lastEvent
          /\ q.event \in DOMAIN events /\ q.action # "report" => events[q.event].type = "incident"
          /\ q.pc = "update" => Wanted(q.action, q.from) \notin {Refused, q.from}
      BY <2>1 DEF RequestOK, Idle
    <2>3. q.event <= lastEvent'
      BY <1>1, <2>1, <2>2
    <2> QED
      BY <1>3, <2>2, <2>3, EventsKept DEF RequestOK
  <1> QED
    BY <1>2, <1>3 DEF RequestOK

\* A request that only moves on, from what it read of the tables just now.
MovesOn(c) == \E q : RequestOK(q, events, lastEvent) /\ OnlyRequest(c, q)

LEMMA DecideMovesOn ==
    ASSUME StoreTypeOK, NEW c, NEW e \in DOMAIN events, NEW action \in Actions \cup {"report"},
           action # "report" => events[e].type = "incident",
           NEW try \in Nat, Decide(c, e, action, try)
    PROVE  MovesOn(c)
  <1> DEFINE q == [pc |-> "update", event |-> e, from |-> events[e].state,
                   action |-> action, try |-> try]
  <1>1. e \in Nat /\ e <= lastEvent /\ events[e].state \in EventStates
    BY DEF StoreTypeOK, Event
  <1>2. CASE OnlyRequest(c, Idle)
    BY <1>2 DEF MovesOn, RequestOK
  <1>3. CASE OnlyRequest(c, q) /\ Wanted(action, events[e].state) \notin {Refused, events[e].state}
    <2>1. RequestOK(q, events, lastEvent)
      BY <1>1, <1>3 DEF RequestOK
    <2> QED
      BY <1>3, <2>1 DEF MovesOn
  <1> QED
    BY <1>2, <1>3 DEF Decide

LEMMA DuplicateMovesOn ==
    ASSUME StoreTypeOK, NEW c, NEW r \in Reported, NEW e \in OpenByKey(r.key),
           NEW retry, Duplicate(c, e, r, retry)
    PROVE  MovesOn(c)
  <1>1. /\ e \in DOMAIN events /\ e \in Nat /\ e <= lastEvent
        /\ events[e].key # NoKey /\ events[e].type \in Types
    BY DEF OpenByKey, OpenEvents, StoreTypeOK, Event
  <1>2. CASE OnlyRequest(c, Idle)
    BY <1>2 DEF MovesOn, RequestOK
  <1>3. CASE OnlyRequest(c, RefreshOf(e, r))
    <2> DEFINE q == RefreshOf(e, r)
    <2>1. /\ q.pc = "refresh" /\ q.event = e /\ q.report = r
          /\ \/ q.alerts = <<>>
             \/ events[e].type = "incident" /\ q.alerts = Route["incident"][r.severity]
      BY DEF RefreshOf
    <2>2. q.alerts \in Seq(Channels)
      <3>1. r.severity \in Severities
        BY DEF Reported
      <3>2. events[e].type = "incident" => Route["incident"][r.severity] \in Seq(Channels)
        BY <1>1, <3>1, RouteAssumption
      <3>3. <<>> \in Seq(Channels)
        OBVIOUS
      <3> HIDE DEF q
      <3> QED
        BY <2>1, <3>2, <3>3
    <2>3. q = [pc |-> "refresh", event |-> e, report |-> r, alerts |-> q.alerts]
      BY DEF RefreshOf
    <2>4. q \in [pc : {"refresh"}, event : Nat, report : Reported, alerts : Seq(Channels)]
      <3> HIDE DEF q
      <3> QED BY <1>1, <2>2, <2>3
    <2>5. RequestOK(q, events, lastEvent)
      <3> HIDE DEF q
      <3> QED BY <1>1, <2>1, <2>4 DEF RequestOK
    <2> QED
      BY <1>3, <2>5 DEF MovesOn
  <1> QED
    BY <1>2, <1>3 DEF Duplicate

LEMMA LookupMovesOn ==
    ASSUME StoreTypeOK, NEW c, NEW r \in Reported, NEW retry \in BOOLEAN, Lookup(c, r, retry)
    PROVE  MovesOn(c)
  <1>1. CASE OnlyRequest(c, [pc |-> "insert", report |-> r, retry |-> retry])
    <2>1. RequestOK([pc |-> "insert", report |-> r, retry |-> retry], events, lastEvent)
      BY DEF RequestOK
    <2> QED
      BY <1>1, <2>1 DEF MovesOn
  <1>2. CASE \E e \in OpenByKey(r.key) : Duplicate(c, e, r, retry)
    BY <1>2, DuplicateMovesOn
  <1> QED
    BY <1>1, <1>2 DEF Lookup

\* A step of a request: it moves on, or runs one transaction with arguments
\* that are still good, and answers.
LEMMA RequestEffect ==
    ASSUME StoreTypeOK, RequestsOK, NEW c \in Clients,
           Report(c) \/ ReportResolved(c) \/ Act(c) \/ RequestStep(c) \/ Abort(c)
    PROVE  MovesOn(c) \/ ((CreateStep \/ RefreshStep \/ TransitionStep) /\ StoreStepOf(c))
  <1> DEFINE q == requests[c]
  <1>1. RequestOK(q, events, lastEvent)
    BY DEF RequestsOK
  <1>2. OnlyRequest(c, Idle) => MovesOn(c)
    BY DEF MovesOn, RequestOK
  <1>3. CASE Report(c)
    <2>1. PICK key \in Keys \cup {NoKey}, type \in Types, severity \in Severities, status \in Statuses :
              Lookup(c, [key |-> key, type |-> type, severity |-> severity, status |-> status], FALSE)
      BY <1>3 DEF Report
    <2>2. [key |-> key, type |-> type, severity |-> severity, status |-> status] \in Reported
      BY DEF Reported
    <2> QED
      BY <2>1, <2>2, LookupMovesOn
  <1>4. CASE ReportResolved(c)
    <2>1. PICK key \in Keys : \/ OnlyRequest(c, [pc |-> "latest", key |-> key])
                              \/ \E e \in OpenByKey(key) : Decide(c, e, "report", 1)
      BY <1>4 DEF ReportResolved
    <2>2. RequestOK([pc |-> "latest", key |-> key], events, lastEvent)
      BY DEF RequestOK
    <2>3. ASSUME NEW e \in OpenByKey(key), Decide(c, e, "report", 1) PROVE MovesOn(c)
      <3>1. e \in DOMAIN events
        BY DEF OpenByKey, OpenEvents
      <3> QED
        BY <2>3, <3>1, DecideMovesOn
    <2> QED
      BY <2>1, <2>2, <2>3 DEF MovesOn
  <1>5. CASE Act(c)
    <2>1. PICK e \in DOMAIN events, action \in Actions :
              CheckActionAllowed(events[e].type) /\ Decide(c, e, action, 1)
      BY <1>5 DEF Act
    <2> QED
      BY <2>1, DecideMovesOn DEF CheckActionAllowed
  <1>6. CASE InsertReported(c)
    <2>1. q.pc = "insert"
      BY <1>6 DEF InsertReported
    <2>2. q \in [pc : {"insert", "conflict"}, report : Reported, retry : BOOLEAN]
      BY <1>1, <2>1 DEF RequestOK, Idle
    <2>3. \/ InsertEvent(q.report.key, q.report.type, q.report.severity) /\ StoreStepOf(c)
          \/ OnlyRequest(c, [q EXCEPT !.pc = "conflict"])
      BY <1>6 DEF InsertReported
    <2>4. RequestOK([q EXCEPT !.pc = "conflict"], events, lastEvent)
      <3> HIDE DEF q
      <3> QED BY <2>2 DEF RequestOK
    <2>5. /\ q.report.key \in Keys \cup {NoKey}
          /\ q.report.type \in Types
          /\ q.report.severity \in Severities
      <3> HIDE DEF q
      <3> QED BY <2>2 DEF Reported
    <2> QED
      BY <2>3, <2>4, <2>5 DEF MovesOn, CreateStep
  <1>7. CASE ReadConflict(c)
    <2>1. q.pc = "conflict"
      BY <1>7 DEF ReadConflict
    <2>2. q.report \in Reported
      BY <1>1, <2>1 DEF RequestOK, Idle
    <2>3. \/ OnlyRequest(c, Idle)
          \/ \E e \in OpenByKey(q.report.key) : Duplicate(c, e, q.report, q.retry)
      BY <1>7 DEF ReadConflict
    <2> HIDE DEF q
    <2> QED
      BY <1>2, <2>2, <2>3, DuplicateMovesOn
  <1>8. CASE Refresh(c)
    <2>1. q.pc = "refresh"
      BY <1>8 DEF Refresh
    <2>2. /\ q \in [pc : {"refresh"}, event : Nat, report : Reported, alerts : Seq(Channels)]
          /\ q.event \in DOMAIN events =>
               /\ events[q.event].key # NoKey
               /\ \/ q.alerts = <<>>
                  \/ /\ events[q.event].type = "incident"
                     /\ q.alerts = Route["incident"][q.report.severity]
      BY <1>1, <2>1 DEF RequestOK, Idle
    <2>3. \/ RefreshOpenEvent(q.event, q.report.severity, q.alerts) /\ StoreStepOf(c)
          \/ OnlyRequest(c, [pc |-> "again", report |-> q.report])
      BY <1>8 DEF Refresh
    <2> HIDE DEF q
    <2>4. q.report \in Reported /\ q.report.severity \in Severities
      BY <2>2 DEF Reported
    <2>5. RequestOK([pc |-> "again", report |-> q.report], events, lastEvent)
      BY <2>4 DEF RequestOK
    <2>6. ASSUME RefreshOpenEvent(q.event, q.report.severity, q.alerts) PROVE RefreshStep
      <3>1. q.event \in DOMAIN events
        BY <2>6 DEF RefreshOpenEvent, OpenEvents
      <3>2. q.alerts \in AlertsOnRise(q.event, q.report.severity)
        BY <2>2, <3>1 DEF AlertsOnRise
      <3> QED
        BY <2>2, <2>4, <2>6, <3>1, <3>2 DEF RefreshStep
    <2> QED
      BY <2>3, <2>5, <2>6 DEF MovesOn
  <1>9. CASE LookupAgain(c)
    <2>1. q.pc = "again" /\ Lookup(c, q.report, TRUE)
      BY <1>9 DEF LookupAgain
    <2>2. q.report \in Reported
      BY <1>1, <2>1 DEF RequestOK, Idle
    <2> QED
      BY <2>1, <2>2, LookupMovesOn
  <1>10. CASE ReadLatest(c)
    <2>1. \/ OnlyRequest(c, Idle)
          \/ \E e \in DOMAIN events : Decide(c, e, "report", 1)
      BY <1>10 DEF ReadLatest
    <2> QED
      BY <1>2, <2>1, DecideMovesOn
  <1>11. CASE Update(c) \/ Reread(c)
    <2>1. q.pc \in {"update", "reread"}
      BY <1>11 DEF Update, Reread
    <2>2. /\ q \in [pc : {"update", "reread"}, event : Nat, from : EventStates,
                    action : Actions \cup {"report"}, try : Nat]
          /\ q.event <= lastEvent
          /\ q.event \in DOMAIN events /\ q.action # "report" => events[q.event].type = "incident"
          /\ q.pc = "update" => Wanted(q.action, q.from) \notin {Refused, q.from}
      BY <1>1, <2>1 DEF RequestOK, Idle
    <2>3. CASE Update(c)
      <3>1. /\ q.pc = "update"
            /\ \/ Transition(q.event, q.from, Wanted(q.action, q.from)) /\ StoreStepOf(c)
               \/ OnlyRequest(c, [q EXCEPT !.pc = "reread"])
        BY <2>3 DEF Update
      <3> HIDE DEF q
      <3>2. RequestOK([q EXCEPT !.pc = "reread"], events, lastEvent)
        BY <2>2 DEF RequestOK
      <3>3. ASSUME Transition(q.event, q.from, Wanted(q.action, q.from)) PROVE TransitionStep
        <4>1. q.event \in DOMAIN events /\ events[q.event].state = q.from
          BY <3>3 DEF Transition, TransitionEvent
        <4>2. Wanted(q.action, q.from) \in Targets(q.event)
          <5>1. CASE q.action = "report"
            BY <2>2, <3>1, <4>1, <5>1 DEF Wanted, Targets
          <5>2. CASE q.action # "report"
            <6>1. q.action \in Actions /\ CheckActionAllowed(events[q.event].type)
              BY <2>2, <4>1, <5>2 DEF CheckActionAllowed
            <6> QED
              BY <2>2, <3>1, <4>1, <5>2, <6>1 DEF Wanted, Targets
          <5> QED
            BY <5>1, <5>2
        <4> QED
          BY <3>3, <4>1, <4>2 DEF TransitionStep
      <3> QED
        BY <3>1, <3>2, <3>3 DEF MovesOn
    <2>4. CASE Reread(c)
      <3>1. \/ q.event \in DOMAIN events /\ Decide(c, q.event, q.action, q.try + 1)
            \/ OnlyRequest(c, Idle)
        BY <2>4 DEF Reread
      <3> HIDE DEF q
      <3>2. q.try + 1 \in Nat /\ q.action \in Actions \cup {"report"}
        BY <2>2
      <3> QED
        BY <1>2, <2>2, <3>1, <3>2, DecideMovesOn
    <2> QED
      BY <1>11, <2>3, <2>4
  <1>12. CASE Abort(c)
    BY <1>2, <1>12 DEF Abort
  <1> QED
    BY <1>3, <1>4, <1>5, <1>6, <1>7, <1>8, <1>9, <1>10, <1>11, <1>12 DEF RequestStep

\* Requests stay good: the one that steps, and those that wait.
LEMMA RequestsKept ==
    ASSUME StoreTypeOK, RequestsOK, [StoreNext]_storeVars, UNCHANGED requests
    PROVE  RequestsOK'
    BY RequestKept DEF RequestsOK

LEMMA RequestsStep ==
    ASSUME StoreTypeOK, RequestsOK, NEW c \in Clients,
           MovesOn(c) \/ ((CreateStep \/ RefreshStep \/ TransitionStep) /\ StoreStepOf(c))
    PROVE  /\ [StoreNext]_storeVars
           /\ RequestsOK'
           /\ UNCHANGED <<sends, workers, heard, rare>>
  <1>1. PICK q : /\ RequestOK(q, events, lastEvent)
                 /\ requests' = [requests EXCEPT ![c] = q]
                 /\ UNCHANGED <<sends, workers, heard, rare>>
                 /\ UNCHANGED storeVars \/ CreateStep \/ RefreshStep \/ TransitionStep
    BY DEF MovesOn, OnlyRequest, StoreStepOf, Answer, Go, storeVars, RequestOK
  <1>2. [StoreNext]_storeVars
    BY <1>1 DEF StoreNext
  <1>3. RequestOK(q, events', lastEvent')
    BY <1>1, <1>2, RequestKept
  <1>4. \A d \in Clients : RequestOK(requests[d], events', lastEvent')
    BY <1>2, RequestKept DEF RequestsOK
  <1> QED
    BY <1>1, <1>2, <1>3, <1>4 DEF RequestsOK
-----------------------------------------------------------------------------
(***************************************************************************)
(* What a worker holds: the copy of a row that had a try left and was due, *)
(* and, for a recovery, whose alert the channel has heard.                 *)
(***************************************************************************)
Send ==
    [worker : Workers, id : Nat, copy : Attempt,
     result : {"none", "ok", "error", "cut"}, taken : BOOLEAN]

HeldOK(s, last, told) ==
    /\ s \in Send
    /\ s.id \in 1 .. last
    /\ s.copy.attempts < MaxAttempts
    /\ s.copy.nextRetry # "later"
    /\ s.result = "ok" => s.id \in told
    /\ s.copy.kind = "recovery" => s.copy.recoveryFor \in told

SendsOK ==
    /\ heard \subseteq 1 .. lastId
    /\ \A s \in sends : HeldOK(s, lastId, heard)

\* What `sent` means.
SentIsHeard == \A a \in DOMAIN attempts : attempts[a].state = "sent" => a \in heard

\* An alert follows nothing.
AlertsUnlinked ==
    \A a \in DOMAIN attempts : attempts[a].kind = "alert" => attempts[a].recoveryFor = NoLink

\* A recovery that is in flight, or was heard, follows an alert that was sent.
RecoveryFollows ==
    \A r \in DOMAIN attempts :
        attempts[r].kind = "recovery" /\ (r \in heard \/ Held(r))
        => attempts[attempts[r].recoveryFor].state = "sent"

\* Outside S no row starts or stops being `sending` or `sent`.
Undisturbed(S) ==
    \A x \in DOMAIN attempts' \ S :
        IF x \in DOMAIN attempts
          THEN /\ (attempts[x].state = "sending") = (attempts'[x].state = "sending")
               /\ (attempts[x].state = "sent") = (attempts'[x].state = "sent")
          ELSE attempts'[x].state = "pending"

LEMMA CreateUndisturbed ==
    ASSUME StoreTypeOK, CreateStep \/ RefreshStep \/ TransitionStep
    PROVE  Undisturbed({})
  <1>1. ASSUME NEW e, NEW skip, AddsAlerts(e, skip) PROVE Undisturbed({})
    BY <1>1, PendingFields DEF AddsAlerts, Rests, Added, Undisturbed
  <1>2. ASSUME NEW e, NEW to, Moves(e, to) PROVE Undisturbed({})
    <2>1. ASSUME NEW x \in DOMAIN attempts
          PROVE  /\ (attempts[x].state = "sending") = (attempts'[x].state = "sending")
                 /\ (attempts[x].state = "sent") = (attempts'[x].state = "sent")
      <3>1. Rests(x) \/ (/\ attempts[x].state \in {"pending", "failed"}
                         /\ attempts'[x].state = "cancelled")
        BY <1>2 DEF Moves, Becomes
      <3> QED
        BY <3>1 DEF Rests
    <2>2. \A x \in Added : attempts'[x].state = "pending"
      BY <1>2, PendingFields DEF Moves, AddsRecoveries
    <2> QED
      BY <2>1, <2>2 DEF Undisturbed, Added
  <1> QED
    BY <1>1, <1>2, CreateEffect, RefreshEffect, TransitionEffect DEF Creates, Refreshes

LEMMA RestUndisturbed ==
    ASSUME StoreTypeOK, ReplayStep \/ RetentionStep \/ TimeStep \/ UNCHANGED storeVars
    PROVE  Undisturbed({})
  <1>1. ASSUME NEW a \in DOMAIN attempts, Replay(a) PROVE Undisturbed({})
    BY <1>1 DEF Replay, Undisturbed, StoreTypeOK, Attempt
  <1>2. ASSUME NEW a \in DOMAIN attempts, RetryTimeComes(a) PROVE Undisturbed({})
    BY <1>2 DEF RetryTimeComes, Undisturbed, StoreTypeOK, Attempt
  <1>3. CASE RetentionStep
    BY <1>3 DEF RetentionStep, DeleteEvents, Undisturbed
  <1>4. CASE UNCHANGED storeVars
    BY <1>4 DEF storeVars, Undisturbed
  <1> QED
    BY <1>1, <1>2, <1>3, <1>4 DEF ReplayStep, TimeStep

LEMMA ClaimUndisturbed ==
    ASSUME StoreTypeOK, NEW claim, ClaimDue(claim)
    PROVE  /\ Undisturbed(claim)
           /\ DOMAIN attempts' = DOMAIN attempts
           /\ \A a \in claim : /\ a \in DOMAIN attempts /\ Deliverable(a)
                               /\ attempts'[a].state = "sending"
    BY DEF ClaimDue, Undisturbed, StoreTypeOK, Attempt

LEMMA RequeueUndisturbed ==
    ASSUME StoreTypeOK, NEW stale, RequeueStuckSending(stale)
    PROVE  /\ Undisturbed(stale)
           /\ DOMAIN attempts' = DOMAIN attempts
           /\ \A a \in stale : attempts'[a].state \notin {"sending", "sent"}
  <1>1. DOMAIN attempts' = DOMAIN attempts
    BY DEF RequeueStuckSending
  <1>2. \A x \in DOMAIN attempts \ stale : attempts'[x] = attempts[x]
    BY DEF RequeueStuckSending
  <1>3. ASSUME NEW a \in stale PROVE attempts'[a].state \in {"cancelled", "pending"}
    <2>1. a \in DOMAIN attempts /\ attempts[a] \in Attempt
      BY DEF RequeueStuckSending, StoreTypeOK
    <2>2. \/ attempts'[a] = [attempts[a] EXCEPT !.state = "cancelled", !.nextRetry = "null"]
          \/ attempts'[a] = [attempts[a] EXCEPT !.state = "pending"]
      BY <2>1 DEF RequeueStuckSending
    <2> QED
      BY <2>1, <2>2 DEF Attempt
  <1> QED
    BY <1>1, <1>2, <1>3 DEF Undisturbed

LEMMA MarkUndisturbed ==
    ASSUME StoreTypeOK, NEW a \in DOMAIN attempts, NEW result, NEW count \in Nat, NEW retry,
           NEW fallback \in Channels \cup {NoChannel},
           MarkResult(a, result, count, retry, fallback)
    PROVE  /\ Undisturbed({a})
           /\ attempts'[a].state = "sent" => result = "sent"
  <1> DEFINE cancel == result # "sent" /\ MutedAlert(a)
             stored == IF cancel THEN "cancelled" ELSE result
             copied == stored = "dead_letter" /\ fallback # NoChannel /\ ~Redirected(a)
  <1>1. /\ Becomes(a, stored, count, IF cancel THEN "null" ELSE retry)
        /\ \A x \in DOMAIN attempts \ {a} : Rests(x)
        /\ ~copied => DOMAIN attempts' = DOMAIN attempts
        /\ copied =>
             /\ Added = DOMAIN FallbackRows(a, fallback)
             /\ \A x \in DOMAIN FallbackRows(a, fallback) :
                   attempts'[x] = FallbackRows(a, fallback)[x]
    BY MarkEffect
  <1>2. \A x \in DOMAIN FallbackRows(a, fallback) : FallbackRows(a, fallback)[x].state = "pending"
    BY DEF FallbackRows, PendingAttempt
  <1>3. attempts'[a].state = stored
    BY <1>1 DEF Becomes
  <1>4. attempts'[a].state = "sent" => result = "sent"
    BY <1>3, "cancelled" # "sent"
  <1>5. \A x \in Added : attempts'[x].state = "pending"
    <2>1. CASE copied
      BY <1>1, <1>2, <2>1
    <2>2. CASE ~copied
      BY <1>1, <2>2 DEF Added
    <2> QED
      BY <2>1, <2>2
  <1> QED
    BY <1>1, <1>4, <1>5 DEF Undisturbed, Rests, Added

LEMMA UnlinkedStep ==
    ASSUME StoreTypeOK, AlertsUnlinked, [StoreNext]_storeVars
    PROVE  AlertsUnlinked'
  <1>1. ASSUME NEW e, NEW skip, AddsAlerts(e, skip) PROVE AlertsUnlinked'
    BY <1>1, PendingFields DEF AddsAlerts, Rests, Added, AlertsUnlinked
  <1>2. ASSUME NEW e, NEW to, Moves(e, to) PROVE AlertsUnlinked'
    <2>1. \A x \in DOMAIN attempts : Keeps(x)
      BY <1>2 DEF Moves, Becomes, Rests, Keeps
    <2>2. \A x \in Added : attempts'[x].kind = "recovery"
      BY <1>2, PendingFields DEF Moves, AddsRecoveries
    <2> QED
      BY <2>1, <2>2 DEF Keeps, Added, AlertsUnlinked
  <1>3. QueueMoves => AlertsUnlinked'
    BY MovesKeep DEF QueueMoves, Keeps, AlertsUnlinked
  <1>4. ASSUME NEW a, Redirects(a) PROVE AlertsUnlinked'
    <2>1. \A x \in DOMAIN attempts : Keeps(x)
      BY <1>4 DEF Redirects, Becomes, Rests, Keeps
    <2>2. \A x \in Added : attempts'[x].kind = "recovery" \/ attempts'[x].recoveryFor = NoLink
      BY <1>4, PendingFields DEF Redirects
    <2> QED
      BY <2>1, <2>2 DEF Keeps, Added, AlertsUnlinked
  <1>5. ASSUME NEW old, Removes(old) PROVE AlertsUnlinked'
    BY <1>5 DEF Removes, AlertsUnlinked
  <1> QED
    BY <1>1, <1>2, <1>3, <1>4, <1>5, StoreStepEffects DEF Creates, Refreshes
-----------------------------------------------------------------------------
(***************************************************************************)
(* What every step does to the sends: a message is heard only from a send, *)
(* a worker takes up only what is deliverable, and a row becomes `sent`    *)
(* only when its message was heard.                                        *)
(***************************************************************************)
SendsMove ==
    /\ [StoreNext]_storeVars
    /\ heard \subseteq heard'
    /\ \A a \in heard' : a \in heard \/ Held(a)
    /\ \A s \in sends' : /\ HeldOK(s, lastId, heard')
                         /\ Held(s.id) \/ (s.id \in DOMAIN attempts /\ Deliverable(s.id))
    /\ \E S : /\ Undisturbed(S)
              /\ \A x \in S \cap DOMAIN attempts' : attempts'[x].state = "sent" => x \in heard'

LoopInv ==
    /\ QueueInv
    /\ RequestsOK
    /\ SendsOK
    /\ SentIsHeard
    /\ AlertsUnlinked
    /\ RecoveryFollows

\* HeldOK is about ids given out and messages heard, and both only grow.
LEMMA HeldOKGrows ==
    ASSUME NEW s, NEW last \in Nat, NEW more \in Nat, last <= more,
           NEW told, NEW later, told \subseteq later, HeldOK(s, last, told)
    PROVE  HeldOK(s, more, later)
  <1>1. s.id \in 1 .. more
    BY DEF HeldOK
  <1> QED
    BY <1>1 DEF HeldOK

LEMMA SendsStep ==
    ASSUME LoopInv, SendsMove
    PROVE  SendsOK' /\ SentIsHeard' /\ RecoveryFollows'
  <1>1. /\ StoreTypeOK /\ RecoveryLinked /\ [StoreNext]_storeVars
        /\ SendsOK /\ SentIsHeard /\ RecoveryFollows
    BY DEF LoopInv, QueueInv, SendsMove
  <1>2. /\ lastId \in Nat /\ lastId' \in Nat /\ lastId <= lastId'
        /\ \A x \in DOMAIN attempts' : x \in DOMAIN attempts \/ x > lastId
    BY <1>1, IdsGrow
  <1>3. /\ \A a \in DOMAIN attempts : a \in 1 .. lastId
        /\ \A a : Held(a) => a \in 1 .. lastId
        /\ \A a \in heard : a \in 1 .. lastId
    BY <1>1 DEF StoreTypeOK, SendsOK, HeldOK, Held
  <1>4. SendsOK'
    <2>1. heard' \subseteq 1 .. lastId
      BY <1>3 DEF SendsMove
    <2>2. heard' \subseteq 1 .. lastId'
      BY <1>2, <2>1
    <2>3. \A s \in sends' : HeldOK(s, lastId', heard')
      BY <1>2, HeldOKGrows DEF SendsMove
    <2> QED
      BY <2>2, <2>3 DEF SendsOK
  <1>5. SentIsHeard'
    <2>1. PICK S : /\ Undisturbed(S)
                   /\ \A x \in S \cap DOMAIN attempts' : attempts'[x].state = "sent" => x \in heard'
      BY DEF SendsMove
    <2>2. ASSUME NEW x \in DOMAIN attempts', attempts'[x].state = "sent", x \notin S
          PROVE  x \in heard
      <3>1. x \in DOMAIN attempts /\ attempts[x].state = "sent"
        BY <2>1, <2>2, "pending" # "sent" DEF Undisturbed
      <3> QED
        BY <1>1, <3>1 DEF SentIsHeard
    <2> QED
      BY <2>1, <2>2 DEF SentIsHeard, SendsMove
  <1>6. RecoveryFollows'
    <2> SUFFICES ASSUME NEW r \in DOMAIN attempts', attempts'[r].kind = "recovery",
                        r \in heard' \/ Held(r)'
                 PROVE  attempts'[attempts'[r].recoveryFor].state = "sent"
      BY DEF RecoveryFollows
    <2>1. r \in heard \/ Held(r) \/ (r \in DOMAIN attempts /\ Deliverable(r))
      BY DEF SendsMove, Held
    <2>2. r \in 1 .. lastId
      BY <1>3, <2>1
    <2>3. r \in DOMAIN attempts
      BY <1>2, <2>2
    <2>4. RespectsRecoveries
      BY <1>1, StoreStepRespects
    <2> DEFINE a == attempts[r].recoveryFor
    <2>5. /\ attempts[r].kind = "recovery"
          /\ attempts'[r].recoveryFor = a
      BY <2>3, <2>4 DEF RespectsRecoveries, RowsRespected
    <2>6. a \in DOMAIN attempts /\ attempts[a].event = attempts[r].event
      BY <1>1, <2>3, <2>5 DEF RecoveryLinked
    <2>7. a # NoLink
      BY <1>2, <1>3, <2>6 DEF NoLink
    <2>8. attempts[a].state = "sent"
      <3>1. CASE r \in heard \/ Held(r)
        BY <1>1, <2>3, <2>5, <3>1 DEF RecoveryFollows
      <3>2. CASE Deliverable(r)
        BY <2>5, <2>7, <3>2 DEF Deliverable
      <3> QED
        BY <2>1, <3>1, <3>2
    <2>9. a \in DOMAIN attempts'
      BY <2>3, <2>4, <2>6 DEF RespectsRecoveries, RemovedTogether
    <2>10. attempts'[a].state = "sent"
      BY <2>4, <2>6, <2>8, <2>9 DEF RespectsRecoveries, RowsRespected
    <2> QED
      BY <2>5, <2>10
  <1> QED
    BY <1>4, <1>5, <1>6

\* A step that leaves the sends alone and takes none up.
LEMMA SendsRest ==
    ASSUME LoopInv, [StoreNext]_storeVars, Undisturbed({}), UNCHANGED heard, sends' \subseteq sends
    PROVE  SendsMove
  <1>1. \A s \in sends : HeldOK(s, lastId, heard) /\ Held(s.id)
    BY DEF LoopInv, SendsOK, Held
  <1> QED
    BY <1>1 DEF SendsMove

LEMMA ClaimMoves ==
    ASSUME LoopInv, NEW w \in Workers, Claim(w)
    PROVE  SendsMove /\ UNCHANGED requests
  <1>1. StoreTypeOK /\ BudgetKept /\ RecoveryLinked /\ SendsOK /\ SentIsHeard
    BY DEF LoopInv, QueueInv
  <1>2. PICK claim \in ANonEmptySubset({a \in DOMAIN attempts : Deliverable(a)}) :
            /\ ClaimDue(claim)
            /\ sends' = sends \cup
                 {[worker |-> w, id |-> a, copy |-> attempts[a], result |-> "none", taken |-> FALSE] :
                    a \in claim}
    BY DEF Claim
  <1>3. UNCHANGED <<requests, heard>>
    BY DEF Claim
  <1>4. [StoreNext]_storeVars
    BY <1>2 DEF StoreNext, ClaimStep
  <1>5. /\ Undisturbed(claim)
        /\ \A a \in claim : /\ a \in DOMAIN attempts /\ Deliverable(a)
                            /\ attempts'[a].state = "sending"
    BY <1>1, <1>2, ClaimUndisturbed
  <1>6. ASSUME NEW a \in claim, NEW s,
               s = [worker |-> w, id |-> a, copy |-> attempts[a], result |-> "none", taken |-> FALSE]
        PROVE  HeldOK(s, lastId, heard) /\ s.id \in DOMAIN attempts /\ Deliverable(s.id)
    <2>1. a \in DOMAIN attempts /\ Deliverable(a) /\ attempts[a] \in Attempt /\ a \in 1 .. lastId /\ a \in Nat
      BY <1>1, <1>5 DEF StoreTypeOK
    <2>2. s \in Send /\ s.id = a /\ s.copy = attempts[a] /\ s.result = "none"
      BY <1>6, <2>1 DEF Send
    <2>3. attempts[a].attempts < MaxAttempts /\ attempts[a].nextRetry # "later"
      BY <1>1, <2>1 DEF Deliverable, BudgetKept
    <2>4. attempts[a].kind = "recovery" => attempts[a].recoveryFor \in heard
      <3> SUFFICES ASSUME attempts[a].kind = "recovery" PROVE attempts[a].recoveryFor \in heard
        OBVIOUS
      <3>1. attempts[a].recoveryFor \in DOMAIN attempts
        BY <1>1, <2>1 DEF RecoveryLinked
      <3>2. attempts[a].recoveryFor # NoLink
        BY <1>1, <3>1 DEF StoreTypeOK, NoLink
      <3>3. attempts[attempts[a].recoveryFor].state = "sent"
        BY <2>1, <3>2 DEF Deliverable
      <3> QED
        BY <1>1, <3>1, <3>3 DEF SentIsHeard
    <2>5. HeldOK(s, lastId, heard)
      BY <2>1, <2>2, <2>3, <2>4 DEF HeldOK
    <2> QED
      BY <2>1, <2>2, <2>5
  <1>7. \A s \in sends : HeldOK(s, lastId, heard) /\ Held(s.id)
    BY <1>1 DEF SendsOK, Held
  <1>8. \A s \in sends' : /\ HeldOK(s, lastId, heard')
                          /\ Held(s.id) \/ (s.id \in DOMAIN attempts /\ Deliverable(s.id))
    BY <1>2, <1>3, <1>6, <1>7
  <1>9. \A x \in claim \cap DOMAIN attempts' : attempts'[x].state = "sent" => x \in heard'
    BY <1>5, "sending" # "sent"
  <1> QED
    BY <1>3, <1>4, <1>5, <1>8, <1>9 DEF SendsMove

LEMMA ClaimLostMoves ==
    ASSUME LoopInv, NEW w, ClaimLost(w)
    PROVE  SendsMove /\ UNCHANGED requests
  <1>1. StoreTypeOK /\ SendsOK
    BY DEF LoopInv, QueueInv
  <1>2. PICK claim : ClaimDue(claim)
    BY DEF ClaimLost, ClaimStep
  <1>3. [StoreNext]_storeVars /\ UNCHANGED <<requests, sends, heard>>
    BY DEF ClaimLost, StoreNext
  <1>4. /\ Undisturbed(claim)
        /\ \A x \in claim \cap DOMAIN attempts' : attempts'[x].state = "sent" => x \in heard'
    BY <1>1, <1>2, ClaimUndisturbed, "sending" # "sent"
  <1>5. \A s \in sends : HeldOK(s, lastId, heard) /\ Held(s.id)
    BY <1>1 DEF SendsOK, Held
  <1> QED
    BY <1>3, <1>4, <1>5 DEF SendsMove

LEMMA SendMoves ==
    ASSUME LoopInv, NEW s \in sends, SendOK(s) \/ SendFails(s) \/ SendCut(s)
    PROVE  SendsMove /\ UNCHANGED requests
  <1>1. StoreTypeOK /\ SendsOK
    BY DEF LoopInv, QueueInv
  <1>2. PICK result \in {"ok", "error", "cut"} :
            /\ sends' = (sends \ {s}) \cup {[s EXCEPT !.result = result]}
            /\ heard' \in {heard, heard \cup {s.id}}
            /\ result = "ok" => heard' = heard \cup {s.id}
            /\ UNCHANGED <<storeVars, requests>>
    BY DEF SendOK, SendFails, SendCut, SendEnds
  <1>3. heard \subseteq heard' /\ \A a \in heard' : a \in heard \/ Held(a)
    BY <1>2 DEF Held
  <1>4. lastId \in Nat /\ lastId <= lastId
    BY <1>1 DEF StoreTypeOK
  <1>5. \A t \in sends : HeldOK(t, lastId, heard') /\ Held(t.id)
    <2> SUFFICES ASSUME NEW t \in sends PROVE HeldOK(t, lastId, heard') /\ Held(t.id)
      OBVIOUS
    <2>1. HeldOK(t, lastId, heard)
      BY <1>1 DEF SendsOK
    <2>2. HeldOK(t, lastId, heard')
      BY <1>3, <1>4, <2>1, HeldOKGrows
    <2> QED
      BY <2>2 DEF Held
  <1>6. ASSUME NEW t, t = [s EXCEPT !.result = result]
        PROVE  HeldOK(t, lastId, heard') /\ t.id = s.id
    <2>1. HeldOK(s, lastId, heard')
      BY <1>5
    <2>2. t \in Send /\ t.id = s.id /\ t.copy = s.copy /\ t.result = result
      BY <1>6, <2>1 DEF HeldOK, Send
    <2>3. t.result = "ok" => t.id \in heard'
      BY <1>2, <2>2
    <2> QED
      BY <2>1, <2>2, <2>3 DEF HeldOK
  <1>7. \A t \in sends' : HeldOK(t, lastId, heard') /\ Held(t.id)
    BY <1>2, <1>5, <1>6
  <1>8. Undisturbed({})
    BY <1>1, <1>2, RestUndisturbed
  <1> QED
    BY <1>2, <1>3, <1>7, <1>8 DEF SendsMove

\* The transaction of a save, with the count the worker copied at the claim.
LEMMA SaveResultStep ==
    ASSUME LoopInv, NEW s \in sends, SaveResult(s)
    PROVE  /\ s.id \in DOMAIN attempts
           /\ ResultStep
           /\ Undisturbed({s.id})
           /\ attempts'[s.id].state = "sent" => s.id \in heard
  <1>1. StoreTypeOK /\ HeldOK(s, lastId, heard)
    BY DEF LoopInv, QueueInv, SendsOK
  <1> DEFINE a == s.id
             count == s.copy.attempts
             retry == s.copy.nextRetry
  <1>2. count \in 0 .. MaxAttempts - 1 /\ retry \in {"null", "due"}
    <2>1. count \in Nat /\ count < MaxAttempts /\ retry \in RetryTimes /\ retry # "later"
      BY <1>1 DEF HeldOK, Send, Attempt
    <2> HIDE DEF count, retry
    <2> QED
      BY <2>1, BoundsAssumption DEF RetryTimes
  <1>3. a \in DOMAIN attempts
    BY DEF SaveResult, SaveSent, SaveFailed, HandBack, MarkResult
  <1>4. /\ s.result = "ok" => a \in heard
        /\ \/ s.result = "ok" /\ SaveSent(a, count)
           \/ SaveFailed(a, count)
           \/ HandBack(a, count, retry)
    BY <1>1 DEF SaveResult, HeldOK
  <1> HIDE DEF a, count, retry
  <1>5. count \in Nat /\ count + 1 \in Nat
    BY <1>2, BoundsAssumption
  <1>6. ResultStep
    BY <1>2, <1>3, <1>4 DEF ResultStep
  <1>7. FallbackFor(a) \in Channels \cup {NoChannel} /\ NoChannel \in Channels \cup {NoChannel}
    BY <1>1, <1>3, FallbackForType
  <1>8. CASE s.result = "ok" /\ SaveSent(a, count)
    BY <1>1, <1>3, <1>4, <1>5, <1>6, <1>7, <1>8, MarkUndisturbed DEF SaveSent, a
  <1>9. CASE SaveFailed(a, count)
    <2>1. \/ MarkResult(a, "dead_letter", count + 1, "null", FallbackFor(a))
          \/ MarkResult(a, "failed", count + 1, "later", NoChannel)
      BY <1>9 DEF SaveFailed
    <2>2. Undisturbed({a}) /\ attempts'[a].state # "sent"
      BY <1>1, <1>3, <1>5, <1>7, <2>1, MarkUndisturbed, "dead_letter" # "sent", "failed" # "sent"
    <2> QED
      BY <1>3, <1>6, <2>2 DEF a
  <1>10. CASE HandBack(a, count, retry)
    <2>1. Undisturbed({a}) /\ attempts'[a].state # "sent"
      BY <1>1, <1>3, <1>5, <1>7, <1>10, MarkUndisturbed, "pending" # "sent" DEF HandBack
    <2> QED
      BY <1>3, <1>6, <2>1 DEF a
  <1> QED
    BY <1>4, <1>8, <1>9, <1>10

LEMMA SaveMoves ==
    ASSUME LoopInv, NEW s \in sends, Save(s)
    PROVE  SendsMove /\ UNCHANGED requests
  <1>1. StoreTypeOK /\ SendsOK
    BY DEF LoopInv, QueueInv
  <1>2. sends' = sends \ {s} /\ UNCHANGED <<requests, heard>>
    BY DEF Save
  <1>3. CASE SaveResult(s)
    <2>1. /\ ResultStep
          /\ Undisturbed({s.id})
          /\ attempts'[s.id].state = "sent" => s.id \in heard
      BY <1>3, SaveResultStep
    <2>2. [StoreNext]_storeVars
      BY <2>1 DEF StoreNext
    <2>3. \A t \in sends : HeldOK(t, lastId, heard) /\ Held(t.id)
      BY <1>1 DEF SendsOK, Held
    <2>4. \A x \in {s.id} \cap DOMAIN attempts' : attempts'[x].state = "sent" => x \in heard'
      BY <1>2, <2>1
    <2> QED
      BY <1>2, <2>1, <2>2, <2>3, <2>4 DEF SendsMove
  <1>4. CASE UNCHANGED storeVars
    BY <1>1, <1>2, <1>4, RestUndisturbed, SendsRest
  <1> QED
    BY <1>3, <1>4 DEF Save

LEMMA ReapMoves ==
    ASSUME LoopInv, Reap
    PROVE  SendsMove /\ UNCHANGED requests
  <1>1. StoreTypeOK /\ SendsOK
    BY DEF LoopInv, QueueInv
  <1>2. PICK stale \in ANonEmptySubset({a \in DOMAIN attempts : attempts[a].state = "sending"}) :
            /\ RequeueStuckSending(stale)
            /\ sends' = {IF s.id \in stale THEN [s EXCEPT !.taken = TRUE] ELSE s : s \in sends}
    BY DEF Reap
  <1>3. [StoreNext]_storeVars /\ UNCHANGED <<requests, heard>>
    BY <1>2 DEF Reap, StoreNext, RequeueStep
  <1>4. /\ Undisturbed(stale)
        /\ \A x \in stale \cap DOMAIN attempts' : attempts'[x].state = "sent" => x \in heard'
    BY <1>1, <1>2, RequeueUndisturbed
  <1>5. ASSUME NEW s \in sends, NEW t, t \in {s, [s EXCEPT !.taken = TRUE]}
        PROVE  HeldOK(t, lastId, heard) /\ Held(t.id)
    <2>1. HeldOK(s, lastId, heard)
      BY <1>1 DEF SendsOK
    <2>2. t \in Send /\ t.id = s.id /\ t.copy = s.copy /\ t.result = s.result
      BY <1>5, <2>1 DEF HeldOK, Send
    <2> QED
      BY <2>1, <2>2 DEF HeldOK, Held
  <1>6. \A t \in sends' : HeldOK(t, lastId, heard) /\ Held(t.id)
    BY <1>2, <1>5
  <1> QED
    BY <1>3, <1>4, <1>6 DEF SendsMove

\* Every step of the system is a step of the store, and keeps what the system
\* relies on.
LEMMA LoopStep ==
    ASSUME LoopInv, [Next]_vars
    PROVE  [StoreNext]_storeVars /\ LoopInv'
  <1>1. StoreTypeOK /\ RequestsOK /\ SendsOK /\ AlertsUnlinked
    BY DEF LoopInv, QueueInv
  <1> DEFINE Goal == SendsMove /\ RequestsOK'
  <1>2. SendsMove /\ UNCHANGED requests => Goal
    BY <1>1, RequestsKept DEF SendsMove
  <1>3. ASSUME [StoreNext]_storeVars, Undisturbed({}), UNCHANGED <<requests, heard>>, sends' \subseteq sends
        PROVE  Goal
    BY <1>2, <1>3, SendsRest
  <1>4. ASSUME UNCHANGED storeVars PROVE [StoreNext]_storeVars /\ Undisturbed({})
    BY <1>1, <1>4, RestUndisturbed
  <1>5. ASSUME NEW c \in Clients, Report(c) \/ ReportResolved(c) \/ Act(c) \/ RequestStep(c) \/ Abort(c)
        PROVE  Goal
    <2>1. MovesOn(c) \/ ((CreateStep \/ RefreshStep \/ TransitionStep) /\ StoreStepOf(c))
      BY <1>1, <1>5, RequestEffect
    <2>2. [StoreNext]_storeVars /\ RequestsOK' /\ UNCHANGED <<sends, heard>>
      BY <1>1, <2>1, RequestsStep
    <2>3. UNCHANGED storeVars \/ CreateStep \/ RefreshStep \/ TransitionStep
      BY <2>1 DEF MovesOn, OnlyRequest, storeVars
    <2>4. Undisturbed({})
      BY <1>1, <2>3, CreateUndisturbed, RestUndisturbed
    <2> QED
      BY <2>2, <2>4, SendsRest
  <1>6. ASSUME NEW w \in Workers,
               Claim(w) \/ ClaimLost(w) \/ Stop(w) \/ Stopped(w) \/ Crash(w) \/ Start(w)
        PROVE  Goal
    <2>1. CASE Claim(w) \/ ClaimLost(w)
      BY <1>2, <2>1, ClaimMoves, ClaimLostMoves
    <2>2. CASE Stop(w) \/ Stopped(w) \/ Crash(w) \/ Start(w)
      <3>1. UNCHANGED <<requests, heard>> /\ UNCHANGED storeVars /\ sends' \subseteq sends
        BY <2>2 DEF Stop, Stopped, Crash, Start
      <3> QED
        BY <1>3, <1>4, <3>1
    <2> QED
      BY <1>6, <2>1, <2>2
  <1>7. SendStep => Goal
    BY <1>2, SendMoves DEF SendStep
  <1>8. SaveStep => Goal
    BY <1>2, SaveMoves DEF SaveStep
  <1>9. ASSUME NEW s \in sends, SaveLost(s) PROVE Goal
    <2>1. UNCHANGED <<requests, heard>> /\ UNCHANGED storeVars /\ sends' \subseteq sends
      BY <1>9 DEF SaveLost
    <2> QED
      BY <1>3, <1>4, <2>1
  <1>10. Reap => Goal
    BY <1>2, ReapMoves
  <1>11. ASSUME ReplayDeadLetter \/ Retention \/ RetryTime PROVE Goal
    <2>1. ReplayStep \/ RetentionStep \/ TimeStep
      BY <1>11 DEF ReplayDeadLetter, Retention, RetryTime
    <2>2. UNCHANGED <<requests, heard>> /\ sends' \subseteq sends
      BY <1>11 DEF ReplayDeadLetter, Retention, RetryTime, loopVars
    <2>3. [StoreNext]_storeVars /\ Undisturbed({})
      BY <1>1, <2>1, RestUndisturbed DEF StoreNext
    <2> QED
      BY <1>3, <2>2, <2>3
  <1>12. ASSUME UNCHANGED vars PROVE Goal
    <2>1. UNCHANGED storeVars /\ UNCHANGED <<requests, heard>> /\ sends' \subseteq sends
      BY <1>12 DEF vars, loopVars
    <2> QED
      BY <1>3, <1>4, <2>1
  <1> HIDE DEF Goal
  <1>13. Goal
    BY <1>5, <1>6, <1>7, <1>8, <1>9, <1>10, <1>11, <1>12 DEF Next
  <1>14. SendsMove /\ RequestsOK' /\ [StoreNext]_storeVars
    BY <1>13 DEF Goal, SendsMove
  <1>15. QueueInv' /\ AlertsUnlinked'
    BY <1>1, <1>14, QueueInvStep, UnlinkedStep DEF LoopInv
  <1> QED
    BY <1>14, <1>15, SendsStep DEF LoopInv

LEMMA LoopInit == Init => LoopInv
  <1>1. Init => QueueInv
    BY EmptyTable DEF Init, StoreInit, QueueInv, StoreTypeOK, AttemptsOwned, RecoveryLinked,
       RecoveryAfterAlert, CopyLinked, BudgetKept, OneOpenPerKey, OpenByKey, OpenEvents,
       MutedIsQuiet, DeadLetterRedirected, EveryAlertRecoveredOnce
  <1>2. Init => RequestsOK
    BY DEF Init, RequestsOK, RequestOK
  <1>3. Init => SendsOK /\ SentIsHeard /\ AlertsUnlinked /\ RecoveryFollows
    BY EmptyTable DEF Init, StoreInit, SendsOK, SentIsHeard, AlertsUnlinked, RecoveryFollows
  <1> QED
    BY <1>1, <1>2, <1>3 DEF LoopInv

(***************************************************************************)
(* The system keeps its inductive invariant.                               *)
(***************************************************************************)
THEOREM LoopInvariant == Spec => []LoopInv
  <1>1. LoopInv /\ [Next]_vars => LoopInv'
    BY LoopStep
  <1> QED
    BY <1>1, LoopInit, PTL DEF Spec

(***************************************************************************)
(* The services, the workers, the reaper and retention, in any number and  *)
(* any order, with whatever they read before, use the store only as        *)
(* StoreSpec allows (internal/service, internal/delivery).                 *)
(***************************************************************************)
THEOREM LoopImplementsStore == Spec => StoreSpec
  <1>1. Init => StoreInit
    BY DEF Init
  <1>2. LoopInv /\ [Next]_vars => [StoreNext]_storeVars
    BY LoopStep
  <1> QED
    BY <1>1, <1>2, LoopInvariant, PTL DEF Spec, StoreSpec

(***************************************************************************)
(* So the running system keeps the promises of storage.go about what is    *)
(* announced, for every schedule.                                          *)
(***************************************************************************)
THEOREM LoopKeepsPromises == Spec => KeepsPromises
    BY LoopImplementsStore, StoreImplementsAnnouncements, PTL

(***************************************************************************)
(* A channel hears of an incident before it hears that it is over, however *)
(* late results are saved and whatever crashes or is reaped (claim.go).    *)
(***************************************************************************)
THEOREM HeardBeforeRecovery == Spec => []AlertHeardBeforeRecovery
  <1>1. LoopInv => AlertHeardBeforeRecovery
    BY DEF LoopInv, SendsOK, HeldOK, SentIsHeard, AlertHeardBeforeRecovery
  <1> QED
    BY <1>1, LoopInvariant, PTL
-----------------------------------------------------------------------------
(***************************************************************************)
(* Timely workers.  A send that is over before the reaper comes is the     *)
(* only one of its row: a row leaves `sending` by the save of the worker   *)
(* that holds it, or by the reaper when nobody holds it.                   *)
(***************************************************************************)
OneHolder(held) == \A s, t \in held : t.id = s.id => t = s

\* Rows that are held and not in S stay `sending`.
LEMMA ExclusiveKept ==
    ASSUME LoopInv, ClaimIsExclusive, [StoreNext]_storeVars, NEW S, Undisturbed(S),
           OneHolder(sends'), \A s \in sends' : Held(s.id) /\ s.id \notin S
    PROVE  ClaimIsExclusive'
  <1>1. StoreTypeOK /\ SendsOK
    BY DEF LoopInv, QueueInv
  <1>2. ASSUME NEW s \in sends', s.id \in DOMAIN attempts' PROVE attempts'[s.id].state = "sending"
    <2>1. PICK t \in sends : t.id = s.id
      BY DEF Held
    <2>2. s.id \in 1 .. lastId /\ lastId \in Nat
      BY <1>1, <2>1 DEF SendsOK, HeldOK, StoreTypeOK
    <2>3. s.id \in DOMAIN attempts
      BY <1>1, <1>2, <2>2, IdsGrow
    <2>4. attempts[s.id].state = "sending"
      BY <2>1, <2>3 DEF ClaimIsExclusive
    <2> QED
      BY <1>2, <2>3, <2>4 DEF Undisturbed
  <1> QED
    BY <1>2 DEF ClaimIsExclusive, OneHolder

LEMMA ExclusiveRest ==
    ASSUME LoopInv, ClaimIsExclusive, [StoreNext]_storeVars, Undisturbed({}), sends' \subseteq sends
    PROVE  ClaimIsExclusive'
  <1>1. OneHolder(sends') /\ \A s \in sends' : Held(s.id)
    BY DEF OneHolder, ClaimIsExclusive, Held
  <1> QED
    BY <1>1, ExclusiveKept

\* A worker claims no row that is held.
LEMMA ClaimExclusive ==
    ASSUME LoopInv, ClaimIsExclusive, NEW w \in Workers, Claim(w)
    PROVE  ClaimIsExclusive'
  <1>1. StoreTypeOK
    BY DEF LoopInv, QueueInv
  <1>2. PICK claim \in ANonEmptySubset({a \in DOMAIN attempts : Deliverable(a)}) :
            /\ ClaimDue(claim)
            /\ sends' = sends \cup
                 {[worker |-> w, id |-> a, copy |-> attempts[a], result |-> "none", taken |-> FALSE] :
                    a \in claim}
    BY DEF Claim
  <1>3. /\ Undisturbed(claim)
        /\ DOMAIN attempts' = DOMAIN attempts
        /\ \A a \in claim : /\ a \in DOMAIN attempts /\ Deliverable(a)
                            /\ attempts'[a].state = "sending"
    BY <1>1, <1>2, ClaimUndisturbed
  <1>4. \A s \in sends : s.id \notin claim
    BY <1>3 DEF ClaimIsExclusive, Deliverable
  <1>5. \A s, t \in sends' : t.id = s.id => t = s
    <2> SUFFICES ASSUME NEW s \in sends', NEW t \in sends', t.id = s.id PROVE t = s
      OBVIOUS
    <2>1. CASE s \in sends /\ t \in sends
      BY <2>1 DEF ClaimIsExclusive
    <2>2. ASSUME NEW x \in sends', x \notin sends
          PROVE  /\ x.id \in claim
                 /\ x = [worker |-> w, id |-> x.id, copy |-> attempts[x.id],
                         result |-> "none", taken |-> FALSE]
      BY <1>2, <2>2
    <2> QED
      BY <1>4, <2>1, <2>2
  <1>6. \A s \in sends' : s.id \in claim \/ s \in sends
    BY <1>2
  <1>7. \A s \in sends' : s.id \in DOMAIN attempts' => attempts'[s.id].state = "sending"
    <2> SUFFICES ASSUME NEW s \in sends', s.id \in DOMAIN attempts'
                 PROVE  attempts'[s.id].state = "sending"
      OBVIOUS
    <2>1. CASE s.id \in claim
      BY <1>3, <2>1
    <2>2. CASE s.id \notin claim
      <3>1. s \in sends /\ s.id \in DOMAIN attempts
        BY <1>3, <1>6, <2>2
      <3>2. attempts[s.id].state = "sending"
        BY <3>1 DEF ClaimIsExclusive
      <3> QED
        BY <1>3, <2>2, <3>1, <3>2 DEF Undisturbed
    <2> QED
      BY <2>1, <2>2
  <1> QED
    BY <1>5, <1>7 DEF ClaimIsExclusive

LEMMA ExclusiveStep ==
    ASSUME LoopInv, ClaimIsExclusive, TimelyWorkers, [Next]_vars
    PROVE  ClaimIsExclusive'
  <1>1. StoreTypeOK /\ RequestsOK /\ SendsOK /\ [StoreNext]_storeVars
    BY LoopStep DEF LoopInv, QueueInv
  <1>2. ASSUME UNCHANGED storeVars, sends' \subseteq sends PROVE ClaimIsExclusive'
    BY <1>1, <1>2, RestUndisturbed, ExclusiveRest
  <1>3. ASSUME NEW c \in Clients, Report(c) \/ ReportResolved(c) \/ Act(c) \/ RequestStep(c) \/ Abort(c)
        PROVE  ClaimIsExclusive'
    <2>1. MovesOn(c) \/ ((CreateStep \/ RefreshStep \/ TransitionStep) /\ StoreStepOf(c))
      BY <1>1, <1>3, RequestEffect
    <2>2. UNCHANGED sends /\ (UNCHANGED storeVars \/ CreateStep \/ RefreshStep \/ TransitionStep)
      BY <2>1 DEF MovesOn, OnlyRequest, StoreStepOf, storeVars
    <2>3. Undisturbed({})
      BY <1>1, <2>2, CreateUndisturbed, RestUndisturbed
    <2> QED
      BY <1>1, <2>2, <2>3, ExclusiveRest
  <1>4. ASSUME NEW w, ClaimLost(w) PROVE ClaimIsExclusive'
    <2>1. PICK claim : ClaimDue(claim)
      BY <1>4 DEF ClaimLost, ClaimStep
    <2>2. /\ Undisturbed(claim)
          /\ \A a \in claim : a \in DOMAIN attempts /\ Deliverable(a)
      BY <1>1, <2>1, ClaimUndisturbed
    <2>3. UNCHANGED sends
      BY <1>4 DEF ClaimLost
    <2>4. OneHolder(sends') /\ \A s \in sends' : Held(s.id) /\ s.id \notin claim
      BY <2>2, <2>3 DEF OneHolder, ClaimIsExclusive, Deliverable, Held
    <2> QED
      BY <1>1, <2>2, <2>4, ExclusiveKept
  <1>5. ASSUME NEW s \in sends, SendOK(s) \/ SendFails(s) \/ SendCut(s) PROVE ClaimIsExclusive'
    <2>1. PICK result : /\ sends' = (sends \ {s}) \cup {[s EXCEPT !.result = result]}
                        /\ UNCHANGED storeVars
      BY <1>5 DEF SendOK, SendFails, SendCut, SendEnds
    <2> DEFINE t == [s EXCEPT !.result = result]
    <2>2. t.id = s.id
      BY <1>1 DEF SendsOK, HeldOK, Send
    <2> HIDE DEF t
    <2>3. sends' = (sends \ {s}) \cup {t}
      BY <2>1 DEF t
    <2>4. OneHolder(sends') /\ \A x \in sends' : Held(x.id)
      BY <2>2, <2>3 DEF OneHolder, ClaimIsExclusive, Held
    <2>5. Undisturbed({})
      BY <1>1, <2>1, RestUndisturbed
    <2> QED
      BY <1>1, <2>4, <2>5, ExclusiveKept
  <1>6. ASSUME NEW s \in sends, Save(s) PROVE ClaimIsExclusive'
    <2>1. sends' = sends \ {s}
      BY <1>6 DEF Save
    <2>2. CASE SaveResult(s)
      <3>1. Undisturbed({s.id})
        BY <2>2, SaveResultStep
      <3>2. OneHolder(sends') /\ \A x \in sends' : Held(x.id) /\ x.id \notin {s.id}
        BY <2>1 DEF OneHolder, ClaimIsExclusive, Held
      <3> QED
        BY <1>1, <3>1, <3>2, ExclusiveKept
    <2>3. CASE UNCHANGED storeVars
      BY <1>2, <2>1, <2>3
    <2> QED
      BY <1>6, <2>2, <2>3 DEF Save
  <1>7. CASE Reap
    <2>1. PICK stale \in ANonEmptySubset({a \in DOMAIN attempts : attempts[a].state = "sending"}) :
              /\ \A a \in stale : ~Held(a)
              /\ RequeueStuckSending(stale)
              /\ sends' = {IF s.id \in stale THEN [s EXCEPT !.taken = TRUE] ELSE s : s \in sends}
      BY <1>7 DEF Reap
    <2>2. \A s \in sends : s.id \notin stale
      BY <2>1 DEF Held
    <2>3. sends' = sends
      BY <2>1, <2>2
    <2>4. Undisturbed(stale)
      BY <1>1, <2>1, RequeueUndisturbed
    <2>5. OneHolder(sends') /\ \A s \in sends' : Held(s.id) /\ s.id \notin stale
      BY <2>2, <2>3 DEF OneHolder, ClaimIsExclusive, Held
    <2> QED
      BY <1>1, <2>4, <2>5, ExclusiveKept
  <1>8. ASSUME ReplayDeadLetter \/ Retention \/ RetryTime PROVE ClaimIsExclusive'
    <2>1. ReplayStep \/ RetentionStep \/ TimeStep
      BY <1>8 DEF ReplayDeadLetter, Retention, RetryTime
    <2>2. sends' \subseteq sends
      BY <1>8 DEF ReplayDeadLetter, Retention, RetryTime, loopVars
    <2>3. Undisturbed({})
      BY <1>1, <2>1, RestUndisturbed
    <2> QED
      BY <1>1, <2>2, <2>3, ExclusiveRest
  <1>9. ASSUME NEW w \in Workers, Stop(w) \/ Stopped(w) \/ Crash(w) \/ Start(w) PROVE ClaimIsExclusive'
    <2>1. UNCHANGED storeVars /\ sends' \subseteq sends
      BY <1>9 DEF Stop, Stopped, Crash, Start
    <2> QED
      BY <1>2, <2>1
  <1>10. ASSUME NEW s \in sends, SaveLost(s) PROVE ClaimIsExclusive'
    <2>1. UNCHANGED storeVars /\ sends' \subseteq sends
      BY <1>10 DEF SaveLost
    <2> QED
      BY <1>2, <2>1
  <1>11. ASSUME UNCHANGED vars PROVE ClaimIsExclusive'
    <2>1. UNCHANGED storeVars /\ sends' \subseteq sends
      BY <1>11 DEF vars, loopVars
    <2> QED
      BY <1>2, <2>1
  <1> QED
    BY <1>3, <1>4, <1>5, <1>6, <1>7, <1>8, <1>9, <1>10, <1>11, ClaimExclusive
       DEF Next, SendStep, SaveStep

(***************************************************************************)
(* While workers are timely, no attempt is sent by two of them at once,    *)
(* and the row a worker holds is its own until it saves (ClaimDue,         *)
(* MarkResult, RequeueStuckSending), for any number of workers.            *)
(***************************************************************************)
THEOREM ClaimsAreExclusive ==
    ASSUME TimelyWorkers
    PROVE  Spec => []ClaimIsExclusive
  <1>1. Init => ClaimIsExclusive
    BY DEF Init, ClaimIsExclusive
  <1>2. LoopInv /\ ClaimIsExclusive /\ [Next]_vars => ClaimIsExclusive'
    BY ExclusiveStep
  <1> QED
    BY <1>1, <1>2, LoopInvariant, PTL DEF Spec

(***************************************************************************)
(* Nor does a channel hear an alert after the recovery that follows it:    *)
(* the recovery is taken up only when the row of the alert is `sent`, and  *)
(* a row that a worker holds is `sending` (deliverableCond, MarkResult).   *)
(***************************************************************************)
THEOREM NoAlertAfterRecovery ==
    ASSUME TimelyWorkers
    PROVE  Spec => []NoAlertAfterItsRecovery
  <1>1. LoopInv /\ ClaimIsExclusive => NoAlertAfterItsRecovery
    <2> SUFFICES ASSUME LoopInv, ClaimIsExclusive, NEW s \in sends, NEW r \in DOMAIN attempts,
                        attempts[r].recoveryFor = s.id
                 PROVE  ~(r \in heard \/ Held(r))
      BY DEF NoAlertAfterItsRecovery
    <2>1. s.id # NoLink
      <3>1. s.id \in 1 .. lastId /\ lastId \in Nat
        BY DEF LoopInv, QueueInv, StoreTypeOK, SendsOK, HeldOK
      <3> QED
        BY <3>1 DEF NoLink
    <2>2. attempts[r].kind = "recovery"
      BY <2>1 DEF LoopInv, QueueInv, StoreTypeOK, Attempt, DeliveryKinds, AlertsUnlinked
    <2>3. s.id \in DOMAIN attempts
      BY <2>2 DEF LoopInv, QueueInv, RecoveryLinked
    <2>4. attempts[s.id].state = "sending"
      BY <2>3 DEF ClaimIsExclusive
    <2> QED
      BY <2>2, <2>4, "sending" # "sent" DEF LoopInv, RecoveryFollows
  <1> QED
    BY <1>1, LoopInvariant, ClaimsAreExclusive, PTL
=============================================================================
