------------------------------ MODULE AlertLoop ------------------------------
(***************************************************************************)
(* The running system: concurrent requests of the ingest and console APIs  *)
(* (internal/service), delivery workers with their reaper                  *)
(* (internal/delivery) and retention (internal/app), all working on the    *)
(* one database of module Store.  A step is one database transaction or    *)
(* one exchange with a notification channel; whatever a process read       *)
(* before, it keeps in its own state and may use when it is stale.         *)
(***************************************************************************)
EXTENDS Store

CONSTANTS
    Clients,        \* requests served at the same time
    Workers,        \* worker processes on the same database
    Concurrency,    \* sends one worker has in flight at most
    TimelyWorkers,  \* a send is over before StaleAfter: the reaper never
                    \* takes a row from a worker that is still sending it
    MaxRare         \* bound: crashes, shutdowns, lost saves and replays

ASSUME LoopAssumption ==
    /\ Concurrency \in Nat \ {0}
    /\ TimelyWorkers \in BOOLEAN
    /\ MaxRare \in Nat

VARIABLES
    requests,  \* client -> where its request is, with what it has read
    sends,     \* the attempts workers hold: copies of the rows as claimed
    workers,   \* worker -> "running", "stopping" or "stopped"
    heard,     \* ids of the attempts whose message reached the channel
    rare       \* how many rare steps were taken

loopVars == <<requests, sends, workers, heard, rare>>
vars == <<storeVars, loopVars>>

Idle == [pc |-> "idle"]

\* The status of an ingested event; "" makes dedupe_key an idempotency key.
Statuses == {"", "firing"}

Init ==
    /\ StoreInit
    /\ requests = [c \in Clients |-> Idle]
    /\ sends = {}
    /\ workers = [w \in Workers |-> "running"]
    /\ heard = {}
    /\ rare = 0

Go(c, request) == requests' = [requests EXCEPT ![c] = request]

Answer(c) == Go(c, Idle)

OnlyRequest(c, request) ==
    Go(c, request) /\ UNCHANGED <<storeVars, sends, workers, heard, rare>>

StoreStepOf(c) == Answer(c) /\ UNCHANGED <<sends, workers, heard, rare>>
-----------------------------------------------------------------------------
(************************ IngestService.IngestFor **************************)

\* Fault: the rise is routed by the severity the event had, not the new one.
RefreshRoutedAsBefore(e, r) ==
    [pc |-> "refresh", event |-> e, report |-> r,
     alerts |-> IF /\ events[e].type = "incident"
                   /\ SeverityRank(r.severity) > SeverityRank(events[e].severity)
                  THEN Route[events[e].type][events[e].severity] ELSE <<>>]

\* What refresh sends to the store: alerts only when the report outranks the
\* severity of the event as it was read.
RefreshOf(e, r) ==
    [pc |-> "refresh", event |-> e, report |-> r,
     alerts |-> IF /\ events[e].type = "incident"
                   /\ SeverityRank(r.severity) > SeverityRank(events[e].severity)
                  THEN Route[events[e].type][r.severity] ELSE <<>>]

\* The open event e has the key of report r: a repeat of a `firing` refreshes
\* it, except on the second try, and any other repeat is deduplicated.
Duplicate(c, e, r, retry) ==
    IF r.status = "firing" /\ ~retry THEN OnlyRequest(c, RefreshOf(e, r)) ELSE OnlyRequest(c, Idle)

\* CreateEventWithDeliveries, the read before the transaction.
Lookup(c, r, retry) ==
    IF OpenByKey(r.key) = {}
      THEN OnlyRequest(c, [pc |-> "insert", report |-> r, retry |-> retry])
      ELSE \E e \in OpenByKey(r.key) : Duplicate(c, e, r, retry)

\* A report arrives; validateInput refuses a `firing` without a key.
Report(c) ==
    /\ requests[c] = Idle
    /\ \E key \in Keys \cup {NoKey}, type \in Types, severity \in Severities, status \in Statuses :
        /\ key = NoKey => status = ""
        /\ Lookup(c, [key |-> key, type |-> type, severity |-> severity, status |-> status], FALSE)

\* The transaction inserts the event, or the unique index refuses it.
InsertReported(c) ==
    /\ requests[c].pc = "insert"
    /\ LET r == requests[c].report
       IN \/ InsertEvent(r.key, r.type, r.severity) /\ StoreStepOf(c)
          \/ /\ OpenByKey(r.key) # {}
             /\ OnlyRequest(c, [requests[c] EXCEPT !.pc = "conflict"])

\* After the violation the open event is read again; when it is gone by now
\* the request fails with the insert's error.
ReadConflict(c) ==
    /\ requests[c].pc = "conflict"
    /\ LET r == requests[c].report
       IN \/ OpenByKey(r.key) = {} /\ OnlyRequest(c, Idle)
          \/ \E e \in OpenByKey(r.key) : Duplicate(c, e, r, requests[c].retry)

\* RefreshOpenEvent, or the event was closed or removed since it was read:
\* the create is tried once more.
Refresh(c) ==
    /\ requests[c].pc = "refresh"
    /\ LET q == requests[c]
       IN \/ RefreshOpenEvent(q.event, q.report.severity, q.alerts) /\ StoreStepOf(c)
          \/ /\ q.event \notin OpenEvents
             /\ OnlyRequest(c, [pc |-> "again", report |-> q.report])

LookupAgain(c) ==
    /\ requests[c].pc = "again"
    /\ Lookup(c, requests[c].report, TRUE)
-----------------------------------------------------------------------------
(***************** service.transition and its two callers ******************)

MaxTransitionTries == 3

\* The state a request wants: a `resolved` report always closes.
Wanted(action, state) == IF action = "report" THEN "resolved" ELSE ApplyAction(state, action)

\* With event e just read: nothing to do, refused, or a conditional update.
Decide(c, e, action, try) ==
    IF Wanted(action, events[e].state) \in {Refused, events[e].state}
      THEN OnlyRequest(c, Idle)
      ELSE OnlyRequest(c, [pc |-> "update", event |-> e, from |-> events[e].state,
                           action |-> action, try |-> try])

\* A `resolved` report: EventByDedupe reads the open event of the key,
ReportResolved(c) ==
    /\ requests[c] = Idle
    /\ \E key \in Keys :
         IF OpenByKey(key) = {}
           THEN OnlyRequest(c, [pc |-> "latest", key |-> key])
           ELSE \E e \in OpenByKey(key) : Decide(c, e, "report", 1)

\* or else the latest one in any state, which may have been opened meanwhile.
ReadLatest(c) ==
    /\ requests[c].pc = "latest"
    /\ LET known == {e \in DOMAIN events : events[e].key = requests[c].key}
       IN \/ known = {} /\ OnlyRequest(c, Idle)
          \/ \E e \in known : (\A d \in known : d <= e) /\ Decide(c, e, "report", 1)

\* Fault: events of any type take actions.
ActOnAnyType(c) ==
    /\ requests[c] = Idle
    /\ \E e \in DOMAIN events, action \in Actions : Decide(c, e, action, 1)

\* EventService.Apply.
Act(c) ==
    /\ requests[c] = Idle
    /\ \E e \in DOMAIN events, action \in Actions :
        CheckActionAllowed(events[e].type) /\ Decide(c, e, action, 1)

\* TransitionEvent, or the state is no longer the one read (ErrStateChanged).
Update(c) ==
    /\ requests[c].pc = "update"
    /\ LET q == requests[c]
       IN \/ Transition(q.event, q.from, Wanted(q.action, q.from)) /\ StoreStepOf(c)
          \/ /\ q.event \in DOMAIN events => events[q.event].state # q.from
             /\ OnlyRequest(c, [q EXCEPT !.pc = "reread"])

\* GetEvent after a lost race; the last try gives up.
Reread(c) ==
    /\ requests[c].pc = "reread"
    /\ LET q == requests[c]
       IN IF q.event \in DOMAIN events /\ q.try < MaxTransitionTries
            THEN Decide(c, q.event, q.action, q.try + 1)
            ELSE OnlyRequest(c, Idle)

\* The client goes away or the server is killed between two transactions.
Abort(c) == requests[c] # Idle /\ OnlyRequest(c, Idle)
-----------------------------------------------------------------------------
(********************************* workers *********************************)

HeldBy(w) == {s \in sends : s.worker = w}

Rare == rare < MaxRare /\ rare' = rare + 1

\* fill: claim due attempts into free slots, one goroutine for each copy.
Claim(w) ==
    /\ workers[w] = "running"
    /\ \E claim \in ANonEmptySubset({a \in DOMAIN attempts : Deliverable(a)}) :
        /\ Cardinality(claim) + Cardinality(HeldBy(w)) <= Concurrency
        /\ ClaimDue(claim)
        /\ sends' = sends \cup
             {[worker |-> w, id |-> a, copy |-> attempts[a], result |-> "none", taken |-> FALSE] : a \in claim}
    /\ UNCHANGED <<requests, workers, heard, rare>>

\* The claim commits but its answer is lost (the stop cuts it off, or the
\* connection breaks): the rows are `sending` and nobody holds them.
ClaimLost(w) ==
    /\ workers[w] \in {"running", "stopping"}
    /\ Rare
    /\ ClaimStep
    /\ UNCHANGED <<requests, sends, workers, heard>>

SendEnds(s, result) ==
    /\ s.result = "none"
    /\ sends' = (sends \ {s}) \cup {[s EXCEPT !.result = result]}

\* deliver: the channel took the message, which needs the event to be there.
SendOK(s) ==
    /\ s.copy.event \in DOMAIN events
    /\ SendEnds(s, "ok")
    /\ heard' = heard \cup {s.id}
    /\ UNCHANGED <<storeVars, requests, workers, rare>>

\* deliver: an error, though a timed-out message may have arrived.
SendFails(s) ==
    /\ SendEnds(s, "error")
    /\ heard' \in {heard, heard \cup {s.id}}
    /\ UNCHANGED <<storeVars, requests, workers, rare>>

\* shutdown cancels the sends still running after the grace period.
SendCut(s) ==
    /\ workers[s.worker] = "stopping"
    /\ SendEnds(s, "cut")
    /\ heard' \in {heard, heard \cup {s.id}}
    /\ UNCHANGED <<storeVars, requests, workers, rare>>

\* Fault: a send cut short by the shutdown counts as delivered.
SaveCutAsSent(s) ==
    \/ s.result \in {"ok", "cut"} /\ SaveSent(s.id, s.copy.attempts)
    \/ s.result = "error" /\ SaveFailed(s.id, s.copy.attempts)

\* Fault: a send cut short by the shutdown uses up a try.
SaveCutCounted(s) ==
    \/ s.result = "ok"    /\ SaveSent(s.id, s.copy.attempts)
    \/ s.result = "error" /\ SaveFailed(s.id, s.copy.attempts)
    \/ s.result = "cut"   /\ HandBack(s.id, s.copy.attempts + 1, s.copy.nextRetry)

\* The transaction save asks for.
SaveResult(s) ==
    \/ s.result = "ok"    /\ SaveSent(s.id, s.copy.attempts)
    \/ s.result = "error" /\ SaveFailed(s.id, s.copy.attempts)
    \/ s.result = "cut"   /\ HandBack(s.id, s.copy.attempts, s.copy.nextRetry)

\* save: the row takes the result if it is `sending`, else it is discarded.
Save(s) ==
    /\ s.result # "none"
    /\ \/ SaveResult(s)
       \/ /\ ~(s.id \in DOMAIN attempts /\ attempts[s.id].state = "sending")
          /\ UNCHANGED storeVars
    /\ sends' = sends \ {s}
    /\ UNCHANGED <<requests, workers, heard, rare>>

\* save fails or times out: the row stays `sending` with nobody holding it.
SaveLost(s) ==
    /\ s.result # "none"
    /\ Rare
    /\ sends' = sends \ {s}
    /\ UNCHANGED <<storeVars, requests, workers, heard>>

\* SIGTERM: no more claims.
Stop(w) ==
    /\ workers[w] = "running"
    /\ Rare
    /\ workers' = [workers EXCEPT ![w] = "stopping"]
    /\ UNCHANGED <<storeVars, requests, sends, heard>>

\* shutdown has drained the scheduler.
Stopped(w) ==
    /\ workers[w] = "stopping"
    /\ HeldBy(w) = {}
    /\ workers' = [workers EXCEPT ![w] = "stopped"]
    /\ UNCHANGED <<storeVars, requests, sends, heard, rare>>

\* SIGKILL, power loss: what the worker held stays `sending`.
Crash(w) ==
    /\ workers[w] # "stopped"
    /\ Rare
    /\ workers' = [workers EXCEPT ![w] = "stopped"]
    /\ sends' = sends \ HeldBy(w)
    /\ UNCHANGED <<storeVars, requests, heard>>

Start(w) ==
    /\ workers[w] = "stopped"
    /\ workers' = [workers EXCEPT ![w] = "running"]
    /\ UNCHANGED <<storeVars, requests, sends, heard, rare>>

Held(a) == \E s \in sends : s.id = a

\* Fault: StaleAfter is shorter than a send may take.
ReapTooEarly ==
    /\ \E w \in Workers : workers[w] = "running"
    /\ \E stale \in ANonEmptySubset({a \in DOMAIN attempts : attempts[a].state = "sending"}) :
        /\ RequeueStuckSending(stale)
        /\ sends' = {IF s.id \in stale THEN [s EXCEPT !.taken = TRUE] ELSE s : s \in sends}
    /\ UNCHANGED <<requests, workers, heard, rare>>

\* runReaper: rows claimed longer than StaleAfter ago.  StaleAfter is at least
\* twice the longest send (NewWorker), so a timely worker is done by then.
Reap ==
    /\ \E w \in Workers : workers[w] = "running"
    /\ \E stale \in ANonEmptySubset({a \in DOMAIN attempts : attempts[a].state = "sending"}) :
        /\ TimelyWorkers => \A a \in stale : ~Held(a)
        /\ RequeueStuckSending(stale)
        /\ sends' = {IF s.id \in stale THEN [s EXCEPT !.taken = TRUE] ELSE s : s \in sends}
    /\ UNCHANGED <<requests, workers, heard, rare>>
-----------------------------------------------------------------------------
(*********************** operators, retention, time ************************)

ReplayDeadLetter ==
    /\ ReplayStep
    /\ Rare
    /\ UNCHANGED <<requests, sends, workers, heard>>

Retention == RetentionStep /\ UNCHANGED loopVars

RetryTime == TimeStep /\ UNCHANGED loopVars
-----------------------------------------------------------------------------
RequestStep(c) ==
    \/ InsertReported(c)
    \/ ReadConflict(c)
    \/ Refresh(c)
    \/ LookupAgain(c)
    \/ ReadLatest(c)
    \/ Update(c)
    \/ Reread(c)

SendStep == \E s \in sends : SendOK(s) \/ SendFails(s) \/ SendCut(s)

SaveStep == \E s \in sends : Save(s)

Next ==
    \/ \E c \in Clients : \/ Report(c)
                          \/ ReportResolved(c)
                          \/ Act(c)
                          \/ RequestStep(c)
                          \/ Abort(c)
    \/ \E w \in Workers : Claim(w) \/ ClaimLost(w) \/ Stop(w) \/ Stopped(w) \/ Crash(w) \/ Start(w)
    \/ SendStep
    \/ SaveStep
    \/ \E s \in sends : SaveLost(s)
    \/ Reap
    \/ ReplayDeadLetter
    \/ Retention
    \/ RetryTime

Spec == Init /\ [][Next]_vars

\* The loops of a running worker keep running: Run polls every tick, each send
\* ends within its channel's timeout and is saved, the reaper and the clock
\* tick, and a worker that stopped is started again (the container restarts).
Fairness ==
    /\ WF_vars(\E w \in Workers : Claim(w))
    /\ WF_vars(SendStep)
    /\ WF_vars(SaveStep)
    /\ WF_vars(Reap)
    /\ WF_vars(RetryTime)
    /\ \A w \in Workers : WF_vars(Stopped(w)) /\ WF_vars(Start(w))

FairSpec == Spec /\ Fairness
-----------------------------------------------------------------------------
(******************************* properties ********************************)

\* A channel is told that an incident is over only after it was told about the
\* incident: the alert of every recovery a worker holds was delivered, although
\* results are saved late, lost with a crash, or overwritten by the reaper
\* (claim.go: "otherwise an alert waiting for a retry arrives after its own
\* `resolved`").
AlertHeardBeforeRecovery ==
    /\ \A s \in sends : s.copy.kind = "recovery" => s.copy.recoveryFor \in heard
    /\ \A a \in DOMAIN attempts : attempts[a].state = "sent" => a \in heard

\* Nor is it told about the incident again afterwards: once a recovery is in
\* flight or was delivered, no worker holds the alert it follows.  Needs timely
\* workers: the reaper must not hand an alert to a second worker.
NoAlertAfterItsRecovery ==
    \A s \in sends, r \in DOMAIN attempts :
        attempts[r].recoveryFor = s.id => r \notin heard /\ ~Held(r)

\* A claim is exclusive while workers are timely: two workers never send the
\* same attempt at once, and the row a worker holds stays `sending` until that
\* worker saves, or retention removes it (ClaimDue, RequeueStuckSending).
ClaimIsExclusive ==
    \A s \in sends :
        /\ \A t \in sends : t.id = s.id => t = s
        /\ s.id \in DOMAIN attempts => attempts[s.id].state = "sending"

\* MarkResult's comment: "The row is only ours while it is still `sending`;
\* anything else means someone took it back, and ErrNotFound says so".  A send
\* whose row the reaper took back therefore never writes its result.
LateResultDiscarded ==
    [][\A s \in sends : s.taken /\ sends' = sends \ {s} => attempts' = attempts]_vars

\* README: "A `firing` with a higher severity alerts the channels the new
\* severity routes to that have not had an alert for this incident": after the
\* severity an unmuted incident holds has risen, every channel of its new route
\* has an alert (refresh, RefreshOpenEvent).
RiseAlertsRoute ==
    [][\A e \in DOMAIN events : e \in DOMAIN events' =>
         LET old == events[e]
             new == events'[e]
         IN /\ old.type = "incident" /\ old.state # "muted"
            /\ SeverityRank(new.severity) > SeverityRank(old.severity)
            => \A k \in DOMAIN Route[new.type][new.severity] :
                  Route[new.type][new.severity][k] \in AlertChannelNames(e)']_vars

Settled(a) == a \notin DOMAIN attempts \/ attempts[a].state \in {"sent", "dead_letter", "cancelled"}

\* An alert, or a recovery whose alert was sent, is waiting or in flight.
Owed(a) ==
    /\ a \in DOMAIN attempts
    /\ ~Settled(a)
    /\ attempts[a].kind = "recovery" => attempts[attempts[a].recoveryFor].state = "sent"

\* Every notification owed is eventually sent, given up on visibly as a dead
\* letter, cancelled or removed, across crashes, shutdowns and lost saves
\* (Run, process, reap).
EventuallySettles(a) == Owed(a) ~> Settled(a)
=============================================================================
