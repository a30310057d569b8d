-------------------------------- MODULE Locks --------------------------------
(***************************************************************************)
(* The transactions of module Store on PostgreSQL, statement by statement  *)
(* (internal/storage): READ COMMITTED gives every statement a snapshot of  *)
(* its own, so what a transaction read may change before it commits,       *)
(* unless a row lock holds it.  FOR UPDATE and UPDATE exclude every other  *)
(* lock on a row of events; FOR SHARE excludes those two.                  *)
(*                                                                         *)
(* events and attempts are what is committed.  A session keeps what its    *)
(* transaction decided and the rows it locked; the rows are written, and   *)
(* ids given to new ones, at the commit.  Locks implements StoreSpec: the  *)
(* locks make every transaction look like one step.  Replays are left out: *)
(* one may commit after a mute looked for rows to cancel and before the    *)
(* mute commits, which is the mute and then the replay, though the commits *)
(* come the other way round.                                               *)
(***************************************************************************)
EXTENDS Store

CONSTANTS
    Sessions    \* database connections

VARIABLE tx     \* session -> its transaction

vars == <<storeVars, tx>>

\* What a transaction holds: locks on rows of events, and changed attempts.
NoTx == [pc |-> "idle", exclusive |-> {}, shared |-> {}, rows |-> {}]

\* A transaction at pc that has learned more.
At(t, pc, more) == Insert([t EXCEPT !.pc = pc], more)

Init == StoreInit /\ tx = [s \in Sessions |-> NoTx]

Others(s) == Sessions \ {s}

CanShare(s, e) == \A o \in Others(s) : e \notin tx[o].exclusive

CanExclude(s, e) == \A o \in Others(s) : e \notin tx[o].exclusive \cup tx[o].shared

RowFree(s, a) == \A o \in Others(s) : a \notin tx[o].rows

Now(s, t) == tx' = [tx EXCEPT ![s] = t]

\* A statement that writes nothing that is committed yet.
Go(s, t) == Now(s, t) /\ UNCHANGED storeVars

Begin(s, pc, asked) == tx[s] = NoTx /\ Go(s, At(NoTx, pc, asked))

\* Rolled back, or committed: every lock is released.
End(s) == Go(s, NoTx)

\* A read FOR SHARE: the state of e holds until the commit.
ReadShared(s, e, t) == CanShare(s, e) /\ Go(s, [t EXCEPT !.shared = @ \cup {e}])
-----------------------------------------------------------------------------
(***************************** TransitionEvent *****************************)

BeginTransition(s) ==
    \E e \in DOMAIN events : \E to \in Targets(e) :
        Begin(s, "update state", [event |-> e, from |-> events[e].state, to |-> to])

\* UPDATE events ... WHERE id = ? AND state = ?: waits for the row and looks
\* at its state again.
UpdateState(s) ==
    LET t == tx[s]
        matches == t.event \in DOMAIN events /\ events[t.event].state = t.from
    IN /\ t.pc = "update state"
       /\ \/ ~matches /\ End(s)
          \/ /\ matches /\ CanExclude(s, t.event)
             /\ Go(s, [t EXCEPT !.exclusive = {t.event}, !.pc = "close"])

\* The cancel of a mute: the UPDATE finds its rows in its snapshot,
CancelSnapshot(s) ==
    LET t == tx[s]
    IN /\ t.pc = "close" /\ t.to = "muted"
       /\ Go(s, At(t, "cancel",
                    [todo |-> {a \in AlertsOf(t.event) : attempts[a].state \in {"pending", "failed"}}]))

\* and locks and looks at each again.
CancelRow(s) ==
    LET t == tx[s]
    IN /\ t.pc = "cancel"
       /\ \E a \in t.todo :
            /\ RowFree(s, a)
            /\ Go(s, [t EXCEPT !.todo = @ \ {a},
                        !.rows = @ \cup {x \in {a} : attempts[x].state \in {"pending", "failed"}}])

\* The close reads the alerts it owes a recovery.
ReadAlerts(s) ==
    LET t == tx[s]
    IN /\ t.pc = "close" /\ t.to # "muted"
       /\ Go(s, At(t, "commit close",
                    [recover |-> IF t.to = "resolved" /\ NotifiesOnClose(events[t.event].type, t.from)
                                   THEN AlertsToRecover(t.event) ELSE {}]))

CommitMute(s) ==
    LET t == tx[s]
    IN /\ t.pc = "cancel" /\ t.todo = {}
       /\ events' = [events EXCEPT ![t.event].state = t.to]
       /\ attempts' = [a \in DOMAIN attempts |-> IF a \in t.rows
            THEN [attempts[a] EXCEPT !.state = "cancelled", !.nextRetry = "null"] ELSE attempts[a]]
       /\ Now(s, NoTx)
       /\ UNCHANGED <<lastEvent, lastId>>

CommitClose(s) ==
    LET t == tx[s]
    IN /\ t.pc = "commit close"
       /\ events' = [events EXCEPT ![t.event].state = t.to]
       /\ attempts' = Insert(attempts, [i \in {lastId + a : a \in t.recover} |->
            PendingAttempt(t.event, attempts[i - lastId].channel, "recovery", NoLink, i - lastId)])
       /\ lastId' = IF t.to = "resolved" /\ NotifiesOnClose(events[t.event].type, t.from)
                      THEN 2 * lastId ELSE lastId
       /\ Now(s, NoTx)
       /\ UNCHANGED lastEvent
-----------------------------------------------------------------------------
(**************************** RefreshOpenEvent *****************************)

BeginRefresh(s) ==
    \E e \in DOMAIN events, severity \in Severities : \E alerts \in AlertsOnRise(e, severity) :
        /\ events[e].key # NoKey
        /\ Begin(s, "select", [event |-> e, severity |-> severity, alerts |-> alerts])

\* The alerts of t are due when the severity read for it is lower.
Rises(t) ==
    /\ events[t.event].state # "muted"
    /\ SeverityRank(t.severity) > SeverityRank(events[t.event].severity)
    /\ t.alerts # <<>>

\* Fault: the row is read without a lock.
SelectUnlocked(s) ==
    LET t == tx[s]
    IN /\ t.pc = "select"
       /\ \/ t.event \notin OpenEvents /\ End(s)
          \/ /\ t.event \in OpenEvents
             /\ Go(s, At(t, "update severity", [rises |-> Rises(t)]))

\* Fault: the row is read under a share lock.
SelectForShare(s) ==
    LET t == tx[s]
    IN /\ t.pc = "select"
       /\ \/ t.event \notin OpenEvents /\ End(s)
          \/ /\ t.event \in OpenEvents /\ CanShare(s, t.event)
             /\ Go(s, At([t EXCEPT !.shared = {t.event}], "update severity", [rises |-> Rises(t)]))

\* SELECT severity, state ... FOR UPDATE.
SelectForUpdate(s) ==
    LET t == tx[s]
    IN /\ t.pc = "select"
       /\ \/ t.event \notin OpenEvents /\ End(s)
          \/ /\ t.event \in OpenEvents /\ CanExclude(s, t.event)
             /\ Go(s, At([t EXCEPT !.exclusive = {t.event}], "update severity", [rises |-> Rises(t)]))

\* UPDATE events SET severity, then insertMissingAlerts reads who was alerted.
UpdateSeverity(s) ==
    LET t == tx[s]
    IN /\ t.pc = "update severity" /\ CanExclude(s, t.event)
       /\ Go(s, At([t EXCEPT !.exclusive = {t.event}], "commit refresh",
                    [alerted |-> AlertChannelNames(t.event)]))

CommitRefresh(s) ==
    LET t == tx[s]
    IN /\ t.pc = "commit refresh"
       /\ events' = [events EXCEPT ![t.event].severity = t.severity]
       /\ IF t.rises /\ \E k \in DOMAIN t.alerts : t.alerts[k] \notin t.alerted
            THEN /\ attempts' = Insert(attempts, AlertRows(t.event, t.alerts, t.alerted))
                 /\ lastId' = lastId + Len(t.alerts)
            ELSE UNCHANGED <<attempts, lastId>>
       /\ Now(s, NoTx)
       /\ UNCHANGED lastEvent
-----------------------------------------------------------------------------
(****************** MarkResult, and RequeueStuckSending ********************)

Sending(a) == a \in DOMAIN attempts /\ attempts[a].state = "sending"

\* A delivered attempt: one statement that reads nothing else.
MarkSent(s) ==
    /\ tx[s] = NoTx
    /\ \E a \in DOMAIN attempts : RowFree(s, a) /\ SaveSent(a, attempts[a].attempts)
    /\ UNCHANGED tx

\* A failed send, or one handed back, with what the worker asks to store.
BeginMark(s) ==
    \E a \in DOMAIN attempts :
        /\ Sending(a)
        /\ \/ LET last == attempts[a].attempts + 1 >= MaxAttempts
              IN Begin(s, "muted?", [row |-> a, count |-> attempts[a].attempts + 1,
                           result   |-> IF last THEN "dead_letter" ELSE "failed",
                           retry    |-> IF last THEN "null" ELSE "later",
                           fallback |-> IF last THEN FallbackFor(a) ELSE NoChannel])
           \/ Begin(s, "muted?", [row |-> a, count |-> attempts[a].attempts,
                        result |-> "pending", retry |-> attempts[a].nextRetry, fallback |-> NoChannel])

\* mutedAlertCond, for an alert: reads the event FOR SHARE.
ReadMuted(s) ==
    LET t == tx[s]
        e == attempts[t.row].event
    IN /\ t.pc = "muted?"
       /\ \/ ~Sending(t.row) /\ End(s)
          \/ /\ Sending(t.row) /\ attempts[t.row].kind # "alert"
             /\ Go(s, At(t, "write", [muted |-> FALSE]))
          \/ /\ Sending(t.row) /\ attempts[t.row].kind = "alert"
             /\ ReadShared(s, e, At(t, "write", [muted |-> MutedAlert(t.row)]))

\* The UPDATE locks the row and looks at its state again.
WriteResult(s) ==
    LET t == tx[s]
    IN /\ t.pc = "write"
       /\ \/ ~Sending(t.row) /\ End(s)
          \/ /\ Sending(t.row) /\ RowFree(s, t.row)
             /\ LET redirect == t.result = "dead_letter" /\ ~t.muted /\ t.fallback # NoChannel
                IN Go(s, At([t EXCEPT !.rows = {t.row}], IF redirect THEN "copy" ELSE "commit result",
                            [copy |-> FALSE, late |-> FALSE]))

\* queueFallback: INSERT ... ON CONFLICT DO NOTHING,
InsertCopy(s) ==
    LET t == tx[s]
    IN /\ t.pc = "copy"
       /\ \/ Redirected(t.row) /\ Go(s, [t EXCEPT !.pc = "commit result"])
          \/ ~Redirected(t.row) /\ Go(s, [t EXCEPT !.copy = TRUE, !.pc = "resolved?"])

\* then the state of the event FOR SHARE, and the count of its recoveries.
ReadResolved(s) ==
    LET t == tx[s]
        e == attempts[t.row].event
    IN /\ t.pc = "resolved?"
       /\ ReadShared(s, e, [t EXCEPT !.pc = "commit result",
                        !.late = events[e].state = "resolved" /\ RecoveriesOf(e) # {}])

CommitResult(s) ==
    LET t == tx[s]
        e == attempts[t.row].event
        marked == [attempts EXCEPT
            ![t.row].state = IF t.muted THEN "cancelled" ELSE t.result, ![t.row].attempts = t.count,
            ![t.row].nextRetry = IF t.muted THEN "null" ELSE t.retry]
        new == IF t.late THEN {lastId + 1, lastId + 2} ELSE {lastId + 1}
    IN /\ t.pc = "commit result"
       /\ IF t.copy
            THEN /\ attempts' = Insert(marked, [i \in new |->
                        IF i = lastId + 1 THEN PendingAttempt(e, t.fallback, "alert", t.row, NoLink)
                                          ELSE PendingAttempt(e, t.fallback, "recovery", NoLink, lastId + 1)])
                 /\ lastId' = lastId + 2
            ELSE attempts' = marked /\ UNCHANGED lastId
       /\ Now(s, NoTx)
       /\ UNCHANGED <<events, lastEvent>>

\* RequeueStuckSending: one UPDATE over the stale rows of its snapshot,
BeginRequeue(s) ==
    \E stale \in ANonEmptySubset({a \in DOMAIN attempts : Sending(a)}) :
        Begin(s, "requeue", [todo |-> stale, cancel |-> {}])

\* which meets them in the order of the table, reads the event of an alert
\* FOR SHARE,
RequeueRead(s) ==
    LET t == tx[s]
    IN /\ t.pc = "requeue"
       /\ \E a \in {x \in t.todo : \A y \in t.todo : x <= y} :
            \/ ~Sending(a) /\ Go(s, [t EXCEPT !.todo = @ \ {a}])
            \/ /\ Sending(a) /\ attempts[a].kind # "alert"
               /\ Go(s, At(t, "requeue row", [row |-> a]))
            \/ /\ Sending(a) /\ attempts[a].kind = "alert"
               /\ ReadShared(s, attempts[a].event, At(t, "requeue row",
                    [row |-> a, cancel |-> t.cancel \cup {x \in {a} : MutedAlert(x)}]))

\* locks the row and looks at its state again.
RequeueRow(s) ==
    LET t == tx[s]
        a == t.row
    IN /\ t.pc = "requeue row"
       /\ \/ Sending(a) /\ RowFree(s, a)
             /\ Go(s, [t EXCEPT !.pc = "requeue", !.todo = @ \ {a}, !.rows = @ \cup {a}])
          \/ ~Sending(a) /\ Go(s, [t EXCEPT !.pc = "requeue", !.todo = @ \ {a}])

CommitRequeue(s) ==
    LET t == tx[s]
    IN /\ t.pc = "requeue" /\ t.todo = {}
       /\ attempts' = [a \in DOMAIN attempts |->
            IF a \notin t.rows THEN attempts[a]
            ELSE IF a \in t.cancel THEN [attempts[a] EXCEPT !.state = "cancelled", !.nextRetry = "null"]
                 ELSE [attempts[a] EXCEPT !.state = "pending"]]
       /\ Now(s, NoTx)
       /\ UNCHANGED <<events, lastEvent, lastId>>
-----------------------------------------------------------------------------
(******************* transactions of a single statement ********************)

Create == CreateStep /\ UNCHANGED tx

\* ClaimDue: FOR UPDATE SKIP LOCKED.
Claim(s) ==
    /\ tx[s] = NoTx
    /\ \E claim \in ANonEmptySubset({a \in DOMAIN attempts : Deliverable(a) /\ RowFree(s, a)}) :
        ClaimDue(claim)
    /\ UNCHANGED tx

RetryTime == TimeStep /\ UNCHANGED tx

\* The connection breaks: the transaction is rolled back.
Rollback(s) == tx[s] # NoTx /\ End(s)

Next ==
    \/ Create \/ RetryTime
    \/ \E s \in Sessions :
        \/ BeginTransition(s) \/ UpdateState(s) \/ CancelSnapshot(s) \/ CancelRow(s)
        \/ ReadAlerts(s) \/ CommitMute(s) \/ CommitClose(s)
        \/ BeginRefresh(s) \/ SelectForUpdate(s) \/ UpdateSeverity(s) \/ CommitRefresh(s)
        \/ MarkSent(s) \/ BeginMark(s) \/ ReadMuted(s) \/ WriteResult(s)
        \/ InsertCopy(s) \/ ReadResolved(s) \/ CommitResult(s)
        \/ BeginRequeue(s) \/ RequeueRead(s) \/ RequeueRow(s) \/ CommitRequeue(s)
        \/ Claim(s) \/ Rollback(s)

Spec == Init /\ [][Next]_vars
-----------------------------------------------------------------------------
(******************************* properties ********************************)

\* The lock session s is about to take is held by session o.
WaitsFor(s, o) ==
    LET t == tx[s]
        wantsExclusive == IF t.pc \in {"update state", "select", "update severity"} THEN {t.event} ELSE {}
        wantsShared == CASE t.pc = "muted?" \/ t.pc = "resolved?" ->
                              {attempts[a].event : a \in {x \in {t.row} : x \in DOMAIN attempts}}
                         [] t.pc = "requeue" -> {attempts[a].event : a \in {x \in t.todo : \A y \in t.todo : x <= y}}
                         [] OTHER -> {}
        wantsRows == CASE t.pc \in {"write", "requeue row"} -> {t.row}
                       [] t.pc = "cancel" -> t.todo
                       [] OTHER -> {}
    IN /\ s # o
       /\ \/ wantsExclusive \cap (tx[o].exclusive \cup tx[o].shared) # {}
          \/ wantsShared \cap tx[o].exclusive # {}
          \/ wantsRows \cap tx[o].rows # {}

\* No set of transactions waits for each other: every one of mute, close,
\* refresh, result and requeue locks the event before an attempt of it
\* (TransitionEvent, RefreshOpenEvent, mutedAlertCond).
NoLockCycle ==
    \A waiting \in (SUBSET Sessions) \ {{}} :
        \E s \in waiting : \A o \in waiting : ~WaitsFor(s, o)
=============================================================================
