----------------------------- MODULE LocksProofs -----------------------------
(***************************************************************************)
(* The transactions of the store on PostgreSQL look like single steps, and *)
(* never wait for each other in a circle: for any number of sessions and   *)
(* every value of the constants.                                           *)
(*                                                                         *)
(* The inductive invariant says what a transaction knows at each of its    *)
(* statements (Knows): what it read and will rely on at the commit is      *)
(* still so, because of the locks it holds.  A step of another session     *)
(* changes only rows its own locks allow it to change (Respects), which    *)
(* leaves that knowledge true (KnowledgeKept).                             *)
(***************************************************************************)
EXTENDS Locks, StoreProofs, WellFoundedInduction

\* What is read from the tables ev and at.
AlertsIn(at, e) == {a \in DOMAIN at : at[a].event = e /\ at[a].kind = "alert"}
RecoveriesIn(at, e) == {a \in DOMAIN at : at[a].event = e /\ at[a].kind = "recovery"}
QueuedIn(at, e) == {a \in AlertsIn(at, e) : at[a].state \in {"pending", "failed"}}
CopiedIn(at, a) == \E c \in DOMAIN at : at[c].fallbackOf = a
MutedIn(ev, at, a) == at[a].kind = "alert" /\ ev[at[a].event].state = "muted"

Has(t, fields) == {"pc", "exclusive", "shared", "rows"} \cup fields \subseteq DOMAIN t

\* TransitionEvent.
KnowsTransition(t, ev, at) ==
    /\ Has(t, {"event", "from", "to"})
    /\ t.event \in DOMAIN ev
    /\ t.to # t.from /\ t.to # Refused
    /\ \/ t.to = "resolved"
       \/ CheckActionAllowed(ev[t.event].type) /\ \E act \in Actions : t.to = ApplyAction(t.from, act)
    /\ t.shared = {}
    /\ t.pc = "update state" => t.exclusive = {}
    /\ t.pc # "update state" => t.exclusive = {t.event} /\ ev[t.event].state = t.from
    /\ t.pc # "cancel" => t.rows = {}
    /\ t.pc = "cancel" =>
          /\ Has(t, {"todo"}) /\ t.to = "muted"
          /\ t.todo \subseteq AlertsIn(at, t.event) /\ t.rows \subseteq QueuedIn(at, t.event)
          /\ QueuedIn(at, t.event) \subseteq t.rows \cup t.todo
    /\ t.pc = "commit close" =>
          /\ Has(t, {"recover"}) /\ t.to # "muted"
          /\ t.recover = IF t.to = "resolved" /\ NotifiesOnClose(ev[t.event].type, t.from)
                           THEN {a \in AlertsIn(at, t.event) : at[a].state # "cancelled"} ELSE {}

\* RefreshOpenEvent.
KnowsRefresh(t, ev, at) ==
    /\ Has(t, {"event", "severity", "alerts"})
    /\ t.event \in DOMAIN ev /\ ev[t.event].key # NoKey /\ t.severity \in Severities
    /\ t.alerts # <<>> => ev[t.event].type = "incident" /\ t.alerts = Route["incident"][t.severity]
    /\ t.shared = {} /\ t.rows = {}
    /\ t.pc = "select" => t.exclusive = {}
    /\ t.pc # "select" =>
          /\ Has(t, {"rises"}) /\ t.exclusive = {t.event}
          /\ ev[t.event].state # "resolved"
          /\ t.rises = ( /\ ev[t.event].state # "muted"
                         /\ SeverityRank(t.severity) > SeverityRank(ev[t.event].severity)
                         /\ t.alerts # <<>> )
    /\ t.pc = "commit refresh" =>
          Has(t, {"alerted"}) /\ t.alerted = {at[a].channel : a \in AlertsIn(at, t.event)}

\* What a worker asks MarkResult to store: after a send that failed with n
\* tries before it, or that was handed back.
AskedOf(t, n, row) ==
    \/ /\ n + 1 >= MaxAttempts /\ t.count = n + 1 /\ t.result = "dead_letter" /\ t.retry = "null"
       /\ t.fallback = IF row.kind = "alert" /\ row.fallbackOf = NoLink THEN Fallback[row.channel] ELSE NoChannel
    \/ /\ n + 1 < MaxAttempts /\ t.count = n + 1 /\ t.result = "failed" /\ t.retry = "later"
       /\ t.fallback = NoChannel
    \/ /\ t.count = n /\ t.result = "pending" /\ t.retry \in {"null", "due"}
       /\ t.fallback = NoChannel

\* The result is a dead letter that goes to a fallback channel.
Redirecting(t) == t.result = "dead_letter" /\ ~t.muted /\ t.fallback # NoChannel

\* MarkResult.
KnowsResult(t, ev, at) ==
    /\ Has(t, {"row", "count", "result", "retry", "fallback"})
    /\ t.row \in DOMAIN at
    /\ \E n \in 0 .. MaxAttempts - 1 : AskedOf(t, n, at[t.row])
    /\ t.exclusive = {}
    /\ t.pc = "muted?" => t.shared = {}
    /\ t.pc # "muted?" =>
          /\ Has(t, {"muted"}) /\ t.muted = MutedIn(ev, at, t.row)
          /\ at[t.row].kind = "alert" => at[t.row].event \in t.shared
    /\ t.pc \in {"muted?", "write"} => t.rows = {}
    /\ t.pc \in {"copy", "resolved?", "commit result"} =>
          Has(t, {"copy", "late"}) /\ t.rows = {t.row} /\ at[t.row].state = "sending"
    /\ t.pc \in {"copy", "resolved?"} => Redirecting(t)
    /\ t.pc = "copy" => t.copy = FALSE
    /\ t.pc = "resolved?" => t.copy = TRUE /\ ~CopiedIn(at, t.row)
    /\ t.pc = "commit result" =>
          /\ t.copy = (Redirecting(t) /\ ~CopiedIn(at, t.row))
          /\ t.copy => t.late = ( /\ ev[at[t.row].event].state = "resolved"
                                  /\ RecoveriesIn(at, at[t.row].event) # {} )

\* RequeueStuckSending.
KnowsRequeue(t, ev, at) ==
    /\ Has(t, {"todo", "cancel"})
    /\ t.todo \subseteq DOMAIN at /\ t.exclusive = {}
    /\ t.rows \subseteq {a \in DOMAIN at : at[a].state = "sending"}
    /\ \A a \in t.rows, b \in t.todo : a < b
    /\ \A a \in t.rows : (at[a].kind = "alert" => at[a].event \in t.shared) /\ (a \in t.cancel) = MutedIn(ev, at, a)
    /\ t.pc = "requeue" => t.cancel \cap t.todo = {}
    /\ t.pc = "requeue row" =>
          /\ Has(t, {"row"}) /\ t.row \in t.todo /\ \A b \in t.todo : t.row <= b
          /\ t.cancel \cap t.todo \subseteq {t.row}
          /\ at[t.row].kind = "alert" => at[t.row].event \in t.shared
          /\ (t.row \in t.cancel) = MutedIn(ev, at, t.row)

Knows(t, ev, at) ==
    \/ t = NoTx
    \/ t.pc \in {"update state", "close", "cancel", "commit close"} /\ KnowsTransition(t, ev, at)
    \/ t.pc \in {"select", "update severity", "commit refresh"} /\ KnowsRefresh(t, ev, at)
    \/ t.pc \in {"muted?", "write", "copy", "resolved?", "commit result"} /\ KnowsResult(t, ev, at)
    \/ t.pc \in {"requeue", "requeue row"} /\ KnowsRequeue(t, ev, at)

\* Two transactions hold their locks at the same time.
Compatible(t, u) ==
    /\ t.exclusive \cap (u.exclusive \cup u.shared) = {}
    /\ u.exclusive \cap t.shared = {}
    /\ t.rows \cap u.rows = {}

\* An attempt that is being sent was due.
SendingDue == \A a \in DOMAIN attempts : attempts[a].state = "sending" => attempts[a].nextRetry # "later"

LocksInv ==
    /\ QueueInv /\ SendingDue
    /\ DOMAIN tx = Sessions
    /\ \A s \in Sessions : Knows(tx[s], events, attempts)
    /\ \A s, o \in Sessions : s # o => Compatible(tx[s], tx[o])
-----------------------------------------------------------------------------
(***************************************************************************)
(* A step of others.                                                       *)
(***************************************************************************)

\* A step from the tables ev and at to ev2 and at2, of a transaction with
\* exclusive locks X, shared locks S and rows R; nobody has locked a row of F.
Respects(X, S, R, F, ev, at, ev2, at2) ==
    /\ DOMAIN ev \subseteq DOMAIN ev2 /\ DOMAIN at \subseteq DOMAIN at2
    /\ \A e \in DOMAIN ev : /\ ev2[e].type = ev[e].type /\ ev2[e].key = ev[e].key
                            /\ e \notin X => ev2[e] = ev[e]
    /\ \A a \in DOMAIN at : /\ at2[a].event = at[a].event /\ at2[a].channel = at[a].channel
                            /\ at2[a].kind = at[a].kind /\ at2[a].fallbackOf = at[a].fallbackOf
    /\ \A a \in DOMAIN at \ R :
          \/ at2[a].state = at[a].state
          \/ a \in F /\ at[a].state \in {"pending", "failed"} /\ at2[a].state = "sending"
          \/ a \in F /\ at[a].state = "sending" /\ at2[a].state = "sent"
    /\ \A a \in R : a \in DOMAIN at /\ (at[a].kind = "alert" => at[a].event \in X \cup S)
    /\ \A a \in DOMAIN at2 \ DOMAIN at :
          /\ at2[a].kind = "alert" /\ at2[a].event \in DOMAIN ev => at2[a].event \in X \cup S
          /\ at2[a].kind = "recovery" => at2[a].event \in X \/ RecoveriesIn(at, at2[a].event) # {}
          /\ at2[a].fallbackOf \notin DOMAIN at \ R

\* The attempts of table at belong to events of table ev.
Owned(ev, at) == \A a \in DOMAIN at : at[a].event \in DOMAIN ev

LEMMA TransitionKept ==
    ASSUME NEW t, NEW X, NEW S, NEW R, NEW F, NEW ev, NEW at, NEW ev2, NEW at2,
           Respects(X, S, R, F, ev, at, ev2, at2),
           t.exclusive \cap (X \cup S) = {}, t.shared \cap X = {}, t.rows \cap R = {}, t.rows \cap F = {},
           KnowsTransition(t, ev, at)
    PROVE  KnowsTransition(t, ev2, at2)
  <1> DEFINE e == t.event
  <1>1. e \in DOMAIN ev /\ e \in DOMAIN ev2 /\ ev2[e].type = ev[e].type /\ Has(t, {"event", "from", "to"})
    BY DEF KnowsTransition, Respects
  <1>2. CASE t.pc = "update state"
    BY <1>1, <1>2 DEF KnowsTransition
  <1>3. CASE t.pc # "update state"
    <2>1. t.exclusive = {e} /\ e \notin X /\ e \notin S /\ ev2[e] = ev[e]
      BY <1>1, <1>3 DEF KnowsTransition, Respects
    <2>2. AlertsIn(at2, e) = AlertsIn(at, e)
      BY <1>1, <2>1 DEF Respects, AlertsIn
    <2>3. \A a \in AlertsIn(at, e) : a \in DOMAIN at /\ a \notin R
      BY <2>1 DEF Respects, AlertsIn
    <2>4. QueuedIn(at2, e) \subseteq QueuedIn(at, e)
      BY <2>2, <2>3 DEF Respects, QueuedIn
    <2>5. t.rows \subseteq QueuedIn(at, e) => t.rows \subseteq QueuedIn(at2, e)
      BY <2>2, <2>3 DEF Respects, QueuedIn
    <2>6. {a \in AlertsIn(at2, e) : at2[a].state # "cancelled"} = {a \in AlertsIn(at, e) : at[a].state # "cancelled"}
      BY <2>2, <2>3 DEF Respects
    <2>7. t.pc = "cancel" =>
            /\ Has(t, {"todo"}) /\ t.to = "muted"
            /\ t.todo \subseteq AlertsIn(at2, e) /\ t.rows \subseteq QueuedIn(at2, e)
            /\ QueuedIn(at2, e) \subseteq t.rows \cup t.todo
      BY <2>2, <2>4, <2>5 DEF KnowsTransition
    <2>8. t.pc = "commit close" =>
            /\ Has(t, {"recover"}) /\ t.to # "muted"
            /\ t.recover = IF t.to = "resolved" /\ NotifiesOnClose(ev2[t.event].type, t.from)
                             THEN {a \in AlertsIn(at2, t.event) : at2[a].state # "cancelled"} ELSE {}
      BY <1>1, <2>6 DEF KnowsTransition
    <2> QED
      BY <1>1, <1>3, <2>1, <2>7, <2>8 DEF KnowsTransition
  <1> QED
    BY <1>2, <1>3

LEMMA RefreshKept ==
    ASSUME NEW t, NEW X, NEW S, NEW R, NEW F, NEW ev, NEW at, NEW ev2, NEW at2,
           Respects(X, S, R, F, ev, at, ev2, at2), t.exclusive \cap (X \cup S) = {},
           KnowsRefresh(t, ev, at)
    PROVE  KnowsRefresh(t, ev2, at2)
  <1> DEFINE e == t.event
  <1>1. /\ e \in DOMAIN ev /\ e \in DOMAIN ev2 /\ ev2[e].type = ev[e].type /\ ev2[e].key = ev[e].key
        /\ Has(t, {"event", "severity", "alerts"})
    BY DEF KnowsRefresh, Respects
  <1>2. CASE t.pc = "select"
    BY <1>1, <1>2 DEF KnowsRefresh
  <1>3. CASE t.pc # "select"
    <2>1. t.exclusive = {e} /\ e \notin X /\ e \notin S /\ ev2[e] = ev[e]
      BY <1>1, <1>3 DEF KnowsRefresh, Respects
    <2>2. AlertsIn(at2, e) = AlertsIn(at, e)
      BY <1>1, <2>1 DEF Respects, AlertsIn
    <2>3. {at2[a].channel : a \in AlertsIn(at2, e)} = {at[a].channel : a \in AlertsIn(at, e)}
      BY <2>2 DEF Respects, AlertsIn
    <2> QED
      BY <1>1, <1>3, <2>1, <2>3 DEF KnowsRefresh
  <1> QED
    BY <1>2, <1>3

LEMMA ResultKept ==
    ASSUME NEW t, NEW X, NEW S, NEW R, NEW F, NEW ev, NEW at, NEW ev2, NEW at2,
           Respects(X, S, R, F, ev, at, ev2, at2), Owned(ev, at),
           t.shared \cap X = {}, t.rows \cap R = {}, t.rows \cap F = {},
           KnowsResult(t, ev, at)
    PROVE  KnowsResult(t, ev2, at2)
  <1> DEFINE e == at[t.row].event
  <1>1. /\ t.row \in DOMAIN at /\ t.row \in DOMAIN at2
        /\ at2[t.row].event = e /\ at2[t.row].channel = at[t.row].channel
        /\ at2[t.row].kind = at[t.row].kind /\ at2[t.row].fallbackOf = at[t.row].fallbackOf
        /\ e \in DOMAIN ev
    BY DEF KnowsResult, Respects, Owned
  <1>2. \A n \in 0 .. MaxAttempts - 1 : AskedOf(t, n, at[t.row]) => AskedOf(t, n, at2[t.row])
    BY <1>1 DEF AskedOf
  <1>3. \E n \in 0 .. MaxAttempts - 1 : AskedOf(t, n, at2[t.row])
    BY <1>2 DEF KnowsResult
  <1>4. t.pc # "muted?" /\ at[t.row].kind = "alert" => e \in t.shared /\ e \notin X /\ ev2[e] = ev[e]
    BY <1>1 DEF KnowsResult, Respects
  <1>5. t.pc # "muted?" => Has(t, {"muted"}) /\ t.muted = MutedIn(ev2, at2, t.row)
    BY <1>1, <1>4 DEF KnowsResult, MutedIn
  <1>6. t.pc \in {"copy", "resolved?", "commit result"} =>
          Has(t, {"copy", "late"}) /\ t.rows = {t.row} /\ at2[t.row].state = "sending"
    BY <1>1 DEF KnowsResult, Respects
  <1>7. t.pc \in {"copy", "resolved?", "commit result"} => CopiedIn(at2, t.row) = CopiedIn(at, t.row)
    <2> SUFFICES ASSUME t.pc \in {"copy", "resolved?", "commit result"}
                 PROVE  CopiedIn(at2, t.row) = CopiedIn(at, t.row)
      OBVIOUS
    <2>1. t.row \in DOMAIN at \ R
      BY <1>1 DEF KnowsResult
    <2>2. \A c \in DOMAIN at2 \ DOMAIN at : at2[c].fallbackOf # t.row
      BY <2>1 DEF Respects
    <2>3. \A c \in DOMAIN at : c \in DOMAIN at2 /\ at2[c].fallbackOf = at[c].fallbackOf
      BY DEF Respects
    <2> QED
      BY <2>2, <2>3 DEF CopiedIn
  <1>8. Redirecting(t) => at[t.row].kind = "alert"
    BY <1>3, <1>1 DEF Redirecting, AskedOf
  <1>9. e \notin X => (RecoveriesIn(at2, e) # {}) = (RecoveriesIn(at, e) # {})
    <2> SUFFICES ASSUME e \notin X PROVE (RecoveriesIn(at2, e) # {}) = (RecoveriesIn(at, e) # {})
      OBVIOUS
    <2>1. RecoveriesIn(at, e) \subseteq RecoveriesIn(at2, e)
      BY DEF RecoveriesIn, Respects
    <2>2. ASSUME NEW r \in RecoveriesIn(at2, e), r \notin RecoveriesIn(at, e) PROVE RecoveriesIn(at, e) # {}
      <3>1. r \in DOMAIN at2 /\ at2[r].kind = "recovery" /\ at2[r].event = e /\ r \notin DOMAIN at
        BY <2>2 DEF RecoveriesIn, Respects
      <3> QED
        BY <3>1 DEF Respects
    <2> QED
      BY <2>1, <2>2
  <1>10. t.pc = "commit result" =>
          /\ t.copy = (Redirecting(t) /\ ~CopiedIn(at2, t.row))
          /\ t.copy => t.late = ( /\ ev2[at2[t.row].event].state = "resolved"
                                  /\ RecoveriesIn(at2, at2[t.row].event) # {} )
    <2> SUFFICES ASSUME t.pc = "commit result"
                 PROVE  /\ t.copy = (Redirecting(t) /\ ~CopiedIn(at2, t.row))
                        /\ t.copy => t.late = ( /\ ev2[e].state = "resolved"
                                                /\ RecoveriesIn(at2, e) # {} )
      BY <1>1
    <2>1. t.copy = (Redirecting(t) /\ ~CopiedIn(at2, t.row))
      BY <1>7 DEF KnowsResult
    <2>2. t.copy => e \notin X /\ ev2[e] = ev[e]
      BY <1>4, <1>8, <2>1
    <2> QED
      BY <1>9, <2>1, <2>2 DEF KnowsResult
  <1> QED
    BY <1>1, <1>3, <1>5, <1>6, <1>7, <1>10 DEF KnowsResult

LEMMA RequeueKept ==
    ASSUME NEW t, NEW X, NEW S, NEW R, NEW F, NEW ev, NEW at, NEW ev2, NEW at2,
           Respects(X, S, R, F, ev, at, ev2, at2), Owned(ev, at),
           t.shared \cap X = {}, t.rows \cap R = {}, t.rows \cap F = {},
           KnowsRequeue(t, ev, at)
    PROVE  KnowsRequeue(t, ev2, at2)
  <1>1. \A a \in DOMAIN at : /\ a \in DOMAIN at2 /\ at2[a].kind = at[a].kind /\ at2[a].event = at[a].event
                             /\ at[a].event \in DOMAIN ev
    BY DEF Respects, Owned
  <1>2. \A a \in DOMAIN at : (at[a].kind = "alert" => at[a].event \in t.shared) =>
                             /\ at2[a].kind = "alert" => at2[a].event \in t.shared
                             /\ MutedIn(ev2, at2, a) = MutedIn(ev, at, a)
    BY <1>1 DEF Respects, MutedIn
  <1>3. t.rows \subseteq {a \in DOMAIN at2 : at2[a].state = "sending"}
    BY <1>1, ZenonT(30) DEF KnowsRequeue, Respects
  <1>4. t.rows \subseteq DOMAIN at /\ t.todo \subseteq DOMAIN at /\ t.todo \subseteq DOMAIN at2
    BY <1>1 DEF KnowsRequeue
  <1>5. \A a \in t.rows : (at2[a].kind = "alert" => at2[a].event \in t.shared) /\ (a \in t.cancel) = MutedIn(ev2, at2, a)
    BY <1>2, <1>4 DEF KnowsRequeue
  <1>6. t.pc = "requeue row" => /\ at2[t.row].kind = "alert" => at2[t.row].event \in t.shared
                                /\ (t.row \in t.cancel) = MutedIn(ev2, at2, t.row)
    BY <1>2, <1>4 DEF KnowsRequeue
  <1> QED
    BY <1>3, <1>4, <1>5, <1>6 DEF KnowsRequeue

\* What a transaction knows outlasts a step that respects its locks.
LEMMA KnowledgeKept ==
    ASSUME NEW t, NEW X, NEW S, NEW R, NEW F, NEW ev, NEW at, NEW ev2, NEW at2,
           Respects(X, S, R, F, ev, at, ev2, at2), Owned(ev, at),
           t.exclusive \cap (X \cup S) = {}, t.shared \cap X = {}, t.rows \cap R = {}, t.rows \cap F = {},
           Knows(t, ev, at)
    PROVE  Knows(t, ev2, at2)
  <1>1. KnowsTransition(t, ev, at) => KnowsTransition(t, ev2, at2)
    BY TransitionKept
  <1>2. KnowsRefresh(t, ev, at) => KnowsRefresh(t, ev2, at2)
    BY RefreshKept
  <1>3. KnowsResult(t, ev, at) => KnowsResult(t, ev2, at2)
    BY ResultKept
  <1>4. KnowsRequeue(t, ev, at) => KnowsRequeue(t, ev2, at2)
    BY RequeueKept
  <1> QED
    BY <1>1, <1>2, <1>3, <1>4 DEF Knows
-----------------------------------------------------------------------------
(***************************************************************************)
(* The statements of a transaction.                                        *)
(***************************************************************************)

\* Session s goes on to t, with locks that it can have.
Proceeds(s) ==
    \E t : /\ Go(s, t) /\ Knows(t, events, attempts)
           /\ \A o \in Others(s) : Compatible(t, tx[o])

LEMMA NoTxHolds == NoTx.pc = "idle" /\ NoTx.exclusive = {} /\ NoTx.shared = {} /\ NoTx.rows = {}
  BY DEF NoTx

LEMMA EndProceeds ==
    ASSUME NEW s, End(s)
    PROVE  Proceeds(s)
  BY NoTxHolds DEF End, Proceeds, Knows, Compatible

\* A statement that takes no lock.
LEMMA LocksKept ==
    ASSUME LocksInv, NEW s \in Sessions, NEW t,
           t.exclusive = tx[s].exclusive, t.shared = tx[s].shared, t.rows = tx[s].rows
    PROVE  \A o \in Others(s) : Compatible(t, tx[o])
  BY DEF LocksInv, Others, Compatible

\* A share lock on one more event.
LEMMA LocksShared ==
    ASSUME LocksInv, NEW s \in Sessions, NEW t, NEW e, CanShare(s, e),
           t.exclusive = {}, t.shared = tx[s].shared \cup {e}, t.rows = tx[s].rows
    PROVE  \A o \in Others(s) : Compatible(t, tx[o])
  <1> SUFFICES ASSUME NEW o \in Others(s) PROVE Compatible(t, tx[o])
    OBVIOUS
  <1>1. Compatible(tx[s], tx[o])
    BY DEF LocksInv, Others
  <1>2. e \notin tx[o].exclusive
    BY DEF CanShare
  <1> QED
    BY <1>1, <1>2 DEF Compatible

LEMMA RowsAreNumbers ==
    ASSUME LocksInv
    PROVE  DOMAIN attempts \subseteq Nat
  <1>1. DOMAIN attempts \subseteq 1 .. lastId
    BY DEF LocksInv, QueueInv, StoreTypeOK
  <1> QED
    BY <1>1

LEMMA BeginProceeds ==
    ASSUME LocksInv, NEW s \in Sessions, NEW pc, NEW asked, Begin(s, pc, asked),
           Knows(At(NoTx, pc, asked), events, attempts),
           DOMAIN asked \cap {"pc", "exclusive", "shared", "rows"} = {}
    PROVE  Proceeds(s)
  <1> DEFINE u == At(NoTx, pc, asked)
  <1>1. u.exclusive = {} /\ u.shared = {} /\ u.rows = {}
    BY DEF At, Insert, NoTx
  <1>2. Go(s, u) /\ Knows(u, events, attempts)
    BY DEF Begin
  <1> HIDE DEF u
  <1>3. \A o \in Others(s) : Compatible(u, tx[o])
    BY <1>1 DEF Compatible
  <1> QED
    BY <1>2, <1>3 DEF Proceeds

LEMMA BeginTransitionProceeds ==
    ASSUME LocksInv, NEW s \in Sessions, BeginTransition(s)
    PROVE  Proceeds(s)
  <1>a. PICK e \in DOMAIN events : \E to \in Targets(e) :
            Begin(s, "update state", [event |-> e, from |-> events[e].state, to |-> to])
    BY DEF BeginTransition
  <1>1. PICK to \in Targets(e) :
            Begin(s, "update state", [event |-> e, from |-> events[e].state, to |-> to])
    BY <1>a
  <1> DEFINE asked == [event |-> e, from |-> events[e].state, to |-> to]
             u == At(NoTx, "update state", asked)
  <1>2. /\ DOMAIN asked = {"event", "from", "to"}
        /\ asked["event"] = e /\ asked["from"] = events[e].state /\ asked["to"] = to
    OBVIOUS
  <1>3. /\ Has(u, {"event", "from", "to"}) /\ u.pc = "update state"
        /\ u.exclusive = {} /\ u.shared = {} /\ u.rows = {}
        /\ u.event = e /\ u.from = events[e].state /\ u.to = to
    BY DEF At, Insert, NoTx, Has
  <1> HIDE DEF u
  <1>4. KnowsTransition(u, events, attempts)
    BY <1>3 DEF KnowsTransition, Targets
  <1>5. Knows(u, events, attempts)
    BY <1>3, <1>4 DEF Knows
  <1> HIDE DEF asked
  <1> QED
    BY <1>1, <1>2, <1>5, BeginProceeds DEF asked, u

LEMMA BeginRefreshProceeds ==
    ASSUME LocksInv, NEW s \in Sessions, BeginRefresh(s)
    PROVE  Proceeds(s)
  <1>1. PICK e \in DOMAIN events, severity \in Severities : \E alerts \in AlertsOnRise(e, severity) :
            /\ events[e].key # NoKey
            /\ Begin(s, "select", [event |-> e, severity |-> severity, alerts |-> alerts])
    BY DEF BeginRefresh
  <1>2. PICK alerts \in AlertsOnRise(e, severity) :
            /\ events[e].key # NoKey
            /\ Begin(s, "select", [event |-> e, severity |-> severity, alerts |-> alerts])
    BY <1>1
  <1> DEFINE asked == [event |-> e, severity |-> severity, alerts |-> alerts]
             u == At(NoTx, "select", asked)
  <1>3. /\ DOMAIN asked = {"event", "severity", "alerts"}
        /\ asked["event"] = e /\ asked["severity"] = severity /\ asked["alerts"] = alerts
    OBVIOUS
  <1>4. /\ Has(u, {"event", "severity", "alerts"}) /\ u.pc = "select"
        /\ u.exclusive = {} /\ u.shared = {} /\ u.rows = {}
        /\ u.event = e /\ u.severity = severity /\ u.alerts = alerts
    BY DEF At, Insert, NoTx, Has
  <1>5. alerts # <<>> => events[e].type = "incident" /\ alerts = Route["incident"][severity]
    BY DEF AlertsOnRise
  <1> HIDE DEF u
  <1>6. Knows(u, events, attempts)
    BY <1>2, <1>4, <1>5 DEF Knows, KnowsRefresh
  <1> HIDE DEF asked
  <1> QED
    BY <1>2, <1>3, <1>6, BeginProceeds DEF asked, u

LEMMA BeginMarkProceeds ==
    ASSUME LocksInv, NEW s \in Sessions, BeginMark(s)
    PROVE  Proceeds(s)
  <1>1. ASSUME NEW a \in DOMAIN attempts, NEW n \in 0 .. MaxAttempts - 1,
               NEW count, NEW result, NEW retry, NEW fallback,
               AskedOf([count |-> count, result |-> result, retry |-> retry, fallback |-> fallback], n, attempts[a]),
               Begin(s, "muted?", [row |-> a, count |-> count, result |-> result, retry |-> retry, fallback |-> fallback])
        PROVE  Proceeds(s)
    <2> DEFINE asked == [row |-> a, count |-> count, result |-> result, retry |-> retry, fallback |-> fallback]
               u == At(NoTx, "muted?", asked)
    <2>1. /\ DOMAIN asked = {"row", "count", "result", "retry", "fallback"}
          /\ asked["row"] = a /\ asked["count"] = count /\ asked["result"] = result
          /\ asked["retry"] = retry /\ asked["fallback"] = fallback
      OBVIOUS
    <2>2. /\ Has(u, {"row", "count", "result", "retry", "fallback"}) /\ u.pc = "muted?"
          /\ u.exclusive = {} /\ u.shared = {} /\ u.rows = {}
          /\ u.row = a /\ u.count = count /\ u.result = result /\ u.retry = retry /\ u.fallback = fallback
      BY DEF At, Insert, NoTx, Has
    <2> HIDE DEF u
    <2>3. AskedOf(u, n, attempts[a])
      BY <1>1, <2>2 DEF AskedOf
    <2>4. Knows(u, events, attempts)
      BY <2>2, <2>3 DEF Knows, KnowsResult
    <2> HIDE DEF asked
    <2> QED
      BY <1>1, <2>1, <2>4, BeginProceeds DEF asked, u
  <1>2. PICK a \in DOMAIN attempts :
        /\ Sending(a)
        /\ \/ LET last == attempts[a].attempts + 1 >= MaxAttempts
              IN Begin(s, "muted?", [row |-> a, count |-> attempts[a].attempts + 1,
                           result   |-> IF last THEN "dead_letter" ELSE "failed",
                           retry    |-> IF last THEN "null" ELSE "later",
                           fallback |-> IF last THEN FallbackFor(a) ELSE NoChannel])
           \/ Begin(s, "muted?", [row |-> a, count |-> attempts[a].attempts,
                        result |-> "pending", retry |-> attempts[a].nextRetry, fallback |-> NoChannel])
    BY DEF BeginMark
  <1> DEFINE n == attempts[a].attempts
  <1>3. n \in 0 .. MaxAttempts - 1 /\ attempts[a].nextRetry \in {"null", "due"}
    <2>1. attempts[a] \in Attempt /\ attempts[a].state = "sending"
      BY <1>2 DEF LocksInv, QueueInv, StoreTypeOK, Sending
    <2>2. n \in Nat /\ n < MaxAttempts
      BY <2>1 DEF LocksInv, QueueInv, BudgetKept, Attempt
    <2>3. attempts[a].nextRetry \in {"null", "due"}
      BY <2>1 DEF LocksInv, SendingDue, Attempt, RetryTimes
    <2> QED
      BY <2>2, <2>3, BoundsAssumption
  <1>4. CASE Begin(s, "muted?", [row |-> a, count |-> n, result |-> "pending",
                                 retry |-> attempts[a].nextRetry, fallback |-> NoChannel])
    <2>1. AskedOf([count |-> n, result |-> "pending", retry |-> attempts[a].nextRetry,
                   fallback |-> NoChannel], n, attempts[a])
      BY <1>3 DEF AskedOf
    <2> QED
      BY <1>1, <1>3, <1>4, <2>1
  <1>5. CASE n + 1 >= MaxAttempts /\ Begin(s, "muted?", [row |-> a, count |-> n + 1, result |-> "dead_letter",
                                 retry |-> "null", fallback |-> FallbackFor(a)])
    <2>1. AskedOf([count |-> n + 1, result |-> "dead_letter", retry |-> "null",
                   fallback |-> FallbackFor(a)], n, attempts[a])
      BY <1>5 DEF AskedOf, FallbackFor
    <2> QED
      BY <1>1, <1>3, <1>5, <2>1
  <1>6. CASE ~(n + 1 >= MaxAttempts) /\ Begin(s, "muted?", [row |-> a, count |-> n + 1, result |-> "failed",
                                 retry |-> "later", fallback |-> NoChannel])
    <2>1. n + 1 < MaxAttempts
      BY <1>3, <1>6, BoundsAssumption
    <2>2. AskedOf([count |-> n + 1, result |-> "failed", retry |-> "later",
                   fallback |-> NoChannel], n, attempts[a])
      BY <2>1 DEF AskedOf
    <2> QED
      BY <1>1, <1>3, <1>6, <2>2
  <1> QED
    BY <1>2, <1>4, <1>5, <1>6

LEMMA BeginRequeueProceeds ==
    ASSUME LocksInv, NEW s \in Sessions, BeginRequeue(s)
    PROVE  Proceeds(s)
  <1>1. PICK stale \in ANonEmptySubset({a \in DOMAIN attempts : Sending(a)}) :
            Begin(s, "requeue", [todo |-> stale, cancel |-> {}])
    BY DEF BeginRequeue
  <1> DEFINE asked == [todo |-> stale, cancel |-> {}]
             u == At(NoTx, "requeue", asked)
  <1>2. DOMAIN asked = {"todo", "cancel"} /\ asked["todo"] = stale /\ asked["cancel"] = {}
    OBVIOUS
  <1>3. /\ Has(u, {"todo", "cancel"}) /\ u.pc = "requeue"
        /\ u.exclusive = {} /\ u.shared = {} /\ u.rows = {} /\ u.todo = stale /\ u.cancel = {}
    BY DEF At, Insert, NoTx, Has
  <1> HIDE DEF u
  <1>4. Knows(u, events, attempts)
    BY <1>1, <1>3 DEF Knows, KnowsRequeue, ANonEmptySubset
  <1> HIDE DEF asked
  <1> QED
    BY <1>1, <1>2, <1>4, BeginProceeds DEF asked, u

LEMMA UpdateStateProceeds ==
    ASSUME LocksInv, NEW s \in Sessions, UpdateState(s)
    PROVE  Proceeds(s)
  <1> DEFINE t == tx[s]
             u == [t EXCEPT !.exclusive = {t.event}, !.pc = "close"]
  <1>1. t.pc = "update state" /\ KnowsTransition(t, events, attempts)
    BY NoTxHolds DEF UpdateState, LocksInv, Knows
  <1>2. CASE End(s)
    BY <1>2, EndProceeds
  <1>3. CASE events[t.event].state = t.from /\ CanExclude(s, t.event) /\ Go(s, u)
    <2>1. /\ Has(u, {"event", "from", "to"}) /\ u.pc = "close"
          /\ u.exclusive = {t.event} /\ u.shared = {} /\ u.rows = {}
          /\ u.event = t.event /\ u.from = t.from /\ u.to = t.to
      BY <1>1 DEF Has, KnowsTransition
    <2>2. Go(s, u)
      BY <1>3
    <2> HIDE DEF u
    <2>3. KnowsTransition(u, events, attempts)
      BY <1>1, <1>3, <2>1 DEF KnowsTransition
    <2>4. \A o \in Others(s) : Compatible(u, tx[o])
      BY <1>3, <2>1 DEF CanExclude, Compatible
    <2> QED
      BY <2>1, <2>2, <2>3, <2>4 DEF Proceeds, Knows
  <1> QED
    BY <1>2, <1>3 DEF UpdateState

LEMMA CancelSnapshotProceeds ==
    ASSUME LocksInv, NEW s \in Sessions, CancelSnapshot(s)
    PROVE  Proceeds(s)
  <1> DEFINE t == tx[s]
             u == At(t, "cancel", [todo |-> QueuedIn(attempts, t.event)])
  <1>1. t.pc = "close" /\ t.to = "muted" /\ KnowsTransition(t, events, attempts)
    BY NoTxHolds DEF CancelSnapshot, LocksInv, Knows
  <1>2. QueuedIn(attempts, t.event) = {a \in AlertsOf(t.event) : attempts[a].state \in {"pending", "failed"}}
    BY DEF QueuedIn, AlertsIn, AlertsOf
  <1>3. Go(s, u)
    BY <1>2 DEF CancelSnapshot
  <1>4. Has(t, {"event", "from", "to"}) /\ t.exclusive = {t.event} /\ t.shared = {} /\ t.rows = {}
    BY <1>1 DEF KnowsTransition
  <1>5. /\ Has(u, {"event", "from", "to", "todo"}) /\ u.pc = "cancel" /\ u.todo = QueuedIn(attempts, t.event)
        /\ u.exclusive = t.exclusive /\ u.shared = t.shared /\ u.rows = t.rows
        /\ u.event = t.event /\ u.from = t.from /\ u.to = t.to
    <2> HIDE DEF t
    <2> QED
      BY <1>4 DEF At, Insert, Has
  <1> HIDE DEF u
  <1>6. KnowsTransition(u, events, attempts)
    <2>1. QueuedIn(attempts, u.event) \subseteq AlertsIn(attempts, u.event)
      BY DEF QueuedIn
    <2>2. Has(u, {"event", "from", "to"}) /\ Has(u, {"todo"})
      BY <1>5 DEF Has
    <2> QED
      BY <1>1, <1>4, <1>5, <2>1, <2>2 DEF KnowsTransition
  <1> QED
    BY <1>3, <1>5, <1>6, LocksKept DEF Proceeds, Knows

LEMMA CancelRowProceeds ==
    ASSUME LocksInv, NEW s \in Sessions, CancelRow(s)
    PROVE  Proceeds(s)
  <1> DEFINE t == tx[s]
  <1>1. PICK a \in t.todo :
            /\ RowFree(s, a)
            /\ Go(s, [t EXCEPT !.todo = @ \ {a},
                        !.rows = @ \cup {x \in {a} : attempts[x].state \in {"pending", "failed"}}])
    BY DEF CancelRow
  <1> DEFINE took == {x \in {a} : attempts[x].state \in {"pending", "failed"}}
             u == [t EXCEPT !.todo = @ \ {a}, !.rows = @ \cup took]
  <1>2. t.pc = "cancel" /\ KnowsTransition(t, events, attempts)
    BY NoTxHolds DEF CancelRow, LocksInv, Knows
  <1>3. Has(t, {"event", "from", "to"}) /\ Has(t, {"todo"}) /\ t.exclusive = {t.event} /\ t.shared = {}
    BY <1>2 DEF KnowsTransition
  <1>4. Go(s, u)
    BY <1>1
  <1>5. /\ Has(u, {"event", "from", "to"}) /\ Has(u, {"todo"})
        /\ u.pc = "cancel" /\ u.todo = t.todo \ {a}
        /\ u.exclusive = t.exclusive /\ u.shared = t.shared /\ u.rows = t.rows \cup took
        /\ u.event = t.event /\ u.from = t.from /\ u.to = t.to
    <2> HIDE DEF t, took
    <2> QED
      BY <1>2, <1>3 DEF Has
  <1>6. took \subseteq {a} /\ took \subseteq QueuedIn(attempts, t.event)
    BY <1>2 DEF KnowsTransition, QueuedIn
  <1>7. a \in QueuedIn(attempts, t.event) => a \in took
    BY DEF QueuedIn
  <1> HIDE DEF u, took
  <1>8. KnowsTransition(u, events, attempts)
    BY <1>2, <1>3, <1>5, <1>6, <1>7 DEF KnowsTransition
  <1>9. \A o \in Others(s) : Compatible(u, tx[o])
    BY <1>1, <1>5, <1>6 DEF LocksInv, Compatible, Others, RowFree
  <1> QED
    BY <1>4, <1>5, <1>8, <1>9 DEF Proceeds, Knows

LEMMA ReadAlertsProceeds ==
    ASSUME LocksInv, NEW s \in Sessions, ReadAlerts(s)
    PROVE  Proceeds(s)
  <1> DEFINE t == tx[s]
             owed == IF t.to = "resolved" /\ NotifiesOnClose(events[t.event].type, t.from)
                       THEN {a \in AlertsIn(attempts, t.event) : attempts[a].state # "cancelled"} ELSE {}
             u == At(t, "commit close", [recover |-> owed])
  <1>1. t.pc = "close" /\ t.to # "muted" /\ KnowsTransition(t, events, attempts)
    BY NoTxHolds DEF ReadAlerts, LocksInv, Knows
  <1>2. AlertsToRecover(t.event) = {a \in AlertsIn(attempts, t.event) : attempts[a].state # "cancelled"}
    BY DEF AlertsIn, AlertsOf, AlertsToRecover
  <1>3. Go(s, u)
    BY <1>2 DEF ReadAlerts
  <1>4. Has(t, {"event", "from", "to"}) /\ t.exclusive = {t.event} /\ t.shared = {} /\ t.rows = {}
    BY <1>1 DEF KnowsTransition
  <1>5. /\ Has(u, {"event", "from", "to"}) /\ Has(u, {"recover"}) /\ u.pc = "commit close" /\ u.recover = owed
        /\ u.exclusive = t.exclusive /\ u.shared = t.shared /\ u.rows = t.rows
        /\ u.event = t.event /\ u.from = t.from /\ u.to = t.to
    <2> HIDE DEF t, owed
    <2> QED
      BY <1>4 DEF At, Insert, Has
  <1> HIDE DEF u
  <1>6. KnowsTransition(u, events, attempts)
    BY <1>1, <1>4, <1>5 DEF KnowsTransition
  <1> QED
    BY <1>3, <1>5, <1>6, LocksKept DEF Proceeds, Knows

LEMMA SelectProceeds ==
    ASSUME LocksInv, NEW s \in Sessions, SelectForUpdate(s)
    PROVE  Proceeds(s)
  <1> DEFINE t == tx[s]
             u == At([t EXCEPT !.exclusive = {t.event}], "update severity", [rises |-> Rises(t)])
  <1>1. t.pc = "select" /\ KnowsRefresh(t, events, attempts)
    BY NoTxHolds DEF SelectForUpdate, LocksInv, Knows
  <1>2. CASE End(s)
    BY <1>2, EndProceeds
  <1>3. CASE t.event \in OpenEvents /\ CanExclude(s, t.event) /\ Go(s, u)
    <2>1. Has(t, {"event", "severity", "alerts"}) /\ t.shared = {} /\ t.rows = {}
      BY <1>1 DEF KnowsRefresh
    <2>2. /\ Has(u, {"event", "severity", "alerts"}) /\ Has(u, {"rises"}) /\ u.pc = "update severity"
          /\ u.exclusive = {t.event} /\ u.shared = {} /\ u.rows = {}
          /\ u.event = t.event /\ u.severity = t.severity /\ u.alerts = t.alerts /\ u.rises = Rises(t)
      <3> DEFINE rises == Rises(t)
      <3> HIDE DEF t, rises
      <3> QED
        BY <2>1 DEF At, Insert, Has, rises
    <2>3. Go(s, u)
      BY <1>3
    <2> HIDE DEF u
    <2>4. KnowsRefresh(u, events, attempts)
      BY <1>1, <1>3, <2>2 DEF KnowsRefresh, Rises, OpenEvents
    <2>5. \A o \in Others(s) : Compatible(u, tx[o])
      BY <1>3, <2>2 DEF CanExclude, Compatible
    <2> QED
      BY <2>2, <2>3, <2>4, <2>5 DEF Proceeds, Knows
  <1> QED
    BY <1>2, <1>3 DEF SelectForUpdate

LEMMA UpdateSeverityProceeds ==
    ASSUME LocksInv, NEW s \in Sessions, UpdateSeverity(s)
    PROVE  Proceeds(s)
  <1> DEFINE t == tx[s]
             names == {attempts[a].channel : a \in AlertsIn(attempts, t.event)}
             u == At([t EXCEPT !.exclusive = {t.event}], "commit refresh", [alerted |-> names])
  <1>1. t.pc = "update severity" /\ KnowsRefresh(t, events, attempts)
    BY NoTxHolds DEF UpdateSeverity, LocksInv, Knows
  <1>2. AlertChannelNames(t.event) = names
    BY DEF AlertChannelNames, AlertsIn, AlertsOf
  <1>3. Go(s, u)
    BY <1>2 DEF UpdateSeverity
  <1>4. /\ Has(t, {"event", "severity", "alerts"}) /\ Has(t, {"rises"})
        /\ t.shared = {} /\ t.rows = {} /\ t.exclusive = {t.event}
    BY <1>1 DEF KnowsRefresh
  <1>5. /\ Has(u, {"event", "severity", "alerts"}) /\ Has(u, {"rises"}) /\ Has(u, {"alerted"})
        /\ u.pc = "commit refresh" /\ u.exclusive = {t.event} /\ u.shared = {} /\ u.rows = {}
        /\ u.event = t.event /\ u.severity = t.severity /\ u.alerts = t.alerts /\ u.rises = t.rises
        /\ u.alerted = names
    <2> HIDE DEF t, names
    <2> QED
      BY <1>4 DEF At, Insert, Has
  <1> HIDE DEF u
  <1>6. KnowsRefresh(u, events, attempts)
    BY <1>1, <1>5 DEF KnowsRefresh
  <1> QED
    BY <1>3, <1>4, <1>5, <1>6, LocksKept DEF Proceeds, Knows

LEMMA ReadMutedProceeds ==
    ASSUME LocksInv, NEW s \in Sessions, ReadMuted(s)
    PROVE  Proceeds(s)
  <1> DEFINE t == tx[s]
             e == attempts[t.row].event
             muted == MutedIn(events, attempts, t.row)
             u == At(t, "write", [muted |-> muted])
  <1>1. t.pc = "muted?" /\ KnowsResult(t, events, attempts)
    BY NoTxHolds DEF ReadMuted, LocksInv, Knows
  <1>2. CASE End(s)
    BY <1>2, EndProceeds
  <1>3. /\ Has(t, {"row", "count", "result", "retry", "fallback"})
        /\ t.exclusive = {} /\ t.shared = {} /\ t.rows = {}
    BY <1>1 DEF KnowsResult
  <1>4. /\ Has(u, {"row", "count", "result", "retry", "fallback"}) /\ Has(u, {"muted"})
        /\ u.pc = "write" /\ u.exclusive = {} /\ u.shared = {} /\ u.rows = {}
        /\ u.row = t.row /\ u.count = t.count /\ u.result = t.result /\ u.retry = t.retry
        /\ u.fallback = t.fallback /\ u.muted = muted
    <2> HIDE DEF t, muted
    <2> QED
      BY <1>3 DEF At, Insert, Has
  <1>5. muted = MutedAlert(t.row)
    BY DEF MutedIn, MutedAlert
  <1>6. CASE attempts[t.row].kind # "alert" /\ Go(s, At(t, "write", [muted |-> FALSE]))
    <2>1. muted = FALSE
      BY <1>6 DEF MutedIn
    <2>2. Go(s, u)
      BY <1>6, <2>1
    <2> HIDE DEF u, muted
    <2>3. KnowsResult(u, events, attempts)
      BY <1>1, <1>4, <1>6, <2>1 DEF KnowsResult, AskedOf, MutedIn
    <2> QED
      BY <1>3, <1>4, <2>2, <2>3, LocksKept DEF Proceeds, Knows
  <1>7. CASE attempts[t.row].kind = "alert" /\ ReadShared(s, e, At(t, "write", [muted |-> MutedAlert(t.row)]))
    <2> DEFINE v == [u EXCEPT !.shared = @ \cup {e}]
    <2>1. CanShare(s, e) /\ Go(s, v)
      BY <1>5, <1>7 DEF ReadShared
    <2> HIDE DEF u, muted
    <2>2. /\ Has(v, {"row", "count", "result", "retry", "fallback"}) /\ Has(v, {"muted"})
          /\ v.pc = "write" /\ v.exclusive = {} /\ v.shared = {e} /\ v.rows = {}
          /\ v.row = t.row /\ v.count = t.count /\ v.result = t.result /\ v.retry = t.retry
          /\ v.fallback = t.fallback /\ v.muted = muted
      BY <1>4 DEF Has
    <2> HIDE DEF v
    <2>3. KnowsResult(v, events, attempts)
      BY <1>1, <2>2 DEF KnowsResult, AskedOf, muted
    <2>4. \A o \in Others(s) : Compatible(v, tx[o])
      BY <2>1, <2>2 DEF CanShare, Compatible
    <2> QED
      BY <2>1, <2>2, <2>3, <2>4 DEF Proceeds, Knows
  <1> QED
    BY <1>2, <1>6, <1>7 DEF ReadMuted

LEMMA WriteResultProceeds ==
    ASSUME LocksInv, NEW s \in Sessions, WriteResult(s)
    PROVE  Proceeds(s)
  <1> DEFINE t == tx[s]
             redirect == Redirecting(t)
             pc == IF redirect THEN "copy" ELSE "commit result"
             u == At([t EXCEPT !.rows = {t.row}], pc, [copy |-> FALSE, late |-> FALSE])
  <1>1. t.pc = "write" /\ KnowsResult(t, events, attempts)
    BY NoTxHolds DEF WriteResult, LocksInv, Knows
  <1>2. CASE End(s)
    BY <1>2, EndProceeds
  <1>3. CASE Sending(t.row) /\ RowFree(s, t.row) /\ Go(s, u)
    <2>1. /\ Has(t, {"row", "count", "result", "retry", "fallback"}) /\ Has(t, {"muted"})
          /\ t.exclusive = {} /\ t.rows = {}
      BY <1>1 DEF KnowsResult
    <2>2. /\ Has(u, {"row", "count", "result", "retry", "fallback"}) /\ Has(u, {"muted"}) /\ Has(u, {"copy", "late"})
          /\ u.pc = pc /\ u.exclusive = {} /\ u.shared = t.shared /\ u.rows = {t.row}
          /\ u.row = t.row /\ u.count = t.count /\ u.result = t.result /\ u.retry = t.retry
          /\ u.fallback = t.fallback /\ u.muted = t.muted /\ u.copy = FALSE /\ u.late = FALSE
      <3> HIDE DEF t, pc
      <3> QED
        BY <2>1 DEF At, Insert, Has
    <2>3. Go(s, u)
      BY <1>3
    <2> HIDE DEF u
    <2>4. pc \in {"copy", "commit result"} /\ (pc = "copy" => Redirecting(t)) /\ (pc = "commit result" => ~Redirecting(t))
      OBVIOUS
    <2> HIDE DEF pc
    <2>5. Redirecting(u) = Redirecting(t)
      BY <2>2 DEF Redirecting
    <2>6. KnowsResult(u, events, attempts)
      BY <1>1, <1>3, <2>2, <2>4, <2>5, ZenonT(30) DEF KnowsResult, AskedOf, Sending
    <2>7. \A o \in Others(s) : Compatible(u, tx[o])
      BY <1>3, <2>1, <2>2 DEF LocksInv, Compatible, Others, RowFree
    <2> QED
      BY <2>2, <2>3, <2>4, <2>6, <2>7 DEF Proceeds, Knows
  <1> QED
    BY <1>2, <1>3 DEF WriteResult, Redirecting

LEMMA InsertCopyProceeds ==
    ASSUME LocksInv, NEW s \in Sessions, InsertCopy(s)
    PROVE  Proceeds(s)
  <1> DEFINE t == tx[s]
             Copied == CopiedIn(attempts, t.row)
  <1>1. t.pc = "copy" /\ KnowsResult(t, events, attempts)
    BY NoTxHolds DEF InsertCopy, LocksInv, Knows
  <1>2. /\ Has(t, {"row", "count", "result", "retry", "fallback"}) /\ Has(t, {"muted"}) /\ Has(t, {"copy", "late"})
        /\ t.exclusive = {} /\ t.rows = {t.row} /\ t.copy = FALSE /\ Redirecting(t)
    BY <1>1 DEF KnowsResult
  <1>3. Redirected(t.row) = Copied
    BY DEF Redirected, CopiedIn
  <1>4. ASSUME NEW u, Go(s, u), u.pc \in {"commit result", "resolved?"},
               Has(u, {"row", "count", "result", "retry", "fallback"}), Has(u, {"muted"}), Has(u, {"copy", "late"}),
               u.exclusive = t.exclusive, u.shared = t.shared, u.rows = t.rows,
               u.row = t.row, u.count = t.count, u.result = t.result, u.retry = t.retry,
               u.fallback = t.fallback, u.muted = t.muted,
               u.pc = "commit result" => Copied /\ u.copy = FALSE,
               u.pc = "resolved?" => ~Copied /\ u.copy = TRUE
        PROVE  Proceeds(s)
    <2>1. Redirecting(u)
      BY <1>2, <1>4 DEF Redirecting
    <2>2. KnowsResult(u, events, attempts)
      BY <1>1, <1>2, <1>4, <2>1, ZenonT(30) DEF KnowsResult, AskedOf
    <2> QED
      BY <1>4, <2>2, LocksKept DEF Proceeds, Knows
  <1>5. CASE Redirected(t.row) /\ Go(s, [t EXCEPT !.pc = "commit result"])
    <2> HIDE DEF t
    <2> QED
      BY <1>2, <1>3, <1>4, <1>5 DEF Has
  <1>6. CASE ~Redirected(t.row) /\ Go(s, [t EXCEPT !.copy = TRUE, !.pc = "resolved?"])
    <2> HIDE DEF t
    <2> QED
      BY <1>2, <1>3, <1>4, <1>6 DEF Has
  <1> QED
    BY <1>5, <1>6 DEF InsertCopy

LEMMA ReadResolvedProceeds ==
    ASSUME LocksInv, NEW s \in Sessions, ReadResolved(s)
    PROVE  Proceeds(s)
  <1> DEFINE t == tx[s]
             e == attempts[t.row].event
             late == events[e].state = "resolved" /\ RecoveriesIn(attempts, e) # {}
             u == [t EXCEPT !.pc = "commit result", !.late = late, !.shared = @ \cup {e}]
  <1>1. t.pc = "resolved?" /\ KnowsResult(t, events, attempts)
    BY NoTxHolds DEF ReadResolved, LocksInv, Knows
  <1>2. /\ Has(t, {"row", "count", "result", "retry", "fallback"}) /\ Has(t, {"muted"}) /\ Has(t, {"copy", "late"})
        /\ t.exclusive = {} /\ t.copy = TRUE /\ Redirecting(t)
    BY <1>1 DEF KnowsResult
  <1>3. CanShare(s, e) /\ Go(s, u)
    <2>1. RecoveriesOf(e) = RecoveriesIn(attempts, e)
      BY DEF RecoveriesOf, RecoveriesIn
    <2>2. CanShare(s, e) /\ Go(s, [[t EXCEPT !.pc = "commit result", !.late = late] EXCEPT !.shared = @ \cup {e}])
      BY <2>1 DEF ReadResolved, ReadShared
    <2>3. [[t EXCEPT !.pc = "commit result", !.late = late] EXCEPT !.shared = @ \cup {e}] = u
      <3> HIDE DEF t, late, e
      <3> QED
        BY <1>2 DEF Has
    <2> QED
      BY <2>2, <2>3
  <1>4. /\ Has(u, {"row", "count", "result", "retry", "fallback"}) /\ Has(u, {"muted"}) /\ Has(u, {"copy", "late"})
        /\ u.pc = "commit result" /\ u.exclusive = t.exclusive /\ u.shared = t.shared \cup {e} /\ u.rows = t.rows
        /\ u.row = t.row /\ u.count = t.count /\ u.result = t.result /\ u.retry = t.retry
        /\ u.fallback = t.fallback /\ u.muted = t.muted /\ u.copy = t.copy /\ u.late = late
    <2> HIDE DEF t, late, e
    <2> QED
      BY <1>2 DEF Has
  <1> HIDE DEF u
  <1>6. \A o \in Others(s) : Compatible(u, tx[o])
    BY <1>2, <1>3, <1>4, LocksShared
  <1>5. Redirecting(u)
    BY <1>2, <1>4 DEF Redirecting
  <1>7. KnowsResult(u, events, attempts)
    <2>1. ~CopiedIn(attempts, u.row)
      BY <1>1, <1>4 DEF KnowsResult
    <2>2. u.copy = (Redirecting(u) /\ ~CopiedIn(attempts, u.row))
      BY <1>2, <1>4, <1>5, <2>1
    <2>3. u.late = ( /\ events[attempts[u.row].event].state = "resolved"
                     /\ RecoveriesIn(attempts, attempts[u.row].event) # {} )
      BY <1>4
    <2>4. \E n \in 0 .. MaxAttempts - 1 : AskedOf(u, n, attempts[u.row])
      BY <1>1, <1>4, ZenonT(30) DEF KnowsResult, AskedOf
    <2>5. /\ u.row \in DOMAIN attempts /\ u.rows = {u.row} /\ attempts[u.row].state = "sending"
          /\ u.muted = MutedIn(events, attempts, u.row)
          /\ attempts[u.row].kind = "alert" => attempts[u.row].event \in u.shared
      BY <1>1, <1>4 DEF KnowsResult
    <2> QED
      BY <1>2, <1>4, <2>2, <2>3, <2>4, <2>5 DEF KnowsResult
  <1> QED
    BY <1>3, <1>4, <1>6, <1>7 DEF Proceeds, Knows

LEMMA RequeueRowProceeds ==
    ASSUME LocksInv, NEW s \in Sessions, RequeueRow(s)
    PROVE  Proceeds(s)
  <1> DEFINE t == tx[s]
             a == t.row
  <1>1. t.pc = "requeue row" /\ KnowsRequeue(t, events, attempts)
    BY NoTxHolds DEF RequeueRow, LocksInv, Knows
  <1>2. /\ Has(t, {"todo", "cancel"}) /\ Has(t, {"row"}) /\ t.exclusive = {}
        /\ a \in DOMAIN attempts /\ a \in t.todo /\ \A b \in t.todo : a <= b
    BY <1>1 DEF KnowsRequeue
  <1>3. t.todo \subseteq Nat
    BY <1>1, RowsAreNumbers DEF KnowsRequeue
  <1>4. \A b \in t.todo \ {a} : a < b
    BY <1>2, <1>3
  <1>5. ASSUME NEW u, Go(s, u), u.pc = "requeue", Has(u, {"todo", "cancel"}),
               u.todo = t.todo \ {a}, u.cancel = t.cancel, u.exclusive = t.exclusive, u.shared = t.shared,
               \/ u.rows = t.rows
               \/ u.rows = t.rows \cup {a} /\ Sending(a) /\ RowFree(s, a)
        PROVE  Proceeds(s)
    <2>1. KnowsRequeue(u, events, attempts)
      <3>1. u.rows \subseteq {x \in DOMAIN attempts : attempts[x].state = "sending"}
        BY <1>1, <1>5 DEF KnowsRequeue, Sending
      <3>2. \A x \in u.rows, b \in u.todo : x < b
        BY <1>1, <1>4, <1>5 DEF KnowsRequeue
      <3>3. \A x \in u.rows : /\ attempts[x].kind = "alert" => attempts[x].event \in u.shared
                              /\ (x \in u.cancel) = MutedIn(events, attempts, x)
        BY <1>1, <1>5 DEF KnowsRequeue
      <3> QED
        BY <1>1, <1>2, <1>5, <3>1, <3>2, <3>3 DEF KnowsRequeue
    <2>2. \A o \in Others(s) : Compatible(u, tx[o])
      BY <1>5 DEF LocksInv, Compatible, Others, RowFree
    <2> QED
      BY <1>5, <2>1, <2>2 DEF Proceeds, Knows
  <1>6. CASE /\ Sending(a) /\ RowFree(s, a)
             /\ Go(s, [t EXCEPT !.pc = "requeue", !.todo = @ \ {a}, !.rows = @ \cup {a}])
    <2> DEFINE u == [t EXCEPT !.pc = "requeue", !.todo = @ \ {a}, !.rows = @ \cup {a}]
    <2>1. /\ u.pc = "requeue" /\ Has(u, {"todo", "cancel"})
          /\ u.todo = t.todo \ {a} /\ u.cancel = t.cancel /\ u.exclusive = t.exclusive
          /\ u.shared = t.shared /\ u.rows = t.rows \cup {a}
      <3> HIDE DEF t, a
      <3> QED
        BY <1>2 DEF Has
    <2>2. Go(s, u)
      BY <1>6
    <2> HIDE DEF u
    <2> QED
      BY <1>5, <1>6, <2>1, <2>2
  <1>7. CASE ~Sending(a) /\ Go(s, [t EXCEPT !.pc = "requeue", !.todo = @ \ {a}])
    <2> DEFINE u == [t EXCEPT !.pc = "requeue", !.todo = @ \ {a}]
    <2>1. /\ u.pc = "requeue" /\ Has(u, {"todo", "cancel"})
          /\ u.todo = t.todo \ {a} /\ u.cancel = t.cancel /\ u.exclusive = t.exclusive
          /\ u.shared = t.shared /\ u.rows = t.rows
      <3> HIDE DEF t, a
      <3> QED
        BY <1>2 DEF Has
    <2>2. Go(s, u)
      BY <1>7
    <2> HIDE DEF u
    <2> QED
      BY <1>5, <2>1, <2>2
  <1> QED
    BY <1>6, <1>7 DEF RequeueRow

LEMMA RequeueReadProceeds ==
    ASSUME LocksInv, NEW s \in Sessions, RequeueRead(s)
    PROVE  Proceeds(s)
  <1> DEFINE t == tx[s]
  <1>1. t.pc = "requeue" /\ KnowsRequeue(t, events, attempts)
    BY NoTxHolds DEF RequeueRead, LocksInv, Knows
  <1>2. Has(t, {"todo", "cancel"}) /\ t.exclusive = {} /\ t.cancel \cap t.todo = {}
    BY <1>1 DEF KnowsRequeue
  <1>3. PICK a \in {x \in t.todo : \A y \in t.todo : x <= y} :
            \/ ~Sending(a) /\ Go(s, [t EXCEPT !.todo = @ \ {a}])
            \/ /\ Sending(a) /\ attempts[a].kind # "alert"
               /\ Go(s, At(t, "requeue row", [row |-> a]))
            \/ /\ Sending(a) /\ attempts[a].kind = "alert"
               /\ ReadShared(s, attempts[a].event, At(t, "requeue row",
                    [row |-> a, cancel |-> t.cancel \cup {x \in {a} : MutedAlert(x)}]))
    BY DEF RequeueRead
  <1>4. a \in t.todo /\ a \in DOMAIN attempts /\ \A b \in t.todo : a <= b
    BY <1>1, <1>3 DEF KnowsRequeue
  <1>5. CASE Go(s, [t EXCEPT !.todo = @ \ {a}])
    <2> DEFINE u == [t EXCEPT !.todo = @ \ {a}]
    <2>1. /\ u.pc = "requeue" /\ Has(u, {"todo", "cancel"})
          /\ u.todo = t.todo \ {a} /\ u.cancel = t.cancel /\ u.exclusive = t.exclusive
          /\ u.shared = t.shared /\ u.rows = t.rows
      <3> HIDE DEF t
      <3> QED
        BY <1>1, <1>2 DEF Has
    <2>2. Go(s, u)
      BY <1>5
    <2> HIDE DEF u
    <2>3. KnowsRequeue(u, events, attempts)
      BY <1>1, <2>1 DEF KnowsRequeue
    <2> QED
      BY <2>1, <2>2, <2>3, LocksKept DEF Proceeds, Knows
  \* With the row read, and more events shared.
  <1>6. ASSUME NEW u, NEW more, NEW cancelled \in SUBSET {a}, Go(s, u), u.pc = "requeue row",
               Has(u, {"todo", "cancel"}), Has(u, {"row"}), u.row = a,
               u.todo = t.todo, u.cancel = t.cancel \cup cancelled, u.exclusive = t.exclusive,
               u.shared = t.shared \cup more, u.rows = t.rows,
               attempts[a].kind = "alert" => attempts[a].event \in more,
               (a \in cancelled) = MutedIn(events, attempts, a)
        PROVE  KnowsRequeue(u, events, attempts)
    <2>1. a \notin t.cancel /\ a \notin t.rows
      <3>1. a \in Nat
        BY <1>4, RowsAreNumbers
      <3>2. \A x \in t.rows, b \in t.todo : x < b
        BY <1>1 DEF KnowsRequeue
      <3> QED
        BY <1>2, <1>4, <3>1, <3>2
    <2>2. ASSUME NEW x \in u.rows
          PROVE  /\ attempts[x].kind = "alert" => attempts[x].event \in u.shared
                 /\ (x \in u.cancel) = MutedIn(events, attempts, x)
      <3>1. x \in t.rows /\ x # a
        BY <1>6, <2>1
      <3>3. u.cancel = t.cancel \cup cancelled /\ x \notin cancelled
        BY <1>6, <3>1
      <3>2. (x \in u.cancel) = (x \in t.cancel)
        BY <3>3
      <3> QED
        BY <1>1, <1>6, <3>1, <3>2 DEF KnowsRequeue
    <2>3. (a \in u.cancel) = MutedIn(events, attempts, a)
      <3>2. u.cancel = t.cancel \cup cancelled
        BY <1>6
      <3>1. (a \in u.cancel) = (a \in cancelled)
        BY <2>1, <3>2
      <3> QED
        BY <1>6, <3>1
    <2>4. u.cancel \cap u.todo \subseteq {a}
      BY <1>2, <1>6
    <2> QED
      BY <1>1, <1>4, <1>6, <2>2, <2>3, <2>4 DEF KnowsRequeue
  <1>7. CASE attempts[a].kind # "alert" /\ Go(s, At(t, "requeue row", [row |-> a]))
    <2> DEFINE u == At(t, "requeue row", [row |-> a])
               cancelled == {x \in {a} : MutedAlert(x)}
    <2>1. /\ u.pc = "requeue row" /\ Has(u, {"todo", "cancel"}) /\ Has(u, {"row"}) /\ u.row = a
          /\ u.todo = t.todo /\ u.cancel = t.cancel /\ u.exclusive = t.exclusive
          /\ u.shared = t.shared /\ u.rows = t.rows
      <3> HIDE DEF t
      <3> QED
        BY <1>2 DEF At, Insert, Has
    <2>2. Go(s, u)
      BY <1>7
    <2>3. cancelled = {}
      BY <1>7 DEF MutedAlert
    <2>5. (a \in cancelled) = MutedIn(events, attempts, a)
      BY DEF MutedIn, MutedAlert
    <2> HIDE DEF u, cancelled
    <2>6. u.cancel = t.cancel \cup cancelled /\ u.shared = t.shared \cup cancelled
      BY <2>1, <2>3
    <2>4. KnowsRequeue(u, events, attempts)
      BY <1>6, <1>7, <2>1, <2>2, <2>3, <2>5, <2>6
    <2> QED
      BY <2>1, <2>2, <2>4, LocksKept DEF Proceeds, Knows
  <1>8. CASE /\ attempts[a].kind = "alert"
             /\ ReadShared(s, attempts[a].event, At(t, "requeue row",
                    [row |-> a, cancel |-> t.cancel \cup {x \in {a} : MutedAlert(x)}]))
    <2> DEFINE e == attempts[a].event
               cancelled == {x \in {a} : MutedAlert(x)}
               v == At(t, "requeue row", [row |-> a, cancel |-> t.cancel \cup cancelled])
               u == [v EXCEPT !.shared = @ \cup {e}]
    <2>1. CanShare(s, e) /\ Go(s, u)
      BY <1>8 DEF ReadShared
    <2>2. (a \in cancelled) = MutedIn(events, attempts, a)
      BY DEF MutedIn, MutedAlert
    <2>3. /\ v.pc = "requeue row" /\ Has(v, {"todo", "cancel"}) /\ Has(v, {"row"}) /\ v.row = a
          /\ v.todo = t.todo /\ v.cancel = t.cancel \cup cancelled /\ v.exclusive = t.exclusive
          /\ v.shared = t.shared /\ v.rows = t.rows
      <3> HIDE DEF t, cancelled
      <3> QED
        BY <1>2 DEF At, Insert, Has
    <2> HIDE DEF v
    <2>4. /\ u.pc = "requeue row" /\ Has(u, {"todo", "cancel"}) /\ Has(u, {"row"}) /\ u.row = a
          /\ u.todo = t.todo /\ u.cancel = t.cancel \cup cancelled /\ u.exclusive = t.exclusive
          /\ u.shared = t.shared \cup {e} /\ u.rows = t.rows
      BY <2>3 DEF Has
    <2>5. cancelled \in SUBSET {a}
      OBVIOUS
    <2> HIDE DEF u, cancelled
    <2>6. KnowsRequeue(u, events, attempts)
      BY <1>6, <2>1, <2>2, <2>4, <2>5
    <2>7. \A o \in Others(s) : Compatible(u, tx[o])
      BY <1>2, <2>1, <2>4, LocksShared
    <2> QED
      BY <2>1, <2>4, <2>6, <2>7 DEF Proceeds, Knows
  <1> QED
    BY <1>3, <1>5, <1>7, <1>8

LEMMA RollbackProceeds ==
    ASSUME LocksInv, NEW s \in Sessions, Rollback(s)
    PROVE  Proceeds(s)
  BY EndProceeds DEF Rollback

\* A statement that commits nothing keeps the invariant.
LEMMA GoStep ==
    ASSUME LocksInv, NEW s \in Sessions, Proceeds(s)
    PROVE  LocksInv' /\ UNCHANGED storeVars
  <1>1. PICK t : /\ Go(s, t) /\ Knows(t, events, attempts)
                 /\ \A o \in Others(s) : Compatible(t, tx[o])
    BY DEF Proceeds
  <1>2. UNCHANGED storeVars /\ tx' = [tx EXCEPT ![s] = t] /\ DOMAIN tx = Sessions
    BY <1>1 DEF Go, Now, LocksInv
  <1>3. tx'[s] = t /\ \A o \in Others(s) : tx'[o] = tx[o]
    BY <1>2 DEF Others
  <1>4. QueueInv'
    BY <1>2, QueueInvStep DEF LocksInv
  <1>5. SendingDue'
    BY <1>2 DEF LocksInv, SendingDue, storeVars
  <1>6. \A o \in Sessions : Knows(tx[o], events, attempts)'
    <2>1. \A o \in Sessions : Knows(tx'[o], events, attempts)
      BY <1>1, <1>3 DEF LocksInv, Others
    <2> QED
      BY <1>2, <2>1 DEF storeVars
  <1>7. \A o, p \in Sessions : o # p => Compatible(tx'[o], tx'[p])
    <2> SUFFICES ASSUME NEW o \in Sessions, NEW p \in Sessions, o # p PROVE Compatible(tx'[o], tx'[p])
      OBVIOUS
    <2>1. CASE o = s
      BY <1>1, <1>3, <2>1 DEF Others
    <2>2. CASE p = s
      <3>1. Compatible(tx'[p], tx'[o])
        BY <1>1, <1>3, <2>2 DEF Others
      <3> QED
        BY <3>1 DEF Compatible
    <2>3. CASE o # s /\ p # s
      BY <1>3, <2>3 DEF LocksInv, Others
    <2> QED
      BY <2>1, <2>2, <2>3
  <1>8. DOMAIN tx' = Sessions
    BY <1>2
  <1> QED
    BY <1>2, <1>4, <1>5, <1>6, <1>7, <1>8 DEF LocksInv
-----------------------------------------------------------------------------
(***************************************************************************)
(* What is committed.                                                      *)
(***************************************************************************)

LEMMA SendingDueStep ==
    ASSUME StoreTypeOK, SendingDue, [StoreNext]_storeVars
    PROVE  SendingDue'
  <1> DEFINE Due(row) == row.state = "sending" => row.nextRetry # "later"
  <1>a. \A x \in DOMAIN attempts : Due(attempts[x])
    BY DEF SendingDue
  <1>b. SUFFICES ASSUME NEW x \in DOMAIN attempts' PROVE Due(attempts'[x])
    BY DEF SendingDue
  <1>c. Rests(x) /\ x \in DOMAIN attempts => Due(attempts'[x])
    BY <1>a DEF Rests
  <1>d. \A e, channel, kind, f, r : attempts'[x] = PendingAttempt(e, channel, kind, f, r) => Due(attempts'[x])
    BY PendingFields
  <1>e. x \in DOMAIN attempts \/ x \in Added
    BY DEF Added
  <1>1. ASSUME NEW e, NEW key, Creates(e, key) PROVE Due(attempts'[x])
    BY <1>1, <1>c, <1>d, <1>e DEF Creates, AddsAlerts
  <1>2. ASSUME NEW e, Refreshes(e) PROVE Due(attempts'[x])
    BY <1>2, <1>c, <1>d, <1>e DEF Refreshes, AddsAlerts
  <1>3. ASSUME NEW e, NEW to, Moves(e, to) PROVE Due(attempts'[x])
    <2>1. x \in DOMAIN attempts => Rests(x) \/ Becomes(x, "cancelled", attempts[x].attempts, "null")
      BY <1>3 DEF Moves
    <2>2. x \in Added => Due(attempts'[x])
      BY <1>3, <1>d DEF Moves, AddsRecoveries
    <2> QED
      BY <1>c, <1>e, <2>1, <2>2 DEF Becomes
  <1>4. QueueMoves => Due(attempts'[x])
    <2>1. MovesTogether(x) /\ x \in DOMAIN attempts => Due(attempts'[x])
      BY DEF MovesTogether, Becomes, Deliverable
    <2>2. MovesAlone(x) /\ x \in DOMAIN attempts => Due(attempts'[x])
      BY <1>a DEF MovesAlone, Becomes
    <2> QED
      BY <1>c, <2>1, <2>2 DEF QueueMoves
  <1>5. ASSUME NEW a, Redirects(a) PROVE Due(attempts'[x])
    <2>1. x \in Added => Due(attempts'[x])
      BY <1>5, <1>d DEF Redirects
    <2>2. x = a => Due(attempts'[x])
      BY <1>5 DEF Redirects, Becomes
    <2> QED
      BY <1>5, <1>c, <1>e, <2>1, <2>2 DEF Redirects
  <1>6. ASSUME NEW old, Removes(old) PROVE Due(attempts'[x])
    BY <1>6, <1>a DEF Removes
  <1> QED
    BY <1>1, <1>2, <1>3, <1>4, <1>5, <1>6, StoreStepEffects

\* A step of the store that keeps to the locks of the sessions that are done
\* with it.
LEMMA CommitStep ==
    ASSUME LocksInv, NEW X, NEW S, NEW R, NEW F, NEW done \in SUBSET Sessions,
           [StoreNext]_storeVars, Respects(X, S, R, F, events, attempts, events', attempts'),
           tx' = [s \in Sessions |-> IF s \in done THEN NoTx ELSE tx[s]],
           \A o \in Sessions \ done : /\ tx[o].exclusive \cap (X \cup S) = {} /\ tx[o].shared \cap X = {}
                                      /\ tx[o].rows \cap R = {} /\ tx[o].rows \cap F = {}
    PROVE  LocksInv'
  <1>1. QueueInv' /\ SendingDue'
    BY QueueInvStep, SendingDueStep DEF LocksInv, QueueInv
  <1>2. Owned(events, attempts)
    BY DEF LocksInv, QueueInv, AttemptsOwned, Owned
  <1>3. \A o \in Sessions : tx'[o] = IF o \in done THEN NoTx ELSE tx[o]
    OBVIOUS
  <1>4. \A o \in Sessions : Knows(tx'[o], events', attempts')
    <2> SUFFICES ASSUME NEW o \in Sessions PROVE Knows(tx'[o], events', attempts')
      OBVIOUS
    <2>1. CASE o \in done
      BY <1>3, <2>1 DEF Knows
    <2>2. CASE o \notin done
      <3>1. Knows(tx[o], events, attempts)
        BY DEF LocksInv
      <3>2. Knows(tx[o], events', attempts')
        BY <1>2, <2>2, <3>1, KnowledgeKept
      <3> QED
        BY <1>3, <2>2, <3>2
    <2> QED
      BY <2>1, <2>2
  <1>5. \A o, p \in Sessions : o # p => Compatible(tx'[o], tx'[p])
    BY <1>3, NoTxHolds DEF LocksInv, Compatible
  <1> QED
    BY <1>1, <1>3, <1>4, <1>5 DEF LocksInv

\* The rows a transaction has locked, and the events of the alerts among them.
LEMMA HeldRows ==
    ASSUME LocksInv, NEW s \in Sessions
    PROVE  \A a \in tx[s].rows : /\ a \in DOMAIN attempts
                                 /\ attempts[a].kind = "alert" =>
                                       attempts[a].event \in tx[s].exclusive \cup tx[s].shared
  <1> DEFINE t == tx[s]
  <1>1. Knows(t, events, attempts)
    BY DEF LocksInv
  <1> HIDE DEF t
  <1>2. KnowsTransition(t, events, attempts) => \A a \in t.rows : a \in AlertsIn(attempts, t.event) /\ t.exclusive = {t.event}
    BY DEF KnowsTransition, QueuedIn
  <1>3. KnowsResult(t, events, attempts) /\ t.pc \in {"muted?", "write", "copy", "resolved?", "commit result"}
            => \A a \in t.rows : a = t.row /\ t.pc # "muted?"
    BY DEF KnowsResult
  <1>4. \A a \in t.rows : a \in DOMAIN attempts /\ (attempts[a].kind = "alert" => attempts[a].event \in t.exclusive \cup t.shared)
    <2>1. CASE t = NoTx
      BY <2>1, NoTxHolds
    <2>2. CASE KnowsTransition(t, events, attempts)
      BY <1>2, <2>2 DEF AlertsIn
    <2>3. CASE KnowsRefresh(t, events, attempts)
      BY <2>3 DEF KnowsRefresh
    <2>4. CASE KnowsResult(t, events, attempts) /\ t.pc \in {"muted?", "write", "copy", "resolved?", "commit result"}
      BY <1>3, <2>4 DEF KnowsResult
    <2>5. CASE KnowsRequeue(t, events, attempts)
      BY <2>5 DEF KnowsRequeue
    <2> QED
      BY <1>1, <2>1, <2>2, <2>3, <2>4, <2>5 DEF Knows
  <1> QED
    BY <1>4 DEF t

\* A commit of session s that respects its locks.
LEMMA OwnCommit ==
    ASSUME LocksInv, NEW s \in Sessions, [StoreNext]_storeVars, Now(s, NoTx),
           Respects(tx[s].exclusive, tx[s].shared, tx[s].rows, {}, events, attempts, events', attempts')
    PROVE  LocksInv'
  <1> DEFINE done == {s}
             free == {}
  <1>1. tx' = [o \in Sessions |-> IF o \in done THEN NoTx ELSE tx[o]]
    BY DEF Now, LocksInv
  <1>2. \A o \in Sessions \ done :
            /\ tx[o].exclusive \cap (tx[s].exclusive \cup tx[s].shared) = {}
            /\ tx[o].shared \cap tx[s].exclusive = {} /\ tx[o].rows \cap tx[s].rows = {} /\ tx[o].rows \cap free = {}
    BY DEF LocksInv, Compatible
  <1>3. done \in SUBSET Sessions
    OBVIOUS
  <1>4. Respects(tx[s].exclusive, tx[s].shared, tx[s].rows, free, events, attempts, events', attempts')
    OBVIOUS
  <1> HIDE DEF done, free
  <1> QED
    BY <1>1, <1>2, <1>3, <1>4, CommitStep

\* The target of a transition is one that the store can be asked for.
LEMMA KnownTarget ==
    ASSUME NEW t, KnowsTransition(t, events, attempts), t.pc # "update state"
    PROVE  t.to \in Targets(t.event) /\ events[t.event].state = t.from
  BY DEF KnowsTransition, Targets

LEMMA CommitMuteStep ==
    ASSUME LocksInv, NEW s \in Sessions, CommitMute(s)
    PROVE  StoreNext /\ LocksInv'
  <1> DEFINE t == tx[s]
             e == t.event
  <1>1. t.pc = "cancel" /\ t.todo = {} /\ KnowsTransition(t, events, attempts)
    BY NoTxHolds DEF CommitMute, LocksInv, Knows
  <1>2. e \in DOMAIN events /\ t.to = "muted" /\ t.rows = QueuedIn(attempts, e) /\ t.exclusive = {e} /\ t.from = events[e].state
    BY <1>1 DEF KnowsTransition
  <1>3. StoreTypeOK
    BY DEF LocksInv, QueueInv
  <1>4. attempts' = [a \in DOMAIN attempts |-> IF a \in t.rows
            THEN [attempts[a] EXCEPT !.state = "cancelled", !.nextRetry = "null"] ELSE attempts[a]]
    BY DEF CommitMute
  <1>5. events' = [events EXCEPT ![e].state = t.to] /\ UNCHANGED <<lastEvent, lastId>> /\ Now(s, NoTx)
    BY DEF CommitMute
  <1>6. TransitionStep
    <2>1. attempts' = CancelQueuedAlerts(e)
      BY <1>2, <1>4 DEF CancelQueuedAlerts, QueuedIn, AlertsIn, AlertsOf
    <2>2. DOMAIN CancelQueuedAlerts(e) = DOMAIN attempts
      BY DEF CancelQueuedAlerts
    <2>3. attempts' = Insert(CancelQueuedAlerts(e), <<>>)
      BY <1>4, <2>1, <2>2, EmptyTable DEF Insert
    <2>4. Transition(e, events[e].state, t.to)
      BY <1>2, <1>5, <2>3 DEF Transition, TransitionEvent
    <2> QED
      BY <1>1, <1>2, <2>4, KnownTarget DEF TransitionStep
  <1>7. Respects(t.exclusive, t.shared, t.rows, {}, events, attempts, events', attempts')
    <2>1. \A d \in DOMAIN events : events'[d].type = events[d].type /\ events'[d].key = events[d].key
                                   /\ (d # e => events'[d] = events[d])
      BY <1>3, <1>5 DEF StoreTypeOK, Event
    <2>2. ASSUME NEW a \in DOMAIN attempts
          PROVE  /\ attempts'[a].event = attempts[a].event /\ attempts'[a].channel = attempts[a].channel
                 /\ attempts'[a].kind = attempts[a].kind /\ attempts'[a].fallbackOf = attempts[a].fallbackOf
                 /\ a \notin t.rows => attempts'[a].state = attempts[a].state
      BY <1>3, <1>4 DEF StoreTypeOK, Attempt
    <2>3. DOMAIN attempts' = DOMAIN attempts /\ DOMAIN events' = DOMAIN events
      BY <1>4, <1>5
    <2> QED
      BY <1>2, <2>1, <2>2, <2>3, HeldRows DEF Respects
  <1> QED
    BY <1>5, <1>6, <1>7, OwnCommit DEF StoreNext

LEMMA CommitCloseStep ==
    ASSUME LocksInv, NEW s \in Sessions, CommitClose(s)
    PROVE  StoreNext /\ LocksInv'
  <1> DEFINE t == tx[s]
             e == t.event
             recover == t.to = "resolved" /\ NotifiesOnClose(events[e].type, t.from)
             rows == [i \in {lastId + a : a \in t.recover} |->
                        PendingAttempt(e, attempts[i - lastId].channel, "recovery", NoLink, i - lastId)]
  <1>1. t.pc = "commit close" /\ KnowsTransition(t, events, attempts)
    BY NoTxHolds DEF CommitClose, LocksInv, Knows
  <1>2. /\ e \in DOMAIN events /\ t.to # "muted" /\ t.exclusive = {e} /\ t.from = events[e].state
        /\ t.recover = IF recover THEN {a \in AlertsIn(attempts, e) : attempts[a].state # "cancelled"} ELSE {}
    BY <1>1 DEF KnowsTransition
  <1>3. StoreTypeOK
    BY DEF LocksInv, QueueInv
  <1>4. attempts' = Insert(attempts, rows)
    BY DEF CommitClose
  <1>5. /\ events' = [events EXCEPT ![e].state = t.to] /\ UNCHANGED lastEvent /\ Now(s, NoTx)
        /\ lastId' = IF recover THEN 2 * lastId ELSE lastId
    BY DEF CommitClose
  <1>6. rows = IF recover THEN RecoveryRows(e) ELSE <<>>
    <2>1. CASE recover
      <3>1. t.recover = AlertsToRecover(e)
        BY <1>2, <2>1 DEF AlertsToRecover, AlertsOf, AlertsIn
      <3> QED
        BY <2>1, <3>1 DEF RecoveryRows
    <2>2. CASE ~recover
      <3>1. t.recover = {}
        BY <1>2, <2>2
      <3>2. DOMAIN rows = {}
        BY <3>1
      <3>3. rows = [i \in {} |-> PendingAttempt(e, attempts[i - lastId].channel, "recovery", NoLink, i - lastId)]
        BY <3>1
      <3> QED
        BY <2>2, <3>3, EmptyTable
    <2> QED
      BY <2>1, <2>2
  <1>7. TransitionStep
    <2>1. Transition(e, events[e].state, t.to)
      BY <1>2, <1>4, <1>5, <1>6 DEF Transition, TransitionEvent
    <2> QED
      BY <1>1, <1>2, <2>1, KnownTarget DEF TransitionStep
  <1>8. Respects(t.exclusive, t.shared, t.rows, {}, events, attempts, events', attempts')
    <2>1. \A d \in DOMAIN events : events'[d].type = events[d].type /\ events'[d].key = events[d].key
                                   /\ (d # e => events'[d] = events[d])
      BY <1>3, <1>5 DEF StoreTypeOK, Event
    <2>2. DOMAIN attempts \cap DOMAIN rows = {}
      <3>1. CASE recover
        <4>1. e \in Nat /\ lastId \in Nat /\ DOMAIN attempts \subseteq 1 .. lastId
          BY <1>2, <1>3 DEF StoreTypeOK
        <4>2. DOMAIN RecoveryRows(e) \subseteq (lastId + 1) .. (2 * lastId)
          BY <1>3, <4>1, RecoveryRowsType
        <4>3. rows = RecoveryRows(e)
          BY <1>6, <3>1
        <4> HIDE DEF rows, e
        <4> QED
          BY <4>1, <4>2, <4>3
      <3>2. CASE ~recover
        BY <1>6, <3>2, EmptyTable
      <3> QED
        BY <3>1, <3>2
    <2>3. \A i \in DOMAIN rows : rows[i].kind = "recovery" /\ rows[i].event = e /\ rows[i].fallbackOf = NoLink
      BY DEF PendingAttempt
    <2>4. NoLink \notin DOMAIN attempts
      BY <1>3 DEF StoreTypeOK, NoLink
    <2> HIDE DEF rows, e, t
    <2>5. DOMAIN attempts' = DOMAIN attempts \cup DOMAIN rows
      BY <1>4 DEF Insert
    <2>6. \A a \in DOMAIN attempts : attempts'[a] = attempts[a]
      BY <1>4, <2>2 DEF Insert
    <2>7. \A i \in DOMAIN attempts' \ DOMAIN attempts :
             attempts'[i].kind = "recovery" /\ attempts'[i].event = e /\ attempts'[i].fallbackOf = NoLink
      BY <1>4, <2>3, <2>5 DEF Insert
    <2>8. DOMAIN events' = DOMAIN events
      BY <1>5
    <2>9. \A a \in t.rows : a \in DOMAIN attempts /\ (attempts[a].kind = "alert" => attempts[a].event \in t.exclusive \cup t.shared)
      BY HeldRows DEF t
    <2> QED
      BY <1>2, <2>1, <2>4, <2>5, <2>6, <2>7, <2>8, <2>9 DEF Respects
  <1> QED
    BY <1>5, <1>7, <1>8, OwnCommit DEF StoreNext

LEMMA CommitRefreshStep ==
    ASSUME LocksInv, NEW s \in Sessions, CommitRefresh(s)
    PROVE  StoreNext /\ LocksInv'
  <1> DEFINE t == tx[s]
             e == t.event
             owed == t.rises /\ \E k \in DOMAIN t.alerts : t.alerts[k] \notin t.alerted
  <1>1. t.pc = "commit refresh" /\ KnowsRefresh(t, events, attempts)
    BY NoTxHolds DEF CommitRefresh, LocksInv, Knows
  <1>2. /\ e \in DOMAIN events /\ events[e].key # NoKey /\ events[e].state # "resolved"
        /\ t.severity \in Severities /\ t.exclusive = {e} /\ t.rows = {}
        /\ t.alerts # <<>> => events[e].type = "incident" /\ t.alerts = Route["incident"][t.severity]
        /\ t.rises = ( /\ events[e].state # "muted"
                       /\ SeverityRank(t.severity) > SeverityRank(events[e].severity)
                       /\ t.alerts # <<>> )
    BY <1>1 DEF KnowsRefresh
  <1>3. t.alerted = AlertChannelNames(e)
    BY <1>1 DEF KnowsRefresh, AlertChannelNames, AlertsOf, AlertsIn
  <1>4. StoreTypeOK
    BY DEF LocksInv, QueueInv
  <1>5. /\ events' = [events EXCEPT ![e].severity = t.severity] /\ UNCHANGED lastEvent /\ Now(s, NoTx)
        /\ owed => attempts' = Insert(attempts, AlertRows(e, t.alerts, t.alerted)) /\ lastId' = lastId + Len(t.alerts)
        /\ ~owed => UNCHANGED <<attempts, lastId>>
    BY DEF CommitRefresh
  <1>6. t.alerts \in AlertsOnRise(e, t.severity)
    BY <1>2 DEF AlertsOnRise
  <1>7. RefreshStep
    <2>1. DOMAIN <<>> = {}
      BY EmptyTable
    <2>2. owed <=> /\ events[e].state # "muted"
                   /\ SeverityRank(t.severity) > SeverityRank(events[e].severity)
                   /\ \E k \in DOMAIN t.alerts : t.alerts[k] \notin AlertChannelNames(e)
      BY <1>2, <1>3, <2>1
    <2>3. RefreshOpenEvent(e, t.severity, t.alerts)
      BY <1>2, <1>3, <1>5, <2>2 DEF RefreshOpenEvent, OpenEvents
    <2> QED
      BY <1>2, <1>6, <2>3 DEF RefreshStep
  <1>8. Respects(t.exclusive, t.shared, t.rows, {}, events, attempts, events', attempts')
    <2>1. \A d \in DOMAIN events : events'[d].type = events[d].type /\ events'[d].key = events[d].key
                                   /\ (d # e => events'[d] = events[d])
      BY <1>4, <1>5 DEF StoreTypeOK, Event
    <2>2. t.alerts \in Seq(Channels) /\ e \in Nat
      BY <1>2, <1>4, <1>6, AlertsOnRiseType DEF StoreTypeOK
    <2>3. AddsAlerts(e, t.alerted)
      <3>1. CASE owed
        BY <1>4, <1>5, <2>2, <3>1, AlertRowsEffect
      <3>2. CASE ~owed
        BY <1>5, <3>2 DEF AddsAlerts, Rests, Added
      <3> QED
        BY <3>1, <3>2
    <2>4. NoLink \notin DOMAIN attempts
      BY <1>4 DEF StoreTypeOK, NoLink
    <2>5. \A x \in Added : attempts'[x].kind = "alert" /\ attempts'[x].event = e /\ attempts'[x].fallbackOf = NoLink
      BY <2>3, PendingFields DEF AddsAlerts
    <2>6. \A x \in DOMAIN attempts : x \in DOMAIN attempts' /\ attempts'[x] = attempts[x]
      BY <2>3 DEF AddsAlerts, Rests
    <2>7. DOMAIN events' = DOMAIN events
      BY <1>5
    <2> QED
      BY <1>2, <2>1, <2>4, <2>5, <2>6, <2>7 DEF Respects, Added
  <1> QED
    BY <1>5, <1>7, <1>8, OwnCommit DEF StoreNext

LEMMA CommitResultStep ==
    ASSUME LocksInv, NEW s \in Sessions, CommitResult(s)
    PROVE  StoreNext /\ LocksInv'
  <1> DEFINE t == tx[s]
             a == t.row
             e == attempts[a].event
             marked == [attempts EXCEPT
                 ![a].state = IF t.muted THEN "cancelled" ELSE t.result, ![a].attempts = t.count,
                 ![a].nextRetry = IF t.muted THEN "null" ELSE t.retry]
             new == IF t.late THEN {lastId + 1, lastId + 2} ELSE {lastId + 1}
             rows == [i \in new |->
                        IF i = lastId + 1 THEN PendingAttempt(e, t.fallback, "alert", a, NoLink)
                                          ELSE PendingAttempt(e, t.fallback, "recovery", NoLink, lastId + 1)]
  <1>1. t.pc = "commit result" /\ KnowsResult(t, events, attempts)
    BY NoTxHolds DEF CommitResult, LocksInv, Knows
  <1>2. /\ a \in DOMAIN attempts /\ attempts[a].state = "sending" /\ t.exclusive = {} /\ t.rows = {a}
        /\ attempts[a].kind = "alert" => e \in t.shared
        /\ t.muted = MutedAlert(a)
        /\ t.copy = (Redirecting(t) /\ ~Redirected(a))
        /\ t.copy => t.late = (events[e].state = "resolved" /\ RecoveriesOf(e) # {})
    <2>1. Redirected(a) = CopiedIn(attempts, a) /\ RecoveriesOf(e) = RecoveriesIn(attempts, e)
          /\ MutedAlert(a) = MutedIn(events, attempts, a)
      BY DEF Redirected, CopiedIn, RecoveriesOf, RecoveriesIn, MutedAlert, MutedIn
    <2> QED
      BY <1>1, <2>1 DEF KnowsResult
  <1>3. PICK n \in 0 .. MaxAttempts - 1 : AskedOf(t, n, attempts[a])
    BY <1>1 DEF KnowsResult
  <1>4. StoreTypeOK
    BY DEF LocksInv, QueueInv
  <1>5. /\ t.copy => attempts' = Insert(marked, rows) /\ lastId' = lastId + 2
        /\ ~t.copy => attempts' = marked /\ UNCHANGED lastId
        /\ UNCHANGED <<events, lastEvent>> /\ Now(s, NoTx)
    BY DEF CommitResult
  <1>6. t.result \in {"dead_letter", "failed", "pending"}
    BY <1>3 DEF AskedOf
  <1>7. t.copy => rows = FallbackRows(a, t.fallback)
    <2> DEFINE late == events[e].state = "resolved" /\ RecoveriesOf(e) # {}
               Row(i) == IF i = lastId + 1 THEN PendingAttempt(e, t.fallback, "alert", a, NoLink)
                                           ELSE PendingAttempt(e, t.fallback, "recovery", NoLink, lastId + 1)
    <2>1. FallbackRows(a, t.fallback) = [i \in IF late THEN {lastId + 1, lastId + 1 + 1} ELSE {lastId + 1} |-> Row(i)]
      BY DEF FallbackRows
    <2>2. rows = [i \in IF t.late THEN {lastId + 1, lastId + 2} ELSE {lastId + 1} |-> Row(i)]
      OBVIOUS
    <2>3. t.copy => t.late = late
      BY <1>2
    <2>4. lastId + 1 + 1 = lastId + 2
      BY <1>4 DEF StoreTypeOK
    <2> HIDE DEF rows, late, Row
    <2> QED
      BY <2>1, <2>2, <2>3, <2>4
  <1>8. MarkResult(a, t.result, t.count, t.retry, t.fallback)
    <2>1. (t.result # "sent" /\ MutedAlert(a)) = t.muted /\ t.muted \in BOOLEAN
      BY <1>2, <1>6 DEF MutedAlert
    <2>2. t.copy <=> /\ (IF t.muted THEN "cancelled" ELSE t.result) = "dead_letter"
                     /\ t.fallback # NoChannel /\ ~Redirected(a)
      BY <1>2, <2>1 DEF Redirecting
    <2> HIDE DEF marked, rows
    <2>3. IF t.copy THEN /\ attempts' = Insert(marked, FallbackRows(a, t.fallback))
                         /\ lastId' = lastId + 2
                    ELSE attempts' = marked /\ UNCHANGED lastId
      BY <1>5, <1>7
    <2> QED
      BY <1>2, <1>5, <2>1, <2>2, <2>3 DEF MarkResult, marked
  <1>9. ResultStep
    <2>1. CASE n + 1 >= MaxAttempts /\ t.count = n + 1 /\ t.result = "dead_letter" /\ t.retry = "null"
               /\ t.fallback = IF attempts[a].kind = "alert" /\ attempts[a].fallbackOf = NoLink
                                 THEN Fallback[attempts[a].channel] ELSE NoChannel
      BY <1>2, <1>8, <2>1 DEF ResultStep, SaveFailed, FallbackFor
    <2>2. CASE n + 1 < MaxAttempts /\ t.count = n + 1 /\ t.result = "failed" /\ t.retry = "later" /\ t.fallback = NoChannel
      <3>1. ~(n + 1 >= MaxAttempts)
        BY <2>2, BoundsAssumption
      <3> QED
        BY <1>2, <1>8, <2>2, <3>1 DEF ResultStep, SaveFailed
    <2>3. CASE t.count = n /\ t.result = "pending" /\ t.retry \in {"null", "due"} /\ t.fallback = NoChannel
      BY <1>2, <1>8, <2>3 DEF ResultStep, HandBack
    <2> QED
      BY <1>3, <2>1, <2>2, <2>3 DEF AskedOf
  <1>10. Respects(t.exclusive, t.shared, t.rows, {}, events, attempts, events', attempts')
    <2>1. DOMAIN marked = DOMAIN attempts
      OBVIOUS
    <2>2. \A x \in DOMAIN attempts :
             /\ marked[x].event = attempts[x].event /\ marked[x].channel = attempts[x].channel
             /\ marked[x].kind = attempts[x].kind /\ marked[x].fallbackOf = attempts[x].fallbackOf
             /\ x # a => marked[x].state = attempts[x].state
      BY <1>4 DEF StoreTypeOK, Attempt
    <2>3. \A i \in DOMAIN rows :
             /\ rows[i].event = e
             /\ rows[i].kind = "alert" \/ (rows[i].kind = "recovery" /\ t.late)
             /\ rows[i].fallbackOf \in {a, NoLink}
      BY DEF PendingAttempt
    <2>4. DOMAIN attempts \cap DOMAIN rows = {}
      <3>1. lastId \in Nat /\ DOMAIN attempts \subseteq 1 .. lastId
        BY <1>4 DEF StoreTypeOK
      <3>2. DOMAIN rows \subseteq {lastId + 1, lastId + 2}
        OBVIOUS
      <3> HIDE DEF rows
      <3> QED
        BY <3>1, <3>2
    <2>5. NoLink \notin DOMAIN attempts
      BY <1>4 DEF StoreTypeOK, NoLink
    <2>6. t.copy => e \in t.shared /\ (t.late => RecoveriesIn(attempts, e) # {})
      <3>1. Redirecting(t) => attempts[a].kind = "alert"
        BY <1>3 DEF Redirecting, AskedOf
      <3> QED
        BY <1>2, <3>1 DEF RecoveriesOf, RecoveriesIn
    <2> HIDE DEF marked, rows, e
    <2>7. /\ DOMAIN attempts \subseteq DOMAIN attempts'
          /\ \A x \in DOMAIN attempts : attempts'[x] = marked[x]
          /\ \A x \in DOMAIN attempts' \ DOMAIN attempts : t.copy /\ x \in DOMAIN rows /\ attempts'[x] = rows[x]
      <3>1. CASE t.copy
        BY <1>5, <2>1, <2>4, <3>1 DEF Insert
      <3>2. CASE ~t.copy
        BY <1>5, <2>1, <3>2
      <3> QED
        BY <3>1, <3>2
    <2>8. \A x \in DOMAIN attempts' \ DOMAIN attempts :
             /\ attempts'[x].event \in t.shared /\ attempts'[x].fallbackOf \notin DOMAIN attempts \ t.rows
             /\ attempts'[x].kind = "recovery" => RecoveriesIn(attempts, attempts'[x].event) # {}
      BY <1>2, <2>3, <2>5, <2>6, <2>7
    <2>9. events' = events
      BY <1>5
    <2> QED
      BY <1>2, <2>2, <2>7, <2>8, <2>9 DEF Respects, e
  <1> QED
    BY <1>5, <1>9, <1>10, OwnCommit DEF StoreNext

LEMMA CommitRequeueStep ==
    ASSUME LocksInv, NEW s \in Sessions, CommitRequeue(s)
    PROVE  [StoreNext]_storeVars /\ LocksInv'
  <1> DEFINE t == tx[s]
  <1>1. t.pc = "requeue" /\ t.todo = {} /\ KnowsRequeue(t, events, attempts)
    BY NoTxHolds DEF CommitRequeue, LocksInv, Knows
  <1>2. /\ t.rows \subseteq {a \in DOMAIN attempts : attempts[a].state = "sending"}
        /\ \A a \in t.rows : (a \in t.cancel) = MutedAlert(a)
    BY <1>1 DEF KnowsRequeue, MutedIn, MutedAlert
  <1>3. StoreTypeOK
    BY DEF LocksInv, QueueInv
  <1>4. attempts' = [a \in DOMAIN attempts |->
            IF a \notin t.rows THEN attempts[a]
            ELSE IF a \in t.cancel THEN [attempts[a] EXCEPT !.state = "cancelled", !.nextRetry = "null"]
                 ELSE [attempts[a] EXCEPT !.state = "pending"]]
    BY DEF CommitRequeue
  <1>5. UNCHANGED <<events, lastEvent, lastId>> /\ Now(s, NoTx)
    BY DEF CommitRequeue
  <1>6. [StoreNext]_storeVars
    <2>1. CASE t.rows = {}
      <3>1. attempts' = [a \in DOMAIN attempts |-> attempts[a]]
        BY <1>4, <2>1
      <3>2. attempts = [a \in DOMAIN attempts |-> attempts[a]]
        BY <1>3 DEF StoreTypeOK
      <3> QED
        BY <1>5, <3>1, <3>2 DEF storeVars
    <2>2. CASE t.rows # {}
      <3>1. attempts' = [a \in DOMAIN attempts |->
              IF a \notin t.rows THEN attempts[a]
              ELSE IF MutedAlert(a)
                     THEN [attempts[a] EXCEPT !.state = "cancelled", !.nextRetry = "null"]
                     ELSE [attempts[a] EXCEPT !.state = "pending"]]
        BY <1>2, <1>4
      <3>2. RequeueStuckSending(t.rows)
        BY <1>2, <1>5, <3>1 DEF RequeueStuckSending
      <3> QED
        BY <1>2, <2>2, <3>2 DEF StoreNext, RequeueStep, ANonEmptySubset
    <2> QED
      BY <2>1, <2>2
  <1>7. Respects(t.exclusive, t.shared, t.rows, {}, events, attempts, events', attempts')
    <2>1. ASSUME NEW a \in DOMAIN attempts
          PROVE  /\ attempts'[a].event = attempts[a].event /\ attempts'[a].channel = attempts[a].channel
                 /\ attempts'[a].kind = attempts[a].kind /\ attempts'[a].fallbackOf = attempts[a].fallbackOf
                 /\ a \notin t.rows => attempts'[a].state = attempts[a].state
      <3>1. attempts[a] \in Attempt
        BY <1>3 DEF StoreTypeOK
      <3> HIDE DEF t
      <3> QED
        BY <1>4, <3>1 DEF Attempt
    <2>2. DOMAIN attempts' = DOMAIN attempts /\ events' = events
      BY <1>4, <1>5
    <2> QED
      BY <2>1, <2>2, HeldRows DEF Respects
  <1> QED
    BY <1>5, <1>6, <1>7, OwnCommit

\* A transaction of one statement, of nobody or of an idle session: it changes
\* no row that is locked.
LEMMA SingleCommit ==
    ASSUME LocksInv, NEW F, [StoreNext]_storeVars, UNCHANGED tx,
           Respects({}, {}, {}, F, events, attempts, events', attempts'),
           \A o \in Sessions : tx[o] = NoTx \/ tx[o].rows \cap F = {}
    PROVE  LocksInv'
  <1> DEFINE none == {}
             idle == {o \in Sessions : tx[o] = NoTx}
  <1>1. DOMAIN tx = Sessions /\ DOMAIN tx' = Sessions /\ \A o \in Sessions : tx'[o] = tx[o]
    BY DEF LocksInv
  <1>2. QueueInv' /\ SendingDue'
    BY QueueInvStep, SendingDueStep DEF LocksInv, QueueInv
  <1>3. Owned(events, attempts)
    BY DEF LocksInv, QueueInv, AttemptsOwned, Owned
  <1>4. Respects(none, none, none, F, events, attempts, events', attempts')
    OBVIOUS
  <1>5. ASSUME NEW o \in Sessions PROVE Knows(tx'[o], events', attempts')
    <2>1. CASE tx[o] = NoTx
      BY <1>1, <2>1 DEF Knows
    <2>2. CASE tx[o].rows \cap F = {}
      <3>1. Knows(tx[o], events, attempts)
        BY DEF LocksInv
      <3>2. /\ tx[o].exclusive \cap (none \cup none) = {} /\ tx[o].shared \cap none = {}
            /\ tx[o].rows \cap none = {}
        OBVIOUS
      <3> HIDE DEF none
      <3>3. Knows(tx[o], events', attempts')
        BY <1>3, <1>4, <2>2, <3>1, <3>2, KnowledgeKept
      <3> QED
        BY <1>1, <3>3
    <2> QED
      BY <2>1, <2>2
  <1>6. \A o, p \in Sessions : o # p => Compatible(tx'[o], tx'[p])
    BY <1>1 DEF LocksInv
  <1> QED
    BY <1>1, <1>2, <1>5, <1>6 DEF LocksInv

LEMMA CreateKeeps ==
    ASSUME LocksInv, Create
    PROVE  StoreNext /\ LocksInv'
  <1>1. StoreTypeOK /\ CreateStep /\ UNCHANGED tx
    BY DEF LocksInv, QueueInv, Create
  <1>2. PICK e, key : Creates(e, key)
    BY <1>1, CreateEffect
  <1>3. NoLink \notin DOMAIN attempts
    BY <1>1 DEF StoreTypeOK, NoLink
  <1>4. \A x \in Added : attempts'[x].kind = "alert" /\ attempts'[x].event = e /\ attempts'[x].fallbackOf = NoLink
    BY <1>2, PendingFields DEF Creates, AddsAlerts
  <1>5. \A x \in DOMAIN attempts : x \in DOMAIN attempts' /\ attempts'[x] = attempts[x]
    BY <1>2 DEF Creates, AddsAlerts, Rests
  <1>6. /\ e \notin DOMAIN events /\ DOMAIN events \subseteq DOMAIN events'
        /\ \A d \in DOMAIN events : events'[d] = events[d]
    BY <1>2 DEF Creates
  <1> DEFINE none == {}
  <1>7. Respects(none, none, none, none, events, attempts, events', attempts')
    BY <1>3, <1>4, <1>5, <1>6 DEF Respects, Added
  <1>8. \A o \in Sessions : tx[o].rows \cap none = {}
    OBVIOUS
  <1> QED
    BY <1>1, <1>7, <1>8, SingleCommit DEF StoreNext

LEMMA RetryTimeKeeps ==
    ASSUME LocksInv, RetryTime
    PROVE  StoreNext /\ LocksInv'
  <1>1. StoreTypeOK /\ TimeStep /\ UNCHANGED tx
    BY DEF LocksInv, QueueInv, RetryTime
  <1>2. PICK a \in DOMAIN attempts : RetryTimeComes(a)
    BY <1>1 DEF TimeStep
  <1>3. DOMAIN attempts' = DOMAIN attempts /\ events' = events
    BY <1>2 DEF RetryTimeComes
  <1>4. ASSUME NEW x \in DOMAIN attempts
        PROVE  /\ attempts'[x].event = attempts[x].event /\ attempts'[x].channel = attempts[x].channel
               /\ attempts'[x].kind = attempts[x].kind /\ attempts'[x].fallbackOf = attempts[x].fallbackOf
               /\ attempts'[x].state = attempts[x].state
    BY <1>1, <1>2 DEF RetryTimeComes, StoreTypeOK, Attempt
  <1> DEFINE none == {}
  <1>5. Respects(none, none, none, none, events, attempts, events', attempts')
    BY <1>3, <1>4 DEF Respects
  <1>6. \A o \in Sessions : tx[o].rows \cap none = {}
    OBVIOUS
  <1> QED
    BY <1>1, <1>5, <1>6, SingleCommit DEF StoreNext

LEMMA ClaimKeeps ==
    ASSUME LocksInv, NEW s \in Sessions, Claim(s)
    PROVE  StoreNext /\ LocksInv'
  <1> DEFINE free == {a \in DOMAIN attempts : RowFree(s, a)}
  <1>1. PICK claim \in ANonEmptySubset({a \in DOMAIN attempts : Deliverable(a) /\ RowFree(s, a)}) : ClaimDue(claim)
    BY DEF Claim
  <1>2. /\ claim \subseteq free /\ claim # {} /\ \A a \in claim : Deliverable(a)
        /\ StoreTypeOK /\ tx[s] = NoTx /\ UNCHANGED tx
    BY <1>1 DEF ANonEmptySubset, LocksInv, QueueInv, Claim
  <1>3. ClaimStep
    BY <1>1, <1>2 DEF ClaimStep, ANonEmptySubset
  <1>4. DOMAIN attempts' = DOMAIN attempts /\ events' = events
    BY <1>1 DEF ClaimDue
  <1>5. ASSUME NEW x \in DOMAIN attempts
        PROVE  /\ attempts'[x].event = attempts[x].event /\ attempts'[x].channel = attempts[x].channel
               /\ attempts'[x].kind = attempts[x].kind /\ attempts'[x].fallbackOf = attempts[x].fallbackOf
               /\ \/ attempts'[x].state = attempts[x].state
                  \/ x \in free /\ attempts[x].state \in {"pending", "failed"} /\ attempts'[x].state = "sending"
    <2>1. attempts[x] \in Attempt
      BY <1>2 DEF StoreTypeOK
    <2> QED
      BY <1>1, <1>2, <2>1 DEF ClaimDue, Attempt, Deliverable
  <1>6. \A o \in Sessions : tx[o] = NoTx \/ tx[o].rows \cap free = {}
    BY <1>2 DEF RowFree, Others
  <1> HIDE DEF free
  <1>7. Respects({}, {}, {}, free, events, attempts, events', attempts')
    BY <1>4, <1>5 DEF Respects
  <1> QED
    BY <1>2, <1>3, <1>6, <1>7, SingleCommit DEF StoreNext

LEMMA MarkSentKeeps ==
    ASSUME LocksInv, NEW s \in Sessions, MarkSent(s)
    PROVE  StoreNext /\ LocksInv'
  <1> DEFINE free == {a \in DOMAIN attempts : RowFree(s, a)}
  <1>1. PICK a \in DOMAIN attempts : RowFree(s, a) /\ SaveSent(a, attempts[a].attempts)
    BY DEF MarkSent
  <1> DEFINE n == attempts[a].attempts
  <1>2. a \in free /\ StoreTypeOK /\ BudgetKept /\ tx[s] = NoTx /\ UNCHANGED tx
    BY <1>1 DEF LocksInv, QueueInv, MarkSent
  <1>3. MarkResult(a, "sent", n + 1, "null", NoChannel) /\ attempts[a] \in Attempt /\ attempts[a].state = "sending"
    BY <1>1, <1>2 DEF SaveSent, StoreTypeOK, MarkResult
  <1>4. n \in 0 .. MaxAttempts - 1 /\ n + 1 \in Nat
    <2>1. n \in Nat /\ n < MaxAttempts
      BY <1>2, <1>3 DEF BudgetKept, Attempt
    <2> QED
      BY <2>1, BoundsAssumption
  <1>5. ResultStep
    BY <1>1, <1>4 DEF ResultStep
  <1>6. /\ UNCHANGED events /\ Becomes(a, "sent", n + 1, "null")
        /\ \A x \in DOMAIN attempts \ {a} : Rests(x)
        /\ DOMAIN attempts' = DOMAIN attempts
    BY <1>2, <1>3, <1>4, PlainMarkEffect
  <1>7. ASSUME NEW x \in DOMAIN attempts
        PROVE  /\ attempts'[x].event = attempts[x].event /\ attempts'[x].channel = attempts[x].channel
               /\ attempts'[x].kind = attempts[x].kind /\ attempts'[x].fallbackOf = attempts[x].fallbackOf
               /\ \/ attempts'[x].state = attempts[x].state
                  \/ x \in free /\ attempts[x].state = "sending" /\ attempts'[x].state = "sent"
    BY <1>2, <1>3, <1>6 DEF Becomes, Keeps, Rests
  <1>8. \A o \in Sessions : tx[o] = NoTx \/ tx[o].rows \cap free = {}
    BY <1>2 DEF RowFree, Others
  <1> HIDE DEF free
  <1>9. Respects({}, {}, {}, free, events, attempts, events', attempts')
    BY <1>6, <1>7 DEF Respects
  <1> QED
    BY <1>2, <1>5, <1>8, <1>9, SingleCommit DEF StoreNext
-----------------------------------------------------------------------------
(***************************************************************************)
(* What the sessions know is true.                                         *)
(***************************************************************************)

LEMMA LocksStep ==
    ASSUME LocksInv, [Next]_vars
    PROVE  LocksInv' /\ [StoreNext]_storeVars
  <1>1. CASE UNCHANGED vars
    <2>1. UNCHANGED storeVars /\ UNCHANGED tx
      BY <1>1 DEF vars
    <2>2. QueueInv'
      BY <2>1, QueueInvStep DEF LocksInv
    <2> QED
      BY <2>1, <2>2 DEF LocksInv, SendingDue, storeVars
  <1>2. CASE Create \/ RetryTime
    BY <1>2, CreateKeeps, RetryTimeKeeps
  <1>3. ASSUME NEW s \in Sessions,
               \/ BeginTransition(s) \/ UpdateState(s) \/ CancelSnapshot(s) \/ CancelRow(s) \/ ReadAlerts(s)
               \/ BeginRefresh(s) \/ SelectForUpdate(s) \/ UpdateSeverity(s)
               \/ BeginMark(s) \/ ReadMuted(s) \/ WriteResult(s) \/ InsertCopy(s) \/ ReadResolved(s)
               \/ BeginRequeue(s) \/ RequeueRead(s) \/ RequeueRow(s) \/ Rollback(s)
        PROVE  LocksInv' /\ [StoreNext]_storeVars
    <2>1. Proceeds(s)
      BY <1>3, BeginTransitionProceeds, UpdateStateProceeds, CancelSnapshotProceeds, CancelRowProceeds,
         ReadAlertsProceeds, BeginRefreshProceeds, SelectProceeds, UpdateSeverityProceeds,
         BeginMarkProceeds, ReadMutedProceeds, WriteResultProceeds, InsertCopyProceeds, ReadResolvedProceeds,
         BeginRequeueProceeds, RequeueReadProceeds, RequeueRowProceeds, RollbackProceeds
    <2> QED
      BY <2>1, GoStep
  <1>4. ASSUME NEW s \in Sessions,
               \/ CommitMute(s) \/ CommitClose(s) \/ CommitRefresh(s) \/ CommitResult(s) \/ CommitRequeue(s)
               \/ MarkSent(s) \/ Claim(s)
        PROVE  LocksInv' /\ [StoreNext]_storeVars
    BY <1>4, CommitMuteStep, CommitCloseStep, CommitRefreshStep, CommitResultStep, CommitRequeueStep,
       MarkSentKeeps, ClaimKeeps
  <1> QED
    BY <1>1, <1>2, <1>3, <1>4 DEF Next

LEMMA LocksInit == Init => LocksInv
  <1> SUFFICES ASSUME Init PROVE LocksInv
    OBVIOUS
  <1>1. QueueInv
    BY EmptyTable DEF Init, StoreInit, QueueInv, StoreTypeOK, AttemptsOwned, RecoveryLinked,
       RecoveryAfterAlert, CopyLinked, BudgetKept, OneOpenPerKey, OpenByKey, OpenEvents,
       MutedIsQuiet, DeadLetterRedirected, EveryAlertRecoveredOnce
  <1>2. SendingDue
    BY EmptyTable DEF Init, StoreInit, SendingDue
  <1>3. DOMAIN tx = Sessions /\ \A s \in Sessions : tx[s] = NoTx
    BY DEF Init
  <1>4. \A s, o \in Sessions : Compatible(tx[s], tx[o])
    BY <1>3, NoTxHolds DEF Compatible
  <1> QED
    BY <1>1, <1>2, <1>3, <1>4 DEF LocksInv, Knows

\* What every transaction of every session knows is true until its commit.
LEMMA LocksInvariant == Spec => []LocksInv
  <1>1. LocksInv /\ [Next]_vars => LocksInv'
    BY LocksStep
  <1> QED
    BY LocksInit, <1>1, PTL DEF Spec

(***************************************************************************)
(* On PostgreSQL the transactions, statement by statement, look like the   *)
(* single steps of the store: the row locks they take serialise them.      *)
(***************************************************************************)
THEOREM LocksImplementStore == Spec => StoreSpec
  <1>1. Init => StoreInit
    BY DEF Init
  <1>2. LocksInv /\ [Next]_vars => [StoreNext]_storeVars
    BY LocksStep
  <1> QED
    BY <1>1, <1>2, LocksInvariant, PTL DEF Spec, StoreSpec

-----------------------------------------------------------------------------
(***************************************************************************)
(* Nobody waits in a circle.                                               *)
(***************************************************************************)

LEMMA GreatestUpTo ==
    ASSUME NEW n \in Nat, NEW T \in SUBSET (1 .. n), T # {}
    PROVE  \E m \in T : \A j \in T : j <= m
  <1> DEFINE B == {n - j : j \in T}
  <1>1. B \subseteq Nat /\ B # {}
    <2>1. PICK j : j \in T
      OBVIOUS
    <2>2. n - j \in B
      BY <2>1
    <2> QED
      BY <2>2
  <1>2. PICK b \in B : \A c \in B : ~(<<c, b>> \in OpToRel(<, Nat))
    <2> HIDE DEF B
    <2> QED
      BY <1>1, NatLessThanWellFounded, WFMin
  <1>3. PICK m \in T : b = n - m
    BY <1>2
  <1>4. ASSUME NEW j \in T PROVE j <= m
    <2>1. n - j \in B /\ n - j \in Nat /\ b \in Nat
      BY <1>1
    <2>2. ~(n - j < b)
      BY <1>2, <2>1 DEF OpToRel
    <2> QED
      BY <1>3, <2>2
  <1> QED
    BY <1>4

\* What a transaction that holds the lock of an event still asks for, it has:
\* only those that hold nothing, the reaper and a result's own row wait.
LEMMA WhoWaits ==
    ASSUME LocksInv, NEW s \in Sessions, NEW o \in Sessions, WaitsFor(s, o)
    PROVE  \/ tx[s].pc \in {"update state", "select", "muted?"}
           \/ tx[s].pc = "requeue" /\ tx[o].exclusive # {}
           \/ tx[s].pc \in {"write", "requeue row"} /\ tx[s].row \in tx[o].rows
  <1> DEFINE t == tx[s]
             u == tx[o]
  <1>1. s # o /\ Compatible(t, u) /\ Knows(t, events, attempts)
    BY DEF LocksInv, WaitsFor
  <1>2. \A a \in u.rows : a \in DOMAIN attempts /\ (attempts[a].kind = "alert" => attempts[a].event \in u.exclusive \cup u.shared)
    BY HeldRows
  <1>3. CASE t.pc = "update severity"
    <2>1. t.exclusive = {t.event}
      BY <1>1, <1>3, NoTxHolds DEF Knows, KnowsRefresh
    <2>2. t.event \in u.exclusive \cup u.shared
      <3> HIDE DEF u
      <3> QED
        BY <1>3 DEF WaitsFor, u
    <2> QED
      BY <1>1, <2>1, <2>2 DEF Compatible
  <1>4. CASE t.pc = "resolved?"
    <2>1. KnowsResult(t, events, attempts)
      BY <1>1, <1>4, NoTxHolds DEF Knows
    <2>2. t.row \in DOMAIN attempts /\ (attempts[t.row].kind = "alert" => attempts[t.row].event \in t.shared)
          /\ Redirecting(t)
      BY <1>4, <2>1 DEF KnowsResult
    <2>3. attempts[t.row].kind = "alert"
      BY <2>1, <2>2 DEF KnowsResult, AskedOf, Redirecting
    <2>4. attempts[t.row].event \in u.exclusive
      BY <1>4, <2>2 DEF WaitsFor
    <2> QED
      BY <1>1, <2>2, <2>3, <2>4 DEF Compatible
  <1>5. CASE t.pc = "cancel"
    <2>1. t.todo \subseteq AlertsIn(attempts, t.event) /\ t.exclusive = {t.event}
      BY <1>1, <1>5, NoTxHolds DEF Knows, KnowsTransition
    <2>2. PICK a \in t.todo : a \in u.rows
      BY <1>5 DEF WaitsFor
    <2>3. attempts[a].kind = "alert" /\ attempts[a].event = t.event
      BY <2>1, <2>2 DEF AlertsIn
    <2> QED
      BY <1>1, <1>2, <2>1, <2>2, <2>3 DEF Compatible
  <1>6. CASE t.pc = "requeue"
    BY <1>6 DEF WaitsFor
  <1>7. CASE t.pc \in {"write", "requeue row"}
    BY <1>7 DEF WaitsFor
  <1>8. CASE t.pc \notin {"update state", "select", "muted?", "update severity", "resolved?", "cancel", "requeue", "write", "requeue row"}
    BY <1>8 DEF WaitsFor
  <1> QED
    BY <1>3, <1>4, <1>5, <1>6, <1>7, <1>8

\* What those that wait hold.
LEMMA WhatWaitersHold ==
    ASSUME LocksInv, NEW s \in Sessions
    PROVE  /\ tx[s].pc \in {"update state", "select", "muted?", "write"} => tx[s].rows = {}
           /\ tx[s].pc \in {"update state", "select", "muted?"} => tx[s].shared = {}
           /\ tx[s].pc \in {"update state", "select", "muted?", "write", "requeue", "requeue row"} =>
                 tx[s].exclusive = {}
           /\ tx[s].pc \in {"requeue", "requeue row"} => KnowsRequeue(tx[s], events, attempts)
  <1> DEFINE t == tx[s]
  <1>1. Knows(t, events, attempts)
    BY DEF LocksInv
  <1> HIDE DEF t
  <1>2. /\ t.pc \in {"update state", "select", "muted?", "write"} => t.rows = {}
        /\ t.pc \in {"update state", "select", "muted?"} => t.shared = {}
        /\ t.pc \in {"update state", "select", "muted?", "write", "requeue", "requeue row"} => t.exclusive = {}
        /\ t.pc \in {"requeue", "requeue row"} => KnowsRequeue(t, events, attempts)
    BY <1>1, NoTxHolds DEF Knows, KnowsTransition, KnowsRefresh, KnowsResult, KnowsRequeue
  <1> QED
    BY <1>2 DEF t

\* Among sessions that all wait for one of them, the row that the reaper asks
\* for is always below another such row: there is no greatest.
LEMMA NoCircle == LocksInv => NoLockCycle
  <1> SUFFICES ASSUME LocksInv, NEW W \in SUBSET Sessions, W # {},
                      \A s \in W : \E o \in W : WaitsFor(s, o)
               PROVE  FALSE
    BY DEF NoLockCycle
  <1> DEFINE V == {s \in W : tx[s].pc = "requeue row"}
             T == {tx[s].row : s \in V}
  <1>1. \A s \in W : tx[s].pc \in {"update state", "select", "muted?", "write", "requeue", "requeue row"}
    BY WhoWaits
  <1>2. \A s \in W : tx[s].exclusive = {}
    BY <1>1, WhatWaitersHold
  <1>3. \A s \in W : tx[s].pc # "requeue"
    BY <1>2, WhoWaits
  \* Who waits for a row waits for the reaper.
  <1>4. ASSUME NEW s \in W, tx[s].pc \in {"write", "requeue row"}
        PROVE  \E o \in V : tx[s].row \in tx[o].rows
    <2>1. PICK o \in W : WaitsFor(s, o)
      OBVIOUS
    <2>2. tx[s].row \in tx[o].rows
      BY <1>4, <2>1, WhoWaits
    <2>3. tx[o].pc = "requeue row"
      BY <1>1, <1>3, <2>2, WhatWaitersHold
    <2> QED
      BY <2>2, <2>3
  <1>5. V # {}
    <2>1. PICK s : s \in W
      OBVIOUS
    <2>2. PICK o \in W : WaitsFor(s, o)
      BY <2>1
    <2>3. tx[o].pc \in {"write", "requeue row"}
      <3> SUFFICES ASSUME tx[o].pc \in {"update state", "select", "muted?"} PROVE FALSE
        BY <1>1, <1>3
      <3>1. tx[o].exclusive = {} /\ tx[o].rows = {} /\ tx[o].shared = {}
        BY WhatWaitersHold
      <3> QED
        BY <2>2, <3>1 DEF WaitsFor
    <2> QED
      BY <1>4, <2>3
  <1>6. ASSUME NEW s \in V
        PROVE  tx[s].row \in 1 .. lastId /\ \E o \in V : tx[s].row < tx[o].row
    <2>1. DOMAIN attempts \subseteq 1 .. lastId
      BY DEF LocksInv, QueueInv, StoreTypeOK
    <2>2. PICK o \in V : tx[s].row \in tx[o].rows
      BY <1>4
    <2>3. KnowsRequeue(tx[s], events, attempts) /\ KnowsRequeue(tx[o], events, attempts)
      BY WhatWaitersHold
    <2>4. tx[s].row \in DOMAIN attempts
      BY <2>3 DEF KnowsRequeue
    <2>5. tx[o].row \in tx[o].todo
      BY <2>3 DEF KnowsRequeue
    <2>6. tx[s].row < tx[o].row
      BY <2>2, <2>3, <2>5 DEF KnowsRequeue
    <2> QED
      BY <2>1, <2>2, <2>4, <2>6
  <1>7. T \in SUBSET (1 .. lastId) /\ T # {} /\ lastId \in Nat
    BY <1>5, <1>6 DEF LocksInv, QueueInv, StoreTypeOK
  <1>8. \A m \in T : \E j \in T : m < j
    BY <1>6
  <1> HIDE DEF T
  <1>9. PICK m \in T : \A j \in T : j <= m
    BY <1>7, GreatestUpTo
  <1>10. PICK j \in T : m < j
    BY <1>8
  <1> QED
    BY <1>7, <1>9, <1>10

(***************************************************************************)
(* The transactions never wait for each other in a circle, whatever        *)
(* sessions run, requeues of many rows included (TransitionEvent,          *)
(* RefreshOpenEvent, mutedAlertCond, RequeueStuckSending).                 *)
(***************************************************************************)
THEOREM LocksNeverCycle == Spec => []NoLockCycle
  BY LocksInvariant, NoCircle, PTL
=============================================================================
