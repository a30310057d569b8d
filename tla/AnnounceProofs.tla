---------------------------- MODULE AnnounceProofs ----------------------------
(***************************************************************************)
(* Store implements Announcements, for every value of the constants: each  *)
(* effect a transaction can have on the rows (StoreStepEffects) is one     *)
(* step of the contract, or a step nobody notices.                         *)
(***************************************************************************)
EXTENDS StoreProofs, StoreAnnounces

\* Reading a notice off a row.
LEMMA NoticeOf ==
    /\ DOMAIN Notices = DOMAIN attempts
    /\ \A x \in DOMAIN attempts :
          /\ Notices[x].incident = attempts[x].event
          /\ Notices[x].channel = attempts[x].channel
          /\ Notices[x].kind = attempts[x].kind
          /\ Notices[x].follows = attempts[x].recoveryFor
          /\ Notices[x].copyOf = attempts[x].fallbackOf
          /\ Notices[x].fate = FateOf(attempts[x].state)
    BY DEF Notices

LEMMA NoticeOfNext ==
    /\ DOMAIN Notices' = DOMAIN attempts'
    /\ \A x \in DOMAIN attempts' :
          /\ Notices'[x].incident = attempts'[x].event
          /\ Notices'[x].channel = attempts'[x].channel
          /\ Notices'[x].kind = attempts'[x].kind
          /\ Notices'[x].follows = attempts'[x].recoveryFor
          /\ Notices'[x].copyOf = attempts'[x].fallbackOf
          /\ Notices'[x].fate = FateOf(attempts'[x].state)
    BY DEF Notices

LEMMA IncidentOf ==
    /\ DOMAIN Incidents = DOMAIN events
    /\ \A e \in DOMAIN events :
          Incidents[e] = IF events[e].state = "resolved" THEN "closed" ELSE "open"
    BY DEF Incidents

LEMMA FreshIsAdded == Promised!Fresh = Added
    BY NoticeOf, NoticeOfNext DEF Promised!Fresh, Added

LEMMA Fate ==
    /\ FateOf("pending") = "owed" /\ FateOf("sending") = "owed" /\ FateOf("failed") = "owed"
    /\ FateOf("sent") = "told" /\ FateOf("dead_letter") = "lost" /\ FateOf("cancelled") = "withdrawn"
    BY DEF FateOf

\* What becomes of a notice when its row moves, rests or is queued.
LEMMA NoticeMoves ==
    ASSUME NEW x \in DOMAIN attempts, Keeps(x)
    PROVE  /\ x \in DOMAIN Notices'
           /\ FateOf(attempts'[x].state) = FateOf(attempts[x].state) => Notices'[x] = Notices[x]
           /\ \A fate : FateOf(attempts'[x].state) = fate => Promised!Turns(x, fate)
  <1>1. /\ Notices[x] = [incident |-> attempts[x].event, channel |-> attempts[x].channel,
                         kind |-> attempts[x].kind, follows |-> attempts[x].recoveryFor,
                         copyOf |-> attempts[x].fallbackOf, fate |-> FateOf(attempts[x].state)]
        /\ Notices'[x] = [incident |-> attempts[x].event, channel |-> attempts[x].channel,
                          kind |-> attempts[x].kind, follows |-> attempts[x].recoveryFor,
                          copyOf |-> attempts[x].fallbackOf, fate |-> FateOf(attempts'[x].state)]
        /\ x \in DOMAIN Notices'
    BY DEF Notices, Keeps
  <1>2. \A fate : FateOf(attempts'[x].state) = fate => Promised!Turns(x, fate)
    BY <1>1 DEF Promised!Turns
  <1> QED
    BY <1>1, <1>2

LEMMA NoticeQueued ==
    ASSUME NEW x \in DOMAIN attempts', NEW e, NEW channel, NEW kind, NEW f, NEW r,
           attempts'[x] = PendingAttempt(e, channel, kind, f, r)
    PROVE  /\ Notices'[x] = Promised!Owed(e, channel, kind, r, f)
           /\ Notices'[x].channel = channel
           /\ Notices'[x].follows = r
  <1>1. attempts'[x].event = e /\ attempts'[x].channel = channel /\ attempts'[x].kind = kind
        /\ attempts'[x].fallbackOf = f /\ attempts'[x].recoveryFor = r /\ attempts'[x].state = "pending"
    BY PendingFields
  <1>2. Notices'[x] = [incident |-> e, channel |-> channel, kind |-> kind,
                       follows |-> r, copyOf |-> f, fate |-> "owed"]
    BY <1>1, Fate DEF Notices
  <1> QED
    BY <1>2 DEF Promised!Owed

LEMMA NoticesRest ==
    ASSUME NEW changed, \A x \in DOMAIN attempts : Keeps(x),
           \A x \in DOMAIN attempts \ changed :
              FateOf(attempts'[x].state) = FateOf(attempts[x].state)
    PROVE  Promised!KeepsAllBut(changed)
    BY NoticeOf, NoticeMoves DEF Promised!KeepsAllBut

\* Rows that rest are notices that stay.
LEMMA AllRest ==
    ASSUME \A x \in DOMAIN attempts : Rests(x)
    PROVE  Promised!KeepsAllBut({})
  <1>1. \A x \in DOMAIN attempts : Keeps(x) /\ FateOf(attempts'[x].state) = FateOf(attempts[x].state)
    BY DEF Rests, Keeps
  <1> QED
    BY <1>1, NoticesRest

\* Nothing changes for the notices.
LEMMA SameNotices ==
    ASSUME DOMAIN attempts' = DOMAIN attempts, Promised!KeepsAllBut({})
    PROVE  UNCHANGED Notices
  <1>1. /\ Notices = [x \in DOMAIN attempts |-> Notices[x]]
        /\ Notices' = [x \in DOMAIN attempts |-> Notices'[x]]
    BY DEF Notices
  <1>2. \A x \in DOMAIN attempts : Notices'[x] = Notices[x]
    BY NoticeOf DEF Promised!KeepsAllBut
  <1> QED
    BY <1>1, <1>2

LEMMA SameIncidents ==
    ASSUME DOMAIN events' = DOMAIN events,
           \A d \in DOMAIN events : events'[d].state = events[d].state
    PROVE  UNCHANGED Incidents
    BY DEF Incidents
-----------------------------------------------------------------------------
(***************************************************************************)
(* Each effect is a step of the contract.                                  *)
(***************************************************************************)

LEMMA AlertsPromised ==
    ASSUME NEW e, NEW skip, AddsAlerts(e, skip)
    PROVE  Promised!KeepsAllBut({}) /\ Promised!FreshAlerts(e, skip)
  <1>1. Promised!KeepsAllBut({})
    BY AllRest DEF AddsAlerts
  <1>2. ASSUME NEW x \in Added
        PROVE  /\ Notices'[x].channel \notin skip
               /\ Notices'[x] = Promised!Owed(e, Notices'[x].channel, "alert", NoLink, NoLink)
    <2>1. /\ x \in DOMAIN attempts'
          /\ attempts'[x].channel \notin skip
          /\ attempts'[x] = PendingAttempt(e, attempts'[x].channel, "alert", NoLink, NoLink)
      BY DEF AddsAlerts, Added
    <2> QED
      BY <2>1, NoticeQueued
  <1> QED
    BY <1>1, <1>2, FreshIsAdded DEF Promised!FreshAlerts, Promised!None, NoLink

LEMMA CreatesPromised ==
    ASSUME NEW e, NEW key, Creates(e, key)
    PROVE  Promised!AnnounceNext
  <1>1. e \in DOMAIN Incidents' \ DOMAIN Incidents
    BY DEF Creates, Incidents
  <1>2. Incidents' = [x \in DOMAIN Incidents \cup {e} |-> IF x = e THEN "open" ELSE Incidents[x]]
    <2>1. DOMAIN Incidents = DOMAIN events
      BY DEF Incidents
    <2>2. Incidents' = [x \in DOMAIN events \cup {e} |-> IF events'[x].state = "resolved" THEN "closed" ELSE "open"]
      BY DEF Incidents, Creates
    <2>3. \A x \in DOMAIN events \cup {e} :
            (IF events'[x].state = "resolved" THEN "closed" ELSE "open") =
            (IF x = e THEN "open" ELSE Incidents[x])
      BY DEF Incidents, Creates
    <2> QED
      BY <2>1, <2>2, <2>3
  <1>3. Promised!KeepsAllBut({}) /\ Promised!FreshAlerts(e, {})
    BY AlertsPromised DEF Creates
  <1>4. Promised!Open
    BY <1>1, <1>2, <1>3 DEF Promised!Open
  <1> QED
    BY <1>4 DEF Promised!AnnounceNext

LEMMA RefreshesPromised ==
    ASSUME NEW e, Refreshes(e)
    PROVE  Promised!AnnounceNext
  <1>1. UNCHANGED Incidents
    BY SameIncidents DEF Refreshes
  <1>2. Promised!KeepsAllBut({}) /\ Promised!FreshAlerts(e, AlertChannelNames(e))
    BY AlertsPromised DEF Refreshes
  <1>3. CASE Added = {}
    <2>1. DOMAIN attempts' = DOMAIN attempts
      BY <1>3 DEF Refreshes, AddsAlerts, Rests, Added
    <2> QED
      BY <1>1, <1>2, <2>1, SameNotices
      DEF Promised!AnnounceNext, Promised!Unnoticed, Promised!announceVars
  <1>4. CASE Added # {}
    <2>1. e \in DOMAIN Incidents /\ Incidents[e] = "open"
      BY <1>4, IncidentOf DEF Refreshes
    <2>2. AlertChannelNames(e) = {Notices[n].channel : n \in Promised!AlertsOn(e)}
      <3>1. Promised!AlertsOn(e) = AlertsOf(e)
        BY NoticeOf DEF Promised!AlertsOn, AlertsOf
      <3> QED
        BY <3>1, NoticeOf DEF AlertChannelNames, AlertsOf
    <2>3. Promised!Widen
      BY <1>1, <1>2, <1>4, <2>1, <2>2, FreshIsAdded DEF Promised!Widen
    <2> QED
      BY <2>3 DEF Promised!AnnounceNext
  <1> QED
    BY <1>3, <1>4

\* A withdrawn notice is a cancelled row.
LEMMA WithdrawnIsCancelled == \A state : FateOf(state) = "withdrawn" <=> state = "cancelled"
    BY DEF FateOf

\* Some alerts are cancelled while their incident is open, and nothing else.
LEMMA CancelsPromised ==
    ASSUME UNCHANGED Incidents, DOMAIN attempts' = DOMAIN attempts, NEW called,
           called \subseteq DOMAIN attempts,
           \A x \in DOMAIN attempts : Keeps(x),
           \A x \in DOMAIN attempts \ called :
              FateOf(attempts'[x].state) = FateOf(attempts[x].state),
           \A x \in called : /\ FateOf(attempts[x].state) = "owed"
                              /\ FateOf(attempts'[x].state) = "withdrawn"
                              /\ attempts[x].kind = "alert"
                              /\ Incidents[attempts[x].event] = "open"
    PROVE  Promised!AnnounceNext
  <1>1. Promised!KeepsAllBut(called)
    BY NoticesRest
  <1>2. Promised!Fresh = {}
    BY FreshIsAdded DEF Added
  <1>3. CASE called = {}
    <2>1. UNCHANGED Notices
      BY <1>1, <1>3, SameNotices
    <2> QED
      BY <2>1 DEF Promised!AnnounceNext, Promised!Unnoticed, Promised!announceVars
  <1>4. CASE called # {}
    <2>1. called \in SUBSET {n \in DOMAIN Notices : /\ Notices[n].fate = "owed"
                                                    /\ Notices[n].kind = "alert"
                                                    /\ Incidents[Notices[n].incident] = "open"}
      BY NoticeOf
    <2>2. \A x \in called : Promised!Turns(x, "withdrawn")
      BY NoticeMoves
    <2>3. Promised!Withdraw
      BY <1>1, <1>2, <1>4, <2>1, <2>2 DEF Promised!Withdraw
    <2> QED
      BY <2>3 DEF Promised!AnnounceNext
  <1> QED
    BY <1>3, <1>4

LEMMA ClosesPromised ==
    ASSUME NEW e, Moves(e, "resolved")
    PROVE  Promised!AnnounceNext
  <1>1. e \in DOMAIN Incidents /\ Incidents[e] = "open"
    BY IncidentOf DEF Moves
  <1>2. Incidents' = [Incidents EXCEPT ![e] = "closed"]
    <2>1. Incidents' = [x \in DOMAIN events |-> IF events'[x].state = "resolved" THEN "closed" ELSE "open"]
      BY DEF Incidents, Moves
    <2>2. [Incidents EXCEPT ![e] = "closed"] =
            [x \in DOMAIN events |-> IF x = e THEN "closed" ELSE Incidents[x]]
      BY DEF Incidents
    <2>3. \A x \in DOMAIN events :
            (IF events'[x].state = "resolved" THEN "closed" ELSE "open") =
            (IF x = e THEN "closed" ELSE Incidents[x])
      BY IncidentOf DEF Moves
    <2> QED
      BY <2>1, <2>2, <2>3
  <1>3. \A x \in DOMAIN attempts : Rests(x)
    BY DEF Moves
  <1>4. Promised!KeepsAllBut({})
    BY <1>3, AllRest
  <1> DEFINE alerts == {n \in Promised!AlertsOn(e) : Notices[n].fate # "withdrawn"}
  <1>5. alerts = AlertsToRecover(e) /\ \A a \in alerts : Notices[a].channel = attempts[a].channel
    BY NoticeOf, WithdrawnIsCancelled DEF Promised!AlertsOn, AlertsToRecover, AlertsOf
  <1> HIDE DEF alerts
  <1>6. CASE Added = {}
    <2>1. Promised!Close
      BY <1>1, <1>2, <1>4, <1>6, FreshIsAdded DEF Promised!Close
    <2> QED
      BY <2>1 DEF Promised!AnnounceNext
  <1>7. CASE AddsRecoveries(e)
    <2>1. \A r \in Added : \E a \in alerts :
              Notices'[r] = Promised!Owed(e, Notices[a].channel, "recovery", a, NoLink)
      <3> SUFFICES ASSUME NEW r \in Added
                   PROVE  \E a \in alerts :
                             Notices'[r] = Promised!Owed(e, Notices[a].channel, "recovery", a, NoLink)
        OBVIOUS
      <3>1. PICK a \in AlertsToRecover(e) :
                attempts'[r] = PendingAttempt(e, attempts[a].channel, "recovery", NoLink, a)
        BY <1>7 DEF AddsRecoveries
      <3> QED
        BY <1>5, <3>1, NoticeQueued DEF Added
    <2>2. \A a \in alerts : \E r \in Added : \A s \in Added : Notices'[s].follows = a <=> s = r
      BY <1>5, <1>7, NoticeOfNext DEF AddsRecoveries, Added
    <2>3. /\ \A r \in Promised!Fresh : \E a \in alerts :
                Notices'[r] = Promised!Owed(e, Notices[a].channel, "recovery", a, Promised!None)
          /\ \A a \in alerts : \E r \in Promised!Fresh :
                \A s \in Promised!Fresh : Notices'[s].follows = a <=> s = r
      BY <2>1, <2>2, FreshIsAdded DEF Promised!None, NoLink
    <2>4. Promised!Close
      BY <1>1, <1>2, <1>4, <2>3, Zenon DEF Promised!Close, alerts
    <2> QED
      BY <2>4 DEF Promised!AnnounceNext
  <1> QED
    BY <1>6, <1>7 DEF Moves

LEMMA MovesPromised ==
    ASSUME NEW e, NEW to, Moves(e, to)
    PROVE  Promised!AnnounceNext
  <1>1. CASE to = "resolved"
    BY <1>1, ClosesPromised
  <1>2. CASE to # "resolved"
    <2> DEFINE called == {x \in AlertsOf(e) : to = "muted" /\ attempts[x].state \in {"pending", "failed"}}
    <2>1. UNCHANGED Incidents
      BY <1>2 DEF Incidents, Moves
    <2>2. \A x \in DOMAIN attempts :
            IF x \in called THEN Becomes(x, "cancelled", attempts[x].attempts, "null") ELSE Rests(x)
      BY DEF Moves
    <2>3. \A x \in called : /\ x \in DOMAIN attempts
                             /\ attempts[x].state \in {"pending", "failed"}
                             /\ attempts[x].kind = "alert"
                             /\ Incidents[attempts[x].event] = "open"
      BY IncidentOf DEF AlertsOf, Moves
    <2>4. DOMAIN attempts' = DOMAIN attempts
      <3>1. Added = {} /\ \A x \in DOMAIN attempts : x \in DOMAIN attempts'
        BY <1>2 DEF Moves, Becomes, Keeps, Rests
      <3> QED
        BY <3>1 DEF Added
    <2> HIDE DEF called
    <2>5. \A x \in DOMAIN attempts : Keeps(x)
      BY <2>2 DEF Becomes, Rests, Keeps
    <2>6. \A x \in DOMAIN attempts \ called : FateOf(attempts'[x].state) = FateOf(attempts[x].state)
      BY <2>2 DEF Rests
    <2>7. \A x \in called : /\ FateOf(attempts[x].state) = "owed"
                             /\ FateOf(attempts'[x].state) = "withdrawn"
      BY <2>2, <2>3, Fate DEF Becomes
    <2> QED
      BY <2>1, <2>3, <2>4, <2>5, <2>6, <2>7, CancelsPromised
  <1> QED
    BY <1>1, <1>2

\* The alerts of a muted event belong to an open incident.
LEMMA MutedIsOpen ==
    ASSUME AttemptsOwned, NEW x \in DOMAIN attempts, MutedAlert(x)
    PROVE  attempts[x].kind = "alert" /\ Incidents[attempts[x].event] = "open"
    BY IncidentOf DEF AttemptsOwned, MutedAlert

LEMMA TogetherPromised ==
    ASSUME AttemptsOwned, UNCHANGED events, DOMAIN attempts' = DOMAIN attempts,
           \A x \in DOMAIN attempts : Rests(x) \/ MovesTogether(x)
    PROVE  Promised!AnnounceNext
  <1> DEFINE called == {x \in DOMAIN attempts : /\ attempts[x].state = "sending"
                                                /\ attempts'[x].state = "cancelled"}
  <1>1. UNCHANGED Incidents
    BY DEF Incidents
  <1>2. \A x \in DOMAIN attempts : Keeps(x)
    BY DEF Rests, MovesTogether, Becomes, Keeps
  <1>3. ASSUME NEW x \in DOMAIN attempts \ called
        PROVE  FateOf(attempts'[x].state) = FateOf(attempts[x].state)
    <2>1. CASE Rests(x)
      BY <2>1 DEF Rests
    <2>2. CASE MovesTogether(x)
      <3>1. /\ attempts[x].state \in {"pending", "failed", "sending"}
            /\ attempts'[x].state \in {"sending", "pending"}
        BY <2>2 DEF MovesTogether, Deliverable, Becomes
      <3> QED
        BY <3>1, Fate
    <2> QED
      BY <2>1, <2>2
  <1>4. ASSUME NEW x \in called
        PROVE  /\ FateOf(attempts[x].state) = "owed"
               /\ FateOf(attempts'[x].state) = "withdrawn"
               /\ attempts[x].kind = "alert"
               /\ Incidents[attempts[x].event] = "open"
    <2>1. x \in DOMAIN attempts /\ MutedAlert(x)
      BY DEF Rests, MovesTogether, Becomes
    <2> QED
      BY <2>1, Fate, MutedIsOpen
  <1>5. called \subseteq DOMAIN attempts
    OBVIOUS
  <1> HIDE DEF called
  <1> QED
    BY <1>1, <1>2, <1>3, <1>4, <1>5, CancelsPromised

LEMMA AlonePromised ==
    ASSUME AttemptsOwned, RecoveryAfterAlert, UNCHANGED events, DOMAIN attempts' = DOMAIN attempts,
           NEW a \in DOMAIN attempts, MovesAlone(a), \A x \in DOMAIN attempts \ {a} : Rests(x)
    PROVE  Promised!AnnounceNext
  <1>1. UNCHANGED Incidents
    BY DEF Incidents
  <1>2. \A x \in DOMAIN attempts : Keeps(x)
    BY DEF Rests, MovesAlone, Becomes, Keeps
  <1>3. \A x \in DOMAIN attempts \ {a} : FateOf(attempts'[x].state) = FateOf(attempts[x].state)
    BY DEF Rests
  <1>4. /\ a \in DOMAIN Notices
        /\ Promised!KeepsAllBut({a})
        /\ Promised!Fresh = {}
        /\ Promised!Turns(a, FateOf(attempts'[a].state))
        /\ Notices[a].fate = FateOf(attempts[a].state)
    BY <1>2, <1>3, NoticesRest, NoticeMoves, NoticeOf, FreshIsAdded DEF Added
  <1>5. CASE FateOf(attempts'[a].state) = FateOf(attempts[a].state)
    <2>1. \A x \in DOMAIN attempts : FateOf(attempts'[x].state) = FateOf(attempts[x].state)
      BY <1>3, <1>5
    <2>2. UNCHANGED Notices
      BY <1>2, <2>1, NoticesRest, SameNotices
    <2> QED
      BY <1>1, <2>2 DEF Promised!AnnounceNext, Promised!Unnoticed, Promised!announceVars
  <1>6. CASE attempts[a].state = "sending" /\ attempts'[a].state = "sent"
    <2>1. Notices[a].kind = "recovery" => Notices[Notices[a].follows].fate = "told"
      <3> SUFFICES ASSUME attempts[a].kind = "recovery"
                   PROVE  Notices[attempts[a].recoveryFor].fate = "told"
        BY NoticeOf
      <3>1. /\ attempts[a].recoveryFor \in DOMAIN attempts
            /\ attempts[attempts[a].recoveryFor].state = "sent"
        BY <1>6 DEF RecoveryAfterAlert
      <3> QED
        BY <3>1, NoticeOf, Fate
    <2>2. Notices[a].fate = "owed" /\ Promised!Turns(a, "told")
      BY <1>4, <1>6, Fate
    <2>3. Promised!Tell
      BY <1>1, <1>4, <2>1, <2>2 DEF Promised!Tell
    <2> QED
      BY <2>3 DEF Promised!AnnounceNext
  <1>7. CASE attempts[a].state = "sending" /\ attempts'[a].state = "dead_letter"
    <2>1. Notices[a].fate = "owed" /\ Promised!Turns(a, "lost")
      BY <1>4, <1>7, Fate
    <2>2. Promised!GiveUp
      BY <1>1, <1>4, <2>1 DEF Promised!GiveUp
    <2> QED
      BY <2>2 DEF Promised!AnnounceNext
  <1>8. CASE attempts[a].state = "sending" /\ attempts'[a].state = "cancelled" /\ MutedAlert(a)
    <2>1. /\ FateOf(attempts[a].state) = "owed" /\ FateOf(attempts'[a].state) = "withdrawn"
          /\ attempts[a].kind = "alert" /\ Incidents[attempts[a].event] = "open"
      BY <1>8, Fate, MutedIsOpen
    <2> QED
      BY <1>1, <1>2, <1>3, <2>1, CancelsPromised
  <1>9. CASE attempts[a].state = "dead_letter" /\ attempts'[a].state = "pending"
    <2>1. Notices[a].fate = "lost" /\ Promised!Turns(a, "owed")
      BY <1>4, <1>9, Fate
    <2>2. Promised!Revive
      BY <1>1, <1>4, <2>1 DEF Promised!Revive
    <2> QED
      BY <2>2 DEF Promised!AnnounceNext
  <1>10. CASE attempts[a].state = "sending" /\ attempts'[a].state \in {"failed", "pending"}
    BY <1>5, <1>10, Fate
  <1> QED
    BY <1>5, <1>6, <1>7, <1>8, <1>9, <1>10 DEF MovesAlone, Becomes

LEMMA RedirectsPromised ==
    ASSUME AttemptsOwned, NEW a, Redirects(a), StoreTypeOK
    PROVE  Promised!AnnounceNext
  <1> DEFINE e       == attempts[a].event
             channel == Fallback[attempts[a].channel]
             late    == events[e].state = "resolved" /\ RecoveriesOf(e) # {}
             lateOn  == Incidents[e] = "closed" /\ Promised!RecoveriesOn(e) # {}
  <1>1. UNCHANGED Incidents /\ a \in DOMAIN attempts /\ a \in DOMAIN Notices
    BY NoticeOf DEF Incidents, Redirects
  <1>2. \A x \in DOMAIN attempts : Keeps(x)
    BY DEF Redirects, Rests, Becomes, Keeps
  <1>3. \A x \in DOMAIN attempts \ {a} : FateOf(attempts'[x].state) = FateOf(attempts[x].state)
    BY DEF Redirects, Rests
  <1>4. Promised!KeepsAllBut({a})
    BY <1>2, <1>3, NoticesRest
  <1>5. Notices[a].fate = "owed" /\ Promised!Turns(a, "lost")
    <2>1. FateOf(attempts[a].state) = "owed" /\ FateOf(attempts'[a].state) = "lost"
      BY Fate DEF Redirects, Becomes
    <2> QED
      BY <1>1, <1>2, <2>1, NoticeOf, NoticeMoves
  <1>6. late = lateOn
    <2>1. Promised!RecoveriesOn(e) = RecoveriesOf(e)
      BY NoticeOf DEF Promised!RecoveriesOn, RecoveriesOf
    <2>2. (Incidents[e] = "closed") = (events[e].state = "resolved")
      BY <1>1, IncidentOf DEF AttemptsOwned
    <2> QED
      BY <2>1, <2>2
  <1>7. /\ Notices[a].incident = e /\ Notices[a].kind = "alert" /\ Notices[a].copyOf = Promised!None
        /\ Notices[a].channel = attempts[a].channel
        /\ \A c \in DOMAIN Notices : Notices[c].copyOf # a
    BY <1>1, NoticeOf DEF Redirects, Redirected, Promised!None, NoLink
  <1>8. channel # attempts[a].channel
    BY <1>1, FallbackAssumption DEF StoreTypeOK, Attempt
  <1>9. PICK c \in Added :
          /\ attempts'[c] = PendingAttempt(e, channel, "alert", a, NoLink)
          /\ \/ ~late /\ Added = {c}
             \/ /\ late
                /\ \E r \in Added \ {c} :
                      /\ Added = {c, r}
                      /\ attempts'[r] = PendingAttempt(e, channel, "recovery", NoLink, c)
    BY DEF Redirects
  <1>10. /\ Notices'[c].channel = channel
         /\ Notices'[c] = Promised!Owed(e, channel, "alert", Promised!None, a)
    BY <1>9, NoticeQueued DEF Added, Promised!None, NoLink
  <1>11. \/ ~late /\ Promised!Fresh = {c}
         \/ /\ late
            /\ \E r \in Promised!Fresh \ {c} :
                  /\ Promised!Fresh = {c, r}
                  /\ Notices'[r] = Promised!Owed(e, channel, "recovery", c, Promised!None)
    <2>1. CASE ~late
      BY <1>9, <2>1, FreshIsAdded
    <2>2. CASE late
      <3>1. PICK r \in Added \ {c} :
              Added = {c, r} /\ attempts'[r] = PendingAttempt(e, channel, "recovery", NoLink, c)
        BY <1>9, <2>2
      <3>2. Notices'[r] = Promised!Owed(e, channel, "recovery", c, Promised!None)
        BY <3>1, NoticeQueued DEF Added, Promised!None, NoLink
      <3> QED
        BY <2>2, <3>1, <3>2, FreshIsAdded
    <2> QED
      BY <2>1, <2>2
  <1> HIDE DEF e, channel, late
  <1>12. Promised!Copied(a)
    BY <1>6, <1>7, <1>8, <1>9, <1>10, <1>11, FreshIsAdded DEF Promised!Copied
  <1>13. Promised!GiveUp
    BY <1>1, <1>4, <1>5, <1>12 DEF Promised!GiveUp
  <1> QED
    BY <1>13 DEF Promised!AnnounceNext

LEMMA RemovesPromised ==
    ASSUME NEW old, Removes(old)
    PROVE  Promised!AnnounceNext
  <1>1. old \in SUBSET DOMAIN Incidents /\ old # {}
    BY IncidentOf DEF Removes
  <1>2. Incidents' = [i \in DOMAIN Incidents \ old |-> Incidents[i]]
    BY DEF Incidents, Removes
  <1>3. Notices' = [n \in {m \in DOMAIN Notices : Notices[m].incident \notin old} |-> Notices[n]]
    <2>1. {m \in DOMAIN Notices : Notices[m].incident \notin old} = DOMAIN attempts'
      BY NoticeOf DEF Removes
    <2>2. \A n \in DOMAIN attempts' : n \in DOMAIN attempts /\ Keeps(n) /\ attempts'[n].state = attempts[n].state
      BY DEF Removes, Keeps
    <2>3. \A n \in DOMAIN attempts' : Notices'[n] = Notices[n]
      BY <2>2, NoticeMoves
    <2>4. Notices' = [n \in DOMAIN attempts' |-> Notices'[n]]
      BY DEF Notices
    <2> QED
      BY <2>1, <2>3, <2>4
  <1>4. Promised!Forget
    BY <1>1, <1>2, <1>3 DEF Promised!Forget
  <1> QED
    BY <1>4 DEF Promised!AnnounceNext

(***************************************************************************)
(* The store keeps what it promises (storage.go), for every value of the   *)
(* constants: StoreSpec implements Announcements.                          *)
(***************************************************************************)
THEOREM StoreImplementsAnnouncements == StoreSpec => KeepsPromises
  <1>1. StoreInit => Promised!AnnounceInit
    BY EmptyTable DEF StoreInit, Promised!AnnounceInit, Incidents, Notices
  <1>2. QueueInv /\ [StoreNext]_storeVars => [Promised!AnnounceNext]_Promised!announceVars
    <2> SUFFICES ASSUME QueueInv, [StoreNext]_storeVars PROVE Promised!AnnounceNext
      OBVIOUS
    <2>1. QueueMoves => Promised!AnnounceNext
      BY TogetherPromised, AlonePromised DEF QueueMoves, QueueInv
    <2> QED
      BY <2>1, StoreStepEffects, CreatesPromised, RefreshesPromised, MovesPromised,
         RedirectsPromised, RemovesPromised DEF QueueInv
  <1> QED
    BY <1>1, <1>2, QueueInvariant, PTL DEF StoreSpec, KeepsPromises, Promised!AnnounceSpec
=============================================================================
