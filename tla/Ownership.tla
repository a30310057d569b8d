------------------------------ MODULE Ownership ------------------------------
(***************************************************************************)
(* Who may report on a dedupe key (IngestService.IngestFor and resolve): an *)
(* API key limited to some sources is refused access to an event of another *)
(* source, however its request meets that event.  The events are those of   *)
(* one dedupe key; severities and deliveries are left to AlertLoop.         *)
(***************************************************************************)
EXTENDS Domain, FiniteSets, Functions

CONSTANTS
    Reporters,     \* requests served at the same time
    Sources,
    NoSource,    \* a `resolved` report may name no source
    Limits,      \* the sources of an API key, or NoLimit
    NoLimit,
    MaxReported  \* bound: how many events the key ever has

ASSUME OwnershipAssumption ==
    /\ NoSource \notin Sources
    /\ Limits \subseteq {NoLimit} \cup SUBSET Sources
    /\ MaxReported \in Nat

VARIABLES
    held,     \* id -> row of an event: its source, its state, what was last said of it
    given,    \* event ids 1..given have been given out
    reports   \* reporter -> where its request is

ownVars == <<held, given, reports>>

AtRest == [pc |-> "rest"]

OwnInit ==
    /\ held = <<>>
    /\ given = 0
    /\ reports = [c \in Reporters |-> AtRest]

OpenNow == {e \in DOMAIN held : held[e].state # "resolved"}

Becomes(c, request) == reports' = [reports EXCEPT ![c] = request]

OnlyReport(c, request) == Becomes(c, request) /\ UNCHANGED <<held, given>>

\* The answer shows the event.
Showing(c, source) == [pc |-> "answered", allowed |-> reports[c].allowed, shown |-> source]

\* Fault: the source of the request decides, not that of the event.
CheckOwnerByRequest(q, e) == q.allowed = NoLimit \/ q.source = NoSource \/ q.source \in q.allowed

CheckOwner(q, e) == q.allowed = NoLimit \/ held[e].source \in q.allowed

\* A report arrives; one that names a source outside the key's is refused.
Reported(c) ==
    /\ reports[c] = AtRest
    /\ \E allowed \in Limits, source \in Sources \cup {NoSource}, status \in {"", "firing", "resolved"} :
        /\ source = NoSource => status = "resolved"
        /\ allowed # NoLimit /\ source # NoSource => source \in allowed
        /\ OnlyReport(c, [pc |-> IF status = "resolved" THEN "find" ELSE "lookup",
                          allowed |-> allowed, source |-> source, status |-> status, again |-> FALSE])

\* CreateEventWithDeliveries returned the open event e: refused, answered, or,
\* for the first try of a `firing`, refreshed.
Met(c, e) ==
    LET q == reports[c]
    IN OnlyReport(c, IF ~CheckOwner(q, e) THEN AtRest
                     ELSE IF q.status # "firing" \/ q.again THEN Showing(c, held[e].source)
                     ELSE [pc |-> "refresh", allowed |-> q.allowed, source |-> q.source, event |-> e])

LookFor(c) ==
    /\ reports[c].pc = "lookup"
    /\ IF OpenNow = {} THEN OnlyReport(c, [reports[c] EXCEPT !.pc = "insert"])
                       ELSE \E e \in OpenNow : Met(c, e)

InsertOwn(c) ==
    /\ reports[c].pc = "insert"
    /\ \/ /\ OpenNow = {} /\ given < MaxReported
          /\ given' = given + 1
          /\ held' = [e \in DOMAIN held \cup {given + 1} |->
                IF e \in DOMAIN held THEN held[e]
                ELSE [source |-> reports[c].source, state |-> "new", said |-> reports[c].source]]
          /\ Becomes(c, Showing(c, reports[c].source))
       \/ OpenNow # {} /\ OnlyReport(c, [reports[c] EXCEPT !.pc = "conflict"])

\* After the unique violation the open event is read, or is gone again.
MeetConflict(c) ==
    /\ reports[c].pc = "conflict"
    /\ \/ OpenNow = {} /\ OnlyReport(c, AtRest)
       \/ \E e \in OpenNow : Met(c, e)

\* RefreshOpenEvent by id; when it was closed meanwhile, one more create.
RefreshMet(c) ==
    /\ reports[c].pc = "refresh"
    /\ LET e == reports[c].event
       IN IF e \in OpenNow
            THEN /\ held' = [held EXCEPT ![e].said = reports[c].source]
                 /\ Becomes(c, Showing(c, held[e].source))
                 /\ UNCHANGED given
            ELSE OnlyReport(c, [pc |-> "lookup", allowed |-> reports[c].allowed,
                                source |-> reports[c].source, status |-> "firing", again |-> TRUE])
-----------------------------------------------------------------------------
(********************************* resolve *********************************)

\* transition, asked to close e.
CloseMet(c, e, try) ==
    OnlyReport(c, IF held[e].state = "resolved" THEN Showing(c, held[e].source)
                  ELSE [pc |-> "update", allowed |-> reports[c].allowed,
                        event |-> e, from |-> held[e].state, try |-> try])

MetForClose(c, e) == IF CheckOwner(reports[c], e) THEN CloseMet(c, e, 1) ELSE OnlyReport(c, AtRest)

\* EventByDedupe: the open event,
FindOpen(c) ==
    /\ reports[c].pc = "find"
    /\ IF OpenNow = {} THEN OnlyReport(c, [reports[c] EXCEPT !.pc = "latest"])
                       ELSE \E e \in OpenNow : MetForClose(c, e)

\* or the latest one.
FindLatest(c) ==
    /\ reports[c].pc = "latest"
    /\ \/ held = <<>> /\ OnlyReport(c, AtRest)
       \/ \E e \in DOMAIN held : (\A d \in DOMAIN held : d <= e) /\ MetForClose(c, e)

UpdateMet(c) ==
    /\ reports[c].pc = "update"
    /\ LET q == reports[c]
       IN IF q.event \in DOMAIN held /\ held[q.event].state = q.from
            THEN /\ held' = [held EXCEPT ![q.event].state = "resolved"]
                 /\ Becomes(c, Showing(c, held[q.event].source))
                 /\ UNCHANGED given
            ELSE OnlyReport(c, [q EXCEPT !.pc = "reread"])

\* maxTransitionTries is three.
RereadMet(c) ==
    /\ reports[c].pc = "reread"
    /\ LET q == reports[c]
       IN IF q.event \in DOMAIN held /\ q.try < 3
            THEN CloseMet(c, q.event, q.try + 1)
            ELSE OnlyReport(c, AtRest)

Answered(c) == reports[c].pc = "answered" /\ OnlyReport(c, AtRest)
-----------------------------------------------------------------------------
\* Operators of the console are not limited to sources (EventService.Apply).
Operate ==
    \E e \in DOMAIN held, action \in {"mute", "unmute", "resolve"} :
        /\ ApplyAction(held[e].state, action) \notin {Refused, held[e].state}
        /\ held' = [held EXCEPT ![e].state = ApplyAction(held[e].state, action)]
        /\ UNCHANGED <<given, reports>>

Expire ==
    \E e \in DOMAIN held :
        /\ held' = Restrict(held, DOMAIN held \ {e})
        /\ UNCHANGED <<given, reports>>

OwnNext ==
    \/ \E c \in Reporters :
        \/ Reported(c)
        \/ LookFor(c)
        \/ InsertOwn(c)
        \/ MeetConflict(c)
        \/ RefreshMet(c)
        \/ FindOpen(c)
        \/ FindLatest(c)
        \/ UpdateMet(c)
        \/ RereadMet(c)
        \/ Answered(c)
    \/ Operate
    \/ Expire

OwnSpec == OwnInit /\ [][OwnNext]_ownVars
-----------------------------------------------------------------------------
\* A limited API key neither touches nor learns of an event of a source that is
\* not its own: no step of its report creates, refreshes or closes one, and none
\* answers with one, on any of the ways an event is found (the lookup, the
\* unique violation, the second create after a close, the latest closed event),
\* although the key may be closed and opened again by another source between
\* the check and the write (IngestFor: "fails with domain.ErrSourceNotAllowed
\* and changes nothing"; resolve, checkOwner).
OthersUntouched ==
    [][\A c \in Reporters :
         reports'[c] # reports[c] /\ reports[c] # AtRest /\ reports[c].pc # "answered"
         /\ reports[c].allowed # NoLimit =>
           /\ \A e \in DOMAIN held' :
                e \notin DOMAIN held \/ held'[e] # held[e]
                => held'[e].source \in reports[c].allowed
           /\ reports'[c].pc = "answered" => reports'[c].shown \in reports[c].allowed]_ownVars
=============================================================================
