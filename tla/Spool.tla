------------------------------- MODULE Spool --------------------------------
(***************************************************************************)
(* The sender of the Monit integration (integrations/monit/alertloop-send). *)
(* Each run reports one event and ends; what cannot be sent now is kept as  *)
(* a file in the spool directory and sent, oldest first, by the next run or *)
(* by --flush, which a timer calls.  Runs overlap: the lock of the spool    *)
(* lets one send at a time, and a run that waits too long for it puts its   *)
(* event into the spool without the lock.  An answer may get lost, with or  *)
(* without the event having arrived; a run may be killed anywhere.          *)
(***************************************************************************)
EXTENDS Integers, FiniteSets

CONSTANTS
    Senders,      \* runs with an event that can overlap
    Timer,        \* the run of --flush
    Nobody,
    Reports,      \* what a check reports: key, says, and whether AlertLoop can take it
    SpoolMax,     \* ALERTLOOP_SPOOL_MAX
    RetryCount,   \* ALERTLOOP_RETRY_COUNT
    MaxReports,   \* bound: events that enter the order of sending
    MaxFaults     \* bound: kills and failed writes

ASSUME SpoolAssumption ==
    /\ Timer \notin Senders /\ Nobody \notin Senders \cup {Timer}
    /\ SpoolMax \in Nat \ {0} /\ RetryCount \in Nat /\ MaxReports \in Nat /\ MaxFaults \in Nat

VARIABLES
    spool,      \* the files *.json: name, the order to send in, and event
    holder,     \* the run that holds .lock
    runs,       \* run -> where it is and what it carries
    clock,      \* the last file name given
    given,      \* events that took their place in the order so far
    kept,       \* events that a run reported as kept (the event that stands for it)
    accounted,  \* events that arrived, or whose refusal or loss was told
    faults,     \* kills and failed writes so far
    latest      \* key -> the last event that arrived, and the last sent under the lock

spoolVars == <<spool, holder, runs, clock, given, kept, accounted, faults, latest>>

RunIds == Senders \cup {Timer}
NoReport == [id |-> 0]
Rest == [pc |-> "idle", event |-> NoReport, files |-> {}, tries |-> 0, name |-> 0]

SpoolInit ==
    /\ spool = {} /\ holder = Nobody /\ clock = 0 /\ given = 0
    /\ runs = [p \in RunIds |-> Rest]
    /\ kept = {} /\ accounted = {} /\ faults = 0
    /\ latest = [k \in {r.key : r \in Reports} |-> [last |-> NoReport, underLock |-> 0]]

Fault == faults < MaxFaults /\ faults' = faults + 1

Proceed(p, change) == runs' = [runs EXCEPT ![p] = change]

\* The lock goes with the process.
Exit(p) ==
    /\ Proceed(p, Rest)
    /\ holder' = IF holder = p THEN Nobody ELSE holder

\* AlertLoop takes the event.
Arrives(e) ==
    /\ accounted' = accounted \cup {e.id}
    /\ latest' = [latest EXCEPT ![e.key] =
            [last |-> e, underLock |-> IF e.underLock THEN e.id ELSE @.underLock]]

\* A post without an answer, with one that asks to come back (409, 429, 5xx) or
\* with a refusal of the host (401, 403, 404).
MayArrive(e) == (e.valid /\ Arrives(e)) \/ UNCHANGED <<accounted, latest>>
-----------------------------------------------------------------------------
(********************************** lock ***********************************)

\* A run that waits for the lock has done nothing yet: it is idle until it
\* gets the lock or gives up on it.  Then its event takes its place in the
\* order.  (A run that cannot use the directory posts its event past the spool
\* and leaves no trace here.)
Place(p, run, underLock) ==
    /\ given < MaxReports
    /\ given' = given + 1
    /\ \E r \in Reports :
         Proceed(p, [run EXCEPT !.event =
            [id |-> given + 1, key |-> r.key, says |-> r.says, valid |-> r.valid, underLock |-> underLock]])

\* The files are listed as flush begins.
TakeLock(p) ==
    LET flush == [Rest EXCEPT !.pc = "flush", !.files = spool]
    IN /\ runs[p] = Rest /\ holder = Nobody
       /\ holder' = p
       /\ IF p = Timer THEN Proceed(p, flush) /\ UNCHANGED given ELSE Place(p, flush, TRUE)
       /\ UNCHANGED <<spool, clock, kept, accounted, faults, latest>>

\* Another run held it for LOCK_WAIT_SECONDS: the event is spooled without it
\* (--flush just ends).
LockTimesOut(p) ==
    /\ p \in Senders
    /\ runs[p] = Rest /\ holder # Nobody
    /\ Place(p, [Rest EXCEPT !.pc = "compare"], FALSE)
    /\ UNCHANGED <<spool, holder, clock, kept, accounted, faults, latest>>
-----------------------------------------------------------------------------
(********************************** flush **********************************)

Oldest(files) == CHOOSE f \in files : \A g \in files : f.name <= g.name

\* The file whose turn it is in a listing.
NextFile(p) == Oldest(runs[p].files)

\* Fault: the run's own event is posted although older ones are unsent.
FlushFailsAndPosts(p) ==
    IF p = Timer THEN Exit(p)
    ELSE Proceed(p, [runs[p] EXCEPT !.pc = "post"]) /\ UNCHANGED holder

\* Older events are still waiting: the run's own goes after them.
FlushFails(p) ==
    IF p = Timer THEN Exit(p)
    ELSE Proceed(p, [runs[p] EXCEPT !.pc = "compare", !.files = {}]) /\ UNCHANGED holder

Flushing(p) == runs[p].pc = "flush" /\ runs[p].files # {}

\* cat fails: the file was pushed out of the full spool meanwhile.
FlushMissing(p) ==
    /\ Flushing(p) /\ NextFile(p) \notin spool
    /\ FlushFails(p)
    /\ UNCHANGED <<spool, clock, given, kept, accounted, faults, latest>>

FlushAccepted(p) ==
    LET file == NextFile(p)
    IN /\ Flushing(p) /\ file \in spool
       /\ file.event.valid
       /\ Arrives(file.event)
       /\ Proceed(p, [runs[p] EXCEPT !.pc = "sent"])
       /\ UNCHANGED <<spool, holder, clock, given, kept, faults>>

\* Fault: the file is removed whatever the answer.
FlushUnsentRemoved(p) ==
    /\ Flushing(p) /\ NextFile(p) \in spool
    /\ MayArrive(NextFile(p).event)
    /\ spool' = spool \ {NextFile(p)}
    /\ FlushFails(p)
    /\ UNCHANGED <<clock, given, kept, faults>>

\* The event cannot be sent now, or cannot be moved to rejected/: the file
\* stays, and nothing behind it is tried.
FlushUnsent(p) ==
    /\ Flushing(p) /\ NextFile(p) \in spool
    /\ MayArrive(NextFile(p).event)
    /\ FlushFails(p)
    /\ UNCHANGED <<spool, clock, given, kept, faults>>

\* Fault: an event that is refused for what it is stays in the queue.
FlushRefusedKept(p) ==
    /\ Flushing(p) /\ NextFile(p) \in spool
    /\ ~NextFile(p).event.valid
    /\ FlushFails(p)
    /\ UNCHANGED <<spool, clock, given, kept, accounted, faults, latest>>

\* The event is refused for what it is (400, 413, 422): to rejected/, on to
\* the next one.
FlushRefused(p) ==
    LET file == NextFile(p)
    IN /\ Flushing(p) /\ file \in spool
       /\ ~file.event.valid
       /\ spool' = spool \ {file}
       /\ accounted' = accounted \cup {file.event.id}
       /\ Proceed(p, [runs[p] EXCEPT !.files = @ \ {file}])
       /\ UNCHANGED <<holder, clock, given, kept, faults, latest>>

RemoveSent(p) ==
    /\ runs[p].pc = "sent"
    /\ spool' = spool \ {NextFile(p)}
    /\ Proceed(p, [runs[p] EXCEPT !.pc = "flush", !.files = @ \ {NextFile(p)}])
    /\ UNCHANGED <<holder, clock, given, kept, accounted, faults, latest>>

Flushed(p) ==
    /\ runs[p].pc = "flush" /\ runs[p].files = {}
    /\ IF p = Timer THEN Exit(p)
       ELSE Proceed(p, [runs[p] EXCEPT !.pc = "post"]) /\ UNCHANGED holder
    /\ UNCHANGED <<spool, clock, given, kept, accounted, faults, latest>>
-----------------------------------------------------------------------------
(********************************** post ***********************************)

\* The run's own event is taken, or refused: both are told by the exit code.
PostAnswered(p) ==
    /\ runs[p].pc = "post"
    /\ MayArrive(runs[p].event)
    /\ Exit(p)
    /\ UNCHANGED <<spool, clock, given, kept, faults>>

\* Again until the retries are used up; then into the spool.
PostUnanswered(p) ==
    /\ runs[p].pc = "post"
    /\ MayArrive(runs[p].event)
    /\ Proceed(p, IF runs[p].tries < RetryCount
                  THEN [runs[p] EXCEPT !.tries = @ + 1]
                  ELSE [runs[p] EXCEPT !.pc = "compare", !.tries = 0])
    /\ UNCHANGED <<spool, holder, clock, given, kept, faults>>
-----------------------------------------------------------------------------
(********************************** spool **********************************)

OfKey(key) == {f \in spool : f.event.key = key}

Newest(files) == CHOOSE f \in files : \A g \in files : g.name <= f.name

\* The last event in the spool with this key says the same: it stands for
\* this one.
AlreadySpooled(e) == OfKey(e.key) # {} /\ Newest(OfKey(e.key)).event.says = e.says

Compare(p) ==
    LET e == runs[p].event
    IN /\ runs[p].pc = "compare"
       /\ IF AlreadySpooled(e)
          THEN /\ kept' = kept \cup {Newest(OfKey(e.key)).event.id}
               /\ Exit(p)
          ELSE /\ Proceed(p, [runs[p] EXCEPT !.pc = "name"])
               /\ UNCHANGED <<holder, kept>>
       /\ UNCHANGED <<spool, clock, given, accounted, faults, latest>>

\* The file is named by the time.
Name(p) ==
    /\ runs[p].pc = "name"
    /\ clock' = clock + 1
    /\ Proceed(p, [runs[p] EXCEPT !.pc = "write", !.name = clock + 1])
    /\ UNCHANGED <<spool, holder, given, kept, accounted, faults, latest>>

Write(p) ==
    /\ runs[p].pc = "write"
    /\ spool' = spool \cup {[name |-> runs[p].name, event |-> runs[p].event]}
    /\ Proceed(p, [runs[p] EXCEPT !.pc = "list", !.name = 0])
    /\ UNCHANGED <<holder, clock, given, kept, accounted, faults, latest>>

\* The file cannot be written: the event is given up with a failure code, or
\* posted past the spool when the lock was never had.
WriteFails(p) ==
    /\ runs[p].pc = "write"
    /\ Fault
    /\ Exit(p)
    /\ UNCHANGED <<spool, clock, given, kept, accounted, latest>>

\* Files that SpoolMax newer ones follow.
PastTheLimit == {f \in spool : Cardinality({g \in spool : g.name > f.name}) >= SpoolMax}

\* The files past the limit are to go, oldest first.
List(p) ==
    /\ runs[p].pc = "list"
    /\ Proceed(p, [runs[p] EXCEPT !.pc = "drop", !.files = PastTheLimit])
    /\ UNCHANGED <<spool, holder, clock, given, kept, accounted, faults, latest>>

Drop(p) ==
    LET file == NextFile(p)
    IN /\ runs[p].pc = "drop" /\ runs[p].files # {}
       /\ spool' = spool \ {file}
       /\ accounted' = accounted \cup {file.event.id}
       /\ Proceed(p, [runs[p] EXCEPT !.files = @ \ {file}])
       /\ UNCHANGED <<holder, clock, given, kept, faults, latest>>

\* The exit code says that the event is kept.
Spooled(p) ==
    /\ runs[p].pc = "drop" /\ runs[p].files = {}
    /\ kept' = kept \cup {runs[p].event.id}
    /\ Exit(p)
    /\ UNCHANGED <<spool, clock, given, accounted, faults, latest>>
-----------------------------------------------------------------------------
Kill(p) ==
    /\ runs[p] # Rest
    /\ Fault
    /\ Exit(p)
    /\ UNCHANGED <<spool, clock, given, kept, accounted, latest>>

Start(p) == TakeLock(p) \/ LockTimesOut(p)

Continue(p) ==
    \/ FlushMissing(p) \/ FlushAccepted(p) \/ FlushUnsent(p) \/ FlushRefused(p)
    \/ RemoveSent(p) \/ Flushed(p)
    \/ PostAnswered(p) \/ PostUnanswered(p)
    \/ Compare(p) \/ Name(p) \/ Write(p) \/ WriteFails(p) \/ List(p) \/ Drop(p) \/ Spooled(p)

SpoolNext == \E p \in RunIds : Start(p) \/ Continue(p) \/ Kill(p)

\* Every step of a run has a time limit, the timer calls --flush again and
\* again, and neither the lock, nor AlertLoop, nor the disk fails it for ever.
SpoolFairness ==
    /\ \A p \in RunIds : WF_spoolVars(Continue(p))
    /\ SF_spoolVars(TakeLock(Timer))
    /\ SF_spoolVars(FlushAccepted(Timer))
    /\ SF_spoolVars(FlushRefused(Timer))
    /\ SF_spoolVars(RemoveSent(Timer))

SpoolSpec == SpoolInit /\ [][SpoolNext]_spoolVars
-----------------------------------------------------------------------------
(******************************* properties ********************************)

\* Events of one key whose runs held the lock arrive in the order in which they
\* held it, repeated arrivals included: a firing never comes, first or again,
\* after the resolved behind it, whatever answers are lost, runs are killed
\* and events are queued in between without the lock (flush, spool).
SentInOrder == [][\A k \in DOMAIN latest : latest'[k].underLock >= latest[k].underLock]_spoolVars

\* An event reported as kept (exit 9) is in the spool until it arrived or its
\* refusal or loss was told, although other runs flush, trim and compare the
\* spool at the same moment; and the limit never costs the newest report, only
\* files listed past it (spool, flush, drop, reject).
KeptIsKept ==
    /\ [](kept \subseteq accounted \cup {f.event.id : f \in spool})
    /\ [][\A f \in spool : f.name = clock /\ (\E p \in Senders : Drop(p)) => f \in spool']_spoolVars

\* Whatever is in the spool leaves it: an event AlertLoop refuses for what it is
\* does not hold back the ones behind it (flush, reject).
SpoolGoesOut ==
    \A id \in 1 .. MaxReports :
        (\E f \in spool : f.event.id = id) ~> (\A f \in spool : f.event.id # id)

\* "while older events are still unsent, a new one goes into the spool behind
\* them, so a `resolved` never overtakes its `firing`" (integrations/monit,
\* README, Spool): no firing arrives after a resolved that took its place
\* behind it (lock, spool).
ResolvedNeverOvertakes ==
    [][\A k \in DOMAIN latest :
         LET now == latest[k].last
             next == latest'[k].last
         IN ~(now.id > next.id /\ now.says = "resolved" /\ next.says = "firing")]_spoolVars
=============================================================================
