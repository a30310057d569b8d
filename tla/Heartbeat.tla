------------------------------ MODULE Heartbeat ------------------------------
(***************************************************************************)
(* The sign of life that monitoring reads (GET /v1/stats,                  *)
(* worker_last_tick_at): every worker records that it polled the queue, at *)
(* most once per tickEvery, and the single row keeps the latest of them.   *)
(* A worker reads its clock before the statement runs, so that the writes  *)
(* of several workers arrive in any order; a write can fail.               *)
(***************************************************************************)
EXTENDS Integers

CONSTANTS
    Workers,
    TickEvery,  \* tickEvery
    Horizon     \* bound: the time up to which workers poll

ASSUME HeartbeatAssumption == TickEvery \in Nat \ {0} /\ Horizon \in Nat

VARIABLES
    time,
    lastTickAt,  \* worker_heartbeat.last_tick_at
    beats        \* worker -> lastTick, the tick being written, its last poll on record

beatVars == <<time, lastTickAt, beats>>

Never == -TickEvery   \* the zero time: any poll is later by at least tickEvery
NoTick == -1

BeatInit ==
    /\ time = 0
    /\ lastTickAt = Never
    /\ beats = [w \in Workers |-> [lastTick |-> Never, writing |-> NoTick, polled |-> Never]]

\* recordTick after a poll: nothing to do yet, or a tick to write.
RecordTick(w) ==
    /\ time < Horizon
    /\ beats[w].writing = NoTick
    /\ beats' = [beats EXCEPT ![w] =
            IF time - @.lastTick < TickEvery THEN [@ EXCEPT !.polled = time]
                                             ELSE [@ EXCEPT !.writing = time]]
    /\ UNCHANGED <<time, lastTickAt>>

\* Fault: the last writer wins.
UpsertedAlways(at) == at

\* The upsert replaces an earlier time only.
Upserted(at) == IF lastTickAt < at THEN at ELSE lastTickAt

RecordWorkerTick(w) ==
    /\ beats[w].writing # NoTick
    /\ lastTickAt' = Upserted(beats[w].writing)
    /\ beats' = [beats EXCEPT ![w] =
            [lastTick |-> @.writing, writing |-> NoTick, polled |-> @.writing]]
    /\ UNCHANGED time

\* The error is logged, and the next poll writes again.
TickLost(w) ==
    /\ beats[w].writing # NoTick
    /\ beats' = [beats EXCEPT ![w].writing = NoTick]
    /\ UNCHANGED <<time, lastTickAt>>

\* A new process has recorded nothing.
RestartWorker(w) ==
    /\ time < Horizon
    /\ beats' = [beats EXCEPT ![w].lastTick = Never, ![w].writing = NoTick]
    /\ UNCHANGED <<time, lastTickAt>>

TimePasses ==
    /\ time < Horizon
    /\ time' = time + 1
    /\ UNCHANGED <<lastTickAt, beats>>

BeatNext ==
    \/ \E w \in Workers : RecordTick(w) \/ RecordWorkerTick(w) \/ TickLost(w) \/ RestartWorker(w)
    \/ TimePasses

BeatSpec == BeatInit /\ [][BeatNext]_beatVars
-----------------------------------------------------------------------------
\* Monitoring never takes polling workers for dead: the stored time is less
\* than tickEvery behind the latest poll of every worker that the database
\* answered, although a late write of another worker carries an earlier time
\* and a worker skips the write when its own last tick is recent
\* (RecordWorkerTick: "one that writes a moment late does not move it back").
PollsAreSeen == \A w \in Workers : beats[w].polled < lastTickAt + TickEvery \/ beats[w].polled = Never
=============================================================================
