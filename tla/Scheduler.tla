------------------------------ MODULE Scheduler ------------------------------
(***************************************************************************)
(* The slots of one delivery worker (internal/delivery, Worker.Run and     *)
(* scheduler): fill claims due attempts into free slots, never more to one *)
(* channel than its share, the main loop waits for a finished send or the  *)
(* poll tick, and shutdown drains what is in flight.                       *)
(*                                                                         *)
(* The queue is abstracted to what ClaimDue shows this loop: attempts in   *)
(* order of creation, each due or not.  Channels in Hung never answer; only *)
(* the cancellation at shutdown ends their sends.                          *)
(***************************************************************************)
EXTENDS Naturals, FiniteSets

CONSTANTS
    Jobs,          \* attempts, numbered in order of creation
    Channels,      \* configured channel names (the registry)
    JobChannel,    \* attempt -> its channel
    Hung,          \* channels that never answer
    Concurrency,   \* worker.concurrency
    MaxTries       \* delivery.max_attempts

ASSUME JobsAssumption ==
    /\ Jobs \subseteq Nat /\ IsFiniteSet(Jobs) /\ IsFiniteSet(Channels)
    /\ JobChannel \in [Jobs -> Channels]
    /\ Hung \subseteq Channels
    /\ Concurrency \in Nat \ {0}
    /\ MaxTries \in Nat \ {0}

VARIABLES
    row,        \* attempt -> "waiting" (for its retry time), "due", "sending", "settled"
    tries,      \* attempt -> tries made
    inFlight,   \* scheduler.inFlight: channel -> slots it holds
    total,      \* scheduler.total
    done,       \* scheduler.done: channel -> finished sends not collected yet
    pc,         \* where Run is: "fill", "select", "shutdown", "stopped"
    stop,       \* the Run context is cancelled
    cancelled   \* sendCtx is cancelled: the grace period is over

vars == <<row, tries, inFlight, total, done, pc, stop, cancelled>>

Max2(a, b) == IF a > b THEN a ELSE b
Min2(a, b) == IF a < b THEN a ELSE b

\* Fault: a channel may take every slot.
NoShare == Concurrency

\* One slot stays free for the others when there are others.
PerChannelLimit ==
    IF Cardinality(Channels) < 2 THEN Concurrency ELSE Max2(1, Concurrency - 1)

Init ==
    /\ row = [j \in Jobs |-> "waiting"]
    /\ tries = [j \in Jobs |-> 0]
    /\ inFlight = [c \in Channels |-> 0]
    /\ total = 0
    /\ done = [c \in Channels |-> 0]
    /\ pc = "fill"
    /\ stop = FALSE
    /\ cancelled = FALSE
-----------------------------------------------------------------------------
\* The channels fill passes to ClaimDue as skipChannels.
Skip == {c \in Channels : inFlight[c] >= PerChannelLimit}

\* The slots held by the busiest channel still under its limit.
Busiest ==
    LET held == {inFlight[c] : c \in Channels \ Skip}
    IN IF held = {} THEN 0 ELSE CHOOSE n \in held : \A m \in held : m <= n

Want == Min2(Concurrency - total, PerChannelLimit - Busiest)

Claimable == {j \in Jobs : row[j] = "due" /\ JobChannel[j] \notin Skip}

\* ClaimDue: the oldest claimable attempts, at most limit of them.
Oldest(limit) == {j \in Claimable : Cardinality({i \in Claimable : i <= j}) <= limit}

CountOn(jobs, c) == Cardinality({j \in jobs : JobChannel[j] = c})

\* One round of fill: claim, start each, go on only when the batch was full.
FillRound ==
    /\ pc = "fill" /\ total < Concurrency /\ ~stop
    /\ LET claimed == Oldest(Want)
       IN /\ row' = [j \in Jobs |-> IF j \in claimed THEN "sending" ELSE row[j]]
          /\ inFlight' = [c \in Channels |-> inFlight[c] + CountOn(claimed, c)]
          /\ total' = total + Cardinality(claimed)
          /\ pc' = IF Cardinality(claimed) < Want THEN "select" ELSE "fill"
    /\ UNCHANGED <<tries, done, stop, cancelled>>

\* Every slot is busy, or the context is cancelled.
FillEnds ==
    /\ pc = "fill" /\ (total >= Concurrency \/ stop)
    /\ pc' = "select"
    /\ UNCHANGED <<row, tries, inFlight, total, done, stop, cancelled>>

\* ClaimDue fails: fill gives up until the next wake-up.
ClaimFails ==
    /\ pc = "fill" /\ total < Concurrency /\ ~stop
    /\ pc' = "select"
    /\ UNCHANGED <<row, tries, inFlight, total, done, stop, cancelled>>

\* Fault: the channel's share is not given back.
FinishedKeepingShare(c) ==
    /\ done[c] > 0
    /\ done' = [done EXCEPT ![c] = @ - 1]
    /\ UNCHANGED inFlight
    /\ total' = total - 1

\* finished: free the slot of a collected send.
Finished(c) ==
    /\ done[c] > 0
    /\ done' = [done EXCEPT ![c] = @ - 1]
    /\ inFlight' = [inFlight EXCEPT ![c] = @ - 1]
    /\ total' = total - 1

Collect(c) ==
    /\ pc = "select"
    /\ Finished(c)
    /\ pc' = "fill"
    /\ UNCHANGED <<row, tries, stop, cancelled>>

Tick ==
    /\ pc = "select"
    /\ pc' = "fill"
    /\ UNCHANGED <<row, tries, inFlight, total, done, stop, cancelled>>

\* The context is cancelled, at any moment.
StopRequested ==
    /\ ~stop
    /\ stop' = TRUE
    /\ UNCHANGED <<row, tries, inFlight, total, done, pc, cancelled>>

BeginShutdown ==
    /\ pc = "select" /\ stop
    /\ pc' = "shutdown"
    /\ UNCHANGED <<row, tries, inFlight, total, done, stop, cancelled>>

DrainOne(c) ==
    /\ pc = "shutdown"
    /\ Finished(c)
    /\ UNCHANGED <<row, tries, pc, stop, cancelled>>

\* Fault: the sends are not cancelled.
GraceWithoutCancel ==
    /\ pc = "shutdown" /\ total > 0 /\ ~cancelled
    /\ UNCHANGED vars

GraceOver ==
    /\ pc = "shutdown" /\ total > 0 /\ ~cancelled
    /\ cancelled' = TRUE
    /\ UNCHANGED <<row, tries, inFlight, total, done, pc, stop>>

\* Run returns.
ShutdownEnds ==
    /\ pc = "shutdown" /\ total = 0
    /\ pc' = "stopped"
    /\ UNCHANGED <<row, tries, inFlight, total, done, stop, cancelled>>
-----------------------------------------------------------------------------
\* The send of j is over and recorded: settled, to be tried again later while
\* tries are left, or, cut short by the shutdown, back in the queue uncounted.
SendEnds(j) ==
    /\ row[j] = "sending"
    /\ \/ /\ JobChannel[j] \notin Hung
          /\ tries' = [tries EXCEPT ![j] = @ + 1]
          /\ \/ row' = [row EXCEPT ![j] = "settled"]
             \/ tries[j] + 1 < MaxTries /\ row' = [row EXCEPT ![j] = "waiting"]
       \/ /\ cancelled
          /\ row' = [row EXCEPT ![j] = "due"]
          /\ UNCHANGED tries
    /\ done' = [done EXCEPT ![JobChannel[j]] = @ + 1]
    /\ UNCHANGED <<inFlight, total, pc, stop, cancelled>>

\* The attempt is created, or its retry time comes.
BecomesDue(j) ==
    /\ row[j] = "waiting"
    /\ row' = [row EXCEPT ![j] = "due"]
    /\ UNCHANGED <<tries, inFlight, total, done, pc, stop, cancelled>>

CollectStep == \E c \in Channels : Collect(c)

Next ==
    \/ FillRound \/ FillEnds \/ ClaimFails
    \/ CollectStep \/ Tick
    \/ StopRequested \/ BeginShutdown \/ GraceOver \/ ShutdownEnds
    \/ \E c \in Channels : DrainOne(c)
    \/ \E j \in Jobs : SendEnds(j) \/ BecomesDue(j)

Spec == Init /\ [][Next]_vars

\* The loop keeps running, the ticker ticks and a finished send is collected
\* (select picks among its ready cases at random), the claims do not fail
\* forever, a stop is noticed, sends to channels that answer end, and so does
\* a cancelled one.
Fairness ==
    /\ SF_vars(FillRound) /\ WF_vars(FillEnds)
    /\ SF_vars(CollectStep) /\ WF_vars(Tick)
    /\ SF_vars(BeginShutdown) /\ WF_vars(GraceOver) /\ WF_vars(ShutdownEnds)
    /\ \A c \in Channels : WF_vars(DrainOne(c))
    /\ \A j \in Jobs : WF_vars(SendEnds(j))

FairSpec == Spec /\ Fairness
-----------------------------------------------------------------------------
(******************************* properties ********************************)

\* The books balance: a slot is held by a send that runs or waits to be
\* collected, and the buffer of done has room for every send, so a finished
\* send never blocks (newScheduler's buffer of Concurrency).  No channel holds
\* more than its share, although a batch is claimed before it is known where it
\* goes (fill), and once Run has returned "every send it started has been
\* recorded or handed back to the queue".
SlotsBalance ==
    LET sending == {j \in Jobs : row[j] = "sending"}
    IN /\ \A c \in Channels : /\ inFlight[c] = CountOn(sending, c) + done[c]
                               /\ inFlight[c] <= PerChannelLimit
       /\ Cardinality(sending) <= total /\ total <= Concurrency
       /\ pc = "stopped" => total = 0

\* A channel that hangs does not hold up the others: while the worker runs, a
\* due attempt to a channel that answers is started, or the worker stops
\* (perChannelLimit; needs Concurrency > 1 and at most one hung channel).
OthersGoOut ==
    \A j \in Jobs : JobChannel[j] \notin Hung =>
        ((row[j] = "due" /\ ~stop) ~> (row[j] # "due" \/ stop))

\* A stop request ends the worker, hung channels or not (shutdown).
StopEnds == stop ~> pc = "stopped"
=============================================================================
