----------------------------- MODULE RateLimit ------------------------------
(***************************************************************************)
(* The token buckets of the API (internal/api/ratelimit.go): one per       *)
(* client address, kept in a table that is swept now and then.  A request  *)
(* reads the clock, then takes the lock of the table, then the lock of its *)
(* bucket; others may overtake it between the three, so that a bucket sees *)
(* times that go back.                                                     *)
(*                                                                         *)
(* Tokens are counted in parts: a request costs Cost parts and every tick  *)
(* of the clock refills Rate.                                              *)
(***************************************************************************)
EXTENDS Integers, Sequences, FiniteSets, Functions

CONSTANTS
    Callers,        \* requests served at the same time
    Addresses,      \* limiterKey of the clients
    Burst,
    Rate,
    Cost,
    SweepEvery,     \* 5 minutes
    EvictAfter,     \* 10 minutes
    Lag,            \* ticks between reading the clock and the bucket, at most
    MaxClock,       \* bound: time
    MaxCalls        \* bound: requests

ASSUME RateAssumption ==
    \* newTokenBucket takes a rate or a burst of zero or less as 1.
    /\ {Burst, Rate, Cost, SweepEvery} \subseteq Nat \ {0}
    /\ {EvictAfter, Lag, MaxClock, MaxCalls} \subseteq Nat
    \* A request is in the limiter for far less than the ten minutes.
    /\ 2 * Lag < EvictAfter

VARIABLES
    clock,
    buckets,    \* the buckets ever made: tokens and last
    entries,    \* keyedLimiter.buckets: address -> its bucket and when it was seen
    lastSweep,
    calls,      \* caller -> where its request is
    served,     \* address -> the times of the requests let in, in their order
    dropped,    \* address -> how many of them were before its bucket was last dropped
    made        \* requests made so far

rateVars == <<clock, buckets, entries, lastSweep, calls, served, dropped, made>>

Waiting == [pc |-> "idle"]

NewTokenBucket(at) == [tokens |-> Burst * Cost, last |-> at]

RateInit ==
    /\ clock = 0 /\ lastSweep = 0 /\ made = 0
    /\ buckets = <<>> /\ entries = <<>>
    /\ calls = [c \in Callers |-> Waiting]
    /\ served = [k \in Addresses |-> <<>>]
    /\ dropped = [k \in Addresses |-> 0]

Call(c, call) == calls' = [calls EXCEPT ![c] = call]

\* perIPLimit and loginLimit read the clock on the way into allow.
ReadClock(c, k) ==
    /\ calls[c] = Waiting /\ made < MaxCalls
    /\ made' = made + 1
    /\ Call(c, [pc |-> "find", key |-> k, now |-> clock])
    /\ UNCHANGED <<clock, buckets, entries, lastSweep, served, dropped>>

\* The entry of k, found or made, and seen now.
Seen(k, now, fresh) ==
    [x \in DOMAIN entries \cup {k} |->
       IF x # k THEN entries[x]
       ELSE [bucket |-> IF k \in DOMAIN entries THEN entries[k].bucket ELSE fresh, seen |-> now]]

Swept(table, now) ==
    IF now - lastSweep > SweepEvery
    THEN Restrict(table, {x \in DOMAIN table : now - table[x].seen <= EvictAfter})
    ELSE table

\* keyedLimiter.allow under its lock; a new bucket takes its own time.
Find(c) ==
    LET k == calls[c].key
        now == calls[c].now
        known == k \in DOMAIN entries
        table == Seen(k, now, Len(buckets) + 1)
    IN /\ calls[c].pc = "find"
       /\ buckets' = IF known THEN buckets ELSE Append(buckets, NewTokenBucket(clock))
       /\ entries' = Swept(table, now)
       /\ dropped' = [x \in Addresses |-> IF x \in DOMAIN entries \ DOMAIN entries'
                                          THEN Len(served[x]) ELSE dropped[x]]
       /\ lastSweep' = IF now - lastSweep > SweepEvery THEN now ELSE lastSweep
       /\ Call(c, [pc |-> "found", key |-> k, now |-> now, bucket |-> table[k].bucket])
       /\ UNCHANGED <<clock, served, made>>

\* Fault: a time that goes back is taken as no time.
RefilledForward(bucket, now) ==
    LET tokens == bucket.tokens + (IF now > bucket.last THEN now - bucket.last ELSE 0) * Rate
    IN IF tokens > Burst * Cost THEN Burst * Cost ELSE tokens

\* The refill since the last request, which may be negative.
Refilled(bucket, now) ==
    LET tokens == bucket.tokens + (now - bucket.last) * Rate
    IN IF tokens > Burst * Cost THEN Burst * Cost ELSE tokens

\* tokenBucket.allow under its lock.
Allow(c) ==
    LET b == calls[c].bucket
        now == calls[c].now
        tokens == Refilled(buckets[b], now)
    IN /\ calls[c].pc = "found"
       /\ \/ /\ tokens >= Cost
             /\ buckets' = [buckets EXCEPT ![b] = [tokens |-> tokens - Cost, last |-> now]]
             /\ served' = [served EXCEPT ![calls[c].key] = Append(@, now)]
          \/ /\ tokens < Cost
             /\ buckets' = [buckets EXCEPT ![b] = [tokens |-> tokens, last |-> now]]
             /\ UNCHANGED served
       /\ Call(c, Waiting)
       /\ UNCHANGED <<clock, entries, lastSweep, dropped, made>>

\* A request is in the limiter for Lag ticks at most.
ClockTick ==
    /\ clock < MaxClock
    /\ \A c \in Callers : calls[c] # Waiting => clock - calls[c].now < Lag
    /\ clock' = clock + 1
    /\ UNCHANGED <<buckets, entries, lastSweep, calls, served, dropped, made>>

RateNext ==
    \/ \E c \in Callers : Find(c) \/ Allow(c) \/ \E k \in Addresses : ReadClock(c, k)
    \/ ClockTick

RateSpec == RateInit /\ [][RateNext]_rateVars
-----------------------------------------------------------------------------
(******************************* properties ********************************)

\* A bucket that is dropped for being idle would be full again.  The defaults see
\* to it, but Config.Validate takes any rate and burst, and the ten minutes are
\* fixed (keyedLimiter.allow).
RefillsInTime == Rate * (EvictAfter - Lag) >= Burst * Cost

\* A client gets its rate, no more and no less.  It is let in no more often than
\* the burst and the refill of the time between allow, over any stretch of its
\* requests, although they reach the bucket out of order: where an idle bucket
\* refills before it is dropped, over stretches that a drop falls into too, and
\* under any rate and burst over those since the last drop.  And when it is
\* refused, it was let in its burst but for one, and but for the refill of the
\* time a request spends here, within the time its bucket needs to fill: the clock
\* may move between reading it and making the bucket (allow, keyedLimiter.allow).
RateKept ==
    /\ [](\A k \in DOMAIN served : \A i, j \in DOMAIN served[k] :
            i <= j /\ (RefillsInTime \/ i > dropped[k]) =>
               (j - i + 1) * Cost <= Burst * Cost + Rate * (served[k][j] - served[k][i]))
    /\ [][\A c \in Callers :
            calls[c].pc = "found" /\ calls'[c] = Waiting /\ served' = served =>
               Cardinality({i \in DOMAIN served[calls[c].key] :
                   Rate * (calls[c].now - served[calls[c].key][i] - Lag) < Burst * Cost}) * Cost
               > Burst * Cost - Cost - Rate * Lag]_rateVars

=============================================================================
