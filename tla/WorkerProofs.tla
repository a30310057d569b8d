---------------------------- MODULE WorkerProofs ----------------------------
(***************************************************************************)
(* What several parties share within bounds, for any number of them: the   *)
(* heartbeat of the workers (Heartbeat), the slots of one worker           *)
(* (Scheduler), and the throttle and the password checks of the sign-ins   *)
(* (SignIn).                                                               *)
(***************************************************************************)
EXTENDS Scheduler, Heartbeat, SignIn, FiniteSetTheorems, WellFoundedInduction, TLAPS

(***************************************************************************)
(* The heartbeat.  The stored time never falls, and no worker remembers a  *)
(* tick later than the stored one: so a worker that skips a write because  *)
(* its own last tick is recent is covered by what is stored.               *)
(***************************************************************************)

BeatInv ==
    /\ time \in Nat /\ lastTickAt \in Int /\ Never <= lastTickAt
    /\ beats \in [Workers -> [lastTick : Int, writing : Int, polled : Int]]
    /\ \A w \in Workers : /\ beats[w].lastTick <= lastTickAt
                          /\ beats[w].polled < lastTickAt + TickEvery

\* A step that leaves the stored time, or raises it, and one worker covered.
LEMMA BeatMoves ==
    ASSUME BeatInv, NEW w \in Workers,
           NEW b \in [lastTick : Int, writing : Int, polled : Int],
           beats' = [beats EXCEPT ![w] = b],
           UNCHANGED time, lastTickAt' \in Int, lastTickAt <= lastTickAt',
           b.lastTick <= lastTickAt', b.polled < lastTickAt' + TickEvery
    PROVE  BeatInv'
  <1>1. TickEvery \in Nat
    BY HeartbeatAssumption
  <1>2. beats' \in [Workers -> [lastTick : Int, writing : Int, polled : Int]]
    BY DEF BeatInv
  <1>3. ASSUME NEW v \in Workers
        PROVE  /\ beats'[v].lastTick <= lastTickAt'
               /\ beats'[v].polled < lastTickAt' + TickEvery
    <2>1. beats'[v] = IF v = w THEN b ELSE beats[v]
      BY DEF BeatInv
    <2>2. beats[v].lastTick \in Int /\ beats[v].polled \in Int /\ lastTickAt \in Int
      BY DEF BeatInv
    <2> QED
      BY <1>1, <2>1, <2>2 DEF BeatInv
  <1>4. Never <= lastTickAt'
    BY HeartbeatAssumption DEF BeatInv, Never
  <1> QED
    BY <1>2, <1>3, <1>4 DEF BeatInv

LEMMA BeatStep ==
    ASSUME BeatInv, [BeatNext]_beatVars
    PROVE  BeatInv'
  <1>1. TickEvery \in Nat \ {0} /\ Never \in Int /\ NoTick \in Int
    BY HeartbeatAssumption DEF Never, NoTick
  <1>2. ASSUME NEW w \in Workers
        PROVE  /\ beats[w] \in [lastTick : Int, writing : Int, polled : Int]
               /\ beats[w].lastTick <= lastTickAt
               /\ beats[w].polled < lastTickAt + TickEvery
    BY DEF BeatInv
  <1>3. time \in Nat /\ lastTickAt \in Int /\ lastTickAt <= lastTickAt
    BY DEF BeatInv
  <1>4. ASSUME NEW w \in Workers, RecordTick(w) PROVE BeatInv'
    <2> DEFINE b == IF time - beats[w].lastTick < TickEvery
                      THEN [beats[w] EXCEPT !.polled = time]
                      ELSE [beats[w] EXCEPT !.writing = time]
    <2>1. beats' = [beats EXCEPT ![w] = b] /\ UNCHANGED <<time, lastTickAt>>
      BY <1>4 DEF RecordTick
    <2>2. /\ b \in [lastTick : Int, writing : Int, polled : Int]
          /\ b.lastTick = beats[w].lastTick
          /\ b.polled = IF time - beats[w].lastTick < TickEvery THEN time ELSE beats[w].polled
      BY <1>2, <1>3
    <2> HIDE DEF b
    <2>3. beats[w].lastTick \in Int /\ beats[w].polled \in Int
      BY <1>2
    <2>4. b.lastTick <= lastTickAt /\ b.polled < lastTickAt + TickEvery
      BY <1>1, <1>2, <1>3, <2>2, <2>3
    <2> QED
      BY <1>3, <2>1, <2>2, <2>4, BeatMoves
  <1>5. ASSUME NEW w \in Workers, RecordWorkerTick(w) PROVE BeatInv'
    <2> DEFINE at == beats[w].writing
               b == [lastTick |-> at, writing |-> NoTick, polled |-> at]
    <2>1. beats' = [beats EXCEPT ![w] = b] /\ UNCHANGED time /\ lastTickAt' = Upserted(at)
      BY <1>5 DEF RecordWorkerTick
    <2>2. at \in Int /\ b \in [lastTick : Int, writing : Int, polled : Int]
      BY <1>1, <1>2
    <2>3. b.lastTick = at /\ b.polled = at
      OBVIOUS
    <2> HIDE DEF b, at
    <2>4. /\ lastTickAt' \in Int /\ lastTickAt <= lastTickAt'
          /\ b.lastTick <= lastTickAt' /\ b.polled < lastTickAt' + TickEvery
      BY <1>1, <1>3, <2>1, <2>2, <2>3 DEF Upserted
    <2> QED
      BY <2>1, <2>2, <2>4, BeatMoves
  <1>6. ASSUME NEW w \in Workers, TickLost(w) \/ RestartWorker(w) PROVE BeatInv'
    <2>1. PICK b \in [lastTick : Int, writing : Int, polled : Int] :
            /\ beats' = [beats EXCEPT ![w] = b]
            /\ b.lastTick \in {Never, beats[w].lastTick} /\ b.polled = beats[w].polled
      <3> DEFINE lost == [beats[w] EXCEPT !.writing = NoTick]
                 new == [lost EXCEPT !.lastTick = Never]
      <3>1. beats' = [beats EXCEPT ![w] = lost] \/ beats' = [beats EXCEPT ![w] = new]
        BY <1>2, <1>6, ZenonT(30) DEF TickLost, RestartWorker, BeatInv
      <3>2. /\ lost \in [lastTick : Int, writing : Int, polled : Int]
            /\ lost.lastTick = beats[w].lastTick /\ lost.polled = beats[w].polled
            /\ new \in [lastTick : Int, writing : Int, polled : Int]
            /\ new.lastTick = Never /\ new.polled = beats[w].polled
        BY <1>1, <1>2
      <3> QED
        BY <3>1, <3>2
    <2>2. UNCHANGED <<time, lastTickAt>> /\ Never <= lastTickAt
      BY <1>6 DEF TickLost, RestartWorker, BeatInv
    <2> QED
      BY <1>2, <1>3, <2>1, <2>2, BeatMoves
  <1>7. CASE TimePasses
    BY <1>7 DEF TimePasses, BeatInv
  <1>8. CASE UNCHANGED beatVars
    BY <1>8 DEF beatVars, BeatInv
  <1> QED
    BY <1>4, <1>5, <1>6, <1>7, <1>8 DEF BeatNext

(***************************************************************************)
(* Monitoring never takes polling workers for dead, whatever the order in  *)
(* which the writes of any number of workers arrive (recordTick,           *)
(* RecordWorkerTick).                                                      *)
(***************************************************************************)
THEOREM PollsAlwaysSeen == BeatSpec => []PollsAreSeen
  <1>1. BeatInit => BeatInv
    BY HeartbeatAssumption DEF BeatInit, BeatInv, Never, NoTick
  <1>2. BeatInv /\ [BeatNext]_beatVars => BeatInv'
    BY BeatStep
  <1>3. BeatInv => PollsAreSeen
    BY DEF BeatInv, PollsAreSeen
  <1> QED
    BY <1>1, <1>2, <1>3, PTL DEF BeatSpec
-----------------------------------------------------------------------------
(***************************************************************************)
(* Facts of arithmetic that the proofs below need.                         *)
(***************************************************************************)

\* A finite set of numbers has a greatest one.
LEMMA Greatest ==
    ASSUME NEW T \in SUBSET Int, IsFiniteSet(T), T # {}
    PROVE  \E m \in T : \A j \in T : j <= m
  <1> DEFINE Above(m) == {j \in T : j > m}
             A == {Above(m) : m \in T}
  <1>1. A \subseteq FiniteSubsetsOf(T) /\ A # {}
    <2>1. \A m \in T : Above(m) \in SUBSET T
      OBVIOUS
    <2>2. \A m \in T : IsFiniteSet(Above(m))
      BY <2>1, FS_Subset
    <2> QED
      BY <2>1, <2>2 DEF FiniteSubsetsOf
  <1>2. IsWellFoundedOn(StrictSubsetOrdering(T), FiniteSubsetsOf(T))
    BY FS_StrictSubsetOrderingWellFounded
  <1>3. PICK a \in A : \A b \in A : ~(<<b, a>> \in StrictSubsetOrdering(T))
    <2> HIDE DEF A
    <2> QED
      BY <1>1, <1>2, WFMin
  <1>4. PICK m \in T : a = Above(m)
    BY <1>3
  <1>5. ASSUME NEW j \in T, ~(j <= m) PROVE FALSE
    <2>1. Above(j) \in A
      OBVIOUS
    <2>2. Above(j) \in SUBSET T /\ a \in SUBSET T
      BY <1>4
    <2>3. \A i \in T : i > j => i > m
      BY <1>5
    <2>4. Above(j) \subseteq a
      BY <1>4, <2>3
    <2>5. j \in a /\ j \notin Above(j)
      BY <1>4, <1>5
    <2>6. <<Above(j), a>> \in StrictSubsetOrdering(T)
      BY <2>2, <2>4, <2>5 DEF StrictSubsetOrdering
    <2> QED
      BY <1>3, <2>1, <2>6
  <1> QED
    BY <1>5

\* The powers of two are positive and grow: they count the subsets of 1..n.
LEMMA PowersOfTwo ==
    ASSUME NEW a \in Nat, NEW b \in Nat, a <= b
    PROVE  2^a \in Nat /\ 2^a >= 1 /\ 2^b \in Nat /\ 2^a <= 2^b
  <1> DEFINE A == SUBSET (1 .. a)
             B == SUBSET (1 .. b)
  <1>1. ASSUME NEW n \in Nat
        PROVE  /\ IsFiniteSet(SUBSET (1 .. n))
               /\ Cardinality(SUBSET (1 .. n)) = 2^n
    <2>1. IsFiniteSet(1 .. n) /\ Cardinality(1 .. n) = n
      BY FS_Interval
    <2> QED
      BY <2>1, FS_SUBSET
  <1>2. IsFiniteSet(A) /\ Cardinality(A) = 2^a /\ IsFiniteSet(B) /\ Cardinality(B) = 2^b
    BY <1>1
  <1>3. A \in SUBSET B /\ A # {}
    <2>1. 1 .. a \subseteq 1 .. b /\ {} \in A
      OBVIOUS
    <2> QED
      BY <2>1
  <1> HIDE DEF A, B
  <1>4. Cardinality(A) <= Cardinality(B) /\ Cardinality(A) \in Nat /\ Cardinality(B) \in Nat
    BY <1>2, <1>3, FS_Subset, FS_CardinalityType
  <1>5. Cardinality(A) # 0
    BY <1>2, <1>3, FS_EmptySet
  <1> QED
    BY <1>2, <1>4, <1>5

LEMMA Scaled ==
    ASSUME NEW c \in Nat, NEW a \in Nat, NEW b \in Nat, a <= b
    PROVE  c * a \in Nat /\ c * b \in Nat /\ c * a <= c * b
  OBVIOUS

LEMMA SmallRemainder ==
    ASSUME NEW n \in Nat, NEW m \in Nat, n < m
    PROVE  n % m = n
  OBVIOUS
-----------------------------------------------------------------------------
(***************************************************************************)
(* The slots of a worker.  The scheduler counts twice: per channel, and in *)
(* all.  Both counts are those of the sends that run and of the finished   *)
(* ones not collected yet, whose number over all channels is that of the   *)
(* pairs in Uncollected.                                                   *)
(***************************************************************************)

Sending(r) == {j \in Jobs : r[j] = "sending"}

Uncollected(d) == {x \in Channels \X Nat : x[2] \in 1 .. d[x[1]]}

\* Rows r, finished sends d, and the two counts f and t agree.
Balanced(r, f, t, d) ==
    /\ DOMAIN r = Jobs /\ f \in [Channels -> Nat] /\ d \in [Channels -> Nat]
    /\ IsFiniteSet(Uncollected(d))
    /\ t = Cardinality(Sending(r)) + Cardinality(Uncollected(d))
    /\ \A c \in Channels : f[c] = CountOn(Sending(r), c) + d[c]

SlotsInv ==
    /\ Balanced(row, inFlight, total, done)
    /\ \A c \in Channels : inFlight[c] <= PerChannelLimit
    /\ total \in Nat /\ total <= Concurrency
    /\ pc = "stopped" => total = 0

LEMMA LimitType == PerChannelLimit \in Nat \ {0} /\ Concurrency \in Nat \ {0}
  BY JobsAssumption DEF PerChannelLimit, Max2

LEMMA CountType ==
    ASSUME NEW S \in SUBSET Jobs
    PROVE  /\ IsFiniteSet(S) /\ Cardinality(S) \in Nat
           /\ \A c \in Channels : CountOn(S, c) \in Nat /\ CountOn(S, c) <= Cardinality(S)
  <1>1. IsFiniteSet(S)
    BY JobsAssumption, FS_Subset
  <1>2. ASSUME NEW c \in Channels
        PROVE  CountOn(S, c) \in Nat /\ CountOn(S, c) <= Cardinality(S)
    <2>1. {j \in S : JobChannel[j] = c} \in SUBSET S
      OBVIOUS
    <2> QED
      BY <1>1, <2>1, FS_Subset, FS_CardinalityType DEF CountOn
  <1> QED
    BY <1>1, <1>2, FS_CardinalityType

LEMMA CountDisjoint ==
    ASSUME NEW S \in SUBSET Jobs, NEW T \in SUBSET Jobs, S \cap T = {}
    PROVE  /\ Cardinality(S \cup T) = Cardinality(S) + Cardinality(T)
           /\ \A c \in Channels : CountOn(S \cup T, c) = CountOn(S, c) + CountOn(T, c)
  <1>1. ASSUME NEW A \in SUBSET S, NEW B \in SUBSET T
        PROVE  Cardinality(A \cup B) = Cardinality(A) + Cardinality(B)
    <2>1. IsFiniteSet(A) /\ IsFiniteSet(B) /\ A \cap B = {}
      BY JobsAssumption, FS_Subset
    <2>2. Cardinality(A) \in Nat /\ Cardinality(B) \in Nat
      BY <2>1, FS_CardinalityType
    <2>3. Cardinality(A \cup B) = Cardinality(A) + Cardinality(B) - Cardinality({})
      BY <2>1, FS_Union
    <2> QED
      BY <2>2, <2>3, FS_EmptySet
  <1>2. ASSUME NEW c \in Channels
        PROVE  CountOn(S \cup T, c) = CountOn(S, c) + CountOn(T, c)
    <2> DEFINE On(X) == {j \in X : JobChannel[j] = c}
    <2>1. On(S) \in SUBSET S /\ On(T) \in SUBSET T /\ On(S \cup T) = On(S) \cup On(T)
      OBVIOUS
    <2>2. Cardinality(On(S \cup T)) = Cardinality(On(S)) + Cardinality(On(T))
      BY <1>1, <2>1
    <2> QED
      BY <2>2 DEF CountOn
  <1>3. S \in SUBSET S /\ T \in SUBSET T
    OBVIOUS
  <1> QED
    BY <1>1, <1>2, <1>3

\* ClaimDue returns at most as many as it is asked for.
LEMMA OldestBounded ==
    ASSUME NEW limit \in Nat
    PROVE  /\ Oldest(limit) \in SUBSET Claimable
           /\ Cardinality(Oldest(limit)) <= limit
  <1> DEFINE T == Oldest(limit)
             UpTo(j) == {i \in Claimable : i <= j}
  <1>1. Claimable \in SUBSET Jobs /\ Claimable \in SUBSET Nat /\ IsFiniteSet(Claimable)
    BY JobsAssumption, FS_Subset DEF Claimable
  <1>2. T \in SUBSET Claimable /\ IsFiniteSet(T)
    BY <1>1, FS_Subset DEF Oldest
  <1>3. CASE T = {}
    BY <1>2, <1>3, FS_EmptySet
  <1>4. CASE T # {}
    <2>2. PICK m \in T : \A j \in T : j <= m
      <3> HIDE DEF T
      <3>1. \A j \in T : j \in Int
        BY <1>1, <1>2
      <3>2. T \in SUBSET Int
        BY <3>1
      <3> QED
        BY <1>2, <1>4, <3>2, Greatest
    <2>3. Cardinality(UpTo(m)) <= limit
      BY <2>2 DEF Oldest
    <2>4. T \in SUBSET UpTo(m) /\ UpTo(m) \in SUBSET Claimable
      BY <1>2, <2>2
    <2>5. IsFiniteSet(UpTo(m))
      BY <1>1, <2>4, FS_Subset
    <2> HIDE DEF T, UpTo
    <2>6. Cardinality(T) <= Cardinality(UpTo(m))
      BY <2>4, <2>5, FS_Subset
    <2>7. Cardinality(T) \in Nat /\ Cardinality(UpTo(m)) \in Nat
      BY <1>2, <2>5, FS_CardinalityType
    <2> QED
      BY <1>2, <2>3, <2>6, <2>7 DEF T
  <1> QED
    BY <1>3, <1>4

\* start: the sends of a batch that was claimed.
LEMMA StartKeepsBalance ==
    ASSUME NEW r, NEW f, NEW t, NEW d, Balanced(r, f, t, d),
           NEW C \in SUBSET Jobs, C \cap Sending(r) = {}
    PROVE  Balanced([j \in Jobs |-> IF j \in C THEN "sending" ELSE r[j]],
                    [c \in Channels |-> f[c] + CountOn(C, c)], t + Cardinality(C), d)
  <1> DEFINE r2 == [j \in Jobs |-> IF j \in C THEN "sending" ELSE r[j]]
             f2 == [c \in Channels |-> f[c] + CountOn(C, c)]
             S == Sending(r)
  <1>1. Sending(r2) = S \cup C /\ S \in SUBSET Jobs
    BY DEF Sending
  <1>2. /\ Cardinality(S \cup C) = Cardinality(S) + Cardinality(C)
        /\ \A c \in Channels : CountOn(S \cup C, c) = CountOn(S, c) + CountOn(C, c)
    BY <1>1, CountDisjoint
  <1>3. /\ Cardinality(S) \in Nat /\ Cardinality(C) \in Nat /\ Cardinality(Uncollected(d)) \in Nat
        /\ \A c \in Channels : CountOn(S, c) \in Nat /\ CountOn(C, c) \in Nat
    BY <1>1, CountType, FS_CardinalityType DEF Balanced
  <1>4. t + Cardinality(C) = Cardinality(Sending(r2)) + Cardinality(Uncollected(d))
    <2>1. t = Cardinality(S) + Cardinality(Uncollected(d))
      BY DEF Balanced
    <2>2. Cardinality(Sending(r2)) = Cardinality(S) + Cardinality(C)
      BY <1>1, <1>2
    <2> HIDE DEF r2, S
    <2> QED
      BY <1>3, <2>1, <2>2
  <1>5. f2 \in [Channels -> Nat]
    BY <1>3 DEF Balanced
  <1>6. ASSUME NEW c \in Channels PROVE f2[c] = CountOn(Sending(r2), c) + d[c]
    <2>1. f2[c] = CountOn(S, c) + d[c] + CountOn(C, c) /\ d[c] \in Nat
      BY DEF Balanced
    <2>2. CountOn(Sending(r2), c) = CountOn(S, c) + CountOn(C, c)
      BY <1>1, <1>2
    <2> HIDE DEF f2, r2, S
    <2> QED
      BY <1>3, <2>1, <2>2
  <1>7. DOMAIN r2 = Jobs
    OBVIOUS
  <1> HIDE DEF r2, f2
  <1>8. Balanced(r2, f2, t + Cardinality(C), d)
    BY <1>4, <1>5, <1>6, <1>7 DEF Balanced
  <1> QED
    BY <1>8 DEF r2, f2

\* deliver: the send of j is over, and waits to be collected.
LEMMA EndKeepsBalance ==
    ASSUME NEW r, NEW f, NEW t, NEW d, Balanced(r, f, t, d),
           NEW j \in Jobs, r[j] = "sending", NEW x, x # "sending"
    PROVE  Balanced([r EXCEPT ![j] = x], f, t, [d EXCEPT ![JobChannel[j]] = @ + 1])
  <1> DEFINE k == JobChannel[j]
             r2 == [r EXCEPT ![j] = x]
             d2 == [d EXCEPT ![k] = @ + 1]
             S == Sending(r)
             U == Uncollected(d)
  <1>1. k \in Channels
    BY JobsAssumption
  <1>2. d \in [Channels -> Nat] /\ d2 \in [Channels -> Nat] /\ DOMAIN r = Jobs /\ DOMAIN r2 = Jobs
    BY <1>1 DEF Balanced
  <1>3. Sending(r2) = S \ {j} /\ j \in S /\ S \in SUBSET Jobs
    BY <1>2 DEF Sending
  <1>4. Uncollected(d2) = U \cup {<<k, d[k] + 1>>} /\ <<k, d[k] + 1>> \notin U
    <2>1. ASSUME NEW c \in Channels, NEW n \in Nat
          PROVE  n \in 1 .. d2[c] <=> n \in 1 .. d[c] \/ (c = k /\ n = d[k] + 1)
      BY <1>1, <1>2
    <2> HIDE DEF k, d2
    <2>2. d[k] + 1 \in Nat /\ d[k] + 1 \notin 1 .. d[k]
      BY <1>1, <1>2
    <2> QED
      BY <1>1, <2>1, <2>2 DEF Uncollected
  <1>5. /\ IsFiniteSet(U) /\ Cardinality(U) \in Nat
        /\ IsFiniteSet(S) /\ Cardinality(S) \in Nat
    BY <1>3, CountType, FS_CardinalityType DEF Balanced
  <1>6. /\ IsFiniteSet(Uncollected(d2)) /\ Cardinality(Uncollected(d2)) = Cardinality(U) + 1
        /\ Cardinality(Sending(r2)) = Cardinality(S) - 1
    <2> DEFINE u == <<k, d[k] + 1>>
    <2>1. Uncollected(d2) = U \cup {u} /\ u \notin U
      BY <1>4
    <2> HIDE DEF u, U, S, r2, d2
    <2>2. IsFiniteSet(U \cup {u}) /\ Cardinality(U \cup {u}) = Cardinality(U) + 1
      BY <1>5, <2>1, FS_AddElement
    <2>3. Cardinality(S \ {j}) = Cardinality(S) - 1
      BY <1>3, <1>5, FS_RemoveElement
    <2> QED
      BY <1>3, <2>1, <2>2, <2>3
  <1>7. t = Cardinality(Sending(r2)) + Cardinality(Uncollected(d2))
    <2>1. t = Cardinality(S) + Cardinality(U)
      BY DEF Balanced
    <2> HIDE DEF S, U, r2, d2
    <2> QED
      BY <1>5, <1>6, <2>1
  <1>8. ASSUME NEW c \in Channels PROVE f[c] = CountOn(Sending(r2), c) + d2[c]
    <2> DEFINE On(X) == {i \in X : JobChannel[i] = c}
    <2>1. f[c] = Cardinality(On(S)) + d[c]
      BY DEF Balanced, CountOn
    <2>2. IsFiniteSet(On(S)) /\ Cardinality(On(S)) \in Nat
      BY <1>5, FS_Subset, FS_CardinalityType
    <2>3. CASE c = k
      <3>1. On(S \ {j}) = On(S) \ {j} /\ j \in On(S)
        BY <1>3, <2>3
      <3>2. Cardinality(On(S \ {j})) = Cardinality(On(S)) - 1
        BY <2>2, <3>1, FS_RemoveElement, ZenonT(30)
      <3>3. d2[c] = d[c] + 1 /\ d[c] \in Nat
        BY <1>2, <2>3
      <3>4. CountOn(Sending(r2), c) = Cardinality(On(S \ {j}))
        BY <1>3 DEF CountOn
      <3> HIDE DEF On, S, r2, d2
      <3> QED
        BY <2>1, <2>2, <3>2, <3>3, <3>4
    <2>4. CASE c # k
      <3>1. On(S \ {j}) = On(S) /\ d2[c] = d[c]
        BY <1>2, <2>4
      <3>2. CountOn(Sending(r2), c) = Cardinality(On(S \ {j}))
        BY <1>3 DEF CountOn
      <3> QED
        BY <2>1, <3>1, <3>2
    <2> QED
      BY <2>3, <2>4
  <1> HIDE DEF r2, d2
  <1>9. f \in [Channels -> Nat]
    BY DEF Balanced
  <1>10. Balanced(r2, f, t, d2)
    BY <1>2, <1>6, <1>7, <1>8, <1>9 DEF Balanced
  <1> QED
    BY <1>10 DEF r2, d2, k

\* finished: a send is collected, and its slot is free.
LEMMA CollectKeepsBalance ==
    ASSUME NEW r, NEW f, NEW t, NEW d, Balanced(r, f, t, d), NEW k \in Channels, d[k] > 0
    PROVE  /\ t \in Nat /\ t > 0
           /\ Balanced(r, [f EXCEPT ![k] = @ - 1], t - 1, [d EXCEPT ![k] = @ - 1])
  <1> DEFINE f2 == [f EXCEPT ![k] = @ - 1]
             d2 == [d EXCEPT ![k] = @ - 1]
             U == Uncollected(d)
             S == Sending(r)
  <1>1. /\ d \in [Channels -> Nat] /\ f \in [Channels -> Nat] /\ d2 \in [Channels -> Nat]
        /\ DOMAIN r = Jobs
    BY DEF Balanced
  <1>2. Uncollected(d2) = U \ {<<k, d[k]>>} /\ <<k, d[k]>> \in U
    <2>1. ASSUME NEW c \in Channels, NEW n \in Nat
          PROVE  n \in 1 .. d2[c] <=> n \in 1 .. d[c] /\ ~(c = k /\ n = d[k])
      BY <1>1
    <2> HIDE DEF d2
    <2>2. d[k] \in Nat /\ d[k] \in 1 .. d[k]
      BY <1>1
    <2> QED
      BY <2>1, <2>2 DEF Uncollected
  <1>3. /\ IsFiniteSet(U) /\ Cardinality(U) \in Nat /\ Cardinality(S) \in Nat
        /\ \A c \in Channels : CountOn(S, c) \in Nat
    <2>1. S \in SUBSET Jobs
      BY DEF Sending
    <2> QED
      BY <2>1, CountType, FS_CardinalityType DEF Balanced
  <1>4. /\ IsFiniteSet(Uncollected(d2)) /\ Cardinality(Uncollected(d2)) = Cardinality(U) - 1
        /\ Cardinality(Uncollected(d2)) \in Nat
    <2> DEFINE u == <<k, d[k]>>
    <2>1. Uncollected(d2) = U \ {u} /\ u \in U
      BY <1>2
    <2> HIDE DEF u, U, d2
    <2>2. IsFiniteSet(U \ {u}) /\ Cardinality(U \ {u}) = Cardinality(U) - 1
      BY <1>3, <2>1, FS_RemoveElement
    <2> QED
      BY <2>1, <2>2, FS_CardinalityType
  <1>5. t = Cardinality(S) + Cardinality(U)
    BY DEF Balanced
  <1>6. t \in Nat /\ t > 0 /\ t - 1 = Cardinality(S) + Cardinality(Uncollected(d2))
    <2> HIDE DEF S, U, d2
    <2> QED
      BY <1>3, <1>4, <1>5
  <1>7. ASSUME NEW c \in Channels
        PROVE  f2[c] \in Nat /\ f2[c] = CountOn(S, c) + d2[c]
    <2>1. f[c] = CountOn(S, c) + d[c] /\ f[c] \in Nat /\ d[c] \in Nat
      BY <1>1 DEF Balanced
    <2>2. IF c = k THEN f2[c] = f[c] - 1 /\ d2[c] = d[c] - 1 /\ d[c] > 0
                   ELSE f2[c] = f[c] /\ d2[c] = d[c]
      BY <1>1
    <2> HIDE DEF f2, d2, S
    <2> QED
      BY <1>3, <2>1, <2>2
  <1>8. f2 \in [Channels -> Nat]
    BY <1>1, <1>7
  <1> HIDE DEF f2, d2
  <1>9. Balanced(r, f2, t - 1, d2)
    BY <1>1, <1>4, <1>6, <1>7, <1>8 DEF Balanced
  <1> QED
    BY <1>6, <1>9 DEF f2, d2

\* fill: a batch fits the free slots, and the share of whatever channel it goes to.
LEMMA BatchFits ==
    ASSUME SlotsInv, total < Concurrency
    PROVE  /\ Oldest(Want) \in SUBSET Claimable
           /\ Cardinality(Oldest(Want)) <= Concurrency - total
           /\ \A c \in Channels : inFlight[c] + CountOn(Oldest(Want), c) <= PerChannelLimit
  <1> DEFINE held == {inFlight[c] : c \in Channels \ Skip}
             B == Oldest(Want)
  <1>1. inFlight \in [Channels -> Nat] /\ total \in Nat
    BY DEF SlotsInv, Balanced
  <1>2. held \in SUBSET Nat /\ \A n \in held : n < PerChannelLimit
    BY <1>1, LimitType DEF Skip
  <1>3. IsFiniteSet(held)
    <2> HIDE DEF held
    <2>1. PerChannelLimit \in Nat /\ \A n \in held : n <= PerChannelLimit
      BY <1>2, LimitType
    <2> QED
      BY <1>2, <2>1, FS_BoundedSetOfNaturals
  <1>4. /\ Busiest \in Nat /\ Busiest < PerChannelLimit
        /\ \A c \in Channels \ Skip : inFlight[c] <= Busiest
    <2>1. Busiest = IF held = {} THEN 0 ELSE CHOOSE n \in held : \A m \in held : m <= n
      BY DEF Busiest
    <2>2. \A c \in Channels \ Skip : inFlight[c] \in held
      OBVIOUS
    <2> HIDE DEF held
    <2>3. CASE held = {}
      BY <2>1, <2>2, <2>3, LimitType
    <2>4. CASE held # {}
      <3>1. held \in SUBSET Int
        BY <1>2
      <3>2. \E n \in held : \A m \in held : m <= n
        BY <1>3, <2>4, <3>1, Greatest
      <3>3. Busiest \in held /\ \A m \in held : m <= Busiest
        BY <2>1, <2>4, <3>2
      <3> QED
        BY <1>2, <2>2, <3>3
    <2> QED
      BY <2>3, <2>4
  <1>5. Want \in Nat /\ Want <= Concurrency - total /\ Want <= PerChannelLimit - Busiest
    BY <1>1, <1>4, LimitType DEF Want, Min2
  <1>6. B \in SUBSET Claimable /\ Cardinality(B) <= Want /\ B \in SUBSET Jobs
    BY <1>5, OldestBounded DEF Claimable
  <1>7. /\ Cardinality(B) \in Nat
        /\ \A c \in Channels : CountOn(B, c) \in Nat /\ CountOn(B, c) <= Cardinality(B)
    BY <1>6, CountType
  <1>8. ASSUME NEW c \in Channels PROVE inFlight[c] + CountOn(B, c) <= PerChannelLimit
    <2>1. CASE c \in Skip
      <3>1. {j \in B : JobChannel[j] = c} = {}
        BY <1>6, <2>1 DEF Claimable
      <3>2. CountOn(B, c) = 0
        BY <3>1, FS_EmptySet DEF CountOn
      <3> QED
        BY <1>1, <3>2 DEF SlotsInv
    <2>2. CASE c \notin Skip
      <3>1. inFlight[c] \in Nat /\ inFlight[c] <= Busiest
        BY <1>1, <1>4, <2>2
      <3> HIDE DEF B
      <3> QED
        BY <1>4, <1>5, <1>6, <1>7, <3>1, LimitType
    <2> QED
      BY <2>1, <2>2
  <1>9. Cardinality(B) <= Concurrency - total
    <2> HIDE DEF B
    <2> QED
      BY <1>1, <1>5, <1>6, <1>7, LimitType
  <1> QED
    BY <1>6, <1>8, <1>9

LEMMA SlotsStep ==
    ASSUME SlotsInv, [Next]_vars
    PROVE  SlotsInv'
  <1>1. total \in Nat /\ inFlight \in [Channels -> Nat]
    BY DEF SlotsInv, Balanced
  <1>2. CASE FillRound
    <2> DEFINE B == Oldest(Want)
    <2>1. /\ row' = [j \in Jobs |-> IF j \in B THEN "sending" ELSE row[j]]
          /\ inFlight' = [c \in Channels |-> inFlight[c] + CountOn(B, c)]
          /\ total' = total + Cardinality(B)
          /\ pc' \in {"select", "fill"} /\ done' = done
      BY <1>2 DEF FillRound
    <2>2. /\ B \in SUBSET Claimable
          /\ Cardinality(B) <= Concurrency - total
          /\ \A c \in Channels : inFlight[c] + CountOn(B, c) <= PerChannelLimit
      BY <1>2, BatchFits DEF FillRound
    <2>3. B \in SUBSET Jobs /\ B \cap Sending(row) = {}
      BY <2>2 DEF Claimable, Sending
    <2>4. Cardinality(B) \in Nat
      BY <2>3, CountType
    <2> HIDE DEF B
    <2>5. Balanced(row', inFlight', total', done')
      BY <2>1, <2>3, StartKeepsBalance DEF SlotsInv
    <2>6. total' \in Nat /\ total' <= Concurrency
      BY <1>1, <2>1, <2>2, <2>4, LimitType
    <2>7. \A c \in Channels : inFlight'[c] <= PerChannelLimit
      BY <2>1, <2>2
    <2>8. pc' # "stopped"
      BY <2>1
    <2> QED
      BY <2>5, <2>6, <2>7, <2>8 DEF SlotsInv
  <1>3. ASSUME NEW c \in Channels, Finished(c), pc' # "stopped", row' = row
        PROVE  SlotsInv'
    <2>1. /\ done[c] > 0 /\ total' = total - 1
          /\ inFlight' = [inFlight EXCEPT ![c] = @ - 1] /\ done' = [done EXCEPT ![c] = @ - 1]
      BY <1>3 DEF Finished
    <2>2. total > 0 /\ Balanced(row', inFlight', total', done')
      BY <1>3, <2>1, CollectKeepsBalance DEF SlotsInv
    <2>3. total' \in Nat /\ total' <= Concurrency
      BY <1>1, <2>1, <2>2, LimitType DEF SlotsInv
    <2>4. \A k \in Channels : inFlight'[k] <= PerChannelLimit
      BY <1>1, <2>1, LimitType DEF SlotsInv
    <2> QED
      BY <1>3, <2>2, <2>3, <2>4 DEF SlotsInv
  <1>4. ASSUME NEW j \in Jobs, SendEnds(j) PROVE SlotsInv'
    <2>1. row[j] = "sending"
      BY <1>4 DEF SendEnds
    <2>2. PICK x \in {"settled", "waiting", "due"} : row' = [row EXCEPT ![j] = x]
      BY <1>4 DEF SendEnds
    <2>3. /\ done' = [done EXCEPT ![JobChannel[j]] = @ + 1]
          /\ UNCHANGED <<inFlight, total, pc>>
      BY <1>4 DEF SendEnds
    <2>4. x # "sending"
      BY <2>2
    <2>5. Balanced(row', inFlight', total', done')
      BY <2>1, <2>2, <2>3, <2>4, EndKeepsBalance DEF SlotsInv
    <2> QED
      BY <2>3, <2>5 DEF SlotsInv
  <1>5. ASSUME NEW j \in Jobs, BecomesDue(j) PROVE SlotsInv'
    <2>1. /\ row[j] = "waiting" /\ row' = [row EXCEPT ![j] = "due"]
          /\ UNCHANGED <<inFlight, total, done, pc>>
      BY <1>5 DEF BecomesDue
    <2>2. Sending(row') = Sending(row) /\ DOMAIN row' = Jobs
      BY <2>1 DEF SlotsInv, Balanced, Sending
    <2> QED
      BY <2>1, <2>2 DEF SlotsInv, Balanced
  <1>6. ASSUME UNCHANGED <<row, inFlight, total, done>>, pc' = "stopped" => total = 0 PROVE SlotsInv'
    BY <1>6 DEF SlotsInv
  <1>7. CASE FillEnds \/ ClaimFails \/ Tick \/ BeginShutdown \/ ShutdownEnds
    BY <1>6, <1>7 DEF FillEnds, ClaimFails, Tick, BeginShutdown, ShutdownEnds
  <1>8. CASE StopRequested \/ GraceOver \/ UNCHANGED vars
    BY <1>6, <1>8 DEF StopRequested, GraceOver, vars, SlotsInv
  <1>9. CASE CollectStep \/ \E c \in Channels : DrainOne(c)
    BY <1>3, <1>9 DEF CollectStep, Collect, DrainOne
  <1> QED
    BY <1>2, <1>4, <1>5, <1>7, <1>8, <1>9 DEF Next

(***************************************************************************)
(* The books of the scheduler balance for every concurrency, any channels  *)
(* and any queue: no slot leaks, no channel takes more than its share, and *)
(* a worker that has stopped has nothing in flight (scheduler, fill,       *)
(* finished, shutdown).                                                    *)
(***************************************************************************)
THEOREM SlotsAlwaysBalance == Spec => []SlotsBalance
  <1>1. Init => SlotsInv
    <2> SUFFICES ASSUME Init PROVE SlotsInv
      OBVIOUS
    <2>1. Sending(row) = {} /\ Uncollected(done) = {}
      BY DEF Init, Sending, Uncollected
    <2>2. Cardinality({}) = 0 /\ IsFiniteSet({}) /\ \A c \in Channels : CountOn({}, c) = 0
      BY FS_EmptySet DEF CountOn
    <2>3. Balanced(row, inFlight, total, done)
      BY <2>1, <2>2 DEF Init, Balanced
    <2> QED
      BY <2>3, LimitType DEF Init, SlotsInv
  <1>2. SlotsInv /\ [Next]_vars => SlotsInv'
    BY SlotsStep
  <1>3. SlotsInv => SlotsBalance
    <2> SUFFICES ASSUME SlotsInv PROVE SlotsBalance
      OBVIOUS
    <2>1. Cardinality(Sending(row)) \in Nat /\ Cardinality(Uncollected(done)) \in Nat
      BY CountType, FS_CardinalityType DEF SlotsInv, Balanced, Sending
    <2>2. Cardinality(Sending(row)) <= total
      BY <2>1 DEF SlotsInv, Balanced
    <2> QED
      BY <2>2 DEF SlotsInv, Balanced, SlotsBalance, Sending
  <1> QED
    BY <1>1, <1>2, <1>3, PTL DEF Spec
-----------------------------------------------------------------------------
(***************************************************************************)
(* The sign-in.  An entry of the throttle counts no more failures than the *)
(* pair really had since its last success (although what it counts may be  *)
(* forgotten), it blocks only when it counts more than the free ones, and  *)
(* what it blocks for ends before it can be forgotten.                     *)
(***************************************************************************)

Entry == [failures : 0 .. MaxFailures, idle : Nat, wait : Nat]

\* An entry e of a pair that failed t times.
EntryOK(e, t) ==
    /\ e \in Entry
    /\ LeastOf(e.failures, FreeFailures + 1) <= t
    /\ e.wait > 0 => e.failures > FreeFailures /\ e.wait + e.idle <= MaxDelay
    /\ e.idle = 0 /\ e.failures > FreeFailures
         => e.wait = LeastOf(BaseDelay * 2^((e.failures - FreeFailures) - 1), MaxDelay)

InCheck(r) == {c \in Clients : r[c].pc = "checking"}

Request == [pc : {"read", "checking", "checked"}, pair : Pairs \cup {NoPair}]

RequestsKnown ==
    /\ DOMAIN requests = Clients
    /\ \A c \in Clients : requests[c] = Idle \/ requests[c] \in Request
    /\ \A c \in Clients : requests[c].pc = "checked" => requests[c].pair \in Pairs

ThrottleInv ==
    /\ tally \in [Pairs -> Nat]
    /\ DOMAIN state \in SUBSET Pairs
    /\ IsFiniteSet(DOMAIN state) /\ Cardinality(DOMAIN state) <= MaxTracked
    /\ \A k \in DOMAIN state : EntryOK(state[k], tally[k])

SlotInv == IsFiniteSet(InCheck(requests)) /\ slots = Cardinality(InCheck(requests))

SignInInv == ThrottleInv /\ RequestsKnown /\ SlotInv

LEMMA SignInConstants ==
    /\ MaxPasswordChecks \in Nat \ {0} /\ BaseDelay \in Nat \ {0} /\ MaxDelay \in Nat \ {0}
    /\ ShiftLimit \in Nat \ {0} /\ WordBits \in Nat \ {0} /\ ForgetAfter \in Nat \ {0}
    /\ MaxTracked \in Nat \ {0} /\ FreeFailures \in Nat /\ MaxFailures \in Nat
    /\ MaxDelay <= ForgetAfter /\ MaxFailures > FreeFailures + ShiftLimit
  BY SignInAssumption

\* The delay doubles up to its limit, and does not overflow on the way.
LEMMA DelayDoubles ==
    ASSUME NEW over \in Nat \ {0}
    PROVE  /\ Delay(over) = LeastOf(BaseDelay * 2^(over - 1), MaxDelay)
           /\ Delay(over) \in Nat /\ Delay(over) > 0 /\ Delay(over) <= MaxDelay
  <1> DEFINE n == BaseDelay * 2^(over - 1)
             top == BaseDelay * 2^(ShiftLimit - 1)
             half == 2^(WordBits - 1)
             word == 2^WordBits
  <1>1. /\ over - 1 \in Nat /\ ShiftLimit - 1 \in Nat /\ WordBits - 1 \in Nat /\ WordBits \in Nat
        /\ WordBits - 1 <= WordBits
    BY SignInConstants
  <1>2. half \in Nat /\ word \in Nat /\ half <= word
    BY <1>1, PowersOfTwo
  <1>3. n \in Nat /\ n > 0 /\ top \in Nat
    <2>1. 2^(over - 1) \in Nat /\ 1 <= 2^(over - 1) /\ 2^(ShiftLimit - 1) \in Nat
      <3>1. over - 1 <= over - 1 /\ ShiftLimit - 1 <= ShiftLimit - 1
        BY <1>1
      <3> QED
        BY <1>1, <3>1, PowersOfTwo
    <2>2. BaseDelay * 1 <= n /\ n \in Nat /\ top \in Nat
      BY <2>1, Scaled, SignInConstants
    <2>3. BaseDelay * 1 = BaseDelay
      BY SignInConstants
    <2> HIDE DEF n, top
    <2> QED
      BY <2>2, <2>3, SignInConstants
  <1>4. MaxDelay <= top /\ top < half
    <2>1. top \in MaxDelay .. half - 1
      BY SignInAssumption
    <2> HIDE DEF top, half
    <2> QED
      BY <1>2, <1>3, <2>1, SignInConstants
  <1>5. CASE over <= ShiftLimit
    <2>1. over - 1 <= ShiftLimit - 1
      BY <1>5, SignInConstants
    <2>2. n <= top
      BY <1>1, <2>1, PowersOfTwo, Scaled, SignInConstants
    <2>3. Delay(over) = LeastOf(Word(n), MaxDelay)
      BY <1>5 DEF Delay
    <2>4. Word(n) = IF n % word < half THEN n % word ELSE (n % word) - word
      BY DEF Word
    <2> HIDE DEF n, top, half, word
    <2>5. n < word /\ n < half
      BY <1>2, <1>3, <1>4, <2>2
    <2>6. Word(n) = n
      BY <1>2, <1>3, <2>4, <2>5, SmallRemainder
    <2>7. Delay(over) = LeastOf(n, MaxDelay)
      BY <2>3, <2>6
    <2>8. LeastOf(n, MaxDelay) \in Nat /\ LeastOf(n, MaxDelay) > 0 /\ LeastOf(n, MaxDelay) <= MaxDelay
      BY <1>3, SignInConstants DEF LeastOf
    <2> QED
      BY <2>7, <2>8 DEF n
  <1>6. CASE ~(over <= ShiftLimit)
    <2>1. ShiftLimit - 1 <= over - 1
      BY <1>6, SignInConstants
    <2>2. top <= n
      BY <1>1, <2>1, PowersOfTwo, Scaled, SignInConstants
    <2>3. Delay(over) = MaxDelay
      BY <1>6 DEF Delay
    <2> HIDE DEF n, top
    <2>4. LeastOf(n, MaxDelay) = MaxDelay
      BY <1>3, <1>4, <2>2, SignInConstants DEF LeastOf
    <2> QED
      BY <2>3, <2>4, SignInConstants DEF n
  <1> QED
    BY <1>5, <1>6

\* One more failure, counted in the entry and of the pair.
LEMMA FailedKeepsEntry ==
    ASSUME NEW e, NEW t \in Nat, EntryOK(e, t)
    PROVE  EntryOK(Failed(e), CountTo(IF e.idle > ForgetAfter THEN 0 ELSE t, FreeFailures + 1))
  <1> DEFINE before == IF e.idle > ForgetAfter THEN 0 ELSE t
             counted == IF e.idle > ForgetAfter THEN 0 ELSE e.failures
             failures == CountTo(counted, MaxFailures)
             over == failures - FreeFailures
             delay == IF over > 0 THEN Delay(over) ELSE e.wait
             wait == IF delay > 0 THEN delay ELSE 0
  <1>1. Failed(e) = [failures |-> failures, idle |-> 0, wait |-> wait]
    BY DEF Failed
  <1>2. e.failures \in 0 .. MaxFailures /\ e.idle \in Nat /\ e.wait \in Nat
    BY DEF EntryOK, Entry
  <1>3. /\ failures \in 1 .. MaxFailures
        /\ failures <= counted + 1 /\ counted \in Nat /\ counted <= e.failures
    BY <1>2, SignInConstants DEF CountTo
  <1>4. LeastOf(failures, FreeFailures + 1) <= CountTo(before, FreeFailures + 1)
    <2>1. LeastOf(counted, FreeFailures + 1) <= before /\ before \in Nat
      <3>1. LeastOf(e.failures, FreeFailures + 1) <= t
        BY DEF EntryOK
      <3> QED
        BY <1>2, <3>1, SignInConstants DEF LeastOf
    <2> HIDE DEF failures, counted, before
    <2> QED
      BY <1>2, <1>3, <2>1, SignInConstants DEF LeastOf, CountTo
  <1>5. CASE failures > FreeFailures
    <2>1. over \in Nat \ {0}
      <3> HIDE DEF failures
      <3> QED
        BY <1>3, <1>5, SignInConstants
    <2>2. /\ Delay(over) = LeastOf(BaseDelay * 2^(over - 1), MaxDelay)
          /\ Delay(over) \in Nat /\ Delay(over) > 0 /\ Delay(over) <= MaxDelay
      <3> HIDE DEF over
      <3> QED
        BY <2>1, DelayDoubles
    <2>3. wait = Delay(over)
      <3> HIDE DEF over
      <3> QED
        BY <2>1, <2>2
    <2>4. /\ wait \in Nat /\ wait + 0 <= MaxDelay
          /\ wait = LeastOf(BaseDelay * 2^((failures - FreeFailures) - 1), MaxDelay)
      <3>1. over = failures - FreeFailures
        OBVIOUS
      <3> HIDE DEF over, wait, failures
      <3> QED
        BY <2>2, <2>3, <3>1, SignInConstants
    <2> HIDE DEF failures, wait
    <2>5. Failed(e) \in Entry
      BY <1>1, <1>3, <2>4 DEF Entry
    <2> QED
      BY <1>1, <1>4, <1>5, <2>4, <2>5 DEF EntryOK
  <1>6. CASE ~(failures > FreeFailures)
    <2>1. ~(over > 0)
      <3> HIDE DEF failures
      <3> QED
        BY <1>3, <1>6, SignInConstants
    <2>2. wait = e.wait
      <3> HIDE DEF over
      <3> QED
        BY <1>2, <2>1
    <2>3. e.wait = 0
      <3>1. CASE e.idle > ForgetAfter
        <4>1. e.wait > 0 => e.wait + e.idle <= MaxDelay
          BY DEF EntryOK
        <4> QED
          BY <1>2, <3>1, <4>1, SignInConstants
      <3>2. CASE ~(e.idle > ForgetAfter)
        <4>1. ~(e.failures > FreeFailures)
          BY <1>2, <1>6, <3>2, SignInConstants DEF CountTo
        <4> QED
          BY <1>2, <4>1 DEF EntryOK
      <3> QED
        BY <3>1, <3>2
    <2> HIDE DEF failures, wait
    <2>4. Failed(e) = [failures |-> failures, idle |-> 0, wait |-> 0]
      BY <1>1, <2>2, <2>3
    <2>5. Failed(e) \in Entry
      BY <1>3, <2>4 DEF Entry
    <2> QED
      BY <1>4, <1>6, <2>4, <2>5 DEF EntryOK
  <1> QED
    BY <1>5, <1>6

\* makeRoom leaves room for one more pair.
LEMMA RoomLeft ==
    ASSUME ThrottleInv, NEW kept \in RoomMade, NEW k
    PROVE  /\ kept \in SUBSET DOMAIN state
           /\ IsFiniteSet(kept \cup {k}) /\ Cardinality(kept \cup {k}) <= MaxTracked
  <1> DEFINE recent == {x \in DOMAIN state : ~Forgotten(x)}
  <1>1. IsFiniteSet(DOMAIN state) /\ recent \in SUBSET DOMAIN state
    BY DEF ThrottleInv
  <1>2. kept \in SUBSET DOMAIN state
    BY <1>1 DEF RoomMade
  <1>3. IsFiniteSet(kept) /\ Cardinality(kept) \in Nat
    BY <1>1, <1>2, FS_Subset, FS_CardinalityType
  <1>4. Cardinality(kept) < MaxTracked
    <2> HIDE DEF recent
    <2>1. \/ Cardinality(DOMAIN state) < MaxTracked /\ kept = DOMAIN state
          \/ Cardinality(recent) < MaxTracked /\ kept = recent
          \/ Cardinality(kept) = MaxTracked - 1
      BY DEF RoomMade, recent
    <2> QED
      BY <2>1, SignInConstants
  <1>5. IsFiniteSet(kept \cup {k}) /\ Cardinality(kept \cup {k}) <= Cardinality(kept) + 1
    BY <1>3, FS_AddElement, SMTT(20)
  <1>6. Cardinality(kept \cup {k}) \in Nat
    BY <1>5, FS_CardinalityType
  <1> QED
    BY <1>2, <1>3, <1>4, <1>5, <1>6, SignInConstants

LEMMA WrongKeepsThrottle ==
    ASSUME ThrottleInv, NEW pair \in Pairs, Fail(pair),
           tally' = [tally EXCEPT ![pair] =
                       CountTo(IF pair \in DOMAIN state /\ Forgotten(pair) THEN 0 ELSE @, FreeFailures + 1)]
    PROVE  ThrottleInv'
  <1> DEFINE fresh == [failures |-> 0, idle |-> 0, wait |-> 0]
             old == pair \in DOMAIN state /\ Forgotten(pair)
             t == CountTo(IF old THEN 0 ELSE tally[pair], FreeFailures + 1)
  <1>1. tally[pair] \in Nat /\ t \in Nat
    BY SignInConstants DEF ThrottleInv, CountTo
  <1>2. /\ tally' \in [Pairs -> Nat] /\ tally'[pair] = t
        /\ \A k \in Pairs \ {pair} : tally'[k] = tally[k]
    BY <1>1 DEF ThrottleInv
  <1>3. EntryOK(fresh, tally[pair])
    <2>1. /\ fresh \in Entry
          /\ fresh.failures = 0 /\ fresh.idle = 0 /\ fresh.wait = 0
      BY SignInConstants DEF Entry
    <2> HIDE DEF fresh
    <2> QED
      BY <1>1, <2>1, SignInConstants DEF EntryOK, LeastOf
  <1>4. CASE pair \in DOMAIN state
    <2>1. state' = [state EXCEPT ![pair] = Failed(@)]
      BY <1>4 DEF Fail, Key
    <2>2. /\ DOMAIN state' = DOMAIN state
          /\ state'[pair] = Failed(state[pair])
          /\ \A k \in DOMAIN state \ {pair} : state'[k] = state[k]
      BY <1>4, <2>1
    <2>3. EntryOK(state'[pair], tally'[pair])
      <3>1. old <=> state[pair].idle > ForgetAfter
        BY <1>4 DEF Forgotten
      <3>2. EntryOK(Failed(state[pair]),
                    CountTo(IF state[pair].idle > ForgetAfter THEN 0 ELSE tally[pair], FreeFailures + 1))
        BY <1>1, <1>4, FailedKeepsEntry DEF ThrottleInv
      <3> QED
        BY <1>2, <2>2, <3>1, <3>2
    <2> QED
      BY <1>2, <2>2, <2>3 DEF ThrottleInv
  <1>5. CASE pair \notin DOMAIN state
    <2>1. PICK kept \in RoomMade :
            state' = [x \in kept \cup {pair} |-> IF x = pair THEN Failed(fresh) ELSE state[x]]
      BY <1>5 DEF Fail, Key
    <2>2. /\ kept \in SUBSET DOMAIN state
          /\ IsFiniteSet(kept \cup {pair}) /\ Cardinality(kept \cup {pair}) <= MaxTracked
      BY <2>1, RoomLeft
    <2>6. ~(fresh.idle > ForgetAfter) /\ ~old
      BY <1>5, SignInConstants
    <2> HIDE DEF fresh
    <2>3. /\ DOMAIN state' = kept \cup {pair}
          /\ state'[pair] = Failed(fresh)
          /\ \A k \in kept \ {pair} : state'[k] = state[k]
      BY <2>1
    <2>4. EntryOK(state'[pair], tally'[pair])
      <3>1. EntryOK(Failed(fresh), CountTo(IF fresh.idle > ForgetAfter THEN 0 ELSE tally[pair], FreeFailures + 1))
        BY <1>1, <1>3, FailedKeepsEntry
      <3> QED
        BY <1>2, <2>3, <2>6, <3>1
    <2>5. \A k \in DOMAIN state' : EntryOK(state'[k], tally'[k])
      BY <1>2, <2>2, <2>3, <2>4 DEF ThrottleInv
    <2> QED
      BY <1>2, <2>2, <2>3, <2>5 DEF ThrottleInv
  <1> QED
    BY <1>4, <1>5

LEMMA RightKeepsThrottle ==
    ASSUME ThrottleInv, NEW pair \in Pairs, Succeed(pair), tally' = [tally EXCEPT ![pair] = 0]
    PROVE  ThrottleInv'
  <1>1. /\ tally' \in [Pairs -> Nat]
        /\ \A k \in Pairs \ {pair} : tally'[k] = tally[k]
    BY DEF ThrottleInv
  <1>2. /\ DOMAIN state' = DOMAIN state \ {pair}
        /\ \A k \in DOMAIN state' : state'[k] = state[k]
    BY DEF Succeed, Key, Restrict
  <1>3. IsFiniteSet(DOMAIN state') /\ Cardinality(DOMAIN state') <= Cardinality(DOMAIN state)
    BY <1>2, FS_Subset DEF ThrottleInv
  <1>4. Cardinality(DOMAIN state') \in Nat /\ Cardinality(DOMAIN state) \in Nat
    BY <1>3, FS_CardinalityType DEF ThrottleInv
  <1>5. Cardinality(DOMAIN state') <= MaxTracked
    BY <1>3, <1>4, SignInConstants DEF ThrottleInv
  <1> QED
    BY <1>1, <1>2, <1>3, <1>5 DEF ThrottleInv

LEMMA TimeKeepsThrottle ==
    ASSUME ThrottleInv, SecondPasses
    PROVE  ThrottleInv'
  <1>1. DOMAIN state' = DOMAIN state /\ tally' = tally
    BY DEF SecondPasses
  <1>2. ASSUME NEW k \in DOMAIN state PROVE EntryOK(state'[k], tally[k])
    <2> DEFINE e == state[k]
               idle == CountTo(e.idle, ForgetAfter + 1)
               wait == IF e.wait > 0 THEN e.wait - 1 ELSE 0
    <2>1. EntryOK(e, tally[k]) /\ e \in Entry
      BY DEF ThrottleInv, EntryOK
    <2>2. state'[k] = [failures |-> e.failures, idle |-> idle, wait |-> wait]
      BY <2>1 DEF SecondPasses, Entry
    <2>3. e.failures \in 0 .. MaxFailures /\ e.idle \in Nat /\ e.wait \in Nat
      BY <2>1 DEF Entry
    <2>4. /\ idle \in Nat /\ idle # 0 /\ idle <= e.idle + 1
          /\ wait \in Nat
          /\ wait > 0 => e.wait > 0 /\ wait + 1 = e.wait
      BY <2>3, SignInConstants DEF CountTo
    <2> HIDE DEF idle, wait
    <2>5. state'[k] \in Entry
      BY <2>2, <2>3, <2>4 DEF Entry
    <2> HIDE DEF e
    <2>6. wait > 0 => e.failures > FreeFailures /\ wait + idle <= MaxDelay
      <3>1. e.wait > 0 => e.failures > FreeFailures /\ e.wait + e.idle <= MaxDelay
        BY <2>1 DEF EntryOK
      <3> QED
        BY <2>3, <2>4, <3>1, SignInConstants
    <2>7. LeastOf(e.failures, FreeFailures + 1) <= tally[k]
      BY <2>1 DEF EntryOK
    <2> QED
      BY <2>2, <2>4, <2>5, <2>6, <2>7 DEF EntryOK
  <1> QED
    BY <1>1, <1>2 DEF ThrottleInv

\* A request that takes no slot and frees none.
LEMMA SlotsRest ==
    ASSUME SlotInv, DOMAIN requests = Clients, NEW c \in Clients, NEW q,
           requests[c].pc # "checking", q.pc # "checking",
           requests' = [requests EXCEPT ![c] = q], UNCHANGED slots
    PROVE  SlotInv'
  <1>1. InCheck(requests') = InCheck(requests)
    BY DEF InCheck
  <1> QED
    BY <1>1 DEF SlotInv

LEMMA RequestsMove ==
    ASSUME RequestsKnown, NEW c \in Clients, NEW q,
           requests' = [requests EXCEPT ![c] = q],
           q = Idle \/ q \in Request, q.pc = "checked" => q.pair \in Pairs
    PROVE  RequestsKnown'
  BY DEF RequestsKnown

LEMMA ThrottleRests ==
    ASSUME ThrottleInv, UNCHANGED <<state, tally>>
    PROVE  ThrottleInv'
  BY DEF ThrottleInv

LEMMA SignInStep ==
    ASSUME SignInInv, [SignInNext]_signInVars
    PROVE  SignInInv'
  <1> USE DEF SignInInv
  <1>1. DOMAIN requests = Clients /\ Idle.pc = "idle" /\ "idle" # "checking" /\ "idle" # "checked"
    BY DEF RequestsKnown, Idle
  <1>2. ASSUME NEW c \in Clients, requests[c].pc \in {"read", "checking", "checked"}
        PROVE  requests[c] \in Request
    BY <1>1, <1>2 DEF RequestsKnown
  <1>3. ASSUME NEW c \in Clients, NEW pair \in Pairs \cup {NoPair},
               Attempt(c, pair) \/ (pair = NoPair /\ ChangePassword(c))
        PROVE  SignInInv'
    <2> DEFINE q == [pc |-> "read", pair |-> pair]
    <2>1. requests[c] = Idle /\ requests' = [requests EXCEPT ![c] = q] /\ UNCHANGED <<state, slots, tally>>
      BY <1>3 DEF Attempt, ChangePassword, Go
    <2>2. q \in Request /\ q.pc # "checking" /\ q.pc # "checked"
      BY DEF Request
    <2> HIDE DEF q
    <2>3. ThrottleInv' /\ RequestsKnown' /\ SlotInv'
      BY <1>1, <2>1, <2>2, ThrottleRests, RequestsMove, SlotsRest
    <2> QED
      BY <2>3
  <1>4. ASSUME NEW c \in Clients, AcquirePasswordCheck(c) PROVE SignInInv'
    <2>1. requests[c].pc = "read" /\ requests[c] \in Request /\ UNCHANGED <<state, tally>>
      BY <1>2, <1>4 DEF AcquirePasswordCheck
    <2>2. CASE Answer(c) /\ UNCHANGED slots
      <3>1. requests' = [requests EXCEPT ![c] = Idle]
        BY <2>2 DEF Answer, Go
      <3>2. ThrottleInv' /\ RequestsKnown' /\ SlotInv'
        BY <1>1, <2>1, <2>2, <3>1, ThrottleRests, RequestsMove, SlotsRest
      <3> QED
        BY <3>2
    <2>3. CASE slots' = slots + 1 /\ Go(c, [requests[c] EXCEPT !.pc = "checking"])
      <3> DEFINE q == [requests[c] EXCEPT !.pc = "checking"]
      <3>1. requests' = [requests EXCEPT ![c] = q]
        BY <2>3 DEF Go
      <3>2. q \in Request /\ q.pc = "checking"
        BY <2>1 DEF Request
      <3> HIDE DEF q
      <3>3. InCheck(requests') = InCheck(requests) \cup {c} /\ c \notin InCheck(requests)
        BY <1>1, <2>1, <3>1, <3>2 DEF InCheck
      <3>4. SlotInv'
        BY <2>3, <3>3, FS_AddElement DEF SlotInv
      <3>5. ThrottleInv' /\ RequestsKnown'
        BY <2>1, <3>1, <3>2, ThrottleRests, RequestsMove
      <3> QED
        BY <3>4, <3>5
    <2> QED
      BY <1>4, <2>2, <2>3 DEF AcquirePasswordCheck
  <1>5. ASSUME NEW c \in Clients, CheckPassword(c) PROVE SignInInv'
    <2>1. /\ requests[c].pc = "checking" /\ requests[c] \in Request
          /\ slots' = slots - 1 /\ UNCHANGED <<state, tally>>
      BY <1>2, <1>5 DEF CheckPassword, Release
    <2>2. PICK q : /\ requests' = [requests EXCEPT ![c] = q]
                   /\ q = Idle \/ q \in Request
                   /\ q.pc = "checked" => q.pair \in Pairs
                   /\ q.pc # "checking"
      <3>1. CASE requests[c].pair = NoPair
        BY <1>1, <1>5, <3>1 DEF CheckPassword, Answer, Go
      <3>2. CASE requests[c].pair # NoPair
        <4> DEFINE q == [requests[c] EXCEPT !.pc = "checked"]
        <4>1. requests' = [requests EXCEPT ![c] = q]
          BY <1>5, <3>2 DEF CheckPassword, Go
        <4>2. q \in Request /\ q.pc = "checked" /\ q.pair \in Pairs
          BY <2>1, <3>2 DEF Request
        <4> HIDE DEF q
        <4> QED
          BY <4>1, <4>2
      <3> QED
        BY <3>1, <3>2
    <2>3. InCheck(requests') = InCheck(requests) \ {c} /\ c \in InCheck(requests)
      BY <1>1, <2>1, <2>2 DEF InCheck
    <2>4. SlotInv'
      BY <2>1, <2>3, FS_RemoveElement DEF SlotInv
    <2>5. ThrottleInv' /\ RequestsKnown'
      BY <2>1, <2>2, ThrottleRests, RequestsMove
    <2> QED
      BY <2>4, <2>5
  <1>6. ASSUME NEW c \in Clients, WrongPassword(c) \/ RightPassword(c) PROVE SignInInv'
    <2>1. /\ requests[c].pc = "checked" /\ UNCHANGED slots
          /\ requests' = [requests EXCEPT ![c] = Idle]
      BY <1>6 DEF WrongPassword, RightPassword, Answer, Go
    <2>2. requests[c].pair \in Pairs /\ requests[c].pc # "checking"
      BY <2>1 DEF RequestsKnown
    <2>3. ThrottleInv'
      BY <1>6, <2>2, WrongKeepsThrottle, RightKeepsThrottle DEF WrongPassword, RightPassword
    <2>4. RequestsKnown' /\ SlotInv'
      BY <1>1, <2>1, <2>2, RequestsMove, SlotsRest
    <2> QED
      BY <2>3, <2>4
  <1>7. CASE SecondPasses
    <2>1. UNCHANGED <<slots, requests, tally>>
      BY <1>7 DEF SecondPasses
    <2> QED
      BY <1>7, <2>1, TimeKeepsThrottle DEF RequestsKnown, SlotInv
  <1>8. CASE UNCHANGED signInVars
    BY <1>8, ThrottleRests DEF signInVars, RequestsKnown, SlotInv
  <1> QED
    BY <1>3, <1>4, <1>5, <1>6, <1>7, <1>8 DEF SignInNext, Step

(***************************************************************************)
(* A sign-in is held up only for a reason of its own, whatever sign-ins    *)
(* fail beside it, with whatever free failures, delays and bounds that fit *)
(* the word: no overflow shortens or reverses a delay, and no way out of a *)
(* handler leaks a slot (Throttle, makeRoom, acquirePasswordCheck).        *)
(***************************************************************************)
THEOREM AlwaysHeldUpForCause == SignInSpec => []HeldUpForCause
  <1>1. SignInInit => SignInInv
    <2> SUFFICES ASSUME SignInInit PROVE SignInInv
      OBVIOUS
    <2>1. DOMAIN state = {} /\ tally \in [Pairs -> Nat]
      BY DEF SignInInit
    <2>2. InCheck(requests) = {} /\ RequestsKnown
      BY DEF SignInInit, InCheck, RequestsKnown, Idle
    <2>3. IsFiniteSet({}) /\ Cardinality({}) = 0
      BY FS_EmptySet
    <2>4. ThrottleInv
      BY <2>1, <2>3, SignInConstants DEF ThrottleInv
    <2>5. SlotInv
      BY <2>2, <2>3 DEF SignInInit, SlotInv
    <2> QED
      BY <2>2, <2>4, <2>5 DEF SignInInv
  <1>2. SignInInv /\ [SignInNext]_signInVars => SignInInv'
    BY SignInStep
  <1>3. SignInInv => HeldUpForCause
    <2> SUFFICES ASSUME SignInInv PROVE HeldUpForCause
      OBVIOUS
    <2>1. ASSUME NEW k \in DOMAIN state
          PROVE  /\ state[k].wait > 0 => tally[k] > FreeFailures
                 /\ state[k].idle = 0 /\ state[k].failures - FreeFailures > 0 =>
                      state[k].wait =
                        LeastOf(BaseDelay * 2^((state[k].failures - FreeFailures) - 1), MaxDelay)
      <3> DEFINE e == state[k]
      <3>1. EntryOK(e, tally[k]) /\ e \in Entry /\ tally[k] \in Nat
        BY DEF SignInInv, ThrottleInv, EntryOK
      <3>2. e.failures \in Nat
        BY <3>1 DEF Entry
      <3> HIDE DEF e
      <3>3. /\ LeastOf(e.failures, FreeFailures + 1) <= tally[k]
            /\ e.wait > 0 => e.failures > FreeFailures
            /\ e.idle = 0 /\ e.failures > FreeFailures
                 => e.wait = LeastOf(BaseDelay * 2^((e.failures - FreeFailures) - 1), MaxDelay)
        BY <3>1 DEF EntryOK
      <3>4. e.failures > FreeFailures => tally[k] > FreeFailures
        <4>1. LeastOf(e.failures, FreeFailures + 1) <= tally[k]
          BY <3>3
        <4> QED
          BY <3>1, <3>2, <4>1, SignInConstants DEF LeastOf
      <3>5. e.failures - FreeFailures > 0 <=> e.failures > FreeFailures
        BY <3>2, SignInConstants
      <3>6. /\ e.wait > 0 => tally[k] > FreeFailures
            /\ e.idle = 0 /\ e.failures - FreeFailures > 0
                 => e.wait = LeastOf(BaseDelay * 2^((e.failures - FreeFailures) - 1), MaxDelay)
        BY <3>3, <3>4, <3>5
      <3> QED
        BY <3>6 DEF e
    <2>2. \A pair \in Pairs : Wait(pair) > 0 => tally[pair] > FreeFailures
      BY <2>1 DEF Wait, Key
    <2>3. slots = Cardinality({c \in Clients : requests[c].pc = "checking"})
      BY DEF SignInInv, SlotInv, InCheck
    <2>4. Cardinality(DOMAIN state) <= MaxTracked
      BY DEF SignInInv, ThrottleInv
    <2> QED
      BY <2>1, <2>2, <2>3, <2>4 DEF HeldUpForCause
  <1> QED
    BY <1>1, <1>2, <1>3, PTL DEF SignInSpec
=============================================================================
