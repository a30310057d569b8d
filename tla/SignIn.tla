------------------------------- MODULE SignIn -------------------------------
(***************************************************************************)
(* The brakes of the console sign-in: Throttle (internal/auth), which makes *)
(* a pair of login and address wait after failed attempts, and the slots    *)
(* for password checks (internal/api/auth.go).  Several sign-ins run at     *)
(* once; each takes the lock of the throttle twice, before the password is  *)
(* checked and after, and holds a slot in between.                          *)
(*                                                                         *)
(* Time is kept as ages: an entry knows how long ago its last failure was   *)
(* (idle) and how much longer it blocks (wait).                            *)
(***************************************************************************)
EXTENDS Integers, FiniteSets, Functions

CONSTANTS
    Clients,            \* requests served at the same time
    Pairs,              \* throttleKey: login and address
    NoPair,             \* a password check for a change of password
    MaxPasswordChecks,
    FreeFailures,
    BaseDelay,
    MaxDelay,
    ShiftLimit,         \* the shift is computed up to this many failures over
    WordBits,           \* the width of a duration
    ForgetAfter,
    MaxTracked,
    MaxFailures         \* bound: failures are counted up to here

ASSUME SignInAssumption ==
    /\ NoPair \notin Pairs
    /\ {MaxPasswordChecks, BaseDelay, MaxDelay, ShiftLimit, WordBits, ForgetAfter, MaxTracked} \subseteq Nat \ {0}
    /\ FreeFailures \in Nat
    /\ MaxDelay <= ForgetAfter
    /\ BaseDelay * 2^(ShiftLimit - 1) \in MaxDelay .. 2^(WordBits - 1) - 1
    /\ MaxFailures \in Nat /\ MaxFailures > FreeFailures + ShiftLimit

VARIABLES
    state,      \* Throttle.state: pair -> failures, idle, wait
    slots,      \* entries in the channel passwordChecks
    requests,   \* client -> where its sign-in is
    tally       \* pair -> failures since its last success, or since they were forgotten,
                \* up to the first that blocks

signInVars == <<state, slots, requests, tally>>

Idle == [pc |-> "idle"]

SignInInit ==
    /\ state = <<>> /\ slots = 0
    /\ requests = [c \in Clients |-> Idle]
    /\ tally = [p \in Pairs |-> 0]

Go(c, request) == requests' = [requests EXCEPT ![c] = request]

Answer(c) == Go(c, Idle)

CountTo(n, limit) == IF n < limit THEN n + 1 ELSE limit
-----------------------------------------------------------------------------
(******************************** Throttle *********************************)

\* Fault: the address is not part of the key.
KeyByLogin(pair) == [pair EXCEPT !.address = "any"]

Key(pair) == pair

Wait(pair) == IF Key(pair) \in DOMAIN state THEN state[Key(pair)].wait ELSE 0

\* A duration of WordBits bits, two's complement.
Word(n) == LET m == n % 2^WordBits IN IF m < 2^(WordBits - 1) THEN m ELSE m - 2^WordBits

LeastOf(a, b) == IF a < b THEN a ELSE b

Delay(over) ==
    IF over <= ShiftLimit THEN LeastOf(Word(BaseDelay * 2^(over - 1)), MaxDelay) ELSE MaxDelay

Forgotten(k) == state[k].idle > ForgetAfter

\* makeRoom: the pairs that may be kept; which ones is up to the map.
RoomMade ==
    LET recent == {k \in DOMAIN state : ~Forgotten(k)}
    IN IF Cardinality(DOMAIN state) < MaxTracked THEN {DOMAIN state}
       ELSE IF Cardinality(recent) < MaxTracked THEN {recent}
       ELSE {kept \in SUBSET recent : Cardinality(kept) = MaxTracked - 1}

\* An entry after one more failure.
Failed(entry) ==
    LET failures == CountTo(IF entry.idle > ForgetAfter THEN 0 ELSE entry.failures, MaxFailures)
        over == failures - FreeFailures
        delay == IF over > 0 THEN Delay(over) ELSE entry.wait
    IN [failures |-> failures, idle |-> 0, wait |-> IF delay > 0 THEN delay ELSE 0]

Fail(pair) ==
    LET k == Key(pair)
        fresh == [failures |-> 0, idle |-> 0, wait |-> 0]
    IN IF k \in DOMAIN state
       THEN state' = [state EXCEPT ![k] = Failed(@)]
       ELSE \E kept \in RoomMade :
              state' = [x \in kept \cup {k} |-> IF x = k THEN Failed(fresh) ELSE state[x]]

Succeed(pair) == state' = Restrict(state, DOMAIN state \ {Key(pair)})
-----------------------------------------------------------------------------
(******************************* handleLogin *******************************)

\* Fault: the throttle is not asked.
AttemptUnasked(c, pair) ==
    /\ requests[c] = Idle
    /\ Go(c, [pc |-> "read", pair |-> pair])
    /\ UNCHANGED <<state, slots, tally>>

\* The throttle is asked first; a pair that must wait is answered 429.
Attempt(c, pair) ==
    /\ requests[c] = Idle
    /\ Wait(pair) = 0
    /\ Go(c, [pc |-> "read", pair |-> pair])
    /\ UNCHANGED <<state, slots, tally>>

\* handleChangePassword checks a password too, without the throttle.
ChangePassword(c) ==
    /\ requests[c] = Idle
    /\ Go(c, [pc |-> "read", pair |-> NoPair])
    /\ UNCHANGED <<state, slots, tally>>

\* acquirePasswordCheck: a slot at once, or 429.
AcquirePasswordCheck(c) ==
    /\ requests[c].pc = "read"
    /\ \/ /\ slots < MaxPasswordChecks
          /\ slots' = slots + 1
          /\ Go(c, [requests[c] EXCEPT !.pc = "checking"])
       \/ /\ slots = MaxPasswordChecks
          /\ Answer(c)
          /\ UNCHANGED slots
    /\ UNCHANGED <<state, tally>>

Release(c) == slots - 1

\* CheckPassword and release.
CheckPassword(c) ==
    /\ requests[c].pc = "checking"
    /\ slots' = Release(c)
    /\ IF requests[c].pair = NoPair THEN Answer(c) ELSE Go(c, [requests[c] EXCEPT !.pc = "checked"])
    /\ UNCHANGED <<state, tally>>

WrongPassword(c) ==
    LET pair == requests[c].pair
        old == pair \in DOMAIN state /\ Forgotten(pair)
    IN /\ requests[c].pc = "checked"
       /\ Fail(pair)
       /\ tally' = [tally EXCEPT ![pair] = CountTo(IF old THEN 0 ELSE @, FreeFailures + 1)]
       /\ Answer(c)
       /\ UNCHANGED slots

RightPassword(c) ==
    LET pair == requests[c].pair
    IN /\ requests[c].pc = "checked"
       /\ Succeed(pair)
       /\ tally' = [tally EXCEPT ![pair] = 0]
       /\ Answer(c)
       /\ UNCHANGED slots

SecondPasses ==
    /\ state # <<>>
    /\ state' = [k \in DOMAIN state |->
                   [state[k] EXCEPT !.idle = CountTo(@, ForgetAfter + 1),
                                    !.wait = IF @ > 0 THEN @ - 1 ELSE 0]]
    /\ UNCHANGED <<slots, requests, tally>>

Step(c) ==
    \/ AcquirePasswordCheck(c) \/ CheckPassword(c)
    \/ WrongPassword(c) \/ RightPassword(c)

SignInNext ==
    \/ \E c \in Clients : Step(c) \/ ChangePassword(c) \/ \E pair \in Pairs : Attempt(c, pair)
    \/ SecondPasses

\* A request that was accepted is served to its end, and time passes.
SignInFairness == WF_signInVars(SecondPasses) /\ \A c \in Clients : WF_signInVars(Step(c))

SignInSpec == SignInInit /\ [][SignInNext]_signInVars /\ SignInFairness
-----------------------------------------------------------------------------
(******************************* properties ********************************)

\* A sign-in is held up only for a reason of its own.  It waits only for
\* failures of its own login from its own address, more than the free ones,
\* since the last success and not forgotten in between; each of them blocks for twice as long as the one
\* before, up to the limit, however many there are and although sign-ins let in
\* together fail one after the other; the table of them keeps its bound; and a
\* slot is held exactly by the checks that run, so that none is refused for a
\* slot some way out of a handler leaked (Throttle, makeRoom,
\* acquirePasswordCheck).
HeldUpForCause ==
    /\ \A pair \in Pairs : Wait(pair) > 0 => tally[pair] > FreeFailures
    /\ \A k \in DOMAIN state :
          LET over == state[k].failures - FreeFailures
          IN state[k].idle = 0 /\ over > 0 => state[k].wait = LeastOf(BaseDelay * 2^(over - 1), MaxDelay)
    /\ Cardinality(DOMAIN state) <= MaxTracked
    /\ slots = Cardinality({c \in Clients : requests[c].pc = "checking"})

\* Nobody is locked out: a pair that must wait may try again sometime, also
\* when sign-ins that were let in before keep failing (Wait, Fail).
EveryBlockEnds == \A pair \in Pairs : Wait(pair) > 0 ~> Wait(pair) = 0
=============================================================================
