CONSTANTS
    Clients = {c1, c2}
    NoClient = NoClient
    Letters = {"ann", "bob"}
    Passwords = {p1}
    NoPassword = NoPassword
    MaxLifetime = 4
    IdleTimeout = 3
    TouchEvery = 2
    MaxDelay = 1
    MaxUsers = 2
    MaxSessions = 2
    Callers = {r1, r2}
    Addresses = {"a1", "a2"}
    Burst = 2
    Rate = 1
    Cost = 2
    SweepEvery = 2
    EvictAfter = 5
    Lag = 1
    MaxClock = 7
    MaxCalls = 5
    Reporters = {q1, q2}
    Sources = {"web", "db"}
    NoSource = NoSource
    Limits <- MCLimits
    NoLimit = NoLimit
    MaxReported = 2
SPECIFICATION ConsoleSpec
SYMMETRY RequestSymmetry
CHECK_DEADLOCK FALSE
INVARIANTS
    OneFirstUser
    UsedSessionsLast
PROPERTIES
    RateKept
    EndedStaysEnded
    OthersUntouched
