CONSTANTS
    Jobs = {1, 2, 3, 4, 5}
    Channels = {"hung", "mail", "chat"}
    JobChannel <- MCJobChannel
    Hung = {"hung"}
    Concurrency = 3
    MaxTries = 2
    Workers = {w1, w2}
    TickEvery = 2
    Horizon = 6
    Clients = {c1, c2}
    Pairs <- TwoAddresses
    NoPair = NoPair
    MaxPasswordChecks = 1
    FreeFailures = 1
    BaseDelay = 1
    MaxDelay = 4
    ShiftLimit = 3
    WordBits = 4
    ForgetAfter = 4
    MaxTracked = 1
    MaxFailures = 5
SPECIFICATION SharedSpec
CHECK_DEADLOCK FALSE
INVARIANTS
    SlotsBalance
    PollsAreSeen
    HeldUpForCause
PROPERTIES
    OthersGoOut
    StopEnds
    EveryBlockEnds
