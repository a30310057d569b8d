CONSTANTS
    Keys = {k1}
    NoKey = NoKey
    Types = {"incident"}
    Severities = {"warning", "critical"}
    Actions = {"mute", "unmute", "resolve"}
    Channels = {"mail", "pager"}
    NoChannel = NoChannel
    Route <- Escalating
    Fallback <- MailToPager
    MaxAttempts = 2
    NotifyOnResolve = TRUE
    MaxEvents = 1
    Sessions = {s1, s2}
    Senders = {r1, r2}
    Timer = timer
    Nobody = nobody
    Reports <- OneCheck
    SpoolMax = 1
    RetryCount = 1
    MaxReports = 2
    MaxFaults = 1
SPECIFICATION LocksSpec
CHECK_DEADLOCK FALSE
INVARIANTS
    NoLockCycle
PROPERTIES
    KeptIsKept
    StoreSpec
    SentInOrder
    SpoolGoesOut
