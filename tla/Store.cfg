CONSTANTS
    Keys = {k1}
    NoKey = NoKey
    Types = {"incident"}
    Severities = {"warning", "critical"}
    Actions = {"ack", "mute", "unmute", "resolve", "escalate"}
    Channels = {"mail", "pager"}
    NoChannel = NoChannel
    Route <- MCRoute
    Fallback <- MCFallback
    MaxAttempts = 2
    NotifyOnResolve = TRUE
    MaxEvents = 1
SPECIFICATION StoreSpec
CHECK_DEADLOCK FALSE
INVARIANTS
    StoreTypeOK
    EveryAlertRecoveredOnce
    MutedIsQuiet
    RecoveryAfterAlert
    DeadLetterRedirected
    BudgetKept
PROPERTIES
    KeepsPromises
