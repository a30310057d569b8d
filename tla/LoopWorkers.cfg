CONSTANTS
    Keys = {k1}
    NoKey = NoKey
    Types = {"incident"}
    Severities = {"warning", "critical"}
    Actions = {"mute"}
    Channels = {"mail", "pager"}
    NoChannel = NoChannel
    Route <- Escalating
    Fallback <- MailToPager
    MaxAttempts = 2
    NotifyOnResolve = TRUE
    MaxEvents = 1
    Clients = {c1}
    Workers = {w1, w2}
    Concurrency = 2
    TimelyWorkers = TRUE
    MaxRare = 1
SPECIFICATION Spec
SYMMETRY WorkerSymmetry
INVARIANTS
    AlertHeardBeforeRecovery
    NoAlertAfterItsRecovery
    ClaimIsExclusive
PROPERTIES
    StoreSpec
    RiseAlertsRoute
