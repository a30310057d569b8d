CONSTANTS
    Keys = {k1}
    NoKey = NoKey
    Types = {"incident"}
    Severities = {"info", "warning", "critical"}
    Actions = {}
    Channels = {"mail", "pager"}
    NoChannel = NoChannel
    Route <- BySeverity
    Fallback <- NoFallback
    MaxAttempts = 1
    NotifyOnResolve = TRUE
    MaxEvents = 1
    Clients = {c1, c2}
    Workers = {}
    Concurrency = 1
    TimelyWorkers = TRUE
    MaxRare = 0
SPECIFICATION Spec
PROPERTIES
    RiseAlertsRoute
