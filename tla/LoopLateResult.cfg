CONSTANTS
    Keys = {k1}
    NoKey = NoKey
    Types = {"incident"}
    Severities = {"warning"}
    Actions = {"mute"}
    Channels = {"mail", "pager"}
    NoChannel = NoChannel
    Route <- OneChannel
    Fallback <- MailToPager
    MaxAttempts = 1
    NotifyOnResolve = TRUE
    MaxEvents = 1
    Clients = {c1}
    Workers = {w1, w2}
    Concurrency = 2
    TimelyWorkers = FALSE
    MaxRare = 2
SPECIFICATION Spec
PROPERTIES
    LateResultDiscarded
