CONSTANTS
    Keys = {k1}
    NoKey = NoKey
    Types = {"incident"}
    Severities = {"warning"}
    Actions = {"mute"}
    Channels = {"mail", "pager"}
    NoChannel = NoChannel
    Route <- OneChannel
    Fallback <- MailToPager
    MaxAttempts = 2
    NotifyOnResolve = TRUE
    MaxEvents = 1
    Clients = {c1}
    Workers = {w1}
    Concurrency = 2
    TimelyWorkers = TRUE
    MaxRare = 1
SPECIFICATION FairSpec
PROPERTIES
    AllSettle
