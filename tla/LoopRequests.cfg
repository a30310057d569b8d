CONSTANTS
    Keys = {k1}
    NoKey = NoKey
    Types = {"incident", "business_event"}
    Severities = {"warning"}
    Actions = {"ack", "mute", "unmute", "resolve"}
    Channels = {"mail"}
    NoChannel = NoChannel
    Route <- OneChannel
    Fallback <- NoFallback
    MaxAttempts = 1
    NotifyOnResolve = TRUE
    MaxEvents = 2
    Clients = {c1, c2}
    Workers = {}
    Concurrency = 1
    TimelyWorkers = TRUE
    MaxRare = 0
SPECIFICATION Spec
SYMMETRY ClientSymmetry
INVARIANTS
    OneOpenPerKey
PROPERTIES
    StoreSpec
