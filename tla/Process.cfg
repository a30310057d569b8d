CONSTANTS
    Settings <- MCSettings
    BuiltIn <- MCBuiltIn
    Files <- MCFiles
    Environments <- MCEnvironments
    AnchorWords = {"x-base", "x-keys", "x-log", "x-none"}
    Texts <- MCTexts
    Numbers = {"7", "30"}
    Blank = " "
    Filled = "debug"
    NoDefault = NoDefault
    NoList = NoList
    MaxReportedKeys = 1
    Configs <- MCConfigs
    NoRouting = NoRouting
    Events <- MCEvents
    MaxLength = 5
    Processes = {"old", "server", "worker"}
    Ships <- OldAndNew
    MaxCrashes = 2
    Modes = {"server", "worker", "all"}
    MaxRequests = 2
    MaxSends = 2
SPECIFICATION ProcessSpec
CHECK_DEADLOCK FALSE
INVARIANTS
    SettingsHold
    ValidatedBuilds
    RoutedAsWritten
    SplitAsWritten
    AppliedOnceInOrder
    ClosedAfterUse
PROPERTIES
    NothingUnmentioned
    EveryStartSettles
    EndsTogether
