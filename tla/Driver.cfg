CONSTANTS
    Settings <- MCSettings
    BuiltIn <- MCBuiltIn
    Files <- MCFiles
    Environments <- MCEnvironments
    AnchorWords = {"x-base", "x-keys", "x-log", "x-none"}
    Texts <- MCTexts
    Numbers = {"7", "30"}
    Blank = " "
    Filled = "debug"
    NoDefault = NoDefault
    NoList = NoList
    MaxReportedKeys = 1
SPECIFICATION LoadSpec
CHECK_DEADLOCK FALSE
INVARIANTS
    DriverFollowsDSN
