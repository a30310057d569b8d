CONSTANTS
    Senders = {r1, r2}
    Timer = timer
    Nobody = nobody
    Reports <- OneCheck
    SpoolMax = 2
    RetryCount = 1
    MaxReports = 2
    MaxFaults = 0
SPECIFICATION SpoolSpec
PROPERTIES
    ResolvedNeverOvertakes
