SPECIFICATION JobsSpec
CONSTANTS
    Window = 2
    MaxWarpFaults = 1
    MaxWarpCrashes = 1
    EKeys = {1, 2}
    ExpiresAt <- mcExpires
    Thresholds = {1, 2}
    RevokeLimit = 2
    RemindLimit = 2
    RefusedKeys = {1}
    LastDay = 3
    MaxSendFaults = 1
    MaxJobCrashes = 1
    FirstVersions = {0, 5, 7, 9, 12, 15, 16, 17, 27, 28, 30, 32, 33, 35, 39, 40}
    Troubles = {"same_ip", "two_live_proxies", "two_pending_trials", "orphan", "enum"}
    MaxBootCrashes = 2
INVARIANTS TeardownIsFinal  BootIsSafe
PROPERTIES OpReturns ExpiredGetRevoked
CHECK_DEADLOCK FALSE
