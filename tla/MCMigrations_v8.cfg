SPECIFICATION MigrationsSpec
CONSTANTS
    FirstVersions = {8}
    Troubles = {}
    MaxBootCrashes = 1
INVARIANT RowsSurvive
CHECK_DEADLOCK FALSE
