SPECIFICATION HostSpec
CONSTANTS
    TrKeys = {"x", "a"}
    BackendOf <- mcBackend
    Refreshers = {"loop", "view"}
    RetainHours = 1
    LastHour = 1
    MaxMoved = 2
    MaxRestarts = 1
    MaxStatsFaults = 1
    AnKeys = {"x", "y", "w", "h"}
    Protocol <- mcProtocol
    ParentOf <- mcParent
    NoParent = NoParent
    Nets = {"n1", "n2"}
    RelayNets = {"n2"}
    ScanWindow = 2
    Concurrent = 1
    UniqueNets = 2
    Cooldown = 2
    MaxConn = 1
    AutoRevoke = TRUE
    LastTick = 3
    FutureSkew = 1
    MaxUses = 3
    Admins = {"a1", "a2"}
    WalkSources <- mcSources
    Links = {"unit"}
    Excluded = {"hostkey"}
    RecoverySources = {"env"}
    Sizes = {1, 3}
    FirstSize = 2
    MaxFileBytes = 2
    MaxTotalBytes = 3
    Interval = 2
    StartDelay = 1
    MaxAge = 5
    LastTime = 7
    MaxBackupFaults = 1
    MaxBackupCrashes = 1
    MaxFileChanges = 1
    MaxManual = 1
    Slugs = {"goog", "cloud"}
    Addr = {"a", "b", "m"}
    Publish <- mcPublish
    Endpoints = {"b"}
    Guarded = {}
    MaxPrefixes = 3
    MaxShrinkPct = 40
    MaxGrowthPct = 60
    ConfirmStreak = 2
    FirstFile <- mcFirstFile
    FirstAdd = "goog"
    FirstEnabled = {"goog"}
    MaxCycles = 2
    MaxEdits = 2
    MaxCrashes = 1
    Panels = {"p"}
    SampleWin = 1
    Points = 2
    Ttl = 1
    LastSecond = 2
    MaxViews = 3
    Procs = {"p1", "p2"}
    LoopOrder <- mcLoops
    ProbeLoop = "hysteria-health"
    MaxStarts = 2
    MaxPasses = 2
    MaxBulks = 2
CONSTRAINT FewAtOnce
INVARIANTS TrafficExact  BackupsAreUsable  ShutdownIsOrderly
 
CHECK_DEADLOCK FALSE
