SPECIFICATION HostSpec
CONSTANTS
    TrKeys = {"x", "a"}
    BackendOf <- mcBackend
    Refreshers = {"loop", "view"}
    RetainHours = 1
    LastHour = 0
    MaxMoved = 0
    MaxRestarts = 0
    MaxStatsFaults = 0
    AnKeys = {"x"}
    Protocol <- mcProtocol
    ParentOf <- mcParent
    NoParent = NoParent
    Nets = {"n1", "n2"}
    RelayNets = {}
    ScanWindow = 2
    Concurrent = 1
    UniqueNets = 2
    Cooldown = 4
    MaxConn = 1
    AutoRevoke = FALSE
    LastTick = 5
    FutureSkew = 1
    MaxUses = 4
    Admins = {"a1", "a2"}
    WalkSources <- mcSources
    Links = {"unit"}
    Excluded = {"hostkey"}
    RecoverySources = {"env"}
    Sizes = {1, 3}
    FirstSize = 2
    MaxFileBytes = 2
    MaxTotalBytes = 3
    Interval = 2
    StartDelay = 1
    MaxAge = 5
    LastTime = 1
    MaxBackupFaults = 0
    MaxBackupCrashes = 0
    MaxFileChanges = 0
    MaxManual = 0
    Slugs = {"goog", "cloud"}
    Addr = {"a", "b", "m"}
    Publish <- mcPublish
    Endpoints = {"b"}
    Guarded = {}
    MaxPrefixes = 3
    MaxShrinkPct = 40
    MaxGrowthPct = 60
    ConfirmStreak = 2
    FirstFile <- mcFirstFile
    FirstAdd = "goog"
    FirstEnabled = {"goog"}
    MaxCycles = 0
    MaxEdits = 0
    MaxCrashes = 0
    Panels = {"p"}
    SampleWin = 1
    Points = 2
    Ttl = 1
    LastSecond = 1
    MaxViews = 1
    Procs = {"p1", "p2"}
    LoopOrder <- mcLoops
    ProbeLoop = "hysteria-health"
    MaxStarts = 0
    MaxPasses = 0
    MaxBulks = 0
INVARIANT CooldownHolds
CHECK_DEADLOCK FALSE
