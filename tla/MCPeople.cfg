SPECIFICATION PeopleSpec
CONSTANTS
    Guests = {"u"}
    MaxAsked = 2
    MaxTrials = 1
    MaxClock = 2
    MaxAskFaults = 1
    MaxAskCrashes = 1
    Flows = {"own", "admin", "edit", "proxy", "ann"}
    Kinds = {"xray", "awg"}
    Clients = {"alice", "bob"}
    BundleAsksFp = TRUE
    MaxWizards = 2
    MaxDone = 3
    MaxRaces = 1
    Slots = {s1, s2}
    RelayNames = {"ru1"}
    Hosts = {"h1", "h2"}
    RelayKeys = {"k1", "k2"}
    ProbeWindow = 2
    MaxRelayFaults = 1
    MaxRelayCrashes = 1
    Recipients = {1, 2, 3}
    PageSize = 2
    MaxAnnFaults = 1
    MaxAnnCrashes = 1
    Bosses = {"s1", "s2"}
    Readers = {1, 2}
    NoticePage = 1
    MaxSwitches = 2
    MaxReaderChanges = 1
    MaxMtFaults = 1
    MaxMtCrashes = 1
SYMMETRY Sym
CONSTRAINT FewAtOnce
INVARIANTS OneKeyPerTrial OncePerWizard NoLeftovers CatalogIsTable SentAsAsked MaintenanceHolds
PROPERTY StaleApprovalKeepsBlock
CHECK_DEADLOCK FALSE
