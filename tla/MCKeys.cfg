SPECIFICATION KeysSpec
CONSTANTS
    Bundles = {b1}
    MaxKey = 3
    Basic <- mcBasic
    Extended <- mcExtended
    BackendOf <- mcBackendOf
    EnvOff = {}
    Relays <- mcRelays
    Direct = direct
    Prints = {"chrome", "firefox"}
    NoBundle = NoBundle
    NoKeyId = NoKeyId
    MaxFaults = 1
    MaxTurns = 2
    UKeys = {k1, k2}
    MaxVersion = 3
    MaxTrouble = 2
    PIds = {1, 2, 3}
    POwners = {"alice", "bob"}
    OwnerOf <- mcProxyOwner
    MaxPFaults = 2
    HyKeys = {"k1", "k2"}
    HyOwner <- mcHyOwner
    MaxInodes = 2
    MaxHyFaults = 1
    SwapWhileOpening = FALSE
INVARIANTS NothingLeftBehind RevokedIsDead  PurgedBeforeRemoval  
PROPERTY OnlyConfirmedPlanRuns
CHECK_DEADLOCK FALSE
