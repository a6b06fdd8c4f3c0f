SPECIFICATION Spec
CONSTANTS
    Keys = {k1, k2}
    Foreign = {}
    NoPeer = NoPeer
    NoKey = NoKey
    Helpers = {TRUE}
    PoolSize = 2
    ForeignAddr <- LastAddr
    MaxWaiting = 1
    HandEdits = TRUE
    Reuse = TRUE
PROPERTY DeletedStaysOut
