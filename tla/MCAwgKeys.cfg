SPECIFICATION Spec
CONSTANTS
    Keys = {k1, k2}
    Foreign = {f1}
    NoPeer = NoPeer
    NoKey = NoKey
    Helpers = {TRUE, FALSE}
    PoolSize = 3
    ForeignAddr <- LastAddr
    MaxWaiting = 1
    HandEdits = TRUE
    Reuse = FALSE
SYMMETRY Interchangeable
INVARIANT NoGhostPeer
INVARIANT AddressUnique
PROPERTY CleanStartIsExact
PROPERTY KeysLiveAsPromised
