SPECIFICATION Spec
CONSTANTS
    k1 = k1
    k2 = k2
    u1 = u1
    s1 = s1
    NoSid = NoSid
    NoTask = NoTask
    NoKey = NoKey
    Boot = Boot
    Tasks = {t1, t2}
    Keys <- TwoKeys
    Users <- OneUser
    Foreign = {}
    ShortIds <- MCShortIds
    Transport <- BothTcp
    Sid <- SharedSid
    Owner <- SameOwner
    ApplyMode = "restart"
    ReloadRebuilds = TRUE
    OperatorEdits = FALSE
    CrossEdits = FALSE
SYMMETRY Interchangeable
INVARIANT NoGhostClient
INVARIANT ShortIdKept
INVARIANT BlockedStaysOut
