SPECIFICATION Spec
CONSTANTS
    k1 = k1
    k2 = k2
    u1 = u1
    s1 = s1
    NoSid = NoSid
    NoTask = NoTask
    NoKey = NoKey
    Boot = Boot
    Tasks = {t1}
    Keys <- TwoKeys
    Users <- OneUser
    Foreign = {}
    ShortIds <- MCShortIds
    Transport <- TcpAndHttp
    Sid <- TcpSid
    Owner <- SameOwner
    ApplyMode = "api"
    ReloadRebuilds = TRUE
    OperatorEdits = FALSE
    CrossEdits = FALSE
INVARIANT RevokedNotServed
