SPECIFICATION FairSpec
CONSTANTS
    k1 = k1
    k2 = k2
    u1 = u1
    s1 = s1
    NoSid = NoSid
    NoTask = NoTask
    NoKey = NoKey
    Boot = Boot
    Tasks = {t1, t2}
    Keys <- OneKey
    Users <- OneUser
    Foreign = {f1}
    ShortIds <- MCShortIds
    Transport <- OneTcp
    Sid <- OneSid
    Owner <- OneOwner
    ApplyMode = "api"
    ReloadRebuilds = TRUE
    OperatorEdits = TRUE
    CrossEdits = FALSE
PROPERTY CleanStartIsExact
PROPERTY KeysLiveAsPromised
PROPERTY CallsReturn
PROPERTY StartupEnds
