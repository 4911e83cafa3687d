SPECIFICATION ProgramsSpec
CONSTANTS
    Lines = 2
    ChannelSize = 2
    Timed = TRUE
    MaxReconnects = 3
    OpenMayFail = TRUE
    Timeout = TRUE
    Scripts = {"self", "other"}
    Self = "self"
    Proxies = {"p", "q"}
    NoProxies = {"hosts"}
    Options <- SomeOptions
    UserKeys = {"theme"}
    Previous <- SomeSettings
    Unset = Unset
    Blank = Blank
    Missing = Missing
    Partial = Partial
INVARIANTS
    ProgramsTypeOK
    NoKubectlLeft
    ValidMeansForwarded
    OneKubectl
    AnnouncementNotLost
    LogFilesBounded
    SetupComplete
    UserSettingsKept
PROPERTIES
    ValidateEnds
    TunnelDecided
