SPECIFICATION StartupFairSpec
CONSTANTS
    None = None
    a = a
    b = b
    ServerIds = {a, b}
    DefaultPoll = 1
    DefaultGC = 1
    DefaultMaxAge = 1
    Texts <- MCTexts
    Example <- MCExample
    Blank <- MCBlank
    Cut <- MCCut
    MaxVersions = 2
    MaxFaults = 3
    MaxEdits = 1
    AgeCap = 2
INVARIANTS
    StartupTypeOK
    ConfigFileWhole
    InitGivesConfig
    DatabaseServed
PROPERTIES
    OperatorTextKept
    DatabaseOnlyImproves
    ServesAtLast
