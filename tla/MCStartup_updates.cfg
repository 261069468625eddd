SPECIFICATION StartupFairSpec
CONSTANTS
    None = None
    a = a
    b = b
    ServerIds = {a, b}
    DefaultPoll = 1
    DefaultGC = 1
    DefaultMaxAge = 1
    Texts <- MCTextsOff
    Example <- MCExample
    Blank <- MCBlank
    Cut <- MCCut
    MaxVersions = 2
    MaxFaults = 2
    MaxEdits = 1
    AgeCap = 1
PROPERTIES
    UpdatesCanBeDisabled
