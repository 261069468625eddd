SPECIFICATION JSONFairSpec
CONSTANTS
    None = None
    here = here
    there = there
    id1 = id1
    guid1 = guid1
    f = f
    up = up
    Families = {f, up}
    PlayerLoaded = up
    Values = {here, there, id1, guid1}
    SteamIds = {id1}
    BUID <- MCBUID
    Bodies <- MCBodies
    Target = here
    MaxBodyLines = 3
CHECK_DEADLOCK FALSE
INVARIANTS
    AcceptedWhole
    LastWriteWins
PROPERTIES
    HandlerEnds
    TranslatorEnds
