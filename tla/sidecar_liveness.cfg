SPECIFICATION Spec
CONSTANTS
    b1 = b1
    b2 = b2
    b3 = b3
    c1 = c1
    c2 = c2
    lost = lost
    Missing = Missing
    Name = {b1, b2, b3, c1, c2, lost}
    Zone <- MCZone
    ZoneOf <- MCZoneOf
    Guard <- MCGuard
    NetboxContents <- TwoContents
    DynName = {}
    DynZone = {}
    Calls = {"poll", "merge"}
    Replica = {}
    AllowShrink = FALSE
    FetchMayFail = TRUE
    WriteMayFail = TRUE
    MaxCrashes = 1
    MaxHandlers = 1
PROPERTIES CacheSurvivesUntilFetch ReadyOffCache StalenessAlarm Converges
