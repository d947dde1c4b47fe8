SPECIFICATION Spec
CONSTANTS
    b1 = b1
    b2 = b2
    b3 = b3
    c1 = c1
    c2 = c2
    lost = lost
    Missing = Missing
    Name = {b1, b2, b3, c1, c2, lost}
    Zone <- MCZone
    ZoneOf <- MCZoneOf
    Guard <- MCGuard
    NetboxContents <- GuardContents
    DynName = {}
    DynZone = {}
    Calls = {"poll", "hook"}
    Replica = {}
    AllowShrink = TRUE
    FetchMayFail = FALSE
    WriteMayFail = FALSE
    MaxCrashes = 0
    MaxHandlers = 1
INVARIANTS TypeOK ConsentNotWaiting RefusalMonotone
PROPERTIES ShrinkNeedsConsent
