SPECIFICATION Spec
CONSTANTS
    b1 = b1
    b2 = b2
    b3 = b3
    c1 = c1
    c2 = c2
    lost = lost
    Missing = Missing
    Name = {b1, b2, b3, c1, c2, lost}
    Zone <- MCZone
    ZoneOf <- MCZoneOf
    Guard <- MCGuard
    NetboxContents <- MoveContents
    DynName = {c1}
    DynZone = {2}
    Calls = {"merge"}
    Replica = {r1}
    AllowShrink = FALSE
    FetchMayFail = TRUE
    WriteMayFail = FALSE
    MaxCrashes = 1
    MaxHandlers = 1
INVARIANTS QuiescentDisk PushOwed PushOnlyWhenReady
PROPERTIES SuccessfulMergePublishes ServedNeverEmptied
