SPECIFICATION Spec
CONSTANTS
    a = a
    b = b
    x = x
    Name = {a, b, x}
    RoutedName = {a, b}
    za = za
    zb = zb
    Zone = {za, zb}
    ZoneOf <- MCZoneOf
    Object = {o1}
    Handler = {h1, h2}
    NoName = NoName
    AddressState <- MCStates
    InitialState <- MCInitial
    GrpcName = {b}
    PersistMayFail = FALSE
    MaxChanges = 2
    MaxGrpc = 1
    MaxCrashes = 1
INVARIANTS TypeOK PublishOwed
PROPERTIES NewestWins OverlaySpec Settles
