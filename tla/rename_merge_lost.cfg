SPECIFICATION Spec
CONSTANTS
    a = a
    b = b
    x = x
    Name = {a, b, x}
    RoutedName = {a, b}
    za = za
    zb = zb
    Zone = {za, zb}
    ZoneOf <- MCZoneOf
    Object = {o1}
    Handler = {h1}
    NoName = NoName
    AddressState <- MCStates
    InitialState <- MCInitial
    GrpcName = {b}
    PersistMayFail = TRUE
    MaxChanges = 2
    MaxGrpc = 0
    MaxCrashes = 0
PROPERTIES MutationIsSignalled
