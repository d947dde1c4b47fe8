SPECIFICATION Spec
CONSTANTS
    Zone = {z1, z2}
    Replica = {r1}
    Secondary = {}
    NoZone = NoZone
    Off = Off
    ZonesMayGo = TRUE
    MaxSerialDrift = 100
    MaxClock = 2
    MaxWrites = 2
    MaxFaults = 1
    MaxCrashes = 1
INVARIANTS TypeOK PushedIsLoaded
PROPERTIES NoStepBack DroppedOnlyIfGone
SYMMETRY Symmetric
