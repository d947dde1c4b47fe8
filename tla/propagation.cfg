SPECIFICATION Spec
CONSTANTS
    Zone = {z1}
    Replica = {r1}
    Secondary = {s1}
    NoZone = NoZone
    Off = Off
    ZonesMayGo = FALSE
    MaxSerialDrift = 100
    MaxClock = 3
    MaxWrites = 2
    MaxFaults = 1
    MaxCrashes = 1
INVARIANTS NotifyOwed
PROPERTIES ReplicasCatchUp SecondariesConverge
