SPECIFICATION ScanSpec
CONSTANTS
    MaxMeasurements = 4
    Sources <- MCSources
    Packets <- MCPackets
INVARIANTS
    StoresTheMaximum
