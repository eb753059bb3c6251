SPECIFICATION SnapshotFairSpec
CONSTANTS
    NumTables = 2
    MaxRev = 2
    MaxVersion = 3
    MaxFaults = 2
INVARIANTS
    SnapshotTypeOK
    VersionBacksData
PROPERTIES
    ReadersNeverGoBack
    VersionServed
CHECK_DEADLOCK FALSE
