SPECIFICATION SnapshotFairSpec
CONSTANTS
    NumTables = 2
    MaxRev = 1
    MaxVersion = 2
    MaxFaults = 0
PROPERTIES
    MutationServed
CHECK_DEADLOCK FALSE
