SPECIFICATION RollupFairSpec
CONSTANTS
    Proc = {p1, p2}
    NoProc = NoProc
    ColdGap = 1
    StartHour = 3
    MaxHour = 5
    MaxRows = 1
    MaxFaults = 1
INVARIANTS
    RollupTypeOK
    AggregatedBelowWatermark
PROPERTIES
    ImplementsLedger
    EveryHourPublished
