SPECIFICATION PipelineFairSpec
CONSTANTS
    i1 = i1
    i2 = i2
    d1 = d1
    k1 = k1
    Ping = {i1, i2}
    Decision = {d1}
    KeyOf <- MCKeyOf
    NumEvents <- MCNumEvents
    NoKey = NoKey
    Capacity = 2
    DrainBatch = 2
    MaxTime = 1
    LeafTimes = {0}
    MaxFaults = 1
INVARIANTS
    PipelineTypeOK
    MemoryIsLogSuffix
    DecisionsAlwaysCount
PROPERTIES
    ImplementsDelivery
    AcceptedEventsResolve
