SPECIFICATION FairSpec
CONSTANTS
    Proc = {p1, p2}
    Slot = {s1, s2}
    Job = {rollup}
    Budget = 1
    MaxFaults = 1
    NoSlot = NoSlot
    NoConn = NoConn
    NoProc = NoProc
INVARIANTS
    TypeOK
    AtMostOneLiveLease
PROPERTIES
    ImplementsLease
    LeadershipRecovers
