SPECIFICATION ResourcesFairSpec
CONSTANTS
    c1 = c1  c2 = c2  e1 = e1  e2 = e2  u1 = u1  u2 = u2
    Client = {c1, c2}
    Ext = {e1, e2}
    Second = {u1, u2}
    MaxId = 3
    Kind = {"advertiser", "campaign", "flight", "ad", "site", "zone", "creative", "template", "library"}
    Batches <- MCBatches
    Preload <- MCPreload
    Capacity <- MCCapacity
    PageSize = 1
    MaxVersion = 2
INVARIANTS
    ResourcesTypeOK
    WalkExact
    ImagesStored
PROPERTIES
    ImplementsStore
    WritesEnd
