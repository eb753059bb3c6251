SPECIFICATION JwksSpec
CONSTANTS
    Key = {k1, k2}
    Request = {r1, r2}
    TTL = 2
    FetchTimeout = 1
INVARIANTS
    JwksTypeOK
    RotationWithoutDowntime
PROPERTIES
    RetiredKeysFallOut
