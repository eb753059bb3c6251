SPECIFICATION TenancySpec
SYMMETRY Alike
CONSTANTS
    Client = {c1, c2}
    NoKey = NoKey
    Body = {b1, b2}
    IdemKey = {k1}
    Token = {t1}
    Issued = {t1}
    MaxProjects = 2
    Expiries = 0
INVARIANTS
    KeyCreatesOne
