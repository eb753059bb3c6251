SPECIFICATION TenancySpec
SYMMETRY Alike
CONSTANTS
    Client = {c1, c2}
    NoKey = NoKey
    Body = {b1, b2}
    IdemKey = {k1}
    Token = {t1, t2, t3}
    Issued = {t1, t2}
    MaxProjects = 2
    Expiries = 1
INVARIANTS
    TenancyTypeOK
    RevokedStaysOut
    MutationsAudited
    ProjectsWhole
