SPECIFICATION MCSpec
CONSTANTS
    r1 = r1
    r2 = r2
    Request = {r1, r2}
    None = None
    Body <- MCBody
    Catalog <- MCCatalog
    GlobalForce = TRUE
    MaxPlacements = 2
    MaxPick = 2
    Capacity = 2
    MaxTime = 1
    MaxCandidates = 4
    Weight <- MCWeight
    MaxCount = 4
INVARIANTS
    DecisionTypeOK
    AnswersEligible
    ForceAudited
    EventsMatchAnswer
    RollsProportional
    ReturnsADraw
PROPERTIES
    AllAnswered
CHECK_DEADLOCK FALSE
