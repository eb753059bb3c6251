SPECIFICATION UndisturbedSpec
CONSTANTS
    Runner = {p1, p2}
    FirstDay = 1
    SeedEnd = 2
    LastDay = 4
    PREMAKE_DAYS = 3
    Retention = 1
    AlterAnswers = {"refused"}
PROPERTIES
    WindowPremade
