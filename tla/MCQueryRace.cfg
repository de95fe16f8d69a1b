SPECIFICATION QuerySpec
CONSTANTS
    Requests = {r1, r2, r3}
    Messages <- Traffic
    Seed <- Filled
    PoolSize = 2
    UniqueIndexes <- NoIndex
    MayFail = TRUE
    MayCrash = TRUE
    Queries = {q1}
    QueryMessages <- Asked
    QueryPoolSize <- OneOfEach
SYMMETRY RequestSymmetry
INVARIANTS QueryTypeOK SteadyCheckIsRight NotFoundIsJustified AcknowledgedIsQueried
CHECK_DEADLOCK FALSE
