SPECIFICATION Spec
CONSTANTS
    Requests = {r1, r2}
    Messages <- FirstVersionRace
    Seed <- NoSeed
    PoolSize = 2
    UniqueIndexes <- NoIndex
    MayFail = FALSE
    MayCrash = FALSE
INVARIANTS NoDuplicates
CHECK_DEADLOCK FALSE
