SPECIFICATION Spec
CONSTANTS
    Requests = {r1, r2}
    Messages <- Creations
    Seed <- NoSeed
    PoolSize = 1
    UniqueIndexes <- NoIndex
    MayFail = FALSE
    MayCrash = FALSE
PROPERTIES ReportsLastMinor
CHECK_DEADLOCK FALSE
