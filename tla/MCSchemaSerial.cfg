SPECIFICATION Spec
CONSTANTS
    Requests = {r1, r2, r3, r4}
    Messages <- SerialMessages
    Seed <- NoSeed
    PoolSize = 1
    UniqueIndexes <- NoIndex
    MayFail = FALSE
    MayCrash = FALSE
INVARIANTS NoDuplicates
PROPERTIES ImplementsRegistry
CHECK_DEADLOCK FALSE
