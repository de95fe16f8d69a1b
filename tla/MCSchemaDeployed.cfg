SPECIFICATION FairSpec
CONSTANTS
    Requests = {r1, r2, r3}
    Messages <- RacingMessages
    Seed <- NoSeed
    PoolSize = 2
    UniqueIndexes <- DeployedIndex
    MayFail = TRUE
    MayCrash = TRUE
PROPERTIES Responds ImplementsWorkerPool
CHECK_DEADLOCK FALSE
