SPECIFICATION RegistrySpec
CONSTANTS
    Requests = {r1, r2}
    Messages <- SchemaTraffic
    Seed <- NoSeed
    PoolSize = 2
    UniqueIndexes <- NoIndex
    MayFail = TRUE
    MayCrash = TRUE
    ConsumerRequests = {c1, c2, c3}
    ConsumerMessages <- ConsumerTraffic
    ConsumerPoolSize = 2
    ConsumerIndexes <- NoIndex
SYMMETRY RequestSymmetry
INVARIANTS ConsumerTypeOK RegisteredSchemaWasStored ConsumerAnswersAreHonest RegistrationsBounded
CHECK_DEADLOCK FALSE
