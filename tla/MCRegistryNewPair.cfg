SPECIFICATION RegistrySpec
CONSTANTS
    Requests = {r1}
    Messages <- DeleteOnly
    Seed <- BothStored
    PoolSize = 1
    UniqueIndexes <- NoIndex
    MayFail = FALSE
    MayCrash = FALSE
    ConsumerRequests = {c1, c2}
    ConsumerMessages <- TwoSchemas
    ConsumerPoolSize = 1
    ConsumerIndexes <- DeployedConsumerIndex
INVARIANTS NewPairIsAccepted
CHECK_DEADLOCK FALSE
