SPECIFICATION RegistrySpec
CONSTANTS
    Requests = {r1}
    Messages <- DeleteOnly
    Seed <- FirstStored
    PoolSize = 1
    UniqueIndexes <- NoIndex
    MayFail = FALSE
    MayCrash = FALSE
    ConsumerRequests = {c1}
    ConsumerMessages <- RegisterOnly
    ConsumerPoolSize = 1
    ConsumerIndexes <- NoIndex
PROPERTIES InsertedWhileSchemaStored
CHECK_DEADLOCK FALSE
