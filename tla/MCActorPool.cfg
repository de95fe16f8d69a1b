SPECIFICATION FairSpec
CONSTANTS
    Requests = {r1, r2, r3}
    Actors = {a1, a2}
    NoActor = NoActor
    CallCounts <- SchemaCalls
    CallLimit = 1
    RequestTimeout = 2
    MayStop = TRUE
INVARIANTS PoolTypeOK OnlyOverdueTimesOut
PROPERTIES ImplementsPool ServedToTheEnd
CHECK_DEADLOCK FALSE
