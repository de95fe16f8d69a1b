SPECIFICATION Spec
CONSTANTS
    Requests = {r1, r2, r3, r4}
    Messages <- LaterMessages
    Seed <- TwoMajors
    PoolSize = 2
    UniqueIndexes <- NoIndex
    MayFail = TRUE
    MayCrash = TRUE
SYMMETRY RequestSymmetry
INVARIANTS TypeOK HonestAnswers Ledger AcknowledgedIsSeen MajorsInSequence CopiesBounded
CHECK_DEADLOCK FALSE
