SPECIFICATION Spec
CONSTANTS
    NotValid = NotValid
    One = 400
    FloatUnit = 40
    DoubleUnit = 4
    Floats <- SmallFloats
    Doubles <- SmallDoubles
    DoubleToString <- Shortest
    Numerals <- SomeNumerals
    IntRange = 8
    LongRange = 32
    Alphabet <- Names
    Submissions <- LargeSubmissions
    Proposals <- LargeProposals
INVARIANTS StoredIsServed
