CONSTANTS
    Strings <- MCStrings
    Arrays <- MCArrays
    Capacity = 2
    MaxSends = 3
SPECIFICATION Spec
INVARIANTS
    StreamIntact
    InterestIffBuffered
    EofAfterLastByte
    FaultsExplained
    RemovedForGood
PROPERTY ShutdownCompletes
CHECK_DEADLOCK FALSE
