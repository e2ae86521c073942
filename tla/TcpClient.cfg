CONSTANTS
    retry_ = TRUE
    MaxConns = 3
    MaxConnects = 1
    MaxDisconnects = 2
    MaxStops = 2
SPECIFICATION Spec
INVARIANTS
    AssertionsHold
    OneAtATime
    ConnectionIsLive
PROPERTY LostIsReplaced
CHECK_DEADLOCK FALSE
