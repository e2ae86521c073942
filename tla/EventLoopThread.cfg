CONSTANT ThreadNum = 3
SPECIFICATION Spec
INVARIANTS
    LoopsLive
    DestructorSafe
PROPERTIES
    StartReturns
    DestroyReturns
CHECK_DEADLOCK FALSE
