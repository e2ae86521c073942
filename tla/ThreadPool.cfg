CONSTANTS
    Workers = {w1, w2, w3}
    MaxTasks = 3
SPECIFICATION Spec
INVARIANTS
    TypeOK
    TakenInOrder
    TaskKeepsWorkerAwake
PROPERTIES
    TasksTaken
    DestructorReturns
CHECK_DEADLOCK FALSE
