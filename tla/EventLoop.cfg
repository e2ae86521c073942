CONSTANTS
    Producers = {p1, p2}
    Functors = {task, other, quitter}
    QuitFunctors = {quitter}
    PipeCapacity = 2
    MaxPosts = 3
SPECIFICATION Spec
INVARIANTS
    TypeOK
    NoLostWakeup
    ExactlyOnceInOrder
PROPERTIES
    QuitStopsLoop
    ExecutorSpec
