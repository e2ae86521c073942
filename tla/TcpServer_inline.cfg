CONSTANTS
    ThreadNum = 0
    MaxConns = 1
    UserThreads = {}
SPECIFICATION Spec
INVARIANT NotDestroyedInHandler
