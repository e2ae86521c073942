CONSTANTS
    ThreadNum = 2
    MaxConns = 3
    UserThreads = {}
SPECIFICATION Spec
INVARIANTS
    TypeOK
    AssertionsHold
    ChannelOutlived
    NotDestroyedInHandler
    DestroyedAfterErase
    LoadBalanced
PROPERTY PeerGoneConnGone
CHECK_DEADLOCK FALSE
