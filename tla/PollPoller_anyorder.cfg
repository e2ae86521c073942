CONSTANTS
    Wakeup = wakeup
    acceptor = acceptor
    connA = connA
    connB = connB
    connA2 = connA2
    Channels = {wakeup, acceptor, connA, connB, connA2}
    NoChannel = NoChannel
    fdOf <- MCFdOf
    Writers = {connB}
    MaxReady = 1
SPECIFICATION Spec
INVARIANT AssertionsHold
