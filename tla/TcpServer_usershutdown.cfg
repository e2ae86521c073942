CONSTANTS
    ThreadNum = 1
    MaxConns = 1
    UserThreads = {u1}
SPECIFICATION UserSpec
INVARIANT AssertionsHold
