CONSTANTS
    ByteBase = 4
    RequestSizes = {1, 2, 5, 6, 20}
    MaxCalls = 3
SPECIFICATION Spec
INVARIANT ServerParsesWholeRequest
PROPERTY RequestAnswered
CHECK_DEADLOCK FALSE
