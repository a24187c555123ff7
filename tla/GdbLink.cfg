SPECIFICATION LiveSpec
CONSTANTS
    MaxRequests = 4
    MaxNoise = 3
    MaxInterrupts = 4
    MAX_ERROR_SIZE = 3
INVARIANT ErrorBufferFits
PROPERTIES ImplementsSession EveryRequestAnswered
CHECK_DEADLOCK FALSE
