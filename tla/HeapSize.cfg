\* Small blocks: what a caller asks for is more or less than what is left in EAX.
CONSTANTS
    Base = 16
    Size = 24
    Wrap = 64
    MIN_SPLIT_SIZE = 2
    Requests = {2, 6}
    Leftovers = {0, 2, 5, 60}
    MaxLive = 2
SPECIFICATION HeapSpec
INVARIANT BlocksHoldRequests
