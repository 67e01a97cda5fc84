\* Two buffers, rings of two entries and indices of two bits, so that rings and
\* indices wrap; the driver is started twice.
CONSTANTS
    QUEUE_SIZE = 2
    RingSize = 2
    IndexSpace = 4
    Frames = {"f", "g"}
    MaxFrames = 4
    MaxSends = 3
    MaxStarts = 2
SPECIFICATION Spec
INVARIANTS OwnedOnce RxInOrder TxIntact
PROPERTY ImplementsChannel
\* A behaviour ends when the bounds on frames and starts are reached.
CHECK_DEADLOCK FALSE
