\* Two downloads of three chunks, a buffer that holds one stream and no repeat,
\* two segments under way at a time, two network faults.
CONSTANTS
    Ports = {"p1", "p2"}
    Isns = {0}
    ServerIsn = 6
    SequenceSpace = 8
    StreamLength = 3
    RX_BUFFER = 4
    Retries = 2
    MaxWire = 2
    MaxConnects = 2
    MaxFaults = 2
SPECIFICATION FairSpec
INVARIANTS HasDataAccurate AckCountsStored DownloadMatches
PROPERTY WgetReturns
\* The user stops after MaxConnects downloads.
CHECK_DEADLOCK FALSE
