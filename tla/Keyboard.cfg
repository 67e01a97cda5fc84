\* A ring of three slots and enough keys to overflow it twice.
CONSTANTS
    BufferSize = 3
    ScanCodes <- Codes
    scan_to_ascii <- Plain
    scan_to_ascii_shift <- Shifted
    MaxIrqs = 6
SPECIFICATION FairSpec
INVARIANT NoLostWakeup
PROPERTIES ImplementsQueue KeyDelivered
