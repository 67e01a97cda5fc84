\* One key with Shift and Caps Lock is enough.
CONSTANTS
    BufferSize = 3
    ScanCodes <- Codes
    scan_to_ascii <- Plain
    scan_to_ascii_shift <- Shifted
    MaxIrqs = 6
SPECIFICATION FairSpec
PROPERTY CaseIsShiftXorCaps
