\* A ring of four bytes, so that a second packet can overflow it, and a screen
\* of four pixels.
CONSTANTS
    mouse_buffer_size = 4
    Packets <- SomePackets
    ScreenSize <- Small
    WindowSizes <- Windows
    MaxReports = 4
SPECIFICATION MouseSpec
INVARIANTS MouseTypeOK InStep
\* A behaviour ends when the mouse has sent its packets.
CHECK_DEADLOCK FALSE
