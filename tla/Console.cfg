\* A screen of two rows, a scrollback of three lines that wraps, and pages of
\* two lines so that the last page is a short one.
CONSTANTS
    Rows = 2
    Cols = 2
    SCROLLBACK_LINES = 3
    Page = 2
    Chars = {"a"}
    MaxOutput = 7
SPECIFICATION Spec
INVARIANTS SavedWhileScrolled ViewIsHistory
\* A behaviour ends when MaxOutput characters are written.
CHECK_DEADLOCK FALSE
