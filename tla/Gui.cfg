\* Two screens and two cursors, a text of three rows of two characters, three
\* hours of two minutes of twelve seconds, and a file list longer than the
\* window.
CONSTANTS
    s1 = s1
    s2 = s2
    c1 = c1
    c2 = c2
    Nothing = Nothing
    Screens <- SomeScreens
    Cursors <- SomeCursors
    Chars = {a, b}
    NUL = NUL
    NOTEPAD_MAX_LINES = 3
    NOTEPAD_MAX_COLS = 2
    Word = 16
    DisplayMax = 2
    Buttons <- SomeButtons
    HOURS = 3
    MINUTES = 2
    SECONDS = 12
    MousePoints <- SomePoints
    CalcChars <- SomeChars
    FsCounts = {0, 3, 12}
    InputMax = 2
SYMMETRY Symmetry
SPECIFICATION Spec
INVARIANTS TypeOK TextReachable ResultsReadBack ShowsTheTime ScreenRestored
