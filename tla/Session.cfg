\* The commands: two users besides root, two SUDOs on a line, passwords of up to three characters,
\* and a PYTHON with room for two of three variables.
\* The prompt: lines of two characters that start in the second or the third column of a screen of two
\* rows and three columns, two rows of history and a third command to shift them.
\* The heap: small blocks; what a caller asks for is more or less than what is left in EAX.
CONSTANTS
    root = root
    Users = {root, u1, u2}
    Names = {x, y, z}
    Values = {v1, v2}
    Unassigned = Unassigned
    VarsMax = 2
    PasswordMax = 3
    MaxSudos = 2
    Letters = {"a", "A"}
    Upper <- UpperCase
    MAX_INPUT = 3
    HISTORY_SIZE = 2
    ROWS = 2
    WIDTH = 3
    PromptColumns = {1, 2}
    MaxCommands = 3
    Base = 16
    Size = 24
    Wrap = 64
    MIN_SPLIT_SIZE = 2
    Requests = {2, 6}
    Leftovers = {0, 2, 5, 60}
    MaxLive = 2
SPECIFICATION MCSpec
INVARIANTS
    SudoScoped ProcessesStayKilled LatestValue
    ShellTypeOK LineMatchesScreen HistoryIsRecent
    LiveBlocksIntact StatsAddUp
PROPERTY EnterRunsWhatIsShown
