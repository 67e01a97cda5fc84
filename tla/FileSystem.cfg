\* Names A and B at the root, one disk error, a table one entry larger than
\* what a boot reads, contents of one sector and downloads of none and of two; a
\* second user, where a boot reads one.
CONSTANTS
    RelTokens <- OneRelName
    AbsTokens <- AbsNames
    Modes = {0}
    UserNames = {"ann"}
    Chunks = {"x"}
    FS_MAX_FILES = 3
    LOADED_FILES = 2
    FS_MAX_USERS = 2
    LOADED_USERS = 1
    CONTENT_SLOTS = 2
    MAX_FILE_SIZE = 1
    CONTENT_SECTORS = 2
    FS_MAX_FILENAME = 2
    Downloads = {0, 2}
    MaxFaults = 1
    MaxCommands = 4
SPECIFICATION Spec
INVARIANTS TypeOK SavedEntriesSurvive SavedTablesReload SavedContentsReload
