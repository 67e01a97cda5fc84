\* Two files at the root; expected to fail.
CONSTANTS
    RelTokens <- RelNames
    AbsTokens = {}
    Modes = {}
    UserNames = {}
    Chunks = {"x", "y"}
    FS_MAX_FILES = 3
    LOADED_FILES = 2
    FS_MAX_USERS = 1
    LOADED_USERS = 1
    CONTENT_SLOTS = 2
    MAX_FILE_SIZE = 1
    CONTENT_SECTORS = 2
    FS_MAX_FILENAME = 2
    Downloads = {0}
    MaxFaults = 0
    MaxCommands = 3
SPECIFICATION Spec
PROPERTY DelKeepsOtherContents
