SPECIFICATION Spec
CONSTANTS
    BLOCK_SIZE = 3
    Blocks = {0, 1}
    Bytes = {0, 1}
    Empty = 0
    MAX_INODES = 2
    FileIds = {1, 2}
    Handles = {h1}
    MaxFiles = 1
    MaxLength = 3
    NULL = NULL
INVARIANT EofMeansEnd
PROPERTY FileSafe
