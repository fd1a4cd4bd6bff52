SPECIFICATION MemorySpec
CONSTANTS
    MAX_RECENT_MEMORY = 3
    MEMORY_REVISION_TRIGGER = 2
    MEMORY_KEEP_RAW_TAIL = 1
    MaxRecords = 4
INVARIANTS
    OnlyTheStoryIsRemembered
    NothingRememberedTwice
PROPERTIES
    StrangerUntilNamed
CHECK_DEADLOCK FALSE
