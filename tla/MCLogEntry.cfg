\* Clock and comparator algebra, and the JSON texts of entries.
SPECIFICATION Spec
CONSTANTS
    MaxNodes = 2
    MaxClock = 2
    MaxTime = 2
    Inputs <- SmallInputs
    NODE_ID_MAX_LEN = 3
    LOG_MESSAGE_MAX_LEN = 3
    METADATA_MAX_COUNT = 1
    KEY_MAX = 1
    VALUE_MAX = 2
    KEY_SIZE = 4
    LOGAGG_MAX_ENTRY_SIZE = 119
    Made <- TextInputs
    Neighbours <- NeighbourLines
    Extensions <- ExtensionMembers
    Clocks3 <- PrefixClocks
    Bodies <- LineBodies
    NODE_ID <- LineNode
    LEVEL_MAX = 15
    LINE_MAX = 31
    ReadTime = 7
INVARIANTS
    CompareFollowsRule
    MergeIsLub
    IncrementsTestIsConsecutive
    TransitiveOnHonestTimestamps
    EntrySurvives
    RefusedOnlyIfTooLarge
    CutNeverMixes
    
CHECK_DEADLOCK FALSE
