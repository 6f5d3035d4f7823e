CONSTANTS
    CAPACITY = 3
    DEADLINE = 1
    ASKS = 2
    REORDER = 2
    MAX_OUTSTANDING = 2
    ASK_SCAN = 1
    RekeyMidway = FALSE
    MaxSid = 1
    MaxCounter = 4
    MaxTime = 0
SPECIFICATION MCSpec
PROPERTIES NeverDuplicatesAcross
CHECK_DEADLOCK FALSE
