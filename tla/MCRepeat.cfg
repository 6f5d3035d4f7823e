CONSTANTS
    CAPACITY = 3
    DEADLINE = 1
    ASKS = 3
    REORDER = 2
    MAX_OUTSTANDING = 2
    ASK_SCAN = 1
    RekeyMidway = FALSE
    MaxSid = 1
    MaxCounter = 7
    MaxTime = 2
SPECIFICATION MCSpec
INVARIANTS GapsMissing AskedAtMostTimes RepairsAcrossRekey
PROPERTIES NeverDuplicates
CHECK_DEADLOCK FALSE
