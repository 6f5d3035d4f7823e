CONSTANTS
    CONFIRM_TRIES = 2
    Ordered = {TRUE}
    MaxAttempts = 3
    MaxSessions = 3
    REJECT_AFTER_MESSAGES = 1
    Keepalive = {}
    MaxMoves = 0
    MaxRestarts = 0
SPECIFICATION MCSpec
INVARIANTS OpenReachesItsSession NoSilentStranding NonceUsedOnce
PROPERTY PromotesOnlyInstalled
CHECK_DEADLOCK FALSE
