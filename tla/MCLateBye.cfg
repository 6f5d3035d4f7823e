CONSTANTS
    CONFIRM_TRIES = 2
    REJECT_AFTER_MESSAGES = 1
    Keepalive = {}
    Ordered = {FALSE}
    MaxAttempts = 2
    MaxSessions = 2
    MaxMoves = 0
    MaxRestarts = 1
SPECIFICATION Spec
CHECK_DEADLOCK FALSE
PROPERTY FarewellDropsDeadKeys
