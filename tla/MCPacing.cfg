CONSTANTS
    REKEY_TIMEOUT = 2
    REKEY_TIMEOUT_JITTER = 2
    REKEY_ATTEMPT_TIME = 6
    RETRY_WHEN_GONE = 4
    REJOIN_AFTER = 1
    PRESUMED_DEAD = 3
    REKEY_AFTER_TIME = 4
    REKEY_JITTER = 0
    REJECT_AFTER_TIME = 6
    SYN_RETRY = 1
    SYN_RETRY_MAX = 2
    SYN_FRESH = 3
    Unanswered = 2
    Rotates = TRUE
    RealHandshake = TRUE
SPECIFICATION FairSpec
INVARIANTS NeverSilent
PROPERTIES Paced Recovers
