CONSTANTS
    WORDS = 3
    BITS_PER_WORD = 2
    MaxCounter = 14
    Counters <- MCCounters
SPECIFICATION Spec
INVARIANTS CheckIsExact RingMirrorsAccepted
PROPERTY TakesEachCounterOnce
CHECK_DEADLOCK FALSE
