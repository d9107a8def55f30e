SPECIFICATION CacheSpec
CONSTANTS
    Readers = {page, handler}
    MaxTurns = 2
    NoCopy = NoCopy
INVARIANTS
    SettledAnswersSeen
CHECK_DEADLOCK FALSE
