CONSTANTS
    DBITS = 11
    LOGBITS = 8
    WORDS = 4
    LOG_LENGTH = 2
    LOG_INDEX_BITS = 1
    NLOG = 1
    BYTE = 2
    COMMANDS <- MCCommands
    INTERRUPTED <- MCInterrupted
    AGAIN <- MCAgain
    NCLIENTS = 2
    SHIFT_CLOCKS = 4
    GARBAGE = {5}
SPECIFICATION Spec
INVARIANTS OwnAnswer CommandCorrect
PROPERTY Terminates
CHECK_DEADLOCK FALSE
