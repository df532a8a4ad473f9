SPECIFICATION Spec
CONSTANTS
    LONG_BITS = 8
    CHAR_BITS = 3
    DATA <- MCData
    TEXTS <- MCTexts
    NUMBERS <- MCNumbers
    PATTERNS <- MCPatterns
    BASES <- MCBases
    FORMATS <- MCFormats
    SIZES = {0, 1, 2, 3, 4, 5, 6, 7, 8, 16}
    MaxSize = 30
    BYTE = 2
    PAGE = 8
    FILES <- MCFiles
    MEMORY_SIZES = {12}
    VECTORS <- MCVectors
    SELECTS <- MCSelects
    NACCESSES = 3
    MAX_REGIONS = 2
INVARIANTS ReadsLastWrite StringFunctionsRight TokensInOrder NumbersExact PrintfCorrect
CHECK_DEADLOCK FALSE
