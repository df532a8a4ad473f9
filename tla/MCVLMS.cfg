SPECIFICATION Spec
CONSTANTS
    M = 16
    N = 4
    ADRS <- MCADRS
    DATS <- MCDATS
    PINS <- MCPINS
    FIRST <- MCFIRST
    POWERUP <- MCPOWERUP
    MAX_CLOCKS = 6
INVARIANTS
    SchedulerInvariant
    OutputExact
    TapsCollapse
PROPERTIES
    ImplementsRTL
    EvalReturns
