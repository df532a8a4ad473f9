CONSTANTS
    CLK_FREQUENCY = 50000000
    BAUD = 115200
    RX_INTERVAL = 10000
    KEYS <- MCKeys
    FIFO_DEPTH = 2
    PROC_FREQ = 50000000
    UART_BAUDS = 115200
    LOGO1 <- MCLogo1
    LOGO2 <- MCLogo2
    DIRTY <- MCDirty
    GITINFO <- MCGitInfo
    IS_DIRTY = FALSE
    PACES <- MCPaces
SPECIFICATION Spec
INVARIANTS SamplesInBit EchoBeforePoll
PROPERTY ImplementsTerminal
CHECK_DEADLOCK FALSE
