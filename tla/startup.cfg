CONSTANTS
    HANDSHAKE_RETRY_COUNT = 4
    Slices = 4
    SliceTicks = 2
    DrainTicks = 8
    Latencies = {0, 1, 2, 3, 7, 8, 9, 13, 15, 17, 24, 25, 31, 32, 33, 99}
    MayFailOpen = TRUE
SPECIFICATION FairSpec
INVARIANTS SlowModemPasses DrainedIfQuick StaleFileHasCause CrashNeedsFailedOpen
PROPERTIES StartupEnds
CHECK_DEADLOCK FALSE
