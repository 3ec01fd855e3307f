CONSTANTS
    Callers = {c1, c2}
    Commands <- AnyLines
    InfoTexts = {}
    FinalTexts = {"OK"}
    UnsolTexts = {"+CMTI:", "RING"}
    Slices = 2
    MaxCalls = 3
    MaxInfo = 0
    MaxUnsol = 1
    MaxSpurious = 0
    MayHangUp = TRUE
SPECIFICATION FairSpec
INVARIANTS PendingOwned CrashOnlyAfterRefusal InSync
PROPERTIES ImplementsService CallReturns ReaderDies
CHECK_DEADLOCK FALSE
