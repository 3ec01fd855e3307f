CONSTANTS
    Callers = {c1}
    Commands <- OneCommand
    InfoTexts = {"+X:"}
    FinalTexts = {"OK"}
    UnsolTexts = {}
    Slices = 1
    MaxCalls = 2
    MaxInfo = 1
    MaxUnsol = 0
    MaxSpurious = 0
    MayHangUp = FALSE
SPECIFICATION Spec
INVARIANT ResetOnTimeout
CHECK_DEADLOCK FALSE
