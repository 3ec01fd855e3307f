CONSTANTS
    Callers = {c1}
    Commands <- MCCommands
    InfoTexts = {"+X:", "867"}
    FinalTexts = {"OK", "ERROR"}
    UnsolTexts = {"+X:"}
    Slices = 2
    MaxCalls = 2
    MaxInfo = 2
    MaxUnsol = 1
    MaxSpurious = 1
    MayHangUp = FALSE
SPECIFICATION Spec
INVARIANTS TypeOK SoleCallerServed DeliveredAsSpecified SuccessHasLine
CHECK_DEADLOCK FALSE
