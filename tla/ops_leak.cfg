CONSTANTS
    w1 = w1
    Workers = {w1}
    Requests <- AllOps
    Numbers = {1, 2, 3, 4, 5, 6}
    Acts = {"none", "eutran"}
    MaxRequests = 1
    MaxTimeouts = 0
    MaxSlips = 0
    MayHangUp = FALSE
SPECIFICATION Spec
INVARIANT ResponsesAreFreed
CHECK_DEADLOCK FALSE
