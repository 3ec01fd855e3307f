CONSTANTS
    w1 = w1
    Workers = {w1}
    Requests <- AllOps
    Numbers = {1, 2, 3, 4, 5, 6}
    Acts = {"none", "other", "eutran"}
    MaxRequests = 1
    MaxTimeouts = 1
    MaxSlips = 1
    MayHangUp = TRUE
SPECIFICATION Spec
INVARIANTS TruthfulReply FreedTwiceNeedsFailure CrashHasCause IspInOwnFormat ReadFromOwnKind CarefulOnesFree
CHECK_DEADLOCK FALSE
