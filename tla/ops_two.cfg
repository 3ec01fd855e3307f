CONSTANTS
    w1 = w1
    w2 = w2
    Workers = {w1, w2}
    Requests <- RadioOps
    Numbers = {1, 2, 3, 4, 5, 6}
    Acts = {"none"}
    MaxRequests = 2
    MaxTimeouts = 1
    MaxSlips = 0
    MayHangUp = FALSE
SPECIFICATION Spec
SYMMETRY Perms
INVARIANTS RadioComesBack TruthfulReply CrashHasCause
CHECK_DEADLOCK FALSE
