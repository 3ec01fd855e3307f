CONSTANTS
    w1 = w1
    w2 = w2
    Workers = {w1, w2}
    Requests <- MCRequests
    Servings <- MCServings
    Factory <- MCFactory
    MaxBands = 2
    MaxRequests = 2
SPECIFICATION FairSpec
INVARIANTS OwnHandler OwnText BandsAsTold LocksWhatItNames CrashHasCause
PROPERTY EveryRequestEnds
CHECK_DEADLOCK FALSE
