CONSTANTS
    w1 = w1
    Workers = {w1}
    Requests <- SignalRequests
    Servings <- MCServings
    Factory <- MCFactory
    MaxBands = 2
    MaxRequests = 1
SPECIFICATION Spec
INVARIANT ShowsAsDocumented
CHECK_DEADLOCK FALSE
