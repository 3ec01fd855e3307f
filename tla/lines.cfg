CONSTANTS
    MAX_AT_RESPONSE = 5
    Inputs <- MCPlain
SPECIFICATION FairSpec
INVARIANTS LinesAreTheInput TailsOfLines
PROPERTIES AllDelivered
CHECK_DEADLOCK FALSE
