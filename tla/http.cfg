CONSTANTS
    Conns = {c1, c2}
    Scripts <- MCScripts
    Workers = 1
SPECIFICATION FairSpec
INVARIANTS AbortHasCause BodyAsSent AnswersAreOwn JudgedByType
PROPERTIES Answered
CHECK_DEADLOCK FALSE
