CONSTANTS
    Lines <- MCLines
    Fmts <- MCFmts
SPECIFICATION Spec
INVARIANTS StoresFields CountsFields
CHECK_DEADLOCK FALSE
