CONSTANTS
    Positions <- MCPositions
    Ctxs <- MCCtxs
    MaxMade = 3
SPECIFICATION Spec
CHECK_DEADLOCK FALSE
INVARIANTS TypeOK Exact
