CONSTANTS
    From = 1
    ToBlock = 6
    None = None
    StopOnHead = TRUE
    Positions <- MCPositions
    Rows = {1, 2, 4, 5, 6}
    Kept = {1, 4, 5}
SPECIFICATION Spec
INVARIANT LastBlockIsReturned
