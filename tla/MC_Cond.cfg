CONSTANTS
    Joins = {"&", "|", "^", "<"}
    MaxConds = 5
SPECIFICATION Spec
INVARIANTS LeftToRight PassInv
CHECK_DEADLOCK FALSE
