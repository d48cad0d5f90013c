CONSTANTS
    Protocol = {p1, p2, p3}
    None = none
    ReplaceKick = {TRUE}
SPECIFICATION GSpec
INVARIANTS NoLeakedPlayer
CHECK_DEADLOCK FALSE
