CONSTANTS
    Player = {a, b, v}
    Premium = {v}
    Staff = {gm}
    ATime = atime
    MaxPlayers = 2
    MaxTime = 3
SPECIFICATION WSpec
CHECK_DEADLOCK FALSE
PROPERTIES FirstInLineFirst
