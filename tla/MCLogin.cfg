CONSTANTS
    Player = {a, b, v}
    Premium = {v}
    Staff = {gm}
    ATime = atime
    MaxPlayers = 2
    MaxTime = 5
    Protocol = {p1, p2, p3}
    None = none
    ReplaceKick = {TRUE, FALSE}
SPECIFICATION MCSpec
INVARIANTS  GTypeOK CountsAreReferences ClientsAreMutual AutosendServes
PROPERTIES NeverOverfull NoDirectTakeover
CHECK_DEADLOCK FALSE
