CONSTANTS
    MaxQueries = 4
    Asking <- MCAsking
SPECIFICATION BSpec

PROPERTIES ShutdownEndsThread
CHECK_DEADLOCK FALSE
