CONSTANTS
    Worker = worker
    Others = {net, sched}
    Task = {t1, t2}
    Stop = stop
    MaxTasks = 3
SPECIFICATION DSpec
INVARIANTS DTypeOK NoLostWakeup AheadOfStop
PROPERTIES OneFifo ShutdownEnds
CHECK_DEADLOCK FALSE
