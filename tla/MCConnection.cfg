CONSTANTS
    MaxPackets = 2
    MaxSends = 2
    Starts = {TRUE, FALSE}
SPECIFICATION CSpec
INVARIANTS CTypeOK WriteOwnsFront PreparedOnceInOrder ReleaseIsLast NeverUnwatched
PROPERTIES LingersOnlyOnAWrite
CHECK_DEADLOCK FALSE
