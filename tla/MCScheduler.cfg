CONSTANTS
    MaxEvents = 4
    IdSpace = 2
SPECIFICATION SSpec
INVARIANTS STypeOK OnePlace DroppedOnlyOnPurpose NoTimerLeak
PROPERTIES EventuallyOver
CHECK_DEADLOCK FALSE
