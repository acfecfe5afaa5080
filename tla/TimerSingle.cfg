\* One client timer through every operation: the set implements the heap.
CONSTANTS
    Timers = {t1}
    MsSet = {0, 1, 2}
    ResetModes = {TRUE, FALSE}
    MaxTime = 4
    MaxFires = 2
    Word <- MCWord
    NoTimer = NoTimer
SPECIFICATION TSpec
INVARIANT TypeOK
PROPERTY TimerSpecRefined
CHECK_DEADLOCK FALSE
