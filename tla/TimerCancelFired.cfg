\* A timer cancelled after it fired: Timer::cancel erases end().
CONSTANTS
    Timers = {t1}
    MsSet = {0, 1, 2}
    ResetModes = {TRUE, FALSE}
    MaxTime = 4
    MaxFires = 2
    Word <- MCWord
    NoTimer = NoTimer
SPECIFICATION TSpec
INVARIANT NoEraseEnd
CHECK_DEADLOCK FALSE
