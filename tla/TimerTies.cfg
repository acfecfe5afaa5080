\* Two client timers: equal deadlines in the next_-ordered set.
CONSTANTS
    Timers = {t1, t2}
    MsSet = {0, 1, 2}
    ResetModes = {TRUE, FALSE}
    MaxTime = 4
    MaxFires = 2
    Word <- MCWord
    NoTimer = NoTimer
SPECIFICATION TSpec
PROPERTY TimerSpecRefined
CHECK_DEADLOCK FALSE
