\* The root logger: setFormatter, a null formatter and a double delAppender.
CONSTANTS
    t1 = t1
    t2 = t2
    a0 = a0
    a1 = a1
    a2 = a2
    F0 = F0
    F1 = F1
    F2 = F2
    m1 = m1
    m2 = m2
    m3 = m3
    m4 = m4
    Null = Null
    BadPattern = BadPattern
    NoThread = NoThread
    Threads = {t1, t2}
    Appenders = {a0, a1, a2}
    Fmts = {F0, F1, F2}
    Root = a0
    InitFmt = F0
    Pattern <- MCPattern
    Program <- RootLogger
SPECIFICATION Spec
CHECK_DEADLOCK FALSE
PROPERTY EveryCallReturns
