\* Sequential socket use, stop() called: the core safety invariants.
CONSTANTS
    Timers = {}
    MaxTime = 0
    Word <- MCWord
    NoTimer = NoTimer
    Workers = {w1, w2}
    Fibers = {f1, f2, f3}
    Fds = {s, t}
    f1 = f1
    f2 = f2
    f3 = f3
    s = s
    t = t
    a = a
    k = k
    l = l
    Sockets = {k, l}
    SockFd <- MCSockFd
    NoFiber = NoFiber
    Pipe = Pipe
    Program <- Sequential
    Initial <- MCInitial
    IoResults = {"ok", "eagain"}
    EpollEINTR = TRUE
    CallsStop = TRUE
SPECIFICATION Spec
INVARIANT TypeOK
INVARIANT ExclusiveExec
