\* stop() while a fiber serves a socket and another sleeps.
CONSTANTS
    Timers = {a}
    MaxTime = 3
    Word <- MCWord
    NoTimer = NoTimer
    Workers = {w1, w2}
    Fibers = {f1, f2, f3}
    Fds = {s, t}
    f1 = f1
    f2 = f2
    f3 = f3
    s = s
    t = t
    a = a
    k = k
    l = l
    Sockets = {k, l}
    SockFd <- MCSockFd
    NoFiber = NoFiber
    Pipe = Pipe
    Program <- SleepServer
    Initial <- MCInitial
    IoResults = {"ok", "eagain"}
    EpollEINTR = FALSE
    CallsStop = TRUE
SPECIFICATION Spec
INVARIANT StopLeavesNothing
