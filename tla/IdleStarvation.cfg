\* A server that never stops, with a sleeper and a retried write: is work whose wake-up happened eventually run?
CONSTANTS
    Timers = {a}
    MaxTime = 2
    Word <- MCWord
    NoTimer = NoTimer
    Workers = {w1, w2}
    Fibers = {f1, f2, f3}
    Fds = {s, t}
    f1 = f1
    f2 = f2
    f3 = f3
    s = s
    t = t
    a = a
    k = k
    l = l
    Sockets = {k, l}
    SockFd <- MCSockFd
    NoFiber = NoFiber
    Pipe = Pipe
    Program <- Starving
    Initial <- MCInitial
    IoResults = {"ok", "eintr_ok", "eagain"}
    EpollEINTR = FALSE
    CallsStop = FALSE
SPECIFICATION Spec
PROPERTY WorkEventuallyRuns
