\* A fiber waits on s while another fiber closes s and reopens the number.
CONSTANTS
    Timers = {}
    MaxTime = 0
    Word <- MCWord
    NoTimer = NoTimer
    Workers = {w1, w2}
    Fibers = {f1, f2, f3}
    Fds = {s, t}
    f1 = f1
    f2 = f2
    f3 = f3
    s = s
    t = t
    a = a
    k = k
    l = l
    Sockets = {k, l}
    SockFd <- MCSockFd
    NoFiber = NoFiber
    Pipe = Pipe
    Program <- CloseReuse
    Initial <- MCInitial
    IoResults = {"ok", "eagain"}
    EpollEINTR = TRUE
    CallsStop = TRUE
SPECIFICATION Spec
PROPERTY CloseWakesWithEBADF
