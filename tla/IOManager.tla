----------------------------- MODULE IOManager -----------------------------
(***************************************************************************)
(* The fiber runtime core: Scheduler::run (src/scheduler.cpp), the          *)
(* IOManager's fd-event registry and idle loop (src/iomanager.cpp), the     *)
(* fiber state machine (src/fiber.cpp) and the do_io / close hooks that     *)
(* drive them (src/hook.cpp).                                               *)
(*                                                                         *)
(* Workers are the pool threads.  A worker runs at most one fiber at a      *)
(* time: its own idle fiber or a user fiber popped from fiber_list_.  A     *)
(* user fiber executes a small program of hooked calls; each call is one    *)
(* step of the worker that runs it.  The kernel side (epoll's ready list,   *)
(* the tickle pipe) is modelled by kready and tickled.                      *)
(*                                                                         *)
(* The model is of a release build: assert() is compiled out, and what     *)
(* the asserts state is checked as a property instead.                      *)
(***************************************************************************)
EXTENDS Integers, Sequences, SequencesExt, FiniteSets

CONSTANTS
    Workers,        \* the pool threads started by Scheduler::start
    Fibers,         \* user fibers (model values)
    Fds,            \* socket fds
    NoFiber,        \* an empty FiberRef / empty event context
    Pipe,           \* the epoll event of the tickle pipe's read end
    Program,        \* Program[f]: the sequence of hooked calls fiber f makes
    Initial,        \* the fibers the main thread schedules, in order
    IoResults,      \* what the first try of a socket call may return
    EpollEINTR,     \* whether a signal may interrupt epoll_wait
    CallsStop,      \* whether the main thread calls stop() after scheduling
    Timers,         \* Timer objects, one per sleep call of the programs
    MaxTime,        \* GetCurrentMS() stops here, bounding the model
    Word,           \* 2^64 for uint64_t, scaled down (see TimerManager)
    NoTimer,        \* timers_.end()
    Sockets,        \* fisher::Socket objects the programs use
    SockFd          \* SockFd[k]: the fd number Socket k's sock_ holds

Dirs == {"READ", "WRITE"}

Ops == [op : {"io"}, fd : Fds, ev : Dirs]
         \cup [op : {"spawn"}, fiber : Fibers]
         \cup [op : {"close", "socket"}, fd : Fds]
         \cup [op : {"sleep"}, timer : Timers, ms : Nat]
         \cup [op : {"sio", "scancel"}, sock : Sockets, ev : Dirs]
         \cup [op : {"sclose", "sbind", "slisten", "scancelall"},
                sock : Sockets]
         \cup [op : {"saccept"}, sock : Sockets, new : Sockets, ev : {"READ"}]

ASSUME /\ NoFiber \notin Fibers
       /\ Program \in [Fibers -> Seq(Ops)]
       /\ Initial \in Seq(Fibers)
       /\ IoResults \subseteq {"ok", "eintr_ok", "eagain"}
       /\ EpollEINTR \in BOOLEAN
       /\ CallsStop \in BOOLEAN
       /\ SockFd \in [Sockets -> Fds]

VARIABLES
    fstate,     \* Fiber::state_ of each user fiber
    fpc,        \* index of the call each fiber is executing in its program
    fstage,     \* where in do_io / close the fiber is: call, armed, wait,
                \* closing (between cancelAll and close_f), done
    woken,      \* history: woken[f] is the index of the call in which the
                \* close hook's cancelAll woke f, 0 if none
    queue,      \* Scheduler::fiber_list_
    nActive,    \* Scheduler::n_active_thread_
    nIdle,      \* Scheduler::n_idle_thread_
    tryStop,    \* Scheduler::try_stop_
    wpc,        \* control point of each worker in run() / idle()
    wfiber,     \* the fiber a worker popped (fbr in run())
    idleSt,     \* state_ of each worker's idle fiber
    batch,      \* events the worker's last epoll_wait returned, unprocessed
    errno,      \* each worker thread's errno
    fdEvents,   \* FdContext::events of each fd
    slot,       \* FdContext::read / write event contexts of each fd
    nPending,   \* IOManager::n_pendingEvent_
    kready,     \* directions of each fd with an edge in epoll's ready list
    tickled,    \* the tickle pipe has an edge in epoll's ready list
    closed,     \* fd numbers the kernel has free (closed, not yet reused)
    registered, \* epoll's interest list: the mask registered for each fd,
                \* {} when the fd is not in the list
    fdCtx,      \* FdManager::datas_: the fds that have an FdCtx
    mpc,        \* control point of the main thread
    toSpawn,    \* fibers the main thread has yet to schedule
    clock,      \* GetCurrentMS()
    tCreated,   \* the TimerManager part of the IOManager: see TimerManager
    tSet, tNext, tMs, tRec, tCb, tTickled, tFired, tUb,
    sock        \* sock[k]: Socket k's sock_ != -1 (valid) and isConnected_

fiberVars  == <<fstate, fpc, fstage, woken>>
schedVars  == <<queue, nActive, nIdle, tryStop>>
workerVars == <<wpc, wfiber, idleSt, batch, errno>>
ioVars     == <<fdEvents, slot, nPending, kready, tickled, closed,
               registered, fdCtx>>
tmState    == <<tCreated, tSet, tNext, tMs, tRec, tCb, tFired, tUb>>
timerVars  == <<clock, tTickled, tmState>>
vars == <<fiberVars, schedVars, workerVars, ioVars, mpc, toSpawn, timerVars,
          sock>>

ProgramOps == UNION {{Program[f][i] : i \in DOMAIN Program[f]} : f \in Fibers}
SleepOps   == {o \in ProgramOps : o.op = "sleep"}

(* The Sockets a program makes by CreateTCPSocket() and then binds: an   *)
(* IPv4 TCP Socket with no fd yet.                                         *)
CreatedTCP == {o.sock : o \in {o2 \in ProgramOps : o2.op = "sbind"}}

(* The Sockets a program makes by accept() or CreateTCPSocket(): they     *)
(* start as the constructor leaves them (sock_ = -1, not connected), and   *)
(* their numbers start free.                                               *)
Accepted == {o.new : o \in {o2 \in ProgramOps : o2.op = "saccept"}}
            \cup CreatedTCP

(* The fiber that sleeps on timer t: sleep()'s callback schedules it.       *)
TimerFiber(t) ==
    CHOOSE f \in Fibers : \E i \in DOMAIN Program[f] :
        Program[f][i].op = "sleep" /\ Program[f][i].timer = t

(* The IOManager is a TimerManager: its timer set, under its own mutex.     *)
TM == INSTANCE TimerManager
    WITH MsSet <- {0} \cup {o.ms : o \in SleepOps}, ResetModes <- {},
         MaxFires <- 1, now <- clock, created <- tCreated, timers <- tSet,
         next <- tNext, ms <- tMs, recurring <- tRec, cb <- tCb,
         tickled <- tTickled, fired <- tFired, ub <- tUb

States == {"INIT", "HOLD", "EXEC", "TERM", "READY", "EXCEPT"}
WPcs == {"pop", "check", "run", "ret", "hold", "idleCheck", "stopA",
         "stopB", "epoll", "process", "idleRet", "exit"}
Events == [fd : Fds, mask : SUBSET Dirs] \cup {Pipe}
MaxPc == 1 + Max({Len(Program[f]) : f \in Fibers})

TypeOK ==
    /\ fstate \in [Fibers -> States]
    /\ fpc \in [Fibers -> 1..MaxPc]
    /\ woken \in [Fibers -> 0..MaxPc]
    /\ fstage \in [Fibers -> {"call", "sio", "eagain", "armed", "wait",
                              "sclose", "closing", "accepted", "done"}]
    /\ queue \in Seq(Fibers)
    /\ nActive \in 0..Cardinality(Workers)
    /\ nIdle \in 0..Cardinality(Workers)
    /\ tryStop \in BOOLEAN
    /\ wpc \in [Workers -> WPcs]
    /\ wfiber \in [Workers -> Fibers \cup {NoFiber}]
    /\ idleSt \in [Workers -> States]
    /\ batch \in [Workers -> SUBSET Events]
    /\ errno \in [Workers -> {"0", "EINTR", "EAGAIN", "EBADF", "ENOENT",
                                    "EEXIST"}]
    /\ fdEvents \in [Fds -> SUBSET Dirs]
    /\ slot \in [Fds -> [Dirs -> Fibers \cup {NoFiber}]]
    /\ nPending \in Int
    /\ kready \in [Fds -> SUBSET Dirs]
    /\ tickled \in BOOLEAN
    /\ closed \subseteq Fds
    /\ registered \in [Fds -> SUBSET Dirs]
    /\ fdCtx \subseteq Fds
    /\ mpc \in {"sched", "stop", "join", "done"}
    /\ toSpawn \in Seq(Fibers)
    /\ TM!TypeOK
    /\ sock \in [Sockets -> [valid : BOOLEAN, conn : BOOLEAN]]

-----------------------------------------------------------------------------
(* Scheduler::schedule of a sequence of fibers, one after the other: each   *)
(* pushes under latch_ and tickles when it found the list empty; the        *)
(* IOManager's tickle writes the pipe only when a thread is idle.           *)
HasIdleThreads == nIdle > 0

Schedule(fs) ==
    /\ queue' = queue \o fs
    /\ tickled' = (tickled \/ (queue = <<>> /\ fs # <<>> /\ HasIdleThreads))

(* The errno of epoll_ctl on fd: MOD when the FdContext has events, else   *)
(* ADD.  MOD needs the fd in the interest list (ENOENT); ADD needs an open *)
(* fd (EBADF) that is not already in it (EEXIST).                          *)
CtlError(fd) ==
    IF fdEvents[fd] # {}
    THEN IF registered[fd] = {} THEN "ENOENT" ELSE "0"
    ELSE IF fd \in closed THEN "EBADF"
         ELSE IF registered[fd] # {} THEN "EEXIST" ELSE "0"

(* IOManager::addEvent of the current fiber, under the fd's mutex.  The    *)
(* asserts that the direction is not armed yet are compiled out.  The      *)
(* direction is or-ed into events and its context set to the fiber before  *)
(* epoll_ctl; only if epoll_ctl succeeds is ++n_pendingEvent_ done.        *)
AddEvent(fd, d, f) ==
    /\ fdEvents' = [fdEvents EXCEPT ![fd] = @ \cup {d}]
    /\ slot' = [slot EXCEPT ![fd][d] = f]
    /\ IF CtlError(fd) = "0"
       THEN /\ registered' = [registered EXCEPT ![fd] = fdEvents[fd] \cup {d}]
            /\ nPending' = nPending + 1
       ELSE UNCHANGED <<registered, nPending>>

(* FdContext::getContext: the event context of direction d of fd.          *)
GetContext(fd, d) == slot[fd][d]

(* The continuations held in the slots of directions ds of fd, in the order *)
(* triggerEvent is called for them (READ before WRITE).                     *)
TriggerOrder(fd, ds) ==
    LET s == <<"READ", "WRITE">>
        picked == SelectSeq(s, LAMBDA d : d \in ds)
    IN  SelectSeq([i \in 1..Len(picked) |-> GetContext(fd, picked[i])],
                  LAMBDA f : f # NoFiber)

(* IOManager::cancelAll: nothing when no direction is armed, nor when the  *)
(* DEL fails because the fd is not in the interest list; else DEL and      *)
(* triggerEvent of each armed direction with --n_pendingEvent_.             *)
CancelAll(fd) ==
    LET armed == fdEvents[fd]
    IN  IF armed = {} \/ registered[fd] = {}
        THEN UNCHANGED <<fdEvents, queue, tickled, nPending, registered>>
        ELSE /\ fdEvents' = [fdEvents EXCEPT ![fd] = {}]
             /\ registered' = [registered EXCEPT ![fd] = {}]
             /\ Schedule(TriggerOrder(fd, armed))
             /\ nPending' = nPending - Cardinality(armed)

(* IOManager::cancelEvent(fd, d): nothing when d is not armed, nor when   *)
(* the MOD or DEL fails because the fd is not in the interest list (errno  *)
(* ENOENT); else MOD/DEL, triggerEvent(d), which schedules d's slot, and  *)
(* --n_pendingEvent_.  No cancelled flag reaches the woken fiber.          *)
CancelEvent(fd, d) ==
    IF d \notin fdEvents[fd] \/ registered[fd] = {}
    THEN UNCHANGED <<fdEvents, queue, tickled, nPending, registered>>
    ELSE /\ fdEvents' = [fdEvents EXCEPT ![fd] = @ \ {d}]
         /\ registered' = [registered EXCEPT ![fd] = fdEvents[fd] \ {d}]
         /\ Schedule(TriggerOrder(fd, {d}))
         /\ nPending' = nPending - 1

(* The fd a hooked call of the program is made on: its own, or the sock_   *)
(* of the Socket it goes through.                                          *)
IoFd(op) == IF op.op \in {"sio", "sclose", "scancel", "saccept"}
            THEN SockFd[op.sock]
            ELSE op.fd

(* FdManager: get(fd) finds the FdCtx of fd, if any; get(fd, true) makes a  *)
(* new one under the unique lock; del(fd) drops it.                         *)
FdMgrGet(fd) == fd \in fdCtx
FdMgrCreate(fd) == fdCtx' = fdCtx \cup {fd}
FdMgrDel(fd) == fdCtx' = fdCtx \ {fd}

Running(w) == wfiber[w]
CurOpOf(f) == Program[f][fpc[f]]
CurOp(w)   == CurOpOf(wfiber[w])

-----------------------------------------------------------------------------
(* Variant of PopFiber without the EXEC skip (pops the head whatever its   *)
(* state), to show what ExclusiveExec rests on.                             *)
PopFiberIgnoringExec(w) ==
    /\ wpc[w] = "pop"
    /\ queue # <<>>
    /\ wfiber' = [wfiber EXCEPT ![w] = Head(queue)]
    /\ queue' = Tail(queue)
    /\ nActive' = nActive + 1
    /\ wpc' = [wpc EXCEPT ![w] = "check"]
    /\ UNCHANGED <<fiberVars, nIdle, tryStop, idleSt, batch, errno, ioVars,
                   mpc, toSpawn, sock, timerVars>>

(* Scheduler::run, the pop under latch_: take the first fiber that is not  *)
(* in EXEC state (one still running on another worker is skipped).         *)
PopFiber(w) ==
    /\ wpc[w] = "pop"
    /\ LET i == SelectInSeq(queue, LAMBDA f : fstate[f] # "EXEC")
       IN  /\ i # 0
           /\ wfiber' = [wfiber EXCEPT ![w] = queue[i]]
           /\ queue' = RemoveAt(queue, i)
    /\ nActive' = nActive + 1
    /\ wpc' = [wpc EXCEPT ![w] = "check"]
    /\ UNCHANGED <<fiberVars, nIdle, tryStop, idleSt, batch, errno, ioVars,
                   mpc, toSpawn, sock, timerVars>>

PopNone(w) ==
    /\ wpc[w] = "pop"
    /\ \A i \in 1..Len(queue) : fstate[queue[i]] = "EXEC"
    /\ wpc' = [wpc EXCEPT ![w] = "idleCheck"]
    /\ UNCHANGED <<fiberVars, schedVars, wfiber, idleSt, batch, errno, ioVars,
                   mpc, toSpawn, sock, timerVars>>

(* A popped fiber that already ended is dropped; any other is call()ed:     *)
(* state_ = EXEC and the worker swaps into it.                              *)
CallFiber(w) ==
    /\ wpc[w] = "check"
    /\ IF fstate[Running(w)] \in {"TERM", "EXCEPT"}
       THEN /\ nActive' = nActive - 1
            /\ wfiber' = [wfiber EXCEPT ![w] = NoFiber]
            /\ wpc' = [wpc EXCEPT ![w] = "idleCheck"]
            /\ UNCHANGED fstate
       ELSE /\ fstate' = [fstate EXCEPT ![Running(w)] = "EXEC"]
            /\ wpc' = [wpc EXCEPT ![w] = "run"]
            /\ UNCHANGED <<nActive, wfiber>>
    /\ UNCHANGED <<fpc, fstage, woken, queue, nIdle, tryStop, idleSt, batch, errno,
                   ioVars, mpc, toSpawn, sock, timerVars>>

(* Back from call(): --n_active_thread_ ...                                 *)
Returned(w) ==
    /\ wpc[w] = "ret"
    /\ nActive' = nActive - 1
    /\ wpc' = [wpc EXCEPT ![w] = "hold"]
    /\ UNCHANGED <<fiberVars, queue, nIdle, tryStop, wfiber, idleSt, batch,
                   errno, ioVars, mpc, toSpawn, sock, timerVars>>

(* ... then a fiber that did not end is set to HOLD (nothing sets READY).   *)
SetHold(w) ==
    /\ wpc[w] = "hold"
    /\ fstate' = IF fstate[Running(w)] \in {"TERM", "EXCEPT", "READY"}
                 THEN fstate
                 ELSE [fstate EXCEPT ![Running(w)] = "HOLD"]
    /\ wfiber' = [wfiber EXCEPT ![w] = NoFiber]
    /\ wpc' = [wpc EXCEPT ![w] = "idleCheck"]
    /\ UNCHANGED <<fpc, fstage, woken, schedVars, idleSt, batch, errno, ioVars,
                   mpc, toSpawn, sock, timerVars>>

(* Leave run() once the idle fiber has ended, else ++n_idle_thread_ and     *)
(* call() the idle fiber.                                                   *)
IdleCheck(w) ==
    /\ wpc[w] = "idleCheck"
    /\ IF idleSt[w] = "TERM"
       THEN /\ wpc' = [wpc EXCEPT ![w] = "exit"]
            /\ UNCHANGED <<nIdle, idleSt>>
       ELSE /\ nIdle' = nIdle + 1
            /\ idleSt' = [idleSt EXCEPT ![w] = "EXEC"]
            /\ wpc' = [wpc EXCEPT ![w] = "stopA"]
    /\ UNCHANGED <<fiberVars, queue, nActive, tryStop, wfiber, batch, errno,
                   ioVars, mpc, toSpawn, sock, timerVars>>

(* IOManager::stopping(timeout), first half: timeout = getNextTimer(),     *)
(* which clears tickled_, then timeout == ~0ull && n_pendingEvent_ == 0.    *)
StopCheckPending(w) ==
    /\ wpc[w] = "stopA"
    /\ wpc' = [wpc EXCEPT ![w] =
                 IF TM!GetNextTimer = Word - 1 /\ nPending = 0 THEN "stopB"
                                                              ELSE "epoll"]
    /\ tTickled' = FALSE
    /\ UNCHANGED <<fiberVars, schedVars, wfiber, idleSt, batch, errno, ioVars,
                   mpc, toSpawn, sock, clock, tmState>>

(* Second half, Scheduler::stopping() under latch_.  When it holds the idle *)
(* loop breaks and the idle fiber ends (MainFunc sets TERM and yields).     *)
StopCheckSched(w) ==
    /\ wpc[w] = "stopB"
    /\ IF tryStop /\ queue = <<>> /\ nActive = 0
       THEN /\ idleSt' = [idleSt EXCEPT ![w] = "TERM"]
            /\ wpc' = [wpc EXCEPT ![w] = "idleRet"]
       ELSE /\ wpc' = [wpc EXCEPT ![w] = "epoll"]
            /\ UNCHANGED idleSt
    /\ UNCHANGED <<fiberVars, schedVars, wfiber, batch, errno, ioVars,
                   mpc, toSpawn, sock, timerVars>>

(* Variant of ExpireTimers with listExpiredCb() hoisted above the           *)
(* "continue" on EINTR: the callbacks are taken out even when the batch is  *)
(* dropped, and then never scheduled.                                       *)
ExpireTimersBeforeContinue(dropped) ==
    LET fs == [i \in 1..Len(TM!ExpiredOrder) |-> TimerFiber(TM!ExpiredOrder[i])]
    IN  IF TM!Expired = {}
        THEN /\ tickled' = FALSE
             /\ UNCHANGED <<queue, tmState>>
        ELSE /\ TM!ListExpiredCb
             /\ queue' = IF dropped THEN queue ELSE queue \o fs
             /\ tickled' = (~dropped /\ queue = <<>> /\ HasIdleThreads)

(* After epoll_wait returned events, unless the batch is dropped: the      *)
(* epoll edges are consumed, then listExpiredCb() and schedule() of each    *)
(* callback; sleep()'s callback schedules the sleeping fiber.  The first    *)
(* schedule onto an empty list tickles (this thread counts as idle).        *)
ExpireTimers(dropped) ==
    LET fs == [i \in 1..Len(TM!ExpiredOrder) |-> TimerFiber(TM!ExpiredOrder[i])]
    IN  IF dropped \/ TM!Expired = {}
        THEN /\ tickled' = FALSE
             /\ UNCHANGED <<queue, tmState>>
        ELSE /\ TM!ListExpiredCb
             /\ queue' = queue \o fs
             /\ tickled' = (queue = <<>> /\ HasIdleThreads)

(* epoll_wait.  With edges pending it returns them all at once: each fd    *)
(* once, with the mask of its directions that are ready and registered     *)
(* (a socket is often writable too, so the mask may hold more than the     *)
(* edge).  The batch is thrown away when rt > 0 but errno, a thread-local  *)
(* left over from an earlier call, reads EINTR.  Otherwise listExpiredCb()  *)
(* runs and the expired timers' callbacks are scheduled.                    *)
EpollReturn(w) ==
    /\ wpc[w] = "epoll"
    /\ LET Ready == {fd \in Fds : kready[fd] \cap registered[fd] # {}}
       IN  /\ Ready # {} \/ tickled
           /\ \E m \in [Ready -> SUBSET Dirs] :
                /\ \A fd \in Ready : kready[fd] \cap registered[fd] \subseteq m[fd]
                                     /\ m[fd] \subseteq registered[fd]
                /\ batch' = [batch EXCEPT ![w] =
                     IF errno[w] = "EINTR" THEN {}
                     ELSE {[fd |-> fd, mask |-> m[fd]] : fd \in Ready}
                            \cup (IF tickled THEN {Pipe} ELSE {})]
    /\ kready' = [fd \in Fds |-> {}]
    /\ ExpireTimers(errno[w] = "EINTR")
    /\ wpc' = [wpc EXCEPT ![w] = IF errno[w] = "EINTR" THEN "stopA"
                                                       ELSE "process"]
    /\ UNCHANGED <<fiberVars, nActive, nIdle, tryStop, wfiber, idleSt, errno,
                   fdEvents, slot, nPending, closed, registered, fdCtx, mpc,
                   toSpawn, sock, clock, tTickled>>

(* epoll_wait times out (rt == 0) or a signal interrupts it (rt == -1,     *)
(* errno = EINTR): the idle loop continues at its top, without yielding.   *)
EpollNothing(w) ==
    /\ wpc[w] = "epoll"
    /\ \/ /\ \A fd \in Fds : kready[fd] \cap registered[fd] = {}
          /\ ~tickled
          /\ UNCHANGED errno
       \/ /\ EpollEINTR
          /\ errno' = [errno EXCEPT ![w] = "EINTR"]
    /\ wpc' = [wpc EXCEPT ![w] = "stopA"]
    /\ UNCHANGED <<fiberVars, schedVars, wfiber, idleSt, batch, ioVars,
                   mpc, toSpawn, sock, timerVars>>

(* Variant of ProcessEvent that decrements n_pendingEvent_ for every       *)
(* reported direction before the "nothing armed" skip.                      *)
ProcessEventCountFirst(w) ==
    /\ wpc[w] = "process"
    /\ \E e \in batch[w] :
        /\ batch' = [batch EXCEPT ![w] = @ \ {e}]
        /\ IF e = Pipe
           THEN /\ errno' = [errno EXCEPT ![w] = "EAGAIN"]
                /\ UNCHANGED <<queue, tickled, fdEvents, nPending, kready,
                                registered>>
           ELSE LET armed == fdEvents[e.fd]
                IN  /\ UNCHANGED errno
                    /\ nPending' = nPending - Cardinality(e.mask)
                    /\ IF armed \cap e.mask = {} \/ registered[e.fd] = {}
                       THEN UNCHANGED <<queue, tickled, fdEvents, kready,
                                        registered>>
                       ELSE /\ fdEvents' = [fdEvents EXCEPT ![e.fd] =
                                               armed \ e.mask]
                            /\ registered' = [registered EXCEPT ![e.fd] =
                                                 armed \ e.mask]
                            /\ kready' = [kready EXCEPT ![e.fd] =
                                             @ \cap (armed \ e.mask)]
                            /\ Schedule(TriggerOrder(e.fd, e.mask))
    /\ UNCHANGED <<fiberVars, nActive, nIdle, tryStop, wpc, wfiber, idleSt,
                   slot, closed, fdCtx, mpc, toSpawn, sock, timerVars>>

(* One event of the batch.  The pipe is drained (the last read fails with  *)
(* EAGAIN).  For an fd, under its mutex: skip it when none of its reported *)
(* directions is armed now; otherwise re-register the rest (MOD/DEL) and   *)
(* triggerEvent every reported direction, each --n_pendingEvent_.          *)
ProcessEvent(w) ==
    /\ wpc[w] = "process"
    /\ \E e \in batch[w] :
        /\ batch' = [batch EXCEPT ![w] = @ \ {e}]
        /\ IF e = Pipe
           THEN /\ errno' = [errno EXCEPT ![w] = "EAGAIN"]
                /\ UNCHANGED <<queue, tickled, fdEvents, nPending, kready,
                                registered>>
           ELSE LET armed == fdEvents[e.fd]
                IN  /\ UNCHANGED errno
                    /\ IF armed \cap e.mask = {} \/ registered[e.fd] = {}
                       THEN UNCHANGED <<queue, tickled, fdEvents, nPending,
                                        kready, registered>>
                       ELSE /\ fdEvents' = [fdEvents EXCEPT ![e.fd] =
                                               armed \ e.mask]
                            /\ registered' = [registered EXCEPT ![e.fd] =
                                                 armed \ e.mask]
                            /\ kready' = [kready EXCEPT ![e.fd] =
                                             @ \cap (armed \ e.mask)]
                            /\ Schedule(TriggerOrder(e.fd, e.mask))
                            /\ nPending' = nPending - Cardinality(e.mask)
    /\ UNCHANGED <<fiberVars, nActive, nIdle, tryStop, wpc, wfiber, idleSt,
                   slot, closed, fdCtx, mpc, toSpawn, sock, timerVars>>

(* The batch is done: the idle fiber yields back to run().                 *)
BatchDone(w) ==
    /\ wpc[w] = "process"
    /\ batch[w] = {}
    /\ wpc' = [wpc EXCEPT ![w] = "idleRet"]
    /\ UNCHANGED <<fiberVars, schedVars, wfiber, idleSt, batch, errno, ioVars,
                   mpc, toSpawn, sock, timerVars>>

(* Variant of IdleReturned that forgets --n_idle_thread_.                   *)
IdleReturnedNoDecrement(w) ==
    /\ wpc[w] = "idleRet"
    /\ idleSt' = IF idleSt[w] = "TERM" THEN idleSt
                 ELSE [idleSt EXCEPT ![w] = "HOLD"]
    /\ wpc' = [wpc EXCEPT ![w] = "pop"]
    /\ UNCHANGED <<fiberVars, schedVars, wfiber, batch, errno, ioVars,
                   mpc, toSpawn, sock, timerVars>>

(* In run(), after idle_fiber->call(): --n_idle_thread_, HOLD unless ended. *)
IdleReturned(w) ==
    /\ wpc[w] = "idleRet"
    /\ nIdle' = nIdle - 1
    /\ idleSt' = IF idleSt[w] = "TERM" THEN idleSt
                 ELSE [idleSt EXCEPT ![w] = "HOLD"]
    /\ wpc' = [wpc EXCEPT ![w] = "pop"]
    /\ UNCHANGED <<fiberVars, queue, nActive, tryStop, wfiber, batch, errno,
                   ioVars, mpc, toSpawn, sock, timerVars>>

-----------------------------------------------------------------------------
(* The hooked calls a user fiber makes while a worker runs it.             *)

(* do_io once yield() returns: without a timeout there is no timer to    *)
(* cancel and nothing sets tinfo->cancelled (cancelEvent and cancelAll do *)
(* not), so the call is tried again on the fd number do_io was given.     *)
Retrying(f) == fstage[f] = "wait"

(* A first call of do_io on an fd with no FdCtx in FdMgr: fun is called   *)
(* once and its result returned as it is.  A retry after yield() keeps the  *)
(* ctx do_io fetched before the wait, whatever FdMgr holds by then.         *)
Direct(f, op) == ~Retrying(f) /\ ~FdMgrGet(IoFd(op))

(* do_io on a socket: FdMgr get(fd), then the original call.  Called       *)
(* directly (Direct), fun's -1 is returned with its errno: EBADF on a      *)
(* closed fd, EINTR or EAGAIN.  With a ctx (isClosed_ is never set, and    *)
(* the socket is taken to be blocking for the user), the call either       *)
(* succeeds, possibly after an EINTR retry which leaves errno = EINTR, or   *)
(* fails with EAGAIN and do_io goes on to addEvent.  A fiber resumed from  *)
(* a wait retries.                                                          *)
FiberIo(w) ==
    /\ wpc[w] = "run"
    /\ LET f == Running(w)
           op == CurOp(w)
           Return(e) == /\ errno' = [errno EXCEPT ![w] = e]
                        /\ fpc' = [fpc EXCEPT ![f] = @ + 1]
                        /\ fstage' = [fstage EXCEPT ![f] = "call"]
                        /\ UNCHANGED closed
           \* accept_f takes the lowest free number, which the program names
           Done(e) == IF op.op = "saccept"
                      THEN /\ SockFd[op.new] \in closed
                           /\ closed' = closed \ {SockFd[op.new]}
                           /\ errno' = [errno EXCEPT ![w] = e]
                           /\ fstage' = [fstage EXCEPT ![f] = "accepted"]
                           /\ UNCHANGED fpc
                      ELSE Return(e)
       IN  /\ fpc[f] <= Len(Program[f])
           /\ \/ op.op = "io" /\ (fstage[f] = "call" \/ Retrying(f))
              \/ /\ op.op \in {"sio", "saccept"}
                 /\ (fstage[f] = "sio" \/ Retrying(f))
           /\ IF IoFd(op) \in closed
              THEN Return("EBADF")
              ELSE \E r \in IoResults :
                   \/ /\ r = "ok"
                      /\ Done(errno[w])
                   \/ /\ r = "eintr_ok"
                      /\ Direct(f, op)
                      /\ Return("EINTR")
                   \/ /\ r = "eintr_ok"
                      /\ ~Direct(f, op)
                      /\ Done("EINTR")
                   \/ /\ r = "eagain"
                      /\ Direct(f, op)
                      /\ Return("EAGAIN")
                   \/ /\ r = "eagain"
                      /\ ~Direct(f, op)
                      /\ errno' = [errno EXCEPT ![w] = "EAGAIN"]
                      /\ fstage' = [fstage EXCEPT ![f] = "eagain"]
                      /\ UNCHANGED <<fpc, closed>>
    /\ UNCHANGED <<fstate, woken, schedVars, wpc, wfiber, idleSt, batch, fdEvents,
                   slot, nPending, kready, tickled, registered, fdCtx, mpc,
                   toSpawn, sock, timerVars>>

(* do_io after EAGAIN: addEvent(fd, ev).  On success the fiber yields; if  *)
(* epoll_ctl failed, do_io returns -1 with epoll_ctl's errno, leaving the   *)
(* direction and its context set in the FdContext.                          *)
FiberAddEvent(w) ==
    /\ wpc[w] = "run"
    /\ LET f == Running(w)
           op == CurOp(w)
       IN  /\ fstage[f] = "eagain"
           /\ AddEvent(IoFd(op), op.ev, f)
           /\ IF CtlError(IoFd(op)) = "0"
              THEN /\ fstage' = [fstage EXCEPT ![f] = "armed"]
                   /\ UNCHANGED <<fpc, errno>>
              ELSE /\ errno' = [errno EXCEPT ![w] = CtlError(IoFd(op))]
                   /\ fpc' = [fpc EXCEPT ![f] = @ + 1]
                   /\ fstage' = [fstage EXCEPT ![f] = "call"]
    /\ UNCHANGED <<fstate, woken, schedVars, wpc, wfiber, idleSt, batch, kready,
                   tickled, closed, fdCtx, mpc, toSpawn, sock, timerVars>>

(* After a successful addEvent, do_io yields back to the worker.            *)
FiberYield(w) ==
    /\ wpc[w] = "run"
    /\ fstage[Running(w)] = "armed"
    /\ fstage' = [fstage EXCEPT ![Running(w)] = "wait"]
    /\ wpc' = [wpc EXCEPT ![w] = "ret"]
    /\ UNCHANGED <<fstate, woken, fpc, schedVars, wfiber, idleSt, batch, errno,
                   ioVars, mpc, toSpawn, sock, timerVars>>

(* Scheduler::schedule of a fiber from inside a fiber.                      *)
FiberSpawn(w) ==
    /\ wpc[w] = "run"
    /\ LET f == Running(w)
       IN  /\ fstage[f] = "call"
           /\ fpc[f] <= Len(Program[f])
           /\ CurOp(w).op = "spawn"
           /\ Schedule(<<CurOp(w).fiber>>)
           /\ fpc' = [fpc EXCEPT ![f] = @ + 1]
    /\ UNCHANGED <<fstate, woken, fstage, nActive, nIdle, tryStop, workerVars,
                   fdEvents, slot, nPending, kready, closed, registered, fdCtx,
                   mpc, toSpawn, sock, timerVars>>

(* The close hook, up to the real close: FdMgr get(fd); if there is an     *)
(* FdCtx, cancelAll(fd) (DEL, then triggerEvent of each armed direction,    *)
(* which schedules its fiber) and FdMgr del(fd).  No lock is held from here *)
(* to close_f, so the fibers just woken may run on other workers first.     *)
FiberClose(w) ==
    /\ wpc[w] = "run"
    /\ LET f == Running(w)
           fd == IoFd(CurOp(w))
       IN  /\ fpc[f] <= Len(Program[f])
           /\ \/ CurOp(w).op = "close" /\ fstage[f] = "call"
              \/ CurOp(w).op = "sclose" /\ fstage[f] = "sclose"
           /\ IF FdMgrGet(fd)
              THEN /\ CancelAll(fd)
                   /\ FdMgrDel(fd)
              ELSE UNCHANGED <<fdEvents, queue, tickled, nPending, registered,
                               fdCtx>>
           /\ fstage' = [fstage EXCEPT ![f] = "closing"]
           /\ woken' = [g \in Fibers |->
                          IF \E i \in 1..Len(queue') : queue'[i] = g
                                                   /\ i > Len(queue)
                          THEN fpc[g] ELSE woken[g]]
    /\ UNCHANGED <<fstate, fpc, nActive, nIdle, tryStop, workerVars, slot,
                   kready, closed, mpc, toSpawn, sock, timerVars>>

(* close_f(fd), the end of the close hook: on a free number it fails with  *)
(* EBADF; otherwise the kernel closes the fd, which leaves epoll's interest *)
(* list and drops its pending edges.  The IOManager's FdContext of the fd  *)
(* is not touched.                                                          *)
FiberCloseF(w) ==
    /\ wpc[w] = "run"
    /\ LET f == Running(w)
           op == CurOp(w)
           fd == IoFd(op)
       IN  /\ fstage[f] = "closing"
           /\ IF fd \in closed
              THEN /\ errno' = [errno EXCEPT ![w] = "EBADF"]
                   /\ UNCHANGED <<closed, kready, registered>>
              ELSE /\ closed' = closed \cup {fd}
                   /\ kready' = [kready EXCEPT ![fd] = {}]
                   /\ registered' = [registered EXCEPT ![fd] = {}]
                   /\ UNCHANGED errno
           /\ sock' = IF op.op = "sclose"
                      THEN [sock EXCEPT ![op.sock].valid = FALSE]
                      ELSE sock
           /\ fpc' = [fpc EXCEPT ![f] = @ + 1]
           /\ fstage' = [fstage EXCEPT ![f] = "call"]
    /\ UNCHANGED <<fstate, woken, schedVars, wpc, wfiber, idleSt, batch, fdEvents,
                   slot, nPending, tickled, fdCtx, mpc, toSpawn, timerVars>>

(* The socket hook: socket_f returns the lowest free fd number, which the  *)
(* workloads name (the number they closed), and FdMgr get(fd, true) gives  *)
(* it a fresh FdCtx.  The IOManager's FdContext of the number is reused as  *)
(* it was left.                                                             *)
FiberSocket(w) ==
    /\ wpc[w] = "run"
    /\ LET f == Running(w)
           fd == CurOp(w).fd
       IN  /\ fstage[f] = "call"
           /\ fpc[f] <= Len(Program[f])
           /\ CurOp(w).op = "socket"
           /\ fd \in closed
           /\ closed' = closed \ {fd}
           /\ FdMgrCreate(fd)
           /\ fpc' = [fpc EXCEPT ![f] = @ + 1]
    /\ UNCHANGED <<fstate, woken, fstage, schedVars, workerVars, fdEvents, slot,
                   nPending, kready, tickled, registered, mpc, toSpawn, sock,
                   timerVars>>

(* Socket::recv / Socket::send: -1 without the call when isConnected_ is   *)
(* false; else the hooked recv/send on sock_ (FiberIo).                     *)
SockIoCall(w) ==
    /\ wpc[w] = "run"
    /\ LET f == Running(w)
           op == CurOp(w)
       IN  /\ fstage[f] = "call"
           /\ fpc[f] <= Len(Program[f])
           /\ op.op = "sio"
           /\ IF sock[op.sock].conn
              THEN /\ fstage' = [fstage EXCEPT ![f] = "sio"]
                   /\ UNCHANGED fpc
              ELSE /\ fpc' = [fpc EXCEPT ![f] = @ + 1]
                   /\ UNCHANGED fstage
    /\ UNCHANGED <<fstate, woken, schedVars, workerVars, ioVars, mpc, toSpawn, sock,
                   timerVars>>

(* Socket::accept: make_shared<Socket>, then the hooked accept on sock_:   *)
(* do_io(READ) (FiberIo); on a Socket that is not valid, accept(-1) finds  *)
(* no FdCtx and the raw call fails with EBADF, and accept returns nullptr. *)
SockAcceptCall(w) ==
    /\ wpc[w] = "run"
    /\ LET f == Running(w)
           op == CurOp(w)
       IN  /\ fstage[f] = "call"
           /\ fpc[f] <= Len(Program[f])
           /\ op.op = "saccept"
           /\ IF sock[op.sock].valid
              THEN /\ fstage' = [fstage EXCEPT ![f] = "sio"]
                   /\ UNCHANGED <<fpc, errno>>
              ELSE /\ fpc' = [fpc EXCEPT ![f] = @ + 1]
                   /\ errno' = [errno EXCEPT ![w] = "EBADF"]
                   /\ UNCHANGED fstage
    /\ UNCHANGED <<fstate, woken, schedVars, wpc, wfiber, idleSt, batch, ioVars, mpc,
                   toSpawn, sock, timerVars>>

(* The rest of the hooked accept, FdMgr get(fd, true), then Socket::init:  *)
(* the new FdCtx is of an open socket and not closed, so sock_ = fd and    *)
(* isConnected_ = true, and accept returns the Socket.                     *)
SockAcceptInit(w) ==
    /\ wpc[w] = "run"
    /\ LET f == Running(w)
           op == CurOp(w)
       IN  /\ fstage[f] = "accepted"
           /\ FdMgrCreate(SockFd[op.new])
           /\ sock' = [sock EXCEPT ![op.new] = [valid |-> TRUE, conn |-> TRUE]]
           /\ fpc' = [fpc EXCEPT ![f] = @ + 1]
           /\ fstage' = [fstage EXCEPT ![f] = "call"]
    /\ UNCHANGED <<fstate, woken, schedVars, workerVars, fdEvents, slot, nPending,
                   kready, tickled, closed, registered, mpc, toSpawn, timerVars>>

(* Socket::close: true when neither connected nor valid; else clear        *)
(* isConnected_ and, when sock_ is valid, the hooked close(sock_) (from    *)
(* FiberClose) before sock_ = -1; the result is then false.  Nothing is    *)
(* locked: sock_ is read, closed and reset in separate steps.              *)
SockClose(w) ==
    /\ wpc[w] = "run"
    /\ LET f == Running(w)
           op == CurOp(w)
       IN  /\ fstage[f] = "call"
           /\ fpc[f] <= Len(Program[f])
           /\ op.op = "sclose"
           /\ sock' = [sock EXCEPT ![op.sock].conn = FALSE]
           /\ IF sock[op.sock].valid
              THEN /\ fstage' = [fstage EXCEPT ![f] = "sclose"]
                   /\ UNCHANGED fpc
              ELSE /\ fpc' = [fpc EXCEPT ![f] = @ + 1]
                   /\ UNCHANGED fstage
    /\ UNCHANGED <<fstate, woken, schedVars, workerVars, ioVars, mpc, toSpawn,
                   timerVars>>

(* Socket::cancelRead / cancelWrite: IOManager::cancelEvent(sock_, d).  On *)
(* a Socket already closed, sock_ is -1 and fdContexts_[-1] is read out of *)
(* bounds; the workloads cancel only open sockets.                         *)
SockCancel(w) ==
    /\ wpc[w] = "run"
    /\ LET f == Running(w)
           op == CurOp(w)
       IN  /\ fstage[f] = "call"
           /\ fpc[f] <= Len(Program[f])
           /\ op.op = "scancel"
           /\ sock[op.sock].valid
           /\ CancelEvent(SockFd[op.sock], op.ev)
           /\ fpc' = [fpc EXCEPT ![f] = @ + 1]
    /\ UNCHANGED <<fstate, woken, fstage, nActive, nIdle, tryStop, workerVars, slot,
                   kready, closed, fdCtx, mpc, toSpawn, sock, timerVars>>

(* Socket::newSock: the hooked socket() gets the lowest free number, which *)
(* the program names, and a fresh FdCtx; initSock's setOption calls go    *)
(* through the setsockopt hook, which passes options other than the       *)
(* timeouts straight to the kernel.                                        *)
NewSock(k) ==
    /\ SockFd[k] \in closed
    /\ closed' = closed \ {SockFd[k]}
    /\ FdMgrCreate(SockFd[k])
    /\ sock' = [sock EXCEPT ![k].valid = TRUE]

(* Socket::bind: newSock() first when sock_ is -1, then ::bind, whose      *)
(* success or failure changes nothing the model keeps.                     *)
SockBind(w) ==
    /\ wpc[w] = "run"
    /\ LET f == Running(w)
           op == CurOp(w)
       IN  /\ fstage[f] = "call"
           /\ fpc[f] <= Len(Program[f])
           /\ op.op = "sbind"
           /\ IF sock[op.sock].valid
              THEN UNCHANGED <<closed, fdCtx, sock>>
              ELSE NewSock(op.sock)
           /\ fpc' = [fpc EXCEPT ![f] = @ + 1]
    /\ UNCHANGED <<fstate, woken, fstage, schedVars, workerVars, fdEvents,
                   slot, nPending, kready, tickled, registered, mpc, toSpawn,
                   timerVars>>

(* Socket::listen: false when sock_ is -1, else ::listen; neither changes  *)
(* the state the model keeps.                                              *)
SockListen(w) ==
    /\ wpc[w] = "run"
    /\ LET f == Running(w)
       IN  /\ fstage[f] = "call"
           /\ fpc[f] <= Len(Program[f])
           /\ CurOp(w).op = "slisten"
           /\ fpc' = [fpc EXCEPT ![f] = @ + 1]
    /\ UNCHANGED <<fstate, woken, fstage, schedVars, workerVars, ioVars, mpc,
                   toSpawn, sock, timerVars>>

(* Socket::cancelAll: IOManager::cancelAll(sock_) directly, not the close  *)
(* hook, so the fds' FdCtx stays; only open sockets are cancelled.         *)
SockCancelAll(w) ==
    /\ wpc[w] = "run"
    /\ LET f == Running(w)
           op == CurOp(w)
       IN  /\ fstage[f] = "call"
           /\ fpc[f] <= Len(Program[f])
           /\ op.op = "scancelall"
           /\ sock[op.sock].valid
           /\ CancelAll(SockFd[op.sock])
           /\ fpc' = [fpc EXCEPT ![f] = @ + 1]
    /\ UNCHANGED <<fstate, woken, fstage, nActive, nIdle, tryStop, workerVars,
                   slot, kready, closed, fdCtx, mpc, toSpawn, sock, timerVars>>

(* The sleep hook: addTimer(seconds * 1000, schedule(this fiber)) under    *)
(* the timer mutex, whose onTimerInsertedAtFront() is IOManager::tickle()   *)
(* (a pipe write only if a thread is idle), then yield.                     *)
FiberSleep(w) ==
    /\ wpc[w] = "run"
    /\ LET f == Running(w)
           op == CurOp(w)
       IN  /\ fstage[f] = "call"
           /\ fpc[f] <= Len(Program[f])
           /\ op.op = "sleep"
           /\ TM!AddTimer(op.timer, op.ms, FALSE)
           /\ tickled' = (tickled \/ (~tTickled /\ tTickled' /\ HasIdleThreads))
           /\ fstage' = [fstage EXCEPT ![f] = "armed"]
    /\ UNCHANGED <<fstate, woken, fpc, schedVars, workerVars, fdEvents, slot, nPending,
                   kready, closed, registered, fdCtx, mpc, toSpawn, sock>>

(* Back from the yield in sleep(): return 0.                                *)
FiberSleepReturn(w) ==
    /\ wpc[w] = "run"
    /\ LET f == Running(w)
       IN  /\ fstage[f] = "wait"
           /\ fpc[f] <= Len(Program[f])
           /\ CurOp(w).op = "sleep"
           /\ fpc' = [fpc EXCEPT ![f] = @ + 1]
           /\ fstage' = [fstage EXCEPT ![f] = "call"]
    /\ UNCHANGED <<fstate, woken, schedVars, workerVars, ioVars, mpc, toSpawn, sock,
                   timerVars>>

(* Fiber::MainFunc after the callback returns: TERM, then yield.            *)
FiberEnd(w) ==
    /\ wpc[w] = "run"
    /\ LET f == Running(w)
       IN  /\ fstage[f] = "call"
           /\ fpc[f] > Len(Program[f])
           /\ fstate' = [fstate EXCEPT ![f] = "TERM"]
           /\ fstage' = [fstage EXCEPT ![f] = "done"]
    /\ wpc' = [wpc EXCEPT ![w] = "ret"]
    /\ UNCHANGED <<fpc, woken, schedVars, wfiber, idleSt, batch, errno, ioVars,
                   mpc, toSpawn, sock, timerVars>>

-----------------------------------------------------------------------------
(* The kernel: data arrives on a socket, or it becomes writable, while a   *)
(* direction is registered in epoll; with EPOLLET this queues one edge.    *)
DataReady(fd, d) ==
    /\ d \in registered[fd]
    /\ d \notin kready[fd]
    /\ kready' = [kready EXCEPT ![fd] = @ \cup {d}]
    /\ UNCHANGED <<fiberVars, schedVars, workerVars, fdEvents, slot, nPending,
                   tickled, closed, registered, fdCtx, mpc, toSpawn, sock, timerVars>>

(* Time passes: GetCurrentMS() advances by one.                          *)
Tick ==
    /\ TM!Tick
    /\ UNCHANGED <<fiberVars, schedVars, workerVars, ioVars, mpc, toSpawn, sock>>

(* The main thread schedules the initial fibers, then Scheduler::stop():    *)
(* try_stop_ = true, tickle() once per thread, join every thread.           *)
MainSchedule ==
    /\ mpc = "sched"
    /\ toSpawn # <<>>
    /\ Schedule(<<Head(toSpawn)>>)
    /\ toSpawn' = Tail(toSpawn)
    /\ UNCHANGED <<fiberVars, nActive, nIdle, tryStop, workerVars, fdEvents,
                   slot, nPending, kready, closed, registered, fdCtx, mpc,
                   timerVars, sock>>

MainStop ==
    /\ CallsStop
    /\ mpc = "sched"
    /\ toSpawn = <<>>
    /\ tryStop' = TRUE
    /\ tickled' = (tickled \/ nIdle > 0)
    /\ mpc' = "join"
    /\ UNCHANGED <<fiberVars, queue, nActive, nIdle, workerVars, fdEvents,
                   slot, nPending, kready, closed, registered, fdCtx, toSpawn, sock,
                   timerVars>>

MainJoin ==
    /\ mpc = "join"
    /\ \A w \in Workers : wpc[w] = "exit"
    /\ mpc' = "done"
    /\ UNCHANGED <<fiberVars, schedVars, workerVars, ioVars, toSpawn, sock, timerVars>>

(* stop() has returned: the program is over.                                *)
Finished ==
    /\ mpc = "done"
    /\ UNCHANGED vars

-----------------------------------------------------------------------------
(* The Scheduler's members as constructed: fiber_list_ empty, no active or *)
(* idle thread, try_stop_ false.                                           *)
SchedInit ==
    /\ queue = <<>>
    /\ nActive = 0
    /\ nIdle = 0
    /\ tryStop = FALSE

(* Scheduler::run as each thread enters it: the thread's main fiber, then *)
(* an idle fiber in INIT bound to idle(), before the first pop.            *)
WorkerInit ==
    /\ wpc = [w \in Workers |-> "pop"]
    /\ wfiber = [w \in Workers |-> NoFiber]
    /\ idleSt = [w \in Workers |-> "INIT"]

(* IOManager::contextResize from the constructor: a new FdContext for each *)
(* fd number, with no direction set and empty event contexts.              *)
ContextResize ==
    /\ fdEvents = [fd \in Fds |-> {}]
    /\ slot = [fd \in Fds |-> [d \in Dirs |-> NoFiber]]

Init ==
    /\ fstate = [f \in Fibers |-> "INIT"]
    /\ fpc = [f \in Fibers |-> 1]
    /\ fstage = [f \in Fibers |-> "call"]
    /\ woken = [f \in Fibers |-> 0]
    /\ SchedInit
    /\ WorkerInit
    /\ batch = [w \in Workers |-> {}]
    /\ errno = [w \in Workers |-> "0"]
    /\ ContextResize
    /\ nPending = 0
    /\ kready = [fd \in Fds |-> {}]
    /\ tickled = FALSE
    /\ closed = {SockFd[k] : k \in Accepted}
    /\ registered = [fd \in Fds |-> {}]
    /\ fdCtx = Fds \ {SockFd[k] : k \in Accepted}
    /\ mpc = "sched"
    /\ toSpawn = Initial
    /\ clock = 0
    /\ TM!TInit
    /\ sock = [k \in Sockets |-> [valid |-> k \notin Accepted,
                                   conn |-> k \notin Accepted]]

Worker(w) ==
    \/ PopFiber(w) \/ PopNone(w) \/ CallFiber(w)
    \/ FiberIo(w) \/ FiberAddEvent(w) \/ FiberYield(w) \/ FiberSpawn(w)
    \/ FiberClose(w) \/ FiberCloseF(w) \/ FiberSocket(w)
    \/ SockIoCall(w) \/ SockClose(w) \/ SockCancel(w)
    \/ SockAcceptCall(w) \/ SockAcceptInit(w)
    \/ SockBind(w) \/ SockListen(w) \/ SockCancelAll(w)
    \/ FiberSleep(w) \/ FiberSleepReturn(w) \/ FiberEnd(w)
    \/ Returned(w) \/ SetHold(w) \/ IdleCheck(w)
    \/ StopCheckPending(w) \/ StopCheckSched(w)
    \/ EpollReturn(w) \/ EpollNothing(w) \/ ProcessEvent(w) \/ BatchDone(w)
    \/ IdleReturned(w)

MainThread == MainSchedule \/ MainStop \/ MainJoin

Next ==
    \/ \E w \in Workers : Worker(w)
    \/ MainThread
    \/ \E fd \in Fds, d \in Dirs : DataReady(fd, d)
    \/ Tick
    \/ Finished

(* Every thread is scheduled by the OS: weak fairness per thread; the      *)
(* clock keeps advancing.  The kernel's readiness is not assumed to happen. *)
Spec == Init /\ [][Next]_vars
             /\ \A w \in Workers : WF_vars(Worker(w))
             /\ WF_vars(MainThread)
             /\ WF_vars(Tick)

-----------------------------------------------------------------------------
(* Properties.                                                              *)

Waiting(f) == fstage[f] = "wait"
ArmedBy(f) ==
    {<<fd, d>> \in Fds \X Dirs : /\ d \in fdEvents[fd] \cap registered[fd]
                                /\ slot[fd][d] = f}
ArmedCount == SumFunction([fd \in Fds |-> Cardinality(fdEvents[fd])])

(* A fiber's stack is in use by one worker at a time: no two workers are   *)
(* ever inside the same fiber (the EXEC skip in Scheduler::run and the     *)
(* HOLD set after call() returns are meant to ensure it, spec invariant i). *)
ExclusiveExec ==
    \A w1, w2 \in Workers :
        (w1 # w2 /\ wpc[w1] = "run" /\ wpc[w2] = "run")
            => wfiber[w1] # wfiber[w2]

(* A fiber suspended in do_io or sleep can still be woken: it is in        *)
(* fiber_list_, popped by a worker, the continuation of an armed direction, *)
(* or the callback target of a timer in the timer set.                      *)
NoLostWaiter ==
    \A f \in Fibers :
        Waiting(f) =>
            \/ \E i \in 1..Len(queue) : queue[i] = f
            \/ \E w \in Workers : wfiber[w] = f
            \/ ArmedBy(f) # {}
            \/ \E t \in tSet : TimerFiber(t) = f

(* n_pendingEvent_, which IOManager::stopping trusts, counts exactly the   *)
(* armed directions of all fds (spec I3), across addEvent, the idle loop's *)
(* triggers and cancelAll.                                                  *)
PendingMatchesArmed == nPending = ArmedCount

(* Once stop() has returned, no fiber is left in fiber_list_ and none is   *)
(* suspended waiting on an fd (spec I4: stop returns after the work).       *)
StopLeavesNothing ==
    mpc = "done" => /\ queue = <<>>
                    /\ \A f \in Fibers : ~Waiting(f)

(* A fiber whose wake-up has happened is eventually run by some worker:   *)
(* a fiber in fiber_list_, a fiber in sleep(), which the clock passes, or  *)
(* a fiber waiting on a direction of an fd whose edge is in epoll's ready  *)
(* list.  This rests on the idle loop yielding to Scheduler::run, draining *)
(* expired timers after every epoll_wait whatever it returned, and never   *)
(* dropping a batch of edge-triggered events, which the kernel does not    *)
(* report again.                                                            *)
WorkEventuallyRuns ==
    \A f \in Fibers :
        (\/ \E i \in 1..Len(queue) : queue[i] = f
         \/ Waiting(f) /\ CurOpOf(f).op = "sleep"
         \/ Waiting(f) /\ \E fd \in Fds, d \in Dirs :
                            /\ d \in fdEvents[fd] \cap kready[fd]
                            /\ slot[fd][d] = f)
            ~> (\E w \in Workers : wfiber[w] = f)

(* A hooked call on an open socket fails only as the socket call itself   *)
(* does: do_io never returns the errno of a failed epoll_ctl on a number   *)
(* in use (ENOENT, EEXIST).  It does when the FdContext of a closed number  *)
(* keeps a direction set, so that the number's next socket gets a MOD for   *)
(* an fd that is not in epoll: left by an addEvent whose ADD failed on a    *)
(* just-closed fd, or by a re-arm between the close hook's cancelAll and    *)
(* close_f (spec §4.6 says a waiter there sees EBADF).                      *)
NoCtlErrorOnOpenFd ==
    \A w \in Workers : errno[w] \notin {"ENOENT", "EEXIST"}

(* A fiber waiting on an fd when the close hook's cancelAll wakes it ends  *)
(* that call with -1 and errno EBADF (spec.md §4.6 "they will see the fd  *)
(* as EBADF on retry", scenario S5): after the wake-up it never arms a     *)
(* direction again in that call, and the call returns EBADF.  do_io        *)
(* retries on the number it was given, which close_f may not have closed  *)
(* yet, or which socket() or accept() may already have reopened.          *)
CloseWakesWithEBADF ==
    [][\A f \in Fibers :
         woken[f] = fpc[f] =>
            /\ fstage[f] # "armed" => fstage'[f] # "armed"
            /\ fpc'[f] # fpc[f] =>
                  \E w \in Workers : wfiber[w] = f /\ errno'[w] = "EBADF"]_vars

=============================================================================
