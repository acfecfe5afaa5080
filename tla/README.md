# TLA+ models of the WebFisher fiber runtime

WebFisher (`src/`) is an M:N coroutine runtime. Fibers (ucontext coroutines) are
run by a pool of worker threads. A worker blocks in `epoll_wait` when it has
nothing to run. Hooked socket calls turn blocking I/O into
"register interest, yield, resume on readiness".

The project models the control of this runtime: which fiber runs where, and when
it is suspended and resumed. It abstracts the data away. A fiber is a model value
running a small program of hooked calls. A file descriptor is a model value. An
epoll event is a set of directions.

## 1. Inventory

### Components, their state and operations

| Component | Source | State | Operations |
|---|---|---|---|
| Fiber | `fiber.cpp/.h` | `state_` (INIT, HOLD, EXEC, TERM, READY, EXCEPT), the context and stack, and the thread-local current fiber | ctor, `reset`, `call`, `yeild`, `MainFunc` (runs the callback, then TERM or EXCEPT) |
| Scheduler | `scheduler.cpp/.h` | `fiber_list_`, `n_active_thread_`, `n_idle_thread_`, `try_stop_`, the thread pool, and `latch_` | `start`, `schedule`/`scheduleNoLock` (push, and tickle if the list was empty), `run` (the worker loop), `stopping`, `stop`, default `idle` |
| IOManager | `iomanager.cpp` | `epfd_`, the tickle pipe, one `FdContext` per fd (`events`, a read and a write slot, a mutex), and `n_pendingEvent_` | `addEvent`, `delEvent`, `cancelEvent`, `cancelAll`, `triggerEvent`, `tickle`, `stopping`, `idle` (the epoll loop) |
| TimerManager | `timer.cpp/.h` | a `std::set` of timers ordered by `next_`, and `tickled_` | `addTimer`, `addConditionTimer`, `Timer::cancel`/`refresh`/`reset`, `getNextTimer`, `listExpiredCb` |
| FdManager | `fdmanager.cpp` | a vector of `FdCtx` (socket, nonblock, closed, send and receive timeouts) | `get` (creates on demand), `del`, `FdCtx::init` |
| Hooks | `hook.cpp` | thread-local `t_hook_enable` | `do_io` (read, write and friends), `sleep`, `socket`, `connect_with_timeout`, `close`, `setsockopt` |
| Logger | `log.cpp/.h` | a Logger's `level_`, `formatter_`, `appenders_` (a `std::list`) and `latch_`; each appender's `level_`, `formatter_`, `hasFormatter_` and `latch_`; LoggerManager's map of loggers | `Logger::log` (and the `FISHER_LOG_*` macros), `setLevel`, `setFormatter`, `addAppender`, `delAppender`, `clearAppenders`; `LogAppender::setFormatter`/`getFormatter`/`setLevel`; `StdoutLogAppender::log`; `LoggerManager::getLogger` |
| Socket | `socket.cpp/.h` | `sock_` (-1 when not open) and `isConnected_`, with no lock | `accept`/`init`, `send`/`recv` and their iovec and To/From forms, `close`, `cancelRead`/`cancelWrite`/`cancelAccept`, `cancelAll`, `bind` (with `newSock`), `listen`; `connect`, options and addresses |
| util | `util.cpp` | clocks, thread ids, and `format_parser`, the pattern parser of `LogFormatter` | `format_parser` (in `LogFormatter.tla`); `GetCurrentMS` (the clock of the timer models) |

### How they interact

A worker thread runs `Scheduler::run`. The loop is:

1. Pop the first fiber in the list that is not EXEC.
2. `call()` it, and mark it HOLD when it comes back.
3. If nothing was popped, or after the call, `call()` the worker's own idle fiber.

For the IOManager, the idle fiber runs `IOManager::idle`:

- It returns for good when `stopping()` holds.
- Otherwise it calls `epoll_wait`.
- It schedules expired timer callbacks.
- For each fd event it triggers the armed slots: it schedules the waiting fiber and decrements `n_pendingEvent_`.
- Then it yields back to `run`.

A fiber that calls a hooked `read` on a socket goes through `do_io`:

- The syscall may return EAGAIN. The fiber then calls `addEvent(fd, READ)`, which puts it in the slot and increments `n_pendingEvent_`.
- It may also add a timeout timer that calls `cancelEvent`.
- It yields. When it is triggered it retries the syscall.
- `close` runs `cancelAll`, which triggers every armed slot of the fd.
- `schedule` writes the tickle pipe when the list was empty and a thread is idle.

### What is hard here

The hard behaviours are:

- Several workers run `idle` at the same time, on one epoll instance, with
  edge-triggered registration.
- An event batch is processed after `epoll_wait` returns. By then another thread
  may already have processed the same fd.
- `errno` is thread-local and shared by everything on the thread, so an
  old value can be read as if it came from the latest call.
- Stopping is decided by each thread from a snapshot, while fibers on other
  threads keep running.
- Timers race with readiness.

`PROJECT.json` lists each hazard at its source line.

### What makes each component correct

- **Scheduler**:
  - A fiber is never executed by two threads at once. `Fiber::call` asserts this.
  - A scheduled fiber is eventually run.
  - `stop()` returns only after all work is done.
- **IOManager**:
  - `n_pendingEvent_` counts the armed directions.
  - A fiber that waits on an fd is always in a slot, in the list, or running.
    No waiter is lost.
  - Every edge the kernel reports for an armed direction is eventually handled.
- **Fiber**: a fiber is only called when it is not running and has not ended,
  and it ends only from EXEC.
- **Logger**: every call returns. Records from concurrent threads reach
  every sink of a logger in one order.
- **TimerManager**: it refines a set of (deadline, callback) pairs.
  - Every added timer that is not cancelled fires once its deadline is reached.
  - `getNextTimer` gives the time until the earliest deadline.

## 2. Modules

| Module | Models | Composes |
|---|---|---|
| `IOManager.tla` | Scheduler::run, schedule, stopping, stop; IOManager addEvent, cancelEvent, cancelAll, triggerEvent, tickle, stopping, idle; FdManager get and del; the fiber state as the scheduler sees it; hooked do_io, accept, close, socket and sleep; the Socket wrapper's accept, bind, listen, send/recv, close, cancelRead/cancelWrite and cancelAll; epoll's interest list and the kernel's edge-triggered readiness | the Scheduler, the IOManager, FdManager, the Hooks and Socket, in one module, because each step reads the others' state; `INSTANCE TimerManager` as `TM` |
| `MCIOManager.tla` | the workloads (fiber programs) and the constants for TLC | extends `IOManager` |
| `TimerSpec.tla` | what the timer heap promises (spec.md §4.2): a set of armed timers with deadline, period and recurring flag; add, cancel, refresh, reset, expiry of all due timers | |
| `TimerManager.tla` | `TimerManager` and `Timer` of `timer.cpp`: the `std::set` ordered by `next_` alone, addTimer, cancel, refresh, reset, listExpiredCb, getNextTimer in `uint64_t` | `INSTANCE TimerSpec` as the refinement `TimerSpecRefined`; is itself instantiated by `IOManager` as `TM` |
| `MCTimerManager.tla` | the word size for TLC | extends `TimerManager` |
| `Logger.tla` | one Logger from `LoggerManager` and its appenders, called by several threads: `log`, `setLevel`, both `setFormatter`s, `addAppender`, `delAppender`, `clearAppenders`, and the appenders' `setFormatter`, `getFormatter`, `setLevel` and `log` | |
| `LogFormatter.tla` | `format_parser` and `LogFormatter::init` as recursive operators over patterns, and the grammar of the parser's comment as the reference they are checked against | extended by `Logger`, whose `setFormatter(string)` refuses what `isError` marks |
| `MCLogger.tla` | the per-thread programs of Logger calls, and the pattern of each formatter | extends `Logger` |

### State of `IOManager.tla`

Fibers:

- `fstate` is the fiber's `state_`.
- `fpc` is the index of the fiber's next hooked call.
- `fstage` is the stage of that call: `call`, `sio` (a Socket call past its own tests, in `do_io`), `eagain` (do_io's call returned EAGAIN, addEvent not yet), `armed` (addEvent done, yield not yet), `wait` (yielded), `accepted` (the accept syscall returned a number, the FdCtx and `Socket::init` not yet), `sclose` (`Socket::close` past its tests, in the close hook), `closing` (the close hook between cancelAll and close_f), or `done`.

Scheduler:

- `queue` is `fiber_list_`.
- `nActive` is `n_active_thread_`.
- `nIdle` is `n_idle_thread_`.
- `tryStop` is `try_stop_`.

Each worker thread:

- `wpc` is the point the thread has reached in `run` or in the idle loop.
- `wfiber` is the fiber it popped.
- `idleSt` is its idle fiber's state.
- `batch` is its epoll batch that is still to be processed.
- `errno` is its thread-local errno.

IOManager:

- `fdEvents[fd]` is `FdContext::events`.
- `slot[fd][d]` is the fiber held by the event context.
- `nPending` is `n_pendingEvent_`.
- `tickled` means the pipe is readable.

Kernel:

- `kready[fd]` holds the directions that have a readiness edge pending.
- `registered[fd]` is the mask epoll's interest list holds for the fd, `{}`
  when the fd is not in it. It differs from `fdEvents` when an `epoll_ctl`
  failed or `close_f` dropped the fd.
- `closed` holds the fd numbers that are free.

FdManager:

- `fdCtx` holds the fds that have an `FdCtx` in `datas_`.

Socket:

- `sock[k]` is `[valid, conn]` for Socket object `k`: `sock_ != -1` and
  `isConnected_`. `SockFd[k]` is the number `sock_` holds while valid.
  The Sockets a program accepts, or makes with `CreateTCPSocket` and binds
  (`CreatedTCP`), together `Accepted`, start as the constructor leaves
  them, and their numbers start free; the others start as `accept` leaves
  them.

History:

- `woken[f]` is the index of the call of fiber `f` in which the close hook's
  `cancelAll` woke it, 0 if none. Only `FiberClose` writes it, and no
  action reads it; it exists for `CloseWakesWithEBADF`.

Main thread:

- `mpc` is how far the main thread has got: schedule, stop, join, done.
- `toSpawn` holds the fibers still to schedule.

### Actions

Each action models one step of a thread between points where another thread can
observe it. Each is listed in `PROJECT.json` "map" with the source lines it
models.

- **Scheduler::run**: `PopFiber`, `PopNone`, `CallFiber`, `Returned`, `SetHold`, `IdleCheck`, `IdleReturned`.
- **IOManager::idle**:
  - `StopCheckPending` and `StopCheckSched`: the two halves of `stopping()`. They are separate because only the second takes `latch_`.
  - `EpollReturn`: the batch may be dropped by the `rt <= 0 || errno == EINTR` test.
  - `EpollNothing`: a timeout or EINTR.
  - `ProcessEvent`: one event of the batch.
  - `BatchDone`.
- **Fibers**:
  - `FiberIo`: `do_io` up to its EAGAIN test. It looks up the `FdCtx`;
    the result of the syscall is a choice among `IoResults`. On a first
    call with no `FdCtx` (`Direct`) the syscall's -1 is returned as it is,
    EINTR and EAGAIN included. It also runs the retry after a wake-up
    (`Retrying`): with no timer nothing sets `tinfo->cancelled`, so the
    call is made again on the same number, and an EAGAIN goes back to
    `addEvent` with the `FdCtx` do_io fetched before the wait, even if the
    close hook has since removed it from FdMgr.
  - `FiberAddEvent`: `do_io`'s `addEvent` after EAGAIN. It is a step of its
    own because a close on another worker can come between. When
    `epoll_ctl` fails, `do_io` returns -1 with its errno.
  - `FiberYield`.
  - `FiberSpawn`.
  - `FiberClose` and `FiberCloseF`: the hooked `close`, in its two steps.
    The first is `FdMgr get`, `cancelAll` and `FdMgr del`. The second is
    `close_f`. No lock is held between them, so a fiber on another worker
    may run in the gap.
  - `FiberSocket`: the hooked `socket`. It takes a free number, the one
    the workload closed, and gives it a new `FdCtx`; the IOManager's
    `FdContext` of the number is reused as it was.
  - `FiberEnd`: `MainFunc`.
- **Socket**:
  - `SockIoCall`: `send`/`recv` return -1 without a syscall when
    `isConnected_` is false; otherwise `FiberIo` runs `do_io` on `sock_`.
  - `SockAcceptCall` and `SockAcceptInit`: `Socket::accept` runs the hooked
    `accept` (`do_io` for READ on the listening `sock_`). Its success takes
    the new Socket's number. Then the hook's `FdMgr get(fd, true)` and
    `Socket::init` make the new Socket valid and connected. On a Socket
    that is not valid the call fails with EBADF.
  - `SockClose`: `close` clears `isConnected_`. If `sock_` is valid it goes
    through the close hook (`FiberClose`, `FiberCloseF`), and `sock_ = -1`
    only after `close_f`. Nothing is locked.
  - `SockCancel`: `cancelRead`/`cancelWrite` call `cancelEvent`.
  - `SockCancelAll`: `Socket::cancelAll` calls `IOManager::cancelAll`
    directly, so unlike the close hook it keeps the `FdCtx`.
  - `SockBind`: `bind` first runs `newSock` (`NewSock`: the hooked
    `socket()` takes the Socket's number and a new `FdCtx`) when `sock_` is
    -1. `::bind` itself changes nothing the model keeps.
  - `SockListen`: `listen`, which changes nothing the model keeps either;
    it is there so that the listening Socket's calls are those of the code.
- **Main thread**:
  - `MainSchedule`: the fibers scheduled after `start`.
  - `MainStop` and `MainJoin`: `stop`.
- **Kernel**: `DataReady`, an edge on a direction registered in epoll.

The helpers are:

- `Schedule`: `schedule` with its tickle.
- `AddEvent`: `events` and the slot are set before `epoll_ctl`; only a
  successful call registers the direction and increments `n_pendingEvent_`.
- `CtlError`: the errno of that `epoll_ctl`. MOD on an fd that is not in
  epoll gives ENOENT; ADD on a closed fd gives EBADF.
- `CancelAll`: a failed DEL returns early without triggering anything.
- `CancelEvent`: the same for one direction. It schedules the waiter
  without any "cancelled" mark, so `do_io` retries the call and, on EAGAIN,
  waits again.
- `IoFd`: the number a call works on, its own or its Socket's `sock_`.
- `GetContext`: `FdContext::getContext`, the slot of one direction.
- `SchedInit`, `WorkerInit` and `ContextResize`: the parts of `Init` that
  are the Scheduler's members, each thread's entry into `run` (its idle
  fiber in INIT), and the IOManager constructor's `contextResize`.
- `FdMgrGet`, `FdMgrCreate` and `FdMgrDel`: FdManager's `get`,
  `get(fd, true)` and `del`.
- `TriggerOrder`: the order in which the slots are triggered.
- `HasIdleThreads`.

The model is of a release build, so `assert`s are compiled out. What an assert
states is checked as a property instead.

### Timers (`TimerManager.tla`, `TimerSpec.tla`)

`TimerManager` keeps the code's state:

- `timers` is the set of elements of `timers_`.
- `next`, `ms`, `recurring` and `cb` are each timer's `next_`, `ms_`, `recurring_` and whether `cb_` is set.
- `tickled` is `tickled_`.
- `now` is `GetCurrentMS()`.
- `fired` (history) counts the callbacks `listExpiredCb` handed out.
- `ub` records that `cancel` reached `timers_.erase(timers_.end())`.

The Comparator orders by `next_` alone, so the set holds at most one timer
per deadline. `Find(t)` is `timers_.find(t)`: the element with t's deadline,
which may be another timer. `SetInsert` is an insert that is a no-op on an
equal key. Each operation runs under `mutex_` and is one action: `AddTimer`,
`Cancel`, `Refresh`, `Reset`, `ListExpiredCb` (every due timer taken out in set
order, the recurring ones re-inserted one by one at `now + ms_`, by
`FoldLeft`), `ReadNextTimer` (clears `tickled_`) and `Tick`. `AddTimer` builds
the timer with `NewTimer` (the `Timer` constructor: `next_ = now + ms_`) and
then inserts it. `GetNextTimer` is
`next_ - now` modulo `Word`, the `uint64_t` subtraction with `Word` scaled down
from 2^64 to 2^16; the wrap only needs `Word` larger than every deadline.

`TimerSpec` is the abstract heap: a function from armed timers to
`[at, ms, rec]`, where timers with equal deadlines coexist and expiry fires
every due timer at once. `TimerManager` maps onto it by taking the timers in
`timers_` as the armed ones (`Abstract == INSTANCE TimerSpec WITH ...`), and
`TimerSpecRefined == Abstract!Spec` is checked as a `PROPERTY`.

Not in the model: `addConditionTimer` (its missing `return` makes the
`TimerRef` indeterminate, and it is only used by the do_io timeout, not yet
composed), and the fact that `addTimer(ms, cb, recurring)` returns `void` in
this repository. The model lets a client hold every `Timer` it creates, as the
API in spec.md describes.

### Timers composed into `IOManager`

`IOManager` instantiates `TimerManager` as `TM`, with its variables renamed
(`clock`, `tSet`, `tNext`, ...). Three parts of the IOManager use it:

- `FiberSleep` is the hooked `sleep`: `addTimer(seconds*1000, schedule(fiber))`
  through `TM!AddTimer`, whose insert at the front calls
  `onTimerInsertedAtFront`, i.e. `tickle()`, which writes the pipe only if a
  thread is idle. `FiberSleepReturn` is the return after the fiber is resumed.
  A `sleep` op of a program names its timer, and `TimerFiber(t)` is the fiber
  whose program names t: the fiber the timer's callback schedules.
- `ExpireTimers`, part of `EpollReturn`: after an `epoll_wait` that returned
  events and was not dropped, `listExpiredCb` runs and the callbacks are
  scheduled in set order. The callback is `schedule(fiber)` bound to the
  IOManager. `Scheduler::schedule(cb)` wraps it in a new fiber that schedules
  the sleeper. The model schedules the sleeper directly, which removes one
  fiber and one hop through the list but keeps the order and the tickle.
- `StopCheckPending` reads `getNextTimer()` and compares it with `~0ull`
  (`Word - 1`), and clears `tickled_`.

`Tick` advances the clock up to `MaxTime`. The runs without sleeps have
`Timers = {}` and `MaxTime = 0`, so they are the model without timers.

### Fiber states

A fiber's `state_` is `fstate[f]` for a user fiber and `idleSt[w]` for the
idle fiber of worker w. `CallFiber` is `call()` from `Scheduler::run`,
`FiberEnd` is `MainFunc` reaching TERM, `Returned` the yield back to
`run()`, and `SetHold` the HOLD that `run()` writes after a `call()` that
did not end the fiber. Nothing in the repository calls `reset`, and no
modelled callback throws, so EXCEPT is never reached.

### Logger (`Logger.tla`)

The state is that of one logger, as `LoggerManager` makes it: level INFO, the
default formatter, and one StdoutLogAppender `Root` that `addAppender` gave
the logger's formatter without setting `hasFormatter_`. `lmtx` and `amtx[a]`
are the owners of the logger's and the appenders' `latch_`. A formatter is a
model value made from the pattern `Pattern[f]`, and a record is reduced to its message, appended to `out[a]`
when appender `a` writes it. `crashed` is set when the process dies.

Each thread runs a program of calls (`pc`). A call is split only where the
code blocks on a mutex, since other threads can run there (`step`):

- `LogCall` is the level test of `FISHER_LOG_LEVEL` and `Logger::log`.
  `LogLock` takes the latch, `LogAppend` is one `ap->log` of the range-for,
  and `LogReturn` releases the latch. `Format` is the appender's
  `formatter_->format`: a null formatter kills the process.
- `SetFormatterCall` parses the pattern (`LogFormatter`) and refuses one
  that `isError` marks. `SetFormatterLock` sets the
  logger's formatter, and `SetFormatterApp` is one iteration of the loop.
  For an appender without `hasFormatter_`, it locks `ap->latch_` and then
  calls `ap->setFormatter`, which locks it again. The thread is left at step
  `relock` for good.
- `AddAppenderLock`, `AddAppenderGetFormatter` and `AddAppenderFinish` are
  the three blocking points of `addAppender`.
- `Reopen` is `FileLogAppender::reopen`: one step under the appender's
  latch. The file is reopened in append mode, so `out[a]` is kept.
- `DelAppender` and `ClearAppenders` are one step each. `erase(end())` of an
  appender that is not in the list kills the process.
- `SetLevel` and `ApSetFormatter` are one step each. Levels are stored
  without a lock, as a plain store.

### The pattern parser (`LogFormatter.tla`)

A pattern is a sequence of one-character strings, and positions are 0-based
as in `util.cpp`. `ScanDirective` is the `while` loop of `format_parser` that
reads a directive's name and its `{...}` argument. `ParseFrom` is the outer
`for` loop, carrying the pending literal text `nstr` and the tuples `vec`.
`FormatItems` and `isError` are `LogFormatter::init`. `KnownNames` are the
keys of `s_format_items`. An item is a record of its name and argument, or
of its text for a `StringFormatItem`; what an item prints is left out.

The reference is the grammar in the comment above `LogFormatter::init`,
`%xxx %xxx{xxx} %%`, without its `%%`. A pattern is built from tokens:
literal characters `: m { }` and directives named `m`, `q` or `md`, bare or
with an argument that is empty or one of `% : {`. `Unambiguous` drops the
patterns in which a bare directive is followed by a letter or a brace,
since the name would run on. Every such pattern of up to three tokens
(6,889 patterns) is rendered and parsed. The check compares the result with
the items and the error flag the grammar gives.

Two forms fall outside the check, because the code parses them in another
way. Evaluating `format_parser` on them shows it:

- `"%%"` gives the literal `%` and then an empty directive, so `isError`
  holds and `setFormatter` refuses the pattern. `"%%m"` prints `%` and the
  message.
- `":%d{:"` (an unclosed `{`) gives `<<pattern_error>>` before the literal
  `:`, and does not set `error_`, so the pattern is accepted.

### Assumptions about headers missing from the repository

`iomanager.h`, `fdmanager.h` and `hook.h` are not in the repository. The model
assumes:

- `n_pendingEvent_` is atomic.
- `Event` has NONE=0, READ=1 and WRITE=4, as the epoll masks imply.
- The sockets the workloads use take the suspending path of `do_io`. `FdCtx::init`
  sets `nonblock_` for every socket, so with `getNonblock()` returning that flag
  `do_io` would never suspend. The model is of the case in which it does, for
  example where `getNonblock` reports the user's flag.
- Hooks are enabled on the worker threads. `set_hook_enable(true)` is commented
  out in `Scheduler::run`.

### Planned modules

The next modules, in order:

1. The base `Scheduler::idle`, for a Scheduler without an IOManager.
2. A second `Socket::close` of one Socket racing the first (`socket.cpp:305`),
   which needs a workload in which two fibers share a Socket.
3. The do_io timeout, once `addConditionTimer` returns its timer. As the
   code stands it falls off the end of a non-void function, so every
   do_io with a timeout and every hooked `connect` has undefined behaviour.

## 3. Runs

The IOManager runs use 2 workers, fibers f1, f2 and f3, fd numbers s and t,
and two Socket objects: k on s and the listening l on t.
The main thread schedules f1 and f2. They are runs of `MCIOManager` with `Spec`.
The timer runs are of `MCTimerManager` with `TSpec`, with periods {0, 1, 2},
`MaxTime = 4`, `MaxFires = 2` and both values of `from_now`.

| Run | cfg | Workload | Checks | Result |
|---|---|---|---|---|
| core_sequential | `MCIOManager.cfg` | Sequential, through Socket: f1 accepts k on l, then reads and writes k; f2 spawns f3, closes k and opens a new socket that gets the number s; spurious EINTR from epoll_wait; stop() called | TypeOK, ExclusiveExec | pass (about 1.06M states) |
| duplex_stale_event | `DuplexStale.cfg` | Duplex: f1 reads s twice, f2 writes s | ExclusiveExec | violation |
| stop_race | `StopRace.cfg` | SleepServer, stop() called, `MaxTime = 3` | StopLeavesNothing | violation |
| idle_starvation | `IdleStarvation.cfg` | Starving: f1 sleeps 1 ms, f2 reads s and spawns f3, f3 writes t; a syscall may succeed on its EINTR retry; never stops | WorkEventuallyRuns | violation |
| close_race | `CloseRace.cfg` | CloseReuse: on raw fds, f1 reads then writes s; f2 spawns f3, closes s, reopens it and writes it | NoCtlErrorOnOpenFd | violation |
| close_waiter | `CloseWaiter.cfg` | CloseReuse, as close_race | CloseWakesWithEBADF | violation |
| sleep_server | `SleepServer.cfg` | SleepCancelServer: f1 sleeps 1 ms, then cancels the read on k; f2 reads k then spawns f3; f3 binds and listens on a new Socket l, then cancels everything on k; EINTR; stop() called; `MaxTime = 2` | ExclusiveExec, NoLostWaiter, PendingMatchesArmed | pass (about 572k states) |
| timer_refinement | `TimerSingle.cfg` | one timer, every operation | TypeOK, TimerSpecRefined | pass (about 1.4k states) |
| timer_equal_deadline | `TimerTies.cfg` | two timers | TimerSpecRefined | violation |
| timer_cancel_fired | `TimerCancelFired.cfg` | one timer | NoEraseEnd | violation |
| logger_sinks | `Logger.cfg` | Sinks: t1 formats a0, sets the logger's formatter, adds a fresh a2 and logs; t2 adds a1 with its own formatter, logs, raises a1's level, removes a1 and clears | TypeOK, ConsistentOrder, FormatterInitMatchesGrammar, deadlock | pass (1,024 states) |
| logger_root | `LoggerRoot.cfg` | RootLogger: t1 logs and sets the formatter; t2 adds a1, nulls its formatter, logs, removes it twice | EveryCallReturns | violation |

### What the runs show

- **core_sequential.** A socket is used in one direction at a time, fds are
  closed while fibers wait on them, and the number is reused. In that setting
  the runtime never runs a fiber twice. This holds across every
  interleaving of two workers, of their idle loops, of spurious tickles and of
  epoll EINTR. Neither `n_pendingEvent_` nor the waiters are safe here:
  a do_io on k can arm it between the close hook's cancelAll and close_f,
  and close_f then drops the registration from epoll, so the fiber is never
  woken (close_race). `PendingMatchesArmed` and `NoLostWaiter` are
  therefore checked in sleep_server, which has no close.
  f1 goes through the Socket wrapper. It accepts k on the listening l,
  which takes the number s and gives it an FdCtx. f2's `Socket::close`
  may come before the accept, which makes it a no-op, or while f1 waits
  on k.
- **duplex_stale_event.** Both directions of one socket are armed. A worker
  processes a batch mask after another worker has already triggered one of its
  directions. The stale slot's fiber is then scheduled a second time, and both
  workers `call()` it at once. The same run also takes `n_pendingEvent_` below
  the number of armed directions.
- **close_race.** f2's close has run `cancelAll` (nothing was armed yet)
  when f1's read on the other worker gets EAGAIN and arms s. Then `close_f`
  closes s. The kernel drops s from epoll, so f1 waits for good, and
  `n_pendingEvent_` never returns to 0. The FdContext of the number keeps
  READ. f2's `socket()` gets the number s again, and its write gets EAGAIN.
  Its `addEvent` does MOD, because events is not empty, on an fd that is not
  in epoll. The MOD fails with ENOENT, and the write returns -1 with ENOENT.
  The number is poisoned for good, because cancelAll's DEL fails as well.
  - A second route reaches the same state. f1's read gets EAGAIN, then f2's
    whole close runs, and then f1's ADD fails with EBADF. That failure
    leaves READ set without `++n_pendingEvent_` (`iomanager.cpp:160`).
  - The same model with a read instead of the write would also overwrite
    f1's slot.
- **stop_race.** `stop()` returns while work is left. TLC reaches two
  routes in this one workload (each confirmed by an invariant that looks
  at only one kind of waiter):
  - f2 still waits on s. It armed s after every worker had decided to exit.
  - f1 is still asleep. Once its timer is 1 ms overdue, the unsigned
    `next_ - now` of `getNextTimer` is `~0ull`. `stopping()` takes that for
    "no timers", and every worker exits.
- **idle_starvation.** Work whose wake-up has happened is never run. There
  are three routes, all through the one test `rt <= 0 || errno == EINTR`
  followed by `continue`:
  - f3 stays queued forever, because it was scheduled without a tickle and
    the loop does not yield to `Scheduler::run` (the trace TLC reports);
  - f1's timer is due, but `listExpiredCb` runs only after a return with
    events, so the sleeper never wakes;
  - a write that succeeded on its EINTR retry leaves `errno == EINTR`
    behind. The next successful `epoll_wait` batch is then dropped, and
    the waiting reader's edge is never delivered again. An `epoll_wait`
    interrupted by a signal leaves `errno` at EINTR in the same way.
  The third route was confirmed under the same model by checking that an
  edge on an armed direction is eventually triggered
  (`d \in kready[fd] ~> d \notin fdEvents[fd]`), which the first two
  routes cannot break.

- **close_waiter.** f1 waits to read s and f2's close wakes it through
  `cancelAll`. f1's `do_io` retries the read. spec.md §4.6 and scenario S5
  say the waiter returns -1 with EBADF. TLC finds two routes:
  - The retry runs before f2's `close_f`, because the close hook holds no
    lock in between. The read of the closing socket succeeds (the trace
    TLC reports), or gets EAGAIN and arms s again.
  - f2's `close_f` and `socket()` run first, and the new socket gets the
    number s. f1's retry then reads the new connection. This route was
    confirmed by forbidding `do_io` steps while a close is between
    `cancelAll` and `close_f`.

- **timer_refinement.** With one timer, every sequence of addTimer, cancel,
  refresh, reset and listExpiredCb calls is a behaviour of the abstract heap:
  recurring timers are re-armed at `now + ms_`, and `reset(ms, false)` keeps
  the deadline.
- **timer_equal_deadline.** A second timer with the deadline of the first is
  not inserted, which the heap does not allow. In the runtime, two fibers
  that call `sleep(1)` in the same millisecond collide this way, and the
  second is never woken.
- **timer_cancel_fired.** A one-shot timer that fired keeps `cb_`, so a later
  `cancel` finds `end()` and erases it.
- **logger_sinks.** Two threads log while sinks come and go. Whatever the
  interleaving, every two appenders write the records in the same order,
  and no interleaving deadlocks: the logger's latch is always taken before
  an appender's. The deadlock check shows this, because the only final
  state is the one in which every call has returned. The formatters'
  patterns go through the parser. `FormatterInitMatchesGrammar` shows two
  things. First, the parser agrees with its grammar on every well-formed
  pattern in the bound (`ParserMatchesGrammar`, a constant that TLC
  evaluates once). Second, no formatter that the logger or an appender
  holds has a pattern that `isError` marks.
- **logger_root.** On the logger that `LoggerManager` makes, a call never
  returns, by three routes (each was confirmed with a workload of that route
  alone):
  - `setFormatter` relocks the root appender's mutex, even in one thread;
  - `ApSetFormatter(a1, null)` followed by a log dereferences the null
    formatter (the trace TLC reports);
  - a second `delAppender(a1)` erases `end()`.
- **sleep_server.** With timers composed in, a sleeping fiber is always held
  by the timer set, the list, a worker or a direction armed both in its
  `FdContext` and in epoll's interest list, and the I/O invariants still
  hold. Its timer fires only when `epoll_wait` returns events, here the
  read's edge or a tickle. The woken sleeper then runs `cancelRead` on the
  Socket f2 is reading. `cancelEvent` schedules f2 with no "cancelled" mark,
  so f2's `do_io` retries the read and, on EAGAIN, arms READ again.
  `n_pendingEvent_` and the slots stay consistent through this. But the
  cancel does not cancel anything, although spec.md §4.5 says
  `cancel_event` passes a cancelled signal; no run states that signal as a
  property, so this re-wait is recorded as a hazard only.
- A cancel does not clear `kready`; `EpollReturn` and `EpollNothing` look
  only at `kready[fd] \cap registered[fd]`, the edges the kernel still
  reports after DEL or MOD, and the rest is dropped at the next return. `Schedule` pushes and tickles in one step, while `schedule()` tickles
  after releasing `latch_`; a tickle missed because a worker goes idle in
  between is still reachable, through the split of `PopNone` and
  `IdleCheck`.

`PROJECT.json` "findings" gives the source line of each.

### Bounds, and why they are enough

- **Two workers** is the smallest pool in which two threads race on the list, on
  epoll batches and on stopping.
- **Three fibers** give one fiber spawned by another while the others wait.
- **Two fds** give one fd per connection (Server) or a shared one (Duplex,
  Sequential).
- **Each program has at most three calls (four in CloseReuse).** That is
  enough to wait, be woken, retry and wait again. It also lets a number be
  closed, reopened and used.
- **`MaxTime = 2` and sleeps of 1 ms.** The timer is due at 1, can be
  overdue by one tick at 2, and `Word = 2^16` is far above every deadline.
  `StopRace` needs `MaxTime = 3` for the 1 ms overdue clock after the
  timer was added at 1.
- **Two threads and three appenders (logger_sinks).** That is enough for
  two loops over two sinks to cross, and for one appender each that is
  preformatted, freshly added and the root. Four messages give two
  concurrent records in both sinks.
- **Patterns of up to three tokens (logger_sinks).** That covers a directive
  between two literals, two directives in a row, and a directive at the
  start and at the end. The tokens include both braces as literals, a
  multi-letter name and an unknown name. The arguments include `%` and `{`,
  which are special outside an argument.
- **One timer (timer_refinement).** A second timer reaches the equal-deadline
  collision, which is the violation of timer_equal_deadline. `MaxFires = 2`
  bounds a recurring 0 ms timer, which is due again at once.
- The passing runs are finite, because the programs end. Duplex is used only
  for its violation: with stale triggers a fiber can re-wait without limit, so
  its state space is unbounded.

### Mutants

Each property of a passing run is shown to depend on the code it is about. A
variant of one mapped action, modelling a plausible bug, must make TLC report the
property violated:

| Mutant | What it changes | Property it violates |
|---|---|---|
| `PopFiberIgnoringExec` | pops the head whatever its state | ExclusiveExec |
| `ProcessEventCountFirst` | counts the event before checking that it is armed | PendingMatchesArmed |
| `IdleReturnedNoDecrement` | drops `--n_idle_thread_` | TypeOK (core_sequential) |
| `ExpireTimersBeforeContinue` | runs listExpiredCb above the EINTR `continue`, losing the callbacks of a dropped batch | NoLostWaiter (sleep_server) |
| `ResetSwapped` | stores the new deadline in `ms_` | TypeOK (timer_refinement) |
| `ListExpiredCbCatchUp` | re-arms a recurring timer at `next_ + ms_` | TimerSpecRefined |
| `LogLockNoLatch` | Logger::log walks `appenders_` without taking `latch_` | ConsistentOrder (logger_sinks) |
| `SetFormatterCallNoCheck` | `setFormatter(string)` installs a formatter without testing `isError()` | TypeOK (logger_sinks) |
| `ParseFromSkipping` | resumes after a directive at `n + 1`, not `n` (`i = n` for `i = n - 1`) | FormatterInitMatchesGrammar (logger_sinks) |

PopFiberIgnoringExec and IdleReturnedNoDecrement are run against
core_sequential. ExpireTimersBeforeContinue, PopFiberIgnoringExec and
ProcessEventCountFirst are run against sleep_server, the model with timers.

## 4. Fairness

- **Workers (`WF_vars(Worker(w))`).** Each worker is an OS thread that is always
  runnable while it is not blocked. `epoll_wait` has a timeout, so the idle loop
  always makes progress.
- **Main thread (`WF_vars(MainThread)`).** It is fair for the same reason.
- **Clock (`WF_vars(Tick)`).** Time passes. Without it, a liveness property
  about a sleeper would fail only because the clock stops.
- **Logger threads (`WF_vars(Thread(t))`).** A thread that is not blocked
  on a mutex keeps running. `std::mutex` promises no fairness between
  waiters, but the programs are finite, so a free mutex stays free once the
  other threads are done. Only logger_root's `EveryCallReturns` uses it.
- **Kernel (`DataReady`).** It gets no fairness: readiness depends on the peer.
  `WorkEventuallyRuns` starts from an edge that has already happened, so it
  needs no fairness for the kernel.

## 5. Not modelled, and why

- **Stack switching.** The ucontext switching itself, stack allocation and
  `Fiber::~Fiber`. It is memory management below the level of the properties.
  One defect here is only recorded: the ctor allocates with the parameter
  `stacksize`, not `stacksize_`, so the default is `malloc(0)` (`fiber.cpp:57`).
- **The rest of Socket, util and Singleton.** `CreateUDP`, the option and
  address getters and `dump` change no state another component reads; the
  timeout options lead only to the do_io timeout (below). `connect` goes through `connect_with_timeout`
  (below). `cancelRead` on a closed Socket passes -1 to `cancelEvent`, which
  reads `fdContexts_[-1]`; the workloads cancel only open Sockets. util
  and Singleton are helpers with no shared state.
- **The rest of the Logger.** Not modelled:
  - what each FormatItem prints, which is formatting;
  - `LoggerManager`'s map of several loggers: its lock guards only the map;
  - the `toYamlString` functions, whose bodies are commented out.
- **The do_io timeout and `connect_with_timeout`.** They go through
  `addConditionTimer`, whose missing `return` is undefined behaviour.
  `delEvent` is not called anywhere in the repository.
- **FdCtx's flags.** `isClosed_` is never set. `nonblock_` is set for every
  socket (§2). The per-fd timeouts set through `setsockopt` only feed the
  do_io timeout.
- **`socket()` and `accept()` failing or picking another number.** EMFILE
  and its like are not modelled. The workloads name the number a new socket
  gets. While another fiber holds that number, `accept` is not given a
  success, where the kernel would hand out another number.
- **The clock stepping.** `GetCurrentMS` reads `system_clock`, which can jump.
  The models' clock only advances.
- **The callback fibers.** `schedule(cb)` wraps a timer's callback in a new
  fiber, with `Fiber(cb)`'s `malloc(0)` stack. The model schedules the
  sleeper directly (§2).
