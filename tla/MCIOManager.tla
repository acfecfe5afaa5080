---------------------------- MODULE MCIOManager ----------------------------
(* Workloads for IOManager.  Each is a set of fiber programs over the       *)
(* hooked calls; the main thread schedules f1 and f2.                       *)
EXTENDS IOManager

CONSTANTS f1, f2, f3, s, t, a, k, l

(* uint64_t scaled to 16 bits, as in MCTimerManager.                        *)
MCWord == 2^16

Io(fd, d)  == [op |-> "io", fd |-> fd, ev |-> d]
Spawn(f)   == [op |-> "spawn", fiber |-> f]
Close(fd)  == [op |-> "close", fd |-> fd]
Socket(fd) == [op |-> "socket", fd |-> fd]
Sleep(tm, m) == [op |-> "sleep", timer |-> tm, ms |-> m]
SIo(so, d)     == [op |-> "sio", sock |-> so, ev |-> d]
SClose(so)     == [op |-> "sclose", sock |-> so]
SCancel(so, d) == [op |-> "scancel", sock |-> so, ev |-> d]
SBind(so)      == [op |-> "sbind", sock |-> so]
SListen(so)    == [op |-> "slisten", sock |-> so]
SCancelAll(so) == [op |-> "scancelall", sock |-> so]
SAccept(so, n) == [op |-> "saccept", sock |-> so, new |-> n, ev |-> "READ"]

(* Socket k holds fd s and the listening Socket l holds fd t.               *)
MCSockFd == k :> s @@ l :> t

(* A request/response handler through the Socket wrapper: f1 accepts k on *)
(* the listening l, then reads and writes it; f2 spawns f3 and closes k,   *)
(* possibly while f1 waits on it (scenario S5), then opens a new socket,   *)
(* which gets the number s again.                                           *)
Sequential ==
    f1 :> << SAccept(l, k), SIo(k, "READ"), SIo(k, "WRITE") >>
    @@ f2 :> << Spawn(f3), SClose(k), Socket(s) >>
    @@ f3 :> << >>

(* As Sequential, and f2 then writes its new socket s.                      *)
CloseReuse ==
    f1 :> << Io(s, "READ"), Io(s, "WRITE") >>
    @@ f2 :> << Spawn(f3), Close(s), Socket(s), Io(s, "WRITE") >>
    @@ f3 :> << >>

(* A full-duplex socket: f1 reads s twice while f2 writes it, so both       *)
(* directions of s can be armed at once.                                    *)
Duplex ==
    f1 :> << Io(s, "READ"), Io(s, "READ") >>
    @@ f2 :> << Io(s, "WRITE") >>
    @@ f3 :> << >>

(* A server with one connection per fiber: f1 waits to read s while f2      *)
(* writes t and then spawns f3.                                             *)
Server ==
    f1 :> << Io(s, "READ") >>
    @@ f2 :> << Io(t, "WRITE"), Spawn(f3) >>
    @@ f3 :> << >>

(* A fiber sleeps while another serves a connection: the sleeper's timer   *)
(* can expire when the connection's event wakes an idle thread.            *)
SleepServer ==
    f1 :> << Sleep(a, 1) >>
    @@ f2 :> << Io(s, "READ"), Spawn(f3) >>
    @@ f3 :> << >>

(* As SleepServer, with a sleeper that then cancels the read another      *)
(* fiber is waiting on (Socket::cancelRead), and f3 opening a listening   *)
(* socket l (CreateTCPSocket, bind, listen) before it cancels everything  *)
(* armed on k (Socket::cancelAll).                                          *)
SleepCancelServer ==
    f1 :> << Sleep(a, 1), SCancel(k, "READ") >>
    @@ f2 :> << SIo(k, "READ"), Spawn(f3) >>
    @@ f3 :> << SBind(l), SListen(l), SCancelAll(k) >>

(* As SleepServer, with f3 writing t: a write that succeeds on its EINTR  *)
(* retry leaves errno = EINTR on the thread that later runs the idle loop. *)
Starving ==
    f1 :> << Sleep(a, 1) >>
    @@ f2 :> << Io(s, "READ"), Spawn(f3) >>
    @@ f3 :> << Io(t, "WRITE") >>

MCInitial == <<f1, f2>>

=============================================================================
