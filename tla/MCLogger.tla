------------------------------ MODULE MCLogger ------------------------------
(* Workloads for Logger: one program of Logger and LogAppender calls per  *)
(* thread, on the logger LoggerManager::getLogger made (appender a0).     *)
EXTENDS Logger

CONSTANTS t1, t2, a0, a1, a2, F0, F1, F2, m1, m2, m3, m4

Log(m, l)         == [op |-> "log", msg |-> m, lvl |-> l]
SetLevelTo(l)     == [op |-> "setLevel", lvl |-> l]
ApSetLevelTo(a, l) == [op |-> "apSetLevel", app |-> a, lvl |-> l]
ApSetFmt(a, f)    == [op |-> "apSetFmt", app |-> a, fmt |-> f]
SetFmt(f)         == [op |-> "setFmt", fmt |-> f]
Add(a)            == [op |-> "add", app |-> a]
Del(a)            == [op |-> "del", app |-> a]
Clear             == [op |-> "clear"]
ReopenFile(a)     == [op |-> "reopen", app |-> a]

(* The patterns of the formatters, shortened from the default one of the  *)
(* Logger constructor; BadPattern names an item that does not exist.      *)
MCPattern ==
    F0 :> <<"%","d","{","%","Y","}","%","T","%","m","%","n">>
    @@ F1 :> <<"%","m","%","n">>
    @@ F2 :> <<"[","%","p","]","%","m">>
    @@ BadPattern :> <<"%","x","%","m">>

(* Two threads log through two or three sinks while the sinks change.    *)
(* t1 gives a0 its own formatter, replaces the logger's formatter, adds a  *)
(* fresh FileLogAppender a2 (which takes the logger's formatter), reopens *)
(* its file and logs; a bad pattern is refused.  t2 adds a1 with its own formatter, logs, raises a1's level *)
(* so that it drops the next record, and removes a1 and then every sink.  *)
Sinks ==
    t1 :> << ApSetFmt(a0, F1), SetFmt(F2), Add(a2), ReopenFile(a2),
             Log(m1, 2), SetFmt(BadPattern), Log(m3, 1) >>
    @@ t2 :> << ApSetFmt(a1, F1), Add(a1), Log(m2, 2), ApSetLevelTo(a1, 3),
                Log(m4, 2), Del(a1), SetLevelTo(1), Clear >>

(* The root logger as LoggerManager makes it: t1 logs and then sets the   *)
(* logger's formatter, as a program configuring its log format does; t2    *)
(* adds a1, resets its formatter to null, logs, and removes a1 twice.      *)
RootLogger ==
    t1 :> << Log(m1, 2), SetFmt(F2), Log(m3, 2) >>
    @@ t2 :> << Add(a1), ApSetFmt(a1, Null), Log(m2, 2), Del(a1), Del(a1) >>

=============================================================================
