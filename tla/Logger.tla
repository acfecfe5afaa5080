------------------------------- MODULE Logger -------------------------------
(***************************************************************************)
(* One fisher::Logger and its appenders (src/log.h, src/log.cpp), called   *)
(* by several threads.  The logger's latch_ guards appenders_ and          *)
(* formatter_; every appender has its own latch_ guarding its formatter_   *)
(* and hasFormatter_.  level_ of the logger and of the appenders is read   *)
(* and written without a lock.                                             *)
(*                                                                         *)
(* Formatters are model values, each made from a pattern that LogFormatter *)
(* parses; a formatted record is abstracted to the message it carries,    *)
(* appended to the appender's output out[a].  A call is split where the   *)
(* code blocks on a mutex, since another thread can run there; a critical *)
(* section with no blocking step inside it is one step.                   *)
(***************************************************************************)
EXTENDS Naturals, SequencesExt, LogFormatter

CONSTANTS
    Threads,      \* the calling threads
    Appenders,    \* LogAppender objects (Stdout- or FileLogAppender)
    Fmts,         \* LogFormatter objects with a valid pattern
    Null,         \* a null LogFormatterRef
    BadPattern,   \* a pattern string that is not a formatter's
    Pattern,      \* Pattern[f]: the pattern string formatter f is made from
    NoThread,     \* owner of a free mutex
    Program,      \* Program[t]: the calls thread t makes, in order
    Root,         \* the appender the logger is created with
    InitFmt       \* the formatter the Logger constructor makes

(* enum LogLevel::Level: DEBUG = 1, INFO = 2, WARN = 3. *)
Levels == 1..3
INFO == 2

(* The messages of the log calls of the programs. *)
Msgs == UNION {{Program[t][i].msg : i \in {j \in DOMAIN Program[t] :
                                            Program[t][j].op = "log"}} :
               t \in Threads}

VARIABLES
    pc,          \* pc[t]: index in Program[t] of the current call
    step,        \* step[t]: where in the current call thread t is
    idx,         \* idx[t]: position of the range-for over appenders_
    seenNull,    \* seenNull[t]: addAppender saw getFormatter() == nullptr
    lmtx,        \* owner of Logger::latch_
    amtx,        \* amtx[a]: owner of a's LogAppender::latch_
    appenders,   \* Logger::appenders_ (a std::list)
    lfmt,        \* Logger::formatter_
    llevel,      \* Logger::level_
    afmt,        \* afmt[a]: a's formatter_
    hasFmt,      \* hasFmt[a]: a's hasFormatter_
    alevel,      \* alevel[a]: a's level_
    out,         \* out[a]: the messages a has written, in order
    crashed      \* the process hit undefined behaviour and died

vars == <<pc, step, idx, seenNull, lmtx, amtx, appenders, lfmt, llevel,
          afmt, hasFmt, alevel, out, crashed>>

Steps == {"call", "lock", "apps", "getfmt", "addfin", "relock"}

Op(t) == Program[t][pc[t]]

Running(t) == pc[t] \in DOMAIN Program[t] /\ ~crashed

(* The call returns: the next call of the program starts. *)
Return(t) == /\ pc' = [pc EXCEPT ![t] = @ + 1]
             /\ step' = [step EXCEPT ![t] = "call"]

TypeOK ==
    /\ pc \in [Threads -> Nat \ {0}]
    /\ step \in [Threads -> Steps]
    /\ idx \in [Threads -> Nat \ {0}]
    /\ seenNull \in [Threads -> BOOLEAN]
    /\ lmtx \in Threads \cup {NoThread}
    /\ amtx \in [Appenders -> Threads \cup {NoThread}]
    /\ appenders \in Seq(Appenders)
    /\ lfmt \in Fmts \cup {Null}
    /\ llevel \in Levels
    /\ afmt \in [Appenders -> Fmts \cup {Null}]
    /\ hasFmt \in [Appenders -> BOOLEAN]
    /\ alevel \in [Appenders -> Levels]
    /\ out \in [Appenders -> Seq(Msgs)]
    /\ crashed \in BOOLEAN

(* LoggerManager::getLogger makes a Logger (level_ INFO, formatter_ from  *)
(* the default pattern) and adds a new StdoutLogAppender to it: that      *)
(* appender's formatter_ was null, so addAppender stores the logger's     *)
(* formatter_ in it and leaves hasFormatter_ false.  Other appenders are  *)
(* fresh: no formatter, level_ DEBUG.                                     *)
Init ==
    /\ pc = [t \in Threads |-> 1]
    /\ step = [t \in Threads |-> "call"]
    /\ idx = [t \in Threads |-> 1]
    /\ seenNull = [t \in Threads |-> FALSE]
    /\ lmtx = NoThread
    /\ amtx = [a \in Appenders |-> NoThread]
    /\ appenders = <<Root>>
    /\ lfmt = InitFmt
    /\ llevel = INFO
    /\ afmt = [a \in Appenders |-> IF a = Root THEN InitFmt ELSE Null]
    /\ hasFmt = [a \in Appenders |-> FALSE]
    /\ alevel = [a \in Appenders |-> 1]
    /\ out = [a \in Appenders |-> <<>>]
    /\ crashed = FALSE

-----------------------------------------------------------------------------
(* FISHER_LOG_LEVEL(logger, level), which FISHER_LOG_DEBUG ... _FATAL use  *)
(* with their level, tests logger->getLevel() <= level, and               *)
(* ~LogEventWrap calls Logger::log, which tests level >= level_ again      *)
(* before it takes latch_.  Both reads are unlocked; the model reads once. *)
LogCall(t) ==
    /\ Running(t) /\ step[t] = "call" /\ Op(t).op = "log"
    /\ \/ /\ Op(t).lvl >= llevel
          /\ step' = [step EXCEPT ![t] = "lock"]
          /\ UNCHANGED pc
       \/ /\ Op(t).lvl < llevel
          /\ Return(t)
    /\ UNCHANGED <<idx, seenNull, lmtx, amtx, appenders, lfmt, llevel, afmt,
                   hasFmt, alevel, out, crashed>>

(* Mutant: Logger::log walks appenders_ without taking latch_. *)
LogLockNoLatch(t) ==
    /\ Running(t) /\ step[t] = "lock" /\ Op(t).op = "log"
    /\ step' = [step EXCEPT ![t] = "apps"]
    /\ idx' = [idx EXCEPT ![t] = 1]
    /\ UNCHANGED <<pc, seenNull, lmtx, amtx, appenders, lfmt, llevel, afmt,
                   hasFmt, alevel, out, crashed>>

(* Logger::log: std::unique_lock ul(latch_), then the range-for begins. *)
LogLock(t) ==
    /\ Running(t) /\ step[t] = "lock" /\ Op(t).op = "log"
    /\ lmtx = NoThread
    /\ lmtx' = t
    /\ step' = [step EXCEPT ![t] = "apps"]
    /\ idx' = [idx EXCEPT ![t] = 1]
    /\ UNCHANGED <<pc, seenNull, amtx, appenders, lfmt, llevel, afmt, hasFmt,
                   alevel, out, crashed>>

(* formatter_->format(std::cout, event) under the appender's latch_: the *)
(* record reaches a's output, or, for a null formatter_, the call         *)
(* dereferences nullptr and the process dies.                              *)
Format(a, m) ==
    IF afmt[a] = Null
    THEN crashed' = TRUE /\ UNCHANGED out
    ELSE out' = [out EXCEPT ![a] = Append(@, m)] /\ UNCHANGED crashed

(* One iteration: ap->log(self, level, event).  StdoutLogAppender::log    *)
(* tests level >= level_ unlocked, then takes the appender's latch_ and   *)
(* formats.                                                                *)
LogAppend(t) ==
    /\ Running(t) /\ step[t] = "apps" /\ Op(t).op = "log"
    /\ idx[t] <= Len(appenders)
    /\ LET a == appenders[idx[t]] IN
       \/ /\ Op(t).lvl < alevel[a]
          /\ UNCHANGED <<out, crashed>>
       \/ /\ Op(t).lvl >= alevel[a]
          /\ amtx[a] = NoThread
          /\ Format(a, Op(t).msg)
    /\ idx' = [idx EXCEPT ![t] = @ + 1]
    /\ UNCHANGED <<pc, step, seenNull, lmtx, amtx, appenders, lfmt, llevel,
                   afmt, hasFmt, alevel>>

(* Mutant: Logger::log ends with ul.release(), which gives up the lock    *)
(* without unlocking latch_.                                               *)
LogReturnKeepingLatch(t) ==
    /\ Running(t) /\ step[t] = "apps" /\ Op(t).op = "log"
    /\ idx[t] > Len(appenders)
    /\ Return(t)
    /\ UNCHANGED <<idx, seenNull, lmtx, amtx, appenders, lfmt, llevel, afmt,
                   hasFmt, alevel, out, crashed>>

(* The range-for ends and ul releases latch_ as Logger::log returns. *)
LogReturn(t) ==
    /\ Running(t) /\ step[t] = "apps" /\ Op(t).op = "log"
    /\ idx[t] > Len(appenders)
    /\ lmtx' = NoThread
    /\ Return(t)
    /\ UNCHANGED <<idx, seenNull, amtx, appenders, lfmt, llevel, afmt, hasFmt,
                   alevel, out, crashed>>

(* Logger::setLevel and LogAppender::setLevel: an unlocked store. *)
SetLevel(t) ==
    /\ Running(t) /\ step[t] = "call"
    /\ \/ /\ Op(t).op = "setLevel"
          /\ llevel' = Op(t).lvl
          /\ UNCHANGED alevel
       \/ /\ Op(t).op = "apSetLevel"
          /\ alevel' = [alevel EXCEPT ![Op(t).app] = Op(t).lvl]
          /\ UNCHANGED llevel
    /\ Return(t)
    /\ UNCHANGED <<idx, seenNull, lmtx, amtx, appenders, lfmt, afmt, hasFmt,
                   out, crashed>>

(* LogAppender::setFormatter(val) under the appender's latch_:            *)
(* formatter_ = val and hasFormatter_ = (val != nullptr).                  *)
ApSetFormatter(t) ==
    /\ Running(t) /\ step[t] = "call" /\ Op(t).op = "apSetFmt"
    /\ amtx[Op(t).app] = NoThread
    /\ afmt' = [afmt EXCEPT ![Op(t).app] = Op(t).fmt]
    /\ hasFmt' = [hasFmt EXCEPT ![Op(t).app] = Op(t).fmt # Null]
    /\ Return(t)
    /\ UNCHANGED <<idx, seenNull, lmtx, amtx, appenders, lfmt, llevel, alevel,
                   out, crashed>>

(* Mutant: the string overload passes the formatter on without testing  *)
(* isError().                                                              *)
SetFormatterCallNoCheck(t) ==
    /\ Running(t) /\ step[t] = "call" /\ Op(t).op = "setFmt"
    /\ step' = [step EXCEPT ![t] = "lock"]
    /\ UNCHANGED <<pc, idx, seenNull, lmtx, amtx, appenders, lfmt, llevel,
                   afmt, hasFmt, alevel, out, crashed>>

(* Logger::setFormatter(const std::string&): new LogFormatter(val) parses *)
(* the pattern (LogFormatter::init); one it marks isError() is reported   *)
(* on std::cout and the call returns; otherwise the new formatter goes to *)
(* setFormatter(LogFormatterRef), which locks latch_.                     *)
SetFormatterCall(t) ==
    /\ Running(t) /\ step[t] = "call" /\ Op(t).op = "setFmt"
    /\ \/ /\ isError(Pattern[Op(t).fmt])
          /\ Return(t)
       \/ /\ ~isError(Pattern[Op(t).fmt])
          /\ step' = [step EXCEPT ![t] = "lock"]
          /\ UNCHANGED pc
    /\ UNCHANGED <<idx, seenNull, lmtx, amtx, appenders, lfmt, llevel, afmt,
                   hasFmt, alevel, out, crashed>>

(* Logger::setFormatter(LogFormatterRef) takes latch_ and sets formatter_. *)
SetFormatterLock(t) ==
    /\ Running(t) /\ step[t] = "lock" /\ Op(t).op = "setFmt"
    /\ lmtx = NoThread
    /\ lmtx' = t
    /\ lfmt' = Op(t).fmt
    /\ step' = [step EXCEPT ![t] = "apps"]
    /\ idx' = [idx EXCEPT ![t] = 1]
    /\ UNCHANGED <<pc, seenNull, amtx, appenders, llevel, afmt, hasFmt, alevel,
                   out, crashed>>

(* One iteration of its range-for: it takes ap->latch_ and, when          *)
(* hasFormatter_ is false, calls ap->setFormatter(val), whose first line   *)
(* locks the same std::mutex again.  The thread then waits for a mutex it  *)
(* owns itself: step "relock" has no successor.                            *)
SetFormatterApp(t) ==
    /\ Running(t) /\ step[t] = "apps" /\ Op(t).op = "setFmt"
    /\ idx[t] <= Len(appenders)
    /\ LET a == appenders[idx[t]] IN
       /\ amtx[a] = NoThread
       /\ IF hasFmt[a]
          THEN /\ idx' = [idx EXCEPT ![t] = @ + 1]
               /\ UNCHANGED <<step, amtx>>
          ELSE /\ amtx' = [amtx EXCEPT ![a] = t]
               /\ step' = [step EXCEPT ![t] = "relock"]
               /\ UNCHANGED idx
    /\ UNCHANGED <<pc, seenNull, lmtx, appenders, lfmt, llevel, afmt, hasFmt,
                   alevel, out, crashed>>

(* The range-for ends and latch_ is released. *)
SetFormatterReturn(t) ==
    /\ Running(t) /\ step[t] = "apps" /\ Op(t).op = "setFmt"
    /\ idx[t] > Len(appenders)
    /\ lmtx' = NoThread
    /\ Return(t)
    /\ UNCHANGED <<idx, seenNull, amtx, appenders, lfmt, llevel, afmt, hasFmt,
                   alevel, out, crashed>>

(* Logger::addAppender takes latch_ ... *)
AddAppenderLock(t) ==
    /\ Running(t) /\ step[t] = "call" /\ Op(t).op = "add"
    /\ lmtx = NoThread
    /\ lmtx' = t
    /\ step' = [step EXCEPT ![t] = "getfmt"]
    /\ UNCHANGED <<pc, idx, seenNull, amtx, appenders, lfmt, llevel, afmt,
                   hasFmt, alevel, out, crashed>>

(* ... calls appender->getFormatter(), which reads formatter_ under the   *)
(* appender's latch_ and releases it again ...                            *)
AddAppenderGetFormatter(t) ==
    /\ Running(t) /\ step[t] = "getfmt"
    /\ amtx[Op(t).app] = NoThread
    /\ seenNull' = [seenNull EXCEPT ![t] = afmt[Op(t).app] = Null]
    /\ step' = [step EXCEPT ![t] = "addfin"]
    /\ UNCHANGED <<pc, idx, lmtx, amtx, appenders, lfmt, llevel, afmt, hasFmt,
                   alevel, out, crashed>>

(* ... and, if that was null, locks the appender's latch_ once more and   *)
(* stores the logger's formatter_ in formatter_ directly, leaving          *)
(* hasFormatter_ as it is; then push_back and the release of latch_.       *)
AddAppenderFinish(t) ==
    /\ Running(t) /\ step[t] = "addfin"
    /\ LET a == Op(t).app IN
       /\ seenNull[t] => amtx[a] = NoThread
       /\ afmt' = IF seenNull[t] THEN [afmt EXCEPT ![a] = lfmt] ELSE afmt
       /\ appenders' = Append(appenders, a)
    /\ lmtx' = NoThread
    /\ Return(t)
    /\ UNCHANGED <<idx, seenNull, amtx, lfmt, llevel, hasFmt, alevel, out,
                   crashed>>

(* Logger::delAppender under latch_: appenders_.erase(std::find(...)).    *)
(* For an appender not in the list find returns end(), and libstdc++'s    *)
(* erase(end()) unhooks the list's own header node and deletes it, which  *)
(* frees memory that was never allocated: the process aborts.             *)
DelAppender(t) ==
    /\ Running(t) /\ step[t] = "call" /\ Op(t).op = "del"
    /\ lmtx = NoThread
    /\ IF Contains(appenders, Op(t).app)
       THEN /\ appenders' = RemoveFirst(appenders, Op(t).app)
            /\ Return(t)
            /\ UNCHANGED crashed
       ELSE /\ crashed' = TRUE
            /\ UNCHANGED <<appenders, pc, step>>
    /\ UNCHANGED <<idx, seenNull, lmtx, amtx, lfmt, llevel, afmt, hasFmt,
                   alevel, out>>

(* Logger::clearAppenders under latch_. *)
ClearAppenders(t) ==
    /\ Running(t) /\ step[t] = "call" /\ Op(t).op = "clear"
    /\ lmtx = NoThread
    /\ appenders' = <<>>
    /\ Return(t)
    /\ UNCHANGED <<idx, seenNull, lmtx, amtx, lfmt, llevel, afmt, hasFmt,
                   alevel, out, crashed>>

(* FileLogAppender::reopen under the appender's latch_: the file stream is *)
(* closed and opened again in append mode, so what was written stays.      *)
Reopen(t) ==
    /\ Running(t) /\ step[t] = "call" /\ Op(t).op = "reopen"
    /\ amtx[Op(t).app] = NoThread
    /\ Return(t)
    /\ UNCHANGED <<idx, seenNull, lmtx, amtx, appenders, lfmt, llevel, afmt,
                   hasFmt, alevel, out, crashed>>

(* Every thread has returned from its last call: the program ends. *)
Terminated ==
    /\ \A t \in Threads : pc[t] \notin DOMAIN Program[t]
    /\ UNCHANGED vars

Thread(t) ==
    \/ LogCall(t) \/ LogLock(t) \/ LogAppend(t) \/ LogReturn(t)
    \/ SetLevel(t) \/ ApSetFormatter(t)
    \/ SetFormatterCall(t) \/ SetFormatterLock(t) \/ SetFormatterApp(t)
    \/ SetFormatterReturn(t)
    \/ AddAppenderLock(t) \/ AddAppenderGetFormatter(t) \/ AddAppenderFinish(t)
    \/ DelAppender(t) \/ ClearAppenders(t) \/ Reopen(t)

Next == (\E t \in Threads : Thread(t)) \/ Terminated

(* std::mutex gives no fairness between waiters, but every thread that is *)
(* not blocked keeps running: weak fairness per thread.                    *)
Spec == Init /\ [][Next]_vars /\ \A t \in Threads : WF_vars(Thread(t))

-----------------------------------------------------------------------------
(* m1 was written before m2 in the output s. *)
WrittenBefore(s, m1, m2) ==
    \E i, j \in DOMAIN s : i < j /\ s[i] = m1 /\ s[j] = m2

(* Any two appenders that both wrote two messages wrote them in the same  *)
(* order: Logger::log holds the logger's latch_ across its whole loop     *)
(* over appenders_, so one record reaches every sink before the next one  *)
(* starts.  Locking only each appender's latch_ would let two threads'    *)
(* loops cross and the sinks disagree.                                    *)
ConsistentOrder ==
    \A a, b \in Appenders, m1, m2 \in Msgs :
        WrittenBefore(out[a], m1, m2) => ~WrittenBefore(out[b], m2, m1)

(* The pattern parser: LogFormatter::init reads every well-formed pattern *)
(* as the grammar of format_parser's comment says, and a formatter whose   *)
(* pattern it marks isError() is never installed, as                      *)
(* Logger::setFormatter(const std::string&) refuses it.                   *)
FormatterInitMatchesGrammar ==
    /\ ParserMatchesGrammar
    /\ \A f \in ({lfmt} \cup {afmt[a] : a \in Appenders}) \ {Null} :
          ~isError(Pattern[f])

(* Every call of every thread returns.  The logger's latch_ is always     *)
(* taken before an appender's latch_ and each is released on return, so   *)
(* no two threads wait on each other; it fails when a thread waits on a   *)
(* mutex it holds (Logger::setFormatter on an appender without its own   *)
(* formatter) or the process dies (a null formatter_, erase(end())).      *)
EveryCallReturns ==
    \A t \in Threads : <>(pc[t] \notin DOMAIN Program[t])

=============================================================================
