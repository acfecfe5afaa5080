---------------------------- MODULE TimerManager ----------------------------
(* fisher::TimerManager and fisher::Timer (src/timer.cpp).  timers_ is a    *)
(* std::set whose Comparator orders by next_ alone, so two timers with the  *)
(* same deadline are one key: insert keeps the first, find returns it.      *)
(* Every operation runs under mutex_, so each is one atomic step; the       *)
(* clients interleave them in any order.                                    *)
EXTENDS Naturals, SequencesExt

CONSTANTS
    Timers,     \* Timer objects (each made by one addTimer)
    MsSet,      \* periods passed to addTimer and reset
    ResetModes, \* values of reset's from_now the clients pass
    MaxTime,    \* GetCurrentMS() stops here, bounding the model
    MaxFires,   \* bound on the callbacks of one timer (a recurring 0 ms
                \* timer is due again at once)
    Word,       \* 2^64, the range of uint64_t, scaled down (see README)
    NoTimer     \* timers_.end()

ASSUME MsSet \subseteq Nat /\ ResetModes \subseteq BOOLEAN
ASSUME MaxTime \in Nat /\ MaxFires \in Nat /\ Word \in Nat /\ MaxTime + Max(MsSet) < Word
ASSUME NoTimer \notin Timers

VARIABLES
    now,        \* GetCurrentMS()
    created,    \* the Timer object exists (a client holds its TimerRef)
    timers,     \* the elements of timers_
    next,       \* Timer::next_
    ms,         \* Timer::ms_
    recurring,  \* Timer::recurring_
    cb,         \* cb_ is set (not nullptr)
    tickled,    \* TimerManager::tickled_
    fired,      \* history: callbacks handed out by listExpiredCb, per timer
    ub          \* timers_.erase(timers_.end()) was executed

tvars == <<now, created, timers, next, ms, recurring, cb, tickled, fired, ub>>

TypeOK ==
    /\ now \in 0..MaxTime
    /\ created \in [Timers -> BOOLEAN]
    /\ timers \subseteq {t \in Timers : created[t]}
    /\ next \in [Timers -> Nat]
    /\ ms \in [Timers -> MsSet \cup {0}]
    /\ recurring \in [Timers -> BOOLEAN]
    /\ cb \in [Timers -> BOOLEAN]
    /\ tickled \in BOOLEAN
    /\ fired \in [Timers -> 0..MaxFires]
    /\ ub \in BOOLEAN

-----------------------------------------------------------------------------
(* timers_.find(t): the element equivalent to t under the Comparator, i.e.  *)
(* the one with the same next_, which need not be t.                        *)
Find(t) ==
    IF \E u \in timers : next[u] = next[t]
    THEN CHOOSE u \in timers : next[u] = next[t]
    ELSE NoTimer

(* timers_.insert of t with deadline n into S: a no-op when an element of   *)
(* S already has deadline n.                                                *)
SetInsert(S, t, n) ==
    IF \E u \in S : next[u] = n THEN S ELSE S \cup {t}

(* TimerManager::addTimer(TimerRef), called with mutex_ held: insert, and   *)
(* if the returned iterator is begin() and !tickled_, set tickled_ and call *)
(* onTimerInsertedAtFront().  S is the set before the insert.               *)
InsertTimer(S, t, n) ==
    /\ timers' = SetInsert(S, t, n)
    /\ tickled' = (tickled \/ \A u \in S : n <= next[u])

(* Timer(ms, cb, recurring, manager): recurring_, ms_ and cb_ from the     *)
(* arguments, next_ = GetCurrentMS() + ms_.                                *)
NewTimer(t, m, r) ==
    /\ created' = [created EXCEPT ![t] = TRUE]
    /\ next' = [next EXCEPT ![t] = now + m]
    /\ ms' = [ms EXCEPT ![t] = m]
    /\ recurring' = [recurring EXCEPT ![t] = r]
    /\ cb' = [cb EXCEPT ![t] = TRUE]

(* TimerManager::addTimer(ms, cb, recurring): new Timer with next_ =        *)
(* now + ms, then addTimer(TimerRef) under mutex_.                          *)
AddTimer(t, m, r) ==
    /\ ~created[t]
    /\ NewTimer(t, m, r)
    /\ InsertTimer(timers, t, now + m)
    /\ UNCHANGED <<now, fired, ub>>

(* Timer::cancel: if cb_ is set, clear it and erase find(this); when find   *)
(* returns end() the erase is undefined, recorded in ub.                    *)
Cancel(t) ==
    /\ created[t] /\ cb[t]
    /\ cb' = [cb EXCEPT ![t] = FALSE]
    /\ LET it == Find(t)
       IN  IF it = NoTimer
           THEN ub' = TRUE /\ UNCHANGED timers
           ELSE timers' = timers \ {it} /\ UNCHANGED ub
    /\ UNCHANGED <<now, created, next, ms, recurring, tickled, fired>>

(* Timer::refresh: false unless cb_ is set and find(this) is found; then    *)
(* erase it, next_ = now + ms_, and timers_.insert (no front check).        *)
Refresh(t) ==
    /\ created[t] /\ cb[t]
    /\ Find(t) # NoTimer
    /\ next' = [next EXCEPT ![t] = now + ms[t]]
    /\ timers' = SetInsert(timers \ {Find(t)}, t, now + ms[t])
    /\ UNCHANGED <<now, created, ms, recurring, cb, tickled, fired, ub>>

(* Variant of Reset that stores the new deadline in ms_ instead of the     *)
(* period (the two uint64_t fields swapped).                                *)
ResetSwapped(t, m, fromNow) ==
    /\ ~(m = ms[t] /\ ~fromNow)
    /\ created[t] /\ cb[t]
    /\ Find(t) # NoTimer
    /\ LET n == IF fromNow THEN now + m ELSE next[t]
       IN  /\ ms' = [ms EXCEPT ![t] = n]
           /\ next' = [next EXCEPT ![t] = n]
           /\ InsertTimer(timers \ {Find(t)}, t, n)
    /\ UNCHANGED <<now, created, recurring, cb, fired, ub>>

(* Timer::reset(ms, from_now): false when ms == ms_ && !from_now, when cb_  *)
(* is unset or when find(this) is end(); else erase it, set ms_, re-stamp   *)
(* next_ only if from_now, and addTimer(TimerRef).                          *)
Reset(t, m, fromNow) ==
    /\ ~(m = ms[t] /\ ~fromNow)
    /\ created[t] /\ cb[t]
    /\ Find(t) # NoTimer
    /\ LET n == IF fromNow THEN now + m ELSE next[t]
       IN  /\ ms' = [ms EXCEPT ![t] = m]
           /\ next' = [next EXCEPT ![t] = n]
           /\ InsertTimer(timers \ {Find(t)}, t, n)
    /\ UNCHANGED <<now, created, recurring, cb, fired, ub>>

(* The timers listExpiredCb takes out, and the order it takes them in     *)
(* (set order: by next_).                                                   *)
Expired == {u \in timers : next[u] <= now}
ExpiredOrder == SetToSortSeq(Expired, LAMBDA a, b : next[a] < next[b])

(* Variant of ListExpiredCb that re-arms a recurring timer at its old     *)
(* deadline + ms_ (catching up) instead of now + ms_.                       *)
ListExpiredCbCatchUp ==
    LET expired == Expired
        order   == ExpiredOrder
        newNext == [u \in Timers |->
                      IF u \in expired /\ recurring[u] THEN next[u] + ms[u]
                                                       ELSE next[u]]
        reinsert(S, u) ==
            IF recurring[u] /\ ~\E v \in S : newNext[v] = newNext[u]
            THEN S \cup {u} ELSE S
    IN  /\ expired # {}
        /\ \A u \in expired : fired[u] < MaxFires
        /\ next' = newNext
        /\ timers' = FoldLeft(reinsert, timers \ expired, order)
        /\ fired' = [u \in Timers |-> IF u \in expired THEN fired[u] + 1
                                                       ELSE fired[u]]
        /\ UNCHANGED <<now, created, ms, recurring, cb, tickled, ub>>

(* TimerManager::listExpiredCb: take every timer with next_ <= now out of   *)
(* the set in set order, hand out its cb_ (which stays set), and re-insert  *)
(* the recurring ones one by one with next_ = now + ms_.                    *)
ListExpiredCb ==
    LET expired == Expired
        order   == ExpiredOrder
        newNext == [u \in Timers |->
                      IF u \in expired /\ recurring[u] THEN now + ms[u]
                                                       ELSE next[u]]
        reinsert(S, u) ==
            IF recurring[u] /\ ~\E v \in S : newNext[v] = newNext[u]
            THEN S \cup {u} ELSE S
    IN  /\ expired # {}
        /\ \A u \in expired : fired[u] < MaxFires
        /\ next' = newNext
        /\ timers' = FoldLeft(reinsert, timers \ expired, order)
        /\ fired' = [u \in Timers |-> IF u \in expired THEN fired[u] + 1
                                                       ELSE fired[u]]
        /\ UNCHANGED <<now, created, ms, recurring, cb, tickled, ub>>

(* TimerManager::getNextTimer: ~0ull when empty, else next_ - now_ms in     *)
(* uint64_t (std::max with 0ul cannot raise an unsigned value).             *)
GetNextTimer ==
    IF timers = {} THEN Word - 1
    ELSE LET first == CHOOSE u \in timers : \A v \in timers : next[u] <= next[v]
         IN  (next[first] - now) % Word

(* The idle loop's call of getNextTimer, which also clears tickled_.        *)
ReadNextTimer ==
    /\ tickled
    /\ tickled' = FALSE
    /\ UNCHANGED <<now, created, timers, next, ms, recurring, cb, fired, ub>>

(* The clock advancing.                                                     *)
Tick ==
    /\ now < MaxTime
    /\ now' = now + 1
    /\ UNCHANGED <<created, timers, next, ms, recurring, cb, tickled, fired, ub>>

TInit ==
    /\ now = 0
    /\ created = [t \in Timers |-> FALSE]
    /\ timers = {}
    /\ next = [t \in Timers |-> 0]
    /\ ms = [t \in Timers |-> 0]
    /\ recurring = [t \in Timers |-> FALSE]
    /\ cb = [t \in Timers |-> FALSE]
    /\ tickled = FALSE
    /\ fired = [t \in Timers |-> 0]
    /\ ub = FALSE

TNext ==
    \/ \E t \in Timers, m \in MsSet, r \in BOOLEAN : AddTimer(t, m, r)
    \/ \E t \in Timers : Cancel(t) \/ Refresh(t)
    \/ \E t \in Timers, m \in MsSet, f \in ResetModes : Reset(t, m, f)
    \/ ListExpiredCb
    \/ ReadNextTimer
    \/ Tick

TSpec == TInit /\ [][TNext]_tvars

-----------------------------------------------------------------------------
(* The timer set seen as the heap of TimerSpec: the timers in timers_ are   *)
(* the armed ones, with their next_, ms_ and recurring_.                    *)
Abstract == INSTANCE TimerSpec
    WITH clock <- now,
         used  <- {t \in Timers : created[t]},
         armed <- [t \in timers |-> [at |-> next[t], ms |-> ms[t],
                                     rec |-> recurring[t]]],
         fires <- fired

(* Every sequence of addTimer, cancel, refresh, reset and listExpiredCb     *)
(* calls does to the set of armed timers what the timer heap promises: no  *)
(* added timer is dropped, cancel removes only its own timer, and expiry    *)
(* hands out exactly the due callbacks.                                     *)
TimerSpecRefined == Abstract!Spec

(* Timer::cancel never erases timers_.end(): a timer is either still in    *)
(* the set or its cb_ has been cleared.                                     *)
NoEraseEnd == ~ub

=============================================================================
