------------------------------ MODULE TimerSpec ------------------------------
(* What a timer heap promises its users: a set of armed timers, each with   *)
(* a deadline, a period and a recurring flag.  Adding arms a fresh timer;   *)
(* cancel disarms it; refresh re-stamps it from now; reset changes its     *)
(* period and, from now, its deadline; expiry delivers the callback of      *)
(* every armed timer whose deadline has passed, all at once, re-arming the  *)
(* recurring ones at now + period.  Timers with equal deadlines coexist.    *)
EXTENDS Naturals, TLC

CONSTANTS
    Timers,     \* timer objects a client may create
    MsSet,      \* periods a client may ask for
    MaxTime     \* the clock stops here, bounding the model

VARIABLES
    clock,      \* current time in ms
    used,       \* timers created so far
    armed,      \* armed timer -> [at, ms, rec]
    fires       \* timer -> number of times its callback was delivered

avars == <<clock, used, armed, fires>>

Arm(at, m, r) == [at |-> at, ms |-> m, rec |-> r]

Init ==
    /\ clock = 0
    /\ used = {}
    /\ armed = [t \in {} |-> Arm(0, 0, FALSE)]
    /\ fires = [t \in Timers |-> 0]

Add(t, m, r) ==
    /\ t \notin used
    /\ used' = used \cup {t}
    /\ armed' = (t :> Arm(clock + m, m, r)) @@ armed
    /\ UNCHANGED <<clock, fires>>

Cancel(t) ==
    /\ t \in DOMAIN armed
    /\ armed' = [u \in DOMAIN armed \ {t} |-> armed[u]]
    /\ UNCHANGED <<clock, used, fires>>

Refresh(t) ==
    /\ t \in DOMAIN armed
    /\ armed' = [armed EXCEPT ![t].at = clock + armed[t].ms]
    /\ UNCHANGED <<clock, used, fires>>

Reset(t, m, fromNow) ==
    /\ t \in DOMAIN armed
    /\ armed' = [armed EXCEPT ![t] = Arm(IF fromNow THEN clock + m ELSE @.at,
                                         m, @.rec)]
    /\ UNCHANGED <<clock, used, fires>>

Due == {t \in DOMAIN armed : armed[t].at <= clock}

Expire ==
    /\ Due # {}
    /\ fires' = [t \in Timers |-> IF t \in Due THEN fires[t] + 1 ELSE fires[t]]
    /\ armed' = [t \in (DOMAIN armed \ Due) \cup {u \in Due : armed[u].rec} |->
                    IF t \in Due THEN [armed[t] EXCEPT !.at = clock + armed[t].ms]
                                 ELSE armed[t]]
    /\ UNCHANGED <<clock, used>>

Tick ==
    /\ clock < MaxTime
    /\ clock' = clock + 1
    /\ UNCHANGED <<used, armed, fires>>

Next ==
    \/ \E t \in Timers, m \in MsSet, r \in BOOLEAN : Add(t, m, r)
    \/ \E t \in Timers : Cancel(t) \/ Refresh(t)
    \/ \E t \in Timers, m \in MsSet, f \in BOOLEAN : Reset(t, m, f)
    \/ Expire
    \/ Tick

Spec == Init /\ [][Next]_avars

=============================================================================
