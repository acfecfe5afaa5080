--------------------------- MODULE MCTimerManager ---------------------------
(* Instances of TimerManager for TLC.                                       *)
EXTENDS TimerManager

(* uint64_t scaled to 16 bits: every time in the model is below MaxTime +   *)
(* Max(MsSet), far from the top, so only the subtraction in getNextTimer    *)
(* can wrap, as it does at 64 bits.                                         *)
MCWord == 2^16
=============================================================================
