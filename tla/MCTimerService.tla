---------------------------- MODULE MCTimerService ----------------------------
(* TimerService for TLC: intervals of 2 ms, and a clock of a few of them.   *)
EXTENDS TimerService
================================================================================
