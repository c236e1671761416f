----------------------------- MODULE MCWatchdog -----------------------------
(* Instances of Watchdog for TLC: two heartbeats with different thresholds, *)
(* as those of the control loop and of the scheduler.                      *)
EXTENDS Watchdog

TwoLoops == <<1, 2>>
=============================================================================
