---------------------------- MODULE MCTimedCalls ----------------------------
(* Instances of TimedCalls: a slice of 3 ms, a second of 8 and an int that *)
(* overflows past 15, so that every timeout falls before, on, between and  *)
(* past the slices, and absolute ones wrap around.                         *)
EXTENDS TimedCalls

MCRelTimes == -2 .. 11
MCAbsTimes == -3 .. 3
MCShortAbsTimes == -1 .. 1
=============================================================================
