----------------------------- MODULE PlanRunMC -----------------------------
(* Instances of PlanRun for TLC: three trips, two of which have a day      *)
(* past the forecast horizon, and that of one is not confirmed.            *)
EXTENDS PlanRun, TLC

CONSTANTS near, far, farther, day, late

MCBeyond == [t \in Trips |-> CASE t = far -> {day} [] t = farther -> {late} [] OTHER -> {}]
=============================================================================
