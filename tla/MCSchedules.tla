---------------------------- MODULE MCSchedules ----------------------------
(* Schedules with the services interchangeable *)
EXTENDS Schedules, TLC

ServiceSymmetry == Permutations(Services)
=============================================================================
