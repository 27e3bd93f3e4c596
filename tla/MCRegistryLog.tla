---------------------------- MODULE MCRegistryLog ----------------------------
(* RegistryLog with the processes interchangeable *)
EXTENDS RegistryLog, TLC

RegistrySymmetry == Permutations(Processes)
=============================================================================
