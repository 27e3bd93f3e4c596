---------------------------- MODULE MCSessionLease ----------------------------
(* Instances of SessionLease for TLC.  Process IDs are interchangeable; the
   runs with a liveness property use no symmetry. *)
EXTENDS SessionLease, TLC

LeaseSymmetry == Permutations(Processes)
=============================================================================
