------------------------- MODULE MCBackgroundSession -------------------------
(* Instances of BackgroundSession for TLC.  Worker and supervisor processes
   are interchangeable in the safety runs; the liveness run uses no symmetry. *)
EXTENDS BackgroundSession, TLC

Symmetry == Permutations(Workers) \cup Permutations(Clients)
=============================================================================
