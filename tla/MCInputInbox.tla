---------------------------- MODULE MCInputInbox ----------------------------
(* InputInbox with processes, and messages of a kind, interchangeable *)
EXTENDS InputInbox, TLC

InputSymmetry ==
  {f \in Permutations(Messages) : \A m \in Controls : f[m] = m}
    \cup Permutations(Workers) \cup Permutations(Clients)
=============================================================================
