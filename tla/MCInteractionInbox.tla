-------------------------- MODULE MCInteractionInbox --------------------------
(* Instances of InteractionInbox for TLC *)
EXTENDS InteractionInbox, TLC

InboxSymmetry ==
  Permutations(Workers) \cup Permutations(Clients) \cup Permutations(Answers)
=============================================================================
