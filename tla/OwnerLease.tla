------------------------------ MODULE OwnerLease ------------------------------
(***************************************************************************)
(* What the owner record of a session promises, without its file protocol: *)
(* a lease is taken only while the session has no owner on record, holding *)
(* a lease ends before the record does, and so whoever is attached is the  *)
(* one owner on record.  BackgroundSession!AcquireOwner relies on exactly  *)
(* this: a dead owner is dropped and the next one takes its place.         *)
(***************************************************************************)
EXTENDS Naturals

CONSTANT Leases     \* the leases that can ever be issued, positive numbers

VARIABLES
  owner,      \* the lease on record, 0 for none
  attached    \* leases whose holder lives and relies on them

vars == <<owner, attached>>

Init == owner = 0 /\ attached = {}

Take(l) ==
  /\ owner = 0
  /\ owner' = l /\ attached' = attached \cup {l}

(* The holder gives the lease up, or dies *)
Detach(l) ==
  /\ attached' = attached \ {l}
  /\ UNCHANGED owner

(* The record of an owner that is no longer attached is removed *)
Drop ==
  /\ owner \notin attached
  /\ owner' = 0
  /\ UNCHANGED attached

Next == Drop \/ \E l \in Leases : Take(l) \/ Detach(l)

Spec == Init /\ [][Next]_vars
=============================================================================
