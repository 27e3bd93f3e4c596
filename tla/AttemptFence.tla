----------------------------- MODULE AttemptFence -----------------------------
(***************************************************************************)
(* What a background session promises about its attempts, whatever the     *)
(* supervisors do meanwhile: an attempt number is granted to one worker    *)
(* once, granting it takes the session away from every earlier worker, and *)
(* a worker starts executing only while it holds the newest attempt and no *)
(* other worker executes.                                                  *)
(***************************************************************************)
EXTENDS Naturals

CONSTANTS Workers, NoOne

VARIABLES
  attempt,    \* the newest attempt, 0 before the first
  holder,     \* the worker the session belongs to
  granted,    \* the attempt each worker was granted, 0 for none
  executing   \* the workers that execute the session's work

vars == <<attempt, holder, granted, executing>>

Init ==
  /\ attempt = 0 /\ holder = NoOne
  /\ granted = [w \in Workers |-> 0]
  /\ executing = {}

Grant(w) ==
  /\ granted[w] = 0
  /\ attempt' = attempt + 1 /\ holder' = w
  /\ granted' = [granted EXCEPT ![w] = attempt']
  /\ UNCHANGED executing

(* The outcome is recorded, or the session is cancelled *)
Revoke ==
  /\ holder' = NoOne
  /\ UNCHANGED <<attempt, granted, executing>>

Begin(w) ==
  /\ executing = {} /\ holder = w /\ granted[w] = attempt
  /\ executing' = {w}
  /\ UNCHANGED <<attempt, holder, granted>>

End(w) ==
  /\ executing' = executing \ {w}
  /\ UNCHANGED <<attempt, holder, granted>>

Next == Revoke \/ \E w \in Workers : Grant(w) \/ Begin(w) \/ End(w)

Spec == Init /\ [][Next]_vars
=============================================================================
