---------------------------- MODULE DispatchQueue ----------------------------
(***************************************************************************)
(* Sessions that compete for worker slots (background/supervisor.py and    *)
(* background/queue.py, with the queue enabled): admission with its        *)
(* idempotency key and its bound, the dispatch loop with its rotation over *)
(* projects, the start of a prepared handoff, the cancellation of a        *)
(* request that waits.                                                     *)
(*                                                                         *)
(* All of them hold the scheduler lock, so one pass is under way at a time *)
(* and its local state is one variable.  Its process may die at any step,  *)
(* which frees the lock.  What changes a session without the lock is a     *)
(* worker that ends, a handoff that prepares its session, and a user or    *)
(* maintenance that gives up what has not been started.                    *)
(*                                                                         *)
(* One attempt of one session is the subject of BackgroundSession; here a  *)
(* worker is there or not.  There is no limit per user (the default), no   *)
(* session is deleted, and a project is its position in the order of their *)
(* names.                                                                  *)
(***************************************************************************)
EXTENDS Integers, FiniteSets

CONSTANTS
  NumProjects,
  MaxSessions,           \* bound on the sessions
  MaxWorkers,            \* max_workers
  MaxWorkersPerProject,  \* max_workers_per_project
  MaxQueueLength,        \* max_queue_length
  Keys, NoKey,           \* idempotency keys, and none
  MaxHandoffs,           \* bound on the handoffs
  MaxFaults              \* bound on the deaths and the failures of I/O

ASSUME QueueAssumption ==
  /\ NumProjects \in Nat \ {0} /\ MaxSessions \in Nat
  /\ MaxWorkers \in Nat \ {0} /\ MaxWorkersPerProject \in Nat \ {0}
  /\ MaxQueueLength \in Nat \ {0}
  /\ MaxHandoffs \in Nat /\ MaxFaults \in Nat
  /\ NoKey \notin Keys

VARIABLES
  session,   \* the sessions, in the order they were created
  pass,      \* the pass that holds the scheduler lock
  cursor,    \* last_project in queue-scheduler-v1.json
  skips,     \* history: how often in a row each project was passed over
  lost,      \* history: the turns that were not remembered
  handoffs, faults

vars == <<session, pass, cursor, skips, lost, handoffs, faults>>

-----------------------------------------------------------------------------
(* Sessions *)

Projects == 1 .. NumProjects
Sessions == 1 .. MaxSessions

(* A pending record waits for a slot, a reserved one is claimed by a pass, a
   live one has a worker, a prepared one is a handoff before its start, and
   the worker of one that is gone has ended or was never started *)
Status == {"none", "pending", "reserved", "live", "prepared", "gone"}

Record == [status : Status, project : Projects, key : Keys \cup {NoKey}]

NoSession == [status |-> "none", project |-> 1, key |-> NoKey]

With(status) == {s \in Sessions : session[s].status = status}

(* is_pending_queue_record *)
Pending == With("pending")

(* A count of workers only *)
OccupiedLive == With("live")

(* occupies_worker_slot *)
Occupied == With("reserved") \cup With("live") \cup With("prepared")

OfProject(set, q) == {s \in set : session[s].project = q}

Become(s, status) == session' = [session EXCEPT ![s].status = status]

(* The next session to be created *)
IsNext(s) ==
  /\ session[s].status = "none"
  /\ \A t \in Sessions : t < s => session[t].status # "none"

-----------------------------------------------------------------------------
(* The policy *)

(* _has_capacity *)
HasCapacity(others, q) ==
  /\ Cardinality(others) < MaxWorkers
  /\ Cardinality(OfProject(others, q)) < MaxWorkersPerProject

(* Projects with a request, and room for one more of its workers *)
Eligible ==
  {q \in Projects : /\ OfProject(Pending, q) # {}
                    /\ Cardinality(OfProject(Occupied, q)) < MaxWorkersPerProject}

(* An order that does not rotate *)
RankByName(q, last) == q

(* The projects in turn, from the one after the last; the last one counts
   while it has requests *)
Rank(q, last) ==
  IF OfProject(Pending, last) # {} /\ q <= last THEN q + NumProjects ELSE q

(* The first eligible project *)
Turn(last) ==
  {q \in Eligible : \A r \in Eligible : Rank(q, last) <= Rank(r, last)}

-----------------------------------------------------------------------------
(* A pass *)

PC == {"free", "recover", "select", "reserve", "cursor", "launch", "admit"}
Op == {"none", "dispatch", "submit", "submitted"}

Free == [pc |-> "free", op |-> "none", target |-> 1, last |-> 0]

Init ==
  /\ session = [s \in Sessions |-> NoSession]
  /\ pass = Free /\ cursor = 0
  /\ skips = [q \in Projects |-> 0] /\ lost = 0
  /\ handoffs = 0 /\ faults = 0

Fault == faults < MaxFaults /\ faults' = faults + 1

At(pc) == pass.pc = pc
Goto(pc) == pass' = [pass EXCEPT !.pc = pc]

(* submit, dispatch_pending and maintenance take the scheduler lock *)
Acquire ==
  /\ At("free")
  /\ \E op \in {"dispatch", "submit"} :
       pass' = [pass EXCEPT !.pc = "recover", !.op = op]
  /\ UNCHANGED <<session, cursor, skips, lost, handoffs, faults>>

(* _start_claimed_reservations: the lease of a reservation whose pass died has
   run out *)
Relaunch ==
  /\ At("recover")
  /\ \E s \in With("reserved") :
       \/ Become(s, "live") /\ UNCHANGED faults
       \/ Become(s, "gone") /\ Fault
  /\ UNCHANGED <<pass, cursor, skips, lost, handoffs>>

(* The other leases run on *)
Recovered ==
  /\ At("recover")
  /\ pass' = [pass EXCEPT !.pc = "select", !.last = cursor]
  /\ UNCHANGED <<session, cursor, skips, lost, handoffs, faults>>

(* _dispatch_pending_locked, one turn of its loop.  Which request of a project
   is the first depends on its age and priority: any may be *)
Select ==
  /\ At("select")
  /\ Cardinality(Occupied) < MaxWorkers
  /\ \E q \in Turn(pass.last) : \E s \in OfProject(Pending, q) :
       /\ pass' = [pass EXCEPT !.pc = "reserve", !.target = s]
       /\ skips' = [r \in Projects |->
            IF r = q \/ r \notin Eligible THEN 0 ELSE skips[r] + 1]
  /\ UNCHANGED <<session, cursor, lost, handoffs, faults>>

(* No slot is free, or nobody may have it: the loop ends *)
Settle ==
  /\ At("select")
  /\ Cardinality(Occupied) >= MaxWorkers \/ Eligible = {}
  /\ pass' = IF pass.op = "submit" THEN [pass EXCEPT !.pc = "admit"] ELSE Free
  /\ UNCHANGED <<session, cursor, skips, lost, handoffs, faults>>

(* The request is written and the record moves to STARTING *)
Reserve ==
  /\ At("reserve")
  /\ \/ /\ Become(pass.target, "reserved") /\ Goto("cursor")
        /\ UNCHANGED <<lost, faults>>
     \/ /\ Become(pass.target, "gone") /\ Goto("select")
        /\ Fault /\ lost' = lost + 1
  /\ UNCHANGED <<cursor, skips, handoffs>>

(* The turn is remembered by this pass also when it cannot be written *)
Cursor ==
  LET project == session[pass.target].project
  IN /\ At("cursor")
     /\ pass' = [pass EXCEPT !.pc = "launch", !.last = project]
     /\ \/ cursor' = project /\ UNCHANGED <<lost, faults>>
        \/ Fault /\ lost' = lost + 1 /\ UNCHANGED cursor
     /\ UNCHANGED <<session, skips, handoffs>>

(* What was cancelled meanwhile is not started; if it was handed off again
   since, the worker may have it *)
Launch ==
  /\ At("launch")
  /\ \/ /\ session[pass.target].status \in {"reserved", "prepared"}
        /\ \/ Become(pass.target, "live") /\ UNCHANGED faults
           \/ Become(pass.target, "gone") /\ Fault
     \/ session[pass.target].status # "reserved" /\ UNCHANGED <<session, faults>>
  /\ Goto("select")
  /\ UNCHANGED <<cursor, skips, lost, handoffs>>

-----------------------------------------------------------------------------
(* Admission *)

(* _existing_idempotent_request *)
Existing(key) == {s \in Sessions : session[s].status # "none" /\ session[s].key = key}

(* A lookup among the sessions that are not over *)
ExistingActive(key) == {s \in Pending \cup Occupied : session[s].key = key}

Accept(status, key, project, s) ==
  /\ IsNext(s)
  /\ session' = [session EXCEPT
       ![s] = [status |-> status, project |-> project, key |-> key]]

(* An admission that finds a repeated request among the active ones only *)
AdmitForgetful ==
  /\ At("admit")
  /\ \E q \in Projects, key \in Keys \cup {NoKey} :
       IF \/ key # NoKey /\ ExistingActive(key) # {}
          \/ Cardinality(Pending) >= MaxQueueLength
       THEN pass' = Free /\ UNCHANGED session
       ELSE /\ \E s \in Sessions : Accept("pending", key, q, s)
            /\ pass' = [pass EXCEPT !.pc = "recover", !.op = "submitted"]
  /\ UNCHANGED <<cursor, skips, lost, handoffs, faults>>

(* An admission that counts one request too many *)
AdmitOneMore ==
  /\ At("admit")
  /\ \E q \in Projects, key \in Keys \cup {NoKey} :
       IF \/ key # NoKey /\ Existing(key) # {}
          \/ Cardinality(Pending) > MaxQueueLength
       THEN pass' = Free /\ UNCHANGED session
       ELSE /\ \E s \in Sessions : Accept("pending", key, q, s)
            /\ pass' = [pass EXCEPT !.pc = "recover", !.op = "submitted"]
  /\ UNCHANGED <<cursor, skips, lost, handoffs, faults>>

(* submit, after its first dispatch: a repeated request gets the session it
   made, or an error when it asks for something else; a full queue refuses;
   else the session is created and the queue dispatched again *)
Admit ==
  /\ At("admit")
  /\ \E q \in Projects, key \in Keys \cup {NoKey} :
       IF \/ key # NoKey /\ Existing(key) # {}
          \/ Cardinality(Pending) >= MaxQueueLength
       THEN pass' = Free /\ UNCHANGED session
       ELSE /\ \E s \in Sessions : Accept("pending", key, q, s)
            /\ pass' = [pass EXCEPT !.pc = "recover", !.op = "submitted"]
  /\ UNCHANGED <<cursor, skips, lost, handoffs, faults>>

(* The request cannot be written, or no more sessions fit the bound *)
AdmitFails ==
  /\ At("admit")
  /\ \/ Fault
     \/ (\A s \in Sessions : session[s].status # "none") /\ UNCHANGED faults
  /\ pass' = Free
  /\ UNCHANGED <<session, cursor, skips, lost, handoffs>>

-----------------------------------------------------------------------------
(* Handoff, start and cancel *)

(* handoff with start=False: an ended session, or a new one for a session of
   the foreground; without the lock and without a look at the limits *)
Handoff ==
  /\ handoffs < MaxHandoffs
  /\ handoffs' = handoffs + 1
  /\ \E s \in Sessions :
       \/ session[s].status = "gone" /\ Become(s, "prepared")
       \/ \E q \in Projects : Accept("prepared", NoKey, q, s)
  /\ UNCHANGED <<pass, cursor, skips, lost, faults>>

(* start: the session itself does not count; it waits when there is no room,
   and has failed when the queue is full as well *)
Start ==
  /\ At("free")
  /\ \E s \in With("prepared") :
       IF HasCapacity(Occupied \ {s}, session[s].project) THEN Become(s, "live")
       ELSE Become(s, IF Cardinality(Pending) >= MaxQueueLength
                      THEN "gone" ELSE "pending")
  /\ UNCHANGED <<pass, cursor, skips, lost, handoffs, faults>>

(* cancel, of a request that waits *)
CancelPending ==
  /\ At("free")
  /\ \E s \in Pending : Become(s, "gone")
  /\ UNCHANGED <<pass, cursor, skips, lost, handoffs, faults>>

-----------------------------------------------------------------------------
(* Without the lock *)

WorkerEnds(s) ==
  /\ session[s].status = "live"
  /\ Become(s, "gone")
  /\ UNCHANGED <<pass, cursor, skips, lost, handoffs, faults>>

(* Maintenance gives up a handoff that was not started; a cancel that found
   the request no longer waiting goes on without the lock *)
Abandon(s) ==
  /\ session[s].status \in {"reserved", "prepared"}
  /\ Become(s, "gone")
  /\ UNCHANGED <<pass, cursor, skips, lost, handoffs, faults>>

(* The process of the pass dies *)
Crash ==
  /\ ~At("free") /\ Fault
  /\ pass' = Free
  /\ lost' = IF pass.pc \in {"reserve", "cursor"} THEN lost + 1 ELSE lost
  /\ UNCHANGED <<session, cursor, skips, handoffs>>

-----------------------------------------------------------------------------

PassStep ==
  \/ Recovered \/ Select \/ Settle \/ Reserve \/ Cursor \/ Launch
  \/ Admit \/ AdmitFails

Next ==
  \/ Acquire \/ Relaunch \/ PassStep
  \/ Handoff \/ Start \/ CancelPending \/ Crash
  \/ \E s \in Sessions : WorkerEnds(s) \/ Abandon(s)

Spec == Init /\ [][Next]_vars
-----------------------------------------------------------------------------
(* Properties *)

(* Types; the request a pass has selected waits until the pass reserves it *)
QueueTypeOK ==
  /\ session \in [Sessions -> Record]
  /\ pass \in [pc : PC, op : Op, target : Nat, last : 0 .. NumProjects]
  /\ cursor \in 0 .. NumProjects
  /\ skips \in [Projects -> Nat] /\ lost \in Nat
  /\ handoffs \in 0 .. MaxHandoffs /\ faults \in 0 .. MaxFaults
  /\ At("free") => pass = Free
  /\ At("reserve") => pass.target \in Pending
  /\ pass.pc \in {"cursor", "launch"} => pass.target \in Sessions \ With("none")

(* The worker limits hold over submissions, dispatches, starts of handoffs
   and reservations taken over from passes that died (_has_capacity) *)
Working == With("reserved") \cup With("live")

SlotsBounded ==
  /\ Cardinality(Working) <= MaxWorkers
  /\ \A q \in Projects : Cardinality(OfProject(Working, q)) <= MaxWorkersPerProject

(* The queue stays within its length, by admission and by handoffs that find
   no slot (submit, start) *)
PendingBounded == Cardinality(Pending) <= MaxQueueLength

(* A repeated submission of a request makes no second session, also after the
   first has ended or its submitter died (_existing_idempotent_request) *)
OneSessionPerKey ==
  \A s, t \in Sessions :
    /\ session[s].status # "none" /\ session[t].status # "none"
    /\ session[s].key = session[t].key /\ session[s].key # NoKey
    => s = t

(* Of two projects, one that could have a slot is passed over once in a row,
   and once more for every turn that failed before the cursor was written
   (fair_queue_order).  Of three it need not be so: see the README *)
FairTurns == \A q \in Projects : skips[q] <= 1 + lost
=============================================================================
