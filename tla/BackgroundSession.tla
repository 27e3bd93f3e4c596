-------------------------- MODULE BackgroundSession --------------------------
(***************************************************************************)
(* One background session and every process that touches it: the durable   *)
(* record of background/store.py, the worker processes of worker.py, and   *)
(* the supervisors of supervisor.py (a CLI command, the agents hub, a      *)
(* finishing worker's dispatch) that launch, stop, hand over and reconcile *)
(* them.                                                                   *)
(*                                                                         *)
(* The registry commits each update under a file lock, but an operation    *)
(* reads the record first and without the lock, so the unit of interleaving*)
(* is a read or a committed update.  store.transition reads, decides       *)
(* legality from what it read, and commits under whatever expectations its *)
(* caller passed: an update that passed none overwrites the record of any  *)
(* status.                                                                 *)
(*                                                                         *)
(* Left out, because no step below reads them: titles, labels, usage,      *)
(* priorities, heartbeat_stale, delete operation identifiers, and the      *)
(* 16-entry bound of attempt_history (no instance makes 16 attempts).      *)
(* Time is left out: a deadline may pass at any moment.  Worker PIDs are   *)
(* never reused, so the MISMATCHED process state is the DEAD one.          *)
(***************************************************************************)
EXTENDS SessionStatus, Naturals, FiniteSets

CONSTANTS
  Workers,        \* worker processes that can be launched, each at most once
  Clients,        \* supervisor processes
  Operations,     \* the operations the supervisors are asked for
  QueueEnabled,   \* background.queue_enabled
  Detached,       \* request.detached_goal
  ClientCrashes,  \* whether a supervisor may die in the middle of a call
  WorkerCrashes,  \* whether a worker may die without being signalled
  MaxCalls        \* bound on the calls the supervisors start

ASSUME ConfigAssumption ==
  /\ NoOne \notin Workers \cup Clients
  /\ Workers \cap Clients = {}
  /\ Operations \subseteq {"cancel", "attach", "delete", "restore", "archive",
                           "unarchive", "handoff", "input", "dispatch",
                           "recover"}
  /\ QueueEnabled \in BOOLEAN /\ Detached \in BOOLEAN
  /\ ClientCrashes \in BOOLEAN /\ WorkerCrashes \in BOOLEAN
  /\ MaxCalls \in Nat

VARIABLES
  rec,        \* the registry record of the session
  fresh,      \* supervisors whose last read still has the record's last_active
  request,    \* dispatch token in the request file, 0 for none
  lastToken,  \* dispatch tokens generated so far
  schedLock,  \* holder of queue-scheduler.lock
  owner,      \* process named in the session's owner lease
  signalled,  \* workers a SIGTERM was sent to
  worker,     \* local state of each worker process
  attemptOf,  \* the attempt each worker claimed, 0 before
  client,     \* local state of each supervisor
  calls       \* calls started so far

vars == <<rec, fresh, request, lastToken, schedLock, owner, signalled, worker,
          attemptOf, client, calls>>

-----------------------------------------------------------------------------
(* The registry record *)

Record ==
  [status : Status, dispatch : DispatchState, attempt : Nat,
   lease : Workers \cup {NoOne}, pid : Workers \cup {NoOne},
   token : Nat,          \* dispatch_token, 0 for ""
   mode : Nat,           \* attempt the runtime mode is APPLIED for, 0 if not
   history : SUBSET (Nat \X Status)]

Blank == [status |-> "QUEUED", dispatch |-> "LEGACY", attempt |-> 0,
          lease |-> NoOne, pid |-> NoOne, token |-> 0, mode |-> 0,
          history |-> {}]

(* Variant: an attempt enters the history every time it ends *)
HistoryAfterAgain(seen, target) ==
  IF seen.attempt > 0 /\ target \in EndsAttempt
  THEN seen.history \cup {<<seen.attempt, target>>} ELSE rec.history

(* The attempt_history that a transition from the record it read commits:
   the current attempt enters once, with the status it ends in, or, for a
   restart, with the status it is restarted from *)
HistoryAfter(seen, target) ==
  LET ends == target \in EndsAttempt
      restarts == /\ target \in {"STARTING", "RETRYING"}
                  /\ seen.status \in EndsAttempt \cup {"ARCHIVED"}
      outcome == IF ends THEN target ELSE seen.status
  IN IF /\ ends \/ restarts
        /\ seen.attempt > 0
        /\ \A h \in seen.history : h[1] # seen.attempt
     THEN seen.history \cup {<<seen.attempt, outcome>>}
     ELSE rec.history

(* The record after store.transition, given the record the transition read *)
Transition(seen, target) ==
  [rec EXCEPT !.status = target, !.history = HistoryAfter(seen, target)]

MayMove(seen, target) ==
  seen.status = target \/ LegalTransition(seen.status, target)

(* expected_status and expected_attempt of store.update *)
SameRevision(seen) == rec.status = seen.status /\ rec.attempt = seen.attempt

(* One committed update; it also sets last_active *)
Commit(r) == rec' = r /\ fresh' = {}

-----------------------------------------------------------------------------
(* Processes *)

ClientPC ==
  {"idle", "stop", "dropQueued", "stopRead", "stopWrite",
   "signal", "grace", "stopCheck", "cancelledRead", "cancelledWrite",
   "tombstone", "archiveWrite", "unarchiveWrite", "handoffPrepare",
   "handoffWrite", "completedWrite", "handoffMode", "handoffRequest",
   "inputWrite", "startRead", "startLock", "requeue", "spawn",
   "launchFailed", "recordRead", "recordWrite", "dispatch", "reap", "reload",
   "reserve", "orphan"}

StopOp == {"cancel", "delete", "attach"}   \* the calls that share steps
Goal == {"STARTING", "RETRYING"}           \* what a handoff moves a session to

ClientState ==
  [pc : ClientPC, op : StopOp \cup {"none"}, seen : Record, goal : Goal,
   token : Nat, pid : Workers \cup {NoOne}]

Idle == [pc |-> "idle", op |-> "none", seen |-> Blank, goal |-> "STARTING",
         token |-> 0, pid |-> NoOne]

WorkerPC ==
  {"unborn", "spawned", "claimRead", "startWrite", "claim", "acquire",
   "attest", "check", "working", "asking", "finalRead", "finalWrite",
   "release", "exited", "dead"}

Outcome == {"NONE"} \cup EndsAttempt

WorkerState == [pc : WorkerPC, token : Nat, seen : Record, out : Outcome]

Unborn == [pc |-> "unborn", token |-> 0, seen |-> Blank, out |-> "NONE"]

Alive(p) ==
  p \in Workers /\ worker[p].pc \notin {"unborn", "exited", "dead"}

(* Steps before the claim, and steps that need the session owner lease *)
Unclaimed == {"unborn", "spawned", "claimRead", "startWrite", "claim"}
UnderOwnerLease == {"attest", "check", "working", "asking"}

(* Doing the session's work: model calls, tools, questions to the user *)
Executing(w) == worker[w].pc \in {"working", "asking"}

At(c, pc) == client[c].pc = pc
Starts(c, op) == At(c, "idle") /\ op \in Operations
Goto(c, pc) == client' = [client EXCEPT ![c].pc = pc]
GotoSeen(c, pc, r) == client' = [client EXCEPT ![c].pc = pc, ![c].seen = r]

(* Variant: the scheduler lock stays locked when the call raises *)
ReturnLocked(c) ==
  client' = [client EXCEPT ![c] = Idle] /\ UNCHANGED schedLock

(* The call returns or raises; a held scheduler lock is released *)
Return(c) == /\ client' = [client EXCEPT ![c] = Idle]
             /\ schedLock' = IF schedLock = c THEN NoOne ELSE schedLock

WGoto(w, pc) == worker' = [worker EXCEPT ![w].pc = pc]
WGotoSeen(w, pc, r) == worker' = [worker EXCEPT ![w].pc = pc, ![w].seen = r]
WOutcome(w, pc, o) ==
  worker' = [worker EXCEPT ![w].pc = pc, ![w].out = o, ![w].seen = Blank]

WEnd(w, pc) == worker' = [worker EXCEPT ![w] = [Unborn EXCEPT !.pc = pc]]

storeVars == <<rec, fresh>>
fileVars == <<request, lastToken>>
processVars == <<owner, signalled, worker, attemptOf>>

(* A request has just been accepted by submit: with the queue it is a pending
   record; without it the submitter holds the scheduler lock and is about to
   launch the worker. *)
Init ==
  /\ rec = [Blank EXCEPT !.dispatch = IF QueueEnabled THEN "PENDING"
                                                      ELSE "LEGACY"]
  /\ fresh = {} /\ request = 0 /\ lastToken = 0 /\ calls = 0
  /\ owner = NoOne /\ signalled = {}
  /\ worker = [w \in Workers |-> Unborn]
  /\ attemptOf = [w \in Workers |-> 0]
  /\ IF QueueEnabled
     THEN schedLock = NoOne /\ client = [c \in Clients |-> Idle]
     ELSE \E s \in Clients :
            /\ schedLock = s
            /\ client = [c \in Clients |->
                           IF c = s THEN [Idle EXCEPT !.pc = "spawn"] ELSE Idle]

-----------------------------------------------------------------------------
(* Stopping: cancel, delete and attach_foreground *)

(* cancel looks for a pending record under the scheduler lock, and drops it
   there, so that no dispatcher can launch it meanwhile *)
StopEnter(c, op) ==
  /\ \/ op = "cancel" /\ Starts(c, op)
     \/ op = "delete" /\ At(c, "stop")
  /\ schedLock = NoOne
  /\ IF IsPendingQueueRecord(rec)
     THEN /\ schedLock' = c
          /\ client' = [client EXCEPT ![c].op = op, ![c].pc = "dropQueued",
                                      ![c].seen = rec]
     ELSE /\ client' = [client EXCEPT ![c].op = op, ![c].pc = "stopRead"]
          /\ UNCHANGED schedLock
  /\ UNCHANGED <<storeVars, fileVars, processVars>>

(* What follows the cancellation: delete moves on to the tombstone *)
AfterStop(c) ==
  IF client[c].op = "delete"
  THEN /\ Goto(c, "tombstone")
       /\ schedLock' = IF schedLock = c THEN NoOne ELSE schedLock
  ELSE Return(c)

DropQueued(c) ==
  /\ At(c, "dropQueued")
  /\ IF SameRevision(client[c].seen)
     THEN /\ Commit([Transition(client[c].seen, "CANCELLED")
                       EXCEPT !.dispatch = "CANCELLED"])
          /\ AfterStop(c)
     ELSE Return(c) /\ UNCHANGED storeVars
  /\ UNCHANGED <<fileVars, processVars>>

DeleteRead(c) ==
  /\ Starts(c, "delete")
  /\ rec.status # "DELETED"
  /\ client' = [client EXCEPT ![c].op = "delete",
                  ![c].pc = IF rec.status \in Active THEN "stop" ELSE "tombstone"]
  /\ UNCHANGED <<storeVars, fileVars, processVars, schedLock>>

(* The unlocked read of cancel and of attach_foreground.  The transition's
   own read is this one too: what a later read could change is which error
   is raised, not what is committed. *)
StopRead(c) ==
  /\ \/ At(c, "stopRead")
     \/ Starts(c, "attach")
  /\ LET op == IF At(c, "idle") THEN "attach" ELSE client[c].op
         ended == IF op = "attach" THEN rec.status \notin Active
                  ELSE rec.status \in {"CANCELLED", "ARCHIVED", "COMPLETED",
                                       "FAILED"}
         local(pc) == client' = [client EXCEPT ![c].op = op, ![c].pc = pc,
                                               ![c].pid = rec.pid]
     IN \/ /\ ended
           /\ IF op = "attach" THEN Return(c) ELSE AfterStop(c)
        \/ ~ended /\ rec.status = "DELETED" /\ Return(c)
        \/ ~ended /\ rec.status = "CANCELLING" /\ local("signal")
           /\ UNCHANGED schedLock
        \/ ~ended /\ LegalTransition(rec.status, "CANCELLING")
           /\ local("stopWrite") /\ UNCHANGED schedLock
  /\ UNCHANGED <<storeVars, fileVars, processVars>>

(* The transition to CANCELLING expects nothing of the record it overwrites;
   the PID to signal is the one in the record it commits *)
StopWrite(c) ==
  /\ At(c, "stopWrite")
  /\ Commit([rec EXCEPT !.status = "CANCELLING"])
  /\ client' = [client EXCEPT ![c].pc = "signal", ![c].pid = rec.pid]
  /\ UNCHANGED <<fileVars, processVars, schedLock>>

Signal(c) ==
  /\ At(c, "signal")
  /\ IF client[c].pid = NoOne
     THEN Goto(c, "stopCheck") /\ UNCHANGED signalled
     ELSE /\ Goto(c, "grace")
          /\ signalled' = signalled \cup {p \in {client[c].pid} : Alive(p)}
  /\ UNCHANGED <<storeVars, fileVars, owner, worker, attemptOf, schedLock>>

(* The worker is gone, or the grace period is over: cancel goes on, attach
   gives up and leaves the record CANCELLING *)
GraceOver(c) ==
  /\ At(c, "grace")
  /\ IF Alive(client[c].pid) /\ client[c].op = "attach"
     THEN Return(c)
     ELSE Goto(c, "stopCheck") /\ UNCHANGED schedLock
  /\ UNCHANGED <<storeVars, fileVars, processVars>>

StopCheck(c) ==
  /\ At(c, "stopCheck")
  /\ IF rec.status = "CANCELLING"
     THEN /\ client' = [client EXCEPT ![c].pc = "cancelledRead",
                                      ![c].pid = NoOne]
          /\ UNCHANGED schedLock
     ELSE AfterStop(c)
  /\ UNCHANGED <<storeVars, fileVars, processVars>>

(* Variant: a cancel whose record is still CANCELLING just returns *)
CancelledReadGivesUp(c) ==
  At(c, "cancelledRead") /\ Return(c)
  /\ UNCHANGED <<storeVars, fileVars, processVars>>

CancelledRead(c) ==
  /\ At(c, "cancelledRead")
  /\ IF MayMove(rec, "CANCELLED")
     THEN GotoSeen(c, "cancelledWrite", rec) /\ UNCHANGED schedLock
     ELSE Return(c)
  /\ UNCHANGED <<storeVars, fileVars, processVars>>

(* With _cancelled_metadata; a record already CANCELLED when it was read only
   has the metadata written, over whatever status it has by now *)
CancelledWrite(c) ==
  LET seen == client[c].seen
      r == IF seen.status = "CANCELLED" THEN rec
                                        ELSE Transition(seen, "CANCELLED")
  IN /\ At(c, "cancelledWrite")
     /\ Commit([r EXCEPT !.lease = NoOne,
                         !.pid = IF Detached THEN @ ELSE NoOne])
     /\ AfterStop(c)
     /\ UNCHANGED <<fileVars, processVars>>

(* store.delete with force, under the registry lock *)
Tombstone(c) ==
  /\ At(c, "tombstone")
  /\ IF rec.status = "DELETED" THEN UNCHANGED storeVars
                               ELSE Commit([rec EXCEPT !.status = "DELETED"])
  /\ Return(c)
  /\ UNCHANGED <<fileVars, processVars>>

-----------------------------------------------------------------------------
(* Archive, trash *)

RestoreDeleted(c) ==
  /\ Starts(c, "restore") /\ rec.status = "DELETED"
  /\ rec' = [rec EXCEPT !.status = "COMPLETED"]
  /\ UNCHANGED <<fresh, fileVars, processVars, schedLock, client>>

ArchiveRead(c) ==
  /\ Starts(c, "archive") /\ LegalTransition(rec.status, "ARCHIVED")
  /\ GotoSeen(c, "archiveWrite", rec)
  /\ UNCHANGED <<storeVars, fileVars, processVars, schedLock>>

ArchiveWrite(c) ==
  /\ At(c, "archiveWrite")
  /\ Commit(Transition(client[c].seen, "ARCHIVED"))
  /\ Return(c)
  /\ UNCHANGED <<fileVars, processVars>>

RestoreArchiveRead(c) ==
  /\ Starts(c, "unarchive") /\ rec.status = "ARCHIVED"
  /\ Goto(c, "unarchiveWrite")
  /\ UNCHANGED <<storeVars, fileVars, processVars, schedLock>>

RestoreArchiveWrite(c) ==
  /\ At(c, "unarchiveWrite")
  /\ Commit([rec EXCEPT !.status = "COMPLETED"])
  /\ Return(c)
  /\ UNCHANGED <<fileVars, processVars>>

-----------------------------------------------------------------------------
(* Starting again: handoff (which resume calls) and deferred input *)

HandoffRead(c) ==
  /\ Starts(c, "handoff")
  /\ rec.status \in Terminal \ {"DELETED"}
  /\ GotoSeen(c, "handoffPrepare", rec)
  /\ UNCHANGED <<storeVars, fileVars, processVars, schedLock>>

(* store.transition reads the record again, and only a handoff that found a
   COMPLETED session expects it unchanged *)
HandoffPrepare(c) ==
  LET existing == client[c].seen
      target == IF existing.status = "FAILED" THEN "RETRYING" ELSE "STARTING"
  IN /\ At(c, "handoffPrepare")
     /\ IF existing.status = "COMPLETED"
        THEN Goto(c, "completedWrite") /\ UNCHANGED schedLock
        ELSE IF MayMove(rec, target)
             THEN /\ client' = [client EXCEPT ![c].pc = "handoffWrite",
                                              ![c].goal = target, ![c].seen = rec]
                  /\ UNCHANGED schedLock
             ELSE Return(c)
     /\ UNCHANGED <<storeVars, fileVars, processVars>>

HandoffWrite(c) ==
  LET seen == client[c].seen
      goal == client[c].goal
      r == IF seen.status = goal THEN rec ELSE Transition(seen, goal)
  IN /\ At(c, "handoffWrite")
     /\ Commit(r) /\ GotoSeen(c, "handoffMode", r)
     /\ UNCHANGED <<fileVars, processVars, schedLock>>

CompletedWrite(c) ==
  LET seen == client[c].seen
      r == Transition(seen, "STARTING")
  IN /\ At(c, "completedWrite")
     /\ IF SameRevision(seen)
        THEN Commit(r) /\ GotoSeen(c, "handoffMode", r) /\ UNCHANGED schedLock
        ELSE Return(c) /\ UNCHANGED storeVars
     /\ UNCHANGED <<fileVars, processVars>>

HandoffMode(c) ==
  /\ At(c, "handoffMode")
  /\ IF SameRevision(client[c].seen)
     THEN /\ Commit([rec EXCEPT !.mode = 0])
          /\ GotoSeen(c, "handoffRequest", Blank) /\ UNCHANGED schedLock
     ELSE Return(c) /\ UNCHANGED storeVars
  /\ UNCHANGED <<fileVars, processVars>>

(* The new request carries no dispatch token *)
HandoffRequest(c) ==
  /\ At(c, "handoffRequest")
  /\ request' = 0
  /\ Goto(c, IF QueueEnabled THEN "startRead" ELSE "spawn")
  /\ UNCHANGED <<storeVars, lastToken, processVars, schedLock>>

(* _start_deferred_input_attempt, once an accepted deferred message waits;
   the request keeps the token of the previous one *)
InputRead(c) ==
  /\ Starts(c, "input")
  /\ rec.status \in EndsAttempt \cup {"ARCHIVED"}
  /\ GotoSeen(c, "inputWrite", rec)
  /\ UNCHANGED <<storeVars, fileVars, processVars, schedLock>>

InputWrite(c) ==
  LET seen == client[c].seen
  IN /\ At(c, "inputWrite")
     /\ IF SameRevision(seen) /\ rec.lease = seen.lease
        THEN /\ Commit([Transition(seen, "STARTING")
                          EXCEPT !.pid = NoOne, !.mode = 0])
             /\ client' = [client EXCEPT
                             ![c].pc = IF QueueEnabled THEN "startRead"
                                                       ELSE "spawn",
                             ![c].token = request, ![c].seen = Blank]
             /\ UNCHANGED schedLock
        ELSE Return(c) /\ UNCHANGED storeVars
     /\ UNCHANGED <<fileVars, processVars>>

(* start: load the prepared request, refuse a session that is not active *)
StartRead(c) ==
  /\ At(c, "startRead")
  /\ IF rec.status \notin Active THEN Return(c)
     ELSE /\ client' = [client EXCEPT
                          ![c].pc = IF IsPendingQueueRecord(rec) THEN "dispatch"
                                    ELSE "startLock",
                          ![c].token = request]
          /\ UNCHANGED schedLock
  /\ UNCHANGED <<storeVars, fileVars, processVars>>

(* Variant: start does not wait for the scheduler lock *)
StartUnlocked(c) ==
  /\ At(c, "startLock")
  /\ Goto(c, "spawn")
  /\ UNCHANGED <<storeVars, fileVars, processVars, schedLock>>

(* Under the scheduler lock: launch if the other sessions leave capacity *)
StartLock(c) ==
  /\ At(c, "startLock") /\ schedLock = NoOne
  /\ schedLock' = c
  /\ \E capacity \in BOOLEAN :
       IF capacity THEN Goto(c, "spawn") ELSE GotoSeen(c, "requeue", rec)
  /\ UNCHANGED <<storeVars, fileVars, processVars>>

(* No capacity: back to the queue, or FAILED when the queue is full *)
Requeue(c) ==
  LET seen == client[c].seen
  IN /\ At(c, "requeue")
     /\ \E target \in {"QUEUED", "FAILED"} :
          IF MayMove(seen, target) /\ SameRevision(seen)
          THEN Commit([Transition(seen, target) EXCEPT
                         !.dispatch = IF target = "QUEUED" THEN "PENDING"
                                                           ELSE "FAILED"])
          ELSE UNCHANGED storeVars
     /\ Return(c)
     /\ UNCHANGED <<fileVars, processVars>>

-----------------------------------------------------------------------------
(* Launching: _launch *)

(* Write the request, start the process; Popen may fail *)
Spawn(c) ==
  /\ At(c, "spawn")
  /\ request' = client[c].token
  /\ \/ \E w \in Workers :
          /\ worker[w].pc = "unborn"
          /\ WGoto(w, "spawned")
          /\ client' = [client EXCEPT ![c] = [Idle EXCEPT !.pc = "recordRead",
                                                          !.pid = w]]
          /\ UNCHANGED schedLock
     \/ /\ IF MayMove(rec, "FAILED")
           THEN GotoSeen(c, "launchFailed", rec) /\ UNCHANGED schedLock
           ELSE Return(c)
        /\ UNCHANGED worker
  /\ UNCHANGED <<storeVars, lastToken, owner, signalled, attemptOf>>

LaunchFailed(c) ==
  LET seen == client[c].seen
  IN /\ At(c, "launchFailed")
     /\ Commit([Transition(seen, "FAILED") EXCEPT
                  !.dispatch = IF client[c].token # 0 THEN "FAILED"
                                                      ELSE seen.dispatch])
     /\ Return(c)
     /\ UNCHANGED <<fileVars, processVars>>

RecordRead(c) ==
  /\ At(c, "recordRead")
  /\ IF rec.status \in Active
     THEN GotoSeen(c, "recordWrite", rec) /\ UNCHANGED schedLock
     ELSE Return(c)
  /\ UNCHANGED <<storeVars, fileVars, processVars>>

RecordWrite(c) ==
  LET seen == client[c].seen
  IN /\ At(c, "recordWrite")
     /\ IF SameRevision(seen)
        THEN Commit([rec EXCEPT
                       !.pid = client[c].pid,
                       !.dispatch = IF seen.dispatch = "CLAIMED" THEN "LAUNCHED"
                                                                 ELSE @])
        ELSE UNCHANGED storeVars
     /\ Return(c)
     /\ UNCHANGED <<fileVars, processVars>>

-----------------------------------------------------------------------------
(* Dispatching: _start_claimed_reservations and _dispatch_pending_locked *)

Dispatch(c) ==
  /\ Starts(c, "dispatch") \/ At(c, "dispatch")
  /\ schedLock = NoOne /\ schedLock' = c
  /\ \/ /\ IsPendingQueueRecord(rec)
        /\ lastToken' = lastToken + 1 /\ request' = lastToken'
        /\ client' = [client EXCEPT ![c].pc = "reserve", ![c].seen = rec,
                                    ![c].token = lastToken']
     \/ /\ rec.status = "STARTING" /\ rec.dispatch = "CLAIMED"
        /\ ~Alive(rec.pid)
        /\ GotoSeen(c, IF rec.pid = NoOne THEN "reload" ELSE "reap", rec)
        /\ UNCHANGED fileVars
  /\ UNCHANGED <<storeVars, processVars>>

(* Nothing to dispatch for a handoff that found its record pending *)
DispatchNothing(c) ==
  /\ At(c, "dispatch") /\ ~IsPendingQueueRecord(rec)
  /\ Return(c)
  /\ UNCHANGED <<storeVars, fileVars, processVars>>

(* The reservation is a compare-and-swap; a request file that cannot be read
   fails the session under the same expectations *)
Reserve(c) ==
  LET seen == client[c].seen
  IN /\ At(c, "reserve")
     /\ \/ /\ SameRevision(seen)
           /\ Commit([Transition(seen, "STARTING") EXCEPT
                        !.dispatch = "CLAIMED", !.token = client[c].token])
           /\ GotoSeen(c, "spawn", Blank) /\ UNCHANGED schedLock
        \/ /\ SameRevision(seen)
           /\ Commit([Transition(seen, "FAILED") EXCEPT !.dispatch = "FAILED"])
           /\ Return(c)
        \/ ~SameRevision(seen) /\ Return(c) /\ UNCHANGED storeVars
     /\ UNCHANGED <<fileVars, processVars>>

Reap(c) ==
  LET r == [rec EXCEPT !.pid = NoOne]
  IN /\ At(c, "reap")
     /\ IF SameRevision(client[c].seen)
        THEN Commit(r) /\ GotoSeen(c, "reload", r) /\ UNCHANGED schedLock
        ELSE Return(c) /\ UNCHANGED storeVars
     /\ UNCHANGED <<fileVars, processVars>>

(* Launch the reserved request again, if it is still the one on disk *)
Reload(c) ==
  LET seen == client[c].seen
  IN /\ At(c, "reload")
     /\ IF request # 0 /\ request = seen.token
        THEN /\ client' = [client EXCEPT ![c].pc = "spawn", ![c].token = request,
                                         ![c].seen = Blank]
             /\ UNCHANGED <<storeVars, schedLock>>
        ELSE /\ Return(c)
             /\ IF SameRevision(seen) THEN Commit(Transition(seen, "ORPHANED"))
                                      ELSE UNCHANGED storeVars
     /\ UNCHANGED <<fileVars, processVars>>

-----------------------------------------------------------------------------
(* Maintenance: _recover_stale_records *)

(* Variants: only records without a PID are reconciled; only those with one *)
RecoverReadUnstarted(c) ==
  /\ Starts(c, "recover") /\ ReconcilesWorker(rec) /\ rec.pid = NoOne
  /\ rec.status \in {"QUEUED", "STARTING", "RETRYING"}
  /\ GotoSeen(c, "orphan", rec) /\ fresh' = fresh \cup {c}
  /\ UNCHANGED <<rec, fileVars, processVars, schedLock>>
RecoverReadRunning(c) ==
  /\ Starts(c, "recover") /\ rec.status = "RUNNING"
  /\ rec.pid # NoOne /\ ~Alive(rec.pid)
  /\ GotoSeen(c, "orphan", rec) /\ fresh' = fresh \cup {c}
  /\ UNCHANGED <<rec, fileVars, processVars, schedLock>>

(* The recorded worker is proved dead, or an unclaimed record without a PID
   has outlived the heartbeat deadline *)
RecoverRead(c) ==
  /\ Starts(c, "recover")
  /\ ReconcilesWorker(rec)
  /\ IF rec.pid = NoOne THEN rec.status \in {"QUEUED", "STARTING", "RETRYING"}
                        ELSE ~Alive(rec.pid)
  /\ GotoSeen(c, "orphan", rec)
  /\ fresh' = fresh \cup {c}
  /\ UNCHANGED <<rec, fileVars, processVars, schedLock>>

(* mark_orphaned expects status, attempt, lease and last_active; a status
   with no legal move to ORPHANED makes it raise, and the record is left *)
RecoverWrite(c) ==
  LET seen == client[c].seen
      unchanged == /\ SameRevision(seen) /\ c \in fresh
                   /\ (seen.pid # NoOne /\ seen.lease # NoOne)
                        => rec.lease = seen.lease
  IN /\ At(c, "orphan")
     /\ IF unchanged /\ LegalTransition(seen.status, "ORPHANED")
        THEN Commit(Transition(seen, "ORPHANED"))
        ELSE fresh' = fresh \ {c} /\ UNCHANGED rec
     /\ Return(c)
     /\ UNCHANGED <<fileVars, processVars>>

(* A supervisor dies; the operating system drops its file lock *)
ClientCrash(c) ==
  /\ ClientCrashes /\ ~At(c, "idle")
  /\ Return(c)
  /\ UNCHANGED <<storeVars, fileVars, processVars>>

-----------------------------------------------------------------------------
(* The worker process: run_worker *)

LoadRequest(w) ==
  /\ worker[w].pc = "spawned"
  /\ worker' = [worker EXCEPT ![w].pc = "claimRead", ![w].token = request]
  /\ UNCHANGED <<storeVars, fileVars, owner, signalled, attemptOf, schedLock,
                 client>>

(* The dispatch-token checks of store.claim *)
MayClaim(w) ==
  LET token == worker[w].token
  IN /\ rec.dispatch = "PENDING" => token # 0
     /\ rec.dispatch = "CLAIMED" => token # 0
     /\ token # 0 => token = rec.token

(* claim reads the record; an unstarted one is first moved to STARTING *)
ClaimRead(w) ==
  /\ worker[w].pc = "claimRead"
  /\ \/ /\ MayClaim(w) /\ rec.status \in {"QUEUED", "RETRYING"}
        /\ WGotoSeen(w, "startWrite", rec)
     \/ /\ MayClaim(w) /\ rec.status = "STARTING"
        /\ WGotoSeen(w, "claim", rec)
     \/ /\ ~MayClaim(w) \/ rec.status \notin {"QUEUED", "RETRYING", "STARTING"}
        /\ WEnd(w, "exited")
  /\ UNCHANGED <<storeVars, fileVars, owner, signalled, attemptOf, schedLock,
                 client>>

(* ... by a transition that expects nothing of the record it overwrites *)
ClaimStart(w) ==
  LET r == Transition(worker[w].seen, "STARTING")
  IN /\ worker[w].pc = "startWrite"
     /\ Commit(r) /\ WGotoSeen(w, "claim", r)
     /\ UNCHANGED <<fileVars, owner, signalled, attemptOf, schedLock, client>>

(* Variant: the claim checks nothing *)
ClaimUnfenced(w) ==
  /\ worker[w].pc = "claim"
  /\ Commit([rec EXCEPT !.status = "RUNNING", !.lease = w, !.pid = w, !.mode = 0,
                        !.attempt = worker[w].seen.attempt + 1])
  /\ attemptOf' = [attemptOf EXCEPT ![w] = worker[w].seen.attempt + 1]
  /\ WGotoSeen(w, "acquire", Blank)
  /\ UNCHANGED <<fileVars, owner, signalled, schedLock, client>>

(* The compare-and-swap that makes w the owner of the next attempt *)
Claim(w) ==
  /\ worker[w].pc = "claim"
  /\ IF SameRevision(worker[w].seen)
     THEN /\ Commit([Transition(worker[w].seen, "RUNNING") EXCEPT
                       !.attempt = worker[w].seen.attempt + 1,
                       !.lease = w, !.pid = w, !.mode = 0,
                       !.dispatch = IF worker[w].token # 0 THEN "STARTED"
                                    ELSE worker[w].seen.dispatch])
          /\ attemptOf' = [attemptOf EXCEPT ![w] = worker[w].seen.attempt + 1]
          /\ WGotoSeen(w, "acquire", Blank)
     ELSE WEnd(w, "exited") /\ UNCHANGED <<storeVars, attemptOf>>
  /\ UNCHANGED <<fileVars, owner, signalled, schedLock, client>>

(* The record still names w's own attempt *)
OwnsAttempt(w) == rec.attempt = attemptOf[w] /\ rec.lease = w

(* Variant: the lease is taken from whoever holds it *)
AcquireOwnerAnyway(w) ==
  /\ worker[w].pc = "acquire"
  /\ owner' = w /\ WGoto(w, "attest")
  /\ UNCHANGED <<storeVars, fileVars, signalled, attemptOf, schedLock, client>>

(* The session owner lease: free, or left behind by a dead process *)
AcquireOwner(w) ==
  /\ worker[w].pc = "acquire"
  /\ IF ~Alive(owner)
     THEN owner' = w /\ WGoto(w, "attest")
     ELSE UNCHANGED owner /\ WOutcome(w, "finalRead", "FAILED")
  /\ UNCHANGED <<storeVars, fileVars, signalled, attemptOf, schedLock, client>>

(* Variant: the mode is recorded without the lease and attempt expectations *)
AttestModeUnfenced(w) ==
  /\ worker[w].pc = "attest"
  /\ Commit([rec EXCEPT !.mode = attemptOf[w]]) /\ WGoto(w, "check")
  /\ UNCHANGED <<fileVars, owner, signalled, attemptOf, schedLock, client>>

(* record_mode_application: the mode is applied for this attempt *)
AttestMode(w) ==
  /\ worker[w].pc = "attest"
  /\ IF rec.status = "RUNNING" /\ OwnsAttempt(w)
     THEN Commit([rec EXCEPT !.mode = attemptOf[w]]) /\ WGoto(w, "check")
     ELSE UNCHANGED storeVars /\ WOutcome(w, "finalRead", "FAILED")
  /\ UNCHANGED <<fileVars, owner, signalled, attemptOf, schedLock, client>>

(* _execute refuses to work unless the attested mode is still its own *)
CheckMode(w) ==
  /\ worker[w].pc = "check"
  /\ IF rec.status = "RUNNING" /\ OwnsAttempt(w) /\ rec.mode = attemptOf[w]
     THEN WGoto(w, "working") ELSE WOutcome(w, "finalRead", "FAILED")
  /\ UNCHANGED <<storeVars, fileVars, owner, signalled, attemptOf, schedLock,
                 client>>

(* The heartbeat expects the status it read, the lease and the attempt *)
Heartbeat(w) ==
  /\ worker[w].pc \in UnderOwnerLease
  /\ OwnsAttempt(w) /\ rec.status # "DELETED"
  /\ Commit(rec)
  /\ UNCHANGED <<fileVars, processVars, schedLock, client>>

(* Ask for an approval or an input.  The transition to the waiting status
   expects RUNNING, but neither the attempt nor the lease. *)
AskUser(w) ==
  /\ worker[w].pc = "working" /\ rec.status = "RUNNING"
  /\ \E waiting \in Waiting :
       LET r == Transition(rec, waiting)
       IN Commit(r) /\ WGotoSeen(w, "asking", r)
  /\ UNCHANGED <<fileVars, owner, signalled, attemptOf, schedLock, client>>

(* An answer or the question's deadline: back to RUNNING, unless the session
   changed meanwhile; the work goes on in both cases.  An answer expects the
   lease of the question, the deadline the lease it finds. *)
AskEnds(w) ==
  LET seen == worker[w].seen
  IN /\ worker[w].pc = "asking"
     /\ \/ SameRevision(seen) /\ Commit(Transition(rec, "RUNNING"))
        \/ ~(SameRevision(seen) /\ rec.lease = seen.lease) /\ UNCHANGED storeVars
     /\ WGotoSeen(w, "working", Blank)
     /\ UNCHANGED <<fileVars, owner, signalled, attemptOf, schedLock, client>>

(* The work is done, or needs a recovery decision *)
Finish(w) ==
  /\ worker[w].pc = "working"
  /\ \E o \in {"COMPLETED", "ORPHANED"} : WOutcome(w, "finalRead", o)
  /\ UNCHANGED <<storeVars, fileVars, owner, signalled, attemptOf, schedLock,
                 client>>

(* An exception: session construction, the provider, the wall timeout *)
Fail(w) ==
  /\ worker[w].pc \in {"attest", "check", "working", "asking"}
  /\ WOutcome(w, "finalRead", "FAILED")
  /\ UNCHANGED <<storeVars, fileVars, owner, signalled, attemptOf, schedLock,
                 client>>

(* asyncio cancellation: only a detached goal run reports it *)
Interrupt(w) ==
  /\ worker[w].pc \in {"attest", "working", "asking"}
  /\ IF Detached THEN WOutcome(w, "finalRead", "CANCELLED")
                 ELSE WOutcome(w, "release", "NONE")
  /\ UNCHANGED <<storeVars, fileVars, owner, signalled, attemptOf, schedLock,
                 client>>

(* _finalize_worker: a worker whose attempt is not the current one reports
   nothing.  (The check of worker_finalization_attempts adds nothing: a
   finalized attempt has its lease cleared.) *)
FinalRead(w) ==
  /\ worker[w].pc = "finalRead"
  /\ IF OwnsAttempt(w) THEN WGotoSeen(w, "finalWrite", rec)
                       ELSE WGoto(w, "release")
  /\ UNCHANGED <<storeVars, fileVars, owner, signalled, attemptOf, schedLock,
                 client>>

(* The status that w's outcome moves the record w read to: a cancellation
   under way wins over the outcome; "NONE" for a status that takes none *)
FinalStatus(w) ==
  LET s == worker[w].seen.status
      o == worker[w].out
  IN CASE s = "CANCELLING"                   -> "CANCELLED"
       [] s = "RUNNING" /\ o = "CANCELLED"   -> "CANCELLING"
       [] s = "RUNNING" /\ o # "CANCELLED"   -> o
       [] s \notin {"CANCELLING", "RUNNING"} -> IF s = o THEN o ELSE "NONE"

(* Variants: the outcome is committed over whatever the record says, or over any
   status of the worker's own attempt *)
FinalWriteUnfenced(w) ==
  /\ worker[w].pc = "finalWrite"
  /\ Commit([Transition(rec, worker[w].out) EXCEPT !.lease = NoOne])
  /\ WGotoSeen(w, "release", Blank)
  /\ UNCHANGED <<fileVars, owner, signalled, attemptOf, schedLock, client>>
FinalWriteAnyStatus(w) ==
  /\ OwnsAttempt(w) /\ FinalWriteUnfenced(w)

(* The outcome is committed if the record is still the one w read: a run that
   was cancelled here passes through CANCELLING, and the final update clears
   the lease.  The goal-run record and the worker_exited audit event that
   follow do not touch the session. *)
FinalWrite(w) ==
  LET seen == worker[w].seen
      target == FinalStatus(w)
      r == Transition(rec, target)
  IN /\ worker[w].pc = "finalWrite"
     /\ IF target = "NONE" \/ ~OwnsAttempt(w) \/ rec.status # seen.status
        THEN UNCHANGED storeVars /\ WGotoSeen(w, "release", Blank)
        ELSE IF target = "CANCELLING"
             THEN Commit(r) /\ WGotoSeen(w, "finalWrite", r)
             ELSE /\ Commit([r EXCEPT !.lease = NoOne,
                                      !.pid = IF seen.pid = NoOne THEN w
                                                                  ELSE seen.pid])
                  /\ WGotoSeen(w, "release", Blank)
     /\ UNCHANGED <<fileVars, owner, signalled, attemptOf, schedLock, client>>

(* Release the owner lease and exit *)
Release(w) ==
  /\ worker[w].pc = "release"
  /\ owner' = IF owner = w THEN NoOne ELSE owner
  /\ WEnd(w, "exited")
  /\ UNCHANGED <<storeVars, fileVars, signalled, attemptOf, schedLock, client>>

(* SIGTERM has no handler: the process dies without finalizing.  It may also
   be killed, or crash, without a signal from a supervisor. *)
Die(w) ==
  /\ Alive(w)
  /\ w \in signalled \/ WorkerCrashes
  /\ WEnd(w, "dead")
  /\ signalled' = signalled \ {w}
  /\ UNCHANGED <<storeVars, fileVars, owner, attemptOf, schedLock, client>>

-----------------------------------------------------------------------------
StopStep(c) ==
  \/ StopEnter(c, "cancel") \/ StopEnter(c, "delete") \/ DropQueued(c)
  \/ DeleteRead(c) \/ StopRead(c) \/ StopWrite(c) \/ Signal(c) \/ GraceOver(c)
  \/ StopCheck(c) \/ CancelledRead(c) \/ CancelledWrite(c) \/ Tombstone(c)

ArchiveStep(c) ==
  \/ RestoreDeleted(c) \/ ArchiveRead(c) \/ ArchiveWrite(c)
  \/ RestoreArchiveRead(c) \/ RestoreArchiveWrite(c)

RestartStep(c) ==
  \/ HandoffRead(c) \/ HandoffPrepare(c) \/ HandoffWrite(c)
  \/ CompletedWrite(c) \/ HandoffMode(c) \/ HandoffRequest(c) \/ InputRead(c)
  \/ InputWrite(c) \/ StartRead(c) \/ StartLock(c) \/ Requeue(c)

LaunchStep(c) ==
  Spawn(c) \/ LaunchFailed(c) \/ RecordRead(c) \/ RecordWrite(c)

DispatchStep(c) ==
  \/ Dispatch(c) \/ DispatchNothing(c) \/ Reserve(c) \/ Reap(c) \/ Reload(c)

RecoverStep(c) == RecoverRead(c) \/ RecoverWrite(c)

ClientStep(c) ==
  \/ StopStep(c) \/ ArchiveStep(c) \/ RestartStep(c) \/ LaunchStep(c)
  \/ DispatchStep(c) \/ RecoverStep(c)

WorkerStep(w) ==
  \/ LoadRequest(w) \/ ClaimRead(w) \/ ClaimStart(w) \/ Claim(w)
  \/ AcquireOwner(w) \/ AttestMode(w) \/ CheckMode(w) \/ Heartbeat(w)
  \/ AskUser(w) \/ AskEnds(w) \/ Finish(w) \/ Fail(w) \/ Interrupt(w)
  \/ FinalRead(w) \/ FinalWrite(w) \/ Release(w) \/ Die(w)

(* A step of supervisor c.  The bound on calls does not count the periodic
   maintenance passes. *)
SupervisorStep(c) ==
  /\ ClientStep(c)
  /\ IF At(c, "idle") /\ client'[c].pc # "orphan"
     THEN calls < MaxCalls /\ calls' = calls + 1
     ELSE UNCHANGED calls

(* No call is under way and no worker is alive: nothing has to happen *)
Quiet ==
  /\ \A c \in Clients : At(c, "idle")
  /\ \A w \in Workers : ~Alive(w)
  /\ UNCHANGED vars

Next == \/ Quiet
        \/ \E c \in Clients : SupervisorStep(c)
        \/ \E c \in Clients : ClientCrash(c) /\ UNCHANGED calls
        \/ \E w \in Workers : WorkerStep(w) /\ UNCHANGED calls

Spec == Init /\ [][Next]_vars

(* Fairness: a call under way goes on; the maintenance of every supervisor
   looks at the session again and again (the hub watches the registry and
   the worker processes); a worker goes on unless it waits for the model, a
   tool or the user; SIGTERM kills *)
ClientContinues(c) == ~At(c, "idle") /\ SupervisorStep(c)
MaintenanceRuns(c) == RecoverRead(c) /\ UNCHANGED calls
WorkerContinues(w) ==
  /\ ~Executing(w)
  /\ WorkerStep(w) /\ worker'[w].pc # worker[w].pc
  /\ UNCHANGED calls
SignalKills(w) == w \in signalled /\ Die(w) /\ UNCHANGED calls

FairSpec ==
  /\ Spec
  /\ \A c \in Clients : WF_vars(ClientContinues(c)) /\ WF_vars(MaintenanceRuns(c))
  /\ \A w \in Workers : WF_vars(WorkerContinues(w)) /\ WF_vars(SignalKills(w))

-----------------------------------------------------------------------------
(* Properties *)

(* Every variable keeps its type; a snapshot is a record of the registry,
   so no read or commit can leave a status outside SessionStatus. *)
RecordTyped == rec \in Record /\ fresh \subseteq Clients
ProcessesTyped ==
  /\ request \in Nat /\ lastToken \in Nat
  /\ owner \in Workers \cup {NoOne}
  /\ signalled \subseteq Workers
  /\ worker \in [Workers -> WorkerState]
  /\ attemptOf \in [Workers -> Nat]
SupervisorsTyped ==
  /\ client \in [Clients -> ClientState]
  /\ schedLock \in Clients \cup {NoOne}
TypeOK == RecordTyped /\ ProcessesTyped /\ SupervisorsTyped /\ calls \in Nat

(* store.claim fences attempts: however launches, duplicates and late
   children interleave, no two workers claim the same attempt, and the lease
   in the record belongs to the worker that claimed the newest one. *)
AttemptsFenced ==
  /\ \A v, w \in Workers : attemptOf[v] = attemptOf[w] /\ v # w => attemptOf[v] = 0
  /\ rec.lease # NoOne => attemptOf[rec.lease] = rec.attempt

(* The session owner lease of worker.py: two worker processes never execute
   the same session at once, not even while a cancelled or superseded worker
   is still finishing. *)
OneExecutor ==
  \A v, w \in Workers : Executing(v) /\ Executing(w) => v = w

(* "Application updates are checked against the current session lease and
   attempt so that a late worker cannot replace newer state": a mode shown as
   applied is the one the newest attempt runs with, never an earlier one's. *)
ModeOfNewestAttempt == rec.mode \in {0, rec.attempt}

(* attempt_history: an attempt enters with one outcome, although workers,
   cancellation, recovery and restarts all write it. *)
OneOutcomePerAttempt ==
  \A h, k \in rec.history : h[1] = k[1] => h = k

(* A session completes only by the finalizer of the worker that holds its
   newest attempt, ended with that outcome; a late worker, a recovery or a
   restart never completes it.  (Restoring from the archive or from the trash
   sets COMPLETED too: checked without those two calls.) *)
CompletedByOwner ==
  [][rec.status \notin {"COMPLETED", "ARCHIVED", "DELETED"}
       /\ rec'.status = "COMPLETED"
       => \E w \in Workers : /\ worker[w].out = "COMPLETED" /\ rec.lease = w
                             /\ attemptOf[w] = rec.attempt]_vars

(* Once a cancellation is durable (CANCELLING), no worker step turns it back
   into a run or a success: _finalize_worker and the answer to a question
   re-check the status they read. *)
CancellationWins ==
  [][rec.status = "CANCELLING"
       => rec'.status \notin {"RUNNING", "COMPLETED"} \cup Waiting]_vars

(* queue-scheduler.lock "serializes slot reservations and prevents duplicate
   effective dispatch": with the queue, at most one supervisor at a time is
   between looking for a slot and recording the launched PID, and it is the
   holder of the lock even after another one died holding it. *)
Launching(c) ==
  client[c].pc \in {"dropQueued", "reserve", "reap", "reload", "requeue",
                   "spawn", "launchFailed", "recordRead", "recordWrite"}
LaunchesSerialized ==
  \A c, d \in Clients : Launching(c) /\ Launching(d) => c = d

(* The session implements the attempt fence. *)
Fence == INSTANCE AttemptFence WITH
  attempt <- rec.attempt, holder <- rec.lease, granted <- attemptOf,
  executing <- {w \in Workers : Executing(w)}
FenceSpec == Fence!Spec

(* Liveness, under FairSpec without supervisor crashes *)

(* A cancellation under way ends: by the worker, by the canceller when the
   grace period is over, or by recovery when the worker died first. *)
CancellationEnds == rec.status = "CANCELLING" ~> rec.status # "CANCELLING"

(* A recorded worker that is gone does not leave its session running. *)
RecordedWorkerDead ==
  rec.pid # NoOne /\ ~Alive(rec.pid) /\ ~Alive(rec.lease)
DeadWorkerReconciled ==
  rec.status = "RUNNING" /\ RecordedWorkerDead
    ~> ~(rec.status = "RUNNING" /\ RecordedWorkerDead)

(* A session that is STARTING without anybody at work on it gets a worker or
   an outcome: a child that dies unclaimed, is refused by claim or was never
   spawned is noticed by recovery. *)
Unattended == rec.status = "STARTING" /\ \A w \in Workers : ~Executing(w)
LaunchSettles == Unattended ~> ~Unattended

(* Every call returns, whoever else holds the scheduler lock. *)
CallsReturn == \A c \in Clients : ~At(c, "idle") ~> At(c, "idle")

(* What the documentation says and the code does not do *)

(* "A worker process exits without recording its result | At once: the
   session is marked orphaned" (docs/guides/background-sessions.md) *)
WaitingWorkerReconciled ==
  rec.status \in Waiting /\ RecordedWorkerDead
    ~> ~(rec.status \in Waiting /\ RecordedWorkerDead)

(* "The tombstone remains in the append-only registry, so a stale worker
   cannot resurrect it" (docs/guides/background-sessions.md) *)
TombstoneStands ==
  [][rec.status = "DELETED" /\ rec'.status # "DELETED"
       => worker' = worker]_vars

(* "A verified live worker is not orphaned" (supervisor.py) *)
LiveWorkerNotOrphaned ==
  [][rec.status = "RUNNING" /\ rec'.status = "ORPHANED" /\ rec.lease # NoOne
       => ~Executing(rec.lease)]_vars
=============================================================================
