---------------------------- MODULE SessionStatus ----------------------------
(***************************************************************************)
(* The lifecycle vocabulary of a background session, as model.py and       *)
(* queue.py define it: the statuses, the table of legal transitions and    *)
(* the three predicates on a record that the supervisor schedules by.      *)
(* A record here is any record with the fields status, dispatch and pid.   *)
(***************************************************************************)
CONSTANT NoOne      \* the absent process: no worker_pid, no lease_token

(* ACTIVE_STATUSES of model.py *)
Active == {"QUEUED", "STARTING", "RUNNING", "WAITING_APPROVAL",
           "WAITING_INPUT", "RETRYING", "CANCELLING"}

(* TERMINAL_STATUSES of model.py *)
Terminal == {"COMPLETED", "FAILED", "CANCELLED", "ORPHANED",
             "ARCHIVED", "DELETED"}

Status == Active \cup Terminal

Waiting == {"WAITING_APPROVAL", "WAITING_INPUT"}

(* QueueDispatchState *)
DispatchState == {"LEGACY", "PENDING", "CLAIMED", "LAUNCHED", "STARTED",
                  "CANCELLED", "FAILED"}

(* The statuses that end an attempt and enter its history *)
EndsAttempt == {"COMPLETED", "FAILED", "CANCELLED", "ORPHANED"}

(* _TRANSITIONS of model.py: the statuses a status may move to *)
Transitions ==
  [QUEUED           |-> {"STARTING", "CANCELLING", "CANCELLED", "ORPHANED",
                         "FAILED"},
   STARTING         |-> {"QUEUED", "RUNNING", "CANCELLING", "ORPHANED",
                         "FAILED"},
   RUNNING          |-> {"WAITING_APPROVAL", "WAITING_INPUT", "RETRYING",
                         "CANCELLING", "COMPLETED", "FAILED", "ORPHANED"},
   WAITING_APPROVAL |-> {"RUNNING", "CANCELLING"},
   WAITING_INPUT    |-> {"RUNNING", "CANCELLING"},
   RETRYING         |-> {"QUEUED", "STARTING", "CANCELLING", "ORPHANED",
                         "FAILED"},
   CANCELLING       |-> {"CANCELLED", "ORPHANED"},
   COMPLETED        |-> {"STARTING", "ARCHIVED"},
   FAILED           |-> {"RETRYING", "STARTING", "ARCHIVED"},
   CANCELLED        |-> {"STARTING", "ARCHIVED"},
   ORPHANED         |-> {"STARTING", "CANCELLING", "ARCHIVED"},
   ARCHIVED         |-> {"STARTING", "COMPLETED", "FAILED"},
   DELETED          |-> {}]

(* legal_transition *)
LegalTransition(current, target) == target \in Transitions[current]

(* is_pending_queue_record: accepted, but no worker slot reserved *)
IsPendingQueueRecord(r) == r.status = "QUEUED" /\ r.dispatch = "PENDING"

(* occupies_worker_slot: a started or reserved worker, and a queued record
   of before the queue existed, whose process may be in flight *)
OccupiesWorkerSlot(r) ==
  \/ r.status = "QUEUED" /\ ~IsPendingQueueRecord(r)
  \/ r.status \in {"STARTING", "RUNNING", "RETRYING", "CANCELLING"} \cup Waiting

(* reconciles_worker: whether maintenance compares r with a worker process;
   a claimed reservation without a PID belongs to the dispatch lease *)
ReconcilesWorker(r) ==
  /\ r.status \in Active
  /\ ~IsPendingQueueRecord(r)
  /\ ~(r.status = "STARTING" /\ r.dispatch = "CLAIMED" /\ r.pid = NoOne)
=============================================================================
