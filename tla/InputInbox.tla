----------------------------- MODULE InputInbox -----------------------------
(***************************************************************************)
(* The input inbox of one background session: the messages that users send *)
(* it (background/input_inbox.py), the supervisors that accept them and    *)
(* start a worker for them (supervisor.py, maintenance.py), and the        *)
(* workers that take them as turns of the conversation (worker.py).        *)
(*                                                                         *)
(* The inbox has a file lock of its own.  The registry record of the       *)
(* session does not fall under it: an operation reads the record, before   *)
(* or after it has the lock, and then appends to the inbox, while the      *)
(* record may change.  A step is therefore a read of the record, or an     *)
(* append, and taking the lock goes with the first of them under it.       *)
(*                                                                         *)
(* The record is BackgroundSession's, reduced to what the inbox reads: its *)
(* commits are single steps here, and a session waits neither in the queue *)
(* nor for an approval.  CANCELLED stands for ARCHIVED and FAILED for      *)
(* ORPHANED, too: input treats them alike.  The input state "claimed",     *)
(* which only logs of an older version contain, is left out.               *)
(***************************************************************************)
EXTENDS SessionStatus, Naturals, FiniteSets

CONSTANTS
  Messages,       \* message_ids
  Controls,       \* those that are /workflow resume or reset commands
  Workers,        \* worker processes, each serves at most one attempt
  Clients,        \* supervisor processes
  Operations,     \* what the supervisors are asked for
  WorkerCrashes,  \* whether a worker may die without being signalled
  MaxPending,     \* MAX_PENDING_MESSAGES
  MaxCalls        \* bound on submissions, cancellations and deletions

ASSUME InputAssumption ==
  /\ Controls \subseteq Messages
  /\ NoOne \notin Workers \cup Clients \cup Messages \cup {"intent"}
  /\ "intent" \notin Messages
  /\ Workers \cap Clients = {}
  /\ Operations \subseteq {"submit", "view", "maintain", "cancel", "delete",
                           "restore"}
  /\ WorkerCrashes \in BOOLEAN
  /\ MaxPending \in Nat \ {0} /\ MaxCalls \in Nat

VARIABLES
  session,   \* the registry record
  receipt,   \* the inbox: what the log says of each message
  lock,      \* the process that has the inbox lock
  worker,    \* local state of each worker process
  client,    \* local state of each supervisor
  calls      \* of those, the number so far

vars == <<session, receipt, lock, worker, client, calls>>

-----------------------------------------------------------------------------
(* The registry record *)

SessionStatuses ==
  {"STARTING", "RUNNING", "CANCELLING", "COMPLETED", "FAILED", "CANCELLED",
   "DELETED"}

(* The statuses an input may start an attempt from *)
Recoverable == {"COMPLETED", "FAILED", "CANCELLED"}

SessionRecord ==
  [status : SessionStatuses, attempt : Nat, lease : Workers \cup {NoOne},
   pid : BOOLEAN,        \* worker_pid is set
   forInput : BOOLEAN,   \* resume_marker starts with "input:"
   cancelled : BOOLEAN,  \* cancellation_reason is set
   stuck : BOOLEAN]      \* worker_exit_reason "workflow_recovery_waiting"

(* A launched session whose worker has not claimed it *)
Launched == [status |-> "STARTING", attempt |-> 0, lease |-> NoOne,
             pid |-> FALSE, forInput |-> FALSE, cancelled |-> FALSE,
             stuck |-> FALSE]

SameOwner(seen) ==
  session.attempt = seen.attempt /\ session.lease = seen.lease

(* _validate_current_owner; attempt and lease identify the same worker *)
IsOwner(w) ==
  w # NoOne /\ session.status \in Active /\ session.lease = w /\ session.pid

-----------------------------------------------------------------------------
(* The inbox *)

InputState ==
  {"absent", "accepted", "delivered", "completed", "failed", "rejected"}

Receipt ==
  [state : InputState,
   owner : Workers \cup {NoOne},  \* owner_attempt and owner_hash
   deferred : BOOLEAN,            \* to be rebound to the next worker
   waiting : BOOLEAN,             \* has a recovery_error
   at : Nat]                      \* accepted_at

Unknown == [state |-> "absent", owner |-> NoOne, deferred |-> FALSE,
            waiting |-> FALSE, at |-> 0]

Known == {m \in Messages : receipt[m].state # "absent"}
Pending == {m \in Messages : receipt[m].state = "accepted"}
Full == Cardinality(Pending) >= MaxPending

(* A new message for the owner o, or deferred if there is none *)
Accepted(o) == [state |-> "accepted", owner |-> o, deferred |-> o = NoOne,
                waiting |-> FALSE, at |-> Cardinality(Known) + 1]

(* Accepted messages that the worker w may take *)
For(w) == {m \in Pending : receipt[m].deferred \/ receipt[m].owner = w}

(* Variant: the newest message first *)
Newest(S) == CHOOSE m \in S : \A n \in S : receipt[n].at <= receipt[m].at

Oldest(S) == CHOOSE m \in S : \A n \in S : receipt[m].at <= receipt[n].at

(* The receipt of a deferred message once it is bound to the worker w *)
Rebound(m, w) ==
  IF receipt[m].deferred
  THEN [receipt[m] EXCEPT !.owner = w, !.deferred = FALSE, !.waiting = FALSE]
  ELSE receipt[m]

(* Variant: a deferred message counts as owned by nobody *)
ReconciledDeferred(seen) ==
  [m \in Messages |->
     IF /\ receipt[m].state \in {"accepted", "delivered"}
        /\ ~(seen.status \in Active /\ receipt[m].owner = seen.lease)
     THEN [receipt[m] EXCEPT !.state = "rejected"] ELSE receipt[m]]

(* What receipts makes of the inbox, for the session record that it read
   before it had the lock: deferred messages are rejected when the session is
   deleted, the others unless their owner is active *)
Reconciled(seen) ==
  [m \in Messages |->
     IF /\ receipt[m].state \in {"accepted", "delivered"}
        /\ IF receipt[m].deferred
           THEN seen.status = "DELETED"
           ELSE ~(seen.status \in Active /\ receipt[m].owner = seen.lease)
     THEN [receipt[m] EXCEPT !.state = "rejected"] ELSE receipt[m]]

-----------------------------------------------------------------------------
(* Processes *)

(* What receipts reads of the record, and what the other operations do *)
Glance == [Launched EXCEPT !.status = session.status, !.lease = session.lease]
Look == [Glance EXCEPT !.attempt = session.attempt]

ClientPC ==
  {"idle", "enqueue", "enqueueAppend", "defer", "deferAppend", "receipts",
   "rearm", "rearmAppend", "start", "cancelled"}

ClientState ==
  [pc : ClientPC, item : Messages \cup {NoOne}, seen : SessionRecord,
   maintains : BOOLEAN]   \* whether maintenance asked for the receipts

Idle == [pc |-> "idle", item |-> NoOne, seen |-> Launched,
         maintains |-> FALSE]

WorkerPC ==
  {"unborn", "acquire", "plan", "planned", "route", "routeAppend", "command",
   "assess", "wait", "waitAppend", "turn", "drain", "rebind", "deliver",
   "settle", "sweep", "finalize", "gone"}

Outcome == {"NONE", "COMPLETED", "FAILED"}

(* What a turn is about: the intent the session was launched for, the turn
   that an earlier attempt left unfinished, or a message *)
Turns == Messages \cup {"intent", "unfinished"}

WorkerState ==
  [pc : WorkerPC,
   phase : {"route", "resumed",         \* recovery of the unfinished turn
            "first", "last"},           \* deferred input, then what is left
   inTurn : BOOLEAN,                    \* a claim is made during a turn
   item : Turns \cup {NoOne},
   seen : SessionRecord,
   due : SUBSET Messages,               \* deferred_inputs of _execute
   todo : SUBSET Messages,              \* controls still to be routed
   delivered : SUBSET Messages,         \* delivered_input_ids
   completed : SUBSET Messages,         \* completed_command_ids
   idle : BOOLEAN,                      \* session_waiting_for_next_input
   fatal : BOOLEAN,                     \* workflow_command_failure
   stuck : BOOLEAN,                     \* recovery is left to the user
   out : Outcome]

Unborn ==
  [pc |-> "unborn", phase |-> "last", inTurn |-> FALSE, item |-> NoOne,
   seen |-> Launched, due |-> {}, todo |-> {}, delivered |-> {},
   completed |-> {}, idle |-> FALSE, fatal |-> FALSE, stuck |-> FALSE,
   out |-> "NONE"]

Alive(w) == worker[w].pc \notin {"unborn", "gone"}
HoldsLease(w) == Alive(w) /\ worker[w].pc # "acquire"

ClientCritical == {"enqueueAppend", "deferAppend", "rearmAppend"}
WorkerCritical == {"routeAppend", "waitAppend", "rebind", "deliver"}

At(c, pc) == client[c].pc = pc
Goto(c, pc) == client' = [client EXCEPT ![c].pc = pc]
GotoSeen(c, pc) == client' = [client EXCEPT ![c].pc = pc, ![c].seen = Look]
Return(c) == client' = [client EXCEPT ![c] = Idle]

WAt(w, pc) == worker[w].pc = pc
WGoto(w, pc) == worker' = [worker EXCEPT ![w].pc = pc]

(* _execute ends with the outcome o; what follows is settle_attempt *)
Ends(w, o) ==
  worker' = [worker EXCEPT ![w] = [Unborn EXCEPT
               !.pc = "settle", !.out = o, !.stuck = worker[w].stuck,
               !.delivered = worker[w].delivered,
               !.completed = worker[w].completed]]

Free == lock = NoOne
Take(p) == Free /\ lock' = p
Unlock == lock' = NoOne

(* A worker is being launched, for the intent of the session or for a message
   that was accepted after an earlier launch had failed *)
Init ==
  /\ \/ /\ receipt = [m \in Messages |-> Unknown]
        /\ session = Launched
     \/ \E first \in Messages \ Controls :
          /\ receipt = [[m \in Messages |-> Unknown] EXCEPT ![first] =
                          [Unknown EXCEPT !.state = "accepted", !.at = 1,
                                          !.deferred = TRUE]]
          /\ session = [Launched EXCEPT !.forInput = TRUE]
  /\ lock = NoOne
  /\ worker = [w \in Workers |-> Unborn]
  /\ client = [c \in Clients |-> Idle]
  /\ calls = 0

-----------------------------------------------------------------------------
(* enqueue_input_or_recover: a supervisor accepts a message *)

Starts(c, op) == At(c, "idle") /\ op \in Operations
Counted == calls < MaxCalls /\ calls' = calls + 1

Submit(c, m, pc, seen) ==
  /\ Starts(c, "submit") /\ Counted
  /\ client' = [client EXCEPT ![c] = [Idle EXCEPT !.pc = pc, !.item = m,
                                                  !.seen = seen]]
  /\ UNCHANGED <<receipt, lock, worker>>

(* The session runs: its live worker is to take the message *)
SubmitLive(c, m) ==
  /\ session.status = "RUNNING" /\ Alive(session.lease)
  /\ Submit(c, m, "enqueue", Glance)
  /\ UNCHANGED session

(* It does not run, or not yet: the message waits for the next worker *)
SubmitDeferred(c, m) ==
  /\ session.status \in Recoverable \cup {"STARTING"}
  /\ Submit(c, m, "defer", Look)
  /\ UNCHANGED session

(* Its worker is gone.  mark_orphaned expects the record that was read; if
   another update came between, the call goes on as from a new read. *)
SubmitOrphan(c, m) ==
  /\ session.status = "RUNNING" /\ ~Alive(session.lease)
  /\ session' = [session EXCEPT !.status = "FAILED"]
  /\ Submit(c, m, "defer", [Look EXCEPT !.status = "FAILED"])

(* enqueue; a message_id that is known already is not accepted again *)
Enqueue(c) ==
  /\ At(c, "enqueue") /\ Free
  /\ IF client[c].item \notin Known /\ ~Full /\ IsOwner(client[c].seen.lease)
     THEN Take(c) /\ Goto(c, "enqueueAppend")
     ELSE Return(c) /\ UNCHANGED lock
  /\ UNCHANGED <<session, receipt, worker, calls>>

EnqueueAppend(c) ==
  /\ At(c, "enqueueAppend")
  /\ receipt' = [receipt EXCEPT ![client[c].item] =
                   Accepted(client[c].seen.lease)]
  /\ Unlock /\ Return(c)
  /\ UNCHANGED <<session, worker, calls>>

(* Variant: the bound on pending messages is not applied to deferred ones *)
DeferUnbounded(c) ==
  /\ At(c, "defer") /\ Free
  /\ IF SameOwner(client[c].seen) /\ session.status # "DELETED"
     THEN Take(c) /\ Goto(c, "deferAppend")
     ELSE Return(c) /\ UNCHANGED lock
  /\ UNCHANGED <<session, receipt, worker, calls>>

(* enqueue_deferred, up to its last look at the record *)
Defer(c) ==
  /\ At(c, "defer") /\ Free
  /\ IF /\ SameOwner(client[c].seen) /\ session.status # "DELETED"
        /\ client[c].item \in Known \/ ~Full
     THEN Take(c) /\ Goto(c, "deferAppend")
     ELSE Return(c) /\ UNCHANGED lock
  /\ UNCHANGED <<session, receipt, worker, calls>>

(* A message of the same ID that is still accepted for a worker becomes a
   deferred one; any other is left as it is *)
Deferred(m) ==
  CASE m \notin Known -> Accepted(NoOne)
    [] m \in Pending -> [receipt[m] EXCEPT !.owner = NoOne, !.deferred = TRUE]
    [] OTHER -> receipt[m]

(* Variant: a message that has been taken already starts an attempt, too *)
DeferAppendStarts(c) ==
  LET m == client[c].item IN
  /\ At(c, "deferAppend")
  /\ receipt' = [receipt EXCEPT ![m] = Deferred(m)]
  /\ Unlock
  /\ IF client[c].seen.status # "STARTING" THEN Goto(c, "rearm") ELSE Return(c)
  /\ UNCHANGED <<session, worker, calls>>

(* Variant: a message that was taken already is accepted anew *)
DeferAppendAgain(c) ==
  LET m == client[c].item IN
  /\ At(c, "deferAppend")
  /\ receipt' = [receipt EXCEPT ![m] =
                   [Accepted(NoOne) EXCEPT !.at = Cardinality(Known)]]
  /\ Unlock
  /\ IF client[c].seen.status # "STARTING" THEN Goto(c, "rearm") ELSE Return(c)
  /\ UNCHANGED <<session, worker, calls>>

(* Only a message that is pending starts an attempt: without one the worker
   would fall back to the intent of the session *)
DeferAppend(c) ==
  LET m == client[c].item IN
  /\ At(c, "deferAppend")
  /\ receipt' = [receipt EXCEPT ![m] = Deferred(m)]
  /\ Unlock
  /\ IF client[c].seen.status # "STARTING" /\ receipt'[m].state = "accepted"
     THEN Goto(c, "rearm") ELSE Return(c)
  /\ UNCHANGED <<session, worker, calls>>

-----------------------------------------------------------------------------
(* _start_deferred_input_attempt: a worker for the deferred messages.  Its
   first read of the record is the one that rearm_recovery_wait makes. *)

Rearm(c) ==
  /\ At(c, "rearm") /\ Free
  /\ IF SameOwner(client[c].seen) /\ session.status \in Recoverable
     THEN Take(c) /\ GotoSeen(c, "rearmAppend")
     ELSE Return(c) /\ UNCHANGED lock
  /\ UNCHANGED <<session, receipt, worker, calls>>

RearmAppend(c) ==
  /\ At(c, "rearmAppend")
  /\ receipt' = [m \in Messages |->
                   IF m \in Pending /\ receipt[m].deferred
                   THEN [receipt[m] EXCEPT !.waiting = FALSE] ELSE receipt[m]]
  /\ Unlock /\ Goto(c, "start")
  /\ UNCHANGED <<session, worker, calls>>

Start(c) ==
  /\ At(c, "start")
  /\ IF session.status = client[c].seen.status /\ SameOwner(client[c].seen)
     THEN session' = [session EXCEPT !.status = "STARTING", !.pid = FALSE,
                        !.forInput = TRUE, !.cancelled = FALSE, !.stuck = FALSE]
     ELSE UNCHANGED session
  /\ Return(c)
  /\ UNCHANGED <<receipt, lock, worker, calls>>

-----------------------------------------------------------------------------
(* receipts: the agents hub shows the inbox, maintenance looks for messages
   that wait for an attempt.  The record is read before the lock is taken. *)

View(c) ==
  /\ Starts(c, "view")
  /\ client' = [client EXCEPT ![c].pc = "receipts", ![c].seen = Glance]
  /\ UNCHANGED <<session, receipt, lock, worker, calls>>

(* Whether maintenance may start an attempt for a deferred message, as
   _pending_input_message decides *)
MayStart(seen) ==
  /\ ~seen.cancelled
  /\ \/ seen.status = "COMPLETED"
     \/ seen.status = "FAILED" /\ (seen.forInput \/ seen.stuck)

Maintain(c) ==
  /\ Starts(c, "maintain") /\ MayStart(session)
  /\ \E m \in Pending : receipt[m].deferred
  /\ client' = [client EXCEPT ![c].pc = "receipts", ![c].maintains = TRUE,
                              ![c].seen = [session EXCEPT !.pid = FALSE]]
  /\ UNCHANGED <<session, receipt, lock, worker, calls>>

(* A message that waits for the user is left alone, except once when the
   session was not started for input *)
ToStart(seen) ==
  {m \in Pending : /\ receipt[m].deferred
                   /\ receipt[m].waiting => seen.stuck /\ ~seen.forInput}

Receipts(c) ==
  /\ At(c, "receipts") /\ Free
  /\ receipt' = Reconciled(client[c].seen)
  /\ IF client[c].maintains /\ ToStart(client[c].seen) # {}
     THEN client' = [client EXCEPT
            ![c].pc = "rearm", ![c].maintains = FALSE,
            ![c].seen.forInput = FALSE, ![c].seen.stuck = FALSE]
     ELSE Return(c)
  /\ UNCHANGED <<session, lock, worker, calls>>

-----------------------------------------------------------------------------
(* Updates of the record by other calls of the supervisors, which
   BackgroundSession models in detail *)

Update(r) == session' = r /\ UNCHANGED <<receipt, lock, worker>>

(* _launch records the PID of the worker it has spawned *)
RecordPid ==
  /\ session.status = "STARTING" /\ ~session.pid
  /\ Update([session EXCEPT !.pid = TRUE])
  /\ UNCHANGED <<client, calls>>

Cancel(c) ==
  /\ Starts(c, "cancel") /\ Counted
  /\ session.status \notin {"COMPLETED", "CANCELLED", "DELETED"}
  /\ Update([session EXCEPT !.status = "CANCELLING", !.cancelled = TRUE])
  /\ Goto(c, "cancelled")

(* The grace period is over, whether or not the worker is *)
Cancelled(c) ==
  /\ At(c, "cancelled")
  /\ Update(IF session.status = "CANCELLING"
            THEN [session EXCEPT !.status = "CANCELLED", !.lease = NoOne]
            ELSE session)
  /\ Return(c) /\ UNCHANGED calls

Delete ==
  /\ "delete" \in Operations /\ session.status \in Recoverable
  /\ Update([session EXCEPT !.status = "DELETED"])
  /\ Counted /\ UNCHANGED client

RestoreDeleted ==
  /\ "restore" \in Operations /\ session.status = "DELETED"
  /\ Update([session EXCEPT !.status = "COMPLETED"])
  /\ Counted /\ UNCHANGED client

(* Maintenance finds the worker of the session dead *)
MarkOrphaned ==
  /\ session.status \in {"RUNNING", "CANCELLING"} /\ session.lease # NoOne
  /\ ~Alive(session.lease)
  /\ Update([session EXCEPT !.status = "FAILED"])
  /\ UNCHANGED <<client, calls>>

-----------------------------------------------------------------------------
(* A worker: claim the session, take over its owner lease *)

Claim(w) ==
  /\ WAt(w, "unborn") /\ session.status = "STARTING"
  /\ session' = [session EXCEPT !.status = "RUNNING", !.lease = w, !.pid = TRUE,
                   !.attempt = @ + 1, !.cancelled = FALSE, !.stuck = FALSE]
  /\ WGoto(w, "acquire")
  /\ UNCHANGED <<receipt, lock, client, calls>>

(* The child dies, or cannot be spawned, before it claims the session *)
LaunchFails(w) ==
  /\ WAt(w, "unborn") /\ session.status = "STARTING"
  /\ session' = [session EXCEPT !.status = "FAILED"]
  /\ WGoto(w, "gone")
  /\ UNCHANGED <<receipt, lock, client, calls>>

Acquire(w) ==
  /\ WAt(w, "acquire")
  /\ IF \E v \in Workers \ {w} : HoldsLease(v)
     THEN worker' = [worker EXCEPT ![w].pc = "finalize", ![w].out = "FAILED"]
     ELSE WGoto(w, "plan")
  /\ UNCHANGED <<session, receipt, lock, client, calls>>

-----------------------------------------------------------------------------
(* _execute: what the attempt is for *)

(* The record must be this attempt's; receipts reads it once more, at once *)
Plan(w) ==
  /\ WAt(w, "plan")
  /\ IF session.status = "RUNNING" /\ session.lease = w
     THEN worker' = [worker EXCEPT ![w].pc = "planned", ![w].seen = Glance]
     ELSE Ends(w, "FAILED")
  /\ UNCHANGED <<session, receipt, lock, client, calls>>

(* The turn comes first; the inbox is drained once it is over *)
Turn(local, item) ==
  [local EXCEPT !.pc = "turn", !.phase = "last", !.item = item]

(* Deferred messages take precedence over the intent of the session *)
Serve(local) ==
  IF local.due # {} THEN [local EXCEPT !.pc = "drain", !.phase = "first"]
                    ELSE Turn(local, "intent")

(* The journal may end in an unfinished turn.  Then controls are routed
   first; route_recovery_control_inputs lists them by a call of receipts
   that follows this one at once. *)
Planned(w) ==
  /\ WAt(w, "planned") /\ Free
  /\ receipt' = Reconciled(worker[w].seen)
  /\ LET due == {m \in Messages : /\ receipt'[m].state = "accepted"
                                  /\ receipt'[m].deferred}
         todo == {m \in Controls : receipt'[m].state = "accepted"}
         local == [worker[w] EXCEPT !.due = due, !.seen = Launched]
     IN \/ worker' = [worker EXCEPT ![w] = Serve(local)]
        \/ worker' = [worker EXCEPT ![w] = [local EXCEPT
                        !.pc = "route", !.phase = "route", !.todo = todo]]
  /\ UNCHANGED <<session, lock, client, calls>>

(* claim_by_id; it raises if the session has another owner *)
Route(w) ==
  /\ WAt(w, "route") /\ worker[w].todo # {} /\ Free
  /\ IF IsOwner(w) THEN Take(w) /\ WGoto(w, "routeAppend")
                   ELSE Ends(w, "FAILED") /\ UNCHANGED lock
  /\ UNCHANGED <<session, receipt, client, calls>>

RouteAppend(w) ==
  LET m == Oldest(worker[w].todo) IN
  /\ WAt(w, "routeAppend")
  /\ IF m \in For(w)
     THEN /\ receipt' = [receipt EXCEPT ![m] =
                           [Rebound(m, w) EXCEPT !.state = "delivered"]]
          /\ worker' = [worker EXCEPT ![w].pc = "command", ![w].item = m,
                          ![w].todo = @ \ {m}, ![w].delivered = @ \cup {m}]
     ELSE /\ worker' = [worker EXCEPT ![w].pc = "route", ![w].todo = @ \ {m}]
          /\ UNCHANGED receipt
  /\ Unlock
  /\ UNCHANGED <<session, client, calls>>

(* Where a worker is once an item has been dealt with *)
AfterItem(local) ==
  [local EXCEPT !.item = NoOne,
                !.pc = IF local.phase \in {"route", "resumed"}
                       THEN "route" ELSE "drain"]

(* _dispatch_workflow_input: the command is carried out or refused *)
CommandEnds(w) ==
  /\ WAt(w, "command")
  /\ \E waits \in BOOLEAN :
       worker' = [worker EXCEPT ![w] = AfterItem([worker[w] EXCEPT
                    !.completed = @ \cup {worker[w].item}, !.idle = waits])]
  /\ UNCHANGED <<session, receipt, lock, client, calls>>

(* It fails fatally: reject, which raises if a reader has closed the receipt *)
CommandRejected(w) ==
  LET m == worker[w].item IN
  /\ WAt(w, "command") /\ Free
  /\ IF receipt[m].state = "delivered" /\ receipt[m].owner = w
     THEN /\ receipt' = [receipt EXCEPT ![m].state = "rejected"]
          /\ worker' = [worker EXCEPT ![w] = AfterItem([worker[w] EXCEPT
                          !.delivered = @ \ {m}, !.fatal = TRUE])]
     ELSE Ends(w, "FAILED") /\ UNCHANGED receipt
  /\ UNCHANGED <<session, lock, client, calls>>

(* The unfinished turn is gone, or it is resumed by itself, or the workflow it
   belongs to is, once, or the user has to say whose it is *)
Assess(w) ==
  /\ WAt(w, "route") /\ worker[w].todo = {}
  /\ \/ worker' = [worker EXCEPT ![w] = Serve(@)]
     \/ worker' = [worker EXCEPT ![w].pc = "wait", ![w].stuck = TRUE]
     \/ /\ worker[w].phase = "route"
        /\ \/ worker' = [worker EXCEPT ![w] = Turn(@, "unfinished")]
           \/ worker' = [worker EXCEPT ![w] =
                 [Turn(@, "unfinished") EXCEPT !.phase = "resumed"]]
  /\ UNCHANGED <<session, receipt, lock, client, calls>>

(* mark_waiting_recovery; whether or not it succeeds, the attempt ends *)
Wait(w) ==
  /\ WAt(w, "wait") /\ Free
  /\ IF IsOwner(w) THEN Take(w) /\ WGoto(w, "waitAppend")
                   ELSE Ends(w, "FAILED") /\ UNCHANGED lock
  /\ UNCHANGED <<session, receipt, client, calls>>

(* Variant: messages that were delivered wait for the user, too *)
WaitAppendAll(w) ==
  /\ WAt(w, "waitAppend")
  /\ receipt' = [m \in Messages |->
       IF m \in For(w) \cup {n \in Messages : receipt[n].state = "delivered"}
       THEN [receipt[m] EXCEPT !.state = "accepted", !.owner = NoOne,
                               !.deferred = TRUE, !.waiting = TRUE]
       ELSE receipt[m]]
  /\ Unlock /\ Ends(w, "FAILED")
  /\ UNCHANGED <<session, client, calls>>

WaitAppend(w) ==
  /\ WAt(w, "waitAppend")
  /\ receipt' = [m \in Messages |->
       IF m \in For(w)
       THEN [receipt[m] EXCEPT !.owner = NoOne, !.deferred = TRUE,
                               !.waiting = TRUE]
       ELSE receipt[m]]
  /\ Unlock /\ Ends(w, "FAILED")
  /\ UNCHANGED <<session, client, calls>>

-----------------------------------------------------------------------------
(* claim_next: at a tool boundary of a turn, and between turns *)

(* Turns and commands after _execute do not look for messages: the source of
   queued messages is bound during _execute only *)
Bound(w) ==
  /\ worker[w].pc \in {"turn", "command"}
  /\ worker[w].phase # "last" \/ worker[w].item \in {"intent", "unfinished"}

(* It raises if the session has another owner *)
ClaimNext(w) ==
  /\ WAt(w, "drain") \/ Bound(w)
  /\ Free
  /\ IF IsOwner(w)
     THEN /\ Take(w)
          /\ worker' = [worker EXCEPT ![w].pc = "rebind", ![w].inTurn = Bound(w)]
     ELSE Ends(w, "FAILED") /\ UNCHANGED lock
  /\ UNCHANGED <<session, receipt, client, calls>>

(* No message is left: after the deferred ones, _execute reports those that
   it missed; after the others, run_worker is done *)
Drained(w) ==
  LET first == worker[w].phase = "first"
      missed == first /\ ~(worker[w].due \subseteq worker[w].delivered)
  IN CASE missed \/ worker[w].fatal -> Ends(w, "FAILED")
       [] ~missed /\ ~worker[w].fatal /\ worker[w].idle -> Ends(w, "FAILED")
       [] OTHER -> IF first
                   THEN worker' = [worker EXCEPT ![w].pc = "drain",
                                     ![w].phase = "last", ![w].due = {}]
                   ELSE Ends(w, "COMPLETED")

(* Back from a claim to the turn or command that made it *)
Resume(local) ==
  [local EXCEPT !.pc = IF local.item \in Controls THEN "command" ELSE "turn",
                !.inTurn = FALSE]

(* The oldest message is bound to this attempt.  In a turn a command may be
   left for later. *)
Rebind(w) ==
  LET next == Oldest(For(w)) IN
  /\ WAt(w, "rebind")
  /\ \/ /\ For(w) # {}
        /\ receipt' = [receipt EXCEPT ![next] = Rebound(next, w)]
        /\ WGoto(w, "deliver") /\ UNCHANGED lock
     \/ /\ worker[w].inTurn
        /\ For(w) # {} => next \in Controls
        /\ worker' = [worker EXCEPT ![w] = Resume(@)]
        /\ Unlock /\ UNCHANGED receipt
     \/ /\ ~worker[w].inTurn /\ For(w) = {}
        /\ Drained(w)
        /\ Unlock /\ UNCHANGED receipt
  /\ UNCHANGED <<session, client, calls>>

(* What becomes of the message that was delivered: it joins the turn, where a
   command is answered at once, or it is a turn or a command of its own *)
TakeUp(local, m) ==
  CASE local.inTurn /\ m \in Controls ->
         [Resume(local) EXCEPT !.idle = TRUE, !.completed = @ \cup {m}]
    [] local.inTurn /\ m \notin Controls -> Resume(local)
    [] ~local.inTurn /\ m \in Controls ->
         [local EXCEPT !.pc = "command", !.item = m]
    [] OTHER -> [local EXCEPT !.pc = "turn", !.item = m]

(* Variant: the newest message is delivered *)
DeliverNewest(w) ==
  LET m == Newest(For(w)) IN
  /\ WAt(w, "deliver")
  /\ receipt' = [receipt EXCEPT ![m] =
                   [Rebound(m, w) EXCEPT !.state = "delivered"]]
  /\ worker' = [worker EXCEPT ![w] =
                  TakeUp([worker[w] EXCEPT !.delivered = @ \cup {m}], m)]
  /\ Unlock
  /\ UNCHANGED <<session, client, calls>>

Deliver(w) ==
  LET m == Oldest(For(w)) IN
  /\ WAt(w, "deliver")
  /\ receipt' = [receipt EXCEPT ![m].state = "delivered"]
  /\ worker' = [worker EXCEPT ![w] =
                  TakeUp([worker[w] EXCEPT !.delivered = @ \cup {m}], m)]
  /\ Unlock
  /\ UNCHANGED <<session, client, calls>>

(* The turn is over; a message that was a turn of its own is completed *)
TurnEnds(w) ==
  LET m == worker[w].item IN
  /\ WAt(w, "turn")
  /\ worker' = [worker EXCEPT ![w] = AfterItem(
       IF m \in Messages
       THEN [worker[w] EXCEPT !.completed = @ \cup {m}, !.idle = FALSE]
       ELSE worker[w])]
  /\ UNCHANGED <<session, receipt, lock, client, calls>>

(* A turn or a command raises, or the wall-clock limit is over *)
TurnFails(w) ==
  /\ worker[w].pc \in {"turn", "command"} /\ Ends(w, "FAILED")
  /\ UNCHANGED <<session, receipt, lock, client, calls>>

(* The task is cancelled by the supervisor's signal: no outcome *)
Interrupt(w) ==
  /\ session.status \in {"CANCELLING", "CANCELLED"}
  /\ worker[w].pc \in {"turn", "command"} /\ Ends(w, "NONE")
  /\ UNCHANGED <<session, receipt, lock, client, calls>>

-----------------------------------------------------------------------------
(* The end of a worker *)

(* Variant: what was accepted for the attempt is closed like what it took *)
SettledAll(w, m) ==
  LET done == worker[w].out = "COMPLETED" \/ m \in worker[w].completed IN
  IF receipt[m].owner = w /\ receipt[m].state \in {"accepted", "delivered"}
  THEN IF done THEN "completed" ELSE "failed"
  ELSE receipt[m].state

(* settle_attempt, for one message *)
Settled(w, m) ==
  LET done == worker[w].out = "COMPLETED" \/ m \in worker[w].completed IN
  CASE receipt[m].owner # w -> receipt[m].state
    [] receipt[m].owner = w /\ receipt[m].state = "accepted" -> "rejected"
    [] /\ receipt[m].owner = w /\ receipt[m].state = "delivered"
       /\ m \in worker[w].delivered -> IF done THEN "completed" ELSE "failed"
    [] OTHER -> receipt[m].state

(* When nothing changes, settle_attempt goes on with receipts *)
Settle(w) ==
  /\ WAt(w, "settle") /\ Free
  /\ receipt' = [m \in Messages |->
                   [receipt[m] EXCEPT !.state = Settled(w, m)]]
  /\ worker' = IF receipt' = receipt
               THEN [worker EXCEPT ![w].pc = "sweep", ![w].completed = {},
                                   ![w].seen = Glance]
               ELSE [worker EXCEPT ![w].pc = "finalize", ![w].completed = {}]
  /\ UNCHANGED <<session, lock, client, calls>>

Sweep(w) ==
  /\ WAt(w, "sweep") /\ Free
  /\ receipt' = Reconciled(worker[w].seen)
  /\ worker' = [worker EXCEPT ![w].pc = "finalize", ![w].seen = Launched]
  /\ UNCHANGED <<session, lock, client, calls>>

Gone(w) ==
  worker' = [worker EXCEPT ![w] =
               [Unborn EXCEPT !.pc = "gone", !.delivered = worker[w].delivered]]

(* _finalize_worker; the release of the owner lease follows it at once *)
Finalize(w) ==
  LET out == worker[w].out
      ended(status) == [session EXCEPT !.status = status, !.lease = NoOne,
                                       !.stuck = worker[w].stuck]
  IN /\ WAt(w, "finalize")
     /\ session' =
          CASE session.lease = w /\ session.status = "RUNNING" /\ out # "NONE" ->
                 ended(out)
            [] session.lease = w /\ session.status = "CANCELLING"
               /\ out # "NONE" ->
                 [ended("CANCELLED") EXCEPT !.stuck = FALSE]
            [] OTHER -> session
     /\ Gone(w)
     /\ UNCHANGED <<receipt, lock, client, calls>>

(* The operating system drops the lock of a process that dies *)
WorkerDies(w) ==
  /\ WorkerCrashes /\ Alive(w)
  /\ Gone(w)
  /\ lock' = IF lock = w THEN NoOne ELSE lock
  /\ UNCHANGED <<session, receipt, client, calls>>

-----------------------------------------------------------------------------

InCall(c) ==
  \/ Enqueue(c) \/ EnqueueAppend(c) \/ Defer(c) \/ DeferAppend(c)
  \/ Rearm(c) \/ RearmAppend(c) \/ Start(c) \/ Receipts(c) \/ Cancelled(c)

InWorker(w) ==
  \/ Acquire(w) \/ Plan(w) \/ Planned(w)
  \/ Route(w) \/ RouteAppend(w) \/ Assess(w) \/ Wait(w) \/ WaitAppend(w)
  \/ CommandEnds(w) \/ ClaimNext(w) \/ Rebind(w) \/ Deliver(w) \/ TurnEnds(w)
  \/ Settle(w) \/ Sweep(w) \/ Finalize(w)

Next ==
  \/ \E c \in Clients :
       \/ \E m \in Messages :
            SubmitLive(c, m) \/ SubmitDeferred(c, m) \/ SubmitOrphan(c, m)
       \/ View(c) \/ Maintain(c) \/ Cancel(c) \/ InCall(c)
  \/ RecordPid \/ Delete \/ RestoreDeleted \/ MarkOrphaned
  \/ \E w \in Workers :
       \/ Claim(w) \/ LaunchFails(w) \/ InWorker(w)
       \/ CommandRejected(w) \/ TurnFails(w) \/ Interrupt(w) \/ WorkerDies(w)

Spec == Init /\ [][Next]_vars

-----------------------------------------------------------------------------
(* Type correctness, with the mutual exclusion of the inbox lock: whoever
   appends has it *)
InputTypeOK ==
  /\ session \in SessionRecord
  /\ receipt \in [Messages -> Receipt]
  /\ lock \in Workers \cup Clients \cup {NoOne}
  /\ worker \in [Workers -> WorkerState]
  /\ client \in [Clients -> ClientState]
  /\ calls \in 0..MaxCalls
  /\ \A c \in Clients : client[c].pc \in ClientCritical <=> lock = c
  /\ \A w \in Workers : worker[w].pc \in WorkerCritical <=> lock = w

(* "Messages are processed FIFO and at most once" (PRD-216, FR-7): no message
   is taken by two workers, through deferral, recovery waits, retries of the
   submission and crashes *)
TakenOnce ==
  \A v, w \in Workers : v # w => worker[v].delivered \cap worker[w].delivered = {}

(* A receipt says completed or failed only of a message that the worker it
   names has taken (settle_attempt, delivered_ids) *)
ReceiptsTrue ==
  \A m \in Messages :
    receipt[m].state \in {"delivered", "completed", "failed"} =>
      /\ receipt[m].owner # NoOne
      /\ m \in worker[receipt[m].owner].delivered

(* No more than MAX_PENDING_MESSAGES messages are pending, whichever way they
   are accepted *)
QueueBounded == Cardinality(Pending) <= MaxPending

(* A closed receipt stays as it is: a retried submission or a recovery does
   not open it again (PRD-241, FR-8) *)
ClosedForGood ==
  [][\A m \in Messages :
       receipt[m].state \in {"completed", "failed", "rejected"}
         => receipt'[m].state = receipt[m].state]_vars

(* "Ordinary messages must retain their accepted order at the conversation
   boundary" (PRD-241, 5.6): what claim_next delivers is older than anything
   else the worker could take *)
InOrder ==
  [][\A w \in Workers : WAt(w, "deliver") =>
       \A m \in worker'[w].delivered \ worker[w].delivered, n \in For(w) :
         receipt[m].at <= receipt[n].at]_vars

(* "The old request's intent is not submitted as a new user turn" by an
   attempt that was started for a message (PRD-216, FR-4; _defer_and_resume):
   it finds the message and serves it.  The exception is a session that was
   deleted, had the message rejected, and was restored meanwhile. *)
InputFirst ==
  [][\A w \in Workers :
       /\ worker[w].item # "intent" /\ worker'[w].item = "intent"
       /\ session.lease = w /\ session.forInput
       => \E m \in Messages : receipt[m].deferred /\ receipt[m].state = "rejected"]_vars

(* A message that waits for a worker is rejected only by a reader that saw
   the session deleted (receipts), never as work of an attempt that is over *)
DeferredKept ==
  [][\A m \in Messages :
       /\ receipt[m].state = "accepted" /\ receipt[m].deferred
       /\ receipt'[m].state = "rejected"
       => \/ \E p \in Clients : client[p].seen.status = "DELETED"
          \/ \E p \in Workers : worker[p].seen.status = "DELETED"]_vars

(* "If the owner attempt has ended, accepted/delivered records cannot be
   consumed safely.  Reconcile them as rejected" (input_inbox.py, receipts):
   a reader rejects no message of a worker that still owns the session *)
LiveInputNotRejected ==
  [][\A m \in Messages :
       LET w == receipt[m].owner IN
       /\ receipt[m].state # "rejected" /\ receipt'[m].state = "rejected"
       /\ IsOwner(w)
       => worker'[w] # worker[w]]_vars
=============================================================================
