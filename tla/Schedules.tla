------------------------------ MODULE Schedules ------------------------------
(***************************************************************************)
(* One repository schedule and its occurrences (schedules/store.py), the   *)
(* user's operations on it (manager.py), the scheduler services that claim *)
(* its due ticks and dispatch them (scheduler.py), and the background      *)
(* sessions that run them.                                                 *)
(*                                                                         *)
(* The database serialises transactions; a service reads in one and writes *)
(* in a later one, so each read and each write is a step.  A user's call   *)
(* is one step: its write compares the revision it read.  The service      *)
(* lease and the dispatch lock are operating-system locks, which a process *)
(* that dies gives back; an interrupted service gives its lease back while *)
(* the thread of its last tick goes on (run awaits asyncio.to_thread).     *)
(*                                                                         *)
(* Time is counted in units of which Interval make the recurrence; a cron  *)
(* expression is an interval of one.  Prompts, worktrees and receipts are  *)
(* left out, except that the first dispatch of an occurrence prepares its  *)
(* worktree and writes it down.  The policy of a schedule stays the same.  *)
(***************************************************************************)
EXTENDS Integers, FiniteSets

CONSTANTS
  NoOne,          \* the absent process
  Services,       \* processes that may run the scheduler
  Policies,       \* coalescing policies the schedule may have
  Kinds,          \* "interval" or "once"
  Interval,       \* length of the recurrence
  MaxInFlight,    \* max_in_flight, for allow_bounded
  MaxTime,        \* bound on the clock
  MaxRequests,    \* bound on the runs, retries and revisions users ask for
  MaxFaults       \* bound on the services that die or are interrupted

ASSUME ScheduleAssumption ==
  /\ NoOne \notin Services
  /\ Policies \subseteq {"skip", "queue_one", "allow_bounded"}
  /\ Kinds \subseteq {"interval", "once"}
  /\ Interval \in Nat \ {0} /\ MaxInFlight \in Nat \ {0}
  /\ MaxTime \in Nat \ {0} /\ MaxRequests \in Nat /\ MaxFaults \in Nat

VARIABLES
  schedule,   \* the row of schedules
  occ,        \* the rows of schedule_occurrences, by occurrence
  session,    \* the background session of each occurrence
  starts,     \* how many sessions were created for it
  ticks,      \* the due ticks that were claimed for each occurrence (history)
  clock,
  lease,      \* the process with scheduler.lock
  dispatcher, \* the process with dispatch.lock
  service,    \* local state of each process
  faults

rows == <<schedule, occ>>
background == <<session, starts>>
vars == <<schedule, occ, session, starts, ticks, clock, lease, dispatcher,
          service, faults>>

-----------------------------------------------------------------------------
(* Occurrences *)

Occurrences == 1 .. MaxTime + MaxRequests
Times == 0 .. MaxTime + Interval
Never == MaxTime + Interval + 1   \* next_run_at is None

(* OccurrenceState; "none" where there is no row yet *)
Unclaimed == {"awaiting_service", "queued"}
PendingStates == Unclaimed \cup {"waiting_capacity", "preparing"}
InFlight == PendingStates \cup {"running"}
Settled == {"completed", "failed", "blocked", "skipped", "cancelled"}
OccurrenceState == {"none"} \cup InFlight \cup Settled

Occurrence ==
  [state : OccurrenceState, kind : {"scheduled", "manual", "retry"},
   at : Times,               \* created_at
   prepared : BOOLEAN,       \* base commit and worktree are recorded
   merged : 0 .. MaxTime]    \* coalesced_count

NoRow == [state |-> "none", kind |-> "manual", at |-> 0, prepared |-> FALSE,
          merged |-> 0]

InFlightNow == {o \in Occurrences : occ[o].state \in InFlight}
Queued == {o \in Occurrences : occ[o].state = "queued"}
Others(o) == InFlightNow \ {o}
Created == {o \in Occurrences : occ[o].state # "none"}
Manual == {o \in Created : occ[o].kind # "scheduled"}

(* The row a new occurrence gets *)
NextRow == Cardinality(Created) + 1

NewRow(state, kind, at) ==
  [NoRow EXCEPT !.state = state, !.kind = kind, !.at = at]

(* list_occurrences orders by created_at; ties fall as the identities do *)
Earliest(set) == {o \in set : \A p \in set : occ[o].at <= occ[p].at}

(* The session status as the scheduler tells statuses apart: "accepted" is
   QUEUED or STARTING, "cancelled" also DELETED, and "other" what the
   scheduler passes over (CANCELLING, ORPHANED, ARCHIVED), alive or not *)
SessionState == {"none", "accepted", "running", "other", "completed",
                 "failed", "cancelled"}
Live == {"accepted", "running", "other"}

SessionMoves ==
  [accepted |-> {"running", "failed", "other"},
   running  |-> {"completed", "failed", "other"},
   other    |-> {"cancelled"}]

(* A scheduler that does not know CANCELLED *)
ReportedUncancelled(status) ==
  CASE status \in {"completed", "failed"} -> status
    [] status = "accepted" -> "waiting_capacity"
    [] status = "running" -> "running"
    [] OTHER -> "none"

(* What _reconcile_background makes of it; "none" where it goes on *)
Reported(status) ==
  CASE status \in {"completed", "failed", "cancelled"} -> status
    [] status = "accepted" -> "waiting_capacity"
    [] status = "running" -> "running"
    [] OTHER -> "none"

(* next_run_after: the first tick of the recurrence that is in the future *)
NextRunAfter(kind, previous, now) ==
  LET passed == (now - previous) \div Interval + 1
      steps == IF passed > 1 THEN passed ELSE 1
  IN IF kind = "once" THEN Never ELSE previous + steps * Interval

-----------------------------------------------------------------------------
(* Processes *)

PC == {"idle", "reconcile", "record", "claim", "list", "each", "skip",
       "reserve", "prepare", "submit", "receipt"}

(* Where dispatch.lock is held *)
Dispatching == {"each", "skip", "reserve", "prepare", "submit", "receipt"}

IdleService ==
  [pc |-> "idle", now |-> 0, todo |-> {}, cur |-> 1, plan |-> "none",
   marked |-> {},
   revision |-> 0, due |-> 0, target |-> 0]

ServiceState ==
  [pc : PC, now : Times, todo : SUBSET Occurrences,
   cur : Occurrences,                          \* the occurrence at hand
   plan : OccurrenceState,                     \* the state to write next
   marked : SUBSET Occurrences,   \* listed as running, or as queued
   revision : 0 .. MaxRequests, due : Times,  \* of the schedule as read
   target : {0} \cup Occurrences]              \* coalesce_target_id

(* A schedule as it was created, which is paused, or resumed since *)
Init ==
  /\ \E policy \in Policies, kind \in Kinds, enabled \in BOOLEAN :
       schedule = [enabled |-> enabled, deleted |-> FALSE, revision |-> 0,
                   due |-> Interval, policy |-> policy, kind |-> kind]
  /\ occ = [o \in Occurrences |-> NoRow]
  /\ session = [o \in Occurrences |-> "none"]
  /\ starts = [o \in Occurrences |-> 0]
  /\ ticks = [o \in Occurrences |-> {}]
  /\ clock = 0 /\ faults = 0
  /\ lease = NoOne /\ dispatcher = NoOne
  /\ service = [s \in Services |-> IdleService]

At(s, pc) == service[s].pc = pc

Goto(s, pc) == service' = [service EXCEPT ![s].pc = pc]

(* On to the next occurrence of the list *)
Done(s, o) ==
  service' =
    [service EXCEPT ![s].todo = @ \ {o}, ![s].marked = @ \ {o},
                    ![s].cur = 1, ![s].plan = "none",
                    ![s].pc = IF service[s].pc \in {"reconcile", "record"}
                              THEN "reconcile" ELSE "each"]

Handle(s, o, pc, plan) ==
  service' = [service EXCEPT ![s].pc = pc, ![s].cur = o, ![s].plan = plan]

ToDispatch(s) ==
  service' = [service EXCEPT ![s] = [IdleService EXCEPT !.pc = "list"]]

Write(o, state) == occ' = [occ EXCEPT ![o].state = state]

-----------------------------------------------------------------------------
(* The service *)

(* ScheduleServiceLease.acquire, as run begins *)
Serve(s) ==
  /\ lease = NoOne /\ At(s, "idle")
  /\ lease' = s
  /\ UNCHANGED <<rows, background, ticks, clock, dispatcher, service, faults>>

(* run is cancelled: the lease is free, the thread of tick goes on *)
Interrupt(s) ==
  /\ lease = s /\ faults < MaxFaults
  /\ lease' = NoOne /\ faults' = faults + 1
  /\ UNCHANGED <<rows, background, ticks, clock, dispatcher, service>>

(* The process dies, or an exception ends the tick, which loses no less *)
Die(s) ==
  /\ ~At(s, "idle") /\ faults < MaxFaults
  /\ faults' = faults + 1
  /\ service' = [service EXCEPT ![s] = IdleService]
  /\ lease' = IF lease = s THEN NoOne ELSE lease
  /\ dispatcher' = IF dispatcher = s THEN NoOne ELSE dispatcher
  /\ UNCHANGED <<rows, background, ticks, clock>>

(* tick: the time, and _reconcile_background lists the occurrences *)
BeginTick(s) ==
  /\ lease = s /\ At(s, "idle")
  /\ LET active == {o \in Occurrences :
                      occ[o].state \in {"running", "waiting_capacity"}}
     IN service' =
          [service EXCEPT ![s] =
             [IdleService EXCEPT !.pc = "reconcile", !.now = clock,
                !.todo = active,
                !.marked = {o \in active : occ[o].state = "running"}]]
  /\ UNCHANGED <<rows, background, ticks, clock, lease, dispatcher, faults>>

(* background_lookup of one occurrence *)
Lookup(s) ==
  /\ At(s, "reconcile")
  /\ \E o \in Earliest(service[s].todo) :
       LET state == Reported(session[o])
           listed == IF o \in service[s].marked THEN "running"
                                                ELSE "waiting_capacity"
       IN IF state \in {"none", listed}
          THEN Done(s, o)
          ELSE Handle(s, o, "record", state)
  /\ UNCHANGED <<rows, background, ticks, clock, lease, dispatcher, faults>>

Record(s) ==
  /\ At(s, "record")
  /\ Write(service[s].cur, service[s].plan)
  /\ Done(s, service[s].cur)
  /\ UNCHANGED <<schedule, background, ticks, clock, lease, dispatcher, faults>>

-----------------------------------------------------------------------------
(* _claim_due *)

(* The state a due tick gets, from the occurrences in flight *)
Admission ==
  CASE schedule.policy = "skip" /\ InFlightNow # {} -> "skipped"
    [] schedule.policy = "queue_one" /\ InFlightNow # {} -> "queued"
    [] schedule.policy = "allow_bounded"
         /\ Cardinality(InFlightNow) >= MaxInFlight -> "skipped"
    [] OTHER -> "awaiting_service"

DueNow(now) ==
  schedule.enabled /\ ~schedule.deleted /\ schedule.due <= now

(* due_schedules and inflight_for: nothing is due *)
NothingDue(s) ==
  /\ At(s, "reconcile") /\ service[s].todo = {}
  /\ ~DueNow(service[s].now)
  /\ ToDispatch(s)
  /\ UNCHANGED <<rows, background, ticks, clock, lease, dispatcher, faults>>

(* ... the schedule is due: how its tick is to be admitted *)
ReadDue(s) ==
  /\ At(s, "reconcile") /\ service[s].todo = {}
  /\ DueNow(service[s].now)
  /\ \E target \in IF Admission = "queued" /\ Queued # {} THEN Queued ELSE {0} :
       service' =
         [service EXCEPT ![s].pc = "claim", ![s].plan = Admission,
                         ![s].revision = schedule.revision,
                         ![s].due = schedule.due, ![s].target = target]
  /\ UNCHANGED <<rows, background, ticks, clock, lease, dispatcher, faults>>

(* A claim that does not compare the cursor *)
CursorNotCompared(s) == schedule.enabled /\ ~schedule.deleted

(* The cursor is where claim_due_occurrence expects it *)
CursorUnchanged(s) ==
  /\ schedule.enabled /\ ~schedule.deleted
  /\ schedule.revision = service[s].revision /\ schedule.due = service[s].due

(* claim_due_occurrence: the cursor and the occurrence, in one transaction.
   If the cursor or the queued occurrence has changed, nothing is written. *)
ClaimTick(s) ==
  LET me == service[s]
      next == NextRunAfter(schedule.kind, me.due, me.now)
  IN /\ At(s, "claim")
     /\ IF /\ CursorUnchanged(s)
           /\ me.target # 0 => occ[me.target].state = "queued"
           /\ me.target = 0 => NextRow \in Occurrences
        THEN /\ schedule' = [schedule EXCEPT !.due = next]
             /\ \/ /\ me.target # 0
                   /\ occ' = [occ EXCEPT ![me.target].merged = @ + 1]
                   /\ ticks' = [ticks EXCEPT ![me.target] = @ \cup {me.due}]
                \/ /\ me.target = 0
                   /\ occ' = [occ EXCEPT ![NextRow] =
                                NewRow(me.plan, "scheduled", me.now)]
                   /\ ticks' = [ticks EXCEPT ![NextRow] = @ \cup {me.due}]
        ELSE UNCHANGED <<rows, ticks>>
     /\ ToDispatch(s)
     /\ UNCHANGED <<background, clock, lease, dispatcher, faults>>

-----------------------------------------------------------------------------
(* _dispatch_pending *)

(* Another process dispatches: the tick is over *)
DispatchBusy(s) ==
  /\ At(s, "list") /\ dispatcher # NoOne
  /\ service' = [service EXCEPT ![s] = IdleService]
  /\ UNCHANGED <<rows, background, ticks, clock, lease, dispatcher, faults>>

ListPending(s) ==
  /\ At(s, "list") /\ dispatcher = NoOne
  /\ dispatcher' = s
  /\ LET pending == {o \in Occurrences : occ[o].state \in PendingStates}
     IN service' =
          [service EXCEPT ![s] =
             [IdleService EXCEPT !.pc = "each", !.todo = pending,
                !.marked = Queued]]
  /\ UNCHANGED <<rows, background, ticks, clock, lease, faults>>

(* Only a queued occurrence waits; every occurrence waits *)
MustWaitQueued(o, queued) == queued /\ Others(o) # {}
MustWaitAlways(o, queued) == Others(o) # {}

(* inflight_for of the next occurrence: whether it has to wait for others.
   Under "queue_one" both conditions that end the turn say this one. *)
MustWait(o, queued) ==
  \/ (queued \/ schedule.policy = "queue_one") /\ Others(o) # {}
  \/ schedule.policy = "allow_bounded" /\ Cardinality(Others(o)) >= MaxInFlight

Consider(s) ==
  /\ At(s, "each")
  /\ \E o \in Earliest(service[s].todo) :
       IF MustWait(o, o \in service[s].marked)
       THEN Done(s, o)
       ELSE IF schedule.policy = "skip" /\ Others(o) # {}
       THEN Handle(s, o, "skip", "skipped")
       ELSE Handle(s, o, "reserve", "preparing")
  /\ UNCHANGED <<rows, background, ticks, clock, lease, dispatcher, faults>>

SkipOther(s) ==
  /\ At(s, "skip")
  /\ Write(service[s].cur, "skipped")
  /\ Done(s, service[s].cur)
  /\ UNCHANGED <<schedule, background, ticks, clock, lease, dispatcher, faults>>

(* The pending occurrence becomes PREPARING, if it is pending still *)
Reserve(s) ==
  LET o == service[s].cur
  IN /\ At(s, "reserve")
     /\ IF occ[o].state \in PendingStates
        THEN /\ Write(o, "preparing")
             /\ Goto(s, IF occ[o].prepared THEN "submit" ELSE "prepare")
        ELSE Done(s, o) /\ UNCHANGED occ
     /\ UNCHANGED <<schedule, background, ticks, clock, lease, dispatcher, faults>>

(* dispatch: the base commit and the worktree, which git may refuse *)
Prepare(s) ==
  LET o == service[s].cur
  IN /\ At(s, "prepare")
     /\ \/ /\ occ' = [occ EXCEPT ![o].prepared = TRUE, ![o].state = "preparing"]
           /\ Goto(s, "submit")
        \/ /\ Handle(s, o, "receipt", "blocked")
           /\ UNCHANGED occ
     /\ UNCHANGED <<schedule, background, ticks, clock, lease, dispatcher, faults>>

(* The session of an earlier dispatch is adopted *)
Adopt(s) ==
  LET o == service[s].cur
  IN /\ At(s, "submit") /\ session[o] # "none"
     /\ Handle(s, o, "receipt", IF session[o] = "accepted" THEN "waiting_capacity"
                                                          ELSE "running")
     /\ UNCHANGED <<rows, background, ticks, clock, lease, dispatcher, faults>>

(* A dispatch that does not look for the session of an earlier one *)
SubmitAgain(s) ==
  LET o == service[s].cur
  IN /\ At(s, "submit")
     /\ session' = [session EXCEPT ![o] = "accepted"]
     /\ starts' = [starts EXCEPT ![o] = @ + 1]
     /\ Handle(s, o, "receipt", "waiting_capacity")
     /\ UNCHANGED <<rows, ticks, clock, lease, dispatcher, faults>>

(* supervisor.submit accepts the request, and may fail to launch it *)
Submit(s) ==
  LET o == service[s].cur
  IN /\ At(s, "submit") /\ session[o] = "none"
     /\ \/ /\ session' = [session EXCEPT ![o] = "accepted"]
           /\ Handle(s, o, "receipt", "waiting_capacity")
        \/ /\ session' = [session EXCEPT ![o] = "failed"]
           /\ Handle(s, o, "receipt", "running")
     /\ starts' = [starts EXCEPT ![o] = @ + 1]
     /\ UNCHANGED <<rows, ticks, clock, lease, dispatcher, faults>>

(* ... or raises: a limit is reached, or something else is wrong *)
SubmitFails(s) ==
  /\ At(s, "submit") /\ session[service[s].cur] = "none"
  /\ \E state \in {"waiting_capacity", "blocked"} :
       Handle(s, service[s].cur, "receipt", state)
  /\ UNCHANGED <<rows, background, ticks, clock, lease, dispatcher, faults>>

Receipt(s) ==
  /\ At(s, "receipt")
  /\ Write(service[s].cur, service[s].plan)
  /\ Done(s, service[s].cur)
  /\ UNCHANGED <<schedule, background, ticks, clock, lease, dispatcher, faults>>

EndPass(s) ==
  /\ At(s, "each") /\ service[s].todo = {}
  /\ dispatcher' = NoOne
  /\ service' = [service EXCEPT ![s] = IdleService]
  /\ UNCHANGED <<rows, background, ticks, clock, lease, faults>>

-----------------------------------------------------------------------------
(* Users, sessions and time *)

MayAsk == Cardinality(Manual) + schedule.revision < MaxRequests

(* create_manual_occurrence under the policy; refused where it raises *)
RunNowState ==
  CASE schedule.policy = "queue_one" /\ InFlightNow # {} -> "queued"
    [] OTHER -> "awaiting_service"

RunNowAllowed ==
  CASE schedule.policy = "skip" -> InFlightNow = {}
    [] schedule.policy = "queue_one" ->
         \A o \in Occurrences : occ[o].state \notin Unclaimed
    [] OTHER -> Cardinality(InFlightNow) < MaxInFlight

RunNow ==
  /\ ~schedule.deleted /\ RunNowAllowed /\ MayAsk
  /\ occ' = [occ EXCEPT ![NextRow] = NewRow(RunNowState, "manual", clock)]
  /\ UNCHANGED <<schedule, background, ticks, clock, lease, dispatcher,
                 service, faults>>

(* retry: a new occurrence of the revision of a failed or blocked one; no
   revision an occurrence was made of is deleted *)
Retry ==
  /\ \E o \in Occurrences : occ[o].state \in {"failed", "blocked"}
  /\ MayAsk
  /\ occ' = [occ EXCEPT ![NextRow] =
                          NewRow("awaiting_service", "retry", clock)]
  /\ UNCHANGED <<schedule, background, ticks, clock, lease, dispatcher,
                 service, faults>>

Revise(changed) ==
  /\ ~schedule.deleted /\ MayAsk
  /\ schedule' = [changed EXCEPT !.revision = @ + 1]
  /\ UNCHANGED <<occ, background, ticks, clock, lease, dispatcher, service,
                 faults>>

Pause == schedule.enabled /\ Revise([schedule EXCEPT !.enabled = FALSE])

Resume ==
  /\ ~schedule.enabled /\ schedule.due # Never
  /\ Revise([schedule EXCEPT !.enabled = TRUE])

(* An edit pauses the schedule and computes its next run anew *)
Update == Revise([schedule EXCEPT !.enabled = FALSE, !.due = clock + Interval])

Delete == Revise([schedule EXCEPT !.enabled = FALSE, !.deleted = TRUE])

(* A background session goes on by itself *)
SessionStep(o) ==
  /\ session[o] \in DOMAIN SessionMoves
  /\ \E status \in SessionMoves[session[o]] :
       session' = [session EXCEPT ![o] = status]
  /\ UNCHANGED <<rows, starts, ticks, clock, lease, dispatcher, service, faults>>

TimePasses ==
  /\ clock < MaxTime
  /\ clock' = clock + 1
  /\ UNCHANGED <<rows, background, ticks, lease, dispatcher, service, faults>>

-----------------------------------------------------------------------------

Reconcile(s) == Lookup(s) \/ Record(s)
Claim(s) == NothingDue(s) \/ ReadDue(s) \/ ClaimTick(s)
Dispatch(s) ==
  \/ DispatchBusy(s) \/ ListPending(s) \/ Consider(s) \/ SkipOther(s)
  \/ Reserve(s) \/ Prepare(s) \/ Adopt(s) \/ Submit(s) \/ SubmitFails(s)
  \/ Receipt(s) \/ EndPass(s)

TickStep(s) == Reconcile(s) \/ Claim(s) \/ Dispatch(s)

User == RunNow \/ Retry \/ Pause \/ Resume \/ Update \/ Delete

Next ==
  \/ \E s \in Services :
       Serve(s) \/ BeginTick(s) \/ TickStep(s) \/ Interrupt(s) \/ Die(s)
  \/ User
  \/ \E o \in Occurrences : SessionStep(o)
  \/ TimePasses

Spec == Init /\ [][Next]_vars

(* A service is kept running, polls, and its calls return; time passes and
   sessions end *)
FairSpec ==
  /\ Spec
  /\ WF_vars(\E s \in Services : Serve(s))
  /\ \A s \in Services : WF_vars(BeginTick(s)) /\ WF_vars(TickStep(s))
  /\ \A o \in Occurrences : WF_vars(SessionStep(o))
-----------------------------------------------------------------------------
(* Properties *)

(* Types, and mutual exclusion: whoever dispatches holds dispatch.lock *)
ScheduleTypeOK ==
  /\ schedule \in [enabled : BOOLEAN, deleted : BOOLEAN,
                   revision : 0 .. MaxRequests, due : Times \cup {Never},
                   policy : Policies, kind : Kinds]
  /\ occ \in [Occurrences -> Occurrence]
  /\ session \in [Occurrences -> SessionState]
  /\ starts \in [Occurrences -> Nat] /\ ticks \in [Occurrences -> SUBSET Times]
  /\ clock \in 0 .. MaxTime /\ faults \in 0 .. MaxFaults
  /\ lease \in Services \cup {NoOne} /\ dispatcher \in Services \cup {NoOne}
  /\ service \in [Services -> ServiceState]
  /\ \A s \in Services : service[s].pc \in Dispatching => dispatcher = s

(* "Never replay every missed tick" (PRD-228): each due time is claimed once,
   by whichever service, for one occurrence, and an occurrence counts what
   was claimed for it: its own tick, if it is a scheduled one, and those that
   were merged into it (claim_due_occurrence) *)
TicksClaimedOnce ==
  /\ \A o, p \in Occurrences : o # p => ticks[o] \cap ticks[p] = {}
  /\ \A o \in Occurrences :
       Cardinality(ticks[o])
         = occ[o].merged + (IF occ[o].kind = "scheduled" THEN 1 ELSE 0)

(* "The next service owner reconciles the same occurrence/session identity
   instead of creating a second logical run" (scheduled-workflows.md): no
   occurrence gets two sessions, whoever dies between the acceptance of the
   session and the receipt (build_background_dispatcher) *)
OneRunEach == \A o \in Occurrences : starts[o] <= 1

LiveRuns == {o \in Occurrences : session[o] \in Live}

(* "queue_one" has one live session of the schedule at a time and
   "allow_bounded" at most max_in_flight, whatever retries, runs of the user,
   failed dispatches and overlapping services come together
   (_dispatch_pending_exclusive) *)
BoundedRuns ==
  /\ schedule.policy = "queue_one" => Cardinality(LiveRuns) <= 1
  /\ schedule.policy = "allow_bounded" => Cardinality(LiveRuns) <= MaxInFlight

(* Under "skip", the result of a session that ended reaches its occurrence,
   or the occurrence was skipped: a crash between the acceptance and the
   receipt is reconciled by a later pass (_reconcile_background).  Under the
   other policies occurrences can wait for each other, see QueuedRuns. *)
EndReported ==
  \A o \in Occurrences :
    (/\ schedule.policy = "skip" /\ occ[o].state \in InFlight
     /\ session[o] \in {"completed", "failed", "cancelled"})
      ~> occ[o].state \in Settled

(* Under "skip" whatever is accepted is dispatched or skipped, also when a
   retry, a request of the user and a tick compete
   (_dispatch_pending_exclusive) *)
SkipSettles ==
  \A o \in Occurrences :
    (schedule.policy = "skip" /\ occ[o].state \in Unclaimed)
      ~> occ[o].state \notin Unclaimed

(* "queue_one retains at most one pending tick and coalesces additional
   missed ticks into it" (scheduled-workflows.md): the tick it retains is
   dispatched after the run it waits for (_dispatch_pending_exclusive) *)
QueuedRuns ==
  \A o \in Occurrences :
    (schedule.policy = "queue_one" /\ occ[o].state \in Unclaimed)
      ~> occ[o].state \notin Unclaimed
=============================================================================
