# TLA+ development of agenthicc

agenthicc runs coding agents in the foreground (TUI, headless) and in the
background (detached worker processes that survive the terminal). This
directory specifies the part of it where correctness depends on several
processes doing the right thing at the wrong moment: background sessions, the
queue in which they compete for worker slots, the log that records them, the
inbox through which users send them messages, the inbox through which they ask
users, the lease by which one process owns a session, and the schedules that
start sessions by themselves.
Paths below are relative to the repository; `background/` stands for
`src/agenthicc/background/`.

## 1. Inventory

### 1.1 Components, their state, their operations

| Component | State | Operations | What must hold |
|---|---|---|---|
| Lifecycle vocabulary, `background/model.py`, `queue.py` | none; 13 statuses, a transition table, derived sets | `legal_transition`, `is_pending_queue_record`, `occupies_worker_slot`; `reconciles_worker` (supervisor.py) | every commit leaves a status of the lifecycle |
| Registry, `background/store.py`, `index.py` | append-only `events.jsonl`, written under `registry.lock`; `index.sqlite3`, the records as of a position of the log; in memory, the fingerprint of the log last seen applied | `create`, `update`, `transition`, `claim`, `heartbeat`, `record_mode_application`, `archive`, `restore_archive`, `delete`, `restore_deleted`, `mark_orphaned` | updates are atomic; attempts are fenced by attempt number and lease token; a torn tail is never mistaken for an event |
| Supervisor, `background/supervisor.py` | request files, `queue-scheduler.lock`, scheduler cursor; one instance per CLI command, hub or dispatching worker | `submit`, `handoff`, `resume`, `start`, `dispatch_pending`, `cancel`, `attach_foreground`, `delete_async`, `recover_stale` | no duplicate launch, capacity and queue limits, cancelled sessions end, dead workers are noticed |
| Worker, `background/worker.py` | its attempt, lease token, provider session | load request, `claim`, owner lease, mode attestation, heartbeat, execute, ask, `_finalize_worker` | one executor per session, an outcome is reported once and only by the owner of the newest attempt |
| Leases, `runners/session_lease.py`, `process_lease.py` | `.owner` and the lock file `.owner.lock` per session, `_PROCESS_LEASES` per process | `acquire`, `release`, `inspect`, `select_latest_for_cwd` | at most one live owner; a dead owner does not block; nested references are counted |
| Interaction inbox, `background/inbox.py` | rows of SQLite: items and idempotency receipts | `register`, `activate`, `wait_for_answer`, `accepted_answer`, `respond`, `expire`, `mark_delivered`, `set_terminal`, `close_expired`, `list_items`, `reconcile` | of concurrent answers one wins; it reaches the attempt that asked or nobody; no session waits for a task that has gone on |
| Deferred input, `background/input_inbox.py` | per-session message log with a lock file of its own | `enqueue`, `enqueue_deferred`, `claim_next`, `claim_by_id`, `mark_waiting_recovery`, `rearm_recovery_wait`, `reject`, `settle_attempt`, `receipts` (which also writes) | a message is taken once and in order; its receipt is true and, once closed, final; a message that waits for a worker is kept |
| Watchers and maintenance, `background/watch.py`, `maintenance.py` | fingerprints, deadlines, backoff | plan, observe | something due is eventually done |
| Agents hub service, deletion, `agents_service.py`, `deletion.py` | delete operations with phases | begin, advance, retry | one operation per session, retry is idempotent |
| Terminals, `background/terminals.py` | child process groups | start, stop, reap | none outlives its session |
| Notifications, attention | delivered marks | publish, acknowledge | no duplicate alert |
| Kernel, `src/agenthicc/kernel/` | event log, reduced state | submit, process, replay | replay equals live state |
| Session service, `src/agenthicc/session_service/` | command ids, event cursors | command, subscribe | a repeated command has one effect; no event is skipped |
| Schedules, `src/agenthicc/schedules/` | rows of SQLite: schedules and occurrences; `scheduler.lock` (service lease) and `dispatch.lock` | `tick`: `_reconcile_background`, `_claim_due`, `_dispatch_pending`; `create_manual_occurrence`, `retry`, pause, resume, update, delete | a due time is claimed once and run once, policies bound what runs at a time, what is accepted is settled |
| Memory, runners, sub-agents, workflows, worktrees, runs | journals, pools, checkpoints | many | see `PROJECT.json` |
| TUI, CLI, tools, skills, plugins, config | presentation and I/O | | not specified |

### 1.2 How they interact

Supervisors and workers are operating-system processes that share files. The
registry serialises *commits* with a file lock; everything an operation
decides, it decides from an earlier *unlocked read*. `store.transition` reads,
checks legality and builds the attempt history from that read, and commits
with whatever expectations (`expected_status`, `expected_attempt`,
`expected_lease_token`, `expected_last_active`, `expected_dispatch_state`) its
caller passed. A caller that passed none overwrites anything. So the unit of
interleaving of these models is a read or a commit. Below a commit, the line is
appended under `registry.lock`, and every process that reads or writes brings
the index up to the log first.

A launch is: reserve the record under the scheduler lock, write the request
file (with a dispatch token when queued), spawn the child, record its PID. The
child loads the request, claims the next attempt by a compare-and-swap, takes
the session-owner lease, attests the mode, executes, finalises, releases the
lease. A cancel writes CANCELLING, signals the recorded PID, waits a grace
period, writes CANCELLED. Maintenance probes recorded PIDs and orphans
sessions whose process is gone. Submissions, dispatches, starts and cancels of
waiting requests of all sessions take `queue-scheduler.lock`, so they see each
other's decisions; workers that end and handoffs that are prepared do not.

A schedule service claims due ticks as occurrences and dispatches each to a
background session by `submit`, whose identity is derived from the occurrence;
the receipt is written afterwards. What became of the session it learns by
looking at the registry in the next tick.

### 1.3 Hard behaviours

Two launchers of one session; a child that claims before its launcher has
recorded the PID, or long after; a worker superseded while it still runs; a
cancel racing an answer, an outcome, a claim or a crash; a supervisor that
dies holding the scheduler lock or between reservation and spawn; a finaliser
acting on an old read; archive, trash and restore racing all of these; two
processes reclaiming one dead owner, or the late cleanup of an owner that has
been replaced; process IDs that are used again; a worker limit met by several
ways of starting; a log cut off in the middle of a line while others read it;
two schedule services that overlap. The
complete list, with lines, is `hazards` in `PROJECT.json`.

## 2. Modules

| Module | Role |
|---|---|
| `SessionStatus` | statuses, transition table and predicates |
| `BackgroundSession` | one session, its registry record, its worker processes and the supervisors: the core model |
| `AttemptFence` | abstract specification: what a session promises about attempts |
| `MCBackgroundSession` + `*.cfg` | instances for TLC |
| `BackgroundSession_proofs` | type correctness |
| `SessionFence_proofs` | fence invariant, single executor, refinement of `AttemptFence`; one outcome per attempt, serialized launches, completion by the owner, cancellations that stay |
| `SessionLease` | the owner lease of one session: record, guard, processes |
| `OwnerLease` | abstract specification: a lease that is taken, given up and dropped in single steps |
| `MCSessionLease` + `lease*.cfg` | instances for TLC |
| `InputInbox` | the messages of one session, the supervisors that accept them, the workers that take them |
| `MCInputInbox` + `input.cfg` | instances for TLC |
| `InteractionInbox` | the approvals and questions of one session, the tasks that ask, the operators who answer |
| `MCInteractionInbox` + `interaction.cfg` | instance for TLC |
| `DispatchQueue` | many sessions that compete for worker slots, and the passes of the scheduler |
| `MCDispatchQueue` + `queue.cfg` | instance for TLC |
| `RegistryLog` | the event log of the registry, its index, the processes that read and append |
| `MCRegistryLog` + `registry.cfg` | instance for TLC |
| `Schedules` | one schedule, its occurrences and their sessions, the services and the user |
| `MCSchedules` + `schedule*.cfg` | instances for TLC |
| `SessionLease_proofs` | type correctness, single owner, references, refinement of `OwnerLease` |
| `DispatchQueue_proofs` | type correctness, worker limits, queue length, idempotency keys, fair turns of two projects |
| `InteractionInbox_proofs` | type correctness, one winner, fenced answers, no waiting for an ended task |
| `InputInbox_proofs` | type correctness, one taker, true and final receipts, the bound, order, deferred messages kept and served first |
| `Schedules_proofs` | type correctness, ticks claimed once, one session each, policies |
| `RegistryLog_proofs` | type correctness, acknowledged events stay, sequence numbers, fresh reads, the index as a fold of the log |

`BackgroundSession` follows one attempt of one session in detail and answers
"is a slot free?" at will; `DispatchQueue` follows the slots of all sessions,
where a worker is there or not. `BackgroundSession` takes a commit as atomic;
`RegistryLog` looks into it. `BackgroundSession` has a question as one step in
and one step out of waiting; `InteractionInbox` spells out what is between, and
has the rest of the session's life in single steps. `Schedules` takes `submit` as the one step that
`DispatchQueue` spells out.

### 2.1 `BackgroundSession` and the code

*State.* `rec` is the registry record (`status`, `dispatch_state`, `attempt`,
`lease_token`, `worker_pid`, `dispatch_token`, the attempt the runtime mode is
applied for, `attempt_history` as a set of attempt/outcome pairs). A worker's
lease token and PID are both modelled by the worker itself: each process
generates its own. `fresh` stands for `expected_last_active`: it holds the
supervisors whose read has not been followed by another commit. `request` is
the dispatch token in the request file, `schedLock` the holder of
`queue-scheduler.lock`, `owner` the process in the owner lease. `client` and
`worker` hold each process's position in its call and the snapshot it read.

*Actions.* One per read or commit of the code, in the order of the code:

| Code | Actions |
|---|---|
| `cancel` | `StopEnter`, `DropQueued`, `StopRead`, `StopWrite`, `Signal`, `GraceOver`, `StopCheck`, `CancelledRead`, `CancelledWrite` |
| `attach_foreground` | the same from `StopRead` on, with its own early returns |
| `delete_async` | `DeleteRead`, the cancel steps when active, `Tombstone` |
| `archive`, `restore_archive`, `restore_deleted` | `ArchiveRead/Write`, `RestoreArchiveRead/Write`, `RestoreDeleted` |
| `handoff` / `resume` | `HandoffRead`, `HandoffPrepare`, `HandoffWrite` or `CompletedWrite`, `HandoffMode`, `HandoffRequest`, then `start` |
| `_start_deferred_input_attempt` | `InputRead`, `InputWrite`, then `start` |
| `start` | `StartRead`, `StartLock`, `Requeue` |
| `_launch` | `Spawn`, `LaunchFailed`, `RecordRead`, `RecordWrite` |
| `_dispatch_pending_locked`, `_start_claimed_reservations` | `Dispatch`, `DispatchNothing`, `Reserve`, `Reap`, `Reload` |
| `_recover_stale_records`, `mark_orphaned` | `RecoverRead`, `RecoverWrite` |
| `run_worker` | `LoadRequest`, `ClaimRead`, `ClaimStart`, `Claim`, `AcquireOwner`, `AttestMode`, `CheckMode`, `Heartbeat`, `AskUser`, `AskEnds`, `Finish`, `Fail`, `Interrupt`, `FinalRead`, `FinalWrite`, `Release` |
| process death | `ClientCrash` (the OS drops the file lock), `Die` (SIGTERM has no handler; also an unsignalled crash) |

`Quiet` is a stuttering step for the situation in which no call is under way
and no worker lives, so that TLC reports every other standstill as a deadlock.

*Abstractions.* Two reads of one record that only differ in which error is
raised afterwards are one read. Deadlines may pass at any moment. A PID is
never reused, so a mismatched process identity is a dead process. A heartbeat
commits the record it found and counts only through `last_active`. The other
sessions appear as a nondeterministic answer to "is a worker slot free?" and
"is the queue full?". Definitions named after an action with a suffix
(`ClaimUnfenced`, `FinalWriteAnyStatus`, ...) are variants of it with a
plausible mistake, used to confirm that a property notices the mistake; `Next`
does not use them.

### 2.2 `AttemptFence`

Four variables: the newest attempt, its holder, the attempt granted to each
worker, and the set of executing workers. `Grant` issues the next number and
moves the session to the grantee; `Revoke` takes it away; `Begin` needs the
newest grant and nobody else executing; `End` may come at any time, also long
after the session has moved on. `BackgroundSession!Fence` maps the newest
attempt to `rec.attempt`, the holder to `rec.lease` and execution to the
`working` and `asking` steps of workers.

### 2.3 `SessionLease` and the code

*State.* `record` is the `.owner` file (owner ID, process ID, start token; 0
where the publisher could not learn its token), `local` a process's entry of
`_PROCESS_LEASES` (owner ID, references), `handles` its unreleased
`SessionOwnerLease` objects. `os` and `birth` are the process table: whether a
process ID is in use, by a zombie or by nobody, and the start token of its
last process. `call` is the position of each process in its one call, with the
attempt of the retry loop (`try`) and the owner it has read (`seen`). Files
belong to the directory they were opened in: `dir`, `made` and `trash` number
the directories, as a deletion moves `.owner` and a lock file that others have
open away together.

| Code | Actions |
|---|---|
| `SessionOwnerStore.acquire` up to the guard | `Reenter` (the process has the lease already), `Acquire` |
| `_owner_guard`, `InterProcessLock` | `OpenGuard` (makes the directory, opens the file), `LockGuard` (`flock`), `GuardFails` |
| the attempts of `acquire` | `Publish`, `PublishFails`, `Occupied`, `ReadOwner`, `ProbeAlive`, `ProbeDead`, with `Again` for `continue` |
| `remove_if_owner` | `CompareOwner`, `Unlink`, `UnlinkFails` |
| `SessionOwnerLease.release`, `_release` | `Release`, then the guard and `remove_if_owner` as above |
| `BackgroundStore.delete`, `restore_deleted`; `LoopStore.save` | `Delete`, `Restore`, `Save`: how others touch the directory |
| the operating system | `Die` (drops the guard), `Collect`, `Spawn` (the process ID is used again) |

*Abstractions.* A process makes one call at a time: all of them are synchronous
and made from one thread. `owner_alive` is one step, with either answer where
`/proc` may not be readable. Owners of other hosts or users are left out, as
they are never reclaimed; so are malformed records, and reads of `.owner` that
fail, which the code treats as malformed records (`PROJECT.json` lists the
hazard this leaves).

*Composition.* `OwnerLease` has the lease on record and the set of leases whose
holder relies on them. `Take` needs an empty record, `Detach` may come at any
time, `Drop` needs an owner that is not attached. `Publish` is a `Take`;
`Unlink` a `Drop`; the death of a process, its last release and the loss of
its entry in `Acquire` are `Detach`. This is what `BackgroundSession` assumes
of its `owner` variable, whose `AcquireOwner` is a `Drop`, if the holder is
dead, and a `Take`.

### 2.4 `InputInbox` and the code

*State.* `receipt` is the projection of the message log: per message its
state, the worker it is bound to (`owner_attempt` and `owner_hash`), whether it
is `deferred`, whether it has a `recovery_error` (`waiting`) and its place in
the order of acceptance (`at`). `lock` is the holder of the inbox lock.
`session` is the registry record as far as input depends on it: status,
attempt, lease, whether a PID is recorded, whether `resume_marker` says
"input:", whether it was cancelled, and whether the last worker left recovery to
the user (`stuck`). `worker` and `client` hold the local variables of
`run_worker` and of the supervisors' calls.

| Code | Actions |
|---|---|
| `enqueue_input_or_recover` | `SubmitLive`, `SubmitDeferred`, `SubmitOrphan` |
| `enqueue`, `enqueue_deferred` | `Enqueue`, `EnqueueAppend`; `Defer`, `DeferAppend` |
| `_start_deferred_input_attempt`, `rearm_recovery_wait` | `Rearm`, `RearmAppend`, `Start` |
| `receipts` from the hub and from maintenance | `View`, `Maintain` (`_pending_input_message`), `Receipts` |
| the rest of the record's life, as in `BackgroundSession` | `RecordPid`, `Cancel`, `Cancelled`, `Delete`, `RestoreDeleted`, `MarkOrphaned`, `Claim`, `LaunchFails` |
| `_execute`, up to the first turn | `Acquire`, `Plan`, `Planned` (with the reconciliation by `receipts`) |
| recovery of an unfinished turn | `Route`, `RouteAppend` (`claim_by_id`), `CommandEnds`, `CommandRejected` (`reject`), `Assess`, `Wait`, `WaitAppend` (`mark_waiting_recovery`) |
| `_drain_idle_inputs`, `_claim_session_input` | `ClaimNext`, `Rebind`, `Deliver` (`claim_next`), `Drained`, `TurnEnds`, `TurnFails`, `Interrupt` |
| the end of `run_worker` | `Settle` (`settle_attempt`), `Sweep` (its `receipts`), `Finalize`, `WorkerDies` |

A step is a read of the record or an append to the log; taking the inbox lock
goes with the first read under it. Turns and commands during `_execute` look for
messages at tool boundaries, those after it do not (`Bound`), as the source of
queued messages is bound during `_execute` only.

*Abstractions.* The record's commits are single steps: `BackgroundSession`
has their interleavings. A session waits neither in the queue nor for an
approval. ARCHIVED is CANCELLED and ORPHANED is FAILED here, since input treats
them alike; `Cancel`, which the code refuses for a FAILED session but not for an
ORPHANED one, is allowed for both. Reads that follow each other at once and
differ only in the error raised are merged (`peek_next` and `claim_next`; the
reads of `_start_deferred_input_attempt`). What a turn does, which unfinished
turn there is and whom it belongs to, is a free choice. A supervisor that stops
for good is one that takes no more steps, except that the OS would free its
lock. Capacity for another worker is left to `DispatchQueue`.

### 2.5 `DispatchQueue` and the code

*State.* `session` gives each session its project, its idempotency key and a
status as the scheduler tells records apart: `pending`
(`is_pending_queue_record`), `reserved` (STARTING with a dispatch reservation),
`live`, `prepared` (a handoff before its `start`), `gone`. `pass` is the pass
under way with its local variables, as `queue-scheduler.lock` admits one at a
time; `cursor` is `last_project` in `queue-scheduler-v1.json`. `skips` and
`lost` are history variables of `FairTurns`.

| Code | Actions |
|---|---|
| the lock in `submit`, `dispatch_pending`, maintenance | `Acquire` |
| `_start_claimed_reservations` | `Relaunch`, `Recovered` |
| the loop of `_dispatch_pending_locked` with `fair_queue_order` | `Select` (`Turn`, `Rank`), `Settle`, `Reserve`, `Cursor`, `Launch` |
| `submit` after its first dispatch | `Admit` (`Existing`), `AdmitFails`; then the dispatch again |
| `handoff` with `start=False` | `Handoff` |
| `start` | `Start` (`HasCapacity`) |
| `cancel` of a waiting request | `CancelPending` |
| without the lock | `WorkerEnds`, `Abandon` (maintenance of a handoff not started, or a cancel that found the request reserved) |
| death of the process | `Crash` |

*Abstractions.* Age and priority order the requests of one project; `Select`
takes any of them. Projects are their positions in the order of names. There is
no limit per user (the default) and no deletion. A session that was cancelled
and handed off again while the pass was about to launch it is `prepared` at
`Launch`, which may start it or not.

### 2.6 `RegistryLog` and the code

*State.* `log`, `torn`, `synced` and `mtime` are `events.jsonl`: its complete
lines, whether half a line follows, how many lines are on disk, and its
modification time. `index` is `index.sqlite3` (position, sequence number and
record), `durable` the part of its history that an outage leaves. `lock` and
`txn` are the holders of `registry.lock` and of the index's write transaction;
`proc` has the local variables of `_sync` and `_append`.

| Code | Actions |
|---|---|
| `_sync` | `Read`, `Stat`, `State`, `Begin`, `ApplyTail`, `Rebuild`, `IndexBusy` |
| the query | `Get` |
| `_append_locked` | `Lock`, `Truncate`, `Truncated` (`_truncate_partial_tail`), `Write`, `Fsync`, `OwnAppend` (`_index_own_append`), `Release` |
| `_EventFolder`, which puts heartbeats off | `Folders`, `Folded`; compared with `RecordOf`, which applies every event in order (`After`, `_apply_event`) |
| failures | `WriteTorn`, `Die`, `Checkpoint`, `SystemDown` |

*Abstractions.* Sizes are counted in halves of a line. The log is about one
session. Modification times strictly increase; nobody replaces the log (the
registry itself never does), an index that cannot be read is the absent one,
and a registry seeded from an old snapshot is left out. A complete line that
does not decode (`Garbage`) is handled as in the code, which itself never
produces one: a variant that does not cut a torn tail does. `os.write` writes the
whole line or the writer dies; the short count it may return on a full disk,
which the code does not look at, is a hazard on the list.

### 2.7 `Schedules` and the code

*State.* `schedule` and `occ` are the rows of SQLite; `session` is the
background session of each occurrence, as far as the scheduler tells statuses
apart; `lease` and `dispatcher` hold the two lock files; `service` has the
local variables of each process's tick. Two variables are history: `starts`
counts the sessions made for an occurrence, `ticks` has the due times that each
occurrence was claimed for or counted.

| Code | Actions |
|---|---|
| `run`, `ScheduleServiceLease` | `Serve`, `BeginTick`, `Interrupt`, `Die` |
| `_reconcile_background` | `Lookup`, `Record` |
| `_claim_due`, `claim_due_occurrence` | `NothingDue`, `ReadDue` (`Admission`), `ClaimTick` (`CursorUnchanged`, `NextRunAfter`) |
| `_dispatch_pending` and its exclusive part | `DispatchBusy`, `ListPending`, `Consider` (`MustWait`), `SkipOther`, `Reserve`, `EndPass` |
| `build_background_dispatcher` | `Prepare`, `Adopt`, `Submit`, `SubmitFails`, `Receipt` |
| `create_manual_occurrence`, `retry`, pause, resume, update, delete | `RunNow`, `Retry`, `Pause`, `Resume`, `Update`, `Delete` |
| environment | `SessionStep`, `TimePasses` |

*Abstractions.* One schedule. A user's call is one step, as its write compares
the revision it read. A cron expression is an interval of one. The policy does
not change by an edit. The statuses `_reconcile_background` passes over
(CANCELLING, ORPHANED, ARCHIVED) are one, `other`. An interrupted service
returns its lease while the thread of its last tick goes on, so two ticks can
overlap.

### 2.8 `InteractionInbox` and the code

*State.* `item` and `used` are the tables of `inbox_items` and
`inbox_idempotency`; `session` the registry record as far as questions depend on
it (status, attempt, lease and the item it waits for); `late` the requests whose
deadline has passed. `task` has the local variables of each task in
`_wait_for_inbox_item`, `client` the call of each operator (TUI, CLI, session
service), with the receipt of the last one.

| Code | Actions |
|---|---|
| `register` | `Ask`, `Insert` |
| `_wait_for_inbox_item` (worker.py) | `Publish`, `Resume`, `Latest`, `FallBack` |
| `activate` | `Activate` |
| `wait_for_answer`, `accepted_answer` | `Poll`, `AcceptedAnswer`, `LookAgain` |
| `mark_delivered` | `Deliver` |
| `respond`, `expire` | `Choose`, `Retry`, `Send` |
| `_assert_current`, `set_terminal` | `Current`, `SetTerminal` |
| `close_expired`, `list_items` | `CloseExpired`, `ListItems` |
| `reconcile` | `Reconcile`, `Repair` |
| the session around it | `Claim`, `Begin`, `End`, `Die`, `Orphan`, `Cancel`, `Delete` |
| environment | `DeadlinePasses` |

*Abstractions.* The tasks of one worker share its event loop (`HasLoop`): they
interleave with other processes at every step, and with one another only where
they sleep or have not begun. `respond` and `expire` hold the registry lock, so
that reading the record and writing the item is one step. Approvals, questions
and inputs differ in the deadline that some have, and in nothing else. The
version an operator presents is left out: an item that is pending has always
the same one, and no other can be answered. Decisions in the fields
`approval_decision` and `input_value` of the record are those of older
supervisors, and ignored where there is an item. Each request is asked once;
a database that fails, and so an `activate` that raises, is not modelled.
`cancelled` is CANCELLING and CANCELLED, `ended` every other status without a
worker, and how a session gets from one to the next is a single step, as
`BackgroundSession` has the interleavings.

## 3. Runs

| Run | Instance | Shows |
|---|---|---|
| `session_queued` | queue on; 2 workers, 2 supervisors, 3 calls among cancel, handoff, dispatch; recovery unbounded; any process may crash; 1.7 million states | `AttemptsFenced`, `OneExecutor`, `ModeOfNewestAttempt`, `LaunchesSerialized`, `CompletedByOwner`, `CancellationWins`, refinement `FenceSpec` |
| `session_direct` | queue off, detached goal; attach, delete, restore, archive, unarchive, input; 2 calls; no crashes; 0.7 million states | `OneOutcomePerAttempt` where sessions are filed away and brought back |
| `session_liveness` | queue on; cancel, attach, handoff, dispatch, recover, delete, input; 2 calls; workers crash; no symmetry; 138 thousand states | `CancellationEnds`, `DeadWorkerReconciled`, `LaunchSettles`, `CallsReturn` |
| `lease` | 3 process IDs of 2 processes each, 4 acquires, 2 handles per lease, no deletion; 129 thousand states | `OwnerExclusive`, `RecordNamesOwner`, refinement `OwnershipSpec` |
| `lease_deleted` | 2 process IDs of 2 processes each, 2 acquires, 2 handles, 3 deletions; 104 thousand states | `NestedReferences`, `CallsSettle` |
| `input` | 3 messages, one of them a control; 2 workers, 2 supervisors; at most 2 pending; 2 calls among submit, cancel, delete, restore, besides any number of views and maintenance passes; workers crash; starts with a plain launch or one for a message accepted before; 3.0 million states | `TakenOnce`, `ReceiptsTrue`, `QueueBounded`, `ClosedForGood`, `InOrder`, `InputFirst`, `DeferredKept` |
| `interaction` | 2 requests, one with a deadline; 2 workers, 2 operators, 2 answers, 1 key; 2 calls; any worker dies at any point; 1.6 million states | `OneAnswer`, `AnswerFenced`, `WaitedFor` |
| `queue` | 2 projects, 4 sessions, 2 workers of which one per project, queue of 2, 1 key, 1 handoff, 1 fault; 1.4 million states | `SlotsBounded`, `PendingBounded`, `OneSessionPerKey`, `FairTurns` |
| `registry` | 2 processes, 3 lines, 1 death, 1 outage; 1.5 million states | `IndexFollowsLog`, `AcknowledgedKept`, `SequenceUnbroken`, `ReadsFresh` |
| `schedules` | 2 services, 3 policies, 2 time units, 1 request of the user, 1 service that dies or is interrupted; 5.0 million states | `TicksClaimedOnce`, `OneRunEach`, `BoundedRuns` |
| `schedules_live` | 2 services, policy skip, recurring or once, 1 time unit, 1 request, 1 fault; no symmetry; 394 thousand states | `EndReported`, `SkipSettles` |
| `schedule_stuck` | 1 service, policy queue_one, 2 time units, no user, no faults | violates `QueuedRuns` |

A property is checked by one run, the one whose instance puts it under most
strain. (`OneOutcomePerAttempt` holds on the instance of `session_queued`, too.)
The type invariants `TypeOK`, `InputTypeOK`, `LeaseTypeOK`, `QueueTypeOK`,
`RegistryTypeOK`, `ScheduleTypeOK` and `InteractionTypeOK`, and `RetriesSuffice`,
hold on the same instances and are not repeated as properties of runs; all of
them are proved (section 4).

**Bounds.** `Workers`: two, the number at which one process can supersede,
duplicate or outlive another. `Clients`: two, so that a call can interleave
with another call or with recovery. `MaxCalls`: the calls started beyond
maintenance; three is a cancel and two resumes, or a dispatch, a cancel and a
resume, which is what the duplicate-launch scenarios need. A reservation is
reaped only after a longer story (a dispatch, a resume that goes back to the
queue, a dispatch whose supervisor dies holding the reservation, and one that
finds it); with four calls among handoff and dispatch and supervisors that
crash (2.4 million states) the invariants hold as well. Recovery passes are not bounded. Dispatch tokens count dispatches and so are bounded by the calls.
`Permutations(Workers) \cup Permutations(Clients)` is sound for the safety runs
as no definition distinguishes members of these sets; the liveness run uses no
symmetry.

In `lease`, three processes are one that owns or has died and two that compete
to replace it; two processes per ID is one reuse; four acquires leave one more
than there are processes, so that an owner that lost its lease comes back.
`lease_deleted` needs three deletions for the third attempt of `acquire` to
fail, each attempt losing what it has read to one of them.

In `input`, two workers are the attempt that took, bound or put back a message
and the one that finds it so. Two supervisors let a call run on a record that
another one has changed. Two calls with a message accepted before are a
submission beyond the limit of two pending messages, a submission and its
retry, or a deletion and a restoration around a pending message. With two
messages and three calls (6 million states) the same properties hold.

In `interaction`, two workers are the one that asked and the one that claims the
next attempt while the first still lives; two requests are one the session
waits for and one whose task is about to ask or was refused; two operators with
two calls answer at once, or one answers and retries, or one answers and the
other reconciles. With one key a retry always meets its own receipt, and another
operator's answer a foreign one. Some tasks never return in a worker that dies,
so the end of the behaviours is not a deadlock.

In `queue`, four sessions are two that fill the slots and two that wait, or a
repeated submission and its original among two others; one fault is a death or
a failed write, after which the handoff or the next pass finds what was left.
In `registry`, three lines are an acknowledged one, a torn or unsynced one and
the next writer's; two processes are the writer and a reader, or two writers,
that see the log at different lengths. One outage is no bound of convenience:
with two, the second of which loses the repair of the index made after the
first, `IndexFollowsLog` is false (item 9 below); the other three hold for any
number (section 4.7).
In `schedules`, two time units are a tick and the next one that finds it in
flight; with the user's request three occurrences compete under each policy.
One death is enough for an occurrence to be adopted by the other service.

**Fairness** (`FairSpec` of `SessionLease`). The next step of a call is taken
by a process that lives; the step that waits is `flock`, and whoever has the
guard waits for nothing. Weak fairness suffices: that `CallsSettle` holds with
it shows that a waiter is not starved within the bounds, as each process makes
finitely many calls. Nothing is assumed of starting calls, of deaths or of
deletions.

**Fairness** (`FairSpec` of `BackgroundSession`). A call under way continues: supervisors are threads
in a live process (this is why the liveness run has no supervisor crashes; a
crash of a supervisor in `grace` with nobody left to look at a CANCELLING
record without PID would leave it there). Maintenance is repeated: the hub
watches the registry and the processes, and probes by interval where it cannot
watch. A worker continues unless it is executing: model calls, tools and
questions to the user may take for ever, so nothing is assumed of
`working` and `asking`. A signalled worker dies, as no handler is installed.
No fairness is assumed of starting calls or of crashes.

**Fairness** (`FairSpec` of `Schedules`). A service is kept running, polls, and
its calls return; sessions end. Nothing is assumed of the user, of time or of
faults. Weak fairness of `Serve` stands for an operator who restarts the
service.

**What the violation shows** (`schedule_stuck`). A tick is submitted, meets the
worker limit, and its occurrence is left WAITING_CAPACITY. Under `queue_one` the
next tick is QUEUED, as one is in flight. From then on the first waits because
the policy allows one in flight besides itself, and the second because it is
queued: neither is dispatched again, every later tick is merged into the second,
and the schedule stands still until a user deletes it. The guide has the queued
tick run (`docs/guides/scheduled-workflows.md:118`), and a test has an
occurrence that met the limit dispatched by the next pass
(`tests/unit/test_schedules_prd228.py:511`).

**Behaviours seen, which no run repeats.** TLC finds each on the instance given,
with the module's `Spec` and the property, a definition of the module, as an
invariant (temporal where noted).

1. `WaitingWorkerReconciled` (`BackgroundSession`, temporal, `FairSpec`; 1 worker
   that crashes, 1 supervisor): `_TRANSITIONS` gives WAITING_APPROVAL and
   WAITING_INPUT only RUNNING and CANCELLING. Maintenance finds the worker dead,
   `mark_orphaned` raises, `_recover_stale_records` goes on, for ever. The guide
   promises that the session is marked orphaned at once
   (`docs/guides/background-sessions.md:607`).
2. `LiveWorkerNotOrphaned` (`BackgroundSession`; 2 workers, 2 supervisors, queue
   on, 3 calls among dispatch, handoff and cancel besides recovery, no crashes):
   two resumes of one session each spawn a child. The second launcher records
   its PID under expectations it took from the attempt of the first launcher's
   worker, which already runs. `claim` refuses the second child, it exits, and
   maintenance, probing that PID, orphans the live attempt, although "a verified
   live worker is not orphaned" (`background/supervisor.py:2427`).
3. `OwnerExclusive` under a deletion (`SessionLease`; 2 processes, 2 acquires,
   `Deletes = 1`): a process owns the session, and its background record is
   deleted. `_move_artifacts_to_trash` moves the directory with `.owner` in it,
   without asking who owns it. An acquire already past its directory check, or
   a save of the owner itself, makes the directory again; it has no `.owner`,
   and a second live process attaches. PRD 171 rules this out
   (`prds/prd-171-single-owner-session-lease.md:119`).
4. `LiveInputNotRejected` (`InputInbox`; 2 messages, 2 workers, 2 supervisors, no
   crashes): `receipts` reads the session record, then waits for the inbox lock.
   Read at STARTING, the record has no owner yet; a worker claims the session, a
   user's message is accepted for it, and the reader, in the lock at last,
   rejects that message as one of an owner that "ended or changed"
   (`background/input_inbox.py:702`, `prds/prd-241-...:314`). The worker lives and
   would have taken it; the user is told to send it again.
5. `FairTurns` with three projects (`DispatchQueue`; 3 projects, 6 sessions, 1
   worker, no faults): the rotation starts after the project that had the last
   turn only while that project has requests (`fair_queue_order` looks for it
   among the candidates); else it starts with the first name. Two projects whose
   single requests come by turns can so pass over a third for as long as they
   like, where the guide says that the queue "rotates fairly among eligible
   projects" (`docs/guides/background-sessions.md:249`).
6. `TombstoneStands` (`BackgroundSession`; queue off, delete and recovery, 1
   worker, 2 supervisors, 1 call, no crashes): `claim` reads QUEUED or RETRYING,
   then moves the record to STARTING by a transition without expectations
   (`background/store.py:1291`). If the session is deleted in between, the
   tombstone is overwritten, which the guide rules out
   (`docs/guides/background-sessions.md:640`).
7. An answer nobody uses (`InteractionInbox`, instance of `interaction`): a task
   looks at its item, an operator answers in time and is told so, the deadline
   passes, and the task's next look at the clock takes it to its end with the
   outcome `accepted` and no answer. PRD 227 has the result reach the session
   once (`prds/prd-227-...:65`); the code means the answer to be kept for the
   next worker (`background/worker.py:808`), which consumes it only in the same
   attempt, that is never.
8. `reconcile` with an old session record (the same instance): it reads the
   record while a task's item is still `publishing` and the session runs; the
   task moves the session to waiting and activates the item; reconcile, going by
   what it read, makes the item stale, and the task goes on without an answer.
   In the same way an item whose answer is just being delivered ends as stale.
9. `IndexFollowsLog` with two outages (`RegistryLog`; 2 processes, 3 lines, no
   deaths, `MaxOutages = 2`): a reader applies a line that is not synced yet, and
   this transaction of the index reaches the disk; the system goes down and the
   line is lost. The next process finds the log shorter and rebuilds the index,
   two lines are written, and the system goes down again before SQLite has
   synced any of this. The old index is back, with the record of the lost line,
   one line behind the log. Its tail is applied, since it is judged by size and
   sequence numbers only, which go on as they should, and from then on reads return
   a record without the first of the two lines, although its append returned. The
   class promises that a "truncated or rewritten log rebuilds" the index
   (`background/store.py:167`), and the index that "a crash can lose the latest
   index transaction but never the log, and the next reader applies the tail
   again" (`background/index.py:281`).

## 4. Proofs

### 4.1 The session

For all finite or infinite sets of workers and supervisors, all operations and
bounds, from `ConfigAssumption` only (`NoOne` is no process, workers are no
supervisors, switches are Boolean):

| Theorem | Statement |
|---|---|
| `TypeCorrect` | `Spec => []TypeOK` |
| `AttemptsAreFenced` | `Spec => []AttemptsFenced` |
| `ExecutorIsAlone` | `Spec => []OneExecutor` |
| `ModeIsNewest` | `Spec => []ModeOfNewestAttempt` |
| `ImplementsFence` | `Spec => FenceSpec`, the refinement |
| `OneOutcomeEach` | `Spec => []OneOutcomePerAttempt` |
| `LaunchesAreSerialized` | `QueueEnabled` implies `Spec => []LaunchesSerialized` |
| `OwnerCompletes` | `"unarchive" \notin Operations` implies `Spec => CompletedByOwner` |
| `CancellationStands` | `"unarchive" \notin Operations` implies `Spec => CancellationWins` |

*Type correctness* is inductive as it stands. It is split into the record, the
processes and the supervisors, because few actions touch more than one of
them and the provers work best on one at a time.

*The fence.* `AttemptsFenced` is not inductive: a claim issues
`rec.attempt + 1`, and nothing in `AttemptsFenced` says that this number is
new. `FenceInv` adds that no worker's attempt exceeds the record's and that a
worker before its claim has none (`ClaimedInOrder`). `OneExecutor` follows from
`LeaseNamesWorker`: every worker between `AcquireOwner` and its finalisation is
the one named in the owner lease, which `AcquireOwner` takes only from a
process that is not alive. The argument per step is carried by four lemmas:
`SupervisorsKeepAttempt` and `SupervisorsKeepWorkers` (no supervisor step
changes the attempt number, names an owner or applies a mode, whatever it
overwrites otherwise), `WorkersKeepAttempt` and `WorkerProgress`. This is the
reason that the unguarded commits of section 1.2 are harmless to the fence even
though they are harmful to the status: none of them touches `attempt`, and
the two commits that do are compare-and-swaps.

*The refinement* uses `FenceInv` as its invariant: `Claim` is a `Grant`,
`CheckMode` into `working` a `Begin`, leaving `working` or `asking` an `End`,
an update that clears the lease a `Revoke`, and all else stutters.

*What the steps decide by.* The last four theorems rest on a second invariant,
`KnowledgeInv`, about the snapshots that calls carry from a read to a commit.
A transition without expectations may commit a history that was read long ago,
so that `OneOutcomePerAttempt` must hold of every snapshot, too
(`HistoriesInv`); `HistoryAfterOne` says that a transition from such a history
keeps it. A claim always expects STARTING and an answer a waiting status
(`ExpectationsInv`), and with the queue whoever is at a launching step holds
`queue-scheduler.lock` (`LockInv`). Four lemmas say once for all actions what a
step commits and what its process knows afterwards: `SupervisorDecides` and
`SupervisorProceeds`, `WorkerCommit` and `WorkerKnown`. By the first, supervisors
write neither RUNNING nor a waiting status, and COMPLETED only where they restore
from the trash or the archive; by the third, a worker that commits anything but
STARTING over a cancellation has read CANCELLING and writes CANCELLED.

*The hypotheses.* Without the queue, `handoff` launches without the scheduler
lock, so `LaunchesSerialized` is about the queue, as its documentation is.
`restore_archive` reads ARCHIVED, and then commits COMPLETED without
expectations over whatever the session has become by then: a session that is
started again in between is completed by nobody's work, and its cancellation
turned into a success. That is why the two action properties need its absence,
and of all other calls nothing.

Only model-checked: the liveness of `session_liveness`, which is beyond the
prover.

### 4.2 The owner lease

For all sets of processes and all bounds, from `LeaseAssumption` (`NoOne` is no
process, bounds are natural numbers):

| Theorem | Statement |
|---|---|
| `LeaseTypeCorrect` | `Spec => []LeaseTypeOK` |
| `SingleOwner` | `Spec => [](deletes = 0 => OwnerExclusive)` |
| `OwnerStaysOnRecord` | `Spec => [](deletes = 0 => RecordNamesOwner)` |
| `SecondAttemptSuffices` | `Spec => [](deletes = 0 => RetriesSuffice)` |
| `ReferencesCounted` | `Spec => []NestedReferences`, deletions or not |
| `ImplementsOwnerLease` | `Deletes = 0` implies `Spec => OwnershipSpec` |

*Types* need `Numbered`: a directory is made only after a deletion has taken
the last one, which is why `Dirs` suffices.

*One owner.* As section 3 tells, `OwnerExclusive` fails once a session is deleted, so the invariant `LeaseInv` is claimed until then. Its parts: there
is one directory, so one lock file (`OneDirectory`); hence one process at a
time between `LockGuard` and its last access (`GuardExclusive`); an attached
process is alive and the record matches it, token included
(`AttachedOnRecord`), so that a record found dead has nobody attached; owner
IDs are new (`FreshIds`); and what a call knows still holds when it acts on it
(`Informed`): the record it has probed is the one it removes, and the lease a
release removes is nobody's any more. The last is what the guard is for, and
where the proof of each step lies: `CallGoesOn` for the probe and the
comparison, `UnlinkKeeps` for the removal, `PublishKeeps` for the publication,
`CallEnds` for every way out of a call, the death of its process included.

*References* need no guard: `Counted` speaks of one process's own table and
handles, and of the new owner ID a publication uses.

*The refinement* has `LeaseInv` as its invariant. `HoldingOnRecord` says that
the attached leases are at most the one on record, so any step that leaves the
record alone either detaches that lease or stutters.

Only model-checked: `CallsSettle`, which is liveness.

### 4.3 The queue

For all numbers of projects, sessions, workers, keys, handoffs and faults, from
`QueueAssumption` (limits are positive, bounds are natural numbers, `NoKey` is
no key):

| Theorem | Statement |
|---|---|
| `QueueTyped` | `Spec => []QueueTypeOK` |
| `QueueSlots` | `Spec => []SlotsBounded` |
| `QueueLength` | `Spec => []PendingBounded` |
| `QueueKeys` | `Spec => []OneSessionPerKey` |
| `QueueFair` | `NumProjects = 2` implies `Spec => []FairTurns` |

*Slots.* `SlotsBounded` is not inductive: between `Select`, which looks for a
slot, and `Launch`, which fills it, the slot is only kept because nobody else
may take one meanwhile. `Room` says so: while a pass is in need of a slot
(`InNeed`: it has selected a request, or it is about to launch one that has
been given up since), the workers besides its target leave one free, in all and
in the target's project. It holds because starts need the lock and what happens
without it (`WorkerEnds`, `Abandon`, `Handoff`) does not add to the sessions
that work; a prepared handoff is counted against others but is no worker
itself. `QueueInv` is the conjunction of types, `Room` and the three bounds;
the cardinalities are dealt with by lemmas about adding one session to, and
taking one from, a set of sessions.

*Fairness of turns.* The invariant `Turns` bounds, of two projects, how often
each was passed over by what the pass or the cursor file remembers
(`Allowance`): the project that had the last turn may have been passed over no
more than the turns lost before, the other one once more. A turn that was
selected and not remembered, because the pass died or a write failed, adds one
to `lost`. That the theorem assumes two projects is no convenience: with three
it is false (section 3).

### 4.4 The questions

For all sets of requests, workers, operators, answers and keys, from
`InboxAssumption` (`NoOne` is no request, worker or answer, "expire" is no
answer, deadlines are those of requests):

| Theorem | Statement |
|---|---|
| `InteractionTyped` | `Spec => []InteractionTypeOK` |
| `OneAnswerWins` | `Spec => []OneAnswer` |
| `AnswersAreFenced` | `Spec => AnswerFenced` |
| `WaitsForSomeone` | `Spec => []WaitedFor` |

None of the three properties is inductive; one invariant, `InboxInv`, carries
all of them. *One answer.* `Answered` relates an item to its receipts and to its
task: a response is there only from `accepted` on, a key stands for that
response or for an expiry that left none, and so does what the task has. `Called`
says the same of what each operator was told. An item's status moves only
forward (`ItemStep`: `Turned`, or the insertion, or the one call that wins), so
neither ever becomes false; a call wins only on a pending item, which has no
response, no receipt and no answered task yet (`Registered` gives the items of
tasks that have not asked).

*Fencing.* While a task waits, its session, if it is still in the task's attempt,
waits for the task's item under its lease or was cancelled (`Fenced`): only
`Publish` makes a session wait, it needs a running one, and only the task it
waits for makes it run again in that attempt. The task's `Resume` compares status,
attempt and lease of the record, and `Fenced` gives the rest of `Current`, the
item itself, which `Resume` does not compare.

*Waiting.* `Awaited` says that a waiting session names a task that waits, or one
that has ended; `OwnAttempt` that the tasks of the worker which has the session
ask in its attempt. So whichever exit of `_wait_for_inbox_item` a task takes
while its worker works, the comparison before the exit succeeds and the session
runs again (`Held`, and the step <3>2 of `WaitedForStep`).

### 4.5 The messages

For all sets of messages, workers and supervisors and all bounds, from
`InputAssumption` (`NoOne` is no message or process, workers are no supervisors,
"intent" is no message, the bound on pending messages is positive). The sets
may be infinite: that the accepted messages are finitely many is part of the
invariant.

| Theorem | Statement |
|---|---|
| `InputInvariant` | `Spec => []InputInv` |
| `InputTyped` | `Spec => []InputTypeOK`, with the exclusion of the inbox lock |
| `TakenByOne` | `Spec => []TakenOnce` |
| `ReceiptsAreTrue` | `Spec => []ReceiptsTrue` |
| `PendingIsBounded` | `Spec => []QueueBounded` |
| `ClosedStaysClosed` | `Spec => ClosedForGood` |
| `OldestFirst` | `Spec => InOrder` |
| `DeferredIsKept` | `Spec => DeferredKept` |
| `InputComesFirst` | `Spec => InputFirst` |

*Types* include that a process is at a step under the inbox lock exactly when
it has the lock, so the log does not change between a read under the lock and
the append that goes by it. `QueueBounded` follows: what `enqueue` has seen
(`Knows`: the message is new, and there is room) still holds when it appends.

*Takers.* `TakenFrom` relates a receipt to the messages each worker took: a
message in `delivered` of a worker is the one its receipt names, and has left
`accepted` for good; a deferred one names nobody. `LogMoves` says what any step
makes of the log: one message accepted where there is room, or every message
kept, deferred, bound, delivered, completed or rejected. `TakenOnce`,
`ReceiptsTrue` and `ClosedForGood` follow from these.

*An attempt for a message.* `InputFirst` relates a call of a supervisor that
decided to start the session, the record it commits, and the worker that comes
of it. While the call is under way and the record is still the one it read, no
worker of the session lives (`Vacant`), none is about to take a message
(`NoneTakes`), and a deferred message waits or was rejected (`Awaits`); the new
attempt inherits that (`Served`), until its worker lists what is deferred. It
ends with an empty list only where a message was rejected (`Dismissed`).

### 4.6 The schedules

For all sets of services and all bounds on time, requests, faults and sessions
in flight, from `ScheduleAssumption` (bounds are natural numbers, `MaxTime` and
`MaxInFlight` positive, `NoOne` is no service):

| Theorem | Statement |
|---|---|
| `SchedInvariant` | `Spec => []SchedInv` |
| `ScheduleTyped` | `Spec => []ScheduleTypeOK`, with the exclusion of `dispatch.lock` |
| `EachTickOnce` | `Spec => []TicksClaimedOnce` |
| `OneSessionEach` | `Spec => []OneRunEach` |
| `RunsAreBounded` | `Spec => []BoundedRuns` |

*Ticks.* Every tick that an occurrence stands for lies behind the clock and
before the cursor (`Ticked`), so the one that a claim takes, whose cursor is
still the one it read, is new.

*Sessions.* A session has one start, and a row that was marked `prepared` before
it (`Ran`): `submit` makes one only where `Prepare` or the list under the lock
has found none, and only the holder of `dispatch.lock` does so.

*Policies.* `BoundedRuns` counts sessions, the code counts rows in flight. `Ran`
links them: unless the policy is skip, a live session's row is in flight, as
`Reserve`, the receipt and the reconciliation end a row only when its session is
over or was never there (`Closes`). So the look at the rows in `Consider` finds
`Room` for one session, and nobody else makes one until the dispatcher has
(`Serves`).

### 4.7 The log

For all sets of processes and any number of lines, deaths and outages, from
`RegistryAssumption` (bounds are natural numbers, `NoOne` is no process):

| Theorem | Statement |
|---|---|
| `LogInvariant` | `Spec => []LogInv` |
| `RegistryTyped` | `Spec => []RegistryTypeOK`, with the exclusion of `registry.lock` and of the index's transaction |
| `AcknowledgedStay` | `Spec => []AcknowledgedKept` |
| `SequenceCounts` | `Spec => []SequenceUnbroken` |
| `ReadersSee` | `Spec => []ReadsFresh` |
| `IndexIsFold` | `Spec => [](outages <= 1 => IndexFollowsLog)` |

*Numbers.* The event at a position has the position as its number (`Unbroken`),
and so has every index that was ever written (`IndexOK`), the durable one
included: after an outage an old index is still a position of the log, or the
log is shorter and the index is found too long.

*Knowledge.* Each modification has a new time, so a fingerprint that matches is
of this very file (`Knows`). An appender holds `registry.lock` from its sync to
its release: what it found is still so when it cuts the torn tail, and when it
writes (`Appends`). A reader has no lock: the events it has to see lie below the
size it took from `stat`, then below the position of the index (`Reads`), and
both only grow while it is at work, as nobody cuts a complete line and an outage
ends every process.

*Acknowledged* events are among the synced lines, which nothing removes.

*The record.* `Folders` and `Records` are recursive functions over the positions
of a log. That each exists (`FoldersDef`, `RecordsDef`), and what they compute,
is proved by induction over positions (`UpTo`): a property of sets, which
follows from the least element of a nonempty set of numbers, so that no theorem
with an operator as a parameter is needed. `ApplyIsAfter` is the argument of the
code: a folder that is finished after a line holds what applying that line to
the finished folder before it gives, heartbeat or not. So a fold that starts
from the record of any position ends with the record of the last (`FoldedIs`),
and logs that agree up to a position agree on its record (`RecordsAgree`).

*The index* then holds the record of its position (`Followed`): a rebuild starts
at 0, a tail at the index's own position, and an append applies its own line
only where the index is one line behind. An append finds the index at the end
of the log, so no new line is put where an index ahead of the log has had
another. An outage leaves a beginning of the log and an index that was right
once; that is enough for the first, and for no more, which is why the theorem
counts them.

### 4.8 Only model-checked

All liveness, here `CancellationEnds`, `DeadWorkerReconciled`, `LaunchSettles`,
`CallsReturn`, `CallsSettle`, `EndReported` and `SkipSettles`: fairness is beyond
the prover. Every invariant, action property and refinement that a passing run
checks is the subject of a theorem, some under the hypotheses named above.

## 5. Not modelled

Contents of requests, answers, results and messages; titles, labels, usage, priority
edits; the artifacts moved to trash; terminals; what an agent does in an
attempt; calendar arithmetic of schedules; the limit of sessions per user; short
writes to a full disk. Of the components of `PROJECT.json` that are not
modelled, the TUI, the command line, tools, plugins, configuration and
worktrees are presentation or calls of external programs; the workflow engine,
sub-agents and runners have control worth modelling that a later module may
take; the kernel and the session service are in the plan. Together they are
most of the program's lines, which is why the map covers a small part of them.

## 6. Plan

In this order, each with an MC module, mutated variants and, where marked,
theorems:

1. `InputInbox`: liveness of deferred input under fair maintenance (two cases
   in which a message waits for the user are listed as hazards).
2. `RegistryLog` as an implementation of an atomic register per session, which
   is what `BackgroundSession` assumes of a commit.
3. `SessionService` and `KernelProcessor`: command identity, cursors, replay.
4. More proofs: `InteractionInbox` as an implementation of one question and one
   answer, `Schedules` of a claim and a run per tick.
5. `DispatchQueue`: liveness of the queue where workers end (it holds on an
   instance without faults), priorities, the limit per user.
6. `SessionLease` with failing reads of `.owner`, of which the loss of a
   process's own entry at re-entry is the interesting case.
