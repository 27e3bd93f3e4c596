---------------------- MODULE SessionFence_proofs ----------------------
(***************************************************************************)
(* The safety of attempts, for every number of workers and supervisors:    *)
(* attempts are fenced, one worker executes, the applied mode is the       *)
(* newest attempt's, and the session implements AttemptFence.  Then what   *)
(* the steps decide by: an attempt has one outcome, launches are           *)
(* serialized, a session completes by its owner, and a cancellation stays. *)
(***************************************************************************)
EXTENDS BackgroundSession_proofs

-----------------------------------------------------------------------------
(* What the steps of everybody but the claiming worker leave alone *)

AttemptKept ==
  /\ rec'.attempt = rec.attempt /\ rec'.lease \in {rec.lease, NoOne}
  /\ rec'.mode \in {rec.mode, 0}

(* No supervisor grants an attempt, names an owner or applies a mode. *)
LEMMA SupervisorsKeepAttempt ==
  ASSUME TypeOK, NEW c \in Clients, ClientStep(c) \/ ClientCrash(c)
  PROVE  AttemptKept
<1>f. rec \in Record
  BY RecordFields
<1>1. CASE DropQueued(c)
  BY <1>1, <1>f
     DEF DropQueued, Commit, Transition, Record, AttemptKept, storeVars
<1>2. CASE StopWrite(c)
  BY <1>2, <1>f
     DEF StopWrite, Commit, Transition, Record, AttemptKept, storeVars
<1>3. CASE CancelledWrite(c)
  BY <1>3, <1>f
     DEF CancelledWrite, Commit, Transition, Record, AttemptKept, storeVars
<1>4. CASE Tombstone(c)
  BY <1>4, <1>f
     DEF Tombstone, Commit, Transition, Record, AttemptKept, storeVars
<1>5. CASE RestoreDeleted(c)
  BY <1>5, <1>f
     DEF RestoreDeleted, Commit, Transition, Record, AttemptKept, storeVars
<1>6. CASE ArchiveWrite(c)
  BY <1>6, <1>f
     DEF ArchiveWrite, Commit, Transition, Record, AttemptKept, storeVars
<1>7. CASE RestoreArchiveWrite(c)
  BY <1>7, <1>f
     DEF RestoreArchiveWrite, Commit, Transition, Record, AttemptKept, storeVars
<1>8. CASE HandoffWrite(c)
  BY <1>8, <1>f
     DEF HandoffWrite, Commit, Transition, Record, AttemptKept, storeVars
<1>9. CASE CompletedWrite(c)
  BY <1>9, <1>f
     DEF CompletedWrite, Commit, Transition, Record, AttemptKept, storeVars
<1>10. CASE HandoffMode(c)
  BY <1>10, <1>f
     DEF HandoffMode, Commit, Transition, Record, AttemptKept, storeVars
<1>11. CASE InputWrite(c)
  BY <1>11, <1>f
     DEF InputWrite, Commit, Transition, Record, AttemptKept, storeVars
<1>12. CASE Requeue(c)
  BY <1>12, <1>f
     DEF Requeue, Commit, Transition, Record, AttemptKept, storeVars
<1>13. CASE LaunchFailed(c)
  BY <1>13, <1>f
     DEF LaunchFailed, Commit, Transition, Record, AttemptKept, storeVars
<1>14. CASE RecordWrite(c)
  BY <1>14, <1>f
     DEF RecordWrite, Commit, Transition, Record, AttemptKept, storeVars
<1>15. CASE Reserve(c)
  BY <1>15, <1>f
     DEF Reserve, Commit, Transition, Record, AttemptKept, storeVars
<1>16. CASE Reap(c)
  BY <1>16, <1>f
     DEF Reap, Commit, Transition, Record, AttemptKept, storeVars
<1>17. CASE Reload(c)
  BY <1>17, <1>f
     DEF Reload, Commit, Transition, Record, AttemptKept, storeVars
<1>18. CASE RecoverRead(c)
  BY <1>18, <1>f
     DEF RecoverRead, Commit, Transition, Record, AttemptKept, storeVars
<1>19. CASE RecoverWrite(c)
  BY <1>19, <1>f
     DEF RecoverWrite, Commit, Transition, Record, AttemptKept, storeVars
<1>20. CASE UNCHANGED rec
  BY <1>20 DEF AttemptKept
<1>21. QED
  BY <1>1, <1>2, <1>3, <1>4, <1>5, <1>6, <1>7, <1>8, <1>9, <1>10, <1>11,
     <1>12, <1>13, <1>14, <1>15, <1>16, <1>17, <1>18, <1>19, <1>20 DEF
     ClientStep, StopStep, ArchiveStep, RestartStep, LaunchStep, DispatchStep,
     RecoverStep, storeVars, StopEnter, DeleteRead, StopRead, Signal,
     GraceOver, StopCheck, CancelledRead, ArchiveRead, RestoreArchiveRead,
     HandoffRead, HandoffPrepare, HandoffRequest, InputRead, StartRead,
     StartLock, Spawn, RecordRead, Dispatch, DispatchNothing, ClientCrash

(* Nor does one touch a worker, but to spawn it. *)
LEMMA SupervisorsKeepWorkers ==
  ASSUME NEW c \in Clients, ClientStep(c) \/ ClientCrash(c)
  PROVE  /\ UNCHANGED <<attemptOf, owner>>
         /\ \/ UNCHANGED worker
            \/ \E w \in Workers : worker[w].pc = "unborn" /\ WGoto(w, "spawned")
<1>1. CASE Spawn(c)
  BY <1>1 DEF Spawn
<1>2. CASE Signal(c)
  BY <1>2 DEF Signal
<1>3. CASE UNCHANGED processVars
  BY <1>3 DEF processVars
<1>4. QED
  BY <1>1, <1>2, <1>3 DEF ClientStep, StopStep, ArchiveStep, RestartStep,
     LaunchStep, DispatchStep, RecoverStep, DropQueued, StopWrite,
     CancelledWrite, Tombstone, RestoreDeleted, ArchiveWrite,
     RestoreArchiveWrite, HandoffWrite, CompletedWrite, HandoffMode,
     InputWrite, Requeue, LaunchFailed, RecordWrite, Reserve, Reap, Reload,
     RecoverRead, RecoverWrite, StopEnter, DeleteRead, StopRead, GraceOver,
     StopCheck, CancelledRead, ArchiveRead, RestoreArchiveRead, HandoffRead,
     HandoffPrepare, HandoffRequest, InputRead, StartRead, StartLock,
     RecordRead, Dispatch, DispatchNothing, ClientCrash

(* A worker grants itself an attempt by Claim only, and an attempt's mode is
   applied by AttestMode only. *)
LEMMA WorkersKeepAttempt ==
  ASSUME TypeOK, NEW w \in Workers, WorkerStep(w)
  PROVE  /\ Claim(w) \/ (rec'.attempt = rec.attempt /\ UNCHANGED attemptOf)
         /\ Claim(w) \/ rec'.lease \in {rec.lease, NoOne}
         /\ Claim(w) \/ AttestMode(w) \/ rec'.mode \in {rec.mode, 0}
<1>f. rec \in Record
  BY RecordFields
<1>1. CASE ClaimStart(w)
  BY <1>1, <1>f DEF ClaimStart, Commit, Transition, Record, storeVars, processVars
<1>2. CASE AttestMode(w)
  BY <1>2, <1>f DEF AttestMode, Commit, Transition, Record, storeVars, processVars
<1>3. CASE Heartbeat(w)
  BY <1>3, <1>f DEF Heartbeat, Commit, Transition, Record, storeVars, processVars
<1>4. CASE AskUser(w)
  BY <1>4, <1>f DEF AskUser, Commit, Transition, Record, storeVars, processVars
<1>5. CASE AskEnds(w)
  BY <1>5, <1>f DEF AskEnds, Commit, Transition, Record, storeVars, processVars
<1>6. CASE FinalWrite(w)
  BY <1>6, <1>f DEF FinalWrite, Commit, Transition, Record, storeVars, processVars
<1>7. CASE UNCHANGED <<rec, attemptOf>>
  BY <1>7
<1>8. QED
  BY <1>1, <1>2, <1>3, <1>4, <1>5, <1>6, <1>7 DEF WorkerStep, storeVars,
     LoadRequest, ClaimRead, AcquireOwner, CheckMode, Finish, Fail, Interrupt,
     FinalRead, Release, Die

Others(w) == \A v \in Workers \ {w} : worker'[v] = worker[v]

LEMMA WorkerMoves ==
  ASSUME worker \in [Workers -> WorkerState], NEW w \in Workers
  PROVE  /\ \A pc : WGoto(w, pc) => worker'[w].pc = pc /\ Others(w)
         /\ \A pc, r : WGotoSeen(w, pc, r) => worker'[w].pc = pc /\ Others(w)
         /\ \A pc, o : WOutcome(w, pc, o) => worker'[w].pc = pc /\ Others(w)
         /\ \A pc : WEnd(w, pc) => worker'[w].pc = pc /\ Others(w)
<1>1. worker[w] \in WorkerState
  OBVIOUS
<1>2. \A pc : [Unborn EXCEPT !.pc = pc].pc = pc
  BY DEF Unborn
<1>3. \A pc : [worker[w] EXCEPT !.pc = pc].pc = pc
  BY <1>1 DEF WorkerState
<1>4. \A pc : WGoto(w, pc) => worker'[w].pc = pc /\ Others(w)
  BY <1>3 DEF WGoto, Others
<1>5. \A pc, r : WGotoSeen(w, pc, r) => worker'[w].pc = pc /\ Others(w)
  BY <1>1 DEF WGotoSeen, Others, WorkerState
<1>6. \A pc, o : WOutcome(w, pc, o) => worker'[w].pc = pc /\ Others(w)
  BY <1>1 DEF WOutcome, Others, WorkerState
<1>7. \A pc : WEnd(w, pc) => worker'[w].pc = pc /\ Others(w)
  BY <1>2 DEF WEnd, Others
<1>8. QED
  BY <1>4, <1>5, <1>6, <1>7

(* Where a worker step leads: a claim is behind it for good, and the steps
   that need the owner lease come after AcquireOwner. *)
LEMMA WorkerProgress ==
  ASSUME TypeOK, NEW w \in Workers, WorkerStep(w)
  PROVE  /\ Others(w)
         /\ worker'[w].pc \in Unclaimed =>
              worker[w].pc \in Unclaimed /\ UNCHANGED attemptOf
         /\ worker'[w].pc \in UnderOwnerLease =>
              \/ worker[w].pc \in UnderOwnerLease /\ UNCHANGED owner
              \/ ~Alive(owner) /\ owner' = w
         /\ \/ UNCHANGED owner
            \/ ~Alive(owner) /\ owner' = w
            \/ owner = w /\ owner' = NoOne
<1>f. worker \in [Workers -> WorkerState]
  BY WorkerFields
<1>1. CASE LoadRequest(w)
  <2>1. worker'[w].pc = "claimRead" /\ Others(w)
    BY <1>1, <1>f DEF LoadRequest, WorkerState, Others
  <2>2. QED
    BY <2>1, <1>1 DEF LoadRequest, Unclaimed, UnderOwnerLease
<1>2. CASE ClaimRead(w)
  BY <1>2, <1>f, WorkerMoves
     DEF ClaimRead, Unclaimed, UnderOwnerLease
<1>3. CASE ClaimStart(w)
  BY <1>3, <1>f, WorkerMoves
     DEF ClaimStart, Unclaimed, UnderOwnerLease
<1>4. CASE Claim(w)
  BY <1>4, <1>f, WorkerMoves
     DEF Claim, Unclaimed, UnderOwnerLease
<1>5. CASE AcquireOwner(w)
  BY <1>5, <1>f, WorkerMoves
     DEF AcquireOwner, Unclaimed, UnderOwnerLease
<1>6. CASE AttestMode(w)
  BY <1>6, <1>f, WorkerMoves
     DEF AttestMode, Unclaimed, UnderOwnerLease
<1>7. CASE CheckMode(w)
  BY <1>7, <1>f, WorkerMoves
     DEF CheckMode, Unclaimed, UnderOwnerLease
<1>8. CASE Heartbeat(w)
  BY <1>8
     DEF Heartbeat, Others, Unclaimed, UnderOwnerLease, processVars
<1>9. CASE AskUser(w)
  BY <1>9, <1>f, WorkerMoves
     DEF AskUser, Unclaimed, UnderOwnerLease
<1>10. CASE AskEnds(w)
  BY <1>10, <1>f, WorkerMoves
     DEF AskEnds, Unclaimed, UnderOwnerLease
<1>11. CASE Finish(w)
  BY <1>11, <1>f, WorkerMoves
     DEF Finish, Unclaimed, UnderOwnerLease
<1>12. CASE Fail(w)
  BY <1>12, <1>f, WorkerMoves
     DEF Fail, Unclaimed, UnderOwnerLease
<1>13. CASE Interrupt(w)
  BY <1>13, <1>f, WorkerMoves
     DEF Interrupt, Unclaimed, UnderOwnerLease
<1>14. CASE FinalRead(w)
  BY <1>14, <1>f, WorkerMoves
     DEF FinalRead, Unclaimed, UnderOwnerLease
<1>15. CASE FinalWrite(w)
  BY <1>15, <1>f, WorkerMoves
     DEF FinalWrite, Unclaimed, UnderOwnerLease
<1>16. CASE Release(w)
  BY <1>16, <1>f, WorkerMoves
     DEF Release, Unclaimed, UnderOwnerLease
<1>17. CASE Die(w)
  BY <1>17, <1>f, WorkerMoves
     DEF Die, Unclaimed, UnderOwnerLease
<1>18. QED
  BY <1>1, <1>2, <1>3, <1>4, <1>5, <1>6, <1>7, <1>8,
     <1>9, <1>10, <1>11, <1>12, <1>13, <1>14, <1>15, <1>16, <1>17 DEF WorkerStep

-----------------------------------------------------------------------------
(* The inductive invariant of the fence *)

(* An attempt is claimed before anything that needs one, and is never newer
   than the record's; a worker past AcquireOwner is named in the lease. *)
ClaimedInOrder ==
  \A w \in Workers : /\ worker[w].pc \in Unclaimed => attemptOf[w] = 0
                     /\ attemptOf[w] <= rec.attempt
LeaseNamesWorker ==
  \A w \in Workers : worker[w].pc \in UnderOwnerLease => owner = w
FenceInv ==
  ClaimedInOrder /\ LeaseNamesWorker /\ AttemptsFenced /\ ModeOfNewestAttempt

LEMMA FenceInit == ASSUME Init PROVE FenceInv
BY ConfigAssumption
   DEF Init, FenceInv, ClaimedInOrder, LeaseNamesWorker, AttemptsFenced,
       ModeOfNewestAttempt, Blank, Unborn, UnderOwnerLease

(* A supervisor's step keeps it: an attempt stays whose it was. *)
LEMMA FenceSupervisorStep ==
  ASSUME TypeOK, FenceInv, NEW c \in Clients, ClientStep(c) \/ ClientCrash(c)
  PROVE  FenceInv'
<1>1. AttemptKept /\ UNCHANGED <<attemptOf, owner>>
  BY SupervisorsKeepAttempt, SupervisorsKeepWorkers
<1>2. rec \in Record /\ attemptOf \in [Workers -> Nat]
  BY RecordFields DEF TypeOK, ProcessesTyped
<1>3. \A w \in Workers : \/ worker'[w].pc = worker[w].pc
                         \/ /\ worker'[w].pc = "spawned"
                            /\ worker[w].pc = "unborn"
  <2>1. worker \in [Workers -> WorkerState]
    BY DEF TypeOK, ProcessesTyped
  <2>2. CASE UNCHANGED worker
    BY <2>2
  <2>3. ASSUME NEW v \in Workers, worker[v].pc = "unborn", WGoto(v, "spawned")
        PROVE  \A w \in Workers : \/ worker'[w].pc = worker[w].pc
                                  \/ /\ worker'[w].pc = "spawned"
                                     /\ worker[w].pc = "unborn"
    BY <2>1, <2>3, WorkerMoves DEF Others
  <2>4. QED
    BY <2>2, <2>3, SupervisorsKeepWorkers
<1>4. ClaimedInOrder' /\ LeaseNamesWorker'
  BY <1>1, <1>3 DEF FenceInv, ClaimedInOrder, LeaseNamesWorker, AttemptKept,
                    Unclaimed, UnderOwnerLease
<1>5. AttemptsFenced' /\ ModeOfNewestAttempt'
  BY <1>1 DEF FenceInv, AttemptsFenced, ModeOfNewestAttempt, AttemptKept
<1>6. QED
  BY <1>4, <1>5 DEF FenceInv

(* A worker's step keeps it. *)
LEMMA FenceWorkerStep ==
  ASSUME TypeOK, FenceInv, NEW w \in Workers, WorkerStep(w)
  PROVE  FenceInv'
<1>f. /\ rec \in Record /\ rec.attempt \in Nat /\ attemptOf \in [Workers -> Nat]
      /\ rec.lease \in Workers \cup {NoOne} /\ NoOne \notin Workers
  BY RecordFields, WorkerFields, ConfigAssumption
<1>1. LeaseNamesWorker'
  <2>1. ASSUME NEW v \in Workers, v # w, worker'[v].pc \in UnderOwnerLease
        PROVE  owner' = v
    <3>1. worker[v].pc \in UnderOwnerLease
      BY <2>1, WorkerProgress DEF Others
    <3>2. owner = v /\ Alive(v)
      BY <3>1 DEF FenceInv, LeaseNamesWorker, Alive, UnderOwnerLease
    <3>3. QED
      BY <2>1, <3>2, WorkerProgress
  <2>2. ASSUME worker'[w].pc \in UnderOwnerLease
        PROVE  owner' = w
    BY <2>2, WorkerProgress DEF FenceInv, LeaseNamesWorker
  <2>3. QED
    BY <2>1, <2>2 DEF LeaseNamesWorker
<1>2. CASE Claim(w) /\ UNCHANGED <<rec, attemptOf>>
  <2>1. ClaimedInOrder'
    BY <1>2, WorkerProgress DEF FenceInv, ClaimedInOrder, Others
  <2>2. QED
    BY <1>1, <1>2, <2>1 DEF FenceInv, AttemptsFenced, ModeOfNewestAttempt
<1>3. CASE Claim(w) /\ SameRevision(worker[w].seen)
  <2>1. /\ rec'.attempt = rec.attempt + 1 /\ rec'.lease = w /\ rec'.mode = 0
        /\ attemptOf' = [attemptOf EXCEPT ![w] = rec.attempt + 1]
    <3>1. worker[w].seen.attempt = rec.attempt
      BY <1>3 DEF SameRevision
    <3>2. attemptOf' = [attemptOf EXCEPT ![w] = rec.attempt + 1]
      BY <1>3, <3>1 DEF Claim
    <3>3. rec' = [Transition(worker[w].seen, "RUNNING") EXCEPT
                    !.attempt = worker[w].seen.attempt + 1,
                    !.lease = w, !.pid = w, !.mode = 0,
                    !.dispatch = IF worker[w].token # 0 THEN "STARTED"
                                 ELSE worker[w].seen.dispatch]
      BY <1>3 DEF Claim, Commit
    <3>4. rec'.attempt = rec.attempt + 1 /\ rec'.lease = w /\ rec'.mode = 0
      BY <3>1, <3>3, <1>f DEF Transition, Record
    <3>5. QED
      BY <3>2, <3>4
  <2>2. attemptOf'[w] = rec.attempt + 1
    BY <2>1, <1>f
  <2>3. \A v \in Workers \ {w} : attemptOf'[v] = attemptOf[v]
    BY <2>1, <1>f
  <2>4. \A v \in Workers : attemptOf[v] \in Nat /\ attemptOf[v] <= rec.attempt
    BY <1>f DEF FenceInv, ClaimedInOrder
  <2>5. worker'[w].pc \notin Unclaimed
    BY <1>3, WorkerMoves, WorkerFields DEF Claim, Unclaimed
  <2>6. ClaimedInOrder'
    BY <2>1, <2>2, <2>3, <2>4, <2>5, <1>f, WorkerProgress
       DEF FenceInv, ClaimedInOrder, Others
  <2>7. AttemptsFenced'
    BY <2>1, <2>2, <2>3, <2>4, <1>f DEF FenceInv, AttemptsFenced
  <2>8. QED
    BY <1>1, <2>1, <2>6, <2>7 DEF FenceInv, ModeOfNewestAttempt
<1>4. CASE ~Claim(w)
  <2>1. /\ rec'.attempt = rec.attempt /\ UNCHANGED attemptOf
        /\ rec'.lease \in {rec.lease, NoOne}
    BY <1>4, WorkersKeepAttempt
  <2>2. ClaimedInOrder'
    BY <2>1, WorkerProgress DEF FenceInv, ClaimedInOrder, Others
  <2>3. AttemptsFenced'
    BY <2>1 DEF FenceInv, AttemptsFenced
  <2>4. ModeOfNewestAttempt'
    <3>1. CASE AttestMode(w)
      BY <3>1, <2>1, <1>f DEF FenceInv, ModeOfNewestAttempt, AttestMode, Commit,
                              OwnsAttempt, storeVars, Record
    <3>2. CASE ~AttestMode(w)
      BY <3>2, <1>4, <2>1, WorkersKeepAttempt DEF FenceInv, ModeOfNewestAttempt
    <3>3. QED
      BY <3>1, <3>2
  <2>5. QED
    BY <1>1, <2>2, <2>3, <2>4 DEF FenceInv
<1>5. QED
  BY <1>2, <1>3, <1>4 DEF Claim, storeVars

LEMMA FenceStep == ASSUME TypeOK, FenceInv, [Next]_vars PROVE FenceInv'
<1>1. CASE UNCHANGED vars
  BY <1>1 DEF vars, FenceInv, ClaimedInOrder, LeaseNamesWorker, AttemptsFenced,
              ModeOfNewestAttempt
<1>2. QED
  BY <1>1, FenceSupervisorStep, FenceWorkerStep DEF Next, Quiet, SupervisorStep

LEMMA FenceInvariant == Spec => [](TypeOK /\ FenceInv)
<1>1. Init => FenceInv
  BY FenceInit
<1>2. TypeOK /\ FenceInv /\ [Next]_vars => FenceInv'
  BY FenceStep
<1>3. QED
  BY <1>1, <1>2, TypeCorrect, PTL DEF Spec

(* No two workers claim the same attempt, whatever the launches and restarts,
   and the lease in the record is the newest attempt's. *)
THEOREM AttemptsAreFenced == Spec => []AttemptsFenced
BY FenceInvariant, PTL DEF FenceInv

(* Two worker processes never execute the session at the same time. *)
THEOREM ExecutorIsAlone == Spec => []OneExecutor
<1>1. FenceInv => OneExecutor
  BY DEF FenceInv, LeaseNamesWorker, OneExecutor, Executing, UnderOwnerLease
<1>2. QED
  BY <1>1, FenceInvariant, PTL

(* The applied mode is the newest attempt's. *)
THEOREM ModeIsNewest == Spec => []ModeOfNewestAttempt
BY FenceInvariant, PTL DEF FenceInv

-----------------------------------------------------------------------------
(* The session implements the attempt fence *)

executing == {w \in Workers : Executing(w)}

LEMMA FenceRefinementInit == ASSUME Init PROVE Fence!Init
BY ConfigAssumption DEF Init, Fence!Init, Blank, Unborn, Executing

(* A supervisor's step is a stutter, or takes the lease away. *)
LEMMA SupervisorImplements ==
  ASSUME TypeOK, NEW c \in Clients, ClientStep(c) \/ ClientCrash(c)
  PROVE  [Fence!Next]_(Fence!vars)
<1>1. AttemptKept /\ UNCHANGED attemptOf
  BY SupervisorsKeepAttempt, SupervisorsKeepWorkers
<1>2. executing' = executing
  <2>1. worker \in [Workers -> WorkerState]
    BY DEF TypeOK, ProcessesTyped
  <2>2. \A w \in Workers : Executing(w)' = Executing(w)
    BY <2>1, WorkerMoves, SupervisorsKeepWorkers DEF Executing, Others
  <2>3. QED
    BY <2>2 DEF executing
<1>3. QED
  BY <1>1, <1>2 DEF AttemptKept, executing, Fence!Next, Fence!vars, Fence!Revoke

(* A worker's step is a grant, the begin or the end of its execution, the
   release of the lease by its final update, or a stutter. *)
LEMMA WorkerImplements ==
  ASSUME TypeOK, FenceInv, NEW w \in Workers, WorkerStep(w)
  PROVE  [Fence!Next]_(Fence!vars)
<1>f. /\ rec \in Record /\ rec.attempt \in Nat /\ attemptOf \in [Workers -> Nat]
      /\ worker \in [Workers -> WorkerState]
  BY RecordFields, WorkerFields
<1>o. Others(w)
  BY WorkerProgress
<1>e. /\ Executing(w)' <=> worker'[w].pc \in {"working", "asking"}
      /\ (Executing(w)' <=> Executing(w)) => executing' = executing
      /\ ~Executing(w)' => executing' = executing \ {w}
      /\ Executing(w)' => executing' = executing \cup {w}
  BY <1>o DEF executing, Executing, Others
<1>h. ASSUME executing' = executing, rec'.attempt = rec.attempt,
             rec'.lease \in {rec.lease, NoOne}, UNCHANGED attemptOf
      PROVE  [Fence!Next]_(Fence!vars)
  BY <1>h DEF executing, Fence!Next, Fence!vars, Fence!Revoke
<1>1. CASE Claim(w) /\ SameRevision(worker[w].seen)
  <2>1. worker[w].seen.attempt = rec.attempt /\ worker[w].pc = "claim"
    BY <1>1 DEF SameRevision, Claim
  <2>2. attemptOf' = [attemptOf EXCEPT ![w] = rec.attempt + 1]
    BY <1>1, <2>1 DEF Claim
  <2>3. rec' = [Transition(worker[w].seen, "RUNNING") EXCEPT
                  !.attempt = worker[w].seen.attempt + 1,
                  !.lease = w, !.pid = w, !.mode = 0,
                  !.dispatch = IF worker[w].token # 0 THEN "STARTED"
                               ELSE worker[w].seen.dispatch]
    BY <1>1 DEF Claim, Commit
  <2>4. rec'.attempt = rec.attempt + 1 /\ rec'.lease = w
    BY <2>1, <2>3, <1>f DEF Transition, Record
  <2>5. attemptOf[w] = 0
    BY <2>1 DEF FenceInv, ClaimedInOrder, Unclaimed
  <2>6. executing' = executing
    BY <1>1, <2>1, <1>f, <1>e, WorkerMoves DEF Claim, Executing
  <2>7. Fence!Grant(w)
    BY <2>2, <2>4, <2>5, <2>6 DEF Fence!Grant, executing
  <2>8. QED
    BY <2>7 DEF Fence!Next
<1>2. CASE CheckMode(w) /\ worker'[w].pc = "working"
  <2>1. worker[w].pc = "check" /\ UNCHANGED <<rec, attemptOf>> /\ OwnsAttempt(w)
    <3>1. WOutcome(w, "finalRead", "FAILED") => worker'[w].pc = "finalRead"
      BY <1>f, WorkerMoves
    <3>2. QED
      BY <1>2, <3>1 DEF CheckMode, storeVars
  <2>2. owner = w
    BY <2>1 DEF FenceInv, LeaseNamesWorker, UnderOwnerLease
  <2>3. executing = {}
    BY <2>1, <2>2 DEF FenceInv, LeaseNamesWorker, UnderOwnerLease, executing,
                      Executing
  <2>4. executing' = {w}
    BY <1>2, <2>3, <1>e
  <2>5. Fence!Begin(w)
    BY <2>1, <2>3, <2>4 DEF Fence!Begin, executing, OwnsAttempt
  <2>6. QED
    BY <2>5 DEF Fence!Next
<1>3. CASE Executing(w) /\ ~Executing(w)'
  <2>1. UNCHANGED <<rec, attemptOf>>
    BY <1>3, <1>f, <1>e, WorkerMoves
       DEF WorkerStep, LoadRequest, ClaimRead, ClaimStart, Claim, AcquireOwner,
           AttestMode, CheckMode, Heartbeat, AskUser, AskEnds, Finish, Fail,
           Interrupt, FinalRead, FinalWrite, Release, Die, Executing, storeVars,
           processVars
  <2>2. Fence!End(w)
    BY <1>3, <2>1, <1>e DEF Fence!End, executing
  <2>3. QED
    BY <2>2 DEF Fence!Next
<1>4. CASE /\ Executing(w)' <=> Executing(w)
           /\ ~(Claim(w) /\ SameRevision(worker[w].seen))
  <2>1. Claim(w) => UNCHANGED <<rec, attemptOf>>
    BY <1>4 DEF Claim, storeVars
  <2>2. QED
    BY <1>4, <2>1, <1>e, <1>h, WorkersKeepAttempt
<1>5. ASSUME ~Executing(w), Executing(w)'
      PROVE  CheckMode(w) /\ worker'[w].pc = "working"
  <2>1. /\ worker'[w].pc \in {"working", "asking"}
        /\ worker[w].pc \notin {"working", "asking"}
    BY <1>5 DEF Executing
  <2>2. ~LoadRequest(w)
    BY <2>1, <1>f DEF LoadRequest, WorkerState
  <2>3. ~Claim(w) /\ ~FinalWrite(w) /\ ~Heartbeat(w)
    BY <2>1, <1>f, WorkerMoves DEF Claim, FinalWrite, Heartbeat, processVars
  <2>4. ~ClaimRead(w) /\ ~ClaimStart(w) /\ ~AcquireOwner(w) /\ ~AttestMode(w)
    BY <2>1, <1>f, WorkerMoves DEF ClaimRead, ClaimStart, AcquireOwner, AttestMode
  <2>5. ~AskUser(w) /\ ~AskEnds(w) /\ ~Finish(w) /\ ~Fail(w) /\ ~Interrupt(w)
    BY <2>1, <1>f, WorkerMoves DEF AskUser, AskEnds, Finish, Fail, Interrupt
  <2>6. ~FinalRead(w) /\ ~Release(w) /\ ~Die(w)
    BY <2>1, <1>f, WorkerMoves DEF FinalRead, Release, Die
  <2>7. CheckMode(w) => worker'[w].pc = "working"
    BY <2>1, <1>f, WorkerMoves DEF CheckMode
  <2>8. QED
    BY <2>2, <2>3, <2>4, <2>5, <2>6, <2>7 DEF WorkerStep
<1>6. QED
  BY <1>1, <1>2, <1>3, <1>4, <1>5

(* The session of the code implements AttemptFence: attempts are granted once,
   a grant takes the session from everybody else, and execution begins only
   under the newest grant while nobody else executes. *)
THEOREM ImplementsFence == Spec => FenceSpec
<1>1. Init => Fence!Init
  BY FenceRefinementInit
<1>2. TypeOK /\ FenceInv /\ [Next]_vars => [Fence!Next]_(Fence!vars)
  <2>1. CASE UNCHANGED vars
    BY <2>1 DEF vars, Fence!vars, Executing
  <2>2. QED
    BY <2>1, SupervisorImplements, WorkerImplements DEF Next, Quiet, SupervisorStep
<1>3. QED
  BY <1>1, <1>2, FenceInvariant, PTL DEF Spec, FenceSpec, Fence!Spec

-----------------------------------------------------------------------------
(* What a step of a supervisor does to the record, to what it knows of it,  *)
(* and to the scheduler lock                                                *)

(* The statuses that supervisors write *)
Decided == {"QUEUED", "STARTING", "RETRYING", "CANCELLING", "CANCELLED",
            "FAILED", "ORPHANED", "ARCHIVED", "DELETED"}

(* A commit goes by the record of now or by the one that was read before *)
Decides(c) ==
  \/ rec'.history = rec.history /\ rec'.status \in {rec.status} \cup Decided
  \/ \E seen \in {rec, client[c].seen}, target \in Decided :
       rec'.history = HistoryAfter(seen, target) /\ rec'.status = target
  \/ /\ rec'.history = rec.history /\ rec'.status = "COMPLETED"
     /\ rec.status = "DELETED" \/ client[c].pc = "unarchiveWrite"

LEMMA TransitionFields ==
  ASSUME rec \in Record
  PROVE  \A seen, target : /\ Transition(seen, target).status = target
                           /\ Transition(seen, target).history = HistoryAfter(seen, target)
BY DEF Transition, Record

LEMMA SupervisorDecides ==
  ASSUME TypeOK, NEW c \in Clients, ClientStep(c) \/ ClientCrash(c)
  PROVE  Decides(c)
<1> DEFINE seen == client[c].seen
<1>f. rec \in Record /\ client[c].goal \in Goal
  BY RecordFields, ClientFields
<1>t. \A s, t : rec' = Transition(s, t) =>
                  rec'.status = t /\ rec'.history = HistoryAfter(s, t)
  BY <1>f, TransitionFields
<1>r. \A s, t : Transition(s, t) \in [status : {t}, dispatch : DispatchState, attempt : Nat,
                  lease : Workers \cup {NoOne}, pid : Workers \cup {NoOne}, token : Nat,
                  mode : Nat, history : {HistoryAfter(s, t)}]
  BY <1>f DEF Transition, Record
<1>1. CASE DropQueued(c)
  BY <1>1, <1>f, <1>r DEF DropQueued, Commit, Decides, Decided, storeVars
<1>2. CASE StopWrite(c)
  BY <1>2, <1>f DEF StopWrite, Commit, Record, Decides, Decided
<1>3. CASE CancelledWrite(c)
  <2>1. CASE seen.status = "CANCELLED"
    BY <1>3, <1>f, <2>1 DEF CancelledWrite, Commit, Record, Decides
  <2>2. CASE seen.status # "CANCELLED"
    <3>1. rec' = [Transition(seen, "CANCELLED") EXCEPT
                    !.lease = NoOne, !.pid = IF Detached THEN @ ELSE NoOne]
      BY <1>3, <2>2 DEF CancelledWrite, Commit
    <3>2. rec'.history = HistoryAfter(seen, "CANCELLED") /\ rec'.status = "CANCELLED"
      BY <1>r, <3>1
    <3> QED
      BY <3>2 DEF Decides, Decided
  <2> QED
    BY <2>1, <2>2
<1>4. CASE Tombstone(c)
  BY <1>4, <1>f DEF Tombstone, Commit, Record, Decides, Decided, storeVars
<1>5. CASE RestoreDeleted(c)
  BY <1>5, <1>f DEF RestoreDeleted, Record, Decides
<1>6. CASE ArchiveWrite(c)
  BY <1>6, <1>t DEF ArchiveWrite, Commit, Decides, Decided
<1>7. CASE RestoreArchiveWrite(c)
  BY <1>7, <1>f DEF RestoreArchiveWrite, Commit, Record, Decides, At
<1>8. CASE HandoffWrite(c)
  BY <1>8, <1>f, <1>t DEF HandoffWrite, Commit, Decides, Decided, Goal
<1>9. CASE CompletedWrite(c)
  BY <1>9, <1>t DEF CompletedWrite, Commit, Decides, Decided, storeVars
<1>10. CASE HandoffMode(c)
  BY <1>10, <1>f DEF HandoffMode, Commit, Record, Decides, storeVars
<1>11. CASE InputWrite(c)
  <2>1. CASE rec' = [Transition(seen, "STARTING") EXCEPT !.pid = NoOne, !.mode = 0]
    <3>1. rec'.history = HistoryAfter(seen, "STARTING") /\ rec'.status = "STARTING"
      BY <1>f, <1>r, <2>1
    <3> QED
      BY <3>1 DEF Decides, Decided
  <2>2. CASE UNCHANGED rec
    BY <2>2 DEF Decides
  <2> QED
    BY <1>11, <2>1, <2>2 DEF InputWrite, Commit, storeVars
<1>12. CASE Requeue(c)
  BY <1>12, <1>f, <1>r DEF Requeue, Commit, Decides, Decided, storeVars
<1>13. CASE LaunchFailed(c)
  BY <1>13, <1>f, <1>r DEF LaunchFailed, Commit, Decides, Decided
<1>14. CASE RecordWrite(c)
  BY <1>14, <1>f DEF RecordWrite, Commit, Record, Decides, storeVars
<1>15. CASE Reserve(c)
  <2>1. CASE rec' = [Transition(seen, "STARTING") EXCEPT
                       !.dispatch = "CLAIMED", !.token = client[c].token]
    <3>1. rec'.history = HistoryAfter(seen, "STARTING") /\ rec'.status = "STARTING"
      BY <1>f, <1>r, <2>1
    <3> QED
      BY <3>1 DEF Decides, Decided
  <2>2. CASE rec' = [Transition(seen, "FAILED") EXCEPT !.dispatch = "FAILED"]
    <3>1. rec'.history = HistoryAfter(seen, "FAILED") /\ rec'.status = "FAILED"
      BY <1>f, <1>r, <2>2
    <3> QED
      BY <3>1 DEF Decides, Decided
  <2>3. CASE UNCHANGED rec
    BY <2>3 DEF Decides
  <2> QED
    BY <1>15, <2>1, <2>2, <2>3 DEF Reserve, Commit, storeVars
<1>16. CASE Reap(c)
  BY <1>16, <1>f DEF Reap, Commit, Record, Decides, storeVars
<1>17. CASE Reload(c)
  BY <1>17, <1>t DEF Reload, Commit, Decides, Decided, storeVars
<1>18. CASE RecoverWrite(c)
  BY <1>18, <1>t DEF RecoverWrite, Commit, Decides, Decided
<1>19. CASE UNCHANGED rec
  BY <1>19 DEF Decides
<1> QED
  BY <1>1, <1>2, <1>3, <1>4, <1>5, <1>6, <1>7, <1>8, <1>9, <1>10, <1>11, <1>12,
     <1>13, <1>14, <1>15, <1>16, <1>17, <1>18, <1>19 DEF
     ClientStep, StopStep, ArchiveStep, RestartStep, LaunchStep, DispatchStep,
     RecoverStep, storeVars, StopEnter, DeleteRead, StopRead, Signal,
     GraceOver, StopCheck, CancelledRead, ArchiveRead, RestoreArchiveRead,
     HandoffRead, HandoffPrepare, HandoffRequest, InputRead, StartRead,
     StartLock, Spawn, RecordRead, Dispatch, DispatchNothing, RecoverRead, ClientCrash


(* Who goes on, with what, and what becomes of queue-scheduler.lock *)
Proceeds(c) ==
  /\ \A d \in Clients \ {c} : client'[d] = client[d]
  /\ client'[c].seen \in {client[c].seen, Blank, rec, rec'}
  /\ client'[c].pc = "unarchiveWrite" =>
       client[c].pc = "unarchiveWrite" \/ "unarchive" \in Operations
  /\ schedLock' # schedLock => schedLock \in {c, NoOne} /\ schedLock' \in {c, NoOne}
  /\ QueueEnabled /\ (Launching(c) => schedLock = c) => (Launching(c)' => schedLock' = c)

LEMMA ClientMoves ==
  ASSUME client \in [Clients -> ClientState], NEW c \in Clients
  PROVE  /\ \A pc : Goto(c, pc) =>
              /\ client'[c].pc = pc /\ client'[c].seen = client[c].seen
              /\ \A d \in Clients \ {c} : client'[d] = client[d]
         /\ \A pc, r : GotoSeen(c, pc, r) =>
              /\ client'[c].pc = pc /\ client'[c].seen = r
              /\ \A d \in Clients \ {c} : client'[d] = client[d]
         /\ Return(c) =>
              /\ client'[c].pc = "idle" /\ client'[c].seen = Blank
              /\ \A d \in Clients \ {c} : client'[d] = client[d]
              /\ schedLock' = IF schedLock = c THEN NoOne ELSE schedLock
<1>1. \A pc : [client[c] EXCEPT !.pc = pc].pc = pc
              /\ [client[c] EXCEPT !.pc = pc].seen = client[c].seen
  BY DEF ClientState
<1>2. \A pc, r : [client[c] EXCEPT !.pc = pc, !.seen = r].pc = pc
                 /\ [client[c] EXCEPT !.pc = pc, !.seen = r].seen = r
  BY DEF ClientState
<1>3. Idle.pc = "idle" /\ Idle.seen = Blank
  BY DEF Idle
<1>4. \A pc : Goto(c, pc) =>
        /\ client'[c].pc = pc /\ client'[c].seen = client[c].seen
        /\ \A d \in Clients \ {c} : client'[d] = client[d]
  BY <1>1 DEF Goto
<1>5. \A pc, r : GotoSeen(c, pc, r) =>
        /\ client'[c].pc = pc /\ client'[c].seen = r
        /\ \A d \in Clients \ {c} : client'[d] = client[d]
  BY <1>2 DEF GotoSeen
<1>6. Return(c) =>
        /\ client'[c].pc = "idle" /\ client'[c].seen = Blank
        /\ \A d \in Clients \ {c} : client'[d] = client[d]
        /\ schedLock' = IF schedLock = c THEN NoOne ELSE schedLock
  BY <1>3 DEF Return
<1> QED
  BY <1>4, <1>5, <1>6

(* A call that returns gives the lock back *)
LEMMA ReturnProceeds ==
  ASSUME TypeOK, NEW c \in Clients, Return(c)
  PROVE  Proceeds(c)
<1>1. client \in [Clients -> ClientState]
  BY ClientFields
<1>2. /\ client'[c].pc = "idle" /\ client'[c].seen = Blank
      /\ \A d \in Clients \ {c} : client'[d] = client[d]
      /\ schedLock' = IF schedLock = c THEN NoOne ELSE schedLock
  BY <1>1, ClientMoves
<1> QED
  BY <1>2 DEF Proceeds, Launching

(* A step within a call, which keeps the lock *)
LEMMA GoesOn ==
  ASSUME TypeOK, NEW c \in Clients, UNCHANGED schedLock,
         \A d \in Clients \ {c} : client'[d] = client[d],
         client'[c].seen \in {client[c].seen, Blank, rec, rec'},
         client'[c].pc = "unarchiveWrite" => "unarchive" \in Operations,
         QueueEnabled => (Launching(c)' => Launching(c))
  PROVE  Proceeds(c)
BY DEF Proceeds

LEMMA AfterStopProceeds ==
  ASSUME TypeOK, NEW c \in Clients, AfterStop(c)
  PROVE  Proceeds(c)
<1>1. CASE Goto(c, "tombstone") /\ schedLock' = IF schedLock = c THEN NoOne ELSE schedLock
  BY <1>1, ClientFields, ClientMoves DEF Proceeds, Launching
<1> QED
  BY <1>1, ReturnProceeds DEF AfterStop

LEMMA SupervisorProceeds ==
  ASSUME TypeOK, NEW c \in Clients, ClientStep(c) \/ ClientCrash(c)
  PROVE  Proceeds(c)
<1>f. client \in [Clients -> ClientState] /\ client[c] \in ClientState
  BY ClientFields
<1>g. ASSUME NEW pc, GotoSeen(c, pc, client[c].seen) \/ GotoSeen(c, pc, Blank)
               \/ GotoSeen(c, pc, rec) \/ GotoSeen(c, pc, rec') \/ Goto(c, pc),
             UNCHANGED schedLock, pc = "unarchiveWrite" => "unarchive" \in Operations,
             \/ Launching(c)
             \/ pc \notin {"dropQueued", "reserve", "reap", "reload", "requeue", "spawn",
                           "launchFailed", "recordRead", "recordWrite"}
             \/ ~QueueEnabled
      PROVE  Proceeds(c)
  BY <1>f, <1>g, ClientMoves, GoesOn DEF Launching
<1>e. ASSUME NEW r, client' = [client EXCEPT ![c] = r],
             r.seen \in {client[c].seen, Blank, rec, rec'}, r.pc # "unarchiveWrite"
      PROVE  /\ \A d \in Clients \ {c} : client'[d] = client[d]
             /\ client'[c].seen \in {client[c].seen, Blank, rec, rec'}
             /\ client'[c].pc = r.pc /\ client'[c].pc # "unarchiveWrite"
  BY <1>f, <1>e
<1>1. CASE StopStep(c)
  <2>1. ASSUME NEW op \in {"cancel", "delete"}, StopEnter(c, op)
        PROVE  Proceeds(c)
    <3>1. CASE schedLock' = c
      <4> DEFINE r == [client[c] EXCEPT !.op = op, !.pc = "dropQueued", !.seen = rec]
      <4>1. client' = [client EXCEPT ![c] = r]
        BY <2>1, <3>1, ConfigAssumption DEF StopEnter
      <4>2. r.pc = "dropQueued" /\ r.seen = rec
        BY <1>f DEF ClientState
      <4> HIDE DEF r
      <4> QED
        BY <1>e, <2>1, <3>1, <4>1, <4>2 DEF StopEnter, Proceeds
    <3>2. CASE schedLock' # c
      <4> DEFINE r == [client[c] EXCEPT !.op = op, !.pc = "stopRead"]
      <4>1. client' = [client EXCEPT ![c] = r] /\ UNCHANGED schedLock
        BY <2>1, <3>2 DEF StopEnter
      <4>2. r.pc = "stopRead" /\ r.seen = client[c].seen
        BY <1>f DEF ClientState
      <4> HIDE DEF r
      <4> QED
        BY <1>e, <4>1, <4>2, GoesOn DEF Launching
    <3> QED
      BY <3>1, <3>2
  <2>2. CASE DropQueued(c) \/ CancelledWrite(c)
    BY <2>2, AfterStopProceeds, ReturnProceeds DEF DropQueued, CancelledWrite
  <2>3. CASE DeleteRead(c)
    <3> DEFINE pc == IF rec.status \in Active THEN "stop" ELSE "tombstone"
               r == [client[c] EXCEPT !.op = "delete", !.pc = pc]
    <3>1. client' = [client EXCEPT ![c] = r] /\ UNCHANGED schedLock
      BY <2>3 DEF DeleteRead
    <3>2. r.pc \in {"stop", "tombstone"} /\ r.seen = client[c].seen
      BY <1>f DEF ClientState
    <3> HIDE DEF r
    <3> QED
      BY <1>e, <3>1, <3>2, GoesOn DEF Launching
  <2>4. CASE StopRead(c)
    <3>1. ASSUME NEW op, NEW pc \in {"signal", "stopWrite"}, NEW pid, UNCHANGED schedLock,
                 client' = [client EXCEPT ![c].op = op, ![c].pc = pc, ![c].pid = pid]
          PROVE  Proceeds(c)
      <4> DEFINE r == [client[c] EXCEPT !.op = op, !.pc = pc, !.pid = pid]
      <4>1. client' = [client EXCEPT ![c] = r]
        BY <3>1
      <4>2. r.pc = pc /\ r.seen = client[c].seen
        BY <1>f DEF ClientState
      <4> HIDE DEF r
      <4> QED
        BY <1>e, <3>1, <4>1, <4>2, GoesOn DEF Launching
    <3> QED
      BY <2>4, <3>1, AfterStopProceeds, ReturnProceeds DEF StopRead
  <2>5. CASE StopWrite(c)
    <3> DEFINE r == [client[c] EXCEPT !.pc = "signal", !.pid = rec.pid]
    <3>1. client' = [client EXCEPT ![c] = r] /\ UNCHANGED schedLock
      BY <2>5 DEF StopWrite
    <3>2. r.pc = "signal" /\ r.seen = client[c].seen
      BY <1>f DEF ClientState
    <3> HIDE DEF r
    <3> QED
      BY <1>e, <3>1, <3>2, GoesOn DEF Launching
  <2>6. CASE Signal(c)
    BY <2>6, <1>g DEF Signal
  <2>7. CASE GraceOver(c)
    BY <2>7, <1>g, ReturnProceeds DEF GraceOver
  <2>8. CASE StopCheck(c)
    <3>1. CASE /\ client' = [client EXCEPT ![c].pc = "cancelledRead", ![c].pid = NoOne]
               /\ UNCHANGED schedLock
      <4> DEFINE r == [client[c] EXCEPT !.pc = "cancelledRead", !.pid = NoOne]
      <4>1. client' = [client EXCEPT ![c] = r]
        BY <3>1
      <4>2. r.pc = "cancelledRead" /\ r.seen = client[c].seen
        BY <1>f DEF ClientState
      <4> HIDE DEF r
      <4> QED
        BY <1>e, <3>1, <4>1, <4>2, GoesOn DEF Launching
    <3> QED
      BY <2>8, <3>1, AfterStopProceeds DEF StopCheck
  <2>9. CASE CancelledRead(c)
    BY <2>9, <1>g, ReturnProceeds DEF CancelledRead
  <2>10. CASE Tombstone(c)
    BY <2>10, ReturnProceeds DEF Tombstone
  <2> QED
    BY <1>1, <2>1, <2>2, <2>3, <2>4, <2>5, <2>6, <2>7, <2>8, <2>9, <2>10 DEF StopStep
<1>2. CASE ArchiveStep(c)
  <2>1. CASE RestoreDeleted(c)
    BY <2>1, GoesOn DEF RestoreDeleted, Starts, At, Launching
  <2>2. CASE ArchiveRead(c) \/ RestoreArchiveRead(c)
    BY <2>2, <1>g DEF ArchiveRead, RestoreArchiveRead, Starts
  <2>3. CASE ArchiveWrite(c) \/ RestoreArchiveWrite(c)
    BY <2>3, ReturnProceeds DEF ArchiveWrite, RestoreArchiveWrite
  <2> QED
    BY <1>2, <2>1, <2>2, <2>3 DEF ArchiveStep
<1>3. CASE RestartStep(c)
  <2>1. CASE HandoffRead(c) \/ InputRead(c)
    BY <2>1, <1>g DEF HandoffRead, InputRead
  <2>2. CASE HandoffPrepare(c)
    <3>1. ASSUME NEW goal, UNCHANGED schedLock,
                 client' = [client EXCEPT ![c].pc = "handoffWrite", ![c].goal = goal,
                                          ![c].seen = rec]
          PROVE  Proceeds(c)
      <4> DEFINE r == [client[c] EXCEPT !.pc = "handoffWrite", !.goal = goal, !.seen = rec]
      <4>1. client' = [client EXCEPT ![c] = r]
        BY <3>1
      <4>2. r.pc = "handoffWrite" /\ r.seen = rec
        BY <1>f DEF ClientState
      <4> HIDE DEF r
      <4> QED
        BY <1>e, <3>1, <4>1, <4>2, GoesOn DEF Launching
    <3>2. CASE Goto(c, "completedWrite") /\ UNCHANGED schedLock
      BY <3>2, <1>g
    <3>3. CASE Return(c)
      BY <3>3, ReturnProceeds
    <3> QED
      BY <2>2, <3>1, <3>2, <3>3 DEF HandoffPrepare
  <2>3. CASE HandoffWrite(c)
    BY <2>3, <1>g DEF HandoffWrite, Commit
  <2>4. CASE CompletedWrite(c)
    BY <2>4, <1>g, ReturnProceeds DEF CompletedWrite, Commit
  <2>5. CASE HandoffMode(c)
    BY <2>5, <1>g, ReturnProceeds DEF HandoffMode
  <2>6. CASE HandoffRequest(c)
    BY <2>6, <1>g DEF HandoffRequest
  <2>7. CASE InputWrite(c)
    <3>1. ASSUME NEW token, UNCHANGED schedLock,
                 client' = [client EXCEPT ![c].pc = IF QueueEnabled THEN "startRead" ELSE "spawn",
                                          ![c].token = token, ![c].seen = Blank]
          PROVE  Proceeds(c)
      <4> DEFINE pc == IF QueueEnabled THEN "startRead" ELSE "spawn"
                 r == [client[c] EXCEPT !.pc = pc, !.token = token, !.seen = Blank]
      <4>1. client' = [client EXCEPT ![c] = r]
        BY <3>1
      <4>2. r.pc = pc /\ r.seen = Blank
        BY <1>f DEF ClientState
      <4> HIDE DEF r
      <4> QED
        BY <1>e, <3>1, <4>1, <4>2, GoesOn DEF Launching
    <3> QED
      BY <2>7, <3>1, ReturnProceeds DEF InputWrite
  <2>8. CASE StartRead(c)
    <3>1. ASSUME NEW pc \in {"dispatch", "startLock"}, NEW token, UNCHANGED schedLock,
                 client' = [client EXCEPT ![c].pc = pc, ![c].token = token]
          PROVE  Proceeds(c)
      <4> DEFINE r == [client[c] EXCEPT !.pc = pc, !.token = token]
      <4>1. client' = [client EXCEPT ![c] = r]
        BY <3>1
      <4>2. r.pc = pc /\ r.seen = client[c].seen
        BY <1>f DEF ClientState
      <4> HIDE DEF r
      <4> QED
        BY <1>e, <3>1, <4>1, <4>2, GoesOn DEF Launching
    <3> QED
      BY <2>8, <3>1, ReturnProceeds DEF StartRead
  <2>9. CASE StartLock(c)
    <3>1. ASSUME NEW pc \in {"spawn", "requeue"}, Goto(c, pc) \/ GotoSeen(c, pc, rec)
          PROVE  Proceeds(c)
      BY <1>f, <2>9, <3>1, ClientMoves DEF StartLock, Proceeds
    <3> QED
      BY <2>9, <3>1 DEF StartLock
  <2>10. CASE Requeue(c)
    BY <2>10, ReturnProceeds DEF Requeue
  <2> QED
    BY <1>3, <2>1, <2>2, <2>3, <2>4, <2>5, <2>6, <2>7, <2>8, <2>9, <2>10 DEF RestartStep
<1>4. CASE LaunchStep(c)
  <2>1. CASE Spawn(c)
    <3>1. ASSUME NEW w, UNCHANGED schedLock,
                 client' = [client EXCEPT ![c] = [Idle EXCEPT !.pc = "recordRead", !.pid = w]]
          PROVE  Proceeds(c)
      <4> DEFINE r == [Idle EXCEPT !.pc = "recordRead", !.pid = w]
      <4>1. r.pc = "recordRead" /\ r.seen = Blank /\ client[c].pc = "spawn"
        BY <2>1 DEF Idle, Spawn, At
      <4> HIDE DEF r
      <4>2. client' = [client EXCEPT ![c] = r]
        BY <3>1 DEF r
      <4> QED
        BY <1>e, <3>1, <4>1, <4>2, GoesOn DEF Launching
    <3>2. CASE GotoSeen(c, "launchFailed", rec) /\ UNCHANGED schedLock
      <4>1. Launching(c)
        BY <2>1 DEF Spawn, At, Launching
      <4> QED
        BY <3>2, <4>1, <1>g
    <3>3. CASE Return(c)
      BY <3>3, ReturnProceeds
    <3> QED
      BY <2>1, <3>1, <3>2, <3>3 DEF Spawn
  <2>2. CASE LaunchFailed(c) \/ RecordWrite(c)
    BY <2>2, ReturnProceeds DEF LaunchFailed, RecordWrite
  <2>3. CASE RecordRead(c)
    BY <2>3, <1>g, ReturnProceeds DEF RecordRead, Launching, At
  <2> QED
    BY <1>4, <2>1, <2>2, <2>3 DEF LaunchStep
<1>5. CASE DispatchStep(c)
  <2>1. CASE Dispatch(c)
    <3>1. ASSUME NEW token, client' = [client EXCEPT ![c].pc = "reserve", ![c].seen = rec,
                                                     ![c].token = token]
          PROVE  Proceeds(c)
      <4> DEFINE r == [client[c] EXCEPT !.pc = "reserve", !.seen = rec, !.token = token]
      <4>1. client' = [client EXCEPT ![c] = r]
        BY <3>1
      <4>2. r.pc = "reserve" /\ r.seen = rec
        BY <1>f DEF ClientState
      <4> HIDE DEF r
      <4> QED
        BY <1>e, <2>1, <4>1, <4>2 DEF Dispatch, Proceeds
    <3>2. ASSUME NEW pc \in {"reload", "reap"}, GotoSeen(c, pc, rec)
          PROVE  Proceeds(c)
      BY <1>f, <2>1, <3>2, ClientMoves DEF Dispatch, Proceeds
    <3> QED
      BY <2>1, <3>1, <3>2 DEF Dispatch
  <2>2. CASE DispatchNothing(c)
    BY <2>2, ReturnProceeds DEF DispatchNothing
  <2>3. CASE Reserve(c)
    BY <2>3, <1>g, ReturnProceeds DEF Reserve, Launching, At
  <2>4. CASE Reap(c)
    BY <2>4, <1>g, ReturnProceeds DEF Reap, Commit, Launching, At
  <2>5. CASE Reload(c)
    <3>1. ASSUME NEW token, UNCHANGED schedLock,
                 client' = [client EXCEPT ![c].pc = "spawn", ![c].token = token,
                                          ![c].seen = Blank]
          PROVE  Proceeds(c)
      <4> DEFINE r == [client[c] EXCEPT !.pc = "spawn", !.token = token, !.seen = Blank]
      <4>1. client' = [client EXCEPT ![c] = r]
        BY <3>1
      <4>2. r.pc = "spawn" /\ r.seen = Blank /\ client[c].pc = "reload"
        BY <1>f, <2>5 DEF ClientState, Reload, At
      <4> HIDE DEF r
      <4> QED
        BY <1>e, <3>1, <4>1, <4>2, GoesOn DEF Launching
    <3> QED
      BY <2>5, <3>1, ReturnProceeds DEF Reload
  <2> QED
    BY <1>5, <2>1, <2>2, <2>3, <2>4, <2>5 DEF DispatchStep
<1>6. CASE RecoverStep(c)
  BY <1>6, <1>g, ReturnProceeds DEF RecoverStep, RecoverRead, RecoverWrite
<1>7. CASE ClientCrash(c)
  BY <1>7, ReturnProceeds DEF ClientCrash
<1> QED
  BY <1>1, <1>2, <1>3, <1>4, <1>5, <1>6, <1>7 DEF ClientStep

-----------------------------------------------------------------------------
(* What a step of a worker commits, and what it knows afterwards *)

WorkerCommits(w) ==
  /\ \/ rec'.history = rec.history
     \/ \E seen \in {rec, worker[w].seen} :
          \E target : rec'.history = HistoryAfter(seen, target)
  /\ \/ rec'.status \in {rec.status, "STARTING"}
     \/ /\ rec'.status = "RUNNING" /\ rec.status = worker[w].seen.status
        /\ worker[w].pc \in {"claim", "asking"}
     \/ rec'.status \in Waiting /\ rec.status = "RUNNING"
     \/ /\ rec'.status = FinalStatus(w) /\ rec.status = worker[w].seen.status
        /\ OwnsAttempt(w)

WorkerKnows(w) ==
  /\ worker'[w].seen \in {worker[w].seen, Blank, rec, rec'}
  /\ worker'[w].pc = "claim" =>
       UNCHANGED worker \/ worker'[w].seen.status = "STARTING"
  /\ worker'[w].pc = "asking" =>
       UNCHANGED worker \/ worker'[w].seen.status \in Waiting

LEMMA WorkerSeen ==
  ASSUME worker \in [Workers -> WorkerState], NEW w \in Workers
  PROVE  /\ \A pc : WGoto(w, pc) =>
              worker'[w].pc = pc /\ worker'[w].seen = worker[w].seen
         /\ \A pc, r : WGotoSeen(w, pc, r) => worker'[w].pc = pc /\ worker'[w].seen = r
         /\ \A pc, o : WOutcome(w, pc, o) => worker'[w].pc = pc /\ worker'[w].seen = Blank
         /\ \A pc : WEnd(w, pc) => worker'[w].pc = pc /\ worker'[w].seen = Blank
<1>1. worker[w] \in WorkerState
  OBVIOUS
<1>2. \A pc : WGoto(w, pc) => worker'[w].pc = pc /\ worker'[w].seen = worker[w].seen
  BY <1>1 DEF WGoto, WorkerState
<1>3. \A pc, r : WGotoSeen(w, pc, r) => worker'[w].pc = pc /\ worker'[w].seen = r
  BY <1>1 DEF WGotoSeen, WorkerState
<1>4. \A pc, o : WOutcome(w, pc, o) => worker'[w].pc = pc /\ worker'[w].seen = Blank
  BY <1>1 DEF WOutcome, WorkerState
<1>5. \A pc : WEnd(w, pc) => worker'[w].pc = pc /\ worker'[w].seen = Blank
  BY DEF WEnd, Unborn
<1> QED
  BY <1>2, <1>3, <1>4, <1>5

(* A worker moves the session by a claim, a question, an answer or the outcome
   of its own attempt. *)
LEMMA WorkerCommit ==
  ASSUME TypeOK, NEW w \in Workers, WorkerStep(w)
  PROVE  WorkerCommits(w)
<1> DEFINE seen == worker[w].seen
<1>f. rec \in Record
  BY RecordFields
<1>r. \A s, t : Transition(s, t) \in [status : {t}, dispatch : DispatchState, attempt : Nat,
                  lease : Workers \cup {NoOne}, pid : Workers \cup {NoOne}, token : Nat,
                  mode : Nat, history : {HistoryAfter(s, t)}]
  BY <1>f DEF Transition, Record
<1>1. CASE ClaimStart(w)
  BY <1>1, <1>f, TransitionFields DEF ClaimStart, Commit, WorkerCommits
<1>2. CASE Claim(w)
  <2>1. CASE SameRevision(seen)
    <3>1. rec' = [Transition(seen, "RUNNING") EXCEPT
                    !.attempt = seen.attempt + 1, !.lease = w, !.pid = w, !.mode = 0,
                    !.dispatch = IF worker[w].token # 0 THEN "STARTED"
                                 ELSE seen.dispatch]
      BY <1>2, <2>1 DEF Claim, Commit
    <3>2. rec'.status = "RUNNING" /\ rec'.history = HistoryAfter(seen, "RUNNING")
      BY <1>r, <3>1
    <3> QED
      BY <1>2, <2>1, <3>2 DEF Claim, SameRevision, WorkerCommits
  <2> QED
    BY <1>2, <2>1 DEF Claim, storeVars, WorkerCommits
<1>3. CASE AttestMode(w)
  BY <1>3, <1>f DEF AttestMode, Commit, Record, storeVars, WorkerCommits
<1>4. CASE AskUser(w)
  BY <1>4, <1>f, TransitionFields DEF AskUser, Commit, WorkerCommits
<1>5. CASE AskEnds(w)
  <2>1. CASE SameRevision(seen) /\ rec' = Transition(rec, "RUNNING")
    BY <1>5, <1>f, <2>1, TransitionFields DEF AskEnds, SameRevision, WorkerCommits
  <2> QED
    BY <1>5, <2>1 DEF AskEnds, Commit, storeVars, WorkerCommits
<1>6. CASE FinalWrite(w)
  <2> DEFINE target == FinalStatus(w)
             pid == IF seen.pid = NoOne THEN w ELSE seen.pid
  <2>1. CASE /\ OwnsAttempt(w) /\ rec.status = seen.status
             /\ rec' = Transition(rec, target)
    BY <1>f, <2>1, TransitionFields DEF WorkerCommits
  <2>2. CASE /\ OwnsAttempt(w) /\ rec.status = seen.status
             /\ rec' = [Transition(rec, target) EXCEPT !.lease = NoOne, !.pid = pid]
    <3>1. rec'.status = target /\ rec'.history = HistoryAfter(rec, target)
      BY <1>r, <2>2
    <3> QED
      BY <2>2, <3>1 DEF WorkerCommits
  <2>3. CASE UNCHANGED rec
    BY <2>3 DEF WorkerCommits
  <2> QED
    BY <1>6, <2>1, <2>2, <2>3 DEF FinalWrite, Commit, storeVars
<1>7. CASE UNCHANGED rec
  BY <1>7 DEF WorkerCommits
<1> QED
  BY <1>1, <1>2, <1>3, <1>4, <1>5, <1>6, <1>7 DEF WorkerStep, storeVars,
     LoadRequest, ClaimRead, AcquireOwner, CheckMode, Heartbeat, Commit, Finish, Fail,
     Interrupt, FinalRead, Release, Die

LEMMA WorkerKnown ==
  ASSUME TypeOK, NEW w \in Workers, WorkerStep(w)
  PROVE  WorkerKnows(w) /\ UNCHANGED <<client, schedLock>>
<1>f. worker \in [Workers -> WorkerState] /\ rec \in Record
  BY WorkerFields, RecordFields
<1>1. CASE LoadRequest(w)
  BY <1>1, <1>f DEF LoadRequest, WorkerState, WorkerKnows
<1>2. CASE ClaimRead(w)
  BY <1>2, <1>f, WorkerSeen DEF ClaimRead, WorkerKnows
<1>3. CASE ClaimStart(w)
  BY <1>3, <1>f, WorkerSeen, TransitionFields DEF ClaimStart, Commit, WorkerKnows
<1>4. CASE Claim(w)
  BY <1>4, <1>f, WorkerSeen DEF Claim, WorkerKnows
<1>5. CASE AcquireOwner(w)
  BY <1>5, <1>f, WorkerSeen DEF AcquireOwner, WorkerKnows
<1>6. CASE AttestMode(w)
  BY <1>6, <1>f, WorkerSeen DEF AttestMode, WorkerKnows
<1>7. CASE CheckMode(w)
  BY <1>7, <1>f, WorkerSeen DEF CheckMode, WorkerKnows
<1>8. CASE Heartbeat(w)
  BY <1>8 DEF Heartbeat, processVars, WorkerKnows
<1>9. CASE AskUser(w)
  <2>1. PICK waiting \in Waiting : /\ rec' = Transition(rec, waiting)
                                   /\ WGotoSeen(w, "asking", rec')
    BY <1>9 DEF AskUser, Commit
  <2>2. worker'[w].seen = rec' /\ rec'.status = waiting /\ worker'[w].pc = "asking"
    BY <1>f, <2>1, WorkerSeen, TransitionFields
  <2> QED
    BY <1>9, <2>2 DEF AskUser, WorkerKnows
<1>10. CASE AskEnds(w)
  BY <1>10, <1>f, WorkerSeen DEF AskEnds, WorkerKnows
<1>11. CASE Finish(w)
  BY <1>11, <1>f, WorkerSeen DEF Finish, WorkerKnows
<1>12. CASE Fail(w)
  BY <1>12, <1>f, WorkerSeen DEF Fail, WorkerKnows
<1>13. CASE Interrupt(w)
  BY <1>13, <1>f, WorkerSeen DEF Interrupt, WorkerKnows
<1>14. CASE FinalRead(w)
  BY <1>14, <1>f, WorkerSeen DEF FinalRead, WorkerKnows
<1>15. CASE FinalWrite(w)
  BY <1>15, <1>f, WorkerSeen DEF FinalWrite, Commit, WorkerKnows
<1>16. CASE Release(w)
  BY <1>16, <1>f, WorkerSeen DEF Release, WorkerKnows
<1>17. CASE Die(w)
  BY <1>17, <1>f, WorkerSeen DEF Die, WorkerKnows
<1> QED
  BY <1>1, <1>2, <1>3, <1>4, <1>5, <1>6, <1>7, <1>8, <1>9, <1>10, <1>11, <1>12,
     <1>13, <1>14, <1>15, <1>16, <1>17 DEF WorkerStep

-----------------------------------------------------------------------------
(* What everybody knows of the record, and who holds the scheduler lock *)

(* The history of the record, and every history that was read from it *)
OneOutcome(history) == \A h, k \in history : h[1] = k[1] => h = k
HistoriesInv ==
  /\ OneOutcome(rec.history)
  /\ \A c \in Clients : OneOutcome(client[c].seen.history)
  /\ \A w \in Workers : OneOutcome(worker[w].seen.history)

(* A claim expects a starting session, an answer one that waits *)
ExpectationsInv ==
  \A w \in Workers : /\ worker[w].pc = "claim" => worker[w].seen.status = "STARTING"
                     /\ worker[w].pc = "asking" => worker[w].seen.status \in Waiting
RestoresInv ==
  \A c \in Clients : client[c].pc = "unarchiveWrite" => "unarchive" \in Operations

(* With the queue, whoever launches holds queue-scheduler.lock *)
LockInv == QueueEnabled => \A c \in Clients : Launching(c) => schedLock = c

KnowledgeInv == HistoriesInv /\ ExpectationsInv /\ RestoresInv /\ LockInv

(* An attempt that ended once does not enter the history again. *)
LEMMA HistoryAfterOne ==
  ASSUME NEW seen, NEW target, OneOutcome(rec.history), OneOutcome(seen.history)
  PROVE  OneOutcome(HistoryAfter(seen, target))
<1>1. ASSUME NEW outcome, \A h \in seen.history : h[1] # seen.attempt
      PROVE  OneOutcome(seen.history \cup {<<seen.attempt, outcome>>})
  BY <1>1 DEF OneOutcome
<1> QED
  BY <1>1 DEF HistoryAfter

LEMMA KnowledgeInit == ASSUME Init PROVE KnowledgeInv
<1>1. HistoriesInv
  BY DEF Init, HistoriesInv, OneOutcome, Blank, Unborn, Idle
<1>2. ExpectationsInv /\ RestoresInv
  BY DEF Init, ExpectationsInv, RestoresInv, Unborn, Idle
<1>3. LockInv
  BY DEF Init, LockInv, Launching, Idle
<1> QED
  BY <1>1, <1>2, <1>3 DEF KnowledgeInv

(* What is learnt in a step has been known or is what the record says. *)
LEMMA KnowledgeSupervisorStep ==
  ASSUME TypeOK, KnowledgeInv, NEW c \in Clients, ClientStep(c) \/ ClientCrash(c)
  PROVE  KnowledgeInv'
<1>1. Decides(c) /\ Proceeds(c)
  BY SupervisorDecides, SupervisorProceeds
<1>2. \A w \in Workers :
        /\ worker'[w].seen = worker[w].seen
        /\ worker'[w].pc \in {worker[w].pc, "spawned"}
  <2>1. worker \in [Workers -> WorkerState]
    BY DEF TypeOK, ProcessesTyped
  <2>2. ASSUME NEW v \in Workers, WGoto(v, "spawned")
        PROVE  \A w \in Workers : /\ worker'[w].seen = worker[w].seen
                                  /\ worker'[w].pc \in {worker[w].pc, "spawned"}
    BY <2>1, <2>2, WorkerMoves, WorkerSeen DEF Others
  <2> QED
    BY <2>2, SupervisorsKeepWorkers
<1>3. OneOutcome(rec'.history)
  BY <1>1, HistoryAfterOne DEF Decides, KnowledgeInv, HistoriesInv
<1>4. HistoriesInv'
  <2>1. OneOutcome(Blank.history)
    BY DEF OneOutcome, Blank
  <2>2. OneOutcome(client'[c].seen.history)
    BY <1>1, <1>3, <2>1 DEF Proceeds, KnowledgeInv, HistoriesInv
  <2>3. \A d \in Clients : OneOutcome(client'[d].seen.history)
    BY <1>1, <2>2 DEF Proceeds, KnowledgeInv, HistoriesInv
  <2>4. \A w \in Workers : OneOutcome(worker'[w].seen.history)
    BY <1>2 DEF KnowledgeInv, HistoriesInv
  <2> QED
    BY <1>3, <2>3, <2>4 DEF HistoriesInv, OneOutcome
<1>5. ExpectationsInv'
  BY <1>2 DEF KnowledgeInv, ExpectationsInv
<1>6. RestoresInv'
  BY <1>1 DEF Proceeds, KnowledgeInv, RestoresInv
<1>7. ASSUME QueueEnabled, NEW d \in Clients, Launching(d)'
      PROVE  schedLock' = d
  <2>1. Launching(c) => schedLock = c
    BY <1>7 DEF KnowledgeInv, LockInv
  <2>2. CASE d = c
    BY <1>1, <1>7, <2>1, <2>2 DEF Proceeds
  <2>3. CASE d # c
    <3>1. Launching(d) /\ schedLock = d
      BY <1>1, <1>7, <2>3 DEF Proceeds, Launching, KnowledgeInv, LockInv
    <3> QED
      BY <1>1, <2>3, <3>1, ConfigAssumption DEF Proceeds
  <2> QED
    BY <2>2, <2>3
<1> QED
  BY <1>4, <1>5, <1>6, <1>7 DEF KnowledgeInv, LockInv

LEMMA KnowledgeWorkerStep ==
  ASSUME TypeOK, KnowledgeInv, NEW w \in Workers, WorkerStep(w)
  PROVE  KnowledgeInv'
<1>1. WorkerCommits(w) /\ WorkerKnows(w) /\ UNCHANGED <<client, schedLock>> /\ Others(w)
  BY WorkerCommit, WorkerKnown, WorkerProgress
<1>2. OneOutcome(rec'.history)
  BY <1>1, HistoryAfterOne DEF WorkerCommits, KnowledgeInv, HistoriesInv
<1>3. HistoriesInv'
  <2>1. OneOutcome(Blank.history)
    BY DEF OneOutcome, Blank
  <2>2. OneOutcome(worker'[w].seen.history)
    BY <1>1, <1>2, <2>1 DEF WorkerKnows, KnowledgeInv, HistoriesInv
  <2>3. \A v \in Workers : OneOutcome(worker'[v].seen.history)
    BY <1>1, <2>2 DEF Others, KnowledgeInv, HistoriesInv
  <2>4. \A c \in Clients : OneOutcome(client'[c].seen.history)
    BY <1>1 DEF KnowledgeInv, HistoriesInv
  <2> QED
    BY <1>2, <2>3, <2>4 DEF HistoriesInv, OneOutcome
<1>4. ExpectationsInv'
  BY <1>1 DEF WorkerKnows, Others, KnowledgeInv, ExpectationsInv
<1>5. RestoresInv' /\ LockInv'
  BY <1>1 DEF KnowledgeInv, RestoresInv, LockInv, Launching
<1> QED
  BY <1>3, <1>4, <1>5 DEF KnowledgeInv

LEMMA KnowledgeStep == ASSUME TypeOK, KnowledgeInv, [Next]_vars PROVE KnowledgeInv'
<1>1. CASE UNCHANGED vars
  BY <1>1 DEF vars, KnowledgeInv, HistoriesInv, OneOutcome, ExpectationsInv,
              RestoresInv, LockInv, Launching
<1> QED
  BY <1>1, KnowledgeSupervisorStep, KnowledgeWorkerStep DEF Next, Quiet, SupervisorStep

LEMMA KnowledgeInvariant == Spec => [](TypeOK /\ KnowledgeInv)
<1>1. Init => KnowledgeInv
  BY KnowledgeInit
<1>2. TypeOK /\ KnowledgeInv /\ [Next]_vars => KnowledgeInv'
  BY KnowledgeStep
<1> QED
  BY <1>1, <1>2, TypeCorrect, PTL DEF Spec

(* attempt_history: each attempt has one outcome, although supervisors and
   workers commit histories they read before, some without any expectation. *)
THEOREM OneOutcomeEach == Spec => []OneOutcomePerAttempt
<1>1. KnowledgeInv => OneOutcomePerAttempt
  BY DEF KnowledgeInv, HistoriesInv, OneOutcome, OneOutcomePerAttempt
<1> QED
  BY <1>1, KnowledgeInvariant, PTL

(* With the queue, queue-scheduler.lock covers every launch from the look for
   a slot to the recording of the PID: one supervisor at a time. *)
THEOREM LaunchesAreSerialized ==
  ASSUME QueueEnabled PROVE Spec => []LaunchesSerialized
<1>1. KnowledgeInv => LaunchesSerialized
  BY DEF KnowledgeInv, LockInv, LaunchesSerialized
<1> QED
  BY <1>1, KnowledgeInvariant, PTL

(* A supervisor completes a session by restoring it only. *)
LEMMA SupervisorsDoNotComplete ==
  ASSUME TypeOK, KnowledgeInv, "unarchive" \notin Operations,
         NEW c \in Clients, ClientStep(c) \/ ClientCrash(c)
  PROVE  rec'.status \in {rec.status} \cup Decided \/ rec.status = "DELETED"
BY SupervisorDecides DEF Decides, KnowledgeInv, RestoresInv

(* Nothing but the finalizer of the worker that holds the newest attempt
   completes a session that is not archived or deleted, where the archive is
   not restored from. *)
THEOREM OwnerCompletes ==
  ASSUME "unarchive" \notin Operations PROVE Spec => CompletedByOwner
<1> DEFINE Completed ==
             rec.status \notin {"COMPLETED", "ARCHIVED", "DELETED"}
               /\ rec'.status = "COMPLETED"
             => \E w \in Workers : /\ worker[w].out = "COMPLETED" /\ rec.lease = w
                                   /\ attemptOf[w] = rec.attempt
<1>1. TypeOK /\ KnowledgeInv /\ [Next]_vars => [Completed]_vars
  <2>1. ASSUME TypeOK, KnowledgeInv, NEW c \in Clients, ClientStep(c) \/ ClientCrash(c)
        PROVE  Completed
    BY <2>1, SupervisorsDoNotComplete DEF Decided
  <2>2. ASSUME TypeOK, KnowledgeInv, NEW w \in Workers, WorkerStep(w)
        PROVE  Completed
    <3>1. WorkerCommits(w)
      BY <2>2, WorkerCommit
    <3>2. rec'.status = FinalStatus(w) /\ rec'.status = "COMPLETED" =>
            worker[w].out = "COMPLETED"
      BY DEF FinalStatus
    <3> QED
      BY <3>1, <3>2 DEF WorkerCommits, OwnsAttempt, Waiting
  <2> QED
    BY <2>1, <2>2 DEF Next, Quiet, SupervisorStep
<1> QED
  BY <1>1, KnowledgeInvariant, PTL DEF Spec, CompletedByOwner

(* A durable cancellation is never turned back into a run or a success, where
   the archive is not restored from: a claim, an answer and a finalizer
   commit only what they expect, and none expects CANCELLING but to cancel. *)
THEOREM CancellationStands ==
  ASSUME "unarchive" \notin Operations PROVE Spec => CancellationWins
<1> DEFINE Stands == rec.status = "CANCELLING"
                       => rec'.status \notin {"RUNNING", "COMPLETED"} \cup Waiting
<1>1. TypeOK /\ KnowledgeInv /\ [Next]_vars => [Stands]_vars
  <2>1. ASSUME TypeOK, KnowledgeInv, NEW c \in Clients, ClientStep(c) \/ ClientCrash(c)
        PROVE  Stands
    BY <2>1, SupervisorsDoNotComplete DEF Decided, Waiting
  <2>2. ASSUME TypeOK, KnowledgeInv, NEW w \in Workers, WorkerStep(w)
        PROVE  Stands
    <3>1. WorkerCommits(w)
      BY <2>2, WorkerCommit
    <3>2. worker[w].seen.status = "CANCELLING" => FinalStatus(w) = "CANCELLED"
      BY DEF FinalStatus
    <3>3. worker[w].seen.status = "CANCELLING" => worker[w].pc \notin {"claim", "asking"}
      BY <2>2 DEF KnowledgeInv, ExpectationsInv, Waiting
    <3> QED
      BY <3>1, <3>2, <3>3 DEF WorkerCommits, Waiting
  <2> QED
    BY <2>1, <2>2 DEF Next, Quiet, SupervisorStep
<1> QED
  BY <1>1, KnowledgeInvariant, PTL DEF Spec, CancellationWins
=============================================================================
