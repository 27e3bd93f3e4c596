----------------------- MODULE BackgroundSession_proofs -----------------------
(***************************************************************************)
(* What holds of a background session for every number of workers and      *)
(* supervisors, every set of operations and every bound.                   *)
(***************************************************************************)
EXTENDS BackgroundSession, TLAPS

-----------------------------------------------------------------------------
(* Type correctness *)

LEMMA StatusNames ==
  /\ EndsAttempt \subseteq Status /\ Goal \subseteq Status
  /\ Waiting \subseteq Status
  /\ \A s \in {"STARTING", "RUNNING", "CANCELLING", "QUEUED", "FAILED",
               "CANCELLED", "ORPHANED", "ARCHIVED", "COMPLETED", "DELETED",
               "RETRYING"} : s \in Status
BY DEF EndsAttempt, Goal, Waiting, Status, Active, Terminal

(* A new record, and with it an idle supervisor and an unborn worker *)
LEMMA BlankType == Blank \in Record
BY DEF Blank, Record, Status, Active, DispatchState

LEMMA IdleType == Idle \in ClientState
BY BlankType DEF Idle, ClientState, ClientPC, Goal

LEMMA UnbornType == Unborn \in WorkerState
BY BlankType DEF Unborn, WorkerState, WorkerPC, Outcome

(* A transition of a registry record is a registry record. *)
LEMMA HistoryType ==
  ASSUME rec \in Record, NEW seen \in Record, NEW target \in Status
  PROVE  HistoryAfter(seen, target) \in SUBSET (Nat \X Status)
BY DEF HistoryAfter, Record, EndsAttempt

LEMMA TransitionType ==
  ASSUME rec \in Record, NEW seen \in Record, NEW target \in Status
  PROVE  Transition(seen, target) \in Record
<1>1. HistoryAfter(seen, target) \in SUBSET (Nat \X Status)
  BY HistoryType
<1>2. QED
  BY <1>1 DEF Transition, Record

(* Steps of the local state *)
LEMMA ClientSteps ==
  ASSUME client \in [Clients -> ClientState], NEW c \in Clients,
         NEW pc \in ClientPC, NEW r \in Record
  PROVE  /\ Goto(c, pc) => client' \in [Clients -> ClientState]
         /\ GotoSeen(c, pc, r) => client' \in [Clients -> ClientState]
         /\ Return(c) => client' \in [Clients -> ClientState]
BY IdleType DEF Goto, GotoSeen, Return, ClientState

(* Steps of a supervisor that also note the operation or the worker *)
LEMMA ClientOp ==
  ASSUME NEW l \in ClientState, NEW op \in StopOp, NEW pc \in ClientPC
  PROVE  [l EXCEPT !.op = op, !.pc = pc] \in ClientState
BY DEF ClientState

LEMMA ClientPid ==
  ASSUME NEW l \in ClientState, NEW pc \in ClientPC,
         NEW pid \in Workers \cup {NoOne}
  PROVE  [l EXCEPT !.pc = pc, !.pid = pid] \in ClientState
BY DEF ClientState

LEMMA WorkerSteps ==
  ASSUME worker \in [Workers -> WorkerState], NEW w \in Workers,
         NEW pc \in WorkerPC, NEW r \in Record, NEW o \in Outcome
  PROVE  /\ WGoto(w, pc) => worker' \in [Workers -> WorkerState]
         /\ WGotoSeen(w, pc, r) => worker' \in [Workers -> WorkerState]
         /\ WOutcome(w, pc, o) => worker' \in [Workers -> WorkerState]
         /\ WEnd(w, pc) => worker' \in [Workers -> WorkerState]
BY BlankType, UnbornType DEF WGoto, WGotoSeen, WOutcome, WEnd, WorkerState

LEMMA TypeInit == ASSUME ConfigAssumption, Init PROVE TypeOK
BY BlankType, IdleType, UnbornType
   DEF Init, TypeOK, RecordTyped, ProcessesTyped, SupervisorsTyped, Record,
       ClientState, ClientPC, DispatchState, ConfigAssumption

(* The fields of a typed state *)
LEMMA RecordFields ==
  ASSUME TypeOK
  PROVE  /\ rec \in Record /\ rec.status \in Status
         /\ rec.dispatch \in DispatchState /\ rec.attempt \in Nat
         /\ rec.lease \in Workers \cup {NoOne} /\ rec.pid \in Workers \cup {NoOne}
         /\ rec.token \in Nat /\ rec.mode \in Nat
         /\ rec.history \in SUBSET (Nat \X Status)
BY DEF TypeOK, RecordTyped, Record

LEMMA ClientFields ==
  ASSUME TypeOK, NEW c \in Clients
  PROVE  /\ client \in [Clients -> ClientState]
         /\ client[c].pc \in ClientPC /\ client[c].op \in StopOp \cup {"none"}
         /\ client[c].seen \in Record /\ client[c].goal \in Goal
         /\ client[c].token \in Nat /\ client[c].pid \in Workers \cup {NoOne}
         /\ schedLock \in Clients \cup {NoOne}
BY DEF TypeOK, SupervisorsTyped, ClientState

LEMMA WorkerFields ==
  ASSUME TypeOK, NEW w \in Workers
  PROVE  /\ worker \in [Workers -> WorkerState]
         /\ worker[w].pc \in WorkerPC /\ worker[w].token \in Nat
         /\ worker[w].seen \in Record /\ worker[w].out \in Outcome
         /\ attemptOf \in [Workers -> Nat] /\ attemptOf[w] \in Nat
         /\ request \in Nat /\ lastToken \in Nat
         /\ owner \in Workers \cup {NoOne} /\ signalled \subseteq Workers
BY DEF TypeOK, ProcessesTyped, WorkerState


(* Every supervisor step keeps the supervisors typed ... *)
LEMMA SupervisorsStayTyped ==
  ASSUME TypeOK, NEW c \in Clients, ClientStep(c) \/ ClientCrash(c)
  PROVE  SupervisorsTyped'
<1>f. /\ client \in [Clients -> ClientState] /\ client[c].seen \in Record
      /\ client[c].token \in Nat /\ schedLock \in Clients \cup {NoOne}
      /\ rec \in Record /\ rec.pid \in Workers \cup {NoOne}
      /\ request \in Nat /\ lastToken \in Nat
  BY RecordFields, ClientFields DEF TypeOK, ProcessesTyped
<1>1. CASE StopEnter(c,"cancel")
  BY <1>1, <1>f, IdleType, BlankType DEF StopEnter, ClientState, ClientPC,
     StopOp, Goal, SupervisorsTyped
<1>2. CASE StopEnter(c,"delete")
  BY <1>2, <1>f, IdleType, BlankType DEF StopEnter, ClientState, ClientPC,
     StopOp, Goal, SupervisorsTyped
<1>3. CASE DropQueued(c)
  BY <1>3, <1>f, IdleType, BlankType DEF DropQueued, AfterStop, Return, Goto,
     ClientState, ClientPC, StopOp, Goal, SupervisorsTyped
<1>4. CASE DeleteRead(c)
  <2> DEFINE local == [client[c] EXCEPT !.op = "delete",
                  !.pc = IF rec.status \in Active THEN "stop" ELSE "tombstone"]
  <2>a. client[c] \in ClientState /\ "delete" \in StopOp
    BY <1>f DEF StopOp
  <2>b. (IF rec.status \in Active THEN "stop" ELSE "tombstone") \in ClientPC
    BY DEF ClientPC
  <2>1. local \in ClientState
    BY <2>a, <2>b, ClientOp
  <2>2. client' = [client EXCEPT ![c] = local]
    BY <1>4 DEF DeleteRead
  <2> HIDE DEF local
  <2>3. client' \in [Clients -> ClientState]
    BY <2>1, <2>2, <1>f
  <2>4. QED BY <2>3, <1>4, <1>f DEF SupervisorsTyped, DeleteRead
<1>5. CASE StopRead(c)
  BY <1>5, <1>f, IdleType, BlankType DEF StopRead, AfterStop, Return, Goto,
     ClientState, ClientPC, StopOp, Goal, SupervisorsTyped
<1>6. CASE StopWrite(c)
  <2> DEFINE local == [client[c] EXCEPT !.pc = "signal", !.pid = rec.pid]
  <2>a. client[c] \in ClientState /\ "signal" \in ClientPC
    BY <1>f DEF ClientPC
  <2>1. local \in ClientState
    BY <2>a, <1>f, ClientPid
  <2>2. client' = [client EXCEPT ![c] = local]
    BY <1>6 DEF StopWrite
  <2> HIDE DEF local
  <2>3. client' \in [Clients -> ClientState]
    BY <2>1, <2>2, <1>f
  <2>4. QED BY <2>3, <1>6, <1>f DEF SupervisorsTyped, StopWrite
<1>7. CASE Signal(c)
  BY <1>7, <1>f, IdleType, BlankType DEF Signal, Goto, ClientState, ClientPC,
     StopOp, Goal, SupervisorsTyped
<1>8. CASE GraceOver(c)
  BY <1>8, <1>f, IdleType, BlankType DEF GraceOver, Goto, Return, ClientState,
     ClientPC, StopOp, Goal, SupervisorsTyped
<1>9. CASE StopCheck(c)
  BY <1>9, <1>f, IdleType, BlankType DEF StopCheck, AfterStop, Goto, Return,
     ClientState, ClientPC, StopOp, Goal, SupervisorsTyped
<1>10. CASE CancelledRead(c)
  BY <1>10, <1>f, IdleType, BlankType DEF CancelledRead, GotoSeen, Return,
     ClientState, ClientPC, StopOp, Goal, SupervisorsTyped
<1>11. CASE CancelledWrite(c)
  BY <1>11, <1>f, IdleType, BlankType DEF CancelledWrite, AfterStop, Goto,
     Return, ClientState, ClientPC, StopOp, Goal, SupervisorsTyped
<1>12. CASE Tombstone(c)
  BY <1>12, <1>f, IdleType, BlankType DEF Tombstone, Return, ClientState,
     ClientPC, StopOp, Goal, SupervisorsTyped
<1>13. CASE RestoreDeleted(c)
  BY <1>13, <1>f, IdleType, BlankType DEF RestoreDeleted, ClientState,
     ClientPC, StopOp, Goal, SupervisorsTyped
<1>14. CASE ArchiveRead(c)
  <2>1. client' \in [Clients -> ClientState]
    BY <1>14, <1>f, ClientSteps DEF ArchiveRead, ClientPC
  <2>2. QED
    BY <2>1, <1>14, <1>f DEF ArchiveRead, SupervisorsTyped
<1>15. CASE ArchiveWrite(c)
  BY <1>15, <1>f, IdleType, BlankType DEF ArchiveWrite, Return, ClientState,
     ClientPC, StopOp, Goal, SupervisorsTyped
<1>16. CASE RestoreArchiveRead(c)
  BY <1>16, <1>f, IdleType, BlankType DEF RestoreArchiveRead, Goto,
     ClientState, ClientPC, StopOp, Goal, SupervisorsTyped
<1>17. CASE RestoreArchiveWrite(c)
  BY <1>17, <1>f, IdleType, BlankType DEF RestoreArchiveWrite, Return,
     ClientState, ClientPC, StopOp, Goal, SupervisorsTyped
<1>18. CASE HandoffRead(c)
  <2>1. client' \in [Clients -> ClientState]
    BY <1>18, <1>f, ClientSteps DEF HandoffRead, ClientPC
  <2>2. QED
    BY <2>1, <1>18, <1>f DEF HandoffRead, SupervisorsTyped
<1>19. CASE HandoffPrepare(c)
  BY <1>19, <1>f, IdleType, BlankType DEF HandoffPrepare, Goto, Return,
     ClientState, ClientPC, StopOp, Goal, SupervisorsTyped
<1>20. CASE HandoffWrite(c)
  <2>1. \E r \in Record : GotoSeen(c, "handoffMode", r)
    BY <1>20, <1>f, ClientFields, StatusNames, TransitionType DEF HandoffWrite
  <2>2. client' \in [Clients -> ClientState]
    BY <2>1, <1>f, ClientSteps DEF ClientPC
  <2>3. QED
    BY <2>2, <1>20, <1>f DEF HandoffWrite, SupervisorsTyped
<1>21. CASE CompletedWrite(c)
  BY <1>21, <1>f, IdleType, BlankType DEF CompletedWrite, GotoSeen, Return,
     ClientState, ClientPC, StopOp, Goal, SupervisorsTyped
<1>22. CASE HandoffMode(c)
  BY <1>22, <1>f, IdleType, BlankType DEF HandoffMode, GotoSeen, Return,
     ClientState, ClientPC, StopOp, Goal, SupervisorsTyped
<1>23. CASE HandoffRequest(c)
  BY <1>23, <1>f, IdleType, BlankType DEF HandoffRequest, Goto, ClientState,
     ClientPC, StopOp, Goal, SupervisorsTyped
<1>24. CASE InputRead(c)
  <2>1. client' \in [Clients -> ClientState]
    BY <1>24, <1>f, ClientSteps DEF InputRead, ClientPC
  <2>2. QED
    BY <2>1, <1>24, <1>f DEF InputRead, SupervisorsTyped
<1>25. CASE InputWrite(c)
  BY <1>25, <1>f, IdleType, BlankType DEF InputWrite, Return, ClientState,
     ClientPC, StopOp, Goal, SupervisorsTyped
<1>26. CASE StartRead(c)
  BY <1>26, <1>f, IdleType, BlankType DEF StartRead, Return, ClientState,
     ClientPC, StopOp, Goal, SupervisorsTyped
<1>27. CASE StartLock(c)
  BY <1>27, <1>f, IdleType, BlankType DEF StartLock, Goto, GotoSeen,
     ClientState, ClientPC, StopOp, Goal, SupervisorsTyped
<1>28. CASE Requeue(c)
  BY <1>28, <1>f, IdleType, BlankType DEF Requeue, Return, ClientState,
     ClientPC, StopOp, Goal, SupervisorsTyped
<1>29. CASE Spawn(c)
  <2>1. \A w \in Workers :
          [Idle EXCEPT !.pc = "recordRead", !.pid = w] \in ClientState
    BY IdleType DEF ClientState, ClientPC
  <2>2. client' \in [Clients -> ClientState]
    <3>1. CASE \E w \in Workers :
                 client' = [client EXCEPT ![c] = [Idle EXCEPT !.pc = "recordRead",
                                                              !.pid = w]]
      BY <3>1, <1>f, <2>1
    <3>2. CASE GotoSeen(c, "launchFailed", rec)
      BY <3>2, <1>f, ClientSteps DEF ClientPC
    <3>3. CASE Return(c)
      BY <3>3, <1>f, ClientSteps DEF ClientPC
    <3>4. QED BY <3>1, <3>2, <3>3, <1>29 DEF Spawn
  <2>3. QED BY <2>2, <1>29, <1>f DEF SupervisorsTyped, Spawn, Return
<1>30. CASE LaunchFailed(c)
  BY <1>30, <1>f, IdleType, BlankType DEF LaunchFailed, Return, ClientState,
     ClientPC, StopOp, Goal, SupervisorsTyped
<1>31. CASE RecordRead(c)
  BY <1>31, <1>f, IdleType, BlankType DEF RecordRead, GotoSeen, Return,
     ClientState, ClientPC, StopOp, Goal, SupervisorsTyped
<1>32. CASE RecordWrite(c)
  BY <1>32, <1>f, IdleType, BlankType DEF RecordWrite, Return, ClientState,
     ClientPC, StopOp, Goal, SupervisorsTyped
<1>33. CASE Dispatch(c)
  BY <1>33, <1>f, IdleType, BlankType DEF Dispatch, GotoSeen, ClientState,
     ClientPC, StopOp, Goal, SupervisorsTyped
<1>34. CASE DispatchNothing(c)
  BY <1>34, <1>f, IdleType, BlankType DEF DispatchNothing, Return,
     ClientState, ClientPC, StopOp, Goal, SupervisorsTyped
<1>35. CASE Reserve(c)
  BY <1>35, <1>f, IdleType, BlankType DEF Reserve, GotoSeen, Return,
     ClientState, ClientPC, StopOp, Goal, SupervisorsTyped
<1>36. CASE Reap(c)
  <2> DEFINE r == [rec EXCEPT !.pid = NoOne]
  <2>a. r \in Record /\ "reload" \in ClientPC
    BY <1>f DEF Record, ClientPC
  <2>b. GotoSeen(c, "reload", r) \/ Return(c)
    BY <1>36 DEF Reap
  <2>c. schedLock' \in {schedLock, NoOne}
    BY <1>36 DEF Reap, Return
  <2> HIDE DEF r
  <2>1. client' \in [Clients -> ClientState]
    BY <2>a, <2>b, <1>f, ClientSteps
  <2>2. QED
    BY <2>1, <2>c, <1>f DEF SupervisorsTyped
<1>37. CASE Reload(c)
  BY <1>37, <1>f, IdleType, BlankType DEF Reload, Return, ClientState,
     ClientPC, StopOp, Goal, SupervisorsTyped
<1>38. CASE RecoverRead(c)
  <2>1. client' \in [Clients -> ClientState]
    BY <1>38, <1>f, ClientSteps DEF RecoverRead, ClientPC
  <2>2. QED
    BY <2>1, <1>38, <1>f DEF RecoverRead, SupervisorsTyped
<1>39. CASE RecoverWrite(c)
  BY <1>39, <1>f, IdleType, BlankType DEF RecoverWrite, Return, ClientState,
     ClientPC, StopOp, Goal, SupervisorsTyped
<1>40. CASE ClientCrash(c)
  BY <1>40, <1>f, IdleType, BlankType DEF ClientCrash, Return, ClientState,
     ClientPC, StopOp, Goal, SupervisorsTyped
<1>q. QED
  BY <1>1, <1>2, <1>3, <1>4, <1>5, <1>6, <1>7, <1>8, <1>9, <1>10, <1>11,
     <1>12, <1>13, <1>14, <1>15, <1>16, <1>17, <1>18, <1>19, <1>20, <1>21,
     <1>22, <1>23, <1>24, <1>25, <1>26, <1>27, <1>28, <1>29, <1>30, <1>31,
     <1>32, <1>33, <1>34, <1>35, <1>36, <1>37, <1>38, <1>39, <1>40 DEF
     ClientStep, StopStep, ArchiveStep, RestartStep, LaunchStep, DispatchStep,
     RecoverStep

(* ... and the record ... *)
LEMMA RecordStaysTyped ==
  ASSUME TypeOK, NEW c \in Clients, ClientStep(c) \/ ClientCrash(c)
  PROVE  RecordTyped'
<1>f. /\ rec \in Record /\ fresh \subseteq Clients /\ client[c].seen \in Record
      /\ client[c].goal \in Goal /\ client[c].pid \in Workers \cup {NoOne}
      /\ client[c].token \in Nat
  BY ClientFields DEF TypeOK, RecordTyped
<1>t. \A seen \in Record, target \in Status : Transition(seen, target) \in Record
  BY <1>f, TransitionType
<1>s. /\ Goal \subseteq Status
      /\ {"CANCELLED", "CANCELLING", "DELETED", "COMPLETED", "ARCHIVED",
          "STARTING", "QUEUED", "FAILED", "ORPHANED"} \subseteq Status
  BY DEF Goal, Status, Active, Terminal
<1>1. CASE DropQueued(c)
  BY <1>1, <1>f, <1>t, <1>s DEF DropQueued, Commit, RecordTyped, storeVars,
     Record, DispatchState
<1>2. CASE StopWrite(c)
  BY <1>2, <1>f, <1>t, <1>s DEF StopWrite, Commit, RecordTyped, storeVars,
     Record, DispatchState
<1>3. CASE CancelledWrite(c)
  <2> DEFINE seen == client[c].seen
             r == IF seen.status = "CANCELLED" THEN rec
                                               ELSE Transition(seen, "CANCELLED")
             new == [r EXCEPT !.lease = NoOne,
                              !.pid = IF Detached THEN @ ELSE NoOne]
  <2>1. r \in Record
    BY <1>f, <1>t, <1>s
  <2>2. Commit(new)
    BY <1>3 DEF CancelledWrite
  <2> HIDE DEF r
  <2>3. new \in Record
    BY <2>1 DEF Record
  <2>4. QED
    BY <2>2, <2>3 DEF Commit, RecordTyped
<1>4. CASE Tombstone(c)
  BY <1>4, <1>f, <1>t, <1>s DEF Tombstone, Commit, RecordTyped, storeVars,
     Record, DispatchState
<1>5. CASE RestoreDeleted(c)
  BY <1>5, <1>f, <1>t, <1>s DEF RestoreDeleted, Commit, RecordTyped,
     storeVars, Record, DispatchState
<1>6. CASE ArchiveWrite(c)
  BY <1>6, <1>f, <1>t, <1>s DEF ArchiveWrite, Commit, RecordTyped, storeVars,
     Record, DispatchState
<1>7. CASE RestoreArchiveWrite(c)
  BY <1>7, <1>f, <1>t, <1>s DEF RestoreArchiveWrite, Commit, RecordTyped,
     storeVars, Record, DispatchState
<1>8. CASE HandoffWrite(c)
  BY <1>8, <1>f, <1>t, <1>s DEF HandoffWrite, Commit, RecordTyped, storeVars,
     Record, DispatchState
<1>9. CASE CompletedWrite(c)
  BY <1>9, <1>f, <1>t, <1>s DEF CompletedWrite, Commit, RecordTyped,
     storeVars, Record, DispatchState
<1>10. CASE HandoffMode(c)
  BY <1>10, <1>f, <1>t, <1>s DEF HandoffMode, Commit, RecordTyped, storeVars,
     Record, DispatchState
<1>11. CASE InputWrite(c)
  <2> DEFINE r == [Transition(client[c].seen, "STARTING")
                     EXCEPT !.pid = NoOne, !.mode = 0]
  <2>1. r \in Record
    BY <1>f, <1>t, <1>s DEF Record, DispatchState
  <2>2. UNCHANGED storeVars \/ Commit(r)
    BY <1>11 DEF InputWrite
  <2> HIDE DEF r
  <2>3. QED BY <2>1, <2>2, <1>f DEF Commit, RecordTyped, storeVars
<1>12. CASE Requeue(c)
  BY <1>12, <1>f, <1>t, <1>s DEF Requeue, Commit, RecordTyped, storeVars,
     Record, DispatchState
<1>13. CASE LaunchFailed(c)
  BY <1>13, <1>f, <1>t, <1>s DEF LaunchFailed, Commit, RecordTyped, storeVars,
     Record, DispatchState
<1>14. CASE RecordWrite(c)
  <2> DEFINE d == IF client[c].seen.dispatch = "CLAIMED" THEN "LAUNCHED"
                                                        ELSE rec.dispatch
             r == [rec EXCEPT !.pid = client[c].pid, !.dispatch = d]
  <2>1. d \in DispatchState
    BY <1>f DEF Record, DispatchState
  <2>2. UNCHANGED storeVars \/ Commit(r)
    BY <1>14 DEF RecordWrite
  <2> HIDE DEF d
  <2>3. r \in Record
    BY <2>1, <1>f DEF Record
  <2> HIDE DEF r
  <2>4. QED
    BY <2>2, <2>3, <1>f DEF Commit, RecordTyped, storeVars
<1>15. CASE Reserve(c)
  <2> DEFINE r == [Transition(client[c].seen, "STARTING")
                     EXCEPT !.dispatch = "CLAIMED", !.token = client[c].token]
  <2> DEFINE f == [Transition(client[c].seen, "FAILED")
                     EXCEPT !.dispatch = "FAILED"]
  <2>1. r \in Record
    BY <1>f, <1>t, <1>s DEF Record, DispatchState
  <2>2. f \in Record
    BY <1>f, <1>t, <1>s DEF Record, DispatchState
  <2>3. UNCHANGED storeVars \/ Commit(r) \/ Commit(f)
    BY <1>15 DEF Reserve
  <2> HIDE DEF r, f
  <2>4. QED BY <2>1, <2>2, <2>3, <1>f DEF Commit, RecordTyped, storeVars
<1>16. CASE Reap(c)
  BY <1>16, <1>f, <1>t, <1>s DEF Reap, Commit, RecordTyped, storeVars, Record,
     DispatchState
<1>17. CASE Reload(c)
  BY <1>17, <1>f, <1>t, <1>s DEF Reload, Commit, RecordTyped, storeVars,
     Record, DispatchState
<1>18. CASE RecoverRead(c)
  BY <1>18, <1>f, <1>t, <1>s DEF RecoverRead, Commit, RecordTyped, storeVars,
     Record, DispatchState
<1>19. CASE RecoverWrite(c)
  BY <1>19, <1>f, <1>t, <1>s DEF RecoverWrite, Commit, RecordTyped, storeVars,
     Record, DispatchState
<1>20. CASE UNCHANGED storeVars
  BY <1>20, <1>f DEF RecordTyped, storeVars
<1>21. ASSUME \/ StopEnter(c, "cancel") \/ StopEnter(c, "delete")
              \/ DeleteRead(c) \/ StopRead(c) \/ Signal(c) \/ GraceOver(c)
              \/ StopCheck(c) \/ CancelledRead(c) \/ ArchiveRead(c)
              \/ RestoreArchiveRead(c) \/ HandoffRead(c) \/ HandoffPrepare(c)
              \/ HandoffRequest(c) \/ InputRead(c) \/ StartRead(c)
              \/ StartLock(c) \/ Spawn(c) \/ RecordRead(c) \/ Dispatch(c)
              \/ DispatchNothing(c) \/ ClientCrash(c)
       PROVE  UNCHANGED storeVars
  BY <1>21 DEF ArchiveRead, CancelledRead, ClientCrash, DeleteRead, Dispatch,
     DispatchNothing, GraceOver, HandoffPrepare, HandoffRead, HandoffRequest,
     InputRead, RecordRead, RestoreArchiveRead, Signal, Spawn, StartLock,
     StartRead, StopCheck, StopEnter, StopRead, storeVars
<1>q. QED
  BY <1>1, <1>2, <1>3, <1>4, <1>5, <1>6, <1>7, <1>8, <1>9, <1>10, <1>11,
     <1>12, <1>13, <1>14, <1>15, <1>16, <1>17, <1>18, <1>19, <1>20, <1>21 DEF
     ClientStep, StopStep, ArchiveStep, RestartStep, LaunchStep, DispatchStep,
     RecoverStep

(* ... and the processes. *)
LEMMA ProcessesStayTyped ==
  ASSUME TypeOK, NEW c \in Clients, ClientStep(c) \/ ClientCrash(c)
  PROVE  ProcessesTyped'
<1>f. /\ worker \in [Workers -> WorkerState] /\ signalled \subseteq Workers
      /\ attemptOf \in [Workers -> Nat] /\ owner \in Workers \cup {NoOne}
      /\ request \in Nat /\ lastToken \in Nat /\ client[c].token \in Nat
  BY ClientFields DEF TypeOK, ProcessesTyped
<1>1. CASE Signal(c)
  BY <1>1, <1>f DEF Signal, ProcessesTyped, fileVars, Alive
<1>2. CASE HandoffRequest(c)
  BY <1>2, <1>f DEF HandoffRequest, ProcessesTyped, processVars
<1>3. CASE Dispatch(c)
  BY <1>3, <1>f DEF Dispatch, ProcessesTyped, processVars, fileVars
<1>4. CASE Spawn(c)
  <2>1. worker' = worker \/ \E w \in Workers : WGoto(w, "spawned")
    BY <1>4 DEF Spawn
  <2>2. worker' \in [Workers -> WorkerState]
    BY <2>1, <1>f DEF WGoto, WorkerState, WorkerPC
  <2>3. QED
    BY <2>2, <1>4, <1>f DEF Spawn, ProcessesTyped
<1>5. CASE UNCHANGED <<fileVars, processVars>>
  BY <1>5, <1>f DEF ProcessesTyped, fileVars, processVars
<1>6. QED
  BY <1>1, <1>2, <1>3, <1>4, <1>5
     DEF ClientStep, StopStep, ArchiveStep, RestartStep, LaunchStep, DispatchStep,
         RecoverStep, ClientCrash, StopEnter, DropQueued, DeleteRead, StopRead,
         StopWrite, GraceOver, StopCheck, CancelledRead, CancelledWrite, Tombstone,
         RestoreDeleted, ArchiveRead, ArchiveWrite, RestoreArchiveRead,
         RestoreArchiveWrite, HandoffRead, HandoffPrepare, HandoffWrite,
         CompletedWrite, HandoffMode, InputRead, InputWrite, StartRead, StartLock,
         Requeue, LaunchFailed, RecordRead, RecordWrite, DispatchNothing, Reserve,
         Reap, Reload, RecoverRead, RecoverWrite

(* Every worker step keeps the record typed, and the processes. *)
LEMMA WorkerRecordTyped ==
  ASSUME TypeOK, NEW w \in Workers, WorkerStep(w)
  PROVE  RecordTyped'
<1>f. /\ rec \in Record /\ fresh \subseteq Clients
      /\ worker \in [Workers -> WorkerState] /\ signalled \subseteq Workers
      /\ attemptOf \in [Workers -> Nat] /\ owner \in Workers \cup {NoOne}
      /\ request \in Nat /\ lastToken \in Nat
      /\ worker[w].seen \in Record /\ worker[w].out \in Outcome
  BY WorkerFields DEF TypeOK, RecordTyped, ProcessesTyped
<1>t. \A seen \in Record, target \in Status : Transition(seen, target) \in Record
  BY <1>f, TransitionType
<1>s. /\ Waiting \subseteq Status /\ Outcome \ {"NONE"} \subseteq Status
      /\ {"STARTING", "RUNNING", "CANCELLING", "CANCELLED"} \subseteq Status
  BY DEF Waiting, Status, Active, Terminal, Outcome, EndsAttempt
<1>1. CASE ClaimStart(w)
  BY <1>1, <1>f, <1>t, <1>s DEF ClaimStart, Commit, RecordTyped, storeVars,
     Record, DispatchState
<1>2. CASE Claim(w)
  <2> DEFINE d == IF worker[w].token # 0 THEN "STARTED"
                                         ELSE worker[w].seen.dispatch
             t == Transition(worker[w].seen, "RUNNING")
             r == [t EXCEPT !.attempt = worker[w].seen.attempt + 1,
                            !.lease = w, !.pid = w, !.mode = 0, !.dispatch = d]
  <2>1. d \in DispatchState /\ worker[w].seen.attempt + 1 \in Nat
    BY <1>f DEF Record, DispatchState
  <2>2. t \in Record
    BY <1>f, <1>t, <1>s
  <2>4. UNCHANGED storeVars \/ Commit(r)
    BY <1>2 DEF Claim
  <2> HIDE DEF d, t
  <2>5. r \in Record
    BY <2>1, <2>2 DEF Record
  <2> HIDE DEF r
  <2>6. QED
    BY <2>4, <2>5, <1>f DEF Commit, RecordTyped, storeVars
<1>3. CASE AttestMode(w)
  BY <1>3, <1>f, <1>t, <1>s DEF AttestMode, Commit, RecordTyped, storeVars,
     Record, DispatchState
<1>4. CASE Heartbeat(w)
  BY <1>4, <1>f, <1>t, <1>s DEF Heartbeat, Commit, RecordTyped, storeVars,
     Record, DispatchState
<1>5. CASE AskUser(w)
  BY <1>5, <1>f, <1>t, <1>s DEF AskUser, Commit, RecordTyped, storeVars,
     Record, DispatchState
<1>6. CASE AskEnds(w)
  BY <1>6, <1>f, <1>t, <1>s DEF AskEnds, Commit, RecordTyped, storeVars,
     Record, DispatchState
<1>7. CASE FinalWrite(w)
  <2> DEFINE o == FinalStatus(w)
             p == IF worker[w].seen.pid = NoOne THEN w ELSE worker[w].seen.pid
             r == Transition(rec, o)
             s == [r EXCEPT !.lease = NoOne, !.pid = p]
  <2>1. p \in Workers \cup {NoOne}
    BY <1>f DEF Record
  <2>2. \/ UNCHANGED storeVars
        \/ o # "NONE" /\ Commit(r)
        \/ o # "NONE" /\ Commit(s)
    BY <1>7 DEF FinalWrite
  <2>3. o # "NONE" => o \in Status
    BY <1>f, <1>s DEF FinalStatus
  <2> HIDE DEF o, p
  <2>4. o \in Status => r \in Record
    BY <1>f, <1>t
  <2> HIDE DEF r
  <2>5. r \in Record => s \in Record
    BY <2>1 DEF Record
  <2> HIDE DEF s
  <2>6. QED
    BY <2>2, <2>3, <2>4, <2>5, <1>f DEF Commit, RecordTyped, storeVars
<1>8. CASE UNCHANGED storeVars
  BY <1>8, <1>f DEF RecordTyped, storeVars
<1>q. QED
  BY <1>1, <1>2, <1>3, <1>4, <1>5, <1>6, <1>7, <1>8 DEF WorkerStep,
     LoadRequest, ClaimRead, AcquireOwner, CheckMode, Finish, Fail, Interrupt,
     FinalRead, Release, Die

LEMMA WorkerProcessesTyped ==
  ASSUME TypeOK, NEW w \in Workers, WorkerStep(w)
  PROVE  ProcessesTyped'
<1>f. /\ rec \in Record /\ fresh \subseteq Clients
      /\ worker \in [Workers -> WorkerState] /\ signalled \subseteq Workers
      /\ attemptOf \in [Workers -> Nat] /\ owner \in Workers \cup {NoOne}
      /\ request \in Nat /\ lastToken \in Nat
      /\ worker[w].seen \in Record /\ worker[w].out \in Outcome
  BY WorkerFields DEF TypeOK, RecordTyped, ProcessesTyped
<1>t. \A seen \in Record, target \in Status : Transition(seen, target) \in Record
  BY <1>f, TransitionType
<1>s. /\ Waiting \subseteq Status /\ Outcome \ {"NONE"} \subseteq Status
      /\ {"STARTING", "RUNNING", "CANCELLING", "CANCELLED"} \subseteq Status
  BY DEF Waiting, Status, Active, Terminal, Outcome, EndsAttempt
<1>1. CASE LoadRequest(w)
  <2> DEFINE local == [worker[w] EXCEPT !.pc = "claimRead", !.token = request]
  <2>1. local \in WorkerState
    BY <1>f DEF WorkerState, WorkerPC
  <2>2. worker' = [worker EXCEPT ![w] = local]
    BY <1>1 DEF LoadRequest
  <2> HIDE DEF local
  <2>3. QED
    BY <2>1, <2>2, <1>1, <1>f DEF LoadRequest, ProcessesTyped, fileVars
<1>2. CASE ClaimRead(w)
  BY <1>2, <1>f, <1>t, WorkerSteps, BlankType DEF ClaimRead, ProcessesTyped,
     fileVars, processVars, WorkerPC, Outcome, EndsAttempt
<1>3. CASE ClaimStart(w)
  <2>1. \E r \in Record : WGotoSeen(w, "claim", r)
    BY <1>3, <1>f, <1>t, <1>s DEF ClaimStart
  <2>2. worker' \in [Workers -> WorkerState]
    BY <2>1, <1>f, BlankType, WorkerSteps DEF WorkerPC
  <2>3. QED
    BY <2>2, <1>3, <1>f DEF ClaimStart, ProcessesTyped, fileVars
<1>4. CASE Claim(w)
  <2>1. WGotoSeen(w, "acquire", Blank) \/ WEnd(w, "exited")
    BY <1>4 DEF Claim
  <2>2. worker' \in [Workers -> WorkerState]
    BY <2>1, <1>f, BlankType, WorkerSteps DEF WorkerPC
  <2>3. worker[w].seen.attempt + 1 \in Nat
    BY <1>f DEF Record
  <2>4. attemptOf' \in [Workers -> Nat]
    BY <2>3, <1>4, <1>f DEF Claim
  <2>5. QED
    BY <2>2, <2>4, <1>4, <1>f DEF Claim, ProcessesTyped, fileVars
<1>5. CASE AcquireOwner(w)
  BY <1>5, <1>f, <1>t, WorkerSteps, BlankType DEF AcquireOwner,
     ProcessesTyped, fileVars, processVars, WorkerPC, Outcome, EndsAttempt
<1>6. CASE AttestMode(w)
  BY <1>6, <1>f, <1>t, WorkerSteps, BlankType DEF AttestMode, ProcessesTyped,
     fileVars, processVars, WorkerPC, Outcome, EndsAttempt
<1>7. CASE CheckMode(w)
  BY <1>7, <1>f, <1>t, WorkerSteps, BlankType DEF CheckMode, ProcessesTyped,
     fileVars, processVars, WorkerPC, Outcome, EndsAttempt
<1>8. CASE Heartbeat(w)
  BY <1>8, <1>f, <1>t, WorkerSteps, BlankType DEF Heartbeat, ProcessesTyped,
     fileVars, processVars, WorkerPC, Outcome, EndsAttempt
<1>9. CASE AskUser(w)
  <2>1. \E r \in Record : WGotoSeen(w, "asking", r)
    BY <1>9, <1>f, <1>t, <1>s DEF AskUser
  <2>2. worker' \in [Workers -> WorkerState]
    BY <2>1, <1>f, BlankType, WorkerSteps DEF WorkerPC
  <2>3. QED
    BY <2>2, <1>9, <1>f DEF AskUser, ProcessesTyped, fileVars
<1>10. CASE AskEnds(w)
  BY <1>10, <1>f, <1>t, WorkerSteps, BlankType DEF AskEnds, ProcessesTyped,
     fileVars, processVars, WorkerPC, Outcome, EndsAttempt
<1>11. CASE Finish(w)
  BY <1>11, <1>f, <1>t, WorkerSteps, BlankType DEF Finish, ProcessesTyped,
     fileVars, processVars, WorkerPC, Outcome, EndsAttempt
<1>12. CASE Fail(w)
  BY <1>12, <1>f, <1>t, WorkerSteps, BlankType DEF Fail, ProcessesTyped,
     fileVars, processVars, WorkerPC, Outcome, EndsAttempt
<1>13. CASE Interrupt(w)
  BY <1>13, <1>f, <1>t, WorkerSteps, BlankType DEF Interrupt, ProcessesTyped,
     fileVars, processVars, WorkerPC, Outcome, EndsAttempt
<1>14. CASE FinalRead(w)
  BY <1>14, <1>f, <1>t, WorkerSteps, BlankType DEF FinalRead, ProcessesTyped,
     fileVars, processVars, WorkerPC, Outcome, EndsAttempt
<1>15. CASE FinalWrite(w)
  <2>1. \/ WGotoSeen(w, "release", Blank)
        \/ WGotoSeen(w, "finalWrite", Transition(rec, "CANCELLING"))
    BY <1>15 DEF FinalWrite
  <2>2. Transition(rec, "CANCELLING") \in Record
    BY <1>f, <1>t, <1>s
  <2>3. worker' \in [Workers -> WorkerState]
    BY <2>1, <2>2, <1>f, BlankType, WorkerSteps DEF WorkerPC
  <2>4. QED
    BY <2>3, <1>15, <1>f DEF FinalWrite, ProcessesTyped, fileVars
<1>16. CASE Release(w)
  BY <1>16, <1>f, <1>t, WorkerSteps, BlankType DEF Release, ProcessesTyped,
     fileVars, processVars, WorkerPC, Outcome, EndsAttempt
<1>17. CASE Die(w)
  BY <1>17, <1>f, <1>t, WorkerSteps, BlankType DEF Die, ProcessesTyped,
     fileVars, processVars, WorkerPC, Outcome, EndsAttempt
<1>q. QED
  BY <1>1, <1>2, <1>3, <1>4, <1>5, <1>6, <1>7, <1>8, <1>9, <1>10, <1>11,
     <1>12, <1>13, <1>14, <1>15, <1>16, <1>17 DEF WorkerStep

LEMMA TypeStep == ASSUME TypeOK, [Next]_vars PROVE TypeOK'
<1>1. ASSUME NEW c \in Clients, SupervisorStep(c)
      PROVE  TypeOK'
  <2>1. ClientStep(c)
    BY <1>1 DEF SupervisorStep
  <2>2. calls' \in Nat
    BY <1>1 DEF SupervisorStep, TypeOK
  <2>3. QED
    BY <2>1, <2>2, SupervisorsStayTyped, RecordStaysTyped, ProcessesStayTyped
       DEF TypeOK
<1>2. ASSUME NEW c \in Clients, ClientCrash(c), UNCHANGED calls
      PROVE  TypeOK'
  BY <1>2, SupervisorsStayTyped, RecordStaysTyped, ProcessesStayTyped DEF TypeOK
<1>3. ASSUME NEW w \in Workers, WorkerStep(w), UNCHANGED calls
      PROVE  TypeOK'
  <2>1. UNCHANGED <<client, schedLock>>
    BY <1>3 DEF WorkerStep, LoadRequest, ClaimRead, ClaimStart, Claim,
         AcquireOwner, AttestMode, CheckMode, Heartbeat, AskUser, AskEnds, Finish,
         Fail, Interrupt, FinalRead, FinalWrite, Release, Die
  <2>2. QED
    BY <2>1, <1>3, WorkerRecordTyped, WorkerProcessesTyped
       DEF TypeOK, SupervisorsTyped
<1>4. CASE UNCHANGED vars
  BY <1>4 DEF vars, TypeOK, RecordTyped, ProcessesTyped, SupervisorsTyped
<1>5. QED
  BY <1>1, <1>2, <1>3, <1>4 DEF Next, Quiet

(* Whatever the supervisors and workers do, and however their reads and      *)
(* commits interleave, every commit leaves the registry a record with a      *)
(* status of the lifecycle, and every process a state of its protocol.       *)
THEOREM TypeCorrect == Spec => []TypeOK
<1>1. Init => TypeOK
  BY TypeInit, ConfigAssumption
<1>2. TypeOK /\ [Next]_vars => TypeOK'
  BY TypeStep
<1>3. QED
  BY <1>1, <1>2, PTL DEF Spec

=============================================================================
