-------------------------- MODULE InputInbox_proofs --------------------------
(***************************************************************************)
(* The input inbox for any number of messages, workers and supervisors: a  *)
(* message is taken once, its receipt is true, the bound holds, and an     *)
(* attempt that was started for a message finds it.                        *)
(***************************************************************************)
EXTENDS InputInbox, FiniteSetTheorems, TLAPS


Awaits ==
  \E m \in Messages : /\ receipt[m].deferred
                      /\ receipt[m].state \in {"accepted", "rejected"}

Dismissed ==
  \E m \in Messages : receipt[m].deferred /\ receipt[m].state = "rejected"

TakenFrom(m) ==
  /\ receipt[m].deferred => receipt[m].owner = NoOne
  /\ \A w \in Workers : m \in worker[w].delivered =>
       receipt[m].owner = w /\ receipt[m].state \notin {"absent", "accepted"}
  /\ receipt[m].state \in {"delivered", "completed", "failed"} =>
       receipt[m].owner \in Workers /\ m \in worker[receipt[m].owner].delivered

Finds(w) ==
  /\ worker[w].pc = "deliver" =>
       LET m == Oldest(For(w)) IN
       m \in For(w) /\ receipt[m].owner = w /\ ~receipt[m].deferred
  /\ worker[w].pc \in {"route", "routeAppend"} =>
       worker[w].phase \in {"route", "resumed"}
  /\ worker[w].pc = "planned" => worker[w].seen.status = "RUNNING"
  /\ worker[w].pc = "command" => worker[w].item \in Messages
  /\ worker[w].pc \in {"unborn", "gone"} => worker[w].phase = "last"

Vacant ==
  session.lease # NoOne => worker[session.lease].pc = "gone"

Taking == {"routeAppend", "rebind", "deliver"}

NoneTakes == \A w \in Workers : worker[w].pc \notin Taking

Intends == {"enqueue", "enqueueAppend", "defer", "deferAppend"}
Starting == {"rearm", "rearmAppend", "start"}

Resumes(c) ==
  \/ client[c].pc \in {"defer", "deferAppend"} \cup Starting
  \/ client[c].pc = "receipts" /\ client[c].maintains

Knows(c) ==
  LET me == client[c] IN
  /\ me.pc \in Intends => me.item \in Messages
  /\ me.pc = "enqueueAppend" =>
       me.item \notin Known /\ ~Full /\ me.seen.lease # NoOne
  /\ me.pc = "deferAppend" => me.item \in Known \/ ~Full
  /\ me.seen.attempt <= session.attempt
  /\ me.pc = "idle" => ~me.maintains
  /\ Resumes(c) /\ me.seen.attempt = session.attempt =>
       /\ me.seen.lease = NoOne => session.lease = NoOne
       /\ SameOwner(me.seen) => Vacant
  /\ (me.pc \in Starting /\ SameOwner(me.seen)) => Awaits /\ NoneTakes

Leased ==
  /\ session.lease # NoOne => worker[session.lease].pc # "unborn"
  /\ session.status \notin {"RUNNING", "CANCELLING"} => Vacant

Opens == {"acquire", "plan", "planned"}

Served ==
  session.forInput =>
    /\ session.status = "STARTING" => Awaits /\ NoneTakes
    /\ session.lease # NoOne =>
         LET me == worker[session.lease] IN
         /\ me.pc \in Opens => Awaits /\ NoneTakes
         /\ me.phase \in {"route", "resumed"} /\ me.due = {} => Dismissed

InputInv ==
  /\ InputTypeOK /\ IsFiniteSet(Known) /\ QueueBounded
  /\ \A m \in Messages : TakenFrom(m)
  /\ \A w \in Workers : Finds(w)
  /\ \A c \in Clients : Knows(c)
  /\ Leased /\ Served

-----------------------------------------------------------------------------
(* Steps, by the process that takes them *)

WorkerStep(w) ==
  \/ Claim(w) \/ LaunchFails(w) \/ InWorker(w)
  \/ CommandRejected(w) \/ TurnFails(w) \/ Interrupt(w) \/ WorkerDies(w)

ClientStep(c) ==
  \/ \E m \in Messages : SubmitLive(c, m) \/ SubmitDeferred(c, m) \/ SubmitOrphan(c, m)
  \/ View(c) \/ Maintain(c) \/ Cancel(c) \/ InCall(c)

RecordStep == RecordPid \/ Delete \/ RestoreDeleted \/ MarkOrphaned

LEMMA NextSteps ==
  Next <=> \/ \E c \in Clients : ClientStep(c)
           \/ RecordStep
           \/ \E w \in Workers : WorkerStep(w)
BY DEF Next, ClientStep, RecordStep, WorkerStep

LEMMA ClientFrame ==
  ASSUME NEW c \in Clients, ClientStep(c), client \in [Clients -> ClientState]
  PROVE  UNCHANGED worker /\ \A d \in Clients \ {c} : client'[d] = client[d]
<1>1. ASSUME NEW m \in Messages,
             SubmitLive(c, m) \/ SubmitDeferred(c, m) \/ SubmitOrphan(c, m)
      PROVE  UNCHANGED worker /\ \A d \in Clients \ {c} : client'[d] = client[d]
  BY <1>1 DEF SubmitLive, SubmitDeferred, SubmitOrphan, Submit
<1>2. CASE View(c) \/ Maintain(c) \/ Cancel(c) \/ Cancelled(c) \/ Start(c) \/ Receipts(c)
  BY <1>2 DEF View, Maintain, Cancel, Cancelled, Start, Receipts, Update, Goto, Return
<1>3. CASE Enqueue(c) \/ EnqueueAppend(c) \/ Defer(c) \/ DeferAppend(c) \/ Rearm(c)
             \/ RearmAppend(c)
  BY <1>3 DEF Enqueue, EnqueueAppend, Defer, DeferAppend, Rearm, RearmAppend, Goto, GotoSeen,
              Return
<1> QED
  BY <1>1, <1>2, <1>3 DEF ClientStep, InCall

LEMMA RecordFrame == RecordStep => UNCHANGED <<receipt, lock, worker, client>>
BY DEF RecordStep, RecordPid, Delete, RestoreDeleted, MarkOrphaned, Update

LEMMA WorkerFrame ==
  ASSUME NEW w \in Workers, WorkerStep(w)
  PROVE  UNCHANGED client
<1>1. InWorker(w) => UNCHANGED client
  BY DEF InWorker, Acquire, Plan, Planned, Route, RouteAppend, Assess, Wait, WaitAppend,
         CommandEnds, ClaimNext, Rebind, Deliver, TurnEnds, Settle, Sweep, Finalize
<1> QED
  BY <1>1 DEF WorkerStep, Claim, LaunchFails, CommandRejected, TurnFails, Interrupt, WorkerDies

-----------------------------------------------------------------------------
(* Types *)

USE DEF ClientCritical, WorkerCritical

(* The conjuncts of the type invariant that speak of processes *)
Processes ==
  /\ lock \in Workers \cup Clients \cup {NoOne}
  /\ worker \in [Workers -> WorkerState]
  /\ client \in [Clients -> ClientState]
  /\ \A c \in Clients : client[c].pc \in ClientCritical <=> lock = c
  /\ \A w \in Workers : worker[w].pc \in WorkerCritical <=> lock = w

LEMMA Typed ==
  InputTypeOK <=> /\ Processes
                  /\ session \in SessionRecord /\ receipt \in [Messages -> Receipt]
                  /\ calls \in 0..MaxCalls
BY DEF InputTypeOK, Processes

(* A step of one worker, outside the inbox lock *)
LEMMA WorkerIdles ==
  ASSUME Processes, NEW w \in Workers, NEW r \in WorkerState,
         worker' = [worker EXCEPT ![w] = r], UNCHANGED <<lock, client>>,
         worker[w].pc \notin WorkerCritical, r.pc \notin WorkerCritical
  PROVE  Processes'
BY DEF Processes

LEMMA WorkerTakes ==
  ASSUME Processes, NEW w \in Workers, NEW r \in WorkerState,
         worker' = [worker EXCEPT ![w] = r], Take(w), UNCHANGED client,
         r.pc \in WorkerCritical
  PROVE  Processes'
BY InputAssumption DEF Processes, Take, Free

LEMMA WorkerUnlocks ==
  ASSUME Processes, NEW w \in Workers, NEW r \in WorkerState,
         worker' = [worker EXCEPT ![w] = r], Unlock, UNCHANGED client,
         worker[w].pc \in WorkerCritical, r.pc \notin WorkerCritical
  PROVE  Processes'
BY InputAssumption DEF Processes, Unlock

(* The same of a client *)
LEMMA ClientIdles ==
  ASSUME Processes, NEW c \in Clients, NEW r \in ClientState,
         client' = [client EXCEPT ![c] = r], UNCHANGED <<lock, worker>>,
         client[c].pc \notin ClientCritical, r.pc \notin ClientCritical
  PROVE  Processes'
BY DEF Processes

LEMMA ClientTakes ==
  ASSUME Processes, NEW c \in Clients, NEW r \in ClientState,
         client' = [client EXCEPT ![c] = r], Take(c), UNCHANGED worker,
         r.pc \in ClientCritical
  PROVE  Processes'
BY InputAssumption DEF Processes, Take, Free

LEMMA ClientUnlocks ==
  ASSUME Processes, NEW c \in Clients, NEW r \in ClientState,
         client' = [client EXCEPT ![c] = r], Unlock, UNCHANGED worker,
         client[c].pc \in ClientCritical, r.pc \notin ClientCritical
  PROVE  Processes'
BY InputAssumption DEF Processes, Unlock

(* What processes read, and the states they go to *)
LEMMA LaunchedTyped == Launched \in SessionRecord
BY DEF Launched, SessionRecord, SessionStatuses

LEMMA ReadsTyped ==
  ASSUME session \in SessionRecord
  PROVE  Glance \in SessionRecord /\ Look \in SessionRecord
BY LaunchedTyped DEF Glance, Look, SessionRecord

LEMMA IdleTyped == Idle \in ClientState /\ Idle.pc = "idle"
BY LaunchedTyped DEF Idle, ClientState, ClientPC

LEMMA SubmittedTyped ==
  ASSUME NEW pc \in ClientPC, NEW m \in Messages, NEW seen \in SessionRecord
  PROVE  /\ [Idle EXCEPT !.pc = pc, !.item = m, !.seen = seen] \in ClientState
         /\ [Idle EXCEPT !.pc = pc, !.item = m, !.seen = seen].pc = pc
BY LaunchedTyped DEF Idle, ClientState

LEMMA UnbornTyped == Unborn \in WorkerState
BY LaunchedTyped DEF Unborn, WorkerState, WorkerPC, Outcome

(* The local state in which _execute of the worker ends with the outcome o *)
Ended(local, o) ==
  [Unborn EXCEPT !.pc = "settle", !.out = o, !.stuck = local.stuck,
                 !.delivered = local.delivered, !.completed = local.completed]

LEMMA EndsTyped ==
  ASSUME NEW w \in Workers, NEW o \in Outcome, worker \in [Workers -> WorkerState],
         Ends(w, o)
  PROVE  /\ worker' = [worker EXCEPT ![w] = Ended(worker[w], o)]
         /\ Ended(worker[w], o) \in WorkerState
         /\ Ended(worker[w], o).pc = "settle"
<1>1. worker[w] \in WorkerState
  OBVIOUS
<1>2. Ended(worker[w], o) \in WorkerState /\ Ended(worker[w], o).pc = "settle"
  BY <1>1, UnbornTyped DEF Ended, WorkerState, WorkerPC
<1> QED
  BY <1>2 DEF Ends, Ended

LEMMA TurnTyped ==
  ASSUME NEW r \in WorkerState, NEW i \in Turns
  PROVE  /\ Turn(r, i) \in WorkerState /\ Turn(r, i).pc = "turn"
         /\ [Turn(r, i) EXCEPT !.phase = "resumed"] \in WorkerState
         /\ [Turn(r, i) EXCEPT !.phase = "resumed"].pc = "turn"
BY DEF Turn, WorkerState, WorkerPC

LEMMA ServeTyped ==
  ASSUME NEW r \in WorkerState
  PROVE  Serve(r) \in WorkerState /\ Serve(r).pc \in {"drain", "turn"}
<1>1. CASE r.due # {}
  BY <1>1 DEF Serve, WorkerState, WorkerPC
<1>2. CASE r.due = {}
  BY <1>2, TurnTyped DEF Serve, Turns
<1> QED
  BY <1>1, <1>2

LEMMA AfterItemTyped ==
  ASSUME NEW r \in WorkerState
  PROVE  AfterItem(r) \in WorkerState /\ AfterItem(r).pc \in {"route", "drain"}
BY DEF AfterItem, WorkerState, WorkerPC

LEMMA ResumeTyped ==
  ASSUME NEW r \in WorkerState
  PROVE  Resume(r) \in WorkerState /\ Resume(r).pc \in {"command", "turn"}
BY DEF Resume, WorkerState, WorkerPC

LEMMA TakeUpTyped ==
  ASSUME NEW r \in WorkerState, NEW m \in Messages
  PROVE  TakeUp(r, m) \in WorkerState /\ TakeUp(r, m).pc \in {"command", "turn"}
<1>1. Resume(r) \in WorkerState /\ Resume(r).pc \in {"command", "turn"}
  BY ResumeTyped
<1>2. [Resume(r) EXCEPT !.idle = TRUE, !.completed = @ \cup {m}] \in WorkerState
  BY <1>1 DEF WorkerState
<1>3. [Resume(r) EXCEPT !.idle = TRUE, !.completed = @ \cup {m}].pc = Resume(r).pc
  BY <1>1 DEF WorkerState
<1>4. /\ [r EXCEPT !.pc = "command", !.item = m] \in WorkerState
      /\ [r EXCEPT !.pc = "command", !.item = m].pc = "command"
      /\ [r EXCEPT !.pc = "turn", !.item = m] \in WorkerState
      /\ [r EXCEPT !.pc = "turn", !.item = m].pc = "turn"
  BY DEF WorkerState, WorkerPC, Turns
<1> QED
  BY <1>1, <1>2, <1>3, <1>4, r.inTurn \in BOOLEAN DEF TakeUp, WorkerState

LEMMA GoneTyped ==
  ASSUME NEW w \in Workers, worker \in [Workers -> WorkerState], Gone(w)
  PROVE  LET r == [Unborn EXCEPT !.pc = "gone", !.delivered = worker[w].delivered]
         IN worker' = [worker EXCEPT ![w] = r] /\ r \in WorkerState /\ r.pc = "gone"
<1>1. worker[w] \in WorkerState
  OBVIOUS
<1> QED
  BY <1>1, UnbornTyped DEF Gone, WorkerState, WorkerPC

-----------------------------------------------------------------------------
(* The log *)

(* Some message of a set has been accepted first *)
LEMMA OldestFound ==
  ASSUME receipt \in [Messages -> Receipt], NEW S \in SUBSET Messages, S # {}
  PROVE  /\ Oldest(S) \in S
         /\ \A n \in S : receipt[Oldest(S)].at <= receipt[n].at
<1> DEFINE T == {receipt[m].at : m \in S}
<1>1. T \in SUBSET Nat /\ T # {}
  BY DEF Receipt
<1> HIDE DEF T
<1>2. PICK t \in T : \A u \in T : ~(<<u, t>> \in OpToRel(<, Nat))
  <2> DEFINE R == OpToRel(<, Nat)
  <2>1. IsWellFoundedOn(R, Nat)
    BY NatLessThanWellFounded
  <2> HIDE DEF R
  <2>2. \E t \in T : \A u \in T : ~(<<u, t>> \in R)
    BY <1>1, <2>1, WFMin, Zenon
  <2> QED
    BY <2>2 DEF R
<1>3. \A u \in T : t <= u
  <2> TAKE u \in T
  <2>1. <<u, t>> \notin {p \in Nat \X Nat : p[1] < p[2]}
    BY <1>2 DEF OpToRel
  <2> QED
    BY <1>1, <2>1
<1> USE DEF T
<1>4. PICK m \in S : receipt[m].at = t
  OBVIOUS
<1>5. \A n \in S : receipt[m].at <= receipt[n].at
  BY <1>3, <1>4
<1> QED
  BY <1>4, <1>5 DEF Oldest

(* Only accepted_at decides which message of a set is the oldest *)
LEMMA OldestSame ==
  ASSUME NEW S, \A m \in S : receipt'[m].at = receipt[m].at
  PROVE  (CHOOSE m \in S : \A n \in S : receipt'[m].at <= receipt'[n].at) = Oldest(S)
<1>1. \A m \in S : (\A n \in S : receipt'[m].at <= receipt'[n].at)
                     <=> (\A n \in S : receipt[m].at <= receipt[n].at)
  OBVIOUS
<1> QED
  BY <1>1 DEF Oldest

(* What an append and a reader make of the log has its type *)
LEMMA AcceptedTyped ==
  ASSUME IsFiniteSet(Known), NEW o \in Workers \cup {NoOne}
  PROVE  Accepted(o) \in Receipt
<1>1. Cardinality(Known) \in Nat
  BY FS_CardinalityType
<1> QED
  BY <1>1 DEF Accepted, Receipt, InputState

LEMMA DeferredTyped ==
  ASSUME receipt \in [Messages -> Receipt], IsFiniteSet(Known), NEW m \in Messages
  PROVE  Deferred(m) \in Receipt
<1>1. Accepted(NoOne) \in Receipt
  BY AcceptedTyped
<1>2. receipt[m] \in Receipt /\ [receipt[m] EXCEPT !.owner = NoOne, !.deferred = TRUE] \in Receipt
  BY DEF Receipt
<1> QED
  BY <1>1, <1>2 DEF Deferred

LEMMA ReconciledTyped ==
  ASSUME receipt \in [Messages -> Receipt], NEW seen
  PROVE  Reconciled(seen) \in [Messages -> Receipt]
<1>1. \A m \in Messages : [receipt[m] EXCEPT !.state = "rejected"] \in Receipt
  BY DEF Receipt, InputState
<1> QED
  BY <1>1 DEF Reconciled

LEMMA ReboundTyped ==
  ASSUME receipt \in [Messages -> Receipt], NEW m \in Messages, NEW w \in Workers
  PROVE  /\ Rebound(m, w) \in Receipt
         /\ [Rebound(m, w) EXCEPT !.state = "delivered"] \in Receipt
BY DEF Rebound, Receipt, InputState

LEMMA SettledTyped ==
  ASSUME receipt \in [Messages -> Receipt], NEW m \in Messages, NEW w \in Workers
  PROVE  Settled(w, m) \in InputState
BY DEF Settled, Receipt, InputState

LEMMA InitTyped == Init => InputTypeOK
<1> SUFFICES ASSUME Init PROVE InputTypeOK
  OBVIOUS
<1>1. Unknown \in Receipt
  BY DEF Unknown, Receipt, InputState
<1>2. [Unknown EXCEPT !.state = "accepted", !.at = 1, !.deferred = TRUE] \in Receipt
  BY DEF Unknown, Receipt, InputState
<1>3. receipt \in [Messages -> Receipt]
  BY <1>1, <1>2 DEF Init
<1>4. session \in SessionRecord
  <2>1. [Launched EXCEPT !.forInput = TRUE] \in SessionRecord
    BY DEF Launched, SessionRecord, SessionStatuses
  <2> QED
    BY <2>1, LaunchedTyped DEF Init
<1>5. Processes
  <2>1. /\ lock = NoOne /\ worker = [w \in Workers |-> Unborn]
        /\ client = [c \in Clients |-> Idle]
    BY DEF Init
  <2>2. Unborn.pc \notin WorkerCritical /\ Idle.pc \notin ClientCritical
    BY IdleTyped DEF Unborn
  <2>3. NoOne \notin Workers \cup Clients
    BY InputAssumption
  <2>4. /\ worker \in [Workers -> WorkerState] /\ \A w \in Workers : worker[w].pc = Unborn.pc
        /\ client \in [Clients -> ClientState] /\ \A c \in Clients : client[c].pc = Idle.pc
    BY <2>1, IdleTyped, UnbornTyped
  <2> QED
    BY <2>1, <2>2, <2>3, <2>4 DEF Processes
<1> QED
  BY InputAssumption, <1>3, <1>4, <1>5, Typed DEF Init

LEMMA SessionStepTyped ==
  ASSUME InputTypeOK, Next
  PROVE  session' \in SessionRecord
<1> session \in SessionRecord /\ session.attempt \in Nat
  BY DEF InputTypeOK, SessionRecord
<1>1. CASE UNCHANGED session
  BY <1>1
<1>2. ASSUME NEW s \in SessionStatuses, NEW l \in Workers \cup {NoOne},
             NEW k \in BOOLEAN, NEW t \in BOOLEAN
      PROVE  /\ [session EXCEPT !.status = s] \in SessionRecord
             /\ [session EXCEPT !.status = s, !.lease = l] \in SessionRecord
             /\ [session EXCEPT !.pid = k] \in SessionRecord
             /\ [session EXCEPT !.status = s, !.cancelled = k] \in SessionRecord
             /\ [session EXCEPT !.status = s, !.lease = l, !.stuck = t] \in SessionRecord
             /\ [[session EXCEPT !.status = s, !.lease = l, !.stuck = t]
                   EXCEPT !.stuck = k] \in SessionRecord
  BY DEF SessionRecord
<1>3. ASSUME NEW c \in Clients, NEW m \in Messages, SubmitOrphan(c, m)
      PROVE  session' \in SessionRecord
  BY <1>2, <1>3 DEF SubmitOrphan, SessionStatuses
<1>4. ASSUME NEW c \in Clients, Start(c)
      PROVE  session' \in SessionRecord
  <2>1. [session EXCEPT !.status = "STARTING", !.pid = FALSE, !.forInput = TRUE,
                        !.cancelled = FALSE, !.stuck = FALSE] \in SessionRecord
    BY DEF SessionRecord, SessionStatuses
  <2> QED
    BY <1>4, <2>1 DEF Start
<1>5. ASSUME NEW c \in Clients, Cancel(c) \/ Cancelled(c)
      PROVE  session' \in SessionRecord
  BY <1>2, <1>5 DEF Cancel, Cancelled, Update, SessionStatuses
<1>6. CASE RecordPid \/ Delete \/ RestoreDeleted \/ MarkOrphaned
  BY <1>2, <1>6 DEF RecordPid, Delete, RestoreDeleted, MarkOrphaned, Update, SessionStatuses
<1>7. ASSUME NEW w \in Workers, Claim(w) \/ LaunchFails(w)
      PROVE  session' \in SessionRecord
  <2>1. [session EXCEPT !.status = "RUNNING", !.lease = w, !.pid = TRUE, !.attempt = @ + 1,
                        !.cancelled = FALSE, !.stuck = FALSE] \in SessionRecord
    <3>1. session.attempt + 1 \in Nat /\ "RUNNING" \in SessionStatuses /\ w \in Workers \cup {NoOne}
      BY DEF SessionStatuses
    <3> QED
      BY <3>1 DEF SessionRecord
  <2> QED
    BY <1>2, <1>7, <2>1 DEF Claim, LaunchFails, SessionStatuses
<1>8. ASSUME NEW w \in Workers, Finalize(w)
      PROVE  session' \in SessionRecord
  <2>1. worker[w].out \in Outcome /\ worker[w].stuck \in BOOLEAN
    BY DEF InputTypeOK, WorkerState
  <2> QED
    BY <1>2, <1>8, <2>1 DEF Finalize, SessionStatuses, Outcome
<1>9. ASSUME NEW c \in Clients, NEW m \in Messages,
             SubmitLive(c, m) \/ SubmitDeferred(c, m) \/ View(c) \/ Maintain(c)
      PROVE  UNCHANGED session
  BY <1>9 DEF SubmitLive, SubmitDeferred, View, Maintain
<1>10. ASSUME NEW c \in Clients,
             View(c) \/ Maintain(c) \/ Enqueue(c) \/ EnqueueAppend(c) \/ Defer(c)
               \/ DeferAppend(c) \/ Rearm(c) \/ RearmAppend(c) \/ Receipts(c)
      PROVE  UNCHANGED session
  BY <1>10 DEF View, Maintain, Enqueue, EnqueueAppend, Defer, DeferAppend, Rearm, RearmAppend,
               Receipts
<1>11. ASSUME NEW w \in Workers,
              Acquire(w) \/ Plan(w) \/ Planned(w) \/ Route(w) \/ RouteAppend(w)
                \/ Assess(w) \/ Wait(w) \/ WaitAppend(w) \/ CommandEnds(w) \/ ClaimNext(w)
       PROVE  UNCHANGED session
  BY <1>11 DEF Acquire, Plan, Planned, Route, RouteAppend, Assess, Wait, WaitAppend, CommandEnds,
               ClaimNext
<1>12. ASSUME NEW w \in Workers,
              Rebind(w) \/ Deliver(w) \/ TurnEnds(w) \/ Settle(w) \/ Sweep(w)
                \/ CommandRejected(w) \/ TurnFails(w) \/ Interrupt(w) \/ WorkerDies(w)
       PROVE  UNCHANGED session
  BY <1>12 DEF Rebind, Deliver, TurnEnds, Settle, Sweep, CommandRejected, TurnFails, Interrupt,
               WorkerDies
<1> QED
  BY <1>1, <1>3, <1>4, <1>5, <1>6, <1>7, <1>8, <1>9, <1>10, <1>11, <1>12
     DEF Next, InCall, InWorker

LEMMA ReceiptStepTyped ==
  ASSUME InputTypeOK, IsFiniteSet(Known), Next
  PROVE  receipt' \in [Messages -> Receipt]
<1> /\ receipt \in [Messages -> Receipt] /\ worker \in [Workers -> WorkerState]
    /\ client \in [Clients -> ClientState]
  BY DEF InputTypeOK
<1>1. CASE UNCHANGED receipt
  BY <1>1
<1>2. ASSUME NEW m, NEW s \in InputState, receipt' = [receipt EXCEPT ![m].state = s]
      PROVE  receipt' \in [Messages -> Receipt]
  <2>1. m \in Messages => [receipt[m] EXCEPT !.state = s] \in Receipt
    BY DEF Receipt
  <2> QED
    BY <1>2, <2>1
<1>3. ASSUME NEW c \in Clients, EnqueueAppend(c)
      PROVE  receipt' \in [Messages -> Receipt]
  <2>1. client[c].seen.lease \in Workers \cup {NoOne}
    BY DEF ClientState, SessionRecord
  <2> QED
    BY <1>3, <2>1, AcceptedTyped DEF EnqueueAppend
<1>4. ASSUME NEW c \in Clients, DeferAppend(c)
      PROVE  receipt' \in [Messages -> Receipt]
  <2>1. client[c].item \in Messages => Deferred(client[c].item) \in Receipt
    BY DeferredTyped
  <2> QED
    BY <1>4, <2>1 DEF DeferAppend
<1>5. ASSUME NEW c \in Clients, RearmAppend(c)
      PROVE  receipt' \in [Messages -> Receipt]
  <2>1. \A m \in Messages : [receipt[m] EXCEPT !.waiting = FALSE] \in Receipt
    BY DEF Receipt
  <2> QED
    BY <1>5, <2>1 DEF RearmAppend
<1>6. ASSUME NEW c \in Clients, Receipts(c)
      PROVE  receipt' \in [Messages -> Receipt]
  BY <1>6, ReconciledTyped DEF Receipts
<1>7. ASSUME NEW w \in Workers, Planned(w) \/ Sweep(w)
      PROVE  receipt' \in [Messages -> Receipt]
  BY <1>7, ReconciledTyped DEF Planned, Sweep
<1>8. ASSUME NEW w \in Workers, RouteAppend(w)
      PROVE  receipt' \in [Messages -> Receipt]
  BY <1>8, ReboundTyped DEF RouteAppend
<1>9. ASSUME NEW w \in Workers, WaitAppend(w)
      PROVE  receipt' \in [Messages -> Receipt]
  <2>1. \A m \in Messages :
          [receipt[m] EXCEPT !.owner = NoOne, !.deferred = TRUE, !.waiting = TRUE] \in Receipt
    BY DEF Receipt
  <2> QED
    BY <1>9, <2>1 DEF WaitAppend
<1>10. ASSUME NEW w \in Workers, Rebind(w)
       PROVE  receipt' \in [Messages -> Receipt]
  <2> DEFINE next == Oldest(For(w))
  <2>1. \/ UNCHANGED receipt
        \/ receipt' = [receipt EXCEPT ![next] = Rebound(next, w)]
    BY <1>10 DEF Rebind
  <2>2. next \in Messages => Rebound(next, w) \in Receipt
    BY ReboundTyped
  <2> QED
    BY <1>1, <2>1, <2>2
<1>11. ASSUME NEW w \in Workers, Deliver(w) \/ CommandRejected(w)
       PROVE  receipt' \in [Messages -> Receipt]
  BY <1>1, <1>2, <1>11 DEF Deliver, CommandRejected, InputState
<1>12. ASSUME NEW w \in Workers, Settle(w)
       PROVE  receipt' \in [Messages -> Receipt]
  <2>1. \A m \in Messages : [receipt[m] EXCEPT !.state = Settled(w, m)] \in Receipt
    BY SettledTyped DEF Receipt
  <2> QED
    BY <1>12, <2>1 DEF Settle
<1>13. ASSUME NEW c \in Clients, NEW m \in Messages,
              SubmitLive(c, m) \/ SubmitDeferred(c, m) \/ SubmitOrphan(c, m)
       PROVE  UNCHANGED receipt
  BY <1>13 DEF SubmitLive, SubmitDeferred, SubmitOrphan, Submit
<1>14. ASSUME NEW c \in Clients,
              View(c) \/ Maintain(c) \/ Cancel(c) \/ Cancelled(c) \/ Enqueue(c) \/ Defer(c)
                \/ Rearm(c) \/ Start(c)
       PROVE  UNCHANGED receipt
  BY <1>14 DEF View, Maintain, Cancel, Cancelled, Update, Enqueue, Defer, Rearm, Start
<1>15. CASE RecordPid \/ Delete \/ RestoreDeleted \/ MarkOrphaned
  BY <1>1, <1>15 DEF RecordPid, Delete, RestoreDeleted, MarkOrphaned, Update
<1>16. ASSUME NEW w \in Workers,
              Claim(w) \/ LaunchFails(w) \/ Acquire(w) \/ Plan(w) \/ Route(w) \/ Assess(w)
                \/ Wait(w) \/ CommandEnds(w) \/ ClaimNext(w) \/ TurnEnds(w)
       PROVE  UNCHANGED receipt
  BY <1>16 DEF Claim, LaunchFails, Acquire, Plan, Route, Assess, Wait, CommandEnds, ClaimNext,
               TurnEnds
<1>17. ASSUME NEW w \in Workers,
              TurnFails(w) \/ Interrupt(w) \/ Finalize(w) \/ WorkerDies(w)
       PROVE  UNCHANGED receipt
  BY <1>17 DEF TurnFails, Interrupt, Finalize, WorkerDies
<1> QED
  BY <1>1, <1>3, <1>4, <1>5, <1>6, <1>7, <1>8, <1>9, <1>10, <1>11, <1>12, <1>13, <1>14, <1>15,
     <1>16, <1>17 DEF Next, InCall, InWorker

LEMMA ClientStepTyped ==
  ASSUME InputTypeOK, NEW c \in Clients,
         ClientStep(c)
  PROVE  Processes'
<1> /\ Processes /\ session \in SessionRecord /\ client \in [Clients -> ClientState]
    /\ client[c] \in ClientState /\ client[c].seen \in SessionRecord
    /\ Glance \in SessionRecord /\ Look \in SessionRecord
  BY Typed, ReadsTyped DEF Processes, ClientState
<1> DEFINE At0(pc, seen) == [client[c] EXCEPT !.pc = pc, !.seen = seen]
           At1(pc, seen) == [client[c] EXCEPT !.pc = pc, !.maintains = TRUE, !.seen = seen]
           At2(pc) == [client[c] EXCEPT !.pc = pc]
<1>1. \A pc \in ClientPC, seen \in SessionRecord :
        /\ At0(pc, seen) \in ClientState /\ At0(pc, seen).pc = pc
        /\ At1(pc, seen) \in ClientState /\ At1(pc, seen).pc = pc
        /\ At2(pc) \in ClientState /\ At2(pc).pc = pc
  BY DEF ClientState
<1> HIDE DEF At0, At1, At2
<1>2. ASSUME NEW m \in Messages, NEW pc \in {"enqueue", "defer"}, NEW seen \in SessionRecord,
             Submit(c, m, pc, seen)
      PROVE  Processes'
  <2>1. pc \in ClientPC /\ client[c].pc = "idle"
    BY <1>2 DEF Submit, Starts, At, ClientPC
  <2> DEFINE r == [Idle EXCEPT !.pc = pc, !.item = m, !.seen = seen]
  <2>2. r \in ClientState /\ r.pc = pc
    BY <2>1, SubmittedTyped
  <2>3. client' = [client EXCEPT ![c] = r] /\ UNCHANGED <<lock, worker>>
    BY <1>2 DEF Submit
  <2> HIDE DEF r
  <2> QED
    BY <2>1, <2>2, <2>3, ClientIdles
<1>3. ASSUME NEW m \in Messages,
             SubmitLive(c, m) \/ SubmitDeferred(c, m) \/ SubmitOrphan(c, m)
      PROVE  Processes'
  <2>1. [Look EXCEPT !.status = "FAILED"] \in SessionRecord
    BY DEF SessionRecord, SessionStatuses
  <2> QED
    BY <1>2, <1>3, <2>1 DEF SubmitLive, SubmitDeferred, SubmitOrphan
<1>4. CASE View(c) \/ Maintain(c)
  <2>1. [session EXCEPT !.pid = FALSE] \in SessionRecord
    BY DEF SessionRecord
  <2>2. \/ client' = [client EXCEPT ![c] = At0("receipts", Glance)]
        \/ client' = [client EXCEPT ![c] = At1("receipts", [session EXCEPT !.pid = FALSE])]
    BY <1>4 DEF View, Maintain, At0, At1
  <2>3. client[c].pc = "idle" /\ UNCHANGED <<lock, worker>> /\ "receipts" \in ClientPC
    BY <1>4 DEF View, Maintain, Starts, At, ClientPC
  <2> QED
    BY <1>1, <2>1, <2>2, <2>3, ClientIdles
<1>5. CASE Cancel(c) \/ Cancelled(c)
  <2>1. /\ client[c].pc \in {"idle", "cancelled"} /\ UNCHANGED <<lock, worker>>
        /\ \/ client' = [client EXCEPT ![c] = At2("cancelled")]
           \/ client' = [client EXCEPT ![c] = Idle]
    BY <1>5 DEF Cancel, Cancelled, Starts, At, Update, Goto, Return, At2
  <2>2. "cancelled" \in ClientPC
    BY DEF ClientPC
  <2>3. CASE client' = [client EXCEPT ![c] = At2("cancelled")]
    BY <1>1, <2>1, <2>2, <2>3, ClientIdles
  <2> QED
    BY <2>1, <2>3, IdleTyped, ClientIdles
<1>6. CASE Start(c)
  <2>1. client[c].pc = "start" /\ UNCHANGED <<lock, worker>> /\ client' = [client EXCEPT ![c] = Idle]
    BY <1>6 DEF Start, At, Return
  <2> QED
    BY <2>1, IdleTyped, ClientIdles
<1>7. CASE Enqueue(c) \/ Defer(c) \/ Rearm(c)
  <2>1. client[c].pc \in {"enqueue", "defer", "rearm"} /\ UNCHANGED worker
    BY <1>7 DEF Enqueue, Defer, Rearm, At
  <2>2. \/ client' = [client EXCEPT ![c] = Idle] /\ UNCHANGED lock
        \/ /\ Take(c)
           /\ \/ client' = [client EXCEPT ![c] = At2("enqueueAppend")]
              \/ client' = [client EXCEPT ![c] = At2("deferAppend")]
              \/ client' = [client EXCEPT ![c] = At0("rearmAppend", Look)]
    BY <1>7 DEF Enqueue, Defer, Rearm, Return, Goto, GotoSeen, At2, At0
  <2>3. {"enqueueAppend", "deferAppend", "rearmAppend"} \subseteq ClientPC
    BY DEF ClientPC
  <2>4. CASE client' = [client EXCEPT ![c] = Idle] /\ UNCHANGED lock
    BY <2>1, <2>4, IdleTyped, ClientIdles
  <2> QED
    BY <1>1, <2>1, <2>2, <2>3, <2>4, ClientTakes
<1>8. CASE EnqueueAppend(c) \/ DeferAppend(c) \/ RearmAppend(c)
  <2>1. /\ client[c].pc \in ClientCritical /\ UNCHANGED worker /\ Unlock
        /\ \/ client' = [client EXCEPT ![c] = Idle]
           \/ client' = [client EXCEPT ![c] = At2("rearm")]
           \/ client' = [client EXCEPT ![c] = At2("start")]
    BY <1>8 DEF EnqueueAppend, DeferAppend, RearmAppend, At, Return, Goto, At2
  <2>2. {"rearm", "start"} \subseteq ClientPC
    BY DEF ClientPC
  <2>3. CASE client' = [client EXCEPT ![c] = Idle]
    BY <2>1, <2>3, IdleTyped, ClientUnlocks
  <2> QED
    BY <1>1, <2>1, <2>2, <2>3, ClientUnlocks
<1>9. CASE Receipts(c)
  <2> DEFINE r == [client[c] EXCEPT !.pc = "rearm", !.maintains = FALSE,
                                    !.seen.forInput = FALSE, !.seen.stuck = FALSE]
  <2>1. [client[c].seen EXCEPT !.forInput = FALSE, !.stuck = FALSE] \in SessionRecord
    BY DEF SessionRecord
  <2>2. r \in ClientState /\ r.pc = "rearm"
    BY <2>1 DEF ClientState, ClientPC, SessionRecord
  <2>3. /\ client[c].pc = "receipts" /\ UNCHANGED <<lock, worker>>
        /\ client' = [client EXCEPT ![c] = Idle] \/ client' = [client EXCEPT ![c] = r]
    BY <1>9 DEF Receipts, At, Return
  <2>4. CASE client' = [client EXCEPT ![c] = Idle]
    BY <2>3, <2>4, IdleTyped, ClientIdles
  <2> HIDE DEF r
  <2> QED
    BY <2>2, <2>3, <2>4, ClientIdles
<1> QED
  BY <1>3, <1>4, <1>5, <1>6, <1>7, <1>8, <1>9 DEF ClientStep, InCall

LEMMA WorkerStepTyped ==
  ASSUME InputTypeOK, NEW w \in Workers,
         Finds(w),
         WorkerStep(w)
  PROVE  Processes'
<1> /\ Processes /\ session \in SessionRecord /\ worker \in [Workers -> WorkerState]
    /\ worker[w] \in WorkerState /\ receipt \in [Messages -> Receipt]
    /\ Glance \in SessionRecord
  BY Typed, ReadsTyped DEF Processes
<1> DEFINE At0(pc) == [worker[w] EXCEPT !.pc = pc]
<1>1. \A pc \in WorkerPC : At0(pc) \in WorkerState /\ At0(pc).pc = pc
  BY DEF WorkerState
<1>2. /\ At0("acquire") \in WorkerState /\ At0("acquire").pc = "acquire"
      /\ At0("gone") \in WorkerState /\ At0("gone").pc = "gone"
      /\ At0("plan") \in WorkerState /\ At0("plan").pc = "plan"
      /\ At0("routeAppend") \in WorkerState /\ At0("routeAppend").pc = "routeAppend"
      /\ At0("waitAppend") \in WorkerState /\ At0("waitAppend").pc = "waitAppend"
      /\ At0("deliver") \in WorkerState /\ At0("deliver").pc = "deliver"
  BY <1>1 DEF WorkerPC
<1>3. ASSUME NEW o \in Outcome, Ends(w, o), UNCHANGED <<lock, client>>,
             worker[w].pc \notin WorkerCritical
      PROVE  Processes'
  BY <1>3, EndsTyped, WorkerIdles
<1>4. ASSUME NEW o \in Outcome, Ends(w, o), Unlock, UNCHANGED client,
             worker[w].pc \in WorkerCritical
      PROVE  Processes'
  BY <1>4, EndsTyped, WorkerUnlocks
<1>5. {"NONE", "FAILED", "COMPLETED"} \subseteq Outcome
  BY DEF Outcome
<1>6. CASE Claim(w) \/ LaunchFails(w)
  <2>1. worker[w].pc = "unborn" /\ UNCHANGED <<lock, client>>
    BY <1>6 DEF Claim, LaunchFails, WAt
  <2>2. \/ worker' = [worker EXCEPT ![w] = At0("acquire")]
        \/ worker' = [worker EXCEPT ![w] = At0("gone")]
    BY <1>6 DEF Claim, LaunchFails, WGoto
  <2> HIDE DEF At0
  <2> QED
    BY <1>2, <2>1, <2>2, WorkerIdles
<1>7. CASE Acquire(w)
  <2> DEFINE r == [worker[w] EXCEPT !.pc = "finalize", !.out = "FAILED"]
  <2>1. r \in WorkerState /\ r.pc = "finalize"
    BY <1>5 DEF WorkerState, WorkerPC
  <2>2. worker[w].pc = "acquire" /\ UNCHANGED <<lock, client>>
    BY <1>7 DEF Acquire, WAt
  <2>3. worker' = [worker EXCEPT ![w] = r] \/ worker' = [worker EXCEPT ![w] = At0("plan")]
    BY <1>7 DEF Acquire, WGoto
  <2> HIDE DEF r, At0
  <2> QED
    BY <1>2, <2>1, <2>2, <2>3, WorkerIdles
<1>8. CASE Plan(w)
  <2> DEFINE r == [worker[w] EXCEPT !.pc = "planned", !.seen = Glance]
  <2>1. r \in WorkerState /\ r.pc = "planned"
    BY DEF WorkerState, WorkerPC
  <2>2. worker[w].pc = "plan" /\ UNCHANGED <<lock, client>>
    BY <1>8 DEF Plan, WAt
  <2>3. worker' = [worker EXCEPT ![w] = r] \/ Ends(w, "FAILED")
    BY <1>8 DEF Plan
  <2> HIDE DEF r
  <2> QED
    BY <1>3, <1>5, <2>1, <2>2, <2>3, WorkerIdles
<1>9. CASE Planned(w)
  <2>1. PICK due \in SUBSET Messages, todo \in SUBSET Messages :
          \/ worker' = [worker EXCEPT ![w] =
                          Serve([worker[w] EXCEPT !.due = due, !.seen = Launched])]
          \/ worker' = [worker EXCEPT ![w] =
                          [[worker[w] EXCEPT !.due = due, !.seen = Launched]
                             EXCEPT !.pc = "route", !.phase = "route", !.todo = todo]]
    <3>1. {m \in Controls : receipt'[m].state = "accepted"} \in SUBSET Messages
      BY InputAssumption
    <3> QED
      BY <1>9, <3>1 DEF Planned
  <2> DEFINE local == [worker[w] EXCEPT !.due = due, !.seen = Launched]
             r == [local EXCEPT !.pc = "route", !.phase = "route", !.todo = todo]
  <2>2. local \in WorkerState
    BY LaunchedTyped DEF WorkerState
  <2>3. r \in WorkerState /\ r.pc = "route"
    BY <2>2 DEF WorkerState, WorkerPC
  <2>4. Serve(local) \in WorkerState /\ Serve(local).pc \in {"drain", "turn"}
    BY <2>2, ServeTyped
  <2>5. worker[w].pc = "planned" /\ UNCHANGED <<lock, client>>
    BY <1>9 DEF Planned, WAt
  <2>6. worker' = [worker EXCEPT ![w] = r] \/ worker' = [worker EXCEPT ![w] = Serve(local)]
    BY <2>1
  <2> HIDE DEF r, local
  <2> QED
    BY <2>3, <2>4, <2>5, <2>6, WorkerIdles
<1>10. CASE Route(w) \/ Wait(w)
  <2>1. /\ worker[w].pc \in {"route", "wait"} /\ UNCHANGED client
        /\ \/ Ends(w, "FAILED") /\ UNCHANGED lock
           \/ worker' = [worker EXCEPT ![w] = At0("routeAppend")] /\ Take(w)
           \/ worker' = [worker EXCEPT ![w] = At0("waitAppend")] /\ Take(w)
    BY <1>10 DEF Route, Wait, WAt, WGoto
  <2>2. CASE Ends(w, "FAILED") /\ UNCHANGED lock
    BY <1>3, <1>5, <2>1, <2>2
  <2> HIDE DEF At0
  <2> QED
    BY <1>2, <2>1, <2>2, WorkerTakes
<1>11. CASE RouteAppend(w)
  <2> DEFINE m == Oldest(worker[w].todo)
             r == [worker[w] EXCEPT !.pc = "command", !.item = m, !.todo = @ \ {m},
                                    !.delivered = @ \cup {m}]
             s == [worker[w] EXCEPT !.pc = "route", !.todo = @ \ {m}]
  <2>1. m \in For(w) => m \in Messages
    BY DEF For, Pending
  <2>2. m \in Messages => r \in WorkerState /\ r.pc = "command"
    BY DEF WorkerState, WorkerPC, Turns
  <2>3. s \in WorkerState /\ s.pc = "route"
    BY DEF WorkerState, WorkerPC
  <2>4. worker[w].pc = "routeAppend" /\ Unlock /\ UNCHANGED client
    BY <1>11 DEF RouteAppend, WAt
  <2>5. \/ m \in For(w) /\ worker' = [worker EXCEPT ![w] = r]
        \/ worker' = [worker EXCEPT ![w] = s]
    BY <1>11 DEF RouteAppend
  <2> HIDE DEF m, r, s
  <2> QED
    BY <2>1, <2>2, <2>3, <2>4, <2>5, WorkerUnlocks
<1>12. CASE Assess(w)
  <2> DEFINE r == [worker[w] EXCEPT !.pc = "wait", !.stuck = TRUE]
             t == [Turn(worker[w], "unfinished") EXCEPT !.phase = "resumed"]
  <2>1. r \in WorkerState /\ r.pc = "wait"
    BY DEF WorkerState, WorkerPC
  <2>2. /\ Turn(worker[w], "unfinished") \in WorkerState
        /\ Turn(worker[w], "unfinished").pc = "turn"
        /\ t \in WorkerState /\ t.pc = "turn"
    BY TurnTyped DEF Turns
  <2>3. worker[w].pc = "route" /\ UNCHANGED <<lock, client>>
    BY <1>12 DEF Assess, WAt
  <2>4. \/ worker' = [worker EXCEPT ![w] = Serve(worker[w])]
        \/ worker' = [worker EXCEPT ![w] = r]
        \/ worker' = [worker EXCEPT ![w] = Turn(worker[w], "unfinished")]
        \/ worker' = [worker EXCEPT ![w] = t]
    BY <1>12 DEF Assess
  <2>5. CASE worker' = [worker EXCEPT ![w] = Serve(worker[w])]
    BY <2>3, <2>5, ServeTyped, WorkerIdles
  <2> HIDE DEF r, t
  <2> QED
    BY <2>1, <2>2, <2>3, <2>4, <2>5, WorkerIdles
<1>13. CASE WaitAppend(w)
  <2>1. worker[w].pc = "waitAppend" /\ Unlock /\ UNCHANGED client /\ Ends(w, "FAILED")
    BY <1>13 DEF WaitAppend, WAt
  <2> QED
    BY <1>4, <1>5, <2>1
<1>14. CASE CommandEnds(w) \/ TurnEnds(w)
  <2>1. PICK r \in WorkerState : worker' = [worker EXCEPT ![w] = AfterItem(r)]
    <3>1. CASE CommandEnds(w)
      <4>1. PICK waits \in BOOLEAN :
              worker' = [worker EXCEPT ![w] = AfterItem([worker[w] EXCEPT
                           !.completed = @ \cup {worker[w].item}, !.idle = waits])]
        BY <3>1 DEF CommandEnds
      <4>2. worker[w].item \in Messages
        BY <3>1 DEF CommandEnds, WAt, Finds
      <4>3. [worker[w] EXCEPT !.completed = @ \cup {worker[w].item}, !.idle = waits]
              \in WorkerState
        BY <4>2 DEF WorkerState
      <4> QED
        BY <4>1, <4>3
    <3>2. CASE TurnEnds(w)
      <4> DEFINE m == worker[w].item
      <4>1. m \in Messages =>
              [worker[w] EXCEPT !.completed = @ \cup {m}, !.idle = FALSE] \in WorkerState
        BY DEF WorkerState
      <4>2. worker' = [worker EXCEPT ![w] = AfterItem(
              IF m \in Messages
              THEN [worker[w] EXCEPT !.completed = @ \cup {m}, !.idle = FALSE]
              ELSE worker[w])]
        BY <3>2 DEF TurnEnds
      <4> QED
        BY <4>1, <4>2
    <3> QED
      BY <1>14, <3>1, <3>2
  <2>2. worker[w].pc \in {"command", "turn"} /\ UNCHANGED <<lock, client>>
    BY <1>14 DEF CommandEnds, TurnEnds, WAt
  <2> QED
    BY <2>1, <2>2, AfterItemTyped, WorkerIdles
<1>15. CASE CommandRejected(w)
  <2> DEFINE r == [worker[w] EXCEPT !.delivered = @ \ {worker[w].item}, !.fatal = TRUE]
  <2>1. r \in WorkerState
    BY DEF WorkerState
  <2>2. worker[w].pc = "command" /\ UNCHANGED <<lock, client>>
    BY <1>15 DEF CommandRejected, WAt
  <2>3. Ends(w, "FAILED") \/ worker' = [worker EXCEPT ![w] = AfterItem(r)]
    BY <1>15 DEF CommandRejected
  <2>4. AfterItem(r) \in WorkerState /\ AfterItem(r).pc \in {"route", "drain"}
    BY <2>1, AfterItemTyped
  <2> HIDE DEF r
  <2> QED
    BY <1>3, <1>5, <2>2, <2>3, <2>4, WorkerIdles
<1>16. CASE TurnFails(w) \/ Interrupt(w)
  <2>1. /\ worker[w].pc \in {"turn", "command"} /\ UNCHANGED <<lock, client>>
        /\ Ends(w, "FAILED") \/ Ends(w, "NONE")
    BY <1>16 DEF TurnFails, Interrupt
  <2> QED
    BY <1>3, <1>5, <2>1
<1>17. CASE ClaimNext(w)
  <2> DEFINE r == [worker[w] EXCEPT !.pc = "rebind", !.inTurn = Bound(w)]
  <2>1. r \in WorkerState /\ r.pc = "rebind"
    BY DEF WorkerState, WorkerPC, Bound
  <2>2. worker[w].pc \in {"drain", "turn", "command"} /\ UNCHANGED client
    BY <1>17 DEF ClaimNext, WAt, Bound
  <2>3. \/ Take(w) /\ worker' = [worker EXCEPT ![w] = r]
        \/ Ends(w, "FAILED") /\ UNCHANGED lock
    BY <1>17 DEF ClaimNext
  <2> HIDE DEF r
  <2>4. CASE Ends(w, "FAILED") /\ UNCHANGED lock
    BY <1>3, <1>5, <2>2, <2>4
  <2> QED
    BY <2>1, <2>3, <2>4, <2>2, WorkerTakes
<1>18. CASE Rebind(w)
  <2> DEFINE r == [worker[w] EXCEPT !.pc = "drain", !.phase = "last", !.due = {}]
  <2>1. r \in WorkerState /\ r.pc = "drain"
    BY DEF WorkerState, WorkerPC
  <2>2. worker[w].pc = "rebind" /\ UNCHANGED client
    BY <1>18 DEF Rebind, WAt
  <2>3. \/ worker' = [worker EXCEPT ![w] = At0("deliver")] /\ UNCHANGED lock
        \/ Unlock /\ \/ worker' = [worker EXCEPT ![w] = Resume(worker[w])]
                     \/ worker' = [worker EXCEPT ![w] = r]
                     \/ Ends(w, "FAILED") \/ Ends(w, "COMPLETED")
    BY <1>18 DEF Rebind, WGoto, Drained
  <2>4. CASE worker' = [worker EXCEPT ![w] = At0("deliver")] /\ UNCHANGED lock
    <3> HIDE DEF At0
    <3> QED
      BY <1>2, <2>2, <2>4 DEF Processes
  <2>5. CASE Unlock /\ worker' = [worker EXCEPT ![w] = Resume(worker[w])]
    BY <2>2, <2>5, ResumeTyped, WorkerUnlocks
  <2>6. CASE Unlock /\ worker' = [worker EXCEPT ![w] = r]
    <3> HIDE DEF r
    <3> QED
      BY <2>1, <2>2, <2>6, WorkerUnlocks
  <2>7. CASE Unlock /\ (Ends(w, "FAILED") \/ Ends(w, "COMPLETED"))
    BY <1>4, <1>5, <2>2, <2>7
  <2> QED
    BY <2>3, <2>4, <2>5, <2>6, <2>7
<1>19. CASE Deliver(w)
  <2> DEFINE m == Oldest(For(w))
             r == [worker[w] EXCEPT !.delivered = @ \cup {m}]
  <2>1. worker' = [worker EXCEPT ![w] = TakeUp(r, m)]
    BY <1>19 DEF Deliver
  <2>2. worker[w].pc = "deliver" /\ Unlock /\ UNCHANGED client
    BY <1>19 DEF Deliver, WAt
  <2>3. m \in Messages
    BY <2>2 DEF Finds, For, Pending
  <2>4. r \in WorkerState
    BY <2>3 DEF WorkerState
  <2>5. TakeUp(r, m) \in WorkerState /\ TakeUp(r, m).pc \in {"command", "turn"}
    BY <2>3, <2>4, TakeUpTyped
  <2> HIDE DEF r, m
  <2> QED
    BY <2>1, <2>2, <2>5, WorkerUnlocks
<1>20. CASE Settle(w)
  <2> DEFINE r == [worker[w] EXCEPT !.pc = "sweep", !.completed = {}, !.seen = Glance]
             s == [worker[w] EXCEPT !.pc = "finalize", !.completed = {}]
  <2>1. r \in WorkerState /\ r.pc = "sweep" /\ s \in WorkerState /\ s.pc = "finalize"
    BY DEF WorkerState, WorkerPC
  <2>2. worker[w].pc = "settle" /\ UNCHANGED <<lock, client>>
    BY <1>20 DEF Settle, WAt
  <2>3. worker' = [worker EXCEPT ![w] = r] \/ worker' = [worker EXCEPT ![w] = s]
    BY <1>20 DEF Settle
  <2> HIDE DEF r, s
  <2> QED
    BY <2>1, <2>2, <2>3, WorkerIdles
<1>21. CASE Sweep(w)
  <2> DEFINE r == [worker[w] EXCEPT !.pc = "finalize", !.seen = Launched]
  <2>1. r \in WorkerState /\ r.pc = "finalize"
    BY LaunchedTyped DEF WorkerState, WorkerPC
  <2>2. worker[w].pc = "sweep" /\ UNCHANGED <<lock, client>>
    BY <1>21 DEF Sweep, WAt
  <2>3. worker' = [worker EXCEPT ![w] = r]
    BY <1>21 DEF Sweep
  <2> HIDE DEF r
  <2> QED
    BY <2>1, <2>2, <2>3, WorkerIdles
<1>22. CASE Finalize(w)
  <2>1. worker[w].pc = "finalize" /\ UNCHANGED <<lock, client>> /\ Gone(w)
    BY <1>22 DEF Finalize, WAt
  <2> QED
    BY <2>1, GoneTyped, WorkerIdles
<1>23. CASE WorkerDies(w)
  <2> DEFINE r == [Unborn EXCEPT !.pc = "gone", !.delivered = worker[w].delivered]
  <2>1. worker' = [worker EXCEPT ![w] = r] /\ r \in WorkerState /\ r.pc = "gone"
    BY <1>23, GoneTyped DEF WorkerDies
  <2>2. UNCHANGED client /\ lock' = IF lock = w THEN NoOne ELSE lock
    BY <1>23 DEF WorkerDies
  <2> HIDE DEF r
  <2> QED
    BY <2>1, <2>2, InputAssumption DEF Processes
<1> QED
  BY <1>6, <1>7, <1>8, <1>9, <1>10, <1>11, <1>12, <1>13, <1>14, <1>15, <1>16, <1>17, <1>18, <1>19,
     <1>20, <1>21, <1>22, <1>23 DEF WorkerStep, InWorker

LEMMA TypeStep ==
  ASSUME InputTypeOK, IsFiniteSet(Known), \A w \in Workers : Finds(w), [Next]_vars
  PROVE  InputTypeOK'
<1>1. CASE Next
  <2>1. session' \in SessionRecord /\ receipt' \in [Messages -> Receipt]
    BY <1>1, SessionStepTyped, ReceiptStepTyped
  <2>2. Processes'
    <3>1. CASE UNCHANGED <<lock, worker, client>>
      BY <3>1, Typed DEF Processes
    <3>2. ASSUME RecordStep PROVE UNCHANGED <<lock, worker, client>>
      BY <3>2, RecordFrame
    <3> QED
      BY <1>1, <3>1, <3>2, NextSteps, ClientStepTyped, WorkerStepTyped
  <2>3. calls' \in 0..MaxCalls
    <3>1. calls \in 0..MaxCalls /\ MaxCalls \in Nat
      BY InputAssumption DEF InputTypeOK
    <3>2. UNCHANGED calls \/ Counted
      <4>1. ASSUME NEW c \in Clients, NEW m \in Messages,
                   SubmitLive(c, m) \/ SubmitDeferred(c, m) \/ SubmitOrphan(c, m)
            PROVE  Counted
        BY <4>1 DEF SubmitLive, SubmitDeferred, SubmitOrphan, Submit
      <4>2. ASSUME NEW c \in Clients, View(c) \/ Maintain(c) \/ Cancel(c) \/ InCall(c)
            PROVE  UNCHANGED calls \/ Counted
        BY <4>2 DEF View, Maintain, Cancel, InCall, Enqueue, EnqueueAppend, Defer, DeferAppend,
                    Rearm, RearmAppend, Start, Receipts, Cancelled
      <4>3. ASSUME RecordPid \/ Delete \/ RestoreDeleted \/ MarkOrphaned
            PROVE  UNCHANGED calls \/ Counted
        BY <4>3 DEF RecordPid, Delete, RestoreDeleted, MarkOrphaned
      <4>4. ASSUME NEW w \in Workers, InWorker(w)
            PROVE  UNCHANGED calls
        BY <4>4 DEF InWorker, Acquire, Plan, Planned, Route, RouteAppend, Assess, Wait,
                    WaitAppend, CommandEnds, ClaimNext, Rebind, Deliver, TurnEnds, Settle,
                    Sweep, Finalize
      <4>5. ASSUME NEW w \in Workers,
                   Claim(w) \/ LaunchFails(w) \/ CommandRejected(w) \/ TurnFails(w)
                     \/ Interrupt(w) \/ WorkerDies(w)
            PROVE  UNCHANGED calls
        BY <4>5 DEF Claim, LaunchFails, CommandRejected, TurnFails, Interrupt, WorkerDies
      <4> QED
        BY <1>1, <4>1, <4>2, <4>3, <4>4, <4>5 DEF Next
    <3> QED
      BY <3>1, <3>2 DEF Counted
  <2> QED
    BY <2>1, <2>2, <2>3 DEF InputTypeOK, Processes
<1>2. CASE UNCHANGED vars
  BY <1>2 DEF vars, InputTypeOK
<1> QED
  BY <1>1, <1>2

-----------------------------------------------------------------------------
(* What one step makes of a message *)

Kept(m) ==
  /\ receipt'[m].state = receipt[m].state /\ receipt'[m].owner = receipt[m].owner
  /\ receipt'[m].deferred = receipt[m].deferred

(* A supervisor accepts it, for a worker or for the next one *)
Accepts(m) ==
  /\ receipt[m].state = "absent" /\ receipt'[m].state = "accepted"
  /\ receipt'[m].deferred => receipt'[m].owner = NoOne

(* It waits for the next worker, or the worker that has the lock binds it *)
Defers(m) ==
  /\ receipt[m].state = "accepted" /\ receipt'[m].state = "accepted"
  /\ receipt'[m].owner = NoOne /\ receipt'[m].deferred

Binds(m) ==
  /\ receipt[m].state = "accepted" /\ receipt'[m].state = "accepted"
  /\ ~receipt'[m].deferred
  /\ \E w \in Workers : worker[w].pc = "rebind"

(* A worker takes it, which has the lock for that *)
Delivers(m) ==
  /\ receipt[m].state = "accepted" /\ receipt'[m].state = "delivered"
  /\ receipt'[m].owner \in Workers /\ ~receipt'[m].deferred
  /\ m \in worker'[receipt'[m].owner].delivered
  /\ worker[receipt'[m].owner].pc \in {"routeAppend", "deliver"}

Completes(m) ==
  /\ receipt[m].state = "delivered" /\ receipt'[m].state \in {"completed", "failed"}
  /\ receipt'[m].owner = receipt[m].owner /\ receipt'[m].deferred = receipt[m].deferred

Rejects(m) ==
  /\ receipt[m].state \in {"accepted", "delivered"} /\ receipt'[m].state = "rejected"
  /\ receipt'[m].owner = receipt[m].owner /\ receipt'[m].deferred = receipt[m].deferred

Moves(m) ==
  Kept(m) \/ Defers(m) \/ Binds(m) \/ Delivers(m) \/ Completes(m) \/ Rejects(m)

(* The log has room for the message that a step accepts *)
AcceptsOne ==
  /\ ~Full
  /\ \E m \in Messages : Accepts(m) /\ \A n \in Messages \ {m} : Kept(n)

LogMoves == (\A m \in Messages : Moves(m)) \/ AcceptsOne

(* What a step adds to and removes from the messages that a worker took *)
Takes(w) ==
  /\ \A m \in worker'[w].delivered \ worker[w].delivered :
       Delivers(m) /\ receipt'[m].owner = w
  /\ \A m \in worker[w].delivered \ worker'[w].delivered :
       Rejects(m)

(* What the local steps of a worker keep *)
LEMMA AfterItemKeeps ==
  ASSUME NEW r \in WorkerState
  PROVE  /\ AfterItem(r).delivered = r.delivered /\ AfterItem(r).due = r.due
         /\ AfterItem(r).phase = r.phase /\ AfterItem(r).item = NoOne
         /\ AfterItem(r).pc = "route" => r.phase \in {"route", "resumed"}
BY DEF AfterItem, WorkerState

LEMMA ResumeKeeps ==
  ASSUME NEW r \in WorkerState
  PROVE  /\ Resume(r).delivered = r.delivered /\ Resume(r).due = r.due
         /\ Resume(r).phase = r.phase /\ Resume(r).item = r.item
         /\ Resume(r).pc = "command" => r.item \in Messages
BY InputAssumption DEF Resume, WorkerState

LEMMA TakeUpKeeps ==
  ASSUME NEW r \in WorkerState, NEW m \in Messages
  PROVE  /\ TakeUp(r, m).delivered = r.delivered /\ TakeUp(r, m).due = r.due
         /\ TakeUp(r, m).phase = r.phase /\ TakeUp(r, m).item \in {r.item, m}
         /\ TakeUp(r, m).pc = "command" => TakeUp(r, m).item \in Messages
<1>1. Resume(r) \in WorkerState
  BY ResumeTyped
<1>2. ASSUME NEW s \in WorkerState
      PROVE  LET t == [s EXCEPT !.idle = TRUE, !.completed = @ \cup {m}]
             IN /\ t.delivered = s.delivered /\ t.due = s.due /\ t.phase = s.phase
                /\ t.item = s.item /\ t.pc = s.pc
  BY DEF WorkerState
<1>3. CASE r.inTurn
  BY <1>1, <1>2, <1>3, ResumeKeeps DEF TakeUp
<1>4. CASE ~r.inTurn
  BY <1>4 DEF TakeUp, WorkerState
<1> QED
  BY <1>3, <1>4 DEF WorkerState

LEMMA ServeKeeps ==
  ASSUME NEW r \in WorkerState
  PROVE  /\ Serve(r).delivered = r.delivered /\ Serve(r).due = r.due
         /\ Serve(r).phase \in {"first", "last"}
         /\ Serve(r).item # r.item => Serve(r).item = "intent" /\ r.due = {}
BY DEF Serve, Turn, WorkerState

LEMMA EndsKeeps ==
  ASSUME NEW w \in Workers, NEW o \in Outcome, worker \in [Workers -> WorkerState],
         Ends(w, o)
  PROVE  /\ worker'[w].pc = "settle" /\ worker'[w].phase = "last"
         /\ worker'[w].delivered = worker[w].delivered /\ worker'[w].item = NoOne
         /\ \A v \in Workers \ {w} : worker'[v] = worker[v]
<1>1. worker' = [worker EXCEPT ![w] = Ended(worker[w], o)]
  BY EndsTyped
<1> QED
  BY <1>1 DEF Ended, Unborn

LEMMA GoneKeeps ==
  ASSUME NEW w \in Workers, worker \in [Workers -> WorkerState], Gone(w)
  PROVE  /\ worker'[w].pc = "gone" /\ worker'[w].phase = "last"
         /\ worker'[w].delivered = worker[w].delivered /\ worker'[w].item = NoOne
         /\ \A v \in Workers \ {w} : worker'[v] = worker[v]
BY DEF Gone, Unborn

LEMMA ReconciledMoves ==
  ASSUME receipt \in [Messages -> Receipt], NEW seen, receipt' = Reconciled(seen)
  PROVE  \A m \in Messages :
           /\ Kept(m) \/ Rejects(m)
           /\ receipt[m].deferred /\ receipt[m].state # "rejected" =>
                receipt'[m].state # "rejected" \/ seen.status = "DELETED"
BY DEF Reconciled, Kept, Rejects, Receipt

LEMMA UnchangedMoves ==
  ASSUME UNCHANGED receipt
  PROVE  \A m \in Messages : Moves(m)
BY DEF Moves, Kept

LEMMA ClientMoves ==
  ASSUME InputTypeOK, NEW c \in Clients, Knows(c),
         ClientStep(c)
  PROVE  LogMoves
<1> /\ receipt \in [Messages -> Receipt] /\ client[c] \in ClientState
  BY DEF InputTypeOK
<1>1. CASE EnqueueAppend(c)
  <2>1. client[c].item \in Messages \ Known /\ client[c].seen.lease # NoOne /\ ~Full
    BY <1>1 DEF Knows, Intends, EnqueueAppend, At
  <2>2. receipt[client[c].item].state = "absent"
    BY <2>1 DEF Known
  <2>3. \A m \in Messages \ {client[c].item} : Kept(m)
    BY <1>1 DEF EnqueueAppend, Kept
  <2>4. Accepts(client[c].item)
    BY <1>1, <2>1, <2>2 DEF EnqueueAppend, Accepts, Accepted
  <2> QED
    BY <2>1, <2>3, <2>4 DEF LogMoves, AcceptsOne
<1>2. CASE DeferAppend(c)
  <2>1. PICK m \in Messages : m = client[c].item
    BY <1>2 DEF Knows, Intends, DeferAppend, At
  <2>2. \A n \in Messages \ {m} : Kept(n)
    BY <1>2, <2>1 DEF DeferAppend, Kept
  <2>3. receipt'[m] = Deferred(m) /\ receipt[m] \in Receipt
    BY <1>2, <2>1 DEF DeferAppend
  <2>4. ASSUME m \notin Known PROVE Accepts(m) /\ ~Full
    <3>1. receipt'[m] = Accepted(NoOne)
      BY <2>3, <2>4 DEF Deferred, Known, Pending
    <3> QED
      BY <1>2, <2>1, <2>4, <3>1 DEF Accepted, Accepts, Known, DeferAppend, At, Knows
  <2>5. ASSUME m \in Pending PROVE Moves(m)
    <3>1. receipt[m].state = "accepted" /\ m \in Known
      BY <2>5 DEF Pending, Known
    <3>2. receipt'[m] = [receipt[m] EXCEPT !.owner = NoOne, !.deferred = TRUE]
      BY <2>3, <2>5, <3>1 DEF Deferred
    <3>3. Defers(m)
      BY <2>3, <3>1, <3>2 DEF Defers, Receipt
    <3> QED
      BY <3>3 DEF Moves
  <2>6. ASSUME m \in Known /\ m \notin Pending PROVE Moves(m)
    <3>1. receipt'[m] = receipt[m]
      BY <2>3, <2>6 DEF Deferred
    <3> QED
      BY <3>1 DEF Kept, Moves
  <2> QED
    BY <2>2, <2>4, <2>5, <2>6 DEF Moves, LogMoves, AcceptsOne
<1>3. CASE RearmAppend(c)
  <2> SUFFICES ASSUME NEW m \in Messages PROVE Kept(m)
    BY DEF Moves, LogMoves
  <2>1. receipt'[m] \in {[receipt[m] EXCEPT !.waiting = FALSE], receipt[m]}
    BY <1>3 DEF RearmAppend
  <2> QED
    BY <2>1 DEF Kept, Receipt
<1>4. CASE Receipts(c)
  BY <1>4, ReconciledMoves DEF Receipts, Moves, LogMoves
<1>5. ASSUME NEW m \in Messages,
             SubmitLive(c, m) \/ SubmitDeferred(c, m) \/ SubmitOrphan(c, m)
      PROVE  UNCHANGED receipt
  BY <1>5 DEF SubmitLive, SubmitDeferred, SubmitOrphan, Submit
<1>6. CASE View(c) \/ Maintain(c) \/ Cancel(c) \/ Cancelled(c) \/ Enqueue(c) \/ Defer(c)
             \/ Rearm(c) \/ Start(c)
  <2>1. UNCHANGED receipt
    BY <1>6 DEF View, Maintain, Cancel, Cancelled, Update, Enqueue, Defer, Rearm, Start
  <2> QED
    BY <2>1, UnchangedMoves DEF LogMoves
<1> QED
  BY <1>1, <1>2, <1>3, <1>4, <1>5, <1>6, UnchangedMoves
     DEF ClientStep, InCall, LogMoves

LEMMA WorkerMoves ==
  ASSUME InputTypeOK, NEW w \in Workers, Finds(w),
         WorkerStep(w)
  PROVE  /\ \A m \in Messages : Moves(m)
         /\ Takes(w) /\ \A v \in Workers \ {w} : worker'[v] = worker[v]
<1> /\ receipt \in [Messages -> Receipt] /\ worker \in [Workers -> WorkerState]
    /\ worker[w] \in WorkerState
  BY DEF InputTypeOK
<1>a. ASSUME UNCHANGED receipt, worker'[w].delivered = worker[w].delivered
      PROVE  (\A m \in Messages : Moves(m)) /\ Takes(w)
  BY <1>a, UnchangedMoves DEF Takes
<1>b. ASSUME NEW o \in Outcome, Ends(w, o), UNCHANGED receipt
      PROVE  /\ \A m \in Messages : Moves(m)
             /\ Takes(w) /\ \A v \in Workers \ {w} : worker'[v] = worker[v]
  BY <1>a, <1>b, EndsKeeps
<1>c. {"NONE", "FAILED", "COMPLETED"} \subseteq Outcome
  BY DEF Outcome
<1>1. CASE Claim(w) \/ LaunchFails(w) \/ Acquire(w)
  <2>1. /\ UNCHANGED receipt /\ worker'[w].delivered = worker[w].delivered
        /\ \A v \in Workers \ {w} : worker'[v] = worker[v]
    BY <1>1 DEF Claim, LaunchFails, Acquire, WGoto, WorkerState
  <2> QED
    BY <1>a, <2>1
<1>2. CASE Plan(w) \/ Route(w) \/ Wait(w) \/ ClaimNext(w)
  <2>1. /\ UNCHANGED receipt
        /\ \/ Ends(w, "FAILED")
           \/ /\ worker'[w].delivered = worker[w].delivered
              /\ \A v \in Workers \ {w} : worker'[v] = worker[v]
    BY <1>2 DEF Plan, Route, Wait, ClaimNext, WGoto, WorkerState
  <2> QED
    BY <1>a, <1>b, <1>c, <2>1
<1>3. CASE Planned(w)
  <2>1. \A m \in Messages : Moves(m)
    BY <1>3, ReconciledMoves DEF Planned, Moves
  <2>2. /\ worker'[w].delivered = worker[w].delivered
        /\ \A v \in Workers \ {w} : worker'[v] = worker[v]
    <3>1. PICK due, todo :
            \/ worker' = [worker EXCEPT ![w] =
                            Serve([worker[w] EXCEPT !.due = due, !.seen = Launched])]
            \/ worker' = [worker EXCEPT ![w] =
                            [[worker[w] EXCEPT !.due = due, !.seen = Launched]
                               EXCEPT !.pc = "route", !.phase = "route", !.todo = todo]]
      BY <1>3 DEF Planned
    <3> DEFINE local == [worker[w] EXCEPT !.due = due, !.seen = Launched]
    <3>2. local.delivered = worker[w].delivered /\ Serve(local).delivered = local.delivered
      BY DEF Serve, Turn, WorkerState
    <3>3. [local EXCEPT !.pc = "route", !.phase = "route", !.todo = todo].delivered
            = worker[w].delivered
      BY DEF WorkerState
    <3> QED
      BY <3>1, <3>2, <3>3
  <2> QED
    BY <2>1, <2>2 DEF Takes
<1>4. CASE RouteAppend(w)
  <2> DEFINE m == Oldest(worker[w].todo)
  <2>1. worker[w].pc = "routeAppend" /\ \A v \in Workers \ {w} : worker'[v] = worker[v]
    BY <1>4 DEF RouteAppend, WAt
  <2>2. CASE m \in For(w)
    <3>1. PICK n \in Messages : n = m /\ n \in For(w) /\ receipt[n].state = "accepted"
      BY <2>2 DEF For, Pending
    <3>2. /\ receipt' = [receipt EXCEPT ![n] = [Rebound(n, w) EXCEPT !.state = "delivered"]]
          /\ worker'[w].delivered = worker[w].delivered \cup {n}
      BY <1>4, <3>1 DEF RouteAppend, WorkerState
    <3>3. /\ receipt'[n].state = "delivered" /\ receipt'[n].owner = w
          /\ ~receipt'[n].deferred
      BY <3>1, <3>2 DEF Rebound, Receipt, For
    <3>4. Delivers(n)
      BY <2>1, <3>1, <3>2, <3>3 DEF Delivers
    <3>5. \A k \in Messages \ {n} : Kept(k)
      BY <3>2 DEF Kept
    <3> QED
      BY <2>1, <3>2, <3>3, <3>4, <3>5 DEF Takes, Moves
  <2>3. CASE m \notin For(w)
    <3>1. UNCHANGED receipt /\ worker'[w].delivered = worker[w].delivered
      BY <1>4, <2>3 DEF RouteAppend, WorkerState
    <3> QED
      BY <1>a, <2>1, <3>1
  <2> QED
    BY <2>2, <2>3
<1>5. CASE Assess(w)
  <2>1. UNCHANGED receipt
    BY <1>5 DEF Assess
  <2>2. \/ worker' = [worker EXCEPT ![w] = Serve(worker[w])]
        \/ worker' = [worker EXCEPT ![w].pc = "wait", ![w].stuck = TRUE]
        \/ worker' = [worker EXCEPT ![w] = Turn(worker[w], "unfinished")]
        \/ worker' = [worker EXCEPT ![w] =
                        [Turn(worker[w], "unfinished") EXCEPT !.phase = "resumed"]]
    BY <1>5 DEF Assess
  <2>3. /\ worker'[w].delivered = worker[w].delivered
        /\ \A v \in Workers \ {w} : worker'[v] = worker[v]
    <3>1. /\ Serve(worker[w]).delivered = worker[w].delivered
          /\ Turn(worker[w], "unfinished").delivered = worker[w].delivered
          /\ [Turn(worker[w], "unfinished") EXCEPT !.phase = "resumed"].delivered
               = worker[w].delivered
      BY ServeKeeps DEF Turn, WorkerState
    <3>2. [worker[w] EXCEPT !.pc = "wait", !.stuck = TRUE].delivered = worker[w].delivered
      BY DEF WorkerState
    <3> QED
      BY <2>2, <3>1, <3>2
  <2> QED
    BY <1>a, <2>1, <2>3
<1>6. CASE WaitAppend(w)
  <2>1. Ends(w, "FAILED")
    BY <1>6 DEF WaitAppend
  <2>2. \A m \in Messages : Moves(m)
    <3> SUFFICES ASSUME NEW m \in Messages PROVE Moves(m)
      OBVIOUS
    <3>1. CASE m \in For(w)
      <4>1. /\ receipt[m].state = "accepted"
            /\ receipt'[m] = [receipt[m] EXCEPT !.owner = NoOne, !.deferred = TRUE,
                                                !.waiting = TRUE]
        BY <1>6, <3>1 DEF WaitAppend, For, Pending
      <4> QED
        BY <4>1 DEF Moves, Defers, Receipt
    <3>2. CASE m \notin For(w)
      BY <1>6, <3>2 DEF WaitAppend, Moves, Kept
    <3> QED
      BY <3>1, <3>2
  <2> QED
    BY <1>c, <2>1, <2>2, EndsKeeps DEF Takes
<1>7. CASE CommandEnds(w) \/ TurnEnds(w)
  <2>1. PICK r \in WorkerState : worker' = [worker EXCEPT ![w] = AfterItem(r)]
                                  /\ r.delivered = worker[w].delivered
    <3>1. ASSUME NEW waits \in BOOLEAN, NEW m \in Messages
          PROVE  /\ [worker[w] EXCEPT !.completed = @ \cup {m}, !.idle = waits] \in WorkerState
                 /\ [worker[w] EXCEPT !.completed = @ \cup {m}, !.idle = waits].delivered
                      = worker[w].delivered
      BY DEF WorkerState
    <3>2. CASE CommandEnds(w)
      BY <3>1, <3>2 DEF CommandEnds, WAt, Finds
    <3>3. CASE TurnEnds(w)
      BY <3>1, <3>3 DEF TurnEnds
    <3> QED
      BY <1>7, <3>2, <3>3
  <2>2. UNCHANGED receipt
    BY <1>7 DEF CommandEnds, TurnEnds
  <2>3. /\ worker'[w].delivered = worker[w].delivered
        /\ \A v \in Workers \ {w} : worker'[v] = worker[v]
    BY <2>1, AfterItemKeeps
  <2> QED
    BY <1>a, <2>2, <2>3
<1>8. CASE CommandRejected(w)
  <2>1. PICK m \in Messages : m = worker[w].item
    BY <1>8 DEF CommandRejected, WAt, Finds
  <2> DEFINE r == [worker[w] EXCEPT !.delivered = @ \ {m}, !.fatal = TRUE]
  <2>2. CASE receipt[m].state = "delivered" /\ receipt[m].owner = w
    <3>1. r \in WorkerState /\ r.delivered = worker[w].delivered \ {m}
      BY DEF WorkerState
    <3>2. /\ receipt' = [receipt EXCEPT ![m].state = "rejected"]
          /\ worker' = [worker EXCEPT ![w] = AfterItem(r)]
      BY <1>8, <2>1, <2>2 DEF CommandRejected
    <3> HIDE DEF r
    <3>3. /\ worker'[w].delivered = worker[w].delivered \ {m}
          /\ \A v \in Workers \ {w} : worker'[v] = worker[v]
      BY <3>1, <3>2, AfterItemKeeps
    <3>4. Rejects(m) /\ \A n \in Messages \ {m} : Kept(n)
      BY <2>2, <3>2 DEF Rejects, Kept, Receipt
    <3> QED
      BY <3>3, <3>4 DEF Moves, Takes
  <2>3. CASE ~(receipt[m].state = "delivered" /\ receipt[m].owner = w)
    <3>1. Ends(w, "FAILED") /\ UNCHANGED receipt
      BY <1>8, <2>1, <2>3 DEF CommandRejected
    <3> QED
      BY <1>b, <1>c, <3>1
  <2> QED
    BY <2>2, <2>3
<1>9. CASE TurnFails(w) \/ Interrupt(w)
  <2>1. (Ends(w, "FAILED") \/ Ends(w, "NONE")) /\ UNCHANGED receipt
    BY <1>9 DEF TurnFails, Interrupt
  <2> QED
    BY <1>b, <1>c, <2>1
<1>10. CASE Rebind(w)
  <2>1. worker[w].pc = "rebind"
    BY <1>10 DEF Rebind, WAt
  <2>2. CASE /\ For(w) # {} /\ WGoto(w, "deliver")
             /\ receipt' = [receipt EXCEPT ![Oldest(For(w))] = Rebound(Oldest(For(w)), w)]
    <3>1. PICK n \in Messages : n = Oldest(For(w)) /\ receipt[n].state = "accepted"
      <4>1. For(w) \in SUBSET Messages
        BY DEF For, Pending
      <4>2. Oldest(For(w)) \in For(w)
        BY <2>2, <4>1, OldestFound
      <4> QED
        BY <4>2 DEF For, Pending
    <3>2. receipt' = [receipt EXCEPT ![n] = Rebound(n, w)]
      BY <2>2, <3>1
    <3>3. Kept(n) \/ Binds(n)
      BY <2>1, <3>1, <3>2 DEF Kept, Binds, Rebound, Receipt
    <3>4. \A m \in Messages \ {n} : Kept(m)
      BY <3>2 DEF Kept
    <3>5. /\ worker'[w].delivered = worker[w].delivered
          /\ \A v \in Workers \ {w} : worker'[v] = worker[v]
      BY <2>2 DEF WGoto, WorkerState
    <3> QED
      BY <3>3, <3>4, <3>5 DEF Moves, Takes
  <2>3. CASE UNCHANGED receipt /\ worker' = [worker EXCEPT ![w] = Resume(worker[w])]
    BY <1>a, <2>3, ResumeKeeps
  <2>4. CASE UNCHANGED receipt /\ Drained(w)
    <3>1. \/ Ends(w, "FAILED") \/ Ends(w, "COMPLETED")
          \/ worker' = [worker EXCEPT ![w].pc = "drain", ![w].phase = "last", ![w].due = {}]
      BY <2>4 DEF Drained
    <3>2. CASE worker' = [worker EXCEPT ![w].pc = "drain", ![w].phase = "last", ![w].due = {}]
      <4>1. /\ worker'[w].delivered = worker[w].delivered
            /\ \A v \in Workers \ {w} : worker'[v] = worker[v]
        BY <3>2 DEF WorkerState
      <4> QED
        BY <1>a, <2>4, <4>1
    <3> QED
      BY <1>b, <1>c, <2>4, <3>1, <3>2
  <2> QED
    BY <1>10, <2>2, <2>3, <2>4 DEF Rebind
<1>11. CASE Deliver(w)
  <2>1. PICK m \in Messages : /\ m = Oldest(For(w)) /\ receipt[m].state = "accepted"
                              /\ receipt[m].owner = w /\ ~receipt[m].deferred
    BY <1>11 DEF Deliver, WAt, Finds, For, Pending
  <2> DEFINE r == [worker[w] EXCEPT !.delivered = @ \cup {m}]
  <2>2. /\ receipt' = [receipt EXCEPT ![m].state = "delivered"]
        /\ worker' = [worker EXCEPT ![w] = TakeUp(r, m)]
    BY <1>11, <2>1 DEF Deliver
  <2>3. r \in WorkerState /\ r.delivered = worker[w].delivered \cup {m}
    BY DEF WorkerState
  <2> HIDE DEF r
  <2>4. /\ worker'[w].delivered = worker[w].delivered \cup {m}
        /\ \A v \in Workers \ {w} : worker'[v] = worker[v]
    BY <2>2, <2>3, TakeUpKeeps
  <2>5. worker[w].pc = "deliver"
    BY <1>11 DEF Deliver, WAt
  <2>6. /\ receipt'[m].state = "delivered" /\ receipt'[m].owner = w /\ ~receipt'[m].deferred
        /\ \A n \in Messages \ {m} : Kept(n)
    BY <2>1, <2>2 DEF Receipt, Kept
  <2>7. Delivers(m)
    BY <2>1, <2>4, <2>5, <2>6 DEF Delivers
  <2> QED
    BY <2>4, <2>6, <2>7 DEF Moves, Takes
<1>12. CASE Settle(w)
  <2>1. \A m \in Messages : Moves(m)
    <3> SUFFICES ASSUME NEW m \in Messages PROVE Moves(m)
      OBVIOUS
    <3>1. /\ receipt'[m].state = Settled(w, m) /\ receipt'[m].owner = receipt[m].owner
          /\ receipt'[m].deferred = receipt[m].deferred
      BY <1>12 DEF Settle, Receipt
    <3> QED
      BY <3>1 DEF Settled, Moves, Kept, Rejects, Completes
  <2>2. /\ worker'[w].delivered = worker[w].delivered
        /\ \A v \in Workers \ {w} : worker'[v] = worker[v]
    <3>1. \/ worker' = [worker EXCEPT ![w].pc = "sweep", ![w].completed = {}, ![w].seen = Glance]
          \/ worker' = [worker EXCEPT ![w].pc = "finalize", ![w].completed = {}]
      BY <1>12 DEF Settle
    <3> QED
      BY <3>1 DEF WorkerState
  <2> QED
    BY <2>1, <2>2 DEF Takes
<1>13. CASE Sweep(w)
  <2>1. \A m \in Messages : Moves(m)
    BY <1>13, ReconciledMoves DEF Sweep, Moves
  <2>2. /\ worker'[w].delivered = worker[w].delivered
        /\ \A v \in Workers \ {w} : worker'[v] = worker[v]
    BY <1>13 DEF Sweep, WorkerState
  <2> QED
    BY <2>1, <2>2 DEF Takes
<1>14. CASE Finalize(w) \/ WorkerDies(w)
  <2>1. UNCHANGED receipt /\ Gone(w)
    BY <1>14 DEF Finalize, WorkerDies
  <2> QED
    BY <1>a, <2>1, GoneKeeps
<1> QED
  BY <1>1, <1>2, <1>3, <1>4, <1>5, <1>6, <1>7, <1>8, <1>9, <1>10, <1>11, <1>12, <1>13, <1>14
     DEF WorkerStep, InWorker

LEMMA StepMoves ==
  ASSUME InputTypeOK, \A c \in Clients : Knows(c), \A w \in Workers : Finds(w), [Next]_vars
  PROVE  LogMoves /\ \A w \in Workers : Takes(w)
<1>1. CASE UNCHANGED <<receipt, worker>>
  BY <1>1, UnchangedMoves DEF Takes, LogMoves
<1>2. ASSUME NEW c \in Clients, ClientStep(c)
      PROVE  LogMoves /\ UNCHANGED worker
  BY <1>2, ClientMoves, ClientFrame DEF InputTypeOK
<1>3. ASSUME RecordStep PROVE UNCHANGED <<receipt, worker>>
  BY <1>3, RecordFrame
<1>4. ASSUME NEW w \in Workers, WorkerStep(w)
      PROVE  (\A m \in Messages : Moves(m)) /\ (\A v \in Workers : Takes(v))
  <2>1. /\ \A m \in Messages : Moves(m)
        /\ Takes(w) /\ \A v \in Workers \ {w} : worker'[v] = worker[v]
    BY <1>4, WorkerMoves
  <2> QED
    BY <2>1 DEF Takes
<1>5. ASSUME UNCHANGED worker
      PROVE  \A w \in Workers : Takes(w)
  BY <1>5 DEF Takes
<1> QED
  BY <1>1, <1>2, <1>3, <1>4, <1>5, NextSteps DEF vars, LogMoves

-----------------------------------------------------------------------------
(* Invariants of the log *)

LEMMA TakenFromStep ==
  ASSUME InputTypeOK, NEW m \in Messages, TakenFrom(m), InputTypeOK',
         Moves(m) \/ Accepts(m), \A w \in Workers : Takes(w)
  PROVE  TakenFrom(m)'
<1> /\ receipt[m] \in Receipt /\ receipt'[m] \in Receipt
    /\ receipt[m].owner \in Workers \cup {NoOne} /\ NoOne \notin Workers
    /\ receipt'[m].owner \in Workers \cup {NoOne}
  BY InputAssumption DEF InputTypeOK, Receipt
<1>1. receipt'[m].deferred => receipt'[m].owner = NoOne
  BY DEF TakenFrom, Moves, Kept, Accepts, Defers, Binds, Delivers, Completes, Rejects
<1>2. ASSUME NEW w \in Workers, m \in worker'[w].delivered
      PROVE  receipt'[m].owner = w /\ receipt'[m].state \notin {"absent", "accepted"}
  <2>1. CASE m \in worker[w].delivered
    BY <2>1 DEF TakenFrom, Moves, Kept, Accepts, Defers, Binds, Delivers, Completes, Rejects
  <2>2. CASE m \notin worker[w].delivered
    BY <1>2, <2>2 DEF Takes, Delivers
  <2> QED
    BY <2>1, <2>2
<1>3. ASSUME receipt'[m].state \in {"delivered", "completed", "failed"}
      PROVE  receipt'[m].owner \in Workers /\ m \in worker'[receipt'[m].owner].delivered
  <2>1. CASE Delivers(m)
    BY <2>1 DEF Delivers
  <2>2. CASE Kept(m) \/ Completes(m)
    <3>1. /\ receipt'[m].owner = receipt[m].owner /\ receipt[m].owner \in Workers
          /\ m \in worker[receipt[m].owner].delivered
      BY <1>3, <2>2 DEF TakenFrom, Kept, Completes
    <3>2. ~Rejects(m)
      BY <1>3 DEF Rejects
    <3> QED
      BY <3>1, <3>2 DEF Takes
  <2> QED
    BY <1>3, <2>1, <2>2 DEF Moves, Accepts, Defers, Binds, Rejects
<1> QED
  BY <1>1, <1>2, <1>3 DEF TakenFrom

(* Who is known and pending after a step; the bound on what is pending *)
LEMMA CountStep ==
  ASSUME LogMoves, IsFiniteSet(Known), QueueBounded
  PROVE  IsFiniteSet(Known)' /\ QueueBounded'
<1> Pending \subseteq Known /\ IsFiniteSet(Pending) /\ Cardinality(Pending) \in Nat
  BY FS_Subset, FS_CardinalityType DEF Pending, Known
<1> MaxPending \in Nat
  BY InputAssumption
<1>1. CASE \A m \in Messages : Moves(m)
  <2>1. Known' = Known /\ Pending' \subseteq Pending
    BY <1>1 DEF Known, Pending, Moves, Kept, Defers, Binds, Delivers, Completes, Rejects
  <2>2. Cardinality(Pending') <= Cardinality(Pending) /\ Cardinality(Pending') \in Nat
    BY <2>1, FS_Subset, FS_CardinalityType
  <2> QED
    BY <2>1, <2>2 DEF QueueBounded
<1>2. CASE AcceptsOne
  <2>1. PICK m \in Messages : Accepts(m) /\ \A n \in Messages \ {m} : Kept(n)
    BY <1>2 DEF AcceptsOne
  <2>2. /\ Known' = Known \cup {m} /\ Pending' = Pending \cup {m} /\ m \notin Pending
    BY <2>1 DEF Known, Pending, Accepts, Kept
  <2>3. IsFiniteSet(Known') /\ Cardinality(Pending') = Cardinality(Pending) + 1
    BY <2>2, FS_AddElement
  <2>4. Cardinality(Pending) < MaxPending
    BY <1>2 DEF AcceptsOne, Full
  <2> QED
    BY <2>3, <2>4 DEF QueueBounded
<1> QED
  BY <1>1, <1>2 DEF LogMoves

-----------------------------------------------------------------------------
(* What a worker finds under the lock *)

Found == {"deliver", "route", "routeAppend", "planned", "command", "unborn", "gone"}

(* While the worker w has the lock, the log stays as it is unless w moves *)
LEMMA LockKeeps ==
  ASSUME InputTypeOK, [Next]_vars, NEW w \in Workers, Finds(w), lock = w,
         worker'[w] = worker[w]
  PROVE  UNCHANGED receipt
<1> /\ lock # NoOne /\ \A c \in Clients : lock # c
    /\ \A c \in Clients : client[c].pc \notin ClientCritical
    /\ \A v \in Workers \ {w} : worker[v].pc \notin WorkerCritical
    /\ worker[w] \in WorkerState /\ worker \in [Workers -> WorkerState]
  BY InputAssumption DEF InputTypeOK
<1>1. ASSUME NEW c \in Clients,
             \/ \E m \in Messages :
                  SubmitLive(c, m) \/ SubmitDeferred(c, m) \/ SubmitOrphan(c, m)
             \/ View(c) \/ Maintain(c) \/ Cancel(c) \/ Start(c) \/ Cancelled(c)
      PROVE  UNCHANGED receipt
  BY <1>1 DEF SubmitLive, SubmitDeferred, SubmitOrphan, Submit, View, Maintain, Cancel, Start,
              Cancelled, Update
<1>2. ASSUME NEW c \in Clients,
             Enqueue(c) \/ EnqueueAppend(c) \/ Defer(c) \/ DeferAppend(c) \/ Rearm(c)
               \/ RearmAppend(c) \/ Receipts(c)
      PROVE  FALSE
  BY <1>2 DEF Enqueue, EnqueueAppend, Defer, DeferAppend, Rearm, RearmAppend, Receipts, At, Free,
              ClientCritical
<1>3. CASE RecordPid \/ Delete \/ RestoreDeleted \/ MarkOrphaned
  BY <1>3 DEF RecordPid, Delete, RestoreDeleted, MarkOrphaned, Update
<1>4. ASSUME NEW v \in Workers,
             Planned(v) \/ Settle(v) \/ Sweep(v) \/ CommandRejected(v)
      PROVE  FALSE
  BY <1>4 DEF Planned, Settle, Sweep, CommandRejected, Free
<1>5. ASSUME NEW v \in Workers,
             RouteAppend(v) \/ WaitAppend(v) \/ Rebind(v) \/ Deliver(v)
      PROVE  v = w
  BY <1>5 DEF RouteAppend, WaitAppend, Rebind, Deliver, WAt, WorkerCritical
<1>6. CASE RouteAppend(w)
  <2>1. worker[w].pc = "routeAppend" /\ worker'[w].pc \in {"command", "route"}
    BY <1>6 DEF RouteAppend, WAt, WorkerState
  <2> QED
    BY <2>1
<1>7. CASE WaitAppend(w)
  <2>1. worker[w].pc = "waitAppend" /\ worker'[w].pc = "settle"
    BY <1>7, EndsKeeps DEF WaitAppend, WAt, InputTypeOK, Outcome
  <2> QED
    BY <2>1
<1>8. CASE Rebind(w)
  <2>1. worker[w].pc = "rebind" /\ (WGoto(w, "deliver") => worker'[w].pc = "deliver")
    BY <1>8 DEF Rebind, WAt, WGoto, WorkerState
  <2> QED
    BY <1>8, <2>1 DEF Rebind
<1>9. CASE Deliver(w)
  <2>1. UNCHANGED receipt \/ Unlock
    BY <1>9 DEF Deliver
  <2>2. worker[w].pc = "deliver"
    BY <1>9 DEF Deliver, WAt
  <2>3. PICK m \in Messages : m = Oldest(For(w))
    BY <2>2 DEF Finds, For, Pending
  <2> DEFINE r == [worker[w] EXCEPT !.delivered = @ \cup {m}]
  <2>4. r \in WorkerState /\ worker'[w] = TakeUp(r, m)
    BY <1>9, <2>3 DEF Deliver, WorkerState
  <2> HIDE DEF r
  <2>5. worker'[w].pc \in {"command", "turn"}
    BY <2>4, TakeUpTyped
  <2> QED
    BY <2>2, <2>5
<1>10. ASSUME NEW v \in Workers,
              Claim(v) \/ LaunchFails(v) \/ Acquire(v) \/ Plan(v) \/ Route(v) \/ Assess(v)
                \/ Wait(v) \/ CommandEnds(v) \/ ClaimNext(v) \/ TurnEnds(v)
       PROVE  UNCHANGED receipt
  BY <1>10 DEF Claim, LaunchFails, Acquire, Plan, Route, Assess, Wait, CommandEnds, ClaimNext,
               TurnEnds
<1>11. ASSUME NEW v \in Workers,
              TurnFails(v) \/ Interrupt(v) \/ Finalize(v) \/ WorkerDies(v)
       PROVE  UNCHANGED receipt
  BY <1>11 DEF TurnFails, Interrupt, Finalize, WorkerDies
<1>12. CASE UNCHANGED vars
  BY <1>12 DEF vars
<1> QED
  BY <1>1, <1>2, <1>3, <1>4, <1>5, <1>6, <1>7, <1>8, <1>9, <1>10, <1>11, <1>12
     DEF Next, InCall, InWorker

LEMMA WorkerFinds ==
  ASSUME InputTypeOK, InputTypeOK', NEW w \in Workers, Finds(w),
         WorkerStep(w)
  PROVE  Finds(w)'
<1> /\ receipt \in [Messages -> Receipt] /\ worker \in [Workers -> WorkerState]
    /\ worker[w] \in WorkerState
  BY DEF InputTypeOK
<1>a. ASSUME worker'[w].pc \notin Found
      PROVE  Finds(w)'
  BY <1>a DEF Finds, Found
<1>b. ASSUME NEW o \in {"NONE", "FAILED", "COMPLETED"}, Ends(w, o)
      PROVE  Finds(w)'
  BY <1>a, <1>b, EndsKeeps DEF Found, Outcome
<1>1. CASE Claim(w) \/ LaunchFails(w) \/ Acquire(w)
  <2>1. \/ worker'[w].pc \in {"acquire", "plan", "finalize"}
        \/ /\ worker[w].pc = "unborn" /\ worker'[w].pc = "gone"
           /\ worker'[w].phase = worker[w].phase
    BY <1>1 DEF Claim, LaunchFails, Acquire, WGoto, WAt, WorkerState
  <2> QED
    BY <1>a, <2>1 DEF Found, Finds
<1>2. CASE Plan(w)
  <2>1. CASE worker' = [worker EXCEPT ![w].pc = "planned", ![w].seen = Glance]
             /\ session.status = "RUNNING"
    <3>1. worker'[w].pc = "planned" /\ worker'[w].seen.status = "RUNNING"
      BY <2>1 DEF WorkerState, Glance, Launched
    <3> QED
      BY <3>1 DEF Finds
  <2> QED
    BY <1>2, <1>b, <2>1 DEF Plan
<1>3. CASE Planned(w)
  <2>1. PICK due, todo :
          \/ worker' = [worker EXCEPT ![w] =
                          Serve([worker[w] EXCEPT !.due = due, !.seen = Launched])]
          \/ worker' = [worker EXCEPT ![w] =
                          [[worker[w] EXCEPT !.due = due, !.seen = Launched]
                             EXCEPT !.pc = "route", !.phase = "route", !.todo = todo]]
    BY <1>3 DEF Planned
  <2>2. \/ worker'[w].pc \in {"drain", "turn"}
        \/ worker'[w].pc = "route" /\ worker'[w].phase = "route"
    <3> DEFINE local == [worker[w] EXCEPT !.due = due, !.seen = Launched]
               r == [local EXCEPT !.pc = "route", !.phase = "route", !.todo = todo]
    <3>1. Serve(local).pc \in {"drain", "turn"} /\ r.pc = "route" /\ r.phase = "route"
      BY DEF Serve, Turn, WorkerState
    <3>2. worker'[w] = Serve(local) \/ worker'[w] = r
      BY <2>1
    <3> QED
      BY <3>1, <3>2
  <2> QED
    BY <1>a, <2>2 DEF Finds, Found
<1>4. CASE Route(w) \/ Wait(w)
  <2>1. CASE WGoto(w, "routeAppend") /\ worker[w].pc = "route"
    BY <2>1 DEF WGoto, Finds, WorkerState
  <2>2. CASE WGoto(w, "waitAppend")
    BY <1>a, <2>2 DEF WGoto, Found
  <2> QED
    BY <1>4, <1>b, <2>1, <2>2 DEF Route, Wait, WAt
<1>5. CASE RouteAppend(w)
  <2> DEFINE m == Oldest(worker[w].todo)
  <2>1. worker[w].phase \in {"route", "resumed"}
    BY <1>5 DEF RouteAppend, WAt, Finds
  <2>2. \/ /\ worker'[w].pc = "command" /\ worker'[w].item = m /\ m \in For(w)
        \/ worker'[w].pc = "route" /\ worker'[w].phase = worker[w].phase
    BY <1>5 DEF RouteAppend, WorkerState
  <2>3. m \in For(w) => m \in Messages
    BY DEF For, Pending
  <2> QED
    BY <2>1, <2>2, <2>3 DEF Finds
<1>6. CASE Assess(w)
  <2>1. worker'[w].pc \in {"drain", "turn", "wait"}
    <3>1. \/ worker' = [worker EXCEPT ![w] = Serve(worker[w])]
          \/ worker' = [worker EXCEPT ![w].pc = "wait", ![w].stuck = TRUE]
          \/ worker' = [worker EXCEPT ![w] = Turn(worker[w], "unfinished")]
          \/ worker' = [worker EXCEPT ![w] =
                          [Turn(worker[w], "unfinished") EXCEPT !.phase = "resumed"]]
      BY <1>6 DEF Assess
    <3>2. /\ Serve(worker[w]).pc \in {"drain", "turn"}
          /\ Turn(worker[w], "unfinished").pc = "turn"
          /\ [Turn(worker[w], "unfinished") EXCEPT !.phase = "resumed"].pc = "turn"
          /\ [worker[w] EXCEPT !.pc = "wait", !.stuck = TRUE].pc = "wait"
      BY DEF Serve, Turn, WorkerState
    <3> QED
      BY <3>1, <3>2
  <2> QED
    BY <1>a, <2>1 DEF Found
<1>7. CASE WaitAppend(w) \/ TurnFails(w) \/ Interrupt(w)
  BY <1>7, <1>b DEF WaitAppend, TurnFails, Interrupt
<1>8. CASE CommandEnds(w) \/ TurnEnds(w) \/ CommandRejected(w)
  <2>1. ASSUME NEW r \in WorkerState, worker' = [worker EXCEPT ![w] = AfterItem(r)]
        PROVE  Finds(w)'
    <3>1. worker'[w].pc \in {"route", "drain"}
          /\ (worker'[w].pc = "route" => worker'[w].phase \in {"route", "resumed"})
      BY <2>1, AfterItemTyped, AfterItemKeeps
    <3> QED
      BY <3>1 DEF Finds
  <2>2. ASSUME NEW waits \in BOOLEAN, NEW m \in Messages
        PROVE  /\ [worker[w] EXCEPT !.completed = @ \cup {m}, !.idle = waits] \in WorkerState
               /\ [worker[w] EXCEPT !.delivered = @ \ {m}, !.fatal = TRUE] \in WorkerState
    BY DEF WorkerState
  <2>3. CASE CommandEnds(w)
    BY <2>1, <2>2, <2>3 DEF CommandEnds, WAt, Finds
  <2>4. CASE TurnEnds(w)
    BY <2>1, <2>2, <2>4 DEF TurnEnds
  <2>5. CASE CommandRejected(w)
    BY <1>b, <2>1, <2>2, <2>5 DEF CommandRejected, WAt, Finds
  <2> QED
    BY <1>8, <2>3, <2>4, <2>5
<1>9. CASE ClaimNext(w)
  <2>1. CASE worker' = [worker EXCEPT ![w].pc = "rebind", ![w].inTurn = Bound(w)]
    <3>1. worker'[w].pc = "rebind"
      BY <2>1 DEF WorkerState
    <3> QED
      BY <1>a, <3>1 DEF Found
  <2> QED
    BY <1>9, <1>b, <2>1 DEF ClaimNext
<1>10. CASE Rebind(w)
  <2>1. CASE /\ For(w) # {} /\ WGoto(w, "deliver")
             /\ receipt' = [receipt EXCEPT ![Oldest(For(w))] = Rebound(Oldest(For(w)), w)]
    <3>1. PICK m \in For(w) : m = Oldest(For(w))
      <4>1. For(w) \in SUBSET Messages
        BY DEF For, Pending
      <4> QED
        BY <2>1, <4>1, OldestFound
    <3>2. /\ m \in Messages /\ receipt[m].state = "accepted"
          /\ receipt[m].deferred \/ receipt[m].owner = w
      BY DEF For, Pending
    <3>3. receipt' = [receipt EXCEPT ![m] = Rebound(m, w)]
      BY <2>1, <3>1
    <3>4. /\ receipt'[m].state = "accepted" /\ receipt'[m].owner = w
          /\ ~receipt'[m].deferred /\ receipt'[m].at = receipt[m].at
      BY <3>2, <3>3 DEF Rebound, Receipt
    <3>5. \A n \in Messages \ {m} : receipt'[n] = receipt[n]
      BY <3>3
    <3>6. For(w)' = For(w)
      <4>1. For(w)' = {n \in Messages : /\ receipt'[n].state = "accepted"
                                        /\ receipt'[n].deferred \/ receipt'[n].owner = w}
        BY DEF For, Pending
      <4>2. For(w) = {n \in Messages : /\ receipt[n].state = "accepted"
                                       /\ receipt[n].deferred \/ receipt[n].owner = w}
        BY DEF For, Pending
      <4> QED
        BY <3>2, <3>4, <3>5, <4>1, <4>2
    <3>7. Oldest(For(w))' = m
      <4>1. \A n \in For(w) : receipt'[n].at = receipt[n].at
        BY <3>4, <3>5 DEF For, Pending
      <4>2. (CHOOSE k \in For(w) : \A n \in For(w) : receipt'[k].at <= receipt'[n].at)
              = Oldest(For(w))
        BY <4>1, OldestSame
      <4> QED
        BY <3>1, <3>6, <4>2 DEF Oldest
    <3>8. worker'[w].pc = "deliver"
      BY <2>1 DEF WGoto, WorkerState
    <3> QED
      BY <3>4, <3>6, <3>7, <3>8 DEF Finds
  <2>2. CASE worker' = [worker EXCEPT ![w] = Resume(worker[w])]
    <3>1. /\ worker'[w].pc \in {"command", "turn"}
          /\ worker'[w].pc = "command" => worker'[w].item \in Messages
      BY <2>2, ResumeTyped, ResumeKeeps
    <3> QED
      BY <3>1 DEF Finds
  <2>3. CASE Drained(w)
    <3>1. CASE worker' = [worker EXCEPT ![w].pc = "drain", ![w].phase = "last", ![w].due = {}]
      <4>1. worker'[w].pc = "drain"
        BY <3>1 DEF WorkerState
      <4> QED
        BY <1>a, <4>1 DEF Found
    <3> QED
      BY <1>b, <2>3, <3>1 DEF Drained
  <2> QED
    BY <1>10, <2>1, <2>2, <2>3 DEF Rebind
<1>11. CASE Deliver(w)
  <2>1. PICK m \in Messages : m = Oldest(For(w))
    BY <1>11 DEF Deliver, WAt, Finds, For, Pending
  <2> DEFINE r == [worker[w] EXCEPT !.delivered = @ \cup {m}]
  <2>2. r \in WorkerState /\ worker' = [worker EXCEPT ![w] = TakeUp(r, m)]
    BY <1>11, <2>1 DEF Deliver, WorkerState
  <2> HIDE DEF r
  <2>3. /\ worker'[w].pc \in {"command", "turn"}
        /\ worker'[w].pc = "command" => worker'[w].item \in Messages
    BY <2>2, TakeUpTyped, TakeUpKeeps
  <2> QED
    BY <2>3 DEF Finds
<1>12. CASE Settle(w) \/ Sweep(w)
  <2>1. worker'[w].pc \in {"sweep", "finalize"}
    <3>1. \/ worker' = [worker EXCEPT ![w].pc = "sweep", ![w].completed = {}, ![w].seen = Glance]
          \/ worker' = [worker EXCEPT ![w].pc = "finalize", ![w].completed = {}]
          \/ worker' = [worker EXCEPT ![w].pc = "finalize", ![w].seen = Launched]
      BY <1>12 DEF Settle, Sweep
    <3> QED
      BY <3>1 DEF WorkerState
  <2> QED
    BY <1>a, <2>1 DEF Found
<1>13. CASE Finalize(w) \/ WorkerDies(w)
  BY <1>13, GoneKeeps DEF Finalize, WorkerDies, Finds
<1> QED
  BY <1>1, <1>2, <1>3, <1>4, <1>5, <1>6, <1>7, <1>8, <1>9, <1>10, <1>11, <1>12, <1>13
     DEF WorkerStep, InWorker

LEMMA FindsStep ==
  ASSUME InputTypeOK, InputTypeOK', [Next]_vars, NEW w \in Workers,
         \A v \in Workers : Finds(v)
  PROVE  Finds(w)'
<1>1. CASE WorkerStep(w)
  BY <1>1, WorkerFinds DEF WorkerStep
<1>2. CASE worker'[w] = worker[w]
  <2>1. CASE worker[w].pc = "deliver"
    <3>1. lock = w
      BY <2>1 DEF InputTypeOK, WorkerCritical
    <3>2. UNCHANGED receipt
      BY <1>2, <3>1, LockKeeps
    <3>3. For(w)' = For(w)
      BY <3>2 DEF For, Pending
    <3>4. Oldest(For(w))' = Oldest(For(w))
      BY <3>2, <3>3 DEF Oldest
    <3> QED
      BY <1>2, <2>1, <3>2, <3>3, <3>4 DEF Finds
  <2>2. CASE worker[w].pc # "deliver"
    BY <1>2, <2>2 DEF Finds
  <2> QED
    BY <2>1, <2>2
<1>3. ASSUME NEW v \in Workers, WorkerStep(v), v # w
      PROVE  worker'[w] = worker[w]
  BY <1>3, WorkerMoves
<1>4. ASSUME NEW c \in Clients, ClientStep(c)
      PROVE  worker'[w] = worker[w]
  BY <1>4, ClientFrame DEF InputTypeOK
<1> QED
  BY <1>1, <1>2, <1>3, <1>4, RecordFrame, NextSteps DEF vars

-----------------------------------------------------------------------------
(* The record, whom it belongs to, and what an attempt is for *)

Planning == {"route", "resumed"}

(* What one step of the worker w does that others rely on *)
Works(w) ==
  LET me == worker[w]
      it == worker'[w]
  IN /\ me.pc # "gone" /\ it.pc # "unborn"
     /\ it.pc \in Opens => me.pc \in Opens \/ Claim(w)
     /\ it.pc \in Taking => me.pc \in Taking \/ (IsOwner(w) /\ me.pc \notin Opens)
     /\ it.phase \in Planning /\ it.due = {} =>
          Planned(w) \/ (me.phase \in Planning /\ me.due = {})
     /\ it.item = "intent" /\ me.item # "intent" =>
          it.due = {} /\ (Planned(w) \/ (me.pc = "route" /\ me.due = {}))

LEMMA WorkerWorks ==
  ASSUME InputTypeOK, NEW w \in Workers, Finds(w), WorkerStep(w)
  PROVE  Works(w)
<1> /\ worker \in [Workers -> WorkerState] /\ worker[w] \in WorkerState
    /\ NoOne # "intent" /\ "intent" \notin Messages
  BY InputAssumption DEF InputTypeOK
<1>a. ASSUME NEW o \in {"NONE", "FAILED", "COMPLETED"}, Ends(w, o), worker[w].pc # "gone"
      PROVE  Works(w)
  BY <1>a, EndsKeeps DEF Works, Outcome, Opens, Taking, Planning
<1>b. ASSUME worker[w].pc # "gone", worker'[w].pc \notin {"unborn"} \cup Opens \cup Taking,
             worker'[w].phase = worker[w].phase, worker'[w].due = worker[w].due,
             worker'[w].item # "intent" \/ worker'[w].item = worker[w].item
      PROVE  Works(w)
  BY <1>b DEF Works
<1>1. CASE Claim(w) \/ LaunchFails(w) \/ Acquire(w)
  <2>1. /\ worker[w].pc \in {"unborn", "acquire"}
        /\ worker'[w].phase = worker[w].phase /\ worker'[w].due = worker[w].due
        /\ worker'[w].item = worker[w].item
        /\ \/ worker'[w].pc = "acquire" /\ Claim(w)
           \/ worker'[w].pc = "plan" /\ worker[w].pc = "acquire"
           \/ worker'[w].pc \in {"gone", "finalize"}
    BY <1>1 DEF Claim, LaunchFails, Acquire, WGoto, WAt, WorkerState
  <2> QED
    BY <2>1 DEF Works, Opens, Taking
<1>2. CASE Plan(w)
  <2>1. CASE worker' = [worker EXCEPT ![w].pc = "planned", ![w].seen = Glance]
    <3>1. /\ worker[w].pc = "plan" /\ worker'[w].pc = "planned"
          /\ worker'[w].phase = worker[w].phase /\ worker'[w].due = worker[w].due
          /\ worker'[w].item = worker[w].item
      BY <1>2, <2>1 DEF Plan, WAt, WorkerState
    <3> QED
      BY <3>1 DEF Works, Opens, Taking
  <2> QED
    BY <1>2, <1>a, <2>1 DEF Plan, WAt
<1>3. CASE Planned(w)
  <2>1. PICK due, todo :
          \/ worker' = [worker EXCEPT ![w] =
                          Serve([worker[w] EXCEPT !.due = due, !.seen = Launched])]
          \/ worker' = [worker EXCEPT ![w] =
                          [[worker[w] EXCEPT !.due = due, !.seen = Launched]
                             EXCEPT !.pc = "route", !.phase = "route", !.todo = todo]]
    BY <1>3 DEF Planned
  <2> DEFINE local == [worker[w] EXCEPT !.due = due, !.seen = Launched]
             r == [local EXCEPT !.pc = "route", !.phase = "route", !.todo = todo]
  <2>2. /\ Serve(local).pc \in {"drain", "turn"} /\ r.pc = "route"
        /\ r.item = worker[w].item
        /\ Serve(local).item # worker[w].item => Serve(local).due = {}
    BY DEF Serve, Turn, WorkerState
  <2>3. worker'[w] = Serve(local) \/ worker'[w] = r
    BY <2>1
  <2>4. worker[w].pc = "planned"
    BY <1>3 DEF Planned, WAt
  <2> HIDE DEF local, r
  <2>5. /\ worker'[w].pc \in {"drain", "turn", "route"}
        /\ worker'[w].item # worker[w].item => worker'[w].due = {}
    BY <2>2, <2>3
  <2> QED
    BY <1>3, <2>4, <2>5 DEF Works, Opens, Taking
<1>4. CASE Route(w) \/ Wait(w)
  <2>1. ASSUME NEW pc \in {"routeAppend", "waitAppend"}, WGoto(w, pc), IsOwner(w),
               worker[w].pc \in {"route", "wait"}
        PROVE  Works(w)
    <3>1. /\ worker'[w].pc = pc /\ worker'[w].phase = worker[w].phase
          /\ worker'[w].due = worker[w].due /\ worker'[w].item = worker[w].item
      BY <2>1 DEF WGoto, WorkerState
    <3> QED
      BY <2>1, <3>1 DEF Works, Opens, Taking
  <2> QED
    BY <1>4, <1>a, <2>1 DEF Route, Wait, WAt
<1>5. CASE RouteAppend(w)
  <2> DEFINE m == Oldest(worker[w].todo)
  <2>1. m \in For(w) => m \in Messages
    BY DEF For, Pending
  <2>2. /\ worker[w].pc = "routeAppend" /\ worker'[w].pc \in {"command", "route"}
        /\ worker'[w].phase = worker[w].phase /\ worker'[w].due = worker[w].due
        /\ worker'[w].item = worker[w].item \/ (worker'[w].item = m /\ m \in For(w))
    <3> DEFINE r == [worker[w] EXCEPT !.pc = "command", !.item = m, !.todo = @ \ {m},
                                      !.delivered = @ \cup {m}]
               s == [worker[w] EXCEPT !.pc = "route", !.todo = @ \ {m}]
    <3>1. worker[w].pc = "routeAppend" /\ ((worker'[w] = r /\ m \in For(w)) \/ worker'[w] = s)
      BY <1>5 DEF RouteAppend, WAt
    <3>2. /\ r.pc = "command" /\ r.phase = worker[w].phase /\ r.due = worker[w].due
          /\ r.item = m /\ s.pc = "route" /\ s.phase = worker[w].phase
          /\ s.due = worker[w].due /\ s.item = worker[w].item
      BY DEF WorkerState
    <3> HIDE DEF r, s, m
    <3> QED
      BY <3>1, <3>2
  <2> QED
    BY <1>b, <2>1, <2>2 DEF Opens, Taking
<1>6. CASE Assess(w)
  <2>1. \/ worker' = [worker EXCEPT ![w] = Serve(worker[w])]
        \/ worker' = [worker EXCEPT ![w].pc = "wait", ![w].stuck = TRUE]
        \/ worker' = [worker EXCEPT ![w] = Turn(worker[w], "unfinished")]
        \/ worker' = [worker EXCEPT ![w] =
                        [Turn(worker[w], "unfinished") EXCEPT !.phase = "resumed"]]
    BY <1>6 DEF Assess
  <2> DEFINE t == [Turn(worker[w], "unfinished") EXCEPT !.phase = "resumed"]
             s == [worker[w] EXCEPT !.pc = "wait", !.stuck = TRUE]
             u == Turn(worker[w], "unfinished")
  <2>2. worker[w].pc = "route" /\ worker[w].phase \in Planning
    BY <1>6 DEF Assess, WAt, Finds, Planning
  <2>3. /\ Serve(worker[w]).pc \in {"drain", "turn"} /\ t.pc = "turn" /\ s.pc = "wait"
        /\ u.pc = "turn" /\ u.item # "intent" /\ t.item # "intent"
        /\ s.item = worker[w].item /\ s.phase = worker[w].phase /\ s.due = worker[w].due
        /\ t.due = worker[w].due /\ u.phase = "last"
        /\ Serve(worker[w]).phase \in {"first", "last"}
        /\ Serve(worker[w]).item # worker[w].item =>
             worker[w].due = {} /\ Serve(worker[w]).due = {}
    BY DEF Serve, Turn, WorkerState
  <2>4. worker'[w] \in {Serve(worker[w]), t, s, u}
    BY <2>1
  <2> HIDE DEF s, t, u
  <2> QED
    BY <2>2, <2>3, <2>4 DEF Works, Opens, Taking, Planning
<1>7. CASE WaitAppend(w) \/ TurnFails(w) \/ Interrupt(w)
  BY <1>7, <1>a DEF WaitAppend, TurnFails, Interrupt, WAt
<1>8. CASE CommandEnds(w) \/ TurnEnds(w) \/ CommandRejected(w)
  <2>1. ASSUME NEW r \in WorkerState, worker' = [worker EXCEPT ![w] = AfterItem(r)],
               r.phase = worker[w].phase, r.due = worker[w].due, worker[w].pc # "gone"
        PROVE  Works(w)
    <3>1. /\ worker'[w].pc \in {"route", "drain"} /\ worker'[w].phase = r.phase
          /\ worker'[w].due = r.due /\ worker'[w].item = NoOne
      BY <2>1, AfterItemTyped, AfterItemKeeps
    <3> QED
      BY <1>b, <2>1, <3>1 DEF Opens, Taking
  <2>2. ASSUME NEW waits \in BOOLEAN, NEW m \in Messages
        PROVE  /\ [worker[w] EXCEPT !.completed = @ \cup {m}, !.idle = waits] \in WorkerState
               /\ [worker[w] EXCEPT !.completed = @ \cup {m}, !.idle = waits].phase
                    = worker[w].phase
               /\ [worker[w] EXCEPT !.completed = @ \cup {m}, !.idle = waits].due
                    = worker[w].due
               /\ [worker[w] EXCEPT !.delivered = @ \ {m}, !.fatal = TRUE] \in WorkerState
               /\ [worker[w] EXCEPT !.delivered = @ \ {m}, !.fatal = TRUE].phase
                    = worker[w].phase
               /\ [worker[w] EXCEPT !.delivered = @ \ {m}, !.fatal = TRUE].due = worker[w].due
    BY DEF WorkerState
  <2>3. CASE CommandEnds(w)
    BY <2>1, <2>2, <2>3 DEF CommandEnds, WAt, Finds
  <2>4. CASE TurnEnds(w)
    BY <2>1, <2>2, <2>4 DEF TurnEnds, WAt
  <2>5. CASE CommandRejected(w)
    BY <1>a, <2>1, <2>2, <2>5 DEF CommandRejected, WAt, Finds
  <2> QED
    BY <1>8, <2>3, <2>4, <2>5
<1>9. CASE ClaimNext(w)
  <2>1. worker[w].pc \in {"drain", "turn", "command"}
    BY <1>9 DEF ClaimNext, Bound, WAt
  <2>2. CASE IsOwner(w) /\ worker' = [worker EXCEPT ![w].pc = "rebind", ![w].inTurn = Bound(w)]
    <3>1. /\ worker'[w].pc = "rebind" /\ worker'[w].phase = worker[w].phase
          /\ worker'[w].due = worker[w].due /\ worker'[w].item = worker[w].item
      BY <2>2 DEF WorkerState
    <3> QED
      BY <2>1, <2>2, <3>1 DEF Works, Opens, Taking
  <2> QED
    BY <1>9, <1>a, <2>1, <2>2 DEF ClaimNext
<1>10. CASE Rebind(w)
  <2>1. worker[w].pc = "rebind"
    BY <1>10 DEF Rebind, WAt
  <2>2. CASE WGoto(w, "deliver")
    <3>1. /\ worker'[w].pc = "deliver" /\ worker'[w].phase = worker[w].phase
          /\ worker'[w].due = worker[w].due /\ worker'[w].item = worker[w].item
      BY <2>2 DEF WGoto, WorkerState
    <3> QED
      BY <2>1, <3>1 DEF Works, Opens, Taking
  <2>3. CASE worker' = [worker EXCEPT ![w] = Resume(worker[w])]
    <3>1. /\ worker'[w].pc \in {"command", "turn"} /\ worker'[w].phase = worker[w].phase
          /\ worker'[w].due = worker[w].due /\ worker'[w].item = worker[w].item
      BY <2>3, ResumeTyped, ResumeKeeps
    <3> QED
      BY <1>b, <2>1, <3>1 DEF Opens, Taking
  <2>4. CASE Drained(w)
    <3>1. CASE worker' = [worker EXCEPT ![w].pc = "drain", ![w].phase = "last", ![w].due = {}]
      <4>1. /\ worker'[w].pc = "drain" /\ worker'[w].phase = "last"
            /\ worker'[w].item = worker[w].item
        BY <3>1 DEF WorkerState
      <4> QED
        BY <2>1, <4>1 DEF Works, Opens, Taking, Planning
    <3> QED
      BY <1>a, <2>1, <2>4, <3>1 DEF Drained
  <2> QED
    BY <1>10, <2>2, <2>3, <2>4 DEF Rebind
<1>11. CASE Deliver(w)
  <2>1. PICK m \in Messages : m = Oldest(For(w))
    BY <1>11 DEF Deliver, WAt, Finds, For, Pending
  <2> DEFINE r == [worker[w] EXCEPT !.delivered = @ \cup {m}]
  <2>2. /\ r \in WorkerState /\ worker' = [worker EXCEPT ![w] = TakeUp(r, m)]
        /\ r.phase = worker[w].phase /\ r.due = worker[w].due /\ r.item = worker[w].item
    BY <1>11, <2>1 DEF Deliver, WorkerState
  <2>3. worker[w].pc = "deliver"
    BY <1>11 DEF Deliver, WAt
  <2> HIDE DEF r
  <2>4. /\ worker'[w].pc \in {"command", "turn"} /\ worker'[w].phase = worker[w].phase
        /\ worker'[w].due = worker[w].due /\ worker'[w].item \in {worker[w].item, m}
    BY <2>2, TakeUpTyped, TakeUpKeeps
  <2> QED
    BY <1>b, <2>3, <2>4 DEF Opens, Taking
<1>12. CASE Settle(w) \/ Sweep(w)
  <2>1. \/ worker' = [worker EXCEPT ![w].pc = "sweep", ![w].completed = {}, ![w].seen = Glance]
        \/ worker' = [worker EXCEPT ![w].pc = "finalize", ![w].completed = {}]
        \/ worker' = [worker EXCEPT ![w].pc = "finalize", ![w].seen = Launched]
    BY <1>12 DEF Settle, Sweep
  <2>2. /\ worker'[w].pc \in {"sweep", "finalize"} /\ worker'[w].phase = worker[w].phase
        /\ worker'[w].due = worker[w].due /\ worker'[w].item = worker[w].item
    BY <2>1 DEF WorkerState
  <2>3. worker[w].pc # "gone"
    BY <1>12 DEF Settle, Sweep, WAt
  <2> QED
    BY <1>b, <2>2, <2>3 DEF Opens, Taking
<1>13. CASE Finalize(w) \/ WorkerDies(w)
  BY <1>13, GoneKeeps DEF Finalize, WorkerDies, WAt, Alive, Works, Opens, Taking, Planning
<1> QED
  BY <1>1, <1>2, <1>3, <1>4, <1>5, <1>6, <1>7, <1>8, <1>9, <1>10, <1>11, <1>12, <1>13
     DEF WorkerStep, InWorker

(* What one step makes of the record *)
Started == \E c \in Clients : Start(c) /\ SameOwner(client[c].seen)

ClaimedBy(w) ==
  /\ Claim(w) /\ session'.lease = w /\ session'.attempt > session.attempt
  /\ session'.status = "RUNNING" /\ session'.forInput = session.forInput

Owned == {"RUNNING", "CANCELLING"}

RecordMoves ==
  /\ session'.attempt >= session.attempt
  /\ \/ session'.lease = session.lease \/ session'.lease = NoOne
     \/ \E w \in Workers : ClaimedBy(w)
  /\ session'.status \notin Owned =>
       \/ session.status \notin Owned
       \/ session'.lease = NoOne \/ ~Alive(session.lease) \/ Started
  /\ session'.forInput # session.forInput => Started
  /\ session'.status = "STARTING" => session.status = "STARTING" \/ Started

LEMMA SessionMoves ==
  ASSUME InputTypeOK, [Next]_vars
  PROVE  RecordMoves
<1> session \in SessionRecord /\ session.attempt \in Nat
  BY DEF InputTypeOK, SessionRecord
<1>a. CASE UNCHANGED session
  BY <1>a DEF RecordMoves
<1>b. ASSUME NEW s \in SessionStatuses \ {"STARTING"}, session'.status = s,
             session'.attempt = session.attempt, session'.forInput = session.forInput,
             \/ /\ session'.lease = session.lease
                /\ \/ s \in Owned \/ ~Alive(session.lease)
                   \/ session.status \notin Owned
             \/ session'.lease = NoOne
      PROVE  RecordMoves
  BY <1>b DEF RecordMoves
<1>1. ASSUME NEW s \in SessionStatuses \ {"STARTING"},
             session' = [session EXCEPT !.status = s],
             \/ s \in Owned \/ ~Alive(session.lease) \/ session.status \notin Owned
      PROVE  RecordMoves
  <2>1. /\ session'.status = s /\ session'.attempt = session.attempt
        /\ session'.lease = session.lease /\ session'.forInput = session.forInput
    BY <1>1 DEF SessionRecord
  <2> QED
    BY <1>1, <1>b, <2>1
<1>c. {"FAILED", "CANCELLING", "DELETED", "COMPLETED", "CANCELLED"}
        \subseteq SessionStatuses \ {"STARTING"}
  BY DEF SessionStatuses
<1>2. ASSUME NEW c \in Clients, NEW m \in Messages, SubmitOrphan(c, m)
      PROVE  RecordMoves
  BY <1>1, <1>2, <1>c DEF SubmitOrphan
<1>3. ASSUME NEW c \in Clients, Start(c)
      PROVE  RecordMoves
  <2>1. CASE /\ SameOwner(client[c].seen)
             /\ session' = [session EXCEPT !.status = "STARTING", !.pid = FALSE,
                              !.forInput = TRUE, !.cancelled = FALSE, !.stuck = FALSE]
    <3>1. session'.attempt = session.attempt /\ session'.lease = session.lease
      BY <2>1 DEF SessionRecord
    <3>2. Started
      BY <1>3, <2>1 DEF Started
    <3> QED
      BY <3>1, <3>2 DEF RecordMoves
  <2> QED
    BY <1>3, <1>a, <2>1 DEF Start
<1>4. ASSUME NEW c \in Clients, Cancel(c) \/ Cancelled(c)
      PROVE  RecordMoves
  <2>1. \/ session' = [session EXCEPT !.status = "CANCELLING", !.cancelled = TRUE]
        \/ session' = [session EXCEPT !.status = "CANCELLED", !.lease = NoOne]
        \/ UNCHANGED session
    BY <1>4 DEF Cancel, Cancelled, Update
  <2>2. CASE session' = [session EXCEPT !.status = "CANCELLING", !.cancelled = TRUE]
    <3>1. /\ session'.status = "CANCELLING" /\ session'.attempt = session.attempt
          /\ session'.lease = session.lease /\ session'.forInput = session.forInput
      BY <2>2 DEF SessionRecord
    <3> QED
      BY <1>b, <1>c, <3>1 DEF Owned
  <2>3. CASE session' = [session EXCEPT !.status = "CANCELLED", !.lease = NoOne]
    <3>1. /\ session'.status = "CANCELLED" /\ session'.attempt = session.attempt
          /\ session'.lease = NoOne /\ session'.forInput = session.forInput
      BY <2>3 DEF SessionRecord
    <3> QED
      BY <1>b, <1>c, <3>1
  <2> QED
    BY <1>a, <2>1, <2>2, <2>3
<1>5. CASE RecordStep
  <2>1. CASE RecordPid
    <3>1. session' = [session EXCEPT !.pid = TRUE] /\ session.status = "STARTING"
      BY <2>1 DEF RecordPid, Update
    <3>2. /\ session'.status = "STARTING" /\ session'.attempt = session.attempt
          /\ session'.lease = session.lease /\ session'.forInput = session.forInput
      BY <3>1 DEF SessionRecord
    <3> QED
      BY <3>1, <3>2 DEF RecordMoves, Owned
  <2>2. CASE Delete \/ RestoreDeleted \/ MarkOrphaned
    BY <1>1, <1>c, <2>2
       DEF Delete, RestoreDeleted, MarkOrphaned, Update, Recoverable, Owned
  <2> QED
    BY <1>5, <2>1, <2>2 DEF RecordStep
<1>6. ASSUME NEW w \in Workers, Claim(w)
      PROVE  RecordMoves
  <2>1. session' = [session EXCEPT !.status = "RUNNING", !.lease = w, !.pid = TRUE,
                      !.attempt = session.attempt + 1, !.cancelled = FALSE, !.stuck = FALSE]
    BY <1>6 DEF Claim
  <2>2. /\ session'.status = "RUNNING" /\ session'.attempt = session.attempt + 1
        /\ session'.lease = w /\ session'.forInput = session.forInput
    BY <2>1 DEF SessionRecord
  <2>3. session'.attempt > session.attempt
    BY <2>2
  <2>4. ClaimedBy(w)
    BY <1>6, <2>2, <2>3 DEF ClaimedBy
  <2> QED
    BY <2>2, <2>3, <2>4 DEF RecordMoves, Owned
<1>7. ASSUME NEW w \in Workers, LaunchFails(w)
      PROVE  RecordMoves
  BY <1>1, <1>7, <1>c DEF LaunchFails, Owned
<1>8. ASSUME NEW w \in Workers, Finalize(w)
      PROVE  RecordMoves
  <2>1. worker[w].out \in Outcome /\ worker[w].stuck \in BOOLEAN
    BY DEF InputTypeOK, WorkerState
  <2>2. ASSUME NEW s \in SessionStatuses \ {"STARTING"}, NEW t \in BOOLEAN,
               \/ session' = [session EXCEPT !.status = s, !.lease = NoOne, !.stuck = t]
               \/ session' = [[session EXCEPT !.status = s, !.lease = NoOne, !.stuck = t]
                                EXCEPT !.stuck = FALSE]
        PROVE  RecordMoves
    <3>1. /\ session'.status = s /\ session'.attempt = session.attempt
          /\ session'.lease = NoOne /\ session'.forInput = session.forInput
      BY <2>2 DEF SessionRecord
    <3> QED
      BY <1>b, <3>1
  <2> QED
    BY <1>8, <1>a, <1>c, <2>1, <2>2 DEF Finalize, Outcome
<1>9. ASSUME NEW c \in Clients, NEW m \in Messages, SubmitLive(c, m) \/ SubmitDeferred(c, m)
      PROVE  UNCHANGED session
  BY <1>9 DEF SubmitLive, SubmitDeferred
<1>10. ASSUME NEW c \in Clients,
              View(c) \/ Maintain(c) \/ Enqueue(c) \/ EnqueueAppend(c) \/ Defer(c)
                \/ DeferAppend(c) \/ Rearm(c) \/ RearmAppend(c) \/ Receipts(c)
       PROVE  UNCHANGED session
  BY <1>10 DEF View, Maintain, Enqueue, EnqueueAppend, Defer, DeferAppend, Rearm, RearmAppend,
               Receipts
<1>11. ASSUME NEW w \in Workers,
              Acquire(w) \/ Plan(w) \/ Planned(w) \/ Route(w) \/ RouteAppend(w) \/ Assess(w)
                \/ Wait(w) \/ WaitAppend(w) \/ CommandEnds(w) \/ ClaimNext(w)
       PROVE  UNCHANGED session
  BY <1>11 DEF Acquire, Plan, Planned, Route, RouteAppend, Assess, Wait, WaitAppend, CommandEnds,
               ClaimNext
<1>12. ASSUME NEW w \in Workers,
              Rebind(w) \/ Deliver(w) \/ TurnEnds(w) \/ Settle(w) \/ Sweep(w)
                \/ CommandRejected(w) \/ TurnFails(w) \/ Interrupt(w) \/ WorkerDies(w)
       PROVE  UNCHANGED session
  BY <1>12 DEF Rebind, Deliver, TurnEnds, Settle, Sweep, CommandRejected, TurnFails, Interrupt,
               WorkerDies
<1> QED
  BY <1>a, <1>2, <1>3, <1>4, <1>5, <1>6, <1>7, <1>8, <1>9, <1>10, <1>11, <1>12, NextSteps
     DEF ClientStep, WorkerStep, InCall, InWorker, vars

-----------------------------------------------------------------------------
(* What a step leaves as it is *)

(* A deferred message stays one until a worker binds it; a closed receipt
   stays closed *)
LEMMA AwaitsStep ==
  ASSUME LogMoves, NoneTakes, Awaits
  PROVE  Awaits'
<1>1. PICK m \in Messages : receipt[m].deferred /\ receipt[m].state \in {"accepted", "rejected"}
  BY DEF Awaits
<1>2. Kept(m) \/ Defers(m) \/ Rejects(m)
  BY <1>1 DEF LogMoves, AcceptsOne, Accepts, Moves, Binds, Delivers, Completes, NoneTakes, Taking
<1>3. receipt'[m].deferred /\ receipt'[m].state \in {"accepted", "rejected"}
  BY <1>1, <1>2 DEF Kept, Defers, Rejects
<1> QED
  BY <1>3 DEF Awaits

LEMMA ClosedStep ==
  ASSUME LogMoves, NEW m \in Messages,
         receipt[m].state \in {"completed", "failed", "rejected"}
  PROVE  Kept(m)
BY DEF LogMoves, AcceptsOne, Accepts, Moves, Defers, Binds, Delivers, Completes, Rejects

LEMMA DismissedStep ==
  ASSUME LogMoves, Dismissed
  PROVE  Dismissed'
<1>1. PICK m \in Messages : receipt[m].deferred /\ receipt[m].state = "rejected"
  BY DEF Dismissed
<1> QED
  BY <1>1, ClosedStep DEF Dismissed, Kept

(* While the supervisor c has the lock, the log stays as it is unless c moves *)
LEMMA ClientLockKeeps ==
  ASSUME InputTypeOK, [Next]_vars, NEW c \in Clients, lock = c, client'[c] = client[c]
  PROVE  UNCHANGED receipt
<1> /\ lock # NoOne /\ \A d \in Clients \ {c} : lock # d
    /\ client[c].pc \in ClientCritical
    /\ \A d \in Clients \ {c} : client[d].pc \notin ClientCritical
    /\ \A v \in Workers : worker[v].pc \notin WorkerCritical
    /\ client[c] \in ClientState /\ client \in [Clients -> ClientState]
  BY InputAssumption DEF InputTypeOK
<1>1. ASSUME NEW d \in Clients,
             \/ \E m \in Messages :
                  SubmitLive(d, m) \/ SubmitDeferred(d, m) \/ SubmitOrphan(d, m)
             \/ View(d) \/ Maintain(d) \/ Cancel(d) \/ Start(d) \/ Cancelled(d)
      PROVE  UNCHANGED receipt
  BY <1>1 DEF SubmitLive, SubmitDeferred, SubmitOrphan, Submit, View, Maintain, Cancel, Start,
              Cancelled, Update
<1>2. ASSUME NEW d \in Clients, Enqueue(d) \/ Defer(d) \/ Rearm(d) \/ Receipts(d)
      PROVE  FALSE
  BY <1>2 DEF Enqueue, Defer, Rearm, Receipts, Free
<1>3. ASSUME NEW d \in Clients, EnqueueAppend(d) \/ DeferAppend(d) \/ RearmAppend(d)
      PROVE  FALSE
  <2>1. d = c
    BY <1>3 DEF EnqueueAppend, DeferAppend, RearmAppend, At, ClientCritical
  <2>2. Return(c) \/ Goto(c, "rearm") \/ Goto(c, "start")
    BY <1>3, <2>1 DEF EnqueueAppend, DeferAppend, RearmAppend
  <2>3. client'[c].pc \in {"idle", "rearm", "start"}
    BY <2>2 DEF Return, Goto, Idle, ClientState
  <2> QED
    BY <2>3 DEF ClientCritical
<1>4. ASSUME RecordStep PROVE UNCHANGED receipt
  BY <1>4, RecordFrame
<1>5. ASSUME NEW v \in Workers,
             Planned(v) \/ Settle(v) \/ Sweep(v) \/ CommandRejected(v)
               \/ RouteAppend(v) \/ WaitAppend(v) \/ Rebind(v) \/ Deliver(v)
      PROVE  FALSE
  BY <1>5 DEF Planned, Settle, Sweep, CommandRejected, Free, RouteAppend, WaitAppend, Rebind,
              Deliver, WAt, WorkerCritical
<1>6. ASSUME NEW v \in Workers,
             Claim(v) \/ LaunchFails(v) \/ Acquire(v) \/ Plan(v) \/ Route(v) \/ Assess(v)
               \/ Wait(v) \/ CommandEnds(v) \/ ClaimNext(v) \/ TurnEnds(v) \/ TurnFails(v)
               \/ Interrupt(v) \/ Finalize(v) \/ WorkerDies(v)
      PROVE  UNCHANGED receipt
  BY <1>6 DEF Claim, LaunchFails, Acquire, Plan, Route, Assess, Wait, CommandEnds, ClaimNext,
              TurnEnds, TurnFails, Interrupt, Finalize, WorkerDies
<1> QED
  BY <1>1, <1>2, <1>3, <1>4, <1>5, <1>6, NextSteps
     DEF ClientStep, InCall, WorkerStep, InWorker, vars

(* A worker rests or works *)
LEMMA RestsOrWorks ==
  ASSUME InputTypeOK, \A v \in Workers : Finds(v), NEW w \in Workers, [Next]_vars
  PROVE  worker'[w] = worker[w] \/ (WorkerStep(w) /\ Works(w))
<1>1. ASSUME NEW v \in Workers, WorkerStep(v), v # w
      PROVE  worker'[w] = worker[w]
  BY <1>1, WorkerMoves
<1>2. ASSUME NEW c \in Clients, ClientStep(c)
      PROVE  worker'[w] = worker[w]
  BY <1>2, ClientFrame DEF InputTypeOK
<1> QED
  BY <1>1, <1>2, WorkerWorks, RecordFrame, NextSteps DEF vars

-----------------------------------------------------------------------------
(* The worker of the record and what was started for a message *)

(* Who is gone stays gone; nobody but the live owner starts to take messages *)
LEMMA VacantStep ==
  ASSUME InputTypeOK, \A w \in Workers : Finds(w), [Next]_vars, Vacant,
         session'.lease \in {session.lease, NoOne}
  PROVE  Vacant'
<1>1. ASSUME session'.lease # NoOne
      PROVE  worker'[session'.lease].pc = "gone"
  <2>1. session'.lease \in Workers /\ worker[session'.lease].pc = "gone"
    BY <1>1 DEF Vacant, InputTypeOK, SessionRecord
  <2> QED
    BY <2>1, RestsOrWorks DEF Works
<1> QED
  BY <1>1 DEF Vacant

LEMMA NoneTakesStep ==
  ASSUME InputTypeOK, \A w \in Workers : Finds(w), [Next]_vars, NoneTakes,
         Vacant \/ (session.lease # NoOne => worker[session.lease].pc \in Opens)
  PROVE  NoneTakes'
<1>1. ASSUME NEW w \in Workers, worker'[w].pc \in Taking
      PROVE  FALSE
  <2>1. WorkerStep(w) /\ Works(w)
    BY <1>1, RestsOrWorks DEF NoneTakes
  <2>2. IsOwner(w) /\ worker[w].pc \notin Opens /\ worker[w].pc # "gone"
    BY <1>1, <2>1 DEF Works, NoneTakes
  <2> QED
    BY <2>2 DEF IsOwner, Vacant
<1> QED
  BY <1>1 DEF NoneTakes

(* A session that is started for a message has no worker left *)
LEMMA StartedFinds ==
  ASSUME InputTypeOK, \A c \in Clients : Knows(c), Started
  PROVE  /\ Vacant /\ Awaits /\ NoneTakes
         /\ UNCHANGED <<receipt, worker>> /\ session'.lease = session.lease
<1>1. PICK c \in Clients : Start(c) /\ SameOwner(client[c].seen)
  BY DEF Started
<1>2. client[c].pc = "start" /\ UNCHANGED <<receipt, worker>>
  BY <1>1 DEF Start, At
<1>3. /\ Resumes(c) /\ client[c].pc \in Starting
      /\ client[c].seen.attempt = session.attempt
  BY <1>1, <1>2 DEF Resumes, Starting, SameOwner
<1>4. Vacant /\ Awaits /\ NoneTakes
  BY <1>1, <1>3 DEF Knows
<1>5. session'.lease = session.lease
  BY <1>1 DEF Start, InputTypeOK, SessionRecord
<1> QED
  BY <1>2, <1>4, <1>5

LEMMA ClaimFinds ==
  ASSUME InputTypeOK, NEW w \in Workers, Claim(w)
  PROVE  /\ worker[w].pc = "unborn" /\ session.status = "STARTING"
         /\ worker'[w].pc = "acquire" /\ worker'[w].phase = worker[w].phase
  BY DEF Claim, WAt, WGoto, InputTypeOK, WorkerState

LEMMA LeasedStep ==
  ASSUME InputTypeOK, \A w \in Workers : Finds(w), \A c \in Clients : Knows(c), Leased,
         InputTypeOK', [Next]_vars
  PROVE  Leased'
<1> RecordMoves
  BY SessionMoves
<1> session.lease \in Workers \cup {NoOne} /\ session'.lease \in Workers \cup {NoOne}
  BY DEF InputTypeOK, SessionRecord
<1>1. ASSUME session'.lease # NoOne
      PROVE  worker'[session'.lease].pc # "unborn"
  <2>1. CASE session'.lease = session.lease
    BY <1>1, <2>1, RestsOrWorks DEF Leased, Works
  <2>2. ASSUME NEW w \in Workers, ClaimedBy(w)
        PROVE  worker'[session'.lease].pc # "unborn"
    BY <2>2, ClaimFinds DEF ClaimedBy
  <2> QED
    BY <1>1, <2>1, <2>2 DEF RecordMoves
<1>2. ASSUME session'.status \notin Owned
      PROVE  Vacant'
  <2>1. session'.lease \in {session.lease, NoOne}
    BY <1>2 DEF RecordMoves, ClaimedBy, Owned
  <2>2. CASE session'.lease = NoOne
    BY <2>2 DEF Vacant
  <2>3. CASE session'.lease # NoOne
    <3>1. Vacant
      <4>1. CASE session.status \notin Owned
        BY <4>1 DEF Leased, Owned
      <4>2. CASE Started
        BY <4>2, StartedFinds
      <4>3. CASE ~Alive(session.lease)
        BY <4>3 DEF Alive, Leased, Vacant
      <4> QED
        BY <1>2, <2>3, <4>1, <4>2, <4>3 DEF RecordMoves
    <3> QED
      BY <2>1, <3>1, VacantStep
  <2> QED
    BY <2>2, <2>3
<1> QED
  BY <1>1, <1>2 DEF Leased, Owned

-----------------------------------------------------------------------------
(* What a supervisor knows *)

(* It stays true while others move *)
LEMMA KnowsKept ==
  ASSUME InputTypeOK, \A w \in Workers : Finds(w), [Next]_vars, LogMoves, InputTypeOK',
         NEW c \in Clients, Knows(c), client'[c] = client[c]
  PROVE  Knows(c)'
<1> DEFINE me == client[c]
<1> RecordMoves
  BY SessionMoves
<1> /\ session.attempt \in Nat /\ session'.attempt \in Nat /\ me.seen.attempt \in Nat
  BY DEF InputTypeOK, ClientState, SessionRecord
<1>1. ASSUME me.pc \in {"enqueueAppend", "deferAppend"}
      PROVE  UNCHANGED receipt
  BY <1>1, ClientLockKeeps DEF InputTypeOK, ClientCritical
<1>2. UNCHANGED receipt => Known' = Known /\ (Full' <=> Full)
  BY DEF Known, Full, Pending
<1>3. me.seen.attempt <= session'.attempt
  BY DEF Knows, RecordMoves
<1>4. ASSUME Resumes(c), me.seen.attempt = session'.attempt
      PROVE  /\ me.seen.attempt = session.attempt
             /\ session'.lease \in {session.lease, NoOne}
             /\ me.seen.lease = NoOne => session.lease = NoOne /\ session'.lease = NoOne
             /\ SameOwner(me.seen)' => Vacant'
  <2>1. me.seen.attempt = session.attempt /\ ~(session'.attempt > session.attempt)
    BY <1>4 DEF Knows, RecordMoves
  <2>2. session'.lease \in {session.lease, NoOne}
    BY <2>1 DEF RecordMoves, ClaimedBy
  <2>3. me.seen.lease = NoOne => session.lease = NoOne
    BY <1>4, <2>1 DEF Knows
  <2>4. ASSUME SameOwner(me.seen)' PROVE Vacant'
    <3>1. CASE session'.lease = NoOne
      BY <3>1 DEF Vacant
    <3>2. CASE session'.lease # NoOne
      <4>1. session'.lease = me.seen.lease
        BY <2>4 DEF SameOwner
      <4>2. SameOwner(me.seen)
        BY <2>1, <2>2, <3>2, <4>1 DEF SameOwner
      <4>3. Vacant
        BY <1>4, <2>1, <4>2 DEF Knows
      <4> QED
        BY <2>2, <4>3, VacantStep
    <3> QED
      BY <3>1, <3>2
  <2> QED
    BY <2>1, <2>2, <2>3, <2>4
<1>5. ASSUME me.pc \in Starting, SameOwner(me.seen)'
      PROVE  Awaits' /\ NoneTakes'
  <2>1. Resumes(c) /\ me.seen.attempt = session'.attempt /\ me.seen.lease = session'.lease
    BY <1>5 DEF Resumes, SameOwner
  <2>2. SameOwner(me.seen)
    BY <1>4, <2>1 DEF SameOwner
  <2>3. Vacant /\ Awaits /\ NoneTakes
    BY <1>4, <1>5, <2>1, <2>2 DEF Knows
  <2> QED
    BY <2>3, AwaitsStep, NoneTakesStep
<1>6. Resumes(c)' <=> Resumes(c)
  BY DEF Resumes
<1> QED
  BY <1>1, <1>2, <1>3, <1>4, <1>5, <1>6 DEF Knows, Intends

(* It is at rest *)
LEMMA IdleKnows ==
  ASSUME InputTypeOK', NEW c \in Clients, client'[c] = Idle
  PROVE  Knows(c)'
<1> session'.attempt \in Nat
  BY DEF InputTypeOK, SessionRecord
<1> QED
  BY DEF Knows, Idle, Launched, Intends, Starting, Resumes

(* It waits for the lock, or has decided on a new attempt, with nobody left *)
LEMMA DefersKnows ==
  ASSUME InputTypeOK', NEW c \in Clients, Vacant',
         \/ client'[c].pc = "defer" /\ client'[c].item \in Messages
         \/ client'[c].pc = "receipts",
         client'[c].seen.attempt = session'.attempt,
         client'[c].seen.lease = session'.lease
  PROVE  Knows(c)'
<1> session'.attempt \in Nat
  BY DEF InputTypeOK, SessionRecord
<1> QED
  BY DEF Knows, Intends, Starting, Resumes

(* Its own steps: what it reads at the start of a call *)
LEMMA SubmitKnows ==
  ASSUME InputTypeOK, Leased, InputTypeOK', NEW c \in Clients, NEW m \in Messages,
         SubmitLive(c, m) \/ SubmitDeferred(c, m) \/ SubmitOrphan(c, m)
  PROVE  Knows(c)'
<1> /\ client \in [Clients -> ClientState] /\ session \in SessionRecord
    /\ session'.attempt \in Nat
  BY DEF InputTypeOK, SessionRecord
<1>1. CASE SubmitLive(c, m)
  <2>1. /\ client'[c].pc = "enqueue" /\ client'[c].item = m
        /\ client'[c].seen.attempt = 0
    BY <1>1 DEF SubmitLive, Submit, Idle, Glance, Launched
  <2> QED
    BY <2>1 DEF Knows, Intends, Starting, Resumes
<1>2. CASE SubmitDeferred(c, m)
  <2>1. /\ client'[c].pc = "defer" /\ client'[c].item = m
        /\ client'[c].seen.attempt = session.attempt /\ client'[c].seen.lease = session.lease
    BY <1>2 DEF SubmitDeferred, Submit, Idle, Look, Glance, Launched
  <2>2. UNCHANGED <<session, worker>> /\ Vacant
    BY <1>2 DEF SubmitDeferred, Submit, Leased, Recoverable
  <2> QED
    BY <2>1, <2>2, DefersKnows DEF Vacant
<1>3. CASE SubmitOrphan(c, m)
  <2>1. /\ client'[c].pc = "defer" /\ client'[c].item = m
        /\ client'[c].seen.attempt = session.attempt /\ client'[c].seen.lease = session.lease
    BY <1>3 DEF SubmitOrphan, Submit, Idle, Look, Glance, Launched
  <2>2. /\ session'.lease = session.lease /\ session'.attempt = session.attempt
        /\ UNCHANGED worker /\ ~Alive(session.lease)
    BY <1>3 DEF SubmitOrphan, Submit, SessionRecord
  <2>3. Vacant'
    BY <2>2 DEF Vacant, Leased, Alive
  <2> QED
    BY <2>1, <2>2, <2>3, DefersKnows
<1> QED
  BY <1>1, <1>2, <1>3

LEMMA AsksKnows ==
  ASSUME InputTypeOK, Leased, InputTypeOK', NEW c \in Clients, Knows(c),
         View(c) \/ Maintain(c) \/ Cancel(c)
  PROVE  Knows(c)'
<1> /\ client \in [Clients -> ClientState] /\ client[c] \in ClientState
    /\ session \in SessionRecord /\ session'.attempt \in Nat
  BY DEF InputTypeOK, SessionRecord
<1> client[c].pc = "idle"
  BY DEF View, Maintain, Cancel, Starts, At
<1>1. CASE View(c)
  <2>1. /\ client'[c].pc = "receipts" /\ client'[c].maintains = client[c].maintains
        /\ client'[c].seen.attempt = 0
    BY <1>1 DEF View, ClientState, Glance, Launched
  <2>2. ~client'[c].maintains
    BY <2>1 DEF Knows
  <2> QED
    BY <2>1, <2>2 DEF Knows, Intends, Starting, Resumes
<1>2. CASE Maintain(c)
  <2>1. /\ client'[c].pc = "receipts"
        /\ client'[c].seen.attempt = session.attempt /\ client'[c].seen.lease = session.lease
    BY <1>2 DEF Maintain, ClientState, SessionRecord
  <2>2. UNCHANGED <<session, worker>> /\ Vacant
    BY <1>2 DEF Maintain, MayStart, Leased
  <2> QED
    BY <2>1, <2>2, DefersKnows DEF Vacant
<1>3. CASE Cancel(c)
  <2>1. client'[c].pc = "cancelled" /\ client'[c].seen = client[c].seen
    BY <1>3 DEF Cancel, Goto, ClientState
  <2>2. session'.attempt = session.attempt
    BY <1>3 DEF Cancel, Update, SessionRecord
  <2> QED
    BY <2>1, <2>2 DEF Knows, Intends, Starting, Resumes
<1> QED
  BY <1>1, <1>2, <1>3

(* A supervisor goes on, with what it read before *)
LEMMA GoesOnKnows ==
  ASSUME InputTypeOK, InputTypeOK', NEW c \in Clients, Knows(c), Resumes(c),
         UNCHANGED <<session, worker>>,
         client'[c].pc \in {"deferAppend"} \cup Starting, client'[c].item = client[c].item,
         client'[c].seen.attempt = client[c].seen.attempt,
         client'[c].seen.lease = client[c].seen.lease,
         client'[c].pc = "deferAppend" =>
           client[c].item \in Messages /\ (client[c].item \in Known' \/ ~Full'),
         client'[c].pc \in Starting /\ SameOwner(client[c].seen) => Awaits' /\ NoneTakes
  PROVE  Knows(c)'
<1>1. NoneTakes' <=> NoneTakes
  BY DEF NoneTakes
<1>2. Vacant' <=> Vacant
  BY DEF Vacant
<1> QED
  BY <1>1, <1>2 DEF Knows, Intends, Starting, Resumes, SameOwner

(* What enqueue_deferred leaves accepted waits for the next worker *)
LEMMA DeferredAwaits ==
  ASSUME NEW m \in Messages, InputTypeOK, Deferred(m).state = "accepted"
  PROVE  Deferred(m).deferred
<1>1. CASE m \notin Known
  <2>1. m \notin Pending
    BY <1>1 DEF Pending, Known
  <2>2. Deferred(m) = Accepted(NoOne)
    BY <1>1, <2>1 DEF Deferred
  <2>3. Accepted(NoOne).deferred = (NoOne = NoOne)
    BY DEF Accepted
  <2> QED
    BY <2>2, <2>3
<1>2. CASE m \in Pending
  <2>1. m \in Known
    BY <1>2 DEF Pending, Known
  <2>2. Deferred(m) = [receipt[m] EXCEPT !.owner = NoOne, !.deferred = TRUE]
    BY <1>2, <2>1 DEF Deferred
  <2>3. receipt[m] \in Receipt
    BY DEF InputTypeOK
  <2> QED
    BY <2>2, <2>3 DEF Receipt
<1>3. CASE m \in Known /\ m \notin Pending
  <2>1. Deferred(m) = receipt[m]
    BY <1>3 DEF Deferred
  <2> QED
    BY <1>3, <2>1 DEF Pending
<1> QED
  BY <1>1, <1>2, <1>3

LEMMA AcceptKnows ==
  ASSUME InputTypeOK, IsFiniteSet(Known), InputTypeOK', NEW c \in Clients, Knows(c),
         Enqueue(c) \/ Defer(c) \/ DeferAppend(c)
  PROVE  Knows(c)'
<1> DEFINE me == client[c]
           m == client[c].item
<1> /\ client \in [Clients -> ClientState] /\ client[c] \in ClientState
    /\ session \in SessionRecord /\ session'.attempt \in Nat
  BY DEF InputTypeOK, SessionRecord
<1> UNCHANGED <<session, worker>>
  BY DEF Enqueue, Defer, DeferAppend
<1>a. CASE Return(c)
  BY <1>a, IdleKnows DEF Return
<1>1. CASE Enqueue(c)
  <2>1. CASE Goto(c, "enqueueAppend") /\ m \notin Known /\ ~Full /\ IsOwner(me.seen.lease)
    <3>1. /\ client'[c].pc = "enqueueAppend" /\ client'[c].item = m /\ me.pc = "enqueue"
          /\ client'[c].seen = me.seen /\ UNCHANGED receipt
      BY <1>1, <2>1 DEF Enqueue, Goto, At, ClientState
    <3>2. Known' = Known /\ (Full' <=> Full) /\ m \in Messages
      BY <3>1 DEF Known, Full, Pending, Knows, Intends
    <3> QED
      BY <2>1, <3>1, <3>2 DEF Knows, Intends, Starting, Resumes, IsOwner
  <2> QED
    BY <1>1, <1>a, <2>1 DEF Enqueue
<1>2. CASE Defer(c)
  <2>1. CASE Goto(c, "deferAppend") /\ (m \in Known \/ ~Full)
    <3>1. /\ client'[c].pc = "deferAppend" /\ client'[c].item = m /\ me.pc = "defer"
          /\ client'[c].seen = me.seen /\ UNCHANGED receipt
      BY <1>2, <2>1 DEF Defer, Goto, At, ClientState
    <3>2. Known' = Known /\ (Full' <=> Full) /\ m \in Messages
      BY <3>1 DEF Known, Full, Pending, Knows, Intends
    <3> QED
      BY <2>1, <3>1, <3>2, GoesOnKnows DEF Resumes, Starting
  <2> QED
    BY <1>2, <1>a, <2>1 DEF Defer
<1>3. CASE DeferAppend(c)
  <2>1. CASE Goto(c, "rearm") /\ receipt'[m].state = "accepted"
    <3>1. /\ client'[c].pc = "rearm" /\ client'[c].item = m /\ me.pc = "deferAppend"
          /\ client'[c].seen = me.seen
      BY <1>3, <2>1 DEF DeferAppend, Goto, At, ClientState
    <3>2. m \in Messages /\ receipt' = [receipt EXCEPT ![m] = Deferred(m)]
      BY <1>3, <3>1 DEF Knows, Intends, DeferAppend
    <3>3. receipt'[m].deferred
      <4>1. receipt'[m] = Deferred(m)
        BY <3>2 DEF InputTypeOK
      <4> QED
        BY <2>1, <3>2, <4>1, DeferredAwaits
    <3>4. Awaits'
      BY <2>1, <3>2, <3>3 DEF Awaits
    <3>5. NoneTakes
      <4>1. lock = c
        BY <3>1 DEF InputTypeOK, ClientCritical
      <4>2. \A w \in Workers : worker[w].pc \notin WorkerCritical
        BY <4>1, InputAssumption DEF InputTypeOK
      <4> QED
        BY <4>2 DEF NoneTakes, Taking, WorkerCritical
    <3> QED
      BY <3>1, <3>4, <3>5, GoesOnKnows DEF Resumes, Starting
  <2> QED
    BY <1>3, <1>a, <2>1 DEF DeferAppend
<1> QED
  BY <1>1, <1>2, <1>3

LEMMA ResumeKnows ==
  ASSUME InputTypeOK, Leased, LogMoves, InputTypeOK', NEW c \in Clients, Knows(c),
         Rearm(c) \/ RearmAppend(c) \/ Receipts(c)
  PROVE  Knows(c)'
<1> DEFINE me == client[c]
<1> /\ client \in [Clients -> ClientState] /\ client[c] \in ClientState
    /\ session \in SessionRecord /\ session'.attempt \in Nat
  BY DEF InputTypeOK, SessionRecord
<1> UNCHANGED <<session, worker>>
  BY DEF Rearm, RearmAppend, Receipts
<1>a. CASE Return(c)
  BY <1>a, IdleKnows DEF Return
<1>1. CASE Rearm(c)
  <2>1. CASE SameOwner(me.seen) /\ GotoSeen(c, "rearmAppend")
    <3>1. /\ client'[c].pc = "rearmAppend" /\ client'[c].item = me.item /\ me.pc = "rearm"
          /\ client'[c].seen.attempt = session.attempt
          /\ client'[c].seen.lease = session.lease /\ UNCHANGED receipt
      BY <1>1, <2>1 DEF Rearm, GotoSeen, At, ClientState, Look, Glance, Launched
    <3>2. Awaits /\ NoneTakes
      BY <2>1, <3>1 DEF Knows, Starting
    <3> QED
      BY <2>1, <3>1, <3>2, GoesOnKnows DEF Resumes, Starting, SameOwner, Awaits
  <2> QED
    BY <1>1, <1>a, <2>1 DEF Rearm
<1>2. CASE RearmAppend(c)
  <2>1. /\ client'[c].pc = "start" /\ client'[c].item = me.item /\ me.pc = "rearmAppend"
        /\ client'[c].seen = me.seen
    BY <1>2 DEF RearmAppend, Goto, At, ClientState
  <2>2. SameOwner(me.seen) => Awaits' /\ NoneTakes
    BY <2>1, AwaitsStep DEF Knows, Starting
  <2> QED
    BY <2>1, <2>2, GoesOnKnows DEF Resumes, Starting
<1>3. CASE Receipts(c)
  <2>1. CASE /\ client[c].maintains /\ ToStart(client[c].seen) # {}
             /\ client' = [client EXCEPT ![c].pc = "rearm", ![c].maintains = FALSE,
                             ![c].seen.forInput = FALSE, ![c].seen.stuck = FALSE]
    <3>1. /\ client'[c].pc = "rearm" /\ client'[c].item = me.item
          /\ client'[c].seen.attempt = me.seen.attempt /\ client'[c].seen.lease = me.seen.lease
      BY <2>1 DEF ClientState, SessionRecord
    <3>2. me.pc = "receipts" /\ lock = NoOne
      BY <1>3 DEF Receipts, At, Free
    <3>3. NoneTakes
      <4>1. \A w \in Workers : worker[w].pc \notin WorkerCritical
        BY <3>2, InputAssumption DEF InputTypeOK
      <4> QED
        BY <4>1 DEF NoneTakes, Taking, WorkerCritical
    <3>4. Awaits
      BY <2>1 DEF ToStart, Pending, Awaits
    <3> QED
      BY <2>1, <3>1, <3>2, <3>3, <3>4, AwaitsStep, GoesOnKnows DEF Resumes, Starting
  <2> QED
    BY <1>3, <1>a, <2>1 DEF Receipts
<1> QED
  BY <1>1, <1>2, <1>3

LEMMA KnowsStep ==
  ASSUME InputTypeOK, IsFiniteSet(Known), \A w \in Workers : Finds(w), Leased, LogMoves,
         InputTypeOK', [Next]_vars, NEW c \in Clients, Knows(c)
  PROVE  Knows(c)'
<1>1. CASE client'[c] = client[c]
  BY <1>1, KnowsKept
<1>2. CASE ClientStep(c)
  <2>1. CASE EnqueueAppend(c) \/ Start(c) \/ Cancelled(c)
    <3>1. client'[c] = Idle
      BY <2>1 DEF EnqueueAppend, Start, Cancelled, Return, InputTypeOK
    <3> QED
      BY <3>1, IdleKnows
  <2> QED
    BY <1>2, <2>1, SubmitKnows, AsksKnows, AcceptKnows, ResumeKnows DEF ClientStep, InCall
<1>3. ASSUME NEW d \in Clients, ClientStep(d), d # c
      PROVE  client'[c] = client[c]
  BY <1>3, ClientFrame DEF InputTypeOK
<1> QED
  BY <1>1, <1>2, <1>3, RecordFrame, WorkerFrame, NextSteps DEF vars

-----------------------------------------------------------------------------
(* An attempt for a message finds it *)

(* The worker lists the deferred messages with the record of a running session
   before it: it misses the one that its attempt is for only if that one has
   been rejected *)
LEMMA PlannedEmpty ==
  ASSUME InputTypeOK, NEW w \in Workers, Finds(w), Planned(w), worker'[w].due = {}, Awaits
  PROVE  Dismissed
<1> DEFINE due == {m \in Messages : receipt'[m].state = "accepted" /\ receipt'[m].deferred}
<1>1. worker'[w].due = due
  <2>1. PICK todo :
          \/ worker' = [worker EXCEPT ![w] =
                          Serve([worker[w] EXCEPT !.due = due, !.seen = Launched])]
          \/ worker' = [worker EXCEPT ![w] =
                          [[worker[w] EXCEPT !.due = due, !.seen = Launched]
                             EXCEPT !.pc = "route", !.phase = "route", !.todo = todo]]
    BY DEF Planned
  <2> DEFINE local == [worker[w] EXCEPT !.due = due, !.seen = Launched]
             r == [local EXCEPT !.pc = "route", !.phase = "route", !.todo = todo]
  <2>2. worker \in [Workers -> WorkerState] /\ worker[w] \in WorkerState
    BY DEF InputTypeOK
  <2>3. worker'[w] = Serve(local) \/ worker'[w] = r
    BY <2>1, <2>2
  <2>4. /\ Serve(local).due = due /\ r.due = due
    BY <2>2 DEF Serve, Turn, WorkerState
  <2> HIDE DEF local, r, due
  <2> QED
    BY <2>3, <2>4
<1>2. PICK m \in Messages : receipt[m].deferred /\ receipt[m].state \in {"accepted", "rejected"}
  BY DEF Awaits
<1>3. CASE receipt[m].state = "rejected"
  BY <1>2, <1>3 DEF Dismissed
<1>4. CASE receipt[m].state = "accepted"
  <2>1. worker[w].seen.status = "RUNNING" /\ receipt' = Reconciled(worker[w].seen)
    BY DEF Planned, Finds, WAt
  <2>2. receipt'[m] = receipt[m]
    BY <1>2, <2>1 DEF Reconciled
  <2> QED
    BY <1>1, <1>2, <1>4, <2>2
<1> QED
  BY <1>2, <1>3, <1>4

LEMMA ServedStep ==
  ASSUME InputTypeOK, \A w \in Workers : Finds(w), \A c \in Clients : Knows(c), Leased, Served,
         LogMoves, InputTypeOK', [Next]_vars
  PROVE  Served'
<1> RecordMoves
  BY SessionMoves
<1> session.lease \in Workers \cup {NoOne} /\ session'.lease \in Workers \cup {NoOne}
  BY DEF InputTypeOK, SessionRecord
<1> SUFFICES ASSUME session'.forInput
             PROVE  /\ session'.status = "STARTING" => Awaits' /\ NoneTakes'
                    /\ session'.lease # NoOne =>
                         LET me == worker'[session'.lease] IN
                         /\ me.pc \in Opens => Awaits' /\ NoneTakes'
                         /\ me.phase \in {"route", "resumed"} /\ me.due = {} => Dismissed'
  BY DEF Served
<1>a. ~Started => session.forInput
  BY DEF RecordMoves
<1>1. ASSUME session'.status = "STARTING"
      PROVE  Awaits' /\ NoneTakes'
  <2>1. CASE Started
    BY <2>1, StartedFinds DEF Awaits, NoneTakes
  <2>2. CASE ~Started
    <3>1. session.status = "STARTING" /\ Vacant
      BY <1>1, <2>2 DEF RecordMoves, Leased
    <3>2. Awaits /\ NoneTakes
      BY <1>a, <2>2, <3>1 DEF Served
    <3> QED
      BY <3>1, <3>2, AwaitsStep, NoneTakesStep
  <2> QED
    BY <2>1, <2>2
<1>2. ASSUME NEW w \in Workers, ClaimedBy(w)
      PROVE  /\ Awaits' /\ NoneTakes'
             /\ worker'[session'.lease].phase = "last"
  <2>1. session.forInput /\ session.status = "STARTING" /\ Vacant /\ session'.lease = w
    BY <1>2, ClaimFinds DEF ClaimedBy, Leased
  <2>2. Awaits /\ NoneTakes
    BY <2>1 DEF Served
  <2>3. worker'[w].phase = "last"
    BY <1>2, ClaimFinds DEF ClaimedBy, Finds
  <2> QED
    BY <2>1, <2>2, <2>3, AwaitsStep, NoneTakesStep
<1>3. ASSUME session'.lease = session.lease, session'.lease # NoOne
      PROVE  LET me == worker'[session'.lease] IN
             /\ me.pc \in Opens => Awaits' /\ NoneTakes'
             /\ me.phase \in {"route", "resumed"} /\ me.due = {} => Dismissed'
  <2> DEFINE l == session.lease
  <2> l \in Workers /\ worker[l].pc # "unborn"
    BY <1>3 DEF Leased
  <2>1. CASE Started
    <3>1. worker'[l] = worker[l] /\ worker[l].pc = "gone"
      BY <1>3, <2>1, StartedFinds DEF Vacant
    <3>2. worker'[l].phase = "last"
      BY <3>1 DEF Finds
    <3> QED
      BY <1>3, <3>1, <3>2 DEF Opens
  <2>2. CASE ~Started
    <3>1. worker'[l] = worker[l] \/ (WorkerStep(l) /\ Works(l) /\ ~Claim(l))
      BY RestsOrWorks, ClaimFinds
    <3>2. ASSUME worker'[l].pc \in Opens
          PROVE  Awaits' /\ NoneTakes'
      <4>1. worker[l].pc \in Opens
        BY <3>1, <3>2 DEF Works
      <4>2. Awaits /\ NoneTakes
        BY <1>3, <1>a, <2>2, <4>1 DEF Served
      <4> QED
        BY <4>1, <4>2, AwaitsStep, NoneTakesStep
    <3>3. ASSUME worker'[l].phase \in Planning, worker'[l].due = {}
          PROVE  Dismissed'
      <4>1. CASE Planned(l)
        <5>1. Awaits
          BY <1>3, <1>a, <2>2, <4>1 DEF Planned, WAt, Opens, Served
        <5> QED
          BY <3>3, <4>1, <5>1, PlannedEmpty, DismissedStep
      <4>2. CASE worker[l].phase \in Planning /\ worker[l].due = {}
        <5>1. Dismissed
          BY <1>3, <1>a, <2>2, <4>2 DEF Served, Planning
        <5> QED
          BY <5>1, DismissedStep
      <4> QED
        BY <3>1, <3>3, <4>1, <4>2 DEF Works
    <3> QED
      BY <1>3, <3>2, <3>3 DEF Planning
  <2> QED
    BY <2>1, <2>2
<1>4. ASSUME session'.lease # NoOne
      PROVE  \/ session'.lease = session.lease
             \/ \E w \in Workers : ClaimedBy(w)
  BY <1>4 DEF RecordMoves
<1> QED
  BY <1>1, <1>2, <1>3, <1>4

-----------------------------------------------------------------------------
(* The invariant *)

LEMMA InvInit == Init => InputInv
<1> SUFFICES ASSUME Init PROVE InputInv
  OBVIOUS
<1>1. InputTypeOK
  BY InitTyped
<1>2. /\ \A w \in Workers : worker[w] = Unborn
      /\ \A c \in Clients : client[c] = Idle
      /\ session.lease = NoOne /\ session.attempt = 0 /\ session.status = "STARTING"
  BY DEF Init, Launched
<1>3. /\ Known = {} \/ \E first \in Messages : Known = {first}
      /\ \A m \in Messages : receipt[m].state \in {"absent", "accepted"}
      /\ \A m \in Known : receipt[m].deferred
      /\ \A m \in Messages : receipt[m].owner = NoOne
      /\ session.forInput => Known # {}
  <2>1. CASE receipt = [m \in Messages |-> Unknown] /\ session = Launched
    <3>1. \A m \in Messages : receipt[m].state = "absent" /\ receipt[m].owner = NoOne
      BY <2>1 DEF Unknown
    <3>2. Known = {} /\ ~session.forInput
      BY <2>1, <3>1 DEF Known, Launched
    <3> QED
      BY <3>1, <3>2
  <2>2. ASSUME NEW first \in Messages,
               receipt = [[m \in Messages |-> Unknown] EXCEPT ![first] =
                            [Unknown EXCEPT !.state = "accepted", !.at = 1, !.deferred = TRUE]]
        PROVE  /\ receipt[first].state = "accepted" /\ receipt[first].deferred
               /\ \A m \in Messages \ {first} : receipt[m].state = "absent"
               /\ \A m \in Messages : receipt[m].owner = NoOne
               /\ Known = {first}
    <3>1. /\ receipt[first].state = "accepted" /\ receipt[first].deferred
          /\ \A m \in Messages \ {first} : receipt[m].state = "absent"
          /\ \A m \in Messages : receipt[m].owner = NoOne
      BY <2>2 DEF Unknown
    <3> QED
      BY <3>1 DEF Known
  <2> QED
    BY <2>1, <2>2 DEF Init
<1>4. Pending = Known
  BY <1>3 DEF Known, Pending
<1>5. IsFiniteSet(Known) /\ Cardinality(Known) \in {0, 1}
  <2>1. CASE Known = {}
    BY <2>1, FS_EmptySet
  <2>2. ASSUME NEW first \in Messages, Known = {first}
        PROVE  IsFiniteSet(Known) /\ Cardinality(Known) = 1
    BY <2>2, FS_Singleton
  <2> QED
    BY <1>3, <2>1, <2>2
<1>6. IsFiniteSet(Known) /\ QueueBounded
  BY <1>4, <1>5, InputAssumption DEF QueueBounded
<1>7. NoneTakes /\ Vacant
  BY <1>2 DEF NoneTakes, Taking, Unborn, Vacant
<1>8. ASSUME NEW m \in Messages PROVE TakenFrom(m)
  BY <1>2, <1>3 DEF TakenFrom, Unborn
<1>9. ASSUME NEW w \in Workers PROVE Finds(w)
  BY <1>2 DEF Finds, Unborn
<1>10. ASSUME NEW c \in Clients PROVE Knows(c)
  BY <1>2 DEF Knows, Idle, Launched, Intends, Starting, Resumes
<1>11. Leased
  BY <1>2, <1>7 DEF Leased
<1>12. Served
  BY <1>2, <1>3, <1>7 DEF Served, Awaits, Known
<1> QED
  BY <1>1, <1>6, <1>8, <1>9, <1>10, <1>11, <1>12 DEF InputInv

LEMMA InvMoves ==
  ASSUME InputInv, [Next]_vars
  PROVE  LogMoves /\ RecordMoves /\ \A w \in Workers : Takes(w)
BY StepMoves, SessionMoves DEF InputInv

LEMMA InvStep == InputInv /\ [Next]_vars => InputInv'
<1> SUFFICES ASSUME InputInv, [Next]_vars PROVE InputInv'
  OBVIOUS
<1> USE DEF InputInv
<1>1. InputTypeOK'
  BY TypeStep
<1>2. LogMoves /\ \A w \in Workers : Takes(w)
  BY InvMoves
<1>3. IsFiniteSet(Known)' /\ QueueBounded'
  BY <1>2, CountStep
<1>4. ASSUME NEW m \in Messages PROVE TakenFrom(m)'
  <2>1. Moves(m) \/ Accepts(m)
    BY <1>2 DEF LogMoves, AcceptsOne, Moves
  <2> QED
    BY <1>1, <1>2, <2>1, TakenFromStep
<1>5. ASSUME NEW w \in Workers PROVE Finds(w)'
  BY <1>1, FindsStep
<1>6. ASSUME NEW c \in Clients PROVE Knows(c)'
  BY <1>1, <1>2, KnowsStep
<1>7. Leased' /\ Served'
  BY <1>1, <1>2, LeasedStep, ServedStep
<1> QED
  BY <1>1, <1>3, <1>4, <1>5, <1>6, <1>7

(* The invariant holds in every state that the inbox reaches *)
THEOREM InputInvariant == Spec => []InputInv
BY InvInit, InvStep, PTL DEF Spec

-----------------------------------------------------------------------------
(* What the steps of the last properties are *)

(* At "deliver", a worker delivers the oldest message or dies *)
LEMMA DeliversOldest ==
  ASSUME InputTypeOK, NEW w \in Workers, Finds(w), WorkerStep(w), worker[w].pc = "deliver",
         NEW m \in worker'[w].delivered \ worker[w].delivered
  PROVE  m = Oldest(For(w))
<1> worker \in [Workers -> WorkerState] /\ worker[w] \in WorkerState
  BY DEF InputTypeOK
<1>1. Deliver(w) \/ Gone(w)
  BY DEF WorkerStep, InWorker, Claim, LaunchFails, Acquire, Plan, Planned, Route, RouteAppend,
         Assess, Wait, WaitAppend, CommandEnds, ClaimNext, Bound, Rebind, TurnEnds, Settle,
         Sweep, Finalize, CommandRejected, TurnFails, Interrupt, WorkerDies, WAt
<1>2. CASE Gone(w)
  BY <1>2, GoneKeeps
<1>3. CASE Deliver(w)
  <2>1. PICK n \in Messages : n = Oldest(For(w))
    BY DEF Finds, For, Pending
  <2> DEFINE r == [worker[w] EXCEPT !.delivered = @ \cup {n}]
  <2>2. /\ r \in WorkerState /\ worker' = [worker EXCEPT ![w] = TakeUp(r, n)]
        /\ r.delivered = worker[w].delivered \cup {n}
    BY <1>3, <2>1 DEF Deliver, WorkerState
  <2> HIDE DEF r
  <2>3. worker'[w].delivered = worker[w].delivered \cup {n}
    BY <2>2, TakeUpKeeps
  <2> QED
    BY <2>1, <2>3
<1> QED
  BY <1>1, <1>2, <1>3

(* A deferred message is rejected by a reader of a deleted session only *)
DeletedSeen ==
  \/ \E c \in Clients : client[c].seen.status = "DELETED"
  \/ \E w \in Workers : worker[w].seen.status = "DELETED"

LEMMA ClientRejects ==
  ASSUME InputTypeOK, NEW c \in Clients, ClientStep(c), NEW m \in Messages,
         receipt[m].state = "accepted", receipt[m].deferred, receipt'[m].state = "rejected"
  PROVE  DeletedSeen
<1> receipt \in [Messages -> Receipt] /\ receipt[m] \in Receipt
  BY DEF InputTypeOK
<1>a. receipt' # receipt
  OBVIOUS
<1>1. CASE Receipts(c)
  <2>1. receipt' = Reconciled(client[c].seen)
    BY <1>1 DEF Receipts
  <2> QED
    BY <2>1, ReconciledMoves DEF DeletedSeen
<1>2. ASSUME EnqueueAppend(c) \/ DeferAppend(c) PROVE FALSE
  <2> DEFINE n == client[c].item
  <2>1. /\ receipt'[n].state = "accepted" \/ receipt'[n] = receipt[n] \/ n \notin Messages
        /\ \A k \in Messages \ {n} : receipt'[k] = receipt[k]
    <3>1. CASE EnqueueAppend(c)
      BY <3>1 DEF EnqueueAppend, Accepted
    <3>2. CASE DeferAppend(c)
      <4>1. receipt' = [receipt EXCEPT ![n] = Deferred(n)]
        BY <3>2 DEF DeferAppend
      <4>2. ASSUME n \in Messages
            PROVE  Deferred(n).state = "accepted" \/ Deferred(n) = receipt[n]
        <5>1. CASE n \notin Known
          BY <5>1 DEF Deferred, Accepted, Known, Pending
        <5>2. CASE n \in Pending
          <6>1. n \in Known /\ receipt[n] \in Receipt /\ receipt[n].state = "accepted"
            BY <4>2, <5>2 DEF Pending, Known
          <6> QED
            BY <5>2, <6>1 DEF Deferred, Receipt
        <5>3. CASE n \in Known /\ n \notin Pending
          BY <5>3 DEF Deferred
        <5> QED
          BY <5>1, <5>2, <5>3
      <4> QED
        BY <4>1, <4>2
    <3> QED
      BY <1>2, <3>1, <3>2
  <2> QED
    BY <2>1
<1>3. CASE RearmAppend(c)
  <2>1. receipt'[m].state = receipt[m].state
    BY <1>3 DEF RearmAppend, Receipt
  <2> QED
    BY <2>1
<1>4. ASSUME NEW n \in Messages, SubmitLive(c, n) \/ SubmitDeferred(c, n) \/ SubmitOrphan(c, n)
      PROVE  UNCHANGED receipt
  BY <1>4 DEF SubmitLive, SubmitDeferred, SubmitOrphan, Submit
<1>5. ASSUME View(c) \/ Maintain(c) \/ Cancel(c) \/ Enqueue(c) \/ Defer(c) \/ Rearm(c)
               \/ Start(c) \/ Cancelled(c)
      PROVE  UNCHANGED receipt
  BY <1>5 DEF View, Maintain, Cancel, Enqueue, Defer, Rearm, Start, Cancelled, Update
<1> QED
  BY <1>a, <1>1, <1>2, <1>3, <1>4, <1>5 DEF ClientStep, InCall

LEMMA WorkerRejects ==
  ASSUME InputTypeOK, NEW w \in Workers, Finds(w), WorkerStep(w),
         NEW m \in Messages, TakenFrom(m),
         receipt[m].state = "accepted", receipt[m].deferred, receipt'[m].state = "rejected"
  PROVE  DeletedSeen
<1> receipt \in [Messages -> Receipt] /\ receipt[m] \in Receipt /\ receipt[m].owner # w
  BY InputAssumption DEF InputTypeOK, TakenFrom
<1>a. receipt'[m].state # receipt[m].state /\ receipt' # receipt
  OBVIOUS
<1>1. CASE Planned(w) \/ Sweep(w)
  <2>1. receipt' = Reconciled(worker[w].seen)
    BY <1>1 DEF Planned, Sweep
  <2> QED
    BY <2>1, ReconciledMoves DEF DeletedSeen
<1>2. ASSUME Settle(w) PROVE FALSE
  <2>1. receipt'[m].state = Settled(w, m) /\ Settled(w, m) = receipt[m].state
    BY <1>2 DEF Settle, Settled, Receipt
  <2> QED
    BY <2>1
<1>3. ASSUME CommandRejected(w) PROVE FALSE
  <2>1. receipt'[m] = receipt[m]
    BY <1>a, <1>3 DEF CommandRejected
  <2> QED
    BY <2>1
<1>4. ASSUME WaitAppend(w) PROVE FALSE
  <2>1. receipt'[m].state = receipt[m].state
    BY <1>4 DEF WaitAppend, Receipt
  <2> QED
    BY <2>1
<1>5. ASSUME RouteAppend(w) PROVE FALSE
  <2>1. PICK n : \/ receipt' = [receipt EXCEPT ![n] =
                                  [Rebound(n, w) EXCEPT !.state = "delivered"]]
                 \/ UNCHANGED receipt
    BY <1>5 DEF RouteAppend
  <2>2. [Rebound(m, w) EXCEPT !.state = "delivered"].state = "delivered"
    BY DEF Rebound, Receipt
  <2> QED
    BY <1>a, <2>1, <2>2
<1>6. ASSUME Rebind(w) PROVE FALSE
  <2>1. PICK n : receipt' = [receipt EXCEPT ![n] = Rebound(n, w)] \/ UNCHANGED receipt
    BY <1>6 DEF Rebind
  <2>2. Rebound(m, w).state = receipt[m].state
    BY DEF Rebound, Receipt
  <2> QED
    BY <1>a, <2>1, <2>2
<1>7. ASSUME Deliver(w) PROVE FALSE
  <2>1. PICK n : receipt' = [receipt EXCEPT ![n].state = "delivered"]
    BY <1>7 DEF Deliver
  <2> QED
    BY <1>a, <2>1 DEF Receipt
<1>8. ASSUME Claim(w) \/ LaunchFails(w) \/ Acquire(w) \/ Plan(w) \/ Route(w) \/ Assess(w)
               \/ Wait(w) \/ CommandEnds(w) \/ ClaimNext(w) \/ TurnEnds(w) \/ TurnFails(w)
               \/ Interrupt(w) \/ Finalize(w) \/ WorkerDies(w)
      PROVE  UNCHANGED receipt
  BY <1>8 DEF Claim, LaunchFails, Acquire, Plan, Route, Assess, Wait, CommandEnds, ClaimNext,
              TurnEnds, TurnFails, Interrupt, Finalize, WorkerDies
<1> QED
  BY <1>a, <1>1, <1>2, <1>3, <1>4, <1>5, <1>6, <1>7, <1>8 DEF WorkerStep, InWorker

-----------------------------------------------------------------------------
(* The properties *)

(* Record, receipts and processes have their types, and whoever appends to the
   inbox, a worker in claim_next or a supervisor in enqueue_input, has its
   lock *)
THEOREM InputTyped == Spec => []InputTypeOK
<1>1. InputInv => InputTypeOK
  BY DEF InputInv
<1> QED
  BY <1>1, InputInvariant, PTL

(* No message is taken by two workers, for any number of messages, workers,
   supervisors and retries: enqueue_deferred reopens only what nobody took *)
THEOREM TakenByOne == Spec => []TakenOnce
<1>1. InputInv => TakenOnce
  BY DEF InputInv, InputTypeOK, WorkerState, TakenFrom, TakenOnce
<1> QED
  BY <1>1, InputInvariant, PTL

(* What settle_attempt reports as completed or failed, the worker that the
   receipt names has taken *)
THEOREM ReceiptsAreTrue == Spec => []ReceiptsTrue
<1>1. InputInv => ReceiptsTrue
  BY InputAssumption DEF InputInv, TakenFrom, ReceiptsTrue
<1> QED
  BY <1>1, InputInvariant, PTL

(* Enqueue and enqueue_deferred look for room and append under one lock: the
   bound on pending messages holds for any number of supervisors *)
THEOREM PendingIsBounded == Spec => []QueueBounded
<1>1. InputInv => QueueBounded
  BY DEF InputInv
<1> QED
  BY <1>1, InputInvariant, PTL

(* No retry, deferral, reconciliation or recovery changes the state of a
   receipt that is closed *)
THEOREM ClosedStaysClosed == Spec => ClosedForGood
<1>1. InputInv /\ [Next]_vars =>
        [\A m \in Messages :
           receipt[m].state \in {"completed", "failed", "rejected"}
             => receipt'[m].state = receipt[m].state]_vars
  BY InvMoves, ClosedStep DEF Kept
<1> QED
  BY <1>1, InputInvariant, PTL DEF Spec, ClosedForGood

(* What claim_next delivers is the oldest message that the worker may take *)
THEOREM OldestFirst == Spec => InOrder
<1>1. ASSUME InputInv, [Next]_vars
      PROVE  [\A w \in Workers : WAt(w, "deliver") =>
                \A m \in worker'[w].delivered \ worker[w].delivered, n \in For(w) :
                  receipt[m].at <= receipt[n].at]_vars
  <2> SUFFICES ASSUME NEW w \in Workers, worker[w].pc = "deliver",
                      NEW m \in worker'[w].delivered \ worker[w].delivered, NEW n \in For(w)
               PROVE  receipt[m].at <= receipt[n].at
    BY DEF WAt
  <2> InputTypeOK /\ \A v \in Workers : Finds(v)
    BY <1>1 DEF InputInv
  <2>1. WorkerStep(w)
    BY <1>1, RestsOrWorks
  <2>2. m = Oldest(For(w))
    BY <2>1, DeliversOldest
  <2>3. For(w) \in SUBSET Messages /\ For(w) # {}
    BY DEF For, Pending
  <2> QED
    BY <2>2, <2>3, OldestFound DEF InputTypeOK
<1> QED
  BY <1>1, InputInvariant, PTL DEF Spec, InOrder

(* Only a reader that saw the session deleted rejects a message that waits for
   the next worker: neither settle_attempt nor receipts after the end of an
   attempt does *)
THEOREM DeferredIsKept == Spec => DeferredKept
<1>1. ASSUME InputInv, [Next]_vars
      PROVE  [\A m \in Messages :
                /\ receipt[m].state = "accepted" /\ receipt[m].deferred
                /\ receipt'[m].state = "rejected"
                => \/ \E p \in Clients : client[p].seen.status = "DELETED"
                   \/ \E p \in Workers : worker[p].seen.status = "DELETED"]_vars
  <2> SUFFICES ASSUME NEW m \in Messages, receipt[m].state = "accepted", receipt[m].deferred,
                      receipt'[m].state = "rejected"
               PROVE  DeletedSeen
    BY DEF DeletedSeen
  <2>1. receipt' # receipt
    OBVIOUS
  <2>2. InputTypeOK /\ TakenFrom(m) /\ \A v \in Workers : Finds(v)
    BY <1>1 DEF InputInv
  <2> QED
    BY <1>1, <2>1, <2>2, ClientRejects, WorkerRejects, RecordFrame, NextSteps DEF vars
<1> QED
  BY <1>1, InputInvariant, PTL DEF Spec, DeferredKept

(* An attempt that _start_deferred_input_attempt started for a message does
   not fall back to the intent of the session: when the worker has listed the
   deferred messages, or given up an unfinished turn, the message is among
   those it serves, or a reader has rejected it *)
THEOREM InputComesFirst == Spec => InputFirst
<1>1. ASSUME InputInv, [Next]_vars
      PROVE  [\A w \in Workers :
                /\ worker[w].item # "intent" /\ worker'[w].item = "intent"
                /\ session.lease = w /\ session.forInput
                => \E m \in Messages :
                     receipt[m].deferred /\ receipt[m].state = "rejected"]_vars
  <2> SUFFICES ASSUME NEW w \in Workers, worker[w].item # "intent",
                      worker'[w].item = "intent", session.lease = w, session.forInput
               PROVE  Dismissed
    BY DEF Dismissed
  <2> InputTypeOK /\ Served /\ \A v \in Workers : Finds(v)
    BY <1>1 DEF InputInv
  <2> w # NoOne
    BY InputAssumption
  <2>1. worker'[w].due = {} /\ (Planned(w) \/ (worker[w].pc = "route" /\ worker[w].due = {}))
    BY <1>1, RestsOrWorks DEF Works
  <2>2. CASE Planned(w)
    <3>1. Awaits
      BY <2>2 DEF Planned, WAt, Opens, Served
    <3> QED
      BY <2>1, <2>2, <3>1, PlannedEmpty
  <2>3. CASE worker[w].pc = "route" /\ worker[w].due = {}
    BY <2>3 DEF Finds, Served
  <2> QED
    BY <2>1, <2>2, <2>3
<1> QED
  BY <1>1, InputInvariant, PTL DEF Spec, InputFirst
============
