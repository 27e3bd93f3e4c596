--------------------------- MODULE Schedules_proofs ---------------------------
(***************************************************************************)
(* One schedule for any number of services, users' requests and failures:  *)
(* each due tick is claimed once, an occurrence has one session, and the   *)
(* policy bounds how many of them are live.                                *)
(***************************************************************************)
EXTENDS Schedules, FiniteSetTheorems, TLAPS

(* The rows are created in the order of their identities *)
RowsInOrder ==
  /\ \E n \in Nat : Created = 1 .. n
  /\ \A o \in Occurrences \ Created : occ[o] = NoRow

(* The cursor is ahead of the ticks that were claimed, the clock past them or level *)
Ticked ==
  /\ TicksClaimedOnce
  /\ \A o \in Occurrences : /\ \A t \in ticks[o] : t <= clock /\ t < schedule.due
                            /\ occ[o].merged <= clock /\ occ[o].merged < schedule.due

(* A session has one start, and a row that says that it may be there *)
Ran(o) ==
  /\ starts[o] <= 1 /\ (session[o] = "none" <=> starts[o] = 0)
  /\ session[o] # "none" => occ[o].state # "none" /\ occ[o].prepared
  /\ schedule.policy # "skip" /\ session[o] \in Live => occ[o].state \in InFlight

(* Whether the policy lets the occurrence o have a session *)
Room(o) ==
  /\ schedule.policy = "queue_one" => LiveRuns \subseteq {o}
  /\ schedule.policy = "allow_bounded" => Cardinality(LiveRuns \ {o}) < MaxInFlight

(* What a service knows of the occurrence at hand *)
Handling == {"record", "skip", "reserve", "prepare", "submit", "receipt"}

Serves(s) ==
  LET me == service[s]
      o == service[s].cur
  IN /\ me.now <= clock /\ me.todo \subseteq Created
     /\ me.pc \in Handling => o \in Created
     /\ me.pc = "claim" => me.due <= me.now /\ me.plan # "none"
     /\ me.pc = "record" =>
          \/ me.plan \in {"waiting_capacity", "running"}
          \/ me.plan \in {"completed", "failed", "cancelled"} /\ session[o] = me.plan
     /\ me.pc = "skip" => schedule.policy = "skip"
     /\ me.pc = "prepare" => session[o] = "none"
     /\ me.pc = "submit" => /\ occ[o].prepared
                            /\ session[o] = "none" => occ[o].state \in InFlight
     /\ me.pc = "receipt" =>
          \/ me.plan \in {"waiting_capacity", "running"}
          \/ me.plan = "blocked" /\ session[o] = "none"
     /\ me.pc \in {"reserve", "prepare", "submit"} => Room(o)

SchedInv ==
  /\ ScheduleTypeOK /\ BoundedRuns /\ RowsInOrder /\ Ticked
  /\ \A o \in Occurrences : Ran(o)
  /\ \A s \in Services : Serves(s)

-----------------------------------------------------------------------------
(* The recurrence and the rows *)

LEMMA Division ==
  ASSUME NEW a \in Nat, NEW b \in Nat \ {0}
  PROVE  /\ a \div b \in Nat
         /\ a < (a \div b + 1) * b
         /\ (a \div b + 1) * b <= a + b
OBVIOUS

(* The next run is in the future, by one interval at most *)
LEMMA NextIsLater ==
  ASSUME NEW kind, NEW previous \in Times, NEW now \in 0 .. MaxTime, previous <= now
  PROVE  /\ NextRunAfter(kind, previous, now) \in Times \cup {Never}
         /\ NextRunAfter(kind, previous, now) > now
<1> /\ MaxTime \in Nat /\ Interval \in Nat \ {0} /\ previous \in Nat /\ now \in Nat
    /\ now - previous \in Nat
  BY ScheduleAssumption DEF Times
<1> DEFINE a == now - previous
           passed == a \div Interval + 1
<1>0. a \in Nat
  OBVIOUS
<1> HIDE DEF a
<1>1. /\ passed \in Nat /\ passed >= 1 /\ a < passed * Interval
      /\ passed * Interval <= a + Interval
  <2> DEFINE q == a \div Interval
  <2>1. Interval \in Nat \ {0}
    OBVIOUS
  <2>2. q \in Nat /\ a < (q + 1) * Interval /\ (q + 1) * Interval <= a + Interval
    BY ONLY <1>0, <2>1, Division
  <2> HIDE DEF q
  <2>3. q + 1 \in Nat /\ q + 1 >= 1
    BY <2>2
  <2>4. passed = q + 1
    BY DEF q
  <2> QED
    BY <2>2, <2>3, <2>4
<1> HIDE DEF passed
<1>2. (IF passed > 1 THEN passed ELSE 1) = passed
  BY <1>1
<1>3. NextRunAfter(kind, previous, now) =
        IF kind = "once" THEN Never ELSE previous + passed * Interval
  BY <1>2 DEF NextRunAfter, passed, a
<1>4. passed * Interval \in Nat
  BY <1>1
<1>5. previous + passed * Interval \in Times /\ previous + passed * Interval > now
  BY <1>1, <1>4 DEF Times, a
<1>6. Never > now
  BY DEF Never
<1> QED
  BY <1>3, <1>5, <1>6

LEMMA OccurrencesFinite ==
  /\ IsFiniteSet(Occurrences) /\ 1 \in Occurrences /\ Occurrences \subseteq Nat
  /\ \A S \in SUBSET Occurrences : IsFiniteSet(S) /\ Cardinality(S) \in Nat
<1>1. MaxTime + MaxRequests \in Nat /\ MaxTime + MaxRequests >= 1
  BY ScheduleAssumption
<1>2. IsFiniteSet(Occurrences) /\ 1 \in Occurrences /\ Occurrences \subseteq Nat
  BY <1>1, FS_Interval DEF Occurrences
<1> QED
  BY <1>2, FS_Subset, FS_CardinalityType

(* A new row follows the others *)
LEMMA NextRowFree ==
  ASSUME RowsInOrder
  PROVE  /\ NextRow \in Nat \ {0} /\ NextRow \notin Created
         /\ NextRow \in Occurrences => occ[NextRow] = NoRow
         /\ Created \cup {NextRow} = 1 .. NextRow
<1>1. PICK n \in Nat : Created = 1 .. n
  BY DEF RowsInOrder
<1>2. Cardinality(Created) = n
  BY <1>1, FS_Interval
<1>3. NextRow = n + 1
  BY <1>2 DEF NextRow
<1>4. NextRow \notin Created /\ Created \cup {NextRow} = 1 .. NextRow
  BY <1>1, <1>3
<1> QED
  BY <1>3, <1>4 DEF RowsInOrder

(* A step that leaves at most one row more *)
LEMMA RowsStep ==
  ASSUME RowsInOrder, Created' \in {Created, Created \cup {NextRow}},
         \A o \in Occurrences \ Created' : occ'[o] = occ[o]
  PROVE  RowsInOrder'
<1>1. CASE Created' = Created
  BY <1>1 DEF RowsInOrder
<1>2. CASE Created' = Created \cup {NextRow}
  BY <1>2, NextRowFree DEF RowsInOrder
<1> QED
  BY <1>1, <1>2

-----------------------------------------------------------------------------
(* Types *)

LEMMA Bounds ==
  /\ 0 \in Times /\ 0 .. MaxTime \subseteq Times /\ 0 .. MaxTime \subseteq Nat
  /\ Times \subseteq Nat /\ Never \in Nat /\ \A t \in Times : t < Never
  /\ 0 \in 0 .. MaxRequests /\ 0 \in 0 .. MaxTime
BY ScheduleAssumption DEF Times, Never

LEMMA IdleTyped == IdleService \in ServiceState
<1>1. "none" \in OccurrenceState /\ "idle" \in PC
  BY DEF OccurrenceState, PC
<1> QED
  BY <1>1, Bounds, OccurrencesFinite DEF IdleService, ServiceState

LEMMA ListTyped ==
  ASSUME NEW pc \in PC, NEW todo \in SUBSET Occurrences, NEW marked \in SUBSET Occurrences,
         NEW now \in Times
  PROVE  [IdleService EXCEPT !.pc = pc, !.now = now, !.todo = todo, !.marked = marked]
           \in ServiceState
BY IdleTyped DEF IdleService, ServiceState

(* What is said of the service s changes, what is said of others stays *)
Moved(s) ==
  /\ service' \in [Services -> ServiceState]
  /\ \A t \in Services \ {s} : service'[t] = service[t]

LEMMA DoneMoves ==
  ASSUME service \in [Services -> ServiceState], NEW s \in Services, NEW o, Done(s, o)
  PROVE  /\ Moved(s) /\ service'[s].now = service[s].now
         /\ service'[s].todo \subseteq service[s].todo
         /\ service'[s].pc = IF service[s].pc \in {"reconcile", "record"}
                             THEN "reconcile" ELSE "each"
<1> DEFINE pc == IF service[s].pc \in {"reconcile", "record"} THEN "reconcile" ELSE "each"
           r == [service[s] EXCEPT !.todo = @ \ {o}, !.marked = @ \ {o}, !.cur = 1,
                                   !.plan = "none", !.pc = pc]
<1>1. service' = [service EXCEPT ![s] = r]
  BY DEF Done
<1>2. pc \in PC /\ "none" \in OccurrenceState
  BY DEF PC, OccurrenceState
<1>3. /\ r \in ServiceState /\ r.now = service[s].now /\ r.pc = pc
      /\ r.todo \subseteq service[s].todo
  BY <1>2, OccurrencesFinite DEF ServiceState
<1> HIDE DEF r
<1> QED
  BY <1>1, <1>3 DEF Moved

LEMMA HandleMoves ==
  ASSUME service \in [Services -> ServiceState], NEW s \in Services,
         NEW o \in Occurrences, NEW pc \in PC, NEW plan \in OccurrenceState,
         Handle(s, o, pc, plan)
  PROVE  /\ Moved(s) /\ service'[s].now = service[s].now /\ service'[s].pc = pc
         /\ service'[s].cur = o /\ service'[s].plan = plan
         /\ service'[s].todo = service[s].todo
<1> DEFINE r == [service[s] EXCEPT !.pc = pc, !.cur = o, !.plan = plan]
<1>1. service' = [service EXCEPT ![s] = r]
  BY DEF Handle
<1>2. /\ r \in ServiceState /\ r.now = service[s].now /\ r.pc = pc
      /\ r.cur = o /\ r.plan = plan /\ r.todo = service[s].todo
  BY DEF ServiceState
<1> HIDE DEF r
<1> QED
  BY <1>1, <1>2 DEF Moved

LEMMA GotoMoves ==
  ASSUME service \in [Services -> ServiceState], NEW s \in Services, NEW pc \in PC,
         Goto(s, pc)
  PROVE  /\ Moved(s) /\ service'[s].now = service[s].now /\ service'[s].pc = pc
         /\ service'[s].cur = service[s].cur /\ service'[s].plan = service[s].plan
         /\ service'[s].todo = service[s].todo
<1> DEFINE r == [service[s] EXCEPT !.pc = pc]
<1>1. service' = [service EXCEPT ![s] = r]
  BY DEF Goto
<1>2. /\ r \in ServiceState /\ r.now = service[s].now /\ r.pc = pc
      /\ r.cur = service[s].cur /\ r.plan = service[s].plan /\ r.todo = service[s].todo
  BY DEF ServiceState
<1> HIDE DEF r
<1> QED
  BY <1>1, <1>2 DEF Moved

(* The service s is at rest, or begins to list *)
LEMMA ResetMoves ==
  ASSUME service \in [Services -> ServiceState], NEW s \in Services,
         \/ service' = [service EXCEPT ![s] = IdleService]
         \/ ToDispatch(s)
  PROVE  /\ Moved(s) /\ service'[s].now = 0 /\ service'[s].todo = {}
         /\ service'[s].pc \in {"idle", "list"}
<1> DEFINE r == [IdleService EXCEPT !.pc = "list"]
<1>1. service' = [service EXCEPT ![s] = r] \/ service' = [service EXCEPT ![s] = IdleService]
  BY DEF ToDispatch
<1>2. /\ r \in ServiceState /\ r.now = 0 /\ r.pc = "list" /\ r.todo = {}
      /\ IdleService \in ServiceState /\ IdleService.now = 0 /\ IdleService.pc = "idle"
      /\ IdleService.todo = {}
  BY IdleTyped DEF IdleService, ServiceState, PC
<1> HIDE DEF r
<1> QED
  BY <1>1, <1>2 DEF Moved

LEMMA ListMoves ==
  ASSUME service \in [Services -> ServiceState], NEW s \in Services,
         NEW pc \in PC, NEW todo \in SUBSET Occurrences, NEW marked \in SUBSET Occurrences,
         NEW now \in Times,
         service' = [service EXCEPT ![s] =
           [IdleService EXCEPT !.pc = pc, !.now = now, !.todo = todo, !.marked = marked]]
  PROVE  /\ Moved(s) /\ service'[s].now = now /\ service'[s].pc = pc
         /\ service'[s].todo = todo
<1> DEFINE r == [IdleService EXCEPT !.pc = pc, !.now = now, !.todo = todo, !.marked = marked]
<1>1. r \in ServiceState
  BY ListTyped
<1>2. r.now = now /\ r.pc = pc /\ r.todo = todo
  BY DEF IdleService
<1>3. service' = [service EXCEPT ![s] = r]
  OBVIOUS
<1> HIDE DEF r
<1> QED
  BY <1>1, <1>2, <1>3 DEF Moved

(* The statuses and states that the steps of a service handle *)
LEMMA StatesTyped ==
  /\ InFlight \subseteq OccurrenceState \ {"none"} /\ PendingStates \subseteq InFlight
  /\ {"skipped", "queued", "awaiting_service", "preparing", "blocked", "waiting_capacity",
      "running", "completed", "failed", "cancelled"} \subseteq OccurrenceState
  /\ "preparing" \in PendingStates /\ {"waiting_capacity", "running"} \subseteq InFlight
BY DEF InFlight, PendingStates, Unclaimed, OccurrenceState, Settled

LEMMA ReportedTyped ==
  ASSUME NEW status \in SessionState
  PROVE  \/ Reported(status) = "none"
         \/ Reported(status) \in {"waiting_capacity", "running"}
         \/ Reported(status) \in {"completed", "failed", "cancelled"} /\ status = Reported(status)
BY DEF Reported, SessionState

LEMMA AdmissionTyped ==
  Admission \in {"skipped", "queued", "awaiting_service"}
BY DEF Admission

LEMMA RunNowTyped ==
  RunNowState \in {"queued", "awaiting_service"}
BY DEF RunNowState

(* A step of a service keeps the types of its own state and dispatch.lock *)
LEMMA ServiceTyped ==
  ASSUME ScheduleTypeOK, NEW s \in Services, Moved(s),
         \/ dispatcher' = dispatcher /\ (service'[s].pc \in Dispatching => dispatcher = s)
         \/ dispatcher = s /\ dispatcher' = NoOne /\ service'[s].pc \notin Dispatching
         \/ dispatcher = NoOne /\ dispatcher' = s
  PROVE  /\ service' \in [Services -> ServiceState]
         /\ dispatcher' \in Services \cup {NoOne}
         /\ \A t \in Services : service'[t].pc \in Dispatching => dispatcher' = t
<1> NoOne \notin Services
  BY ScheduleAssumption
<1>1. \A t \in Services \ {s} : service[t].pc \in Dispatching => dispatcher = t
  BY DEF ScheduleTypeOK
<1> QED
  BY <1>1 DEF Moved, ScheduleTypeOK

(* The types of what the steps of a service change *)
ServiceOK ==
  /\ service' \in [Services -> ServiceState]
  /\ dispatcher' \in Services \cup {NoOne}
  /\ lease' \in Services \cup {NoOne} /\ faults' \in 0 .. MaxFaults
  /\ \A t \in Services : service'[t].pc \in Dispatching => dispatcher' = t

-----------------------------------------------------------------------------
(* The steps of a service: its own state *)

LEMMA AtRest ==
  ASSUME NEW s \in Services, service'[s].now <= clock',
         service'[s].todo \subseteq Created',
         service'[s].pc \in {"idle", "list", "reconcile", "each"}
  PROVE  Serves(s)'
BY DEF Serves, Handling

(* An occurrence that need not wait leaves room for its session *)
LEMMA RoomFound ==
  ASSUME \A o \in Occurrences : Ran(o), NEW o \in Occurrences, NEW queued, ~MustWait(o, queued)
  PROVE  Room(o)
<1> /\ Others(o) \in SUBSET Occurrences /\ LiveRuns \ {o} \in SUBSET Occurrences
    /\ MaxInFlight \in Nat
  BY ScheduleAssumption DEF Others, InFlightNow, LiveRuns
<1>1. schedule.policy # "skip" => LiveRuns \ {o} \subseteq Others(o)
  BY DEF LiveRuns, Others, InFlightNow, Ran
<1>2. /\ IsFiniteSet(Others(o)) /\ Cardinality(Others(o)) \in Nat
      /\ Cardinality(LiveRuns \ {o}) \in Nat
  BY OccurrencesFinite
<1>3. CASE schedule.policy = "queue_one"
  BY <1>1, <1>3 DEF MustWait, Room
<1>4. CASE schedule.policy = "allow_bounded"
  <2>1. Cardinality(LiveRuns \ {o}) <= Cardinality(Others(o))
    BY <1>1, <1>2, <1>4, FS_Subset
  <2>2. Cardinality(Others(o)) < MaxInFlight
    BY <1>2, <1>4 DEF MustWait
  <2> QED
    BY <1>2, <1>4, <2>1, <2>2 DEF Room
<1> QED
  BY <1>3, <1>4 DEF Room

(* _reconcile_background and _claim_due *)
LEMMA ReconcileServes ==
  ASSUME ScheduleTypeOK, \A o \in Occurrences : Ran(o), NEW s \in Services, Serves(s),
         Created \subseteq Created', BeginTick(s) \/ Reconcile(s) \/ Claim(s)
  PROVE  ServiceOK /\ Moved(s) /\ Serves(s)'
<1> /\ service \in [Services -> ServiceState] /\ service[s] \in ServiceState
    /\ clock \in 0 .. MaxTime /\ clock' = clock /\ clock \in Times /\ clock \in Nat
    /\ dispatcher' = dispatcher /\ lease' = lease /\ faults' = faults
    /\ service[s].now <= clock /\ service[s].todo \subseteq Created
  BY Bounds DEF ScheduleTypeOK, Serves, BeginTick, Reconcile, Lookup, Record, Claim, NothingDue,
     ReadDue, ClaimTick
<1>a. ASSUME Moved(s), service'[s].pc \notin Dispatching
      PROVE  ServiceOK
  BY <1>a, ServiceTyped DEF ServiceOK, ScheduleTypeOK
<1>1. CASE BeginTick(s)
  <2>1. PICK active \in SUBSET Created, marked \in SUBSET Occurrences :
          service' = [service EXCEPT ![s] =
            [IdleService EXCEPT !.pc = "reconcile", !.now = clock, !.todo = active,
                                !.marked = marked]]
    BY <1>1 DEF BeginTick, Created
  <2>2. /\ Moved(s) /\ service'[s].now = clock /\ service'[s].pc = "reconcile"
        /\ service'[s].todo = active
    BY <2>1, ListMoves DEF PC, Created
  <2> QED
    BY <1>a, <2>2, AtRest DEF Dispatching
<1>b. ASSUME ToDispatch(s)
      PROVE  ServiceOK /\ Moved(s) /\ Serves(s)'
  <2>1. /\ Moved(s) /\ service'[s].now = 0 /\ service'[s].todo = {}
        /\ service'[s].pc \in {"idle", "list"}
    BY <1>b, ResetMoves
  <2> QED
    BY <1>a, <2>1, AtRest DEF Dispatching
<1>c. ASSUME NEW o, Done(s, o), service[s].pc \in {"reconcile", "record"}
      PROVE  ServiceOK /\ Moved(s) /\ Serves(s)'
  <2>1. /\ Moved(s) /\ service'[s].now = service[s].now /\ service'[s].pc = "reconcile"
        /\ service'[s].todo \subseteq service[s].todo
    BY <1>c, DoneMoves
  <2> QED
    BY <1>a, <2>1, AtRest DEF Dispatching
<1>2. CASE Lookup(s)
  <2>1. PICK o \in Earliest(service[s].todo) :
          \/ Done(s, o)
          \/ /\ Reported(session[o]) # "none"
             /\ Handle(s, o, "record", Reported(session[o]))
    BY <1>2 DEF Lookup
  <2>2. CASE Done(s, o)
    BY <1>2, <1>c, <2>2 DEF Lookup, At
  <2>3. CASE Reported(session[o]) # "none" /\ Handle(s, o, "record", Reported(session[o]))
    <3> DEFINE state == Reported(session[o])
    <3>1. o \in Occurrences /\ session[o] \in SessionState
      BY DEF Earliest, ServiceState, ScheduleTypeOK
    <3>2. \/ state \in {"waiting_capacity", "running"}
          \/ state \in {"completed", "failed", "cancelled"} /\ session[o] = state
      BY <2>3, <3>1, ReportedTyped
    <3>3. state \in OccurrenceState
      BY <3>2, StatesTyped
    <3> HIDE DEF state
    <3>4. Handle(s, o, "record", state)
      BY <2>3 DEF state
    <3>5. /\ Moved(s) /\ service'[s].now = service[s].now /\ service'[s].pc = "record"
          /\ service'[s].cur = o /\ service'[s].plan = state
          /\ service'[s].todo = service[s].todo
      BY <3>1, <3>3, <3>4, HandleMoves DEF PC
    <3>6. session' = session
      BY <1>2 DEF Lookup, background
    <3>7. o \in Created
      BY DEF Earliest
    <3> QED
      BY <1>a, <3>2, <3>5, <3>6, <3>7 DEF Serves, Dispatching, Handling
  <2> QED
    BY <2>1, <2>2, <2>3
<1>3. CASE Record(s)
  BY <1>3, <1>c DEF Record, At
<1>4. CASE NothingDue(s) \/ ClaimTick(s)
  BY <1>4, <1>b DEF NothingDue, ClaimTick
<1>5. CASE ReadDue(s)
  <2>1. PICK target \in {0} \cup Occurrences :
          service' = [service EXCEPT ![s].pc = "claim", ![s].plan = Admission,
                        ![s].revision = schedule.revision, ![s].due = schedule.due,
                        ![s].target = target]
    BY <1>5 DEF ReadDue, Queued
  <2> DEFINE r == [service[s] EXCEPT !.pc = "claim", !.plan = Admission,
                     !.revision = schedule.revision, !.due = schedule.due, !.target = target]
  <2>2. schedule.due <= service[s].now /\ service[s].now \in Times
    BY <1>5 DEF ReadDue, DueNow, ServiceState
  <2>3. /\ schedule.due \in Times /\ schedule.revision \in 0 .. MaxRequests
        /\ Admission \in OccurrenceState \ {"none"} /\ "claim" \in PC
    <3>1. schedule.due \in Times \cup {Never} /\ schedule.revision \in 0 .. MaxRequests
      BY DEF ScheduleTypeOK
    <3>2. schedule.due # Never
      <4>1. service[s].now < Never /\ service[s].now \in Nat /\ Never \in Nat
        BY <2>2, Bounds
      <4> QED
        BY <2>2, <4>1
    <3> QED
      BY <3>1, <3>2, AdmissionTyped, StatesTyped DEF PC
  <2>4. /\ r \in ServiceState /\ r.now = service[s].now /\ r.pc = "claim"
        /\ r.due = schedule.due /\ r.plan = Admission /\ r.todo = service[s].todo
    BY <2>3 DEF ServiceState
  <2>5. service' = [service EXCEPT ![s] = r]
    BY <2>1
  <2> HIDE DEF r
  <2>6. Moved(s) /\ service'[s] = r
    BY <2>4, <2>5 DEF Moved
  <2> QED
    BY <1>a, <2>2, <2>3, <2>4, <2>6 DEF Serves, Dispatching, Handling
<1> QED
  BY <1>1, <1>2, <1>3, <1>4, <1>5 DEF Reconcile, Claim

(* _dispatch_pending *)
LEMMA DispatchServes ==
  ASSUME ScheduleTypeOK, \A o \in Occurrences : Ran(o), NEW s \in Services, Serves(s),
         Created \subseteq Created', Dispatch(s)
  PROVE  ServiceOK /\ Moved(s) /\ Serves(s)'
<1> DEFINE o == service[s].cur
<1> /\ service \in [Services -> ServiceState] /\ service[s] \in ServiceState
    /\ o \in Occurrences /\ clock' = clock /\ clock \in Nat
    /\ lease' = lease /\ faults' = faults /\ service[s].now <= clock
    /\ service[s].pc \in Dispatching => dispatcher = s
    /\ schedule' = schedule /\ service[s].todo \subseteq Created
    /\ service[s].pc \in Handling => o \in Created
  BY Bounds DEF ScheduleTypeOK, ServiceState, Serves, Dispatch, DispatchBusy, ListPending, Consider,
     SkipOther, Reserve, Prepare, Adopt, Submit, SubmitFails, Receipt, EndPass, rows
<1>a. ASSUME Moved(s), dispatcher = s, dispatcher' = s \/ service'[s].pc \notin Dispatching,
             dispatcher' \in {s, NoOne}
      PROVE  ServiceOK
  BY <1>a, ServiceTyped DEF ServiceOK, ScheduleTypeOK
<1>b. ASSUME NEW p, Done(s, p), service[s].pc \notin {"reconcile", "record"},
             dispatcher = s, dispatcher' = s
      PROVE  ServiceOK /\ Moved(s) /\ Serves(s)'
  <2>1. /\ Moved(s) /\ service'[s].now = service[s].now /\ service'[s].pc = "each"
        /\ service'[s].todo \subseteq service[s].todo
    BY <1>b, DoneMoves
  <2> QED
    BY <1>a, <1>b, <2>1, AtRest
<1>1. CASE DispatchBusy(s) \/ EndPass(s)
  <2>1. /\ Moved(s) /\ service'[s].now = 0 /\ service'[s].todo = {}
        /\ service'[s].pc \in {"idle", "list"}
    BY <1>1, ResetMoves DEF DispatchBusy, EndPass
  <2>2. service'[s].pc \notin Dispatching
    BY <2>1 DEF Dispatching
  <2>3. ServiceOK
    BY <1>1, <2>1, <2>2, ServiceTyped
       DEF DispatchBusy, EndPass, At, Dispatching, ServiceOK, ScheduleTypeOK
  <2> QED
    BY <2>1, <2>3, AtRest
<1>2. CASE ListPending(s)
  <2>1. PICK pending \in SUBSET Created, marked \in SUBSET Occurrences :
          service' = [service EXCEPT ![s] =
            [IdleService EXCEPT !.pc = "each", !.todo = pending, !.marked = marked]]
    BY <1>2, StatesTyped DEF ListPending, Queued, Created
  <2> DEFINE r == [IdleService EXCEPT !.pc = "each", !.todo = pending, !.marked = marked]
  <2>2. r \in ServiceState /\ r.now = 0 /\ r.pc = "each" /\ r.todo = pending
    BY IdleTyped DEF IdleService, ServiceState, PC, Created
  <2> HIDE DEF r
  <2>3. /\ Moved(s) /\ service'[s].now = 0 /\ service'[s].pc = "each"
        /\ service'[s].todo = pending
    BY <2>1, <2>2 DEF Moved, r
  <2>4. ServiceOK
    BY <1>2, <2>3, ServiceTyped DEF ListPending, ServiceOK, ScheduleTypeOK
  <2> QED
    BY <2>3, <2>4, AtRest
<1>c. ASSUME Consider(s) \/ SkipOther(s) \/ Reserve(s) \/ Prepare(s) \/ Adopt(s) \/ Submit(s)
               \/ SubmitFails(s) \/ Receipt(s)
      PROVE  /\ dispatcher = s /\ dispatcher' = s
             /\ service[s].pc \notin {"reconcile", "record"}
  BY <1>c DEF Consider, SkipOther, Reserve, Prepare, Adopt, Submit, SubmitFails, Receipt, At,
              Dispatching
<1>d. ASSUME NEW p \in Occurrences, NEW pc \in PC, NEW plan \in OccurrenceState,
             Handle(s, p, pc, plan), dispatcher = s, dispatcher' = s
      PROVE  /\ ServiceOK /\ Moved(s) /\ service'[s].now <= clock' /\ service'[s].pc = pc
             /\ service'[s].cur = p /\ service'[s].plan = plan
             /\ service'[s].todo = service[s].todo
  BY <1>a, <1>d, HandleMoves
<1>3. CASE Consider(s)
  <2>1. PICK p \in Earliest(service[s].todo) :
          \/ Done(s, p)
          \/ schedule.policy = "skip" /\ Handle(s, p, "skip", "skipped")
          \/ ~MustWait(p, p \in service[s].marked) /\ Handle(s, p, "reserve", "preparing")
    BY <1>3 DEF Consider
  <2>2. p \in Occurrences /\ p \in Created /\ {"skip", "reserve"} \subseteq PC
    BY DEF Earliest, ServiceState, PC
  <2>3. CASE Done(s, p)
    BY <1>3, <1>b, <1>c, <2>3
  <2>4. CASE schedule.policy = "skip" /\ Handle(s, p, "skip", "skipped")
    BY <1>3, <1>c, <1>d, <2>2, <2>4, StatesTyped DEF Serves, Handling
  <2>5. CASE ~MustWait(p, p \in service[s].marked) /\ Handle(s, p, "reserve", "preparing")
    <3>1. Room(p)
      BY <2>2, <2>5, RoomFound
    <3>2. session' = session
      BY <1>3 DEF Consider, background
    <3>3. Room(p)'
      BY <3>1, <3>2 DEF Room, LiveRuns
    <3> QED
      BY <1>3, <1>c, <1>d, <2>2, <2>5, <3>3, StatesTyped DEF Serves, Handling
  <2> QED
    BY <2>1, <2>3, <2>4, <2>5
<1>4. CASE SkipOther(s) \/ Receipt(s)
  BY <1>4, <1>b, <1>c DEF SkipOther, Receipt
<1>5. CASE Reserve(s)
  <2>0. session' = session /\ service[s].pc = "reserve"
    BY <1>5 DEF Reserve, background, At
  <2>p. PICK p \in Occurrences : p = o
    OBVIOUS
  <2>1. CASE Done(s, o)
    BY <1>5, <1>b, <1>c, <2>1
  <2>2. ASSUME NEW pc \in {"submit", "prepare"}, Goto(s, pc),
               pc = IF occ[o].prepared THEN "submit" ELSE "prepare",
               occ' = [occ EXCEPT ![o].state = "preparing"]
        PROVE  ServiceOK /\ Moved(s) /\ Serves(s)'
    <3>1. /\ Moved(s) /\ service'[s].now = service[s].now /\ service'[s].pc = pc
          /\ service'[s].cur = o /\ service'[s].todo = service[s].todo
      BY <2>2, GotoMoves DEF PC
    <3>2. Room(p)'
      BY <2>0, <2>p DEF Serves, Room, LiveRuns
    <3>3. occ'[o].prepared = occ[o].prepared /\ occ'[o].state = "preparing"
      BY <2>2 DEF ScheduleTypeOK, Occurrence
    <3>4. ~occ[o].prepared => session[o] = "none"
      BY DEF Ran
    <3> QED
      BY <1>5, <1>a, <1>c, <2>0, <2>2, <2>p, <3>1, <3>2, <3>3, <3>4, StatesTyped DEF Serves, Handling
  <2> QED
    BY <1>5, <2>1, <2>2 DEF Reserve, Write
<1>6. CASE Prepare(s)
  <2>0. session' = session /\ service[s].pc = "prepare" /\ session[o] = "none"
    BY <1>6 DEF Prepare, background, At, Serves
  <2>p. PICK p \in Occurrences : p = o
    OBVIOUS
  <2>1. CASE /\ occ' = [occ EXCEPT ![o].prepared = TRUE, ![o].state = "preparing"]
             /\ Goto(s, "submit")
    <3>1. /\ Moved(s) /\ service'[s].now = service[s].now /\ service'[s].pc = "submit"
          /\ service'[s].cur = o /\ service'[s].todo = service[s].todo
      BY <2>1, GotoMoves DEF PC
    <3>2. Room(p)'
      BY <2>0, <2>p DEF Serves, Room, LiveRuns
    <3>3. occ'[o].prepared /\ occ'[o].state = "preparing"
      BY <2>1 DEF ScheduleTypeOK, Occurrence
    <3>4. p \in Created' /\ occ'[p].state \in InFlight /\ occ'[p].prepared
      BY <2>0, <2>p, <3>3, StatesTyped DEF Handling
    <3>5. ServiceOK
      BY <1>6, <1>a, <1>c, <3>1
    <3>6. Serves(s)'
      BY <2>p, <3>1, <3>2, <3>4 DEF Serves, Handling
    <3> QED
      BY <3>1, <3>5, <3>6
  <2>2. CASE Handle(s, o, "receipt", "blocked")
    BY <1>6, <1>c, <1>d, <2>0, <2>2, StatesTyped DEF Serves, Handling, PC
  <2> QED
    BY <1>6, <2>1, <2>2 DEF Prepare
<1>7. CASE Adopt(s) \/ Submit(s) \/ SubmitFails(s)
  <2>0. service[s].pc = "submit"
    BY <1>7 DEF Adopt, Submit, SubmitFails, At
  <2>1. \/ \E plan \in {"waiting_capacity", "running"} : Handle(s, o, "receipt", plan)
        \/ Handle(s, o, "receipt", "blocked") /\ session'[o] = "none"
    BY <1>7 DEF Adopt, Submit, SubmitFails, background
  <2>2. PICK plan \in {"waiting_capacity", "running", "blocked"} :
          /\ Handle(s, o, "receipt", plan)
          /\ plan = "blocked" => session'[o] = "none"
    BY <2>1
  <2>3. plan \in OccurrenceState /\ "receipt" \in PC
    BY StatesTyped DEF PC
  <2>4. /\ ServiceOK /\ Moved(s) /\ service'[s].now <= clock' /\ service'[s].pc = "receipt"
        /\ service'[s].cur = o /\ service'[s].plan = plan
        /\ service'[s].todo = service[s].todo
    BY <1>7, <1>c, <1>d, <2>2, <2>3
  <2>5. o \in Created'
    BY <2>0 DEF Handling
  <2> QED
    BY <2>2, <2>4, <2>5 DEF Serves, Handling
<1> QED
  BY <1>1, <1>2, <1>3, <1>4, <1>5, <1>6, <1>7 DEF Dispatch

-----------------------------------------------------------------------------
(* What one step makes of the rows *)

(* A service may write a state of its own that ends the occurrence o: its
   session is over, or it has none, or the policy skips it *)
Closes(o) ==
  \/ session[o] \in {"completed", "failed", "cancelled"}
  \/ \E s \in Services : /\ service[s].cur = o /\ service[s].pc \in {"skip", "receipt"}
                         /\ schedule.policy = "skip" \/ session[o] = "none"

RowsMove ==
  /\ Created' \in {Created, Created \cup {NextRow}}
  /\ \A o \in Created :
       /\ occ[o].prepared => occ'[o].prepared
       /\ occ'[o].state = occ[o].state \/ occ'[o].state \in InFlight \/ Closes(o)
  /\ \A o \in Occurrences \ Created' : occ'[o] = occ[o]

(* No occurrence stands for a tick that it did not stand for *)
CountsKept ==
  \A o \in Occurrences :
    \/ occ'[o].merged = occ[o].merged /\ occ'[o].kind = occ[o].kind
    \/ o \notin Created /\ occ'[o].merged = 0 /\ occ'[o].kind # "scheduled"

LEMMA RowsFixed ==
  ASSUME UNCHANGED occ, occ \in [Occurrences -> Occurrence]
  PROVE  occ' \in [Occurrences -> Occurrence] /\ RowsMove /\ CountsKept
BY DEF RowsMove, CountsKept, Created

LEMMA WritesRow ==
  ASSUME occ \in [Occurrences -> Occurrence], NEW o \in Created,
         NEW x \in OccurrenceState \ {"none"}, x \in InFlight \/ Closes(o),
         \/ occ' = [occ EXCEPT ![o].state = x]
         \/ occ' = [occ EXCEPT ![o].prepared = TRUE, ![o].state = x]
  PROVE  occ' \in [Occurrences -> Occurrence] /\ RowsMove /\ CountsKept
<1> o \in Occurrences /\ occ[o] \in Occurrence /\ occ[o].state # "none"
  BY DEF Created
<1> DEFINE q == [occ[o] EXCEPT !.state = x]
           r == [occ[o] EXCEPT !.prepared = TRUE, !.state = x]
<1>1. occ' = [occ EXCEPT ![o] = q] \/ occ' = [occ EXCEPT ![o] = r]
  OBVIOUS
<1>2. /\ q \in Occurrence /\ q.state = x /\ q.prepared = occ[o].prepared
      /\ r \in Occurrence /\ r.state = x /\ r.prepared
      /\ q.merged = occ[o].merged /\ r.merged = occ[o].merged
      /\ q.kind = occ[o].kind /\ r.kind = occ[o].kind
  BY DEF Occurrence
<1> HIDE DEF q, r
<1>3. /\ occ' \in [Occurrences -> Occurrence] /\ occ'[o].state = x
      /\ occ[o].prepared => occ'[o].prepared
      /\ occ'[o].merged = occ[o].merged /\ occ'[o].kind = occ[o].kind
      /\ \A p \in Occurrences \ {o} : occ'[p] = occ[p]
  BY <1>1, <1>2
<1>4. Created' = Created
  BY <1>3 DEF Created
<1> QED
  BY <1>3, <1>4 DEF RowsMove, CountsKept, Created

LEMMA AddsRow ==
  ASSUME occ \in [Occurrences -> Occurrence], RowsInOrder,
         NEW x \in OccurrenceState \ {"none"}, NEW kind \in {"scheduled", "manual", "retry"},
         NEW at \in Times, occ' = [occ EXCEPT ![NextRow] = NewRow(x, kind, at)]
  PROVE  /\ occ' \in [Occurrences -> Occurrence] /\ RowsMove
         /\ NextRow \in Occurrences => occ'[NextRow].merged = 0 /\ occ'[NextRow].kind = kind
         /\ \A p \in Occurrences \ {NextRow} : occ'[p] = occ[p]
         /\ kind # "scheduled" => CountsKept
<1>1. /\ NewRow(x, kind, at) \in Occurrence /\ NewRow(x, kind, at).state = x
      /\ NewRow(x, kind, at).merged = 0 /\ NewRow(x, kind, at).kind = kind
  BY Bounds DEF NewRow, NoRow, Occurrence
<1> DEFINE n == NextRow
<1>2. n \notin Created
  BY NextRowFree
<1> HIDE DEF n
<1>3. /\ occ' \in [Occurrences -> Occurrence]
      /\ n \in Occurrences => occ'[n].state = x /\ occ'[n].merged = 0 /\ occ'[n].kind = kind
      /\ \A p \in Occurrences \ {n} : occ'[p] = occ[p]
  BY <1>1 DEF n
<1>4. RowsMove
  <2>1. CASE n \in Occurrences
    <3>1. Created' = Created \cup {n}
      BY <1>3, <2>1 DEF Created
    <3> QED
      BY <1>2, <1>3, <3>1 DEF RowsMove, Created, n
  <2>2. CASE n \notin Occurrences
    <3>1. Created' = Created
      BY <1>3, <2>2 DEF Created
    <3> QED
      BY <1>3, <2>2, <3>1 DEF RowsMove, Created, n
  <2> QED
    BY <2>1, <2>2
<1>5. kind # "scheduled" => CountsKept
  BY <1>2, <1>3 DEF CountsKept
<1> QED
  BY <1>3, <1>4, <1>5 DEF n

LEMMA MergesRow ==
  ASSUME occ \in [Occurrences -> Occurrence], NEW o \in Created,
         occ[o].merged < MaxTime, occ' = [occ EXCEPT ![o].merged = @ + 1]
  PROVE  /\ occ' \in [Occurrences -> Occurrence] /\ RowsMove
         /\ occ'[o].merged = occ[o].merged + 1 /\ occ'[o].kind = occ[o].kind
         /\ \A p \in Occurrences \ {o} : occ'[p] = occ[p]
<1> o \in Occurrences /\ occ[o] \in Occurrence /\ MaxTime \in Nat
  BY ScheduleAssumption DEF Created
<1> DEFINE r == [occ[o] EXCEPT !.merged = @ + 1]
<1>1. /\ r \in Occurrence /\ r.state = occ[o].state /\ r.prepared = occ[o].prepared
      /\ r.merged = occ[o].merged + 1 /\ r.kind = occ[o].kind
  BY DEF Occurrence
<1>2. occ' = [occ EXCEPT ![o] = r]
  OBVIOUS
<1> HIDE DEF r
<1>3. /\ occ' \in [Occurrences -> Occurrence] /\ occ'[o].merged = occ[o].merged + 1
      /\ occ'[o].kind = occ[o].kind
      /\ occ'[o].state = occ[o].state /\ occ'[o].prepared = occ[o].prepared
      /\ \A p \in Occurrences \ {o} : occ'[p] = occ[p]
  BY <1>1, <1>2
<1>4. Created' = Created
  BY <1>3 DEF Created
<1> QED
  BY <1>3, <1>4 DEF RowsMove, Created

-----------------------------------------------------------------------------
(* The rows under each action but the claim of a tick *)

LEMMA ServiceRows ==
  ASSUME SchedInv, NEW s \in Services,
         \/ Serve(s) \/ Interrupt(s) \/ Die(s) \/ BeginTick(s) \/ Reconcile(s)
         \/ NothingDue(s) \/ ReadDue(s) \/ Dispatch(s)
  PROVE  occ' \in [Occurrences -> Occurrence] /\ RowsMove /\ CountsKept
<1> DEFINE o == service[s].cur
<1> /\ occ \in [Occurrences -> Occurrence] /\ Serves(s) /\ o \in Occurrences
    /\ service[s].plan \in OccurrenceState
  BY DEF SchedInv, ScheduleTypeOK, ServiceState
<1>1. CASE Record(s)
  <2>1. o \in Created /\ occ' = [occ EXCEPT ![o].state = service[s].plan]
    BY <1>1 DEF Record, At, Write, Serves, Handling
  <2>2. \/ service[s].plan \in {"waiting_capacity", "running"}
        \/ service[s].plan \in {"completed", "failed", "cancelled"} /\ Closes(o)
    BY <1>1 DEF Record, At, Serves, Closes
  <2>3. /\ service[s].plan \in OccurrenceState \ {"none"}
        /\ service[s].plan \in InFlight \/ Closes(o)
    BY <2>2, StatesTyped
  <2> QED
    BY <2>1, <2>3, WritesRow
<1>2. CASE SkipOther(s)
  <2>1. o \in Created /\ occ' = [occ EXCEPT ![o].state = "skipped"]
    BY <1>2 DEF SkipOther, At, Write, Serves, Handling
  <2>2. Closes(o)
    BY <1>2 DEF SkipOther, At, Serves, Closes
  <2>3. "skipped" \in OccurrenceState \ {"none"}
    BY StatesTyped
  <2> QED
    BY <2>1, <2>2, <2>3, WritesRow
<1>3. CASE Receipt(s)
  <2>1. o \in Created /\ occ' = [occ EXCEPT ![o].state = service[s].plan]
    BY <1>3 DEF Receipt, At, Write, Serves, Handling
  <2>2. \/ service[s].plan \in {"waiting_capacity", "running"}
        \/ service[s].plan = "blocked" /\ Closes(o)
    BY <1>3 DEF Receipt, At, Serves, Closes
  <2>3. /\ service[s].plan \in OccurrenceState \ {"none"}
        /\ service[s].plan \in InFlight \/ Closes(o)
    BY <2>2, StatesTyped
  <2> QED
    BY <2>1, <2>3, WritesRow
<1>4. CASE Reserve(s) \/ Prepare(s)
  <2>1. o \in Created
    BY <1>4 DEF Reserve, Prepare, At, Serves, Handling
  <2>2. \/ occ' = occ
        \/ occ' = [occ EXCEPT ![o].state = "preparing"]
        \/ occ' = [occ EXCEPT ![o].prepared = TRUE, ![o].state = "preparing"]
    BY <1>4 DEF Reserve, Prepare, Write
  <2>3. "preparing" \in OccurrenceState \ {"none"} /\ "preparing" \in InFlight
    BY StatesTyped
  <2> QED
    BY <2>1, <2>2, <2>3, WritesRow, RowsFixed
<1>5. CASE UNCHANGED occ
  BY <1>5, RowsFixed
<1> QED
  BY <1>1, <1>2, <1>3, <1>4, <1>5
     DEF Serve, Interrupt, Die, BeginTick, Reconcile, Lookup, NothingDue, ReadDue, Dispatch,
         DispatchBusy, ListPending, Consider, Adopt, Submit, SubmitFails, EndPass, rows

LEMMA OtherRows ==
  ASSUME SchedInv, User \/ TimePasses \/ (\E o \in Occurrences : SessionStep(o)) \/ UNCHANGED vars
  PROVE  occ' \in [Occurrences -> Occurrence] /\ RowsMove /\ CountsKept
<1> /\ occ \in [Occurrences -> Occurrence] /\ RowsInOrder /\ clock \in Times
  BY Bounds DEF SchedInv, ScheduleTypeOK
<1>1. CASE RunNow
  <2>1. RunNowState \in OccurrenceState \ {"none"}
    BY RunNowTyped, StatesTyped
  <2>2. occ' = [occ EXCEPT ![NextRow] = NewRow(RunNowState, "manual", clock)]
    BY <1>1 DEF RunNow
  <2> QED
    BY <2>1, <2>2, AddsRow
<1>2. CASE Retry
  <2>1. "awaiting_service" \in OccurrenceState \ {"none"}
    BY StatesTyped
  <2>2. occ' = [occ EXCEPT ![NextRow] = NewRow("awaiting_service", "retry", clock)]
    BY <1>2 DEF Retry
  <2> QED
    BY <2>1, <2>2, AddsRow
<1>3. CASE UNCHANGED occ
  BY <1>3, RowsFixed
<1> QED
  BY <1>1, <1>2, <1>3
     DEF User, Pause, Resume, Update, Delete, Revise, TimePasses, SessionStep, vars, rows

-----------------------------------------------------------------------------
(* The cursor and the ticks *)

LEMMA TicksFinite ==
  ASSUME NEW S \in SUBSET Times
  PROVE  IsFiniteSet(S)
<1>1. IsFiniteSet(Times)
  BY ScheduleAssumption, FS_Interval DEF Times
<1> QED
  BY <1>1, FS_Subset

(* A claim takes a tick that no claim took before it *)
LEMMA ClaimTicks ==
  ASSUME SchedInv, NEW s \in Services, ClaimTick(s)
  PROVE  /\ occ' \in [Occurrences -> Occurrence] /\ RowsMove
         /\ ticks' \in [Occurrences -> SUBSET Times]
         /\ schedule' \in [enabled : BOOLEAN, deleted : BOOLEAN,
                           revision : 0 .. MaxRequests, due : Times \cup {Never},
                           policy : Policies, kind : Kinds]
         /\ schedule'.policy = schedule.policy /\ Ticked'
<1> DEFINE me == service[s]
           next == NextRunAfter(schedule.kind, me.due, me.now)
<1> /\ occ \in [Occurrences -> Occurrence] /\ RowsInOrder /\ Ticked /\ Serves(s)
    /\ me \in ServiceState /\ ticks \in [Occurrences -> SUBSET Times] /\ clock \in 0 .. MaxTime
    /\ schedule \in [enabled : BOOLEAN, deleted : BOOLEAN,
                     revision : 0 .. MaxRequests, due : Times \cup {Never},
                     policy : Policies, kind : Kinds]
    /\ clock' = clock
    /\ \A o \in Occurrences : occ[o] \in Occurrence
  BY DEF SchedInv, ScheduleTypeOK, ClaimTick
<1>1. CASE UNCHANGED <<rows, ticks>>
  BY <1>1, RowsFixed DEF rows, Ticked, TicksClaimedOnce
<1>2. ASSUME NEW o \in Occurrences, CursorUnchanged(s),
             schedule' = [schedule EXCEPT !.due = next],
             ticks' = [ticks EXCEPT ![o] = @ \cup {me.due}],
             \/ o \in Created /\ occ' = [occ EXCEPT ![o].merged = @ + 1]
             \/ o = NextRow /\ occ' = [occ EXCEPT ![o] = NewRow(me.plan, "scheduled", me.now)]
      PROVE  /\ occ' \in [Occurrences -> Occurrence] /\ RowsMove
             /\ ticks' \in [Occurrences -> SUBSET Times]
             /\ schedule' \in [enabled : BOOLEAN, deleted : BOOLEAN,
                               revision : 0 .. MaxRequests, due : Times \cup {Never},
                               policy : Policies, kind : Kinds]
             /\ schedule'.policy = schedule.policy /\ Ticked'
  <2>1. /\ me.due \in Times /\ me.due = schedule.due /\ me.due <= me.now /\ me.now <= clock
        /\ me.plan \in OccurrenceState \ {"none"} /\ me.now \in Times
    BY <1>2 DEF CursorUnchanged, Serves, ServiceState, ClaimTick, At
  <2>2. /\ Times \subseteq Nat /\ MaxTime \in Nat /\ Never \in Nat
        /\ me.now \in Nat /\ me.due \in Nat /\ clock \in Nat /\ clock <= MaxTime
        /\ me.now \in 0 .. MaxTime
    <3>1. Times \subseteq Nat /\ MaxTime \in Nat /\ Never \in Nat
      BY Bounds, ScheduleAssumption
    <3>2. me.now \in Nat /\ me.due \in Nat
      BY <2>1, <3>1
    <3>3. clock \in Nat /\ clock <= MaxTime
      BY <3>1
    <3>4. me.now \in 0 .. MaxTime
      BY ONLY <2>1, <3>1, <3>2, <3>3
    <3> QED
      BY <3>1, <3>2, <3>3, <3>4
  <2>3. next \in Times \cup {Never} /\ next > me.now
    BY <2>1, <2>2, NextIsLater
  <2>4. next \in Nat
    BY <2>2, <2>3
  <2> HIDE DEF next, me
  <2>5. /\ schedule' \in [enabled : BOOLEAN, deleted : BOOLEAN,
                          revision : 0 .. MaxRequests, due : Times \cup {Never},
                          policy : Policies, kind : Kinds]
        /\ schedule'.policy = schedule.policy /\ schedule'.due = next
    BY <1>2, <2>3
  <2>6. /\ ticks' \in [Occurrences -> SUBSET Times] /\ ticks'[o] = ticks[o] \cup {me.due}
        /\ \A p \in Occurrences \ {o} : ticks'[p] = ticks[p]
    BY <1>2, <2>1
  <2>7. \A p \in Occurrences : me.due \notin ticks[p]
    BY <2>1, <2>2 DEF Ticked
  <2>8. \A p \in Occurrences : \A t \in ticks'[p] : t <= clock' /\ t < schedule'.due
    <3> SUFFICES ASSUME NEW p \in Occurrences, NEW t \in ticks'[p]
                 PROVE  t <= clock' /\ t < schedule'.due
      OBVIOUS
    <3>1. CASE t = me.due
      BY <2>1, <2>2, <2>3, <2>4, <2>5, <3>1
    <3>2. CASE t \in ticks[p]
      <4>1. t \in Nat /\ t <= clock /\ t < me.due
        BY <2>1, <2>2, <3>2 DEF Ticked
      <4> QED
        BY <2>1, <2>2, <2>3, <2>4, <2>5, <4>1
    <3> QED
      BY <2>6, <3>1, <3>2
  <2> DEFINE own(q) == IF q.kind = "scheduled" THEN 1 ELSE 0
  <2>9. /\ occ' \in [Occurrences -> Occurrence] /\ RowsMove
        /\ occ'[o].merged \in Nat /\ occ'[o].merged <= me.due
        /\ occ'[o].merged + own(occ'[o]) = occ[o].merged + own(occ[o]) + 1
        /\ \A p \in Occurrences \ {o} : occ'[p] = occ[p]
    <3>1. occ[o].merged \in Nat /\ occ[o].merged < me.due
      BY <2>1 DEF Ticked, Occurrence
    <3>2. CASE o \in Created /\ occ' = [occ EXCEPT ![o].merged = @ + 1]
      <4>1. occ[o].merged < MaxTime
        BY <2>1, <2>2, <3>1
      <4>2. /\ occ' \in [Occurrences -> Occurrence] /\ RowsMove
            /\ occ'[o].merged = occ[o].merged + 1 /\ occ'[o].kind = occ[o].kind
            /\ \A p \in Occurrences \ {o} : occ'[p] = occ[p]
        BY <3>2, <4>1, MergesRow
      <4> QED
        BY <2>2, <3>1, <4>2
    <3>3. CASE o = NextRow /\ occ' = [occ EXCEPT ![o] = NewRow(me.plan, "scheduled", me.now)]
      <4>1. /\ occ' \in [Occurrences -> Occurrence] /\ RowsMove
            /\ occ'[o].merged = 0 /\ occ'[o].kind = "scheduled"
            /\ \A p \in Occurrences \ {o} : occ'[p] = occ[p]
        BY <2>1, <3>3, AddsRow
      <4>2. occ[o].merged = 0 /\ occ[o].kind = "manual"
        BY <3>3, NextRowFree DEF NoRow
      <4> QED
        BY <2>2, <4>1, <4>2
    <3> QED
      BY <1>2, <3>2, <3>3
  <2>10. \A p \in Occurrences : occ'[p].merged <= clock' /\ occ'[p].merged < schedule'.due
    <3> SUFFICES ASSUME NEW p \in Occurrences
                 PROVE  occ'[p].merged <= clock' /\ occ'[p].merged < schedule'.due
      OBVIOUS
    <3>1. occ'[p].merged \in Nat /\ occ'[p].merged <= me.due
      <4>1. CASE p = o
        BY <2>9, <4>1
      <4>2. CASE p # o
        BY <2>1, <2>2, <2>9, <4>2 DEF Ticked, Occurrence
      <4> QED
        BY <4>1, <4>2
    <3> QED
      BY <2>1, <2>2, <2>3, <2>4, <2>5, <3>1
  <2>11. TicksClaimedOnce'
    <3>1. \A p, q \in Occurrences : p # q => ticks'[p] \cap ticks'[q] = {}
      BY <2>6, <2>7 DEF Ticked, TicksClaimedOnce
    <3>2. Cardinality(ticks'[o]) = occ'[o].merged + own(occ'[o])
      <4>1. IsFiniteSet(ticks[o])
        BY TicksFinite
      <4>2. Cardinality(ticks[o] \cup {me.due}) = Cardinality(ticks[o]) + 1
        BY <2>7, <4>1, FS_AddElement
      <4>3. Cardinality(ticks[o]) = occ[o].merged + own(occ[o])
        BY DEF Ticked, TicksClaimedOnce
      <4> QED
        BY <2>6, <2>9, <4>2, <4>3
    <3>3. \A p \in Occurrences \ {o} : Cardinality(ticks'[p]) = occ'[p].merged + own(occ'[p])
      BY <2>6, <2>9 DEF Ticked, TicksClaimedOnce
    <3> QED
      BY <3>1, <3>2, <3>3 DEF TicksClaimedOnce
  <2> QED
    BY <2>5, <2>6, <2>8, <2>9, <2>10, <2>11 DEF Ticked
<1> QED
  <2>1. CASE /\ CursorUnchanged(s) /\ schedule' = [schedule EXCEPT !.due = next]
             /\ me.target # 0 /\ occ[me.target].state = "queued"
             /\ occ' = [occ EXCEPT ![me.target].merged = @ + 1]
             /\ ticks' = [ticks EXCEPT ![me.target] = @ \cup {me.due}]
    BY <1>2, <2>1 DEF ServiceState, Created
  <2>2. CASE /\ CursorUnchanged(s) /\ schedule' = [schedule EXCEPT !.due = next]
             /\ NextRow \in Occurrences
             /\ occ' = [occ EXCEPT ![NextRow] = NewRow(me.plan, "scheduled", me.now)]
             /\ ticks' = [ticks EXCEPT ![NextRow] = @ \cup {me.due}]
    BY <1>2, <2>2
  <2> QED
    BY <1>1, <2>1, <2>2 DEF ClaimTick

(* A revision is one of the requests that users are granted *)
LEMMA RevisionTyped ==
  ASSUME ScheduleTypeOK, MayAsk
  PROVE  schedule.revision + 1 \in 0 .. MaxRequests
<1>1. Manual \in SUBSET Occurrences
  BY DEF Manual, Created
<1>2. Cardinality(Manual) \in Nat /\ schedule.revision \in 0 .. MaxRequests /\ MaxRequests \in Nat
  BY <1>1, OccurrencesFinite, ScheduleAssumption DEF ScheduleTypeOK
<1> QED
  BY <1>2 DEF MayAsk

(* The schedule, the clock and the ticks under each action but a claim *)
LEMMA OtherTicks ==
  ASSUME SchedInv, [Next]_vars, \A s \in Services : ~ClaimTick(s),
         occ' \in [Occurrences -> Occurrence], CountsKept
  PROVE  /\ ticks' \in [Occurrences -> SUBSET Times] /\ clock' \in 0 .. MaxTime /\ clock <= clock'
         /\ schedule' \in [enabled : BOOLEAN, deleted : BOOLEAN,
                           revision : 0 .. MaxRequests, due : Times \cup {Never},
                           policy : Policies, kind : Kinds]
         /\ schedule'.policy = schedule.policy /\ Ticked'
<1> /\ Ticked /\ ticks \in [Occurrences -> SUBSET Times] /\ clock \in 0 .. MaxTime
    /\ occ \in [Occurrences -> Occurrence] /\ Times \subseteq Nat /\ Never \in Nat
    /\ schedule \in [enabled : BOOLEAN, deleted : BOOLEAN,
                     revision : 0 .. MaxRequests, due : Times \cup {Never},
                     policy : Policies, kind : Kinds]
    /\ MaxTime \in Nat /\ Interval \in Nat \ {0}
  BY ScheduleAssumption, Bounds DEF SchedInv, ScheduleTypeOK
<1>1. /\ ticks' = ticks
      /\ \/ clock' = clock
         \/ clock < MaxTime /\ clock' = clock + 1
      /\ \/ schedule' = schedule
         \/ MayAsk /\ schedule' = [schedule EXCEPT !.enabled = FALSE, !.revision = @ + 1]
         \/ MayAsk /\ schedule' = [schedule EXCEPT !.enabled = TRUE, !.revision = @ + 1]
         \/ MayAsk /\ schedule' = [schedule EXCEPT !.enabled = FALSE, !.deleted = TRUE,
                                                   !.revision = @ + 1]
         \/ /\ MayAsk /\ clock' = clock
            /\ schedule' = [schedule EXCEPT !.enabled = FALSE, !.due = clock + Interval,
                                            !.revision = @ + 1]
  <2>1. CASE UNCHANGED <<schedule, ticks>> /\ (clock' = clock \/ TimePasses)
    BY <2>1 DEF TimePasses
  <2>2. CASE Pause \/ Resume \/ Update \/ Delete
    BY <2>2 DEF Pause, Resume, Update, Delete, Revise
  <2>3. ASSUME NEW s \in Services, Dispatch(s)
        PROVE  UNCHANGED <<schedule, ticks, clock>>
    BY <2>3 DEF Dispatch, DispatchBusy, ListPending, Consider, SkipOther, Reserve, Prepare, Adopt,
                Submit, SubmitFails, Receipt, EndPass, rows
  <2>4. ASSUME NEW s \in Services,
               \/ Serve(s) \/ Interrupt(s) \/ Die(s) \/ BeginTick(s) \/ Lookup(s) \/ Record(s)
               \/ NothingDue(s) \/ ReadDue(s)
        PROVE  UNCHANGED <<schedule, ticks, clock>>
    BY <2>4 DEF Serve, Interrupt, Die, BeginTick, Lookup, Record, NothingDue, ReadDue, rows
  <2>5. CASE RunNow \/ Retry \/ TimePasses \/ UNCHANGED vars \/ \E o \in Occurrences : SessionStep(o)
    <3>1. UNCHANGED <<schedule, ticks>> /\ (clock' = clock \/ TimePasses)
      BY <2>5 DEF RunNow, Retry, TimePasses, SessionStep, rows, vars
    <3> QED
      BY <2>1, <3>1
  <2> QED
    BY <2>1, <2>2, <2>3, <2>4, <2>5 DEF Next, User, TickStep, Reconcile, Claim
<1>2. clock' \in 0 .. MaxTime /\ clock <= clock'
  BY <1>1
<1>3. clock + Interval \in Times
  BY DEF Times
<1>4. MayAsk => schedule.revision + 1 \in 0 .. MaxRequests
  BY RevisionTyped DEF SchedInv
<1>5. /\ schedule' \in [enabled : BOOLEAN, deleted : BOOLEAN,
                        revision : 0 .. MaxRequests, due : Times \cup {Never},
                        policy : Policies, kind : Kinds]
      /\ schedule'.policy = schedule.policy
      /\ schedule'.due = schedule.due \/ schedule'.due = clock + Interval
  BY <1>1, <1>3, <1>4
<1>6. schedule'.due \in Nat /\ schedule.due \in Nat
  BY <1>5
<1>7. \A o \in Occurrences : \A t \in ticks'[o] : t <= clock' /\ t < schedule'.due
  <2> SUFFICES ASSUME NEW o \in Occurrences, NEW t \in ticks[o]
               PROVE  t <= clock' /\ t < schedule'.due
    BY <1>1
  <2>1. t \in Nat /\ t <= clock /\ t < schedule.due
    BY DEF Ticked
  <2> QED
    BY <1>2, <1>5, <1>6, <2>1
<1>8. \A o \in Occurrences : occ'[o].merged <= clock' /\ occ'[o].merged < schedule'.due
  <2> SUFFICES ASSUME NEW o \in Occurrences
               PROVE  occ'[o].merged <= clock' /\ occ'[o].merged < schedule'.due
    OBVIOUS
  <2>1. /\ occ[o].merged \in Nat /\ occ[o].merged <= clock /\ occ[o].merged < schedule.due
        /\ occ'[o].merged = occ[o].merged \/ occ'[o].merged = 0
    BY DEF Ticked, CountsKept, Occurrence
  <2> QED
    BY <1>2, <1>5, <1>6, <2>1
<1>9. TicksClaimedOnce'
  <2> DEFINE own(q) == IF q.kind = "scheduled" THEN 1 ELSE 0
  <2>1. \A o \in Occurrences \ Created : occ[o].merged = 0 /\ occ[o].kind = "manual"
    BY DEF SchedInv, RowsInOrder, NoRow
  <2>2. \A o \in Occurrences : occ'[o].merged + own(occ'[o]) = occ[o].merged + own(occ[o])
    BY <2>1 DEF CountsKept
  <2> QED
    BY <1>1, <2>2 DEF Ticked, TicksClaimedOnce
<1> QED
  BY <1>1, <1>2, <1>5, <1>7, <1>8, <1>9 DEF Ticked

-----------------------------------------------------------------------------
(* The sessions *)

(* The session of the occurrence o starts: there was room for it *)
Starts(o) ==
  /\ session[o] = "none" /\ session'[o] \in {"accepted", "failed"}
  /\ starts'[o] = starts[o] + 1
  /\ occ[o].prepared /\ occ[o].state \in InFlight /\ Room(o)

(* The session of the occurrence o goes on *)
GoesOn(o) ==
  /\ session[o] \in Live /\ session'[o] \notin {"none", "accepted"}
  /\ starts'[o] = starts[o]

SessionsMove ==
  /\ session' \in [Occurrences -> SessionState] /\ starts' \in [Occurrences -> Nat]
  /\ \/ UNCHANGED background
     \/ /\ UNCHANGED <<occ, schedule>>
        /\ \E o \in Occurrences :
             /\ \A p \in Occurrences \ {o} : session'[p] = session[p] /\ starts'[p] = starts[p]
             /\ Starts(o) \/ GoesOn(o)

LEMMA StepSessions ==
  ASSUME SchedInv, [Next]_vars
  PROVE  SessionsMove
<1> session \in [Occurrences -> SessionState] /\ starts \in [Occurrences -> Nat]
  BY DEF SchedInv, ScheduleTypeOK
<1>1. ASSUME NEW s \in Services, Submit(s)
      PROVE  SessionsMove
  <2> DEFINE o == service[s].cur
  <2>1. /\ o \in Occurrences /\ Serves(s) /\ service[s].pc = "submit"
    BY <1>1 DEF SchedInv, ScheduleTypeOK, ServiceState, Submit, At
  <2>2. PICK x \in {"accepted", "failed"} : session' = [session EXCEPT ![o] = x]
    BY <1>1 DEF Submit
  <2>3. /\ session[o] = "none" /\ starts' = [starts EXCEPT ![o] = @ + 1]
        /\ UNCHANGED <<occ, schedule>>
    BY <1>1 DEF Submit, rows
  <2>4. occ[o].prepared /\ occ[o].state \in InFlight /\ Room(o)
    BY <2>1, <2>3 DEF Serves
  <2>5. /\ session'[o] = x /\ starts'[o] = starts[o] + 1
        /\ \A p \in Occurrences \ {o} : session'[p] = session[p] /\ starts'[p] = starts[p]
    BY <2>1, <2>2, <2>3
  <2>6. session' \in [Occurrences -> SessionState] /\ starts' \in [Occurrences -> Nat]
    BY <2>1, <2>2, <2>3 DEF SessionState
  <2>7. Starts(o)
    BY <2>3, <2>4, <2>5 DEF Starts
  <2> QED
    BY <2>1, <2>3, <2>5, <2>6, <2>7 DEF SessionsMove
<1>2. ASSUME NEW o \in Occurrences, SessionStep(o)
      PROVE  SessionsMove
  <2>1. session[o] \in Live /\ starts' = starts /\ UNCHANGED <<occ, schedule>>
    <3>1. DOMAIN SessionMoves = {"accepted", "running", "other"}
      BY Zenon DEF SessionMoves
    <3>2. session[o] \in Live
      BY <1>2, <3>1, Zenon DEF SessionStep, Live
    <3>3. starts' = starts /\ UNCHANGED <<occ, schedule>>
      BY <1>2 DEF SessionStep, rows
    <3> QED
      BY <3>2, <3>3
  <2>2. PICK x \in SessionMoves[session[o]] : session' = [session EXCEPT ![o] = x]
    BY <1>2 DEF SessionStep
  <2>3. /\ session' \in [Occurrences -> SessionState] /\ session'[o] = x
        /\ x \notin {"none", "accepted"}
        /\ \A p \in Occurrences \ {o} : session'[p] = session[p]
    <3>1. x \in {"running", "completed", "failed", "cancelled", "other"}
      <4>1. CASE session[o] = "accepted"
        BY <2>2, <4>1 DEF SessionMoves
      <4>2. CASE session[o] = "running"
        BY <2>2, <4>2 DEF SessionMoves
      <4>3. CASE session[o] = "other"
        BY <2>2, <4>3 DEF SessionMoves
      <4> QED
        BY <2>1, <4>1, <4>2, <4>3 DEF Live
    <3> QED
      BY <2>2, <3>1 DEF SessionState
  <2> QED
    BY <2>1, <2>3 DEF SessionsMove, GoesOn
<1>3. CASE UNCHANGED background
  BY <1>3 DEF SessionsMove, background
<1>4. ASSUME NEW s \in Services, Dispatch(s), ~Submit(s)
      PROVE  UNCHANGED background
  BY <1>4 DEF Dispatch, DispatchBusy, ListPending, Consider, SkipOther, Reserve, Prepare, Adopt,
              SubmitFails, Receipt, EndPass
<1>5. ASSUME NEW s \in Services,
             Serve(s) \/ Interrupt(s) \/ Die(s) \/ BeginTick(s) \/ Reconcile(s) \/ Claim(s)
      PROVE  UNCHANGED background
  BY <1>5 DEF Serve, Interrupt, Die, BeginTick, Reconcile, Lookup, Record, Claim, NothingDue,
              ReadDue, ClaimTick
<1>6. CASE User \/ TimePasses \/ UNCHANGED vars
  <2>1. UNCHANGED background
    BY <1>6 DEF User, RunNow, Retry, Pause, Resume, Update, Delete, Revise, TimePasses, background,
                vars
  <2> QED
    BY <1>3, <2>1
<1> QED
  BY <1>1, <1>2, <1>3, <1>4, <1>5, <1>6 DEF Next, TickStep

(* What Closes says is about a session that is over, or a dispatch *)
LEMMA RanStep ==
  ASSUME SchedInv, SessionsMove, RowsMove, schedule'.policy = schedule.policy,
         NEW o \in Occurrences
  PROVE  Ran(o)'
<1> Ran(o) /\ session[o] \in SessionState /\ starts[o] \in Nat
  BY DEF SchedInv, ScheduleTypeOK
<1>1. CASE UNCHANGED background
  <2>1. session'[o] = session[o] /\ starts'[o] = starts[o]
    BY <1>1 DEF background
  <2>2. CASE session[o] = "none"
    BY <2>1, <2>2 DEF Ran, Live
  <2>3. CASE session[o] # "none"
    <3>1. o \in Created /\ occ[o].prepared
      BY <2>3 DEF Ran, Created
    <3>2. o \in Created' /\ occ'[o].prepared
      BY <3>1 DEF RowsMove
    <3>3. occ'[o].state # "none"
      BY <3>2 DEF Created
    <3>4. ASSUME schedule.policy # "skip", session[o] \in Live
          PROVE  occ'[o].state \in InFlight
      <4>1. ~Closes(o)
        BY <2>3, <3>4 DEF Closes, Live
      <4> QED
        BY <3>1, <3>4, <4>1 DEF RowsMove, Ran
    <3> QED
      BY <2>1, <3>2, <3>3, <3>4 DEF Ran
  <2> QED
    BY <2>2, <2>3
<1>2. CASE UNCHANGED <<occ, schedule>> /\ Starts(o)
  <2>1. occ[o].state # "none"
    BY <1>2, StatesTyped DEF Starts
  <2> QED
    BY <1>2, <2>1 DEF Starts, Ran
<1>3. CASE UNCHANGED <<occ, schedule>> /\ GoesOn(o)
  BY <1>3 DEF GoesOn, Ran, Live
<1>4. CASE UNCHANGED <<occ, schedule>> /\ session'[o] = session[o] /\ starts'[o] = starts[o]
  BY <1>4 DEF Ran
<1> QED
  BY <1>1, <1>2, <1>3, <1>4 DEF SessionsMove

(* No session becomes live but one that there was room for *)
LEMMA LiveStep ==
  ASSUME SchedInv, SessionsMove
  PROVE  \/ LiveRuns' \subseteq LiveRuns
         \/ \E o \in Occurrences : Starts(o) /\ LiveRuns' \subseteq LiveRuns \cup {o}
<1>1. CASE UNCHANGED background
  BY <1>1 DEF LiveRuns, background
<1>2. ASSUME NEW o \in Occurrences, Starts(o) \/ GoesOn(o),
             \A p \in Occurrences \ {o} : session'[p] = session[p]
      PROVE  \/ LiveRuns' \subseteq LiveRuns
             \/ Starts(o) /\ LiveRuns' \subseteq LiveRuns \cup {o}
  BY <1>2 DEF LiveRuns, GoesOn
<1> QED
  BY <1>1, <1>2 DEF SessionsMove

LEMMA BoundStep ==
  ASSUME SchedInv, SessionsMove, schedule'.policy = schedule.policy
  PROVE  BoundedRuns'
<1> /\ LiveRuns \in SUBSET Occurrences /\ LiveRuns' \in SUBSET Occurrences /\ BoundedRuns
    /\ MaxInFlight \in Nat \ {0}
  BY ScheduleAssumption DEF LiveRuns, SchedInv
<1>1. /\ IsFiniteSet(LiveRuns) /\ IsFiniteSet(LiveRuns')
      /\ Cardinality(LiveRuns) \in Nat /\ Cardinality(LiveRuns') \in Nat
  BY OccurrencesFinite
<1>2. CASE LiveRuns' \subseteq LiveRuns
  <2>1. Cardinality(LiveRuns') <= Cardinality(LiveRuns)
    BY <1>1, <1>2, FS_Subset
  <2>2. /\ schedule.policy = "queue_one" => Cardinality(LiveRuns') <= 1
        /\ schedule.policy = "allow_bounded" => Cardinality(LiveRuns') <= MaxInFlight
    BY <1>1, <2>1 DEF BoundedRuns
  <2> QED
    BY <2>2 DEF BoundedRuns
<1>3. ASSUME NEW o \in Occurrences, Starts(o), LiveRuns' \subseteq LiveRuns \cup {o}
      PROVE  BoundedRuns'
  <2> DEFINE S == LiveRuns \ {o}
  <2>1. /\ IsFiniteSet(S) /\ Cardinality(S) \in Nat /\ o \notin S
        /\ LiveRuns \cup {o} = S \cup {o}
    BY OccurrencesFinite
  <2>2. Cardinality(S \cup {o}) = Cardinality(S) + 1 /\ IsFiniteSet(S \cup {o})
    BY <2>1, FS_AddElement
  <2>3. Cardinality(LiveRuns') <= Cardinality(S) + 1
    BY <1>3, <2>1, <2>2, FS_Subset
  <2>4. schedule.policy = "queue_one" => Cardinality(S) = 0
    <3>1. schedule.policy = "queue_one" => S = {}
      BY <1>3 DEF Starts, Room
    <3> QED
      BY <3>1, FS_EmptySet
  <2>5. schedule.policy = "allow_bounded" => Cardinality(S) < MaxInFlight
    BY <1>3 DEF Starts, Room
  <2> HIDE DEF S
  <2>6. /\ schedule.policy = "queue_one" => Cardinality(LiveRuns') <= 1
        /\ schedule.policy = "allow_bounded" => Cardinality(LiveRuns') <= MaxInFlight
    BY <1>1, <2>1, <2>3, <2>4, <2>5
  <2> QED
    BY <2>6 DEF BoundedRuns
<1> QED
  BY <1>2, <1>3, LiveStep

-----------------------------------------------------------------------------
(* What a service knows stays true while others take their steps *)

LEMMA RoomKept ==
  ASSUME SchedInv, SessionsMove, schedule'.policy = schedule.policy,
         LiveRuns' \subseteq LiveRuns, NEW o \in Occurrences, Room(o)
  PROVE  Room(o)'
<1> DEFINE S == LiveRuns \ {o}
           T == LiveRuns' \ {o}
<1>1. T \subseteq S /\ S \in SUBSET Occurrences /\ T \in SUBSET Occurrences
  BY DEF LiveRuns
<1>2. /\ IsFiniteSet(S) /\ Cardinality(S) \in Nat /\ Cardinality(T) \in Nat
      /\ MaxInFlight \in Nat
  BY <1>1, OccurrencesFinite, ScheduleAssumption
<1>3. Cardinality(T) <= Cardinality(S)
  BY <1>1, <1>2, FS_Subset
<1>4. schedule.policy = "allow_bounded" => Cardinality(S) < MaxInFlight
  BY DEF Room
<1>5. schedule.policy = "allow_bounded" => Cardinality(T) < MaxInFlight
  BY <1>2, <1>3, <1>4
<1>6. schedule'.policy = "queue_one" => LiveRuns' \subseteq {o}
  BY DEF Room
<1> QED
  BY <1>5, <1>6 DEF Room

(* Only a service that dispatches starts a session or closes a row without one *)
LEMMA ServesKept ==
  ASSUME SchedInv, SessionsMove, RowsMove, occ' \in [Occurrences -> Occurrence],
         schedule'.policy = schedule.policy, clock' \in Nat, clock <= clock',
         NEW t \in Services, service'[t] = service[t],
         service[t].pc \in Dispatching =>
           /\ \A o \in Occurrences : ~Starts(o)
           /\ \A s \in Services \ {t} : service[s].pc \notin Dispatching
  PROVE  Serves(t)'
<1> DEFINE me == service[t]
           o == me.cur
<1> /\ me \in ServiceState /\ o \in Occurrences /\ Serves(t) /\ Ran(o)
    /\ clock \in Nat /\ me.now \in Nat
  BY Bounds DEF SchedInv, ScheduleTypeOK, ServiceState
<1>1. Created \subseteq Created' /\ me.now <= clock'
  BY DEF RowsMove, Serves
<1>2. me.pc \in {"skip", "reserve", "prepare", "submit", "receipt"} => me.pc \in Dispatching
  BY DEF Dispatching
<1>3. me.pc \in Dispatching =>
        /\ LiveRuns' \subseteq LiveRuns
        /\ \A p \in Occurrences : session[p] = "none" => session'[p] = "none"
  <2>1. me.pc \in Dispatching => LiveRuns' \subseteq LiveRuns
    BY LiveStep
  <2>2. me.pc \in Dispatching =>
          \A p \in Occurrences : session[p] = "none" => session'[p] = "none"
    BY DEF SessionsMove, background, GoesOn, Live
  <2> QED
    BY <2>1, <2>2
<1>4. session[o] \in {"completed", "failed", "cancelled"} => session'[o] = session[o]
  BY DEF SessionsMove, background, Starts, GoesOn, Live
<1>5. session[o] # "none" => session'[o] # "none"
  BY DEF SessionsMove, background, Starts, GoesOn, Live
<1>6. o \in Created /\ me.pc = "submit" =>
        /\ occ[o].prepared => occ'[o].prepared
        /\ session[o] = "none" /\ occ[o].state \in InFlight => occ'[o].state \in InFlight
  <2> SUFFICES ASSUME o \in Created, me.pc = "submit"
               PROVE  /\ occ[o].prepared => occ'[o].prepared
                      /\ session[o] = "none" /\ occ[o].state \in InFlight
                           => occ'[o].state \in InFlight
    OBVIOUS
  <2>1. session[o] = "none" => ~Closes(o)
    BY <1>2 DEF Closes, Dispatching
  <2> QED
    BY <2>1 DEF RowsMove
<1>7. Room(o) /\ me.pc \in Dispatching => Room(o)'
  BY <1>3, RoomKept
<1> HIDE DEF me
<1>8. /\ me.now <= clock' /\ me.todo \subseteq Created'
      /\ me.pc \in Handling => o \in Created'
  BY <1>1 DEF Serves, me
<1>9. /\ me.pc = "claim" => me.due <= me.now /\ me.plan # "none"
      /\ me.pc = "record" =>
           \/ me.plan \in {"waiting_capacity", "running"}
           \/ me.plan \in {"completed", "failed", "cancelled"} /\ session'[o] = me.plan
      /\ me.pc = "skip" => schedule'.policy = "skip"
      /\ me.pc = "prepare" => session'[o] = "none"
  BY <1>2, <1>3, <1>4 DEF Serves, me
<1>10. /\ me.pc = "submit" => /\ occ'[o].prepared
                              /\ session'[o] = "none" => occ'[o].state \in InFlight
       /\ me.pc = "receipt" =>
            \/ me.plan \in {"waiting_capacity", "running"}
            \/ me.plan = "blocked" /\ session'[o] = "none"
       /\ me.pc \in {"reserve", "prepare", "submit"} => Room(o)'
  BY <1>2, <1>3, <1>5, <1>6, <1>7 DEF Serves, Handling, me
<1> QED
  BY <1>8, <1>9, <1>10 DEF Serves, me

-----------------------------------------------------------------------------
(* The initial states and the steps *)

LEMMA InitOK == Init => SchedInv
<1> SUFFICES ASSUME Init PROVE SchedInv
  OBVIOUS
<1> /\ MaxTime \in Nat /\ MaxRequests \in Nat /\ MaxFaults \in Nat
    /\ Interval \in Nat \ {0} /\ MaxInFlight \in Nat \ {0} /\ NoOne \notin Services
  BY ScheduleAssumption
<1>1. /\ occ = [o \in Occurrences |-> NoRow] /\ session = [o \in Occurrences |-> "none"]
      /\ starts = [o \in Occurrences |-> 0] /\ ticks = [o \in Occurrences |-> {}]
      /\ clock = 0 /\ faults = 0 /\ lease = NoOne /\ dispatcher = NoOne
      /\ service = [s \in Services |-> IdleService]
  BY DEF Init
<1>2. /\ NoRow \in Occurrence /\ NoRow.state = "none" /\ NoRow.merged = 0
  BY Bounds DEF NoRow, Occurrence, OccurrenceState
<1>3. /\ IdleService \in ServiceState /\ IdleService.pc = "idle" /\ IdleService.now = 0
      /\ IdleService.todo = {}
  BY IdleTyped DEF IdleService
<1>4. /\ schedule \in [enabled : BOOLEAN, deleted : BOOLEAN,
                       revision : 0 .. MaxRequests, due : Times \cup {Never},
                       policy : Policies, kind : Kinds]
      /\ schedule.due = Interval
  <2>1. Interval \in Times
    BY DEF Times
  <2> QED
    BY <2>1 DEF Init
<1>5. ScheduleTypeOK
  <2>1. \A s \in Services : service[s].pc \notin Dispatching
    BY <1>1, <1>3 DEF Dispatching
  <2> QED
    BY <1>1, <1>2, <1>3, <1>4, <2>1 DEF ScheduleTypeOK, SessionState
<1>6. Created = {} /\ LiveRuns = {}
  BY <1>1, <1>2 DEF Created, LiveRuns, Live
<1>7. RowsInOrder
  <2>1. Created = 1 .. 0
    BY <1>6
  <2> QED
    BY <1>1, <2>1 DEF RowsInOrder
<1>8. BoundedRuns
  BY <1>6, FS_EmptySet DEF BoundedRuns
<1>9. Ticked
  <2>1. \A o \in Occurrences : Cardinality(ticks[o]) = 0
    BY <1>1, FS_EmptySet
  <2>2. \A o \in Occurrences : occ[o].merged = 0 /\ occ[o].kind = "manual"
    BY <1>1 DEF NoRow
  <2>3. TicksClaimedOnce
    BY <1>1, <2>1, <2>2 DEF TicksClaimedOnce
  <2> QED
    BY <1>1, <1>4, <2>2, <2>3 DEF Ticked
<1>10. \A o \in Occurrences : Ran(o)
  BY <1>1 DEF Ran, Live
<1>11. \A s \in Services : Serves(s)
  BY <1>1, <1>3, <1>6 DEF Serves, Handling
<1> QED
  BY <1>5, <1>7, <1>8, <1>9, <1>10, <1>11 DEF SchedInv

(* The service that takes a step, if one does *)
LEMMA StepServices ==
  ASSUME SchedInv, [Next]_vars, SessionsMove, RowsMove, occ' \in [Occurrences -> Occurrence],
         schedule'.policy = schedule.policy, clock' \in Nat, clock <= clock'
  PROVE  /\ ServiceOK
         /\ \A s \in Services : Serves(s)'
<1> /\ ScheduleTypeOK /\ service \in [Services -> ServiceState]
    /\ Created \subseteq Created' /\ \A o \in Occurrences : Ran(o)
    /\ NoOne \notin Services
  BY ScheduleAssumption DEF SchedInv, ScheduleTypeOK, RowsMove
<1>1. ASSUME NEW s \in Services, ServiceOK, Moved(s), Serves(s)',
             (\E o \in Occurrences : Starts(o)) => dispatcher = s
      PROVE  \A t \in Services : Serves(t)'
  <2> SUFFICES ASSUME NEW t \in Services \ {s} PROVE Serves(t)'
    BY <1>1
  <2>1. service'[t] = service[t]
    BY <1>1 DEF Moved
  <2>2. service[t].pc \in Dispatching =>
          /\ \A o \in Occurrences : ~Starts(o)
          /\ \A r \in Services \ {t} : service[r].pc \notin Dispatching
    BY <1>1 DEF ScheduleTypeOK
  <2> QED
    BY <2>1, <2>2, ServesKept
<1>2. ASSUME UNCHANGED <<service, dispatcher>>, lease' \in Services \cup {NoOne},
             faults' \in 0 .. MaxFaults, \A o \in Occurrences : ~Starts(o)
      PROVE  ServiceOK /\ \A t \in Services : Serves(t)'
  <2>1. ServiceOK
    BY <1>2 DEF ServiceOK, ScheduleTypeOK
  <2> SUFFICES ASSUME NEW t \in Services PROVE Serves(t)'
    BY <2>1
  <2>2. service'[t] = service[t]
    BY <1>2
  <2>3. service[t].pc \in Dispatching =>
          \A r \in Services \ {t} : service[r].pc \notin Dispatching
    BY DEF ScheduleTypeOK
  <2> QED
    BY <1>2, <2>2, <2>3, ServesKept
<1>3. ASSUME UNCHANGED session
      PROVE  \A o \in Occurrences : ~Starts(o)
  BY <1>3 DEF Starts
<1>4. ASSUME NEW s \in Services, BeginTick(s) \/ Reconcile(s) \/ Claim(s)
      PROVE  ServiceOK /\ \A t \in Services : Serves(t)'
  <2>1. UNCHANGED session
    BY <1>4 DEF BeginTick, Reconcile, Lookup, Record, Claim, NothingDue, ReadDue, ClaimTick,
       background
  <2>2. ServiceOK /\ Moved(s) /\ Serves(s)'
    BY <1>4, ReconcileServes DEF SchedInv
  <2> QED
    BY <1>1, <1>3, <2>1, <2>2
<1>5. ASSUME NEW s \in Services, Dispatch(s)
      PROVE  ServiceOK /\ \A t \in Services : Serves(t)'
  <2>1. ServiceOK /\ Moved(s) /\ Serves(s)'
    BY <1>5, DispatchServes DEF SchedInv
  <2>2. CASE Submit(s)
    <3>1. dispatcher = s
      BY <2>2 DEF Submit, At, ScheduleTypeOK, Dispatching
    <3> QED
      BY <1>1, <2>1, <3>1
  <2>3. CASE UNCHANGED session
    BY <1>1, <1>3, <2>1, <2>3
  <2> QED
    BY <1>5, <2>2, <2>3
       DEF Dispatch, DispatchBusy, ListPending, Consider, SkipOther, Reserve, Prepare, Adopt,
           SubmitFails, Receipt, EndPass, background
<1>6. ASSUME NEW s \in Services, Die(s)
      PROVE  ServiceOK /\ \A t \in Services : Serves(t)'
  <2>1. /\ service' = [service EXCEPT ![s] = IdleService] /\ UNCHANGED session /\ clock' = clock
        /\ lease' \in {lease, NoOne}
        /\ dispatcher' = IF dispatcher = s THEN NoOne ELSE dispatcher
        /\ faults < MaxFaults /\ faults' = faults + 1
    BY <1>6 DEF Die, background
  <2>2. /\ Moved(s) /\ service'[s].now = 0 /\ service'[s].todo = {}
        /\ service'[s].pc \in {"idle", "list"}
    BY <2>1, ResetMoves
  <2>3. faults' \in 0 .. MaxFaults
    BY <2>1, ScheduleAssumption DEF ScheduleTypeOK
  <2>4. \A t \in Services \ {s} : service'[t].pc \in Dispatching => dispatcher' = t
    BY <2>1, <2>2 DEF Moved, ScheduleTypeOK
  <2>5. ServiceOK
    BY <2>1, <2>2, <2>3, <2>4 DEF ServiceOK, ScheduleTypeOK, Dispatching, Moved
  <2>6. 0 <= clock'
    OBVIOUS
  <2>7. Serves(s)'
    BY <2>2, <2>6, AtRest
  <2> QED
    BY <1>1, <1>3, <2>1, <2>2, <2>5, <2>7
<1>7. ASSUME NEW s \in Services, Serve(s) \/ Interrupt(s)
      PROVE  ServiceOK /\ \A t \in Services : Serves(t)'
  <2>1. /\ UNCHANGED <<service, dispatcher>> /\ UNCHANGED session
        /\ lease' \in Services \cup {NoOne}
        /\ \/ faults' = faults
           \/ faults < MaxFaults /\ faults' = faults + 1
    BY <1>7 DEF Serve, Interrupt, background
  <2>2. faults' \in 0 .. MaxFaults
    BY <2>1, ScheduleAssumption DEF ScheduleTypeOK
  <2> QED
    BY <1>2, <1>3, <2>1, <2>2
<1>8. CASE UNCHANGED <<service, dispatcher, lease, faults>> /\ UNCHANGED session
  BY <1>2, <1>3, <1>8 DEF ScheduleTypeOK
<1>9. ASSUME NEW o \in Occurrences, SessionStep(o)
      PROVE  ServiceOK /\ \A t \in Services : Serves(t)'
  <2>1. UNCHANGED <<service, dispatcher, lease, faults, starts>>
    BY <1>9 DEF SessionStep
  <2>2. \A p \in Occurrences : ~Starts(p)
    BY <2>1 DEF Starts, ScheduleTypeOK
  <2> QED
    BY <1>2, <2>1, <2>2 DEF ScheduleTypeOK
<1>10. CASE User \/ TimePasses \/ UNCHANGED vars
  <2>1. UNCHANGED <<service, dispatcher, lease, faults>> /\ UNCHANGED session
    BY <1>10 DEF User, RunNow, Retry, Pause, Resume, Update, Delete, Revise, TimePasses, vars,
       background
  <2> QED
    BY <1>8, <2>1
<1> QED
  BY <1>4, <1>5, <1>6, <1>7, <1>9, <1>10 DEF Next, TickStep

LEMMA StepOK ==
  ASSUME SchedInv, [Next]_vars
  PROVE  SchedInv'
<1>1. SessionsMove
  BY StepSessions
<1>2. /\ occ' \in [Occurrences -> Occurrence] /\ RowsMove
      /\ ticks' \in [Occurrences -> SUBSET Times] /\ clock' \in 0 .. MaxTime /\ clock <= clock'
      /\ schedule' \in [enabled : BOOLEAN, deleted : BOOLEAN,
                        revision : 0 .. MaxRequests, due : Times \cup {Never},
                        policy : Policies, kind : Kinds]
      /\ schedule'.policy = schedule.policy /\ Ticked'
  <2>1. ASSUME NEW s \in Services, ClaimTick(s)
        PROVE  clock' \in 0 .. MaxTime /\ clock <= clock'
    BY <2>1, ScheduleAssumption DEF ClaimTick, SchedInv, ScheduleTypeOK
  <2>2. CASE \E s \in Services : ClaimTick(s)
    BY <2>1, <2>2, ClaimTicks
  <2>3. CASE \A s \in Services : ~ClaimTick(s)
    <3>1. occ' \in [Occurrences -> Occurrence] /\ CountsKept /\ RowsMove
      BY <2>3, ServiceRows, OtherRows DEF Next, TickStep, Claim
    <3> QED
      BY <2>3, <3>1, OtherTicks
  <2> QED
    BY <2>2, <2>3
<1>3. clock' \in Nat
  BY <1>2, ScheduleAssumption
<1>4. ServiceOK /\ \A s \in Services : Serves(s)'
  BY <1>1, <1>2, <1>3, StepServices
<1>5. ScheduleTypeOK'
  BY <1>1, <1>2, <1>4 DEF ScheduleTypeOK, SessionsMove, ServiceOK
<1>6. RowsInOrder'
  BY <1>2, RowsStep DEF RowsMove, SchedInv
<1>7. BoundedRuns'
  BY <1>1, <1>2, BoundStep
<1>8. \A o \in Occurrences : Ran(o)'
  BY <1>1, <1>2, RanStep
<1> QED
  BY <1>2, <1>4, <1>5, <1>6, <1>7, <1>8 DEF SchedInv

-----------------------------------------------------------------------------

(* Whatever services, users and sessions do, the database, the processes and
   what the processes know of the database fit together: what scheduler.py
   relies on from one of its transactions to the next *)
THEOREM SchedInvariant == Spec => []SchedInv
<1>1. SchedInv /\ [Next]_vars => SchedInv'
  BY StepOK
<1> QED
  BY InitOK, <1>1, PTL DEF Spec

(* Every variable keeps its type, and at most one process dispatches
   (_dispatch_pending holds dispatch.lock) *)
THEOREM ScheduleTyped == Spec => []ScheduleTypeOK
<1>1. SchedInv => ScheduleTypeOK
  BY DEF SchedInv
<1> QED
  BY SchedInvariant, <1>1, PTL

(* No occurrence gets a second session, whichever service dies between the
   acceptance of the session and the receipt (build_background_dispatcher
   looks for the session of an earlier dispatch) *)
THEOREM OneSessionEach == Spec => []OneRunEach
<1>1. SchedInv => OneRunEach
  BY DEF SchedInv, OneRunEach, Ran
<1> QED
  BY SchedInvariant, <1>1, PTL

(* "queue_one" has one live session at a time and "allow_bounded" at most
   max_in_flight (_dispatch_pending_exclusive) *)
THEOREM RunsAreBounded == Spec => []BoundedRuns
<1>1. SchedInv => BoundedRuns
  BY DEF SchedInv
<1> QED
  BY SchedInvariant, <1>1, PTL

(* No due tick is claimed twice, and none without an occurrence that counts
   it, by whichever services, users' edits and resumed schedules come between
   (claim_due_occurrence compares the cursor) *)
THEOREM EachTickOnce == Spec => []TicksClaimedOnce
<1>1. SchedInv => TicksClaimedOnce
  BY DEF SchedInv, Ticked
<1> QED
  BY SchedInvariant, <1>1, PTL
=============================================================================
