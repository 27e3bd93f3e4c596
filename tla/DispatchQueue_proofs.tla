------------------------ MODULE DispatchQueue_proofs ------------------------
(***************************************************************************)
(* The limits of the dispatch queue for any number of projects, sessions,  *)
(* handoffs and failures: the worker limits, the length of the queue, and  *)
(* one session for each idempotency key.                                   *)
(***************************************************************************)
EXTENDS DispatchQueue, FiniteSetTheorems, TLAPS

(* While a pass has a request in hand that does not count as working there is
   room for its worker: what changes without the lock can take the room of a
   handoff, never that of a worker *)
InNeed ==
  \/ At("reserve")
  \/ pass.pc \in {"cursor", "launch"} /\ pass.target \notin Working

Room ==
  InNeed =>
    /\ Cardinality(Working) < MaxWorkers
    /\ Cardinality(OfProject(Working, session[pass.target].project))
         < MaxWorkersPerProject

(* The inductive invariant *)
QueueInv ==
  /\ QueueTypeOK /\ SlotsBounded /\ PendingBounded /\ OneSessionPerKey /\ Room

-----------------------------------------------------------------------------
(* Sets of sessions and their sizes *)

LEMMA SessionSets ==
  ASSUME NEW T \in SUBSET Sessions
  PROVE  IsFiniteSet(T) /\ Cardinality(T) \in Nat
<1>1. IsFiniteSet(Sessions)
  BY QueueAssumption, FS_Interval DEF Sessions
<1> QED
  BY <1>1, FS_Subset, FS_CardinalityType

LEMMA Fewer ==
  ASSUME NEW S \in SUBSET Sessions, NEW T \in SUBSET S
  PROVE  Cardinality(T) <= Cardinality(S)
BY SessionSets, FS_Subset

LEMMA OneMore ==
  ASSUME NEW S \in SUBSET Sessions, NEW s \in Sessions,
         NEW T \in SUBSET (S \cup {s})
  PROVE  Cardinality(T) <= Cardinality(S) + 1
<1>1. S \cup {s} \in SUBSET Sessions
  OBVIOUS
<1>2. Cardinality(T) <= Cardinality(S \cup {s})
  BY <1>1, Fewer
<1>3. /\ Cardinality(S \cup {s}) = Cardinality(S)
         \/ Cardinality(S \cup {s}) = Cardinality(S) + 1
      /\ Cardinality(S) \in Nat /\ Cardinality(T) \in Nat
  <2>1. T \in SUBSET Sessions
    OBVIOUS
  <2>2. IsFiniteSet(S) /\ Cardinality(S) \in Nat /\ Cardinality(T) \in Nat
    BY <2>1, SessionSets
  <2> QED
    BY <2>2, FS_AddElement
<1> QED
  BY <1>2, <1>3

-----------------------------------------------------------------------------
(* What the invariants need of a step *)

KeptProjects(set) == \A t \in set : session'[t].project = session[t].project

LEMMA SlotsKept ==
  ASSUME SlotsBounded, Working' \subseteq Working, KeptProjects(Working')
  PROVE  SlotsBounded'
<1>1. Working \in SUBSET Sessions /\ Working' \in SUBSET Sessions
  BY DEF Working, With
<1>2. Cardinality(Working') <= Cardinality(Working)
  BY <1>1, Fewer
<1>3. ASSUME NEW q \in Projects
      PROVE  /\ Cardinality(OfProject(Working, q)') <= Cardinality(OfProject(Working, q))
             /\ Cardinality(OfProject(Working, q)) \in Nat
             /\ Cardinality(OfProject(Working, q)') \in Nat
  <2>1. /\ OfProject(Working, q) \in SUBSET Sessions
        /\ OfProject(Working, q)' \in SUBSET OfProject(Working, q)
        /\ OfProject(Working, q)' \in SUBSET Sessions
    BY <1>1 DEF OfProject, KeptProjects
  <2> QED
    BY <2>1, Fewer, SessionSets
<1>4. Cardinality(Working) \in Nat /\ Cardinality(Working') \in Nat
  BY <1>1, SessionSets
<1> QED
  BY <1>2, <1>3, <1>4, QueueAssumption DEF SlotsBounded

LEMMA SlotsAdded ==
  ASSUME SlotsBounded, NEW s \in Sessions, Working' \subseteq Working \cup {s},
         KeptProjects(Working'), HasCapacity(Working, session[s].project)
  PROVE  SlotsBounded'
<1>1. Working \in SUBSET Sessions /\ Working' \in SUBSET Sessions
  BY DEF Working, With
<1>2. Cardinality(Working') <= Cardinality(Working) + 1
  BY <1>1, OneMore
<1>3. Cardinality(Working) \in Nat /\ Cardinality(Working') \in Nat
  BY <1>1, SessionSets
<1>4. Cardinality(Working') <= MaxWorkers
  BY <1>2, <1>3, QueueAssumption DEF HasCapacity
<1>5. ASSUME NEW q \in Projects
      PROVE  Cardinality(OfProject(Working, q)') <= MaxWorkersPerProject
  <2>1. /\ OfProject(Working, q) \in SUBSET Sessions
        /\ OfProject(Working, q)' \in SUBSET Sessions
    BY <1>1 DEF OfProject
  <2>2. /\ Cardinality(OfProject(Working, q)) \in Nat
        /\ Cardinality(OfProject(Working, q)') \in Nat
    BY <2>1, SessionSets
  <2>3. Cardinality(OfProject(Working, q)) <= MaxWorkersPerProject
    BY DEF SlotsBounded
  <2>4. CASE q = session[s].project
    <3>1. OfProject(Working, q)' \in SUBSET (OfProject(Working, q) \cup {s})
      BY <1>1 DEF OfProject, KeptProjects
    <3>2. Cardinality(OfProject(Working, q)') <= Cardinality(OfProject(Working, q)) + 1
      BY <3>1, <2>1, OneMore
    <3>3. Cardinality(OfProject(Working, q)) < MaxWorkersPerProject
      BY <2>4 DEF HasCapacity
    <3> QED
      BY <3>2, <3>3, <2>2, QueueAssumption
  <2>5. CASE q # session[s].project
    <3>1. OfProject(Working, q)' \in SUBSET OfProject(Working, q)
      BY <2>5, <1>1 DEF OfProject, KeptProjects
    <3>2. Cardinality(OfProject(Working, q)') <= Cardinality(OfProject(Working, q))
      BY <3>1, <2>1, Fewer
    <3> QED
      BY <3>2, <2>3, <2>2, QueueAssumption
  <2> QED
    BY <2>4, <2>5
<1> QED
  BY <1>4, <1>5 DEF SlotsBounded

LEMMA PendingKept ==
  ASSUME PendingBounded, Pending' \subseteq Pending
  PROVE  PendingBounded'
<1>1. Pending \in SUBSET Sessions /\ Pending' \in SUBSET Sessions
  BY DEF Pending, With
<1>2. Cardinality(Pending') <= Cardinality(Pending)
  BY <1>1, Fewer
<1>3. Cardinality(Pending) \in Nat /\ Cardinality(Pending') \in Nat
  BY <1>1, SessionSets
<1> QED
  BY <1>2, <1>3, QueueAssumption DEF PendingBounded

LEMMA PendingAdded ==
  ASSUME NEW s \in Sessions, Pending' \subseteq Pending \cup {s},
         ~(Cardinality(Pending) >= MaxQueueLength)
  PROVE  PendingBounded'
<1>1. Pending \in SUBSET Sessions /\ Pending' \in SUBSET Sessions
  BY DEF Pending, With
<1>2. Cardinality(Pending') <= Cardinality(Pending) + 1
  BY <1>1, OneMore
<1>3. Cardinality(Pending) \in Nat /\ Cardinality(Pending') \in Nat
  BY <1>1, SessionSets
<1> QED
  BY <1>2, <1>3, QueueAssumption DEF PendingBounded

(* A worker gone leaves room for one *)
LEMMA OneLess ==
  ASSUME NEW S \in SUBSET Sessions, NEW s \in S, NEW T \in SUBSET (S \ {s})
  PROVE  Cardinality(T) < Cardinality(S)
<1>1. IsFiniteSet(S) /\ Cardinality(S) \in Nat
  BY SessionSets
<1>2. Cardinality(S \ {s}) = Cardinality(S) - 1
  BY <1>1, FS_RemoveElement
<1>3. S \ {s} \in SUBSET Sessions /\ T \in SUBSET Sessions
  OBVIOUS
<1>4. Cardinality(T) <= Cardinality(S \ {s}) /\ Cardinality(T) \in Nat
  BY <1>3, Fewer, SessionSets
<1> QED
  BY <1>1, <1>2, <1>4

LEMMA RoomKept ==
  ASSUME SlotsBounded, Room, Working' \subseteq Working, KeptProjects(Working'),
         pass' = pass, pass.target \in Sessions,
         session[pass.target].project \in Projects,
         session'[pass.target].project = session[pass.target].project
  PROVE  Room'
<1> SUFFICES ASSUME InNeed'
             PROVE  /\ Cardinality(Working') < MaxWorkers
                    /\ Cardinality(OfProject(Working, session[pass.target].project)')
                         < MaxWorkersPerProject
  BY DEF Room
<1> DEFINE s == pass.target
           q == session[s].project
<1>1. Working \in SUBSET Sessions /\ Working' \in SUBSET Sessions
  BY DEF Working, With
<1>3. /\ OfProject(Working, q)' = {t \in Working' : session'[t].project = q'}
      /\ q' = q
  BY DEF OfProject
<1>4. /\ OfProject(Working, q) \in SUBSET Sessions
      /\ OfProject(Working, q)' \in SUBSET OfProject(Working, q)
      /\ OfProject(Working, q)' \in SUBSET Sessions
  BY <1>1, <1>3 DEF OfProject, KeptProjects
<1>6. /\ Cardinality(Working) \in Nat /\ Cardinality(Working') \in Nat
      /\ Cardinality(OfProject(Working, q)) \in Nat
      /\ Cardinality(OfProject(Working, q)') \in Nat
  BY <1>1, <1>4, SessionSets
<1>7. CASE InNeed
  <2>1. /\ Cardinality(Working) < MaxWorkers
        /\ Cardinality(OfProject(Working, q)) < MaxWorkersPerProject
    BY <1>7 DEF Room
  <2> HIDE DEF q
  <2>2. /\ Cardinality(Working') <= Cardinality(Working)
        /\ Cardinality(OfProject(Working, q)') <= Cardinality(OfProject(Working, q))
    BY <1>1, <1>4, Fewer
  <2>3. /\ Cardinality(Working') < MaxWorkers
        /\ Cardinality(OfProject(Working, q)') < MaxWorkersPerProject
    BY <2>1, <2>2, <1>6, QueueAssumption
  <2> QED
    BY <2>3 DEF q
<1>8. CASE ~InNeed
  <2>1. s \in Working /\ s \notin Working'
    BY <1>8 DEF InNeed, At
  <2>2. s \in OfProject(Working, q) /\ s \notin OfProject(Working, q)'
    BY <2>1, <1>3 DEF OfProject
  <2>3. /\ Cardinality(Working) <= MaxWorkers
        /\ Cardinality(OfProject(Working, q)) <= MaxWorkersPerProject
    BY DEF SlotsBounded
  <2>4. /\ Working' \in SUBSET (Working \ {s})
        /\ OfProject(Working, q)' \in SUBSET (OfProject(Working, q) \ {s})
    BY <2>1, <2>2, <1>4
  <2> HIDE DEF q, s
  <2>5. /\ Cardinality(Working') < Cardinality(Working)
        /\ Cardinality(OfProject(Working, q)') < Cardinality(OfProject(Working, q))
    BY <1>1, <1>4, <2>1, <2>2, <2>4, OneLess
  <2>6. /\ Cardinality(Working') < MaxWorkers
        /\ Cardinality(OfProject(Working, q)') < MaxWorkersPerProject
    BY <2>3, <2>5, <1>6, QueueAssumption
  <2> QED
    BY <2>6 DEF q, s
<1> QED
  BY <1>7, <1>8
-----------------------------------------------------------------------------
(* What a session that moves, and one that is created, leaves alone *)

LEMMA Moves ==
  ASSUME QueueTypeOK, NEW s \in Sessions, session[s].status # "none",
         NEW st \in Status \ {"none"}, Become(s, st)
  PROVE  /\ session' \in [Sessions -> Record]
         /\ \A t \in Sessions :
              /\ session'[t].project = session[t].project
              /\ session'[t].key = session[t].key
              /\ t # s => session'[t] = session[t]
         /\ session'[s].status = st
<1>1. session \in [Sessions -> Record]
  BY DEF QueueTypeOK
<1>2. session' = [session EXCEPT ![s].status = st]
  BY DEF Become
<1>3. session[s] \in Record
  BY <1>1
<1>4. /\ [session[s] EXCEPT !.status = st] \in Record
      /\ [session[s] EXCEPT !.status = st].project = session[s].project
      /\ [session[s] EXCEPT !.status = st].key = session[s].key
      /\ [session[s] EXCEPT !.status = st].status = st
  BY <1>3 DEF Record
<1>5. session' = [session EXCEPT ![s] = [session[s] EXCEPT !.status = st]]
  BY <1>1, <1>2
<1> QED
  BY <1>1, <1>4, <1>5

LEMMA MovedSets ==
  ASSUME QueueTypeOK, NEW s \in Sessions, session[s].status # "none",
         NEW st \in Status \ {"none"}, Become(s, st)
  PROVE  /\ KeptProjects(Working')
         /\ Working' \subseteq Working \cup {s}
         /\ st \notin {"reserved", "live"} => Working' \subseteq Working
         /\ s \in Working => Working' \subseteq Working
         /\ Pending' \subseteq Pending \cup {s}
         /\ st # "pending" => Pending' \subseteq Pending
         /\ Pending \ {s} \subseteq Pending'
         /\ st = "reserved" => s \in With("reserved")'
         /\ With("reserved") \ {s} \subseteq With("reserved")'
         /\ pass.target \in Sessions =>
              session'[pass.target].project = session[pass.target].project
<1>1. /\ \A t \in Sessions :
           /\ session'[t].project = session[t].project
           /\ t # s => session'[t] = session[t]
      /\ session'[s].status = st
  BY Moves
<1> QED
  BY <1>1 DEF KeptProjects, Working, Pending, With

LEMMA MovedKeys ==
  ASSUME QueueTypeOK, OneSessionPerKey, NEW s \in Sessions,
         session[s].status # "none", NEW st \in Status \ {"none"}, Become(s, st)
  PROVE  OneSessionPerKey'
<1>1. /\ \A t \in Sessions :
           /\ session'[t].key = session[t].key
           /\ t # s => session'[t] = session[t]
      /\ session'[s].status = st
  BY Moves
<1>2. \A t \in Sessions :
        session'[t].status # "none" => session[t].status # "none"
  BY <1>1
<1> QED
  BY <1>1, <1>2 DEF OneSessionPerKey

LEMMA Creates ==
  ASSUME QueueTypeOK, NEW s \in Sessions, NEW q \in Projects,
         NEW key \in Keys \cup {NoKey}, NEW st \in {"pending", "prepared"},
         Accept(st, key, q, s)
  PROVE  /\ session' \in [Sessions -> Record]
         /\ \A t \in Sessions : t # s => session'[t] = session[t]
         /\ session'[s].status = st /\ session'[s].key = key
         /\ session[s].status = "none"
<1>1. session \in [Sessions -> Record]
  BY DEF QueueTypeOK
<1>2. [status |-> st, project |-> q, key |-> key] \in Record
  BY DEF Record, Status
<1> QED
  BY <1>1, <1>2 DEF Accept, IsNext

LEMMA CreatedSets ==
  ASSUME QueueTypeOK, NEW s \in Sessions, NEW q \in Projects,
         NEW key \in Keys \cup {NoKey}, NEW st \in {"pending", "prepared"},
         Accept(st, key, q, s)
  PROVE  /\ KeptProjects(Working') /\ Working' \subseteq Working
         /\ Pending' \subseteq Pending \cup {s}
         /\ st # "pending" => Pending' \subseteq Pending
         /\ Pending \subseteq Pending'
         /\ With("reserved") \subseteq With("reserved")'
         /\ \A t \in Pending : session'[t].project = session[t].project
<1>1. /\ \A t \in Sessions : t # s => session'[t] = session[t]
      /\ session'[s].status = st
      /\ session[s].status = "none"
  BY Creates
<1> QED
  BY <1>1 DEF KeptProjects, Working, Pending, With

LEMMA CreatedKeys ==
  ASSUME QueueTypeOK, OneSessionPerKey, NEW s \in Sessions, NEW q \in Projects,
         NEW key \in Keys \cup {NoKey}, NEW st \in {"pending", "prepared"},
         Accept(st, key, q, s), key = NoKey \/ Existing(key) = {}
  PROVE  OneSessionPerKey'
<1>1. /\ \A t \in Sessions : t # s => session'[t] = session[t]
      /\ session'[s].key = key
  BY Creates
<1>2. key # NoKey =>
        \A t \in Sessions : session[t].status # "none" => session[t].key # key
  BY DEF Existing
<1> QED
  BY <1>1, <1>2 DEF OneSessionPerKey
-----------------------------------------------------------------------------
(* The ways a step may change a session *)

Moved(s) ==
  /\ session[s].status # "none"
  /\ \/ Become(s, "gone")
     \/ session[s].status = "gone" /\ Become(s, "prepared")
     \/ ~(Cardinality(Pending) >= MaxQueueLength) /\ Become(s, "pending")
     \/ s \in Pending /\ At("reserve") /\ s = pass.target /\ Become(s, "reserved")
     \/ s \in With("reserved") /\ Become(s, "live")
     \/ /\ s \in With("prepared") /\ At("launch") /\ s = pass.target
        /\ Become(s, "live")
     \/ /\ s \in With("prepared") /\ HasCapacity(Occupied \ {s}, session[s].project)
        /\ Become(s, "live")

Created(s) ==
  \E q \in Projects, key \in Keys \cup {NoKey} :
    /\ key = NoKey \/ Existing(key) = {}
    /\ \/ Accept("prepared", key, q, s)
       \/ ~(Cardinality(Pending) >= MaxQueueLength) /\ Accept("pending", key, q, s)

LEMMA Steps ==
  ASSUME QueueTypeOK, [Next]_vars
  PROVE  session' = session \/ \E s \in Sessions : Moved(s) \/ Created(s)
<1>1. CASE Acquire
  BY <1>1 DEF Acquire
<1>2. CASE Relaunch
  <2>1. PICK s \in With("reserved") : Become(s, "live") \/ Become(s, "gone")
    BY <1>2 DEF Relaunch
  <2>2. s \in Sessions /\ session[s].status = "reserved"
    BY DEF With
  <2>3. Moved(s)
    BY <2>1, <2>2 DEF Moved
  <2> QED
    BY <2>2, <2>3
<1>3. CASE Recovered \/ Select \/ Settle \/ Cursor \/ AdmitFails \/ Crash
  BY <1>3 DEF Recovered, Select, Settle, Cursor, AdmitFails, Crash
<1>4. CASE Reserve
  <2>1. At("reserve") /\ (Become(pass.target, "reserved") \/ Become(pass.target, "gone"))
    BY <1>4 DEF Reserve
  <2>2. pass.target \in Pending
    BY <2>1 DEF QueueTypeOK
  <2>3. pass.target \in Sessions /\ session[pass.target].status = "pending"
    BY <2>2 DEF Pending, With
  <2>4. Moved(pass.target)
    BY <2>1, <2>2, <2>3 DEF Moved
  <2> QED
    BY <2>3, <2>4
<1>5. CASE Launch /\ session' # session
  <2>1. /\ At("launch") /\ session[pass.target].status \in {"reserved", "prepared"}
        /\ Become(pass.target, "live") \/ Become(pass.target, "gone")
    BY <1>5 DEF Launch
  <2>2. pass.target \in Sessions
    BY <2>1 DEF QueueTypeOK, At
  <2>3. pass.target \in With("reserved") \/ pass.target \in With("prepared")
    BY <2>1, <2>2 DEF With
  <2>4. Moved(pass.target)
    BY <2>1, <2>3 DEF Moved
  <2> QED
    BY <2>2, <2>4
<1>6. CASE Admit
  <2>1. PICK q \in Projects, key \in Keys \cup {NoKey} :
          \/ session' = session
          \/ /\ ~(\/ key # NoKey /\ Existing(key) # {}
                  \/ Cardinality(Pending) >= MaxQueueLength)
             /\ \E s \in Sessions : Accept("pending", key, q, s)
    BY <1>6 DEF Admit
  <2>2. CASE session' = session
    BY <2>2
  <2>3. CASE session' # session
    BY <2>1, <2>3 DEF Created
  <2> QED
    BY <2>2, <2>3
<1>7. CASE Handoff
  <2>1. PICK s \in Sessions :
          \/ session[s].status = "gone" /\ Become(s, "prepared")
          \/ \E q \in Projects : Accept("prepared", NoKey, q, s)
    BY <1>7 DEF Handoff
  <2>2. Moved(s) \/ Created(s)
    BY <2>1 DEF Moved, Created
  <2> QED
    BY <2>2
<1>8. CASE Start
  <2>1. PICK s \in With("prepared") :
          IF HasCapacity(Occupied \ {s}, session[s].project) THEN Become(s, "live")
          ELSE Become(s, IF Cardinality(Pending) >= MaxQueueLength
                         THEN "gone" ELSE "pending")
    BY <1>8 DEF Start
  <2>2. s \in Sessions /\ session[s].status = "prepared"
    BY DEF With
  <2>3. Moved(s)
    BY <2>1, <2>2 DEF Moved
  <2> QED
    BY <2>2, <2>3
<1>9. CASE CancelPending
  <2>1. PICK s \in Pending : Become(s, "gone")
    BY <1>9 DEF CancelPending
  <2>2. s \in Sessions /\ session[s].status = "pending"
    BY DEF Pending, With
  <2>3. Moved(s)
    BY <2>1, <2>2 DEF Moved
  <2> QED
    BY <2>2, <2>3
<1>10. ASSUME NEW s \in Sessions, WorkerEnds(s) \/ Abandon(s)
       PROVE  Moved(s)
  BY <1>10 DEF WorkerEnds, Abandon, Moved
<1>11. CASE UNCHANGED vars
  BY <1>11 DEF vars
<1> QED
  BY <1>1, <1>2, <1>3, <1>4, <1>5, <1>6, <1>7, <1>8, <1>9, <1>10, <1>11
     DEF Next, PassStep

-----------------------------------------------------------------------------
(* Each invariant is kept *)

LEMMA KeysStep ==
  ASSUME QueueTypeOK, OneSessionPerKey, [Next]_vars
  PROVE  OneSessionPerKey'
<1>1. CASE session' = session
  BY <1>1 DEF OneSessionPerKey
<1>2. ASSUME NEW s \in Sessions, Moved(s)
      PROVE  OneSessionPerKey'
  <2>1. PICK st \in {"gone", "prepared", "pending", "reserved", "live"} : Become(s, st)
    BY <1>2 DEF Moved
  <2>2. st \in Status \ {"none"} /\ session[s].status # "none"
    BY <1>2 DEF Status, Moved
  <2> QED
    BY <2>1, <2>2, MovedKeys
<1>3. ASSUME NEW s \in Sessions, Created(s)
      PROVE  OneSessionPerKey'
  <2>1. PICK q \in Projects, key \in Keys \cup {NoKey} :
          /\ key = NoKey \/ Existing(key) = {}
          /\ Accept("prepared", key, q, s) \/ Accept("pending", key, q, s)
    BY <1>3 DEF Created
  <2>2. PICK st \in {"pending", "prepared"} : Accept(st, key, q, s)
    BY <2>1
  <2> QED
    BY <2>1, <2>2, CreatedKeys
<1> QED
  BY <1>1, <1>2, <1>3, Steps

LEMMA PendingStep ==
  ASSUME QueueTypeOK, PendingBounded, [Next]_vars
  PROVE  PendingBounded'
<1>1. CASE session' = session
  <2>1. Pending' \subseteq Pending
    BY <1>1 DEF Pending, With
  <2> QED
    BY <2>1, PendingKept
<1>2. ASSUME NEW s \in Sessions, Moved(s)
      PROVE  PendingBounded'
  <2>1. PICK st \in {"gone", "prepared", "pending", "reserved", "live"} :
          /\ Become(s, st)
          /\ st = "pending" => ~(Cardinality(Pending) >= MaxQueueLength)
    BY <1>2 DEF Moved
  <2>2. st \in Status \ {"none"} /\ session[s].status # "none"
    BY <1>2 DEF Status, Moved
  <2>3. /\ Pending' \subseteq Pending \cup {s}
        /\ st # "pending" => Pending' \subseteq Pending
    BY <2>1, <2>2, MovedSets
  <2> QED
    BY <2>1, <2>3, PendingKept, PendingAdded
<1>3. ASSUME NEW s \in Sessions, Created(s)
      PROVE  PendingBounded'
  <2>1. PICK q \in Projects, key \in Keys \cup {NoKey} :
          \/ Accept("prepared", key, q, s)
          \/ ~(Cardinality(Pending) >= MaxQueueLength) /\ Accept("pending", key, q, s)
    BY <1>3 DEF Created
  <2>2. CASE Accept("prepared", key, q, s)
    BY <2>2, CreatedSets, PendingKept
  <2>3. CASE ~(Cardinality(Pending) >= MaxQueueLength) /\ Accept("pending", key, q, s)
    BY <2>3, CreatedSets, PendingAdded
  <2> QED
    BY <2>1, <2>2, <2>3
<1> QED
  BY <1>1, <1>2, <1>3, Steps

(* The sets of a handoff's competitors hold every worker *)
LEMMA Competitors ==
  ASSUME QueueTypeOK, NEW T \in SUBSET Sessions, Working \subseteq T,
         NEW q \in Projects, HasCapacity(T, q)
  PROVE  HasCapacity(Working, q)
<1>1. /\ Working \in SUBSET T /\ Working \in SUBSET Sessions
      /\ OfProject(Working, q) \in SUBSET OfProject(T, q)
      /\ OfProject(T, q) \in SUBSET Sessions
      /\ OfProject(Working, q) \in SUBSET Sessions
  BY DEF OfProject
<1>2. /\ Cardinality(Working) <= Cardinality(T)
      /\ Cardinality(OfProject(Working, q)) <= Cardinality(OfProject(T, q))
  BY <1>1, Fewer
<1>3. /\ Cardinality(Working) \in Nat /\ Cardinality(T) \in Nat
      /\ Cardinality(OfProject(Working, q)) \in Nat
      /\ Cardinality(OfProject(T, q)) \in Nat
  BY <1>1, SessionSets
<1> QED
  BY <1>2, <1>3, QueueAssumption DEF HasCapacity

LEMMA ProjectOf ==
  ASSUME QueueTypeOK, NEW s \in Sessions
  PROVE  session[s].project \in Projects
BY DEF QueueTypeOK, Record

LEMMA SlotsStep ==
  ASSUME QueueTypeOK, SlotsBounded, Room, [Next]_vars
  PROVE  SlotsBounded'
<1>1. CASE session' = session
  <2>1. Working' \subseteq Working /\ KeptProjects(Working')
    BY <1>1 DEF Working, With, KeptProjects
  <2> QED
    BY <2>1, SlotsKept
<1>2. ASSUME NEW s \in Sessions, Moved(s)
      PROVE  SlotsBounded'
  <2>1. session[s].status # "none"
    BY <1>2 DEF Moved
  <2>2. CASE Become(s, "gone") \/ Become(s, "prepared") \/ Become(s, "pending")
    <3>1. PICK st \in {"gone", "prepared", "pending"} : Become(s, st)
      BY <2>2
    <3>2. Working' \subseteq Working /\ KeptProjects(Working')
      BY <3>1, <2>1, MovedSets DEF Status
    <3> QED
      BY <3>2, SlotsKept
  <2>3. CASE At("reserve") /\ s = pass.target /\ Become(s, "reserved")
    <3>1. Working' \subseteq Working \cup {s} /\ KeptProjects(Working')
      BY <2>3, <2>1, MovedSets DEF Status
    <3>2. HasCapacity(Working, session[s].project)
      <4>1. InNeed
        BY <2>3 DEF InNeed, At
      <4> QED
        BY <4>1, <2>3 DEF Room, HasCapacity
    <3> QED
      BY <3>1, <3>2, SlotsAdded
  <2>4. CASE s \in With("reserved") /\ Become(s, "live")
    <3>1. s \in Working
      BY <2>4 DEF Working
    <3>2. Working' \subseteq Working /\ KeptProjects(Working')
      BY <3>1, <2>4, <2>1, MovedSets DEF Status
    <3> QED
      BY <3>2, SlotsKept
  <2>6. CASE /\ s \in With("prepared") /\ At("launch") /\ s = pass.target
             /\ Become(s, "live")
    <3>1. s \notin Working
      BY <2>6 DEF Working, With
    <3>2. HasCapacity(Working, session[s].project)
      <4>1. InNeed
        BY <2>6, <3>1 DEF InNeed, At
      <4> QED
        BY <4>1, <2>6 DEF Room, HasCapacity
    <3>3. Working' \subseteq Working \cup {s} /\ KeptProjects(Working')
      BY <2>6, <2>1, MovedSets DEF Status
    <3> QED
      BY <3>2, <3>3, SlotsAdded
  <2>5. CASE /\ s \in With("prepared")
             /\ HasCapacity(Occupied \ {s}, session[s].project) /\ Become(s, "live")
    <3>1. Working \subseteq Occupied \ {s} /\ Occupied \ {s} \in SUBSET Sessions
      BY <2>5 DEF Working, Occupied, With
    <3>2. HasCapacity(Working, session[s].project)
      BY <2>5, <3>1, ProjectOf, Competitors
    <3>3. Working' \subseteq Working \cup {s} /\ KeptProjects(Working')
      BY <2>5, <2>1, MovedSets DEF Status
    <3> QED
      BY <3>2, <3>3, SlotsAdded
  <2> QED
    BY <1>2, <2>2, <2>3, <2>4, <2>5, <2>6 DEF Moved
<1>3. ASSUME NEW s \in Sessions, Created(s)
      PROVE  SlotsBounded'
  <2>1. PICK q \in Projects, key \in Keys \cup {NoKey} :
          Accept("prepared", key, q, s) \/ Accept("pending", key, q, s)
    BY <1>3 DEF Created
  <2>2. PICK st \in {"pending", "prepared"} : Accept(st, key, q, s)
    BY <2>1
  <2>3. Working' \subseteq Working /\ KeptProjects(Working')
    BY <2>2, CreatedSets
  <2> QED
    BY <2>3, SlotsKept
<1> QED
  BY <1>1, <1>2, <1>3, Steps
-----------------------------------------------------------------------------
(* Types *)

LEMMA SessionTyped ==
  ASSUME QueueTypeOK, [Next]_vars
  PROVE  session' \in [Sessions -> Record]
<1>1. CASE session' = session
  BY <1>1 DEF QueueTypeOK
<1>2. ASSUME NEW s \in Sessions, Moved(s)
      PROVE  session' \in [Sessions -> Record]
  <2>1. PICK st \in {"gone", "prepared", "pending", "reserved", "live"} : Become(s, st)
    BY <1>2 DEF Moved
  <2>2. st \in Status \ {"none"} /\ session[s].status # "none"
    BY <1>2 DEF Status, Moved
  <2> QED
    BY <2>1, <2>2, Moves
<1>3. ASSUME NEW s \in Sessions, Created(s)
      PROVE  session' \in [Sessions -> Record]
  <2>1. PICK q \in Projects, key \in Keys \cup {NoKey} :
          Accept("prepared", key, q, s) \/ Accept("pending", key, q, s)
    BY <1>3 DEF Created
  <2>2. PICK st \in {"pending", "prepared"} : Accept(st, key, q, s)
    BY <2>1
  <2> QED
    BY <2>2, Creates
<1> QED
  BY <1>1, <1>2, <1>3, Steps

PassTypeOK ==
  /\ pass \in [pc : PC, op : Op, target : Nat, last : 0 .. NumProjects]
  /\ cursor \in 0 .. NumProjects
  /\ skips \in [Projects -> Nat] /\ lost \in Nat
  /\ handoffs \in 0 .. MaxHandoffs /\ faults \in 0 .. MaxFaults
  /\ At("free") => pass = Free

(* The request a pass has in hand is where the pass left it *)
InHand ==
  /\ At("reserve") => pass.target \in Pending
  /\ pass.pc \in {"cursor", "launch"} => pass.target \in Sessions \ With("none")

LEMMA TypeParts == QueueTypeOK <=> session \in [Sessions -> Record] /\ PassTypeOK /\ InHand
BY DEF QueueTypeOK, PassTypeOK, InHand

LEMMA FaultBound ==
  ASSUME PassTypeOK, Fault
  PROVE  faults' \in 0 .. MaxFaults
BY QueueAssumption DEF PassTypeOK, Fault

LEMMA PassTyped ==
  ASSUME QueueTypeOK, [Next]_vars
  PROVE  PassTypeOK'
<1>0. PassTypeOK /\ session \in [Sessions -> Record]
  BY TypeParts
<1>f. Free \in [pc : PC, op : Op, target : Nat, last : 0 .. NumProjects]
  BY QueueAssumption DEF Free, PC, Op
<1> USE DEF At, Goto
<1>1. CASE Acquire
  BY <1>0, <1>1 DEF Acquire, PassTypeOK, PC, Op
<1>2. CASE Relaunch
  BY <1>0, <1>2, FaultBound DEF Relaunch, PassTypeOK
<1>3. CASE Recovered
  BY <1>0, <1>3 DEF Recovered, PassTypeOK, PC
<1>4. CASE Select
  <2>1. PICK q \in Projects, s \in Sessions :
          /\ pass' = [pass EXCEPT !.pc = "reserve", !.target = s]
          /\ skips' = [r \in Projects |->
               IF r = q \/ r \notin Eligible THEN 0 ELSE skips[r] + 1]
    BY <1>4 DEF Select, Turn, Eligible, OfProject, Pending, With
  <2>2. s \in Nat
    BY DEF Sessions
  <2>3. skips' \in [Projects -> Nat]
    BY <1>0, <2>1 DEF PassTypeOK
  <2> QED
    BY <1>0, <1>4, <2>1, <2>2, <2>3 DEF Select, PassTypeOK, PC
<1>5. CASE Settle
  BY <1>0, <1>5, <1>f DEF Settle, PassTypeOK, PC
<1>6. CASE Reserve
  <2>1. faults' \in 0 .. MaxFaults /\ lost' \in Nat
    BY <1>0, <1>6, FaultBound DEF Reserve, PassTypeOK
  <2> QED
    BY <1>0, <1>6, <2>1 DEF Reserve, PassTypeOK, PC
<1>7. CASE Cursor
  <2>1. pass.target \in Sessions
    BY <1>7 DEF Cursor, QueueTypeOK, With
  <2>2. session[pass.target].project \in 0 .. NumProjects
    BY <2>1, ProjectOf DEF Projects
  <2>3. /\ faults' \in 0 .. MaxFaults /\ lost' \in Nat
        /\ cursor' \in 0 .. NumProjects
    BY <1>0, <1>7, <2>2, FaultBound DEF Cursor, PassTypeOK
  <2> QED
    BY <1>0, <1>7, <2>2, <2>3 DEF Cursor, PassTypeOK, PC
<1>8. CASE Launch
  <2>1. faults' \in 0 .. MaxFaults
    BY <1>0, <1>8, FaultBound DEF Launch, PassTypeOK
  <2> QED
    BY <1>0, <1>8, <2>1 DEF Launch, PassTypeOK, PC
<1>9. CASE Admit
  <2>1. pass' = Free \/ pass' = [pass EXCEPT !.pc = "recover", !.op = "submitted"]
    BY <1>9 DEF Admit
  <2> QED
    BY <1>0, <1>9, <2>1, <1>f DEF Admit, PassTypeOK, PC, Op
<1>10. CASE AdmitFails
  <2>1. faults' \in 0 .. MaxFaults
    BY <1>0, <1>10, FaultBound DEF AdmitFails, PassTypeOK
  <2> QED
    BY <1>0, <1>10, <1>f, <2>1 DEF AdmitFails, PassTypeOK
<1>11. CASE Handoff
  BY <1>0, <1>11, QueueAssumption DEF Handoff, PassTypeOK
<1>12. CASE Start \/ CancelPending
  BY <1>0, <1>12 DEF Start, CancelPending, PassTypeOK
<1>13. ASSUME NEW s \in Sessions, WorkerEnds(s) \/ Abandon(s)
       PROVE  PassTypeOK'
  BY <1>0, <1>13 DEF WorkerEnds, Abandon, PassTypeOK
<1>14. CASE Crash
  <2>1. faults' \in 0 .. MaxFaults /\ lost' \in Nat
    BY <1>0, <1>14, FaultBound DEF Crash, PassTypeOK
  <2> QED
    BY <1>0, <1>14, <1>f, <2>1 DEF Crash, PassTypeOK
<1>15. CASE UNCHANGED vars
  BY <1>0, <1>15 DEF vars, PassTypeOK
<1> QED
  BY <1>1, <1>2, <1>3, <1>4, <1>5, <1>6, <1>7, <1>8, <1>9, <1>10, <1>11, <1>12,
     <1>13, <1>14, <1>15 DEF Next, PassStep

(* What happens without the lock touches no pending record *)
Aside == Handoff \/ \E s \in Sessions : WorkerEnds(s) \/ Abandon(s)

Exist == Sessions \ With("none")

LEMMA AsideSets ==
  ASSUME QueueTypeOK, Aside
  PROVE  /\ Working' \subseteq Working /\ KeptProjects(Working')
         /\ Pending \subseteq Pending'
         /\ \A t \in Exist : t \in Exist' /\ session'[t].project = session[t].project
         /\ pass' = pass
<1>1. ASSUME NEW s \in Sessions, NEW st \in {"gone", "prepared"}, Become(s, st),
             session[s].status \in {"gone", "live", "reserved", "prepared"}
      PROVE  /\ Working' \subseteq Working /\ KeptProjects(Working')
             /\ Pending \subseteq Pending'
             /\ \A t \in Exist : /\ t \in Exist'
                                 /\ session'[t].project = session[t].project
  <2>1. /\ Working' \subseteq Working /\ KeptProjects(Working')
        /\ Pending \ {s} \subseteq Pending'
    BY <1>1, MovedSets DEF Status
  <2>2. s \notin Pending
    BY <1>1 DEF Pending, With
  <2>3. /\ \A t \in Sessions :
             /\ session'[t].project = session[t].project
             /\ t # s => session'[t] = session[t]
        /\ session'[s].status = st
    BY <1>1, Moves DEF Status
  <2>4. \A t \in Exist : t \in Exist' /\ session'[t].project = session[t].project
    BY <2>3 DEF Exist, With
  <2> QED
    BY <2>1, <2>2, <2>4
<1>2. CASE Handoff
  <2>1. PICK s \in Sessions :
          \/ session[s].status = "gone" /\ Become(s, "prepared")
          \/ \E q \in Projects : Accept("prepared", NoKey, q, s)
    BY <1>2 DEF Handoff
  <2>2. CASE session[s].status = "gone" /\ Become(s, "prepared")
    BY <2>2, <1>1, <1>2 DEF Handoff
  <2>3. CASE \E q \in Projects : Accept("prepared", NoKey, q, s)
    <3>1. PICK q \in Projects : Accept("prepared", NoKey, q, s)
      BY <2>3
    <3>2. /\ Working' \subseteq Working /\ KeptProjects(Working')
          /\ Pending \subseteq Pending'
      BY <3>1, CreatedSets
    <3>3. /\ \A t \in Sessions : t # s => session'[t] = session[t]
          /\ session[s].status = "none"
      BY <3>1, Creates
    <3>4. \A t \in Exist : t \in Exist' /\ session'[t].project = session[t].project
      BY <3>3 DEF Exist, With
    <3> QED
      BY <3>2, <3>4, <1>2 DEF Handoff
  <2> QED
    BY <2>1, <2>2, <2>3
<1>3. ASSUME NEW s \in Sessions, WorkerEnds(s) \/ Abandon(s)
      PROVE  /\ Become(s, "gone") /\ session[s].status \in {"live", "reserved", "prepared"}
             /\ pass' = pass
  BY <1>3 DEF WorkerEnds, Abandon
<1> QED
  BY <1>1, <1>2, <1>3 DEF Aside

LEMMA EmptyHanded ==
  ASSUME QueueTypeOK,
         Acquire \/ Relaunch \/ Recovered \/ Settle \/ Admit \/ AdmitFails \/ Crash
  PROVE  pass'.pc \in {"recover", "select", "admit", "free"}
<1>0. pass \in [pc : PC, op : Op, target : Nat, last : 0 .. NumProjects]
  BY DEF QueueTypeOK
<1>f. pass' = Free => pass'.pc = "free"
  BY DEF Free
<1>1. CASE Acquire
  <2>1. PICK op \in {"dispatch", "submit"} :
          pass' = [pass EXCEPT !.pc = "recover", !.op = op]
    BY <1>1 DEF Acquire
  <2> QED
    BY <2>1, <1>0
<1>2. CASE Relaunch
  BY <1>2 DEF Relaunch, At
<1>3. CASE Settle
  <2>1. pass' = Free \/ pass' = [pass EXCEPT !.pc = "admit"]
    BY <1>3 DEF Settle
  <2>2. pass' = [pass EXCEPT !.pc = "admit"] => pass'.pc = "admit"
    BY <1>0
  <2> QED
    BY <2>1, <2>2, <1>f
<1>6. CASE Recovered
  BY <1>0, <1>6 DEF Recovered
<1>4. CASE Admit
  <2>1. pass' = Free \/ pass' = [pass EXCEPT !.pc = "recover", !.op = "submitted"]
    BY <1>4 DEF Admit
  <2>2. pass' = [pass EXCEPT !.pc = "recover", !.op = "submitted"]
          => pass'.pc = "recover"
    BY <1>0
  <2> QED
    BY <2>1, <2>2, <1>f
<1>5. CASE AdmitFails \/ Crash
  BY <1>5 DEF AdmitFails, Crash, Free
<1> QED
  BY <1>1, <1>2, <1>3, <1>4, <1>5, <1>6

LEMMA InHandStep ==
  ASSUME QueueTypeOK, [Next]_vars
  PROVE  InHand'
<1>0. /\ InHand /\ pass \in [pc : PC, op : Op, target : Nat, last : 0 .. NumProjects]
      /\ session \in [Sessions -> Record]
  BY TypeParts DEF PassTypeOK
<1> USE DEF At, Goto
<1>1. CASE pass'.pc \notin {"reserve", "cursor", "launch"}
  BY <1>1 DEF InHand
<1>2. CASE Select
  <2>1. PICK s \in Pending : pass' = [pass EXCEPT !.pc = "reserve", !.target = s]
    BY <1>2 DEF Select, OfProject
  <2>2. s \in Pending /\ Pending' = Pending
    BY <1>2 DEF Select, OfProject, Pending, With
  <2>3. pass'.pc = "reserve" /\ pass'.target = s
    BY <2>1, <1>0
  <2> QED
    BY <2>2, <2>3 DEF InHand
<1>3. CASE Reserve /\ pass'.pc # "select"
  <2>1. /\ At("reserve") /\ Become(pass.target, "reserved")
        /\ pass' = [pass EXCEPT !.pc = "cursor"]
    BY <1>3, <1>0 DEF Reserve
  <2>2. pass.target \in Sessions /\ session[pass.target].status # "none"
    BY <2>1, <1>0 DEF InHand, Pending, With
  <2>3. session'[pass.target].status = "reserved"
    BY <2>1, <2>2, Moves DEF Status
  <2>4. pass'.pc = "cursor" /\ pass'.target = pass.target
    BY <2>1, <1>0
  <2> QED
    BY <2>2, <2>3, <2>4 DEF InHand, With
<1>4. CASE Cursor
  <2>1. At("cursor") /\ With("none")' = With("none")
    BY <1>4 DEF Cursor, With
  <2>2. pass'.pc = "launch" /\ pass'.target = pass.target
    BY <1>4, <1>0 DEF Cursor
  <2> QED
    BY <2>1, <2>2, <1>0 DEF InHand
<1>5. CASE Aside
  BY <1>5, <1>0, AsideSets DEF InHand, Exist
<1>6. CASE UNCHANGED vars
  BY <1>6, <1>0 DEF InHand, Pending, With, vars
<1>7. CASE Acquire \/ Relaunch \/ Recovered \/ Settle \/ Admit \/ AdmitFails \/ Crash
  <2>1. pass'.pc \in {"recover", "select", "admit", "free"}
    BY <1>7, EmptyHanded
  <2> QED
    BY <2>1, <1>1
<1>8. CASE Start \/ CancelPending
  BY <1>8, <1>1 DEF Start, CancelPending
<1>9. CASE Launch
  <2>1. pass'.pc = "select"
    BY <1>9, <1>0 DEF Launch
  <2> QED
    BY <2>1, <1>1
<1> QED
  BY <1>1, <1>2, <1>3, <1>4, <1>5, <1>6, <1>7, <1>8, <1>9
     DEF Next, PassStep, Aside

LEMMA TypeStep ==
  ASSUME QueueTypeOK, [Next]_vars
  PROVE  QueueTypeOK'
<1>1. session' \in [Sessions -> Record] /\ PassTypeOK' /\ InHand'
  BY SessionTyped, PassTyped, InHandStep
<1> QED
  BY <1>1 DEF QueueTypeOK, PassTypeOK, InHand

LEMMA RoomStep ==
  ASSUME QueueTypeOK, SlotsBounded, Room, [Next]_vars
  PROVE  Room'
<1>0. /\ InHand /\ pass \in [pc : PC, op : Op, target : Nat, last : 0 .. NumProjects]
      /\ session \in [Sessions -> Record]
  BY TypeParts DEF PassTypeOK
<1> USE DEF At, Goto
<1>1. CASE pass'.pc \notin {"reserve", "cursor", "launch"}
  BY <1>1 DEF Room, InNeed
<1>2. CASE Select
  <2>0. PICK q \in Eligible : \E s \in OfProject(Pending, q) :
          pass' = [pass EXCEPT !.pc = "reserve", !.target = s]
    BY <1>2 DEF Select, Turn
  <2>1. PICK s \in OfProject(Pending, q) :
          pass' = [pass EXCEPT !.pc = "reserve", !.target = s]
    BY <2>0
  <2>2. pass'.target = s /\ session[s].project = q /\ session' = session
    BY <2>1, <1>0, <1>2 DEF Select, OfProject
  <2>3. HasCapacity(Occupied, q) /\ q \in Projects
    BY <1>2, <2>1, SessionSets, QueueAssumption
       DEF Select, Eligible, HasCapacity, Occupied, With
  <2>4. Working \subseteq Occupied /\ Occupied \in SUBSET Sessions
    BY DEF Working, Occupied, With
  <2>5. HasCapacity(Working, q)
    BY <2>3, <2>4, Competitors
  <2>6. Working' = Working /\ OfProject(Working, session[pass.target].project)'
                              = OfProject(Working, q)
    BY <2>2 DEF Working, With, OfProject
  <2> QED
    BY <2>5, <2>6, <2>2 DEF Room, HasCapacity
<1>3. CASE Aside
  <2>1. /\ Working' \subseteq Working /\ KeptProjects(Working') /\ pass' = pass
        /\ \A t \in Exist : session'[t].project = session[t].project
    BY <1>3, AsideSets
  <2>2. CASE pass.pc \in {"reserve", "cursor", "launch"}
    <3>1. pass.target \in Exist /\ pass.target \in Sessions
      BY <1>0, <2>2 DEF InHand, Exist, Pending, With
    <3>2. session[pass.target].project \in Projects
      BY <3>1, ProjectOf
    <3> QED
      BY <2>1, <3>1, <3>2, RoomKept
  <2> QED
    BY <2>1, <2>2, <1>1
<1>4. CASE UNCHANGED vars
  BY <1>4 DEF Room, InNeed, Working, OfProject, With, vars
<1>5. CASE Acquire \/ Relaunch \/ Recovered \/ Settle \/ Admit \/ AdmitFails \/ Crash
  <2>1. pass'.pc \in {"recover", "select", "admit", "free"}
    BY <1>5, EmptyHanded
  <2> QED
    BY <2>1, <1>1
<1>6. CASE Start \/ CancelPending
  BY <1>6, <1>1 DEF Start, CancelPending
<1>7. CASE Reserve
  <2>1. CASE Become(pass.target, "reserved") /\ At("reserve")
             /\ pass' = [pass EXCEPT !.pc = "cursor"]
    <3>1. pass.target \in Sessions /\ session[pass.target].status # "none"
      BY <2>1, <1>0 DEF InHand, Pending, With
    <3>2. session'[pass.target].status = "reserved"
      BY <2>1, <3>1, Moves DEF Status
    <3>3. pass'.pc = "cursor" /\ pass'.target = pass.target
      BY <2>1, <1>0
    <3>4. pass'.target \in Working'
      BY <3>1, <3>2, <3>3 DEF Working, With
    <3> QED
      BY <3>3, <3>4 DEF Room, InNeed
  <2>2. CASE pass' = [pass EXCEPT !.pc = "select"]
    <3>1. pass'.pc = "select"
      BY <2>2, <1>0
    <3> QED
      BY <3>1, <1>1
  <2> QED
    BY <1>7, <2>1, <2>2 DEF Reserve
<1>8. CASE Cursor
  <2>1. /\ At("cursor") /\ session' = session
        /\ pass'.pc = "launch" /\ pass'.target = pass.target
    BY <1>8, <1>0 DEF Cursor
  <2>2. Working' = Working
    BY <2>1 DEF Working, With
  <2>3. InNeed' => InNeed
    BY <2>1, <2>2 DEF InNeed
  <2>4. OfProject(Working, session[pass.target].project)'
          = OfProject(Working, session[pass.target].project)
    BY <2>1, <2>2 DEF OfProject
  <2> QED
    BY <2>2, <2>3, <2>4 DEF Room
<1>9. CASE Launch
  <2>1. pass'.pc = "select"
    BY <1>9, <1>0 DEF Launch
  <2> QED
    BY <2>1, <1>1
<1> QED
  BY <1>2, <1>3, <1>4, <1>5, <1>6, <1>7, <1>8, <1>9 DEF Next, PassStep, Aside
-----------------------------------------------------------------------------
(* Turns of two projects.  One is passed over only while the last project is
   the same one, or unknown: the allowance counts who is remembered to have
   had the turn *)

Allowance(q, last) == IF last \in {0, q} THEN lost ELSE lost + 1

TurnsOf(q) ==
  /\ pass.pc \notin {"reserve", "cursor"} => skips[q] <= Allowance(q, cursor)
  /\ pass.pc \in {"select", "launch"} => skips[q] <= Allowance(q, pass.last)
  /\ pass.pc \in {"reserve", "cursor"} =>
       /\ skips[q] <= lost + 1
       /\ session[pass.target].project = q => skips[q] = 0

Turns == \A q \in Projects : TurnsOf(q)

(* Whom a turn passes over did not have the last one *)
LEMMA OtherTurn ==
  ASSUME NumProjects = 2, NEW last \in 0 .. 2, NEW r \in Turn(last),
         NEW q \in Eligible, q # r
  PROVE  last \in {0, q}
<1>1. q \in 1 .. 2 /\ r \in 1 .. 2
  BY DEF Turn, Eligible, Projects
<1>2. Rank(r, last) <= Rank(q, last)
  BY DEF Turn
<1>3. OfProject(Pending, r) # {} /\ OfProject(Pending, q) # {}
  BY DEF Turn, Eligible
<1>4. CASE last = r
  <2>1. Rank(r, last) = r + 2
    BY <1>1, <1>3, <1>4 DEF Rank
  <2>2. Rank(q, last) = IF q <= r THEN q + 2 ELSE q
    BY <1>3, <1>4 DEF Rank
  <2> QED
    BY <1>1, <1>2, <2>1, <2>2
<1> QED
  BY <1>1, <1>4

LEMMA TurnsStep ==
  ASSUME NumProjects = 2, QueueTypeOK, Turns, [Next]_vars, NEW q \in Projects
  PROVE  TurnsOf(q)'
<1>0. /\ pass \in [pc : PC, op : Op, target : Nat, last : 0 .. 2]
      /\ cursor \in 0 .. 2 /\ skips \in [Projects -> Nat] /\ lost \in Nat
      /\ skips[q] \in Nat /\ q \in 1 .. 2 /\ TurnsOf(q)
      /\ InHand
  BY TypeParts DEF PassTypeOK, Projects, Turns
<1> USE DEF At, Goto
<1>1. CASE Acquire \/ Relaunch \/ Settle \/ Admit \/ AdmitFails
  <2>1. pass'.pc \in {"recover", "admit", "free"}
    <3>1. pass'.pc \in {"recover", "select", "admit", "free"}
      BY <1>1, EmptyHanded
    <3>2. CASE Settle
      <4>1. pass' = Free \/ pass' = [pass EXCEPT !.pc = "admit"]
        BY <3>2 DEF Settle
      <4>2. pass' = [pass EXCEPT !.pc = "admit"] => pass'.pc = "admit"
        BY <1>0
      <4> QED
        BY <4>1, <4>2 DEF Free
    <3>3. CASE Relaunch
      BY <3>3 DEF Relaunch
    <3>4. CASE AdmitFails
      BY <3>4 DEF AdmitFails, Free
    <3>5. CASE Acquire
      BY <3>5, <1>0 DEF Acquire
    <3>6. CASE Admit
      <4>1. pass' = Free \/ pass' = [pass EXCEPT !.pc = "recover", !.op = "submitted"]
        BY <3>6 DEF Admit
      <4>2. pass' = [pass EXCEPT !.pc = "recover", !.op = "submitted"]
              => pass'.pc = "recover"
        BY <1>0
      <4> QED
        BY <4>1, <4>2 DEF Free
    <3> QED
      BY <1>1, <3>2, <3>3, <3>4, <3>5, <3>6
  <2>2. /\ UNCHANGED <<cursor, skips, lost>>
        /\ pass.pc \in {"free", "recover", "select", "admit"}
    BY <1>1 DEF Acquire, Relaunch, Settle, Admit, AdmitFails
  <2> QED
    BY <1>0, <2>1, <2>2 DEF TurnsOf, Allowance
<1>2. CASE Recovered
  BY <1>0, <1>2 DEF Recovered, TurnsOf, Allowance
<1>3. CASE Select
  <2>0. PICK r \in Turn(pass.last) : \E s \in OfProject(Pending, r) :
          /\ pass' = [pass EXCEPT !.pc = "reserve", !.target = s]
          /\ skips' = [t \in Projects |->
               IF t = r \/ t \notin Eligible THEN 0 ELSE skips[t] + 1]
    BY <1>3 DEF Select
  <2>1. PICK s \in OfProject(Pending, r) :
          /\ pass' = [pass EXCEPT !.pc = "reserve", !.target = s]
          /\ skips' = [t \in Projects |->
               IF t = r \/ t \notin Eligible THEN 0 ELSE skips[t] + 1]
    BY <2>0
  <2>2. /\ pass'.pc = "reserve" /\ pass'.target = s /\ session' = session
        /\ session[s].project = r /\ lost' = lost
    BY <1>0, <1>3, <2>1 DEF Select, OfProject
  <2>3. skips'[q] = IF q = r \/ q \notin Eligible THEN 0 ELSE skips[q] + 1
    BY <2>1
  <2>4. CASE q = r \/ q \notin Eligible
    BY <1>0, <2>2, <2>3, <2>4 DEF TurnsOf
  <2>5. CASE q # r /\ q \in Eligible
    <3>1. pass.last \in {0, q}
      BY <1>0, <2>5, OtherTurn
    <3>2. skips[q] <= lost
      BY <1>0, <1>3, <3>1 DEF Select, TurnsOf, Allowance
    <3> QED
      BY <1>0, <2>2, <2>3, <2>5, <3>2 DEF TurnsOf
  <2> QED
    BY <2>4, <2>5
<1>4. CASE Reserve
  <2>1. /\ skips' = skips /\ cursor' = cursor /\ At("reserve")
        /\ pass.target \in Sessions /\ session[pass.target].status # "none"
    BY <1>4, <1>0 DEF Reserve, InHand, Pending, With
  <2>2. CASE Become(pass.target, "reserved") /\ Goto("cursor") /\ lost' = lost
    <3>1. session'[pass.target].project = session[pass.target].project
      BY <2>1, <2>2, MovedSets DEF Status
    <3> QED
      BY <1>0, <2>1, <2>2, <3>1 DEF TurnsOf
  <2>3. CASE Goto("select") /\ lost' = lost + 1
    <3>1. skips[q] <= lost + 1
      BY <1>0, <2>1 DEF TurnsOf
    <3> QED
      BY <1>0, <2>1, <2>3, <3>1 DEF TurnsOf, Allowance
  <2> QED
    BY <1>4, <2>2, <2>3 DEF Reserve
<1>5. CASE Cursor
  <2>1. /\ At("cursor") /\ skips' = skips /\ session' = session
        /\ pass' = [pass EXCEPT !.pc = "launch",
                                !.last = session[pass.target].project]
        /\ \/ cursor' = session[pass.target].project /\ lost' = lost
           \/ lost' = lost + 1 /\ cursor' = cursor
    BY <1>5 DEF Cursor
  <2>2. pass.target \in Sessions
    BY <1>0, <2>1 DEF InHand, With
  <2>3. session[pass.target].project \in 1 .. 2
    BY <2>2, ProjectOf DEF Projects
  <2>4. pass'.pc = "launch" /\ pass'.last = session[pass.target].project
    BY <1>0, <2>1
  <2>5. /\ skips[q] <= lost + 1
        /\ session[pass.target].project = q => skips[q] = 0
    BY <1>0, <2>1 DEF TurnsOf
  <2> HIDE DEF At, Goto
  <2> QED
    BY <1>0, <2>1, <2>3, <2>4, <2>5 DEF TurnsOf, Allowance
<1>6. CASE Launch
  BY <1>0, <1>6 DEF Launch, TurnsOf, Allowance
<1>7. CASE Crash
  <2>1. pass'.pc = "free" /\ skips' = skips /\ cursor' = cursor
    BY <1>7 DEF Crash, Free
  <2>2. lost' = IF pass.pc \in {"reserve", "cursor"} THEN lost + 1 ELSE lost
    BY <1>7 DEF Crash
  <2> QED
    BY <1>0, <2>1, <2>2 DEF TurnsOf, Allowance
<1>8. CASE Start \/ CancelPending
  <2>1. At("free") /\ pass' = pass /\ skips' = skips /\ cursor' = cursor /\ lost' = lost
    BY <1>8 DEF Start, CancelPending
  <2> QED
    BY <1>0, <2>1 DEF TurnsOf, Allowance
<1>9. CASE Aside
  <2>1. pass' = pass /\ skips' = skips /\ cursor' = cursor /\ lost' = lost
    BY <1>9 DEF Aside, Handoff, WorkerEnds, Abandon
  <2>2. pass.pc \in {"reserve", "cursor"} =>
          pass.target \in Sessions /\ session[pass.target].status # "none"
    BY <1>0 DEF InHand, Pending, With
  <2>3. pass.pc \in {"reserve", "cursor"} =>
          session'[pass.target].project = session[pass.target].project
    <3>1. CASE Handoff
      <4>1. PICK s \in Sessions :
              \/ session[s].status = "gone" /\ Become(s, "prepared")
              \/ \E p \in Projects : Accept("prepared", NoKey, p, s)
        BY <3>1 DEF Handoff
      <4>2. CASE session[s].status = "gone" /\ Become(s, "prepared")
        BY <4>2, <2>2, MovedSets DEF Status
      <4>3. CASE \E p \in Projects : Accept("prepared", NoKey, p, s)
        BY <4>3, <2>2, Creates
      <4> QED
        BY <4>1, <4>2, <4>3
    <3>2. ASSUME NEW s \in Sessions, WorkerEnds(s) \/ Abandon(s)
          PROVE  pass.pc \in {"reserve", "cursor"} =>
                   session'[pass.target].project = session[pass.target].project
      <4>1. Become(s, "gone") /\ session[s].status # "none"
        BY <3>2 DEF WorkerEnds, Abandon
      <4> QED
        BY <4>1, <2>2, MovedSets DEF Status
    <3> QED
      BY <1>9, <3>1, <3>2 DEF Aside
  <2> QED
    BY <1>0, <2>1, <2>3 DEF TurnsOf, Allowance
<1>10. CASE UNCHANGED vars
  BY <1>0, <1>10 DEF vars, TurnsOf, Allowance
<1> QED
  BY <1>1, <1>2, <1>3, <1>4, <1>5, <1>6, <1>7, <1>8, <1>9, <1>10
     DEF Next, PassStep, Aside
-----------------------------------------------------------------------------
(* Theorems *)

LEMMA InitInv == Init => QueueInv /\ Turns
<1> SUFFICES ASSUME Init PROVE QueueInv /\ Turns
  OBVIOUS
<1>1. NoSession \in Record
  BY QueueAssumption DEF NoSession, Record, Status, Projects
<1>2. QueueTypeOK
  BY <1>1, QueueAssumption
     DEF Init, QueueTypeOK, Free, PC, Op, Projects, At
<1>3. /\ Working = {} /\ Pending = {} /\ \A q \in Projects : OfProject(Working, q) = {}
  BY DEF Init, Working, Pending, With, OfProject, NoSession
<1>4. SlotsBounded /\ PendingBounded
  BY <1>3, FS_EmptySet, QueueAssumption DEF SlotsBounded, PendingBounded
<1>5. OneSessionPerKey /\ Room
  BY DEF Init, OneSessionPerKey, Room, InNeed, NoSession, At, Free
<1>6. Turns
  BY QueueAssumption DEF Init, Turns, TurnsOf, Allowance, Free
<1> QED
  BY <1>2, <1>4, <1>5, <1>6 DEF QueueInv

LEMMA InvStep == QueueInv /\ [Next]_vars => QueueInv'
<1> SUFFICES ASSUME QueueInv, [Next]_vars PROVE QueueInv'
  OBVIOUS
<1>1. QueueTypeOK /\ SlotsBounded /\ PendingBounded /\ OneSessionPerKey /\ Room
  BY DEF QueueInv
<1>2. QueueTypeOK' /\ OneSessionPerKey' /\ PendingBounded' /\ SlotsBounded' /\ Room'
  BY <1>1, TypeStep, KeysStep, PendingStep, SlotsStep, RoomStep
<1> QED
  BY <1>2 DEF QueueInv

(* The inductive invariant, of every step of every pass and of what happens
   beside it. *)
THEOREM QueueInvariant == Spec => []QueueInv
<1>1. Init => QueueInv
  BY InitInv
<1> QED
  BY <1>1, InvStep, PTL DEF Spec

(* Types, and the request that a pass has in hand is where it left it. *)
THEOREM QueueTyped == Spec => []QueueTypeOK
<1>1. QueueInv => QueueTypeOK
  BY DEF QueueInv
<1> QED
  BY <1>1, QueueInvariant, PTL

(* The worker limits of _has_capacity hold, of all projects and of each. *)
THEOREM QueueSlots == Spec => []SlotsBounded
<1>1. QueueInv => SlotsBounded
  BY DEF QueueInv
<1> QED
  BY <1>1, QueueInvariant, PTL

(* The queue stays within max_queue_length. *)
THEOREM QueueLength == Spec => []PendingBounded
<1>1. QueueInv => PendingBounded
  BY DEF QueueInv
<1> QED
  BY <1>1, QueueInvariant, PTL

(* An idempotency key names one session for good. *)
THEOREM QueueKeys == Spec => []OneSessionPerKey
<1>1. QueueInv => OneSessionPerKey
  BY DEF QueueInv
<1> QED
  BY <1>1, QueueInvariant, PTL

(* Of two projects none is passed over twice in a row while its turns are
   remembered (fair_queue_order). *)
THEOREM QueueFair ==
  ASSUME NumProjects = 2
  PROVE  Spec => []FairTurns
<1>1. Init => QueueTypeOK /\ Turns
  BY InitInv DEF QueueInv
<1>2. QueueTypeOK /\ Turns /\ [Next]_vars => (QueueTypeOK /\ Turns)'
  <2> SUFFICES ASSUME QueueTypeOK, Turns, [Next]_vars
               PROVE  QueueTypeOK' /\ Turns'
    OBVIOUS
  <2>1. \A q \in Projects : TurnsOf(q)'
    BY TurnsStep
  <2>2. Turns'
    BY <2>1 DEF Turns
  <2> QED
    BY <2>2, TypeStep
<1>3. QueueTypeOK /\ Turns => FairTurns
  <2> SUFFICES ASSUME QueueTypeOK, Turns, NEW q \in Projects
               PROVE  skips[q] <= 1 + lost
    BY DEF FairTurns
  <2>1. TurnsOf(q) /\ skips[q] \in Nat /\ lost \in Nat
    BY DEF Turns, QueueTypeOK
  <2> QED
    BY <2>1 DEF TurnsOf, Allowance
<1> QED
  BY <1>1, <1>2, <1>3, PTL DEF Spec
=============================================================================
