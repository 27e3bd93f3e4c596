------------------------- MODULE SessionLease_proofs -------------------------
(***************************************************************************)
(* What holds of the owner lease of a session for every number of          *)
(* processes and every bound.  LeaseInv is inductive only until the        *)
(* session is first deleted, for a deletion takes the record with it.      *)
(***************************************************************************)
EXTENDS SessionLease, TLAPS

-----------------------------------------------------------------------------
(* Type correctness.  Directories are numbered in the order they are made,
   and a new one is needed only after a deletion *)

Numbered ==
  /\ made <= deletes + 1 /\ dir <= made /\ trash <= made
  /\ dir = 0 => made <= deletes

LeaseTyped == LeaseTypeOK /\ Numbered

LEMMA IdleType ==
  Idle \in Call /\ NoRecord \in OwnerRecord /\ NoLease \in [id : Nat, refs : Nat]
BY DEF Idle, Call, NoRecord, OwnerRecord, Guarded, NoLease

LEMMA OpenType ==
  ASSUME NEW op \in {"acquire", "release"}, NEW i \in Nat
  PROVE  Opening(op, i) \in Call
BY IdleType DEF Call, Opening

LEMMA CurrentType ==
  ASSUME LeaseTypeOK PROVE Current \in OwnerRecord
BY LeaseAssumption, IdleType DEF Current, LeaseTypeOK, Dirs

(* mkdir takes the next number *)
LEMMA DirectoryMade ==
  ASSUME LeaseTyped, MakeDirectory, UNCHANGED <<trash, deletes>>
  PROVE  Numbered' /\ dir' \in Dirs /\ made' \in 0 .. Deletes + 1
BY LeaseAssumption DEF LeaseTyped, LeaseTypeOK, Numbered, MakeDirectory, Dirs

(* The steps of a call *)
LEMMA CallMoves ==
  ASSUME call \in [Processes -> Call], NEW p \in Processes
  PROVE  /\ \A pc \in {"idle", "open", "lock"} \cup Guarded :
              Goto(p, pc) => call' \in [Processes -> Call]
         /\ Return(p) => call' \in [Processes -> Call]
         /\ Again(p) => call' \in [Processes -> Call]
         /\ Removed(p) => call' \in [Processes -> Call]
BY IdleType DEF Goto, Return, Again, Removed, Call, Guarded

LEMMA LeaseTypeInit == ASSUME Init PROVE LeaseTyped
BY LeaseAssumption, IdleType
   DEF Init, LeaseTyped, LeaseTypeOK, Numbered, Dirs, NoHandles, Ids

LEMMA AcquireType ==
  ASSUME LeaseTyped, NEW p \in Processes,
         Reenter(p) \/ \E existing \in BOOLEAN : Acquire(p, existing)
  PROVE  LeaseTyped'
<1>1. CASE Reenter(p)
  <2>1. local' \in [Processes -> [id : Nat, refs : Nat]]
    BY <1>1 DEF Reenter, LeaseTyped, LeaseTypeOK
  <2>2. handles' \in [Processes -> [Ids -> Nat]]
    <3>1. handles[p] \in [Ids -> Nat]
      BY DEF LeaseTyped, LeaseTypeOK
    <3>2. [handles[p] EXCEPT ![local[p].id] = @ + 1] \in [Ids -> Nat]
      <4>1. CASE local[p].id \in Ids
        BY <3>1, <4>1
      <4>2. CASE local[p].id \notin Ids
        BY <3>1, <4>2
      <4>3. QED
        BY <4>1, <4>2
    <3>3. QED
      BY <1>1, <3>2 DEF Reenter, LeaseTyped, LeaseTypeOK
  <2>3. QED
    BY <1>1, <2>1, <2>2 DEF Reenter, LeaseTyped, LeaseTypeOK, Numbered, files, system
<1>2. CASE \E existing \in BOOLEAN : Acquire(p, existing)
  <2>1. Numbered' /\ dir' \in Dirs /\ made' \in 0 .. Deletes + 1
    BY <1>2, DirectoryMade DEF Acquire
  <2>2. serial' \in 0 .. MaxAcquires
    BY <1>2, LeaseAssumption DEF Acquire, LeaseTyped, LeaseTypeOK
  <2>3. Opening("acquire", serial') \in Call
    BY <2>2, OpenType
  <2>4. call' \in [Processes -> Call]
    BY <1>2, <2>3 DEF Acquire, LeaseTyped, LeaseTypeOK
  <2>5. local' \in [Processes -> [id : Nat, refs : Nat]]
    BY <1>2, IdleType DEF Acquire, LeaseTyped, LeaseTypeOK
  <2>6. QED
    <3>1. UNCHANGED <<trash, deletes, record, os, birth, handles>>
      BY <1>2 DEF Acquire, system
    <3>2. dir' \in 0 .. Deletes + 1
      BY <2>1, LeaseAssumption DEF Dirs
    <3>3. QED
      BY <2>1, <2>2, <2>4, <2>5, <3>1, <3>2 DEF LeaseTyped, LeaseTypeOK
<1>3. QED
  BY <1>1, <1>2

LEMMA ReleaseType ==
  ASSUME LeaseTyped, NEW p \in Processes, NEW i \in Ids, Release(p, i)
  PROVE  LeaseTyped'
<1>1. Opening("release", i) \in Call
  BY OpenType, LeaseAssumption DEF Ids
<1>2. call' \in [Processes -> Call]
  BY <1>1 DEF Release, LeaseTyped, LeaseTypeOK
<1>3. local' \in [Processes -> [id : Nat, refs : Nat]]
  <2>1. local \in [Processes -> [id : Nat, refs : Nat]]
    BY DEF LeaseTyped, LeaseTypeOK
  <2>2. NoLease \in [id : Nat, refs : Nat]
    BY IdleType
  <2>3. CASE local' = local
    BY <2>1, <2>3
  <2>4. CASE local' = [local EXCEPT ![p] = NoLease]
    BY <2>1, <2>2, <2>4
  <2>5. CASE local[p].refs > 1 /\ local' = [local EXCEPT ![p].refs = @ - 1]
    <3>1. local[p].refs - 1 \in Nat /\ local[p].id \in Nat
      BY <2>1, <2>5
    <3>2. [local[p] EXCEPT !.refs = @ - 1] \in [id : Nat, refs : Nat]
      BY <3>1, <2>1
    <3>3. local' = [local EXCEPT ![p] = [local[p] EXCEPT !.refs = @ - 1]]
      BY <2>5
    <3>4. QED
      BY <2>1, <3>2, <3>3
  <2>6. QED
    BY <2>3, <2>4, <2>5 DEF Release
<1>4. handles' \in [Processes -> [Ids -> Nat]]
  BY DEF Release, LeaseTyped, LeaseTypeOK
<1>5. QED
  BY <1>2, <1>3, <1>4 DEF Release, LeaseTyped, LeaseTypeOK, Numbered, files, system

LEMMA CallStepType ==
  ASSUME LeaseTyped, NEW p \in Processes, CallStep(p)
  PROVE  LeaseTyped'
<1>0. call \in [Processes -> Call] /\ Current \in OwnerRecord
  BY CurrentType DEF LeaseTyped, LeaseTypeOK
<1>1. CASE OpenGuard(p)
  <2>1. Numbered' /\ dir' \in Dirs /\ made' \in 0 .. Deletes + 1
    BY <1>1, DirectoryMade DEF OpenGuard
  <2>2. call' \in [Processes -> Call]
    <3>1. dir' \in Nat
      BY <2>1, LeaseAssumption DEF Dirs
    <3>2. [call[p] EXCEPT !.pc = "lock", !.dir = dir'] \in Call
      BY <1>0, <3>1 DEF Call
    <3>3. call' = [call EXCEPT ![p] = [call[p] EXCEPT !.pc = "lock", !.dir = dir']]
      BY <1>0, <1>1 DEF OpenGuard
    <3>4. QED
      BY <1>0, <3>2, <3>3
  <2>3. dir' \in 0 .. Deletes + 1
    BY <2>1, LeaseAssumption DEF Dirs
  <2>4. UNCHANGED <<trash, deletes, record, serial, os, birth, local, handles>>
    BY <1>1 DEF OpenGuard, system
  <2>5. LeaseTypeOK'
    BY <2>1, <2>2, <2>3, <2>4 DEF LeaseTyped, LeaseTypeOK
  <2>6. QED
    BY <2>1, <2>5 DEF LeaseTyped
<1>2. CASE Publish(p)
  <2>1. Numbered' /\ dir' \in Dirs /\ made' \in 0 .. Deletes + 1
    BY <1>2, DirectoryMade DEF Publish
  <2>2. call' \in [Processes -> Call]
    BY <1>0, <1>2, CallMoves DEF Publish
  <2>3. call[p].id \in Nat
    BY <1>0 DEF Call
  <2>4. record' \in [Dirs -> OwnerRecord]
    <3>1. PICK start \in {0, birth[p]} :
            record' = [record EXCEPT ![dir'] =
                         [id |-> call[p].id, pid |-> p, start |-> start]]
      BY <1>2 DEF Publish
    <3>2. [id |-> call[p].id, pid |-> p, start |-> start] \in OwnerRecord
      BY <2>3 DEF LeaseTyped, LeaseTypeOK, OwnerRecord
    <3>3. QED
      BY <3>1, <3>2 DEF LeaseTyped, LeaseTypeOK
  <2>5. /\ local' \in [Processes -> [id : Nat, refs : Nat]]
        /\ handles' \in [Processes -> [Ids -> Nat]]
    BY <1>2, <2>3 DEF Publish, LeaseTyped, LeaseTypeOK
  <2>6. QED
    BY <1>2, <2>1, <2>2, <2>4, <2>5, LeaseAssumption
       DEF Publish, LeaseTyped, LeaseTypeOK, system, Dirs
<1>3. CASE Unlink(p)
  <2>1. call' \in [Processes -> Call]
    BY <1>0, <1>3, CallMoves DEF Unlink
  <2>2. record' \in [Dirs -> OwnerRecord]
    BY <1>3, IdleType DEF Unlink, LeaseTyped, LeaseTypeOK
  <2>3. QED
    BY <1>3, <2>1, <2>2 DEF Unlink, LeaseTyped, LeaseTypeOK, Numbered, system
<1>4. CASE \/ GuardFails(p) \/ LockGuard(p) \/ Occupied(p) \/ UnlinkFails(p)
           \/ ReadOwner(p) \/ ProbeAlive(p) \/ ProbeDead(p) \/ CompareOwner(p)
  <2>1. call' \in [Processes -> Call]
    <3>1. CASE LockGuard(p)
      BY <1>0, <3>1, CallMoves DEF LockGuard, Call, Guarded
    <3>2. CASE ReadOwner(p)
      BY <1>0, <3>2, CallMoves DEF ReadOwner, Call, Guarded
    <3>3. CASE \/ GuardFails(p) \/ UnlinkFails(p) \/ Occupied(p)
               \/ ProbeAlive(p) \/ ProbeDead(p) \/ CompareOwner(p)
      BY <1>0, <3>3, CallMoves
         DEF GuardFails, UnlinkFails, Occupied, ProbeAlive, ProbeDead,
             CompareOwner, Guarded
    <3>4. QED
      BY <1>4, <3>1, <3>2, <3>3
  <2>2. UNCHANGED <<files, serial, system, local, handles>>
    BY <1>4 DEF GuardFails, LockGuard, UnlinkFails, Occupied, ReadOwner,
                ProbeAlive, ProbeDead, CompareOwner
  <2>3. QED
    BY <2>1, <2>2 DEF LeaseTyped, LeaseTypeOK, Numbered, files, system
<1>5. CASE PublishFails(p)
  <2>1. Numbered' /\ dir' \in 0 .. Deletes + 1 /\ made' \in 0 .. Deletes + 1
    <3>1. CASE MakeDirectory
      BY <1>5, <3>1, DirectoryMade, LeaseAssumption DEF PublishFails, Dirs
    <3>2. CASE UNCHANGED <<dir, made>>
      BY <1>5, <3>2 DEF PublishFails, LeaseTyped, LeaseTypeOK, Numbered
    <3>3. QED
      BY <1>5, <3>1, <3>2 DEF PublishFails
  <2>2. call' \in [Processes -> Call]
    BY <1>0, <1>5, CallMoves DEF PublishFails
  <2>3. QED
    BY <1>5, <2>1, <2>2 DEF PublishFails, LeaseTyped, LeaseTypeOK, system
<1>6. QED
  BY <1>1, <1>2, <1>3, <1>4, <1>5 DEF CallStep

LEMMA SystemType ==
  ASSUME LeaseTyped, NEW p \in Processes,
         Die(p) \/ Collect(p) \/ Spawn(p) \/ Save(p) \/ Delete \/ Restore
  PROVE  LeaseTyped'
<1>1. CASE Die(p)
  <2>1. call' \in [Processes -> Call]
    BY <1>1, CallMoves DEF Die, LeaseTyped, LeaseTypeOK
  <2>2. NoHandles \in [Ids -> Nat]
    BY DEF NoHandles
  <2>3. QED
    BY <1>1, <2>1, <2>2, IdleType
       DEF Die, LeaseTyped, LeaseTypeOK, Numbered, files
<1>2. CASE Collect(p)
  BY <1>2 DEF Collect, LeaseTyped, LeaseTypeOK, Numbered, files
<1>3. CASE Spawn(p)
  BY <1>3 DEF Spawn, LeaseTyped, LeaseTypeOK, Numbered, files
<1>4. CASE Save(p)
  BY <1>4, DirectoryMade, LeaseAssumption
     DEF Save, LeaseTyped, LeaseTypeOK, system, Dirs
<1>5. CASE Delete
  BY <1>5, LeaseAssumption DEF Delete, LeaseTyped, LeaseTypeOK, Numbered, system
<1>6. CASE Restore
  BY <1>6, LeaseAssumption DEF Restore, LeaseTyped, LeaseTypeOK, Numbered, system
<1>7. QED
  BY <1>1, <1>2, <1>3, <1>4, <1>5, <1>6

LEMMA LeaseTypeInvariant == Spec => []LeaseTyped
<1>1. Init => LeaseTyped
  BY LeaseTypeInit
<1>2. LeaseTyped /\ [Next]_vars => LeaseTyped'
  <2> SUFFICES ASSUME LeaseTyped, [Next]_vars PROVE LeaseTyped'
    OBVIOUS
  <2>2. CASE UNCHANGED vars
    BY <2>2 DEF vars, files, system, LeaseTyped, LeaseTypeOK, Numbered
  <2>3. CASE \E p \in Processes : CallStep(p) \/ ProcessStep(p)
    BY <2>3, AcquireType, ReleaseType, CallStepType, SystemType DEF ProcessStep
  <2>4. CASE Delete \/ Restore
    BY <2>4, LeaseAssumption
       DEF Delete, Restore, LeaseTyped, LeaseTypeOK, Numbered, system
  <2>5. QED
    BY <2>2, <2>3, <2>4 DEF Next, Quiet
<1>3. QED
  BY <1>1, <1>2, PTL DEF Spec

(* Every step of acquire and release leaves the files, the process table and
   the calls well typed. *)
THEOREM LeaseTypeCorrect == Spec => []LeaseTypeOK
BY LeaseTypeInvariant, PTL DEF LeaseTyped

-----------------------------------------------------------------------------
(* The inductive invariant, until the session is first deleted *)

(* There is one directory, and every lock file was opened in it *)
OneDirectory ==
  /\ dir \in {0, 1} /\ made = dir /\ trash = 0
  /\ dir = 0 => record[1] = NoRecord
  /\ \A p \in Processes :
       call[p].pc \in Guarded \cup {"lock"} => dir = 1 /\ call[p].dir = 1

(* An attached process lives and can be recognised in the record *)
AttachedOnRecord ==
  \A p \in Processes : Attached(p) =>
    /\ os[p] = "up" /\ local[p].id > 0
    /\ record[1].id = local[p].id /\ record[1].pid = p
    /\ record[1].start \in {0, birth[p]}

GuardExclusive ==
  \A p, q \in Processes :
    call[p].pc \in Guarded /\ call[q].pc \in Guarded => p = q

(* The owner ID of an acquire is not used anywhere else *)
FreshIds ==
  /\ record[1].id <= serial
  /\ \A p \in Processes :
       /\ call[p].id <= serial
       /\ call[p].op = "acquire" =>
            /\ call[p].id > 0 /\ call[p].id # record[1].id
            /\ \A q \in Processes \ {p} : call[q].id # call[p].id

(* Which calls are at which steps *)
CallShape ==
  \A p \in Processes :
    /\ call[p].pc = "idle" <=> call[p].op = "none"
    /\ call[p].pc # "idle" => os[p] = "up"
    /\ call[p].pc \in {"publish", "read", "probe"} => call[p].op = "acquire"

(* What a call knows of the record: an acquire that is about to remove it has
   found it dead, a release has given its lease up *)
Informed ==
  \A p \in Processes :
    /\ call[p].pc = "publish" =>
         call[p].try = 1 \/ (call[p].try = 2 /\ record[1] = NoRecord)
    /\ call[p].pc = "read" => record[1] # NoRecord
    /\ call[p].pc = "probe" => record[1] = call[p].seen
    /\ call[p].pc \in Guarded \ {"publish"} /\ call[p].op = "acquire" =>
         call[p].try = 1
    /\ call[p].pc \in {"compare", "unlink"} /\ call[p].op = "acquire" =>
         /\ record[1].id = call[p].seen.id
         /\ \A q \in Processes : ~Attached(q)
    /\ call[p].op = "release" =>
         \A q \in Processes : Attached(q) => local[q].id # call[p].id
    /\ call[p].pc = "unlink" => record[1].id = Target(p)

LeaseInv ==
  /\ OneDirectory /\ AttachedOnRecord /\ GuardExclusive
  /\ FreshIds /\ CallShape /\ Informed

LEMMA CurrentIsFirst == ASSUME OneDirectory PROVE Current = record[1]
BY DEF OneDirectory, Current

(* A step of p leaves the other processes alone *)
Others(p) ==
  \A q \in Processes \ {p} :
    call'[q] = call[q] /\ local'[q] = local[q] /\ os'[q] = os[q] /\ birth'[q] = birth[q]

(* ... and here p attaches to nothing new *)
Shrinks(p) ==
  Attached(p)' => /\ Attached(p) /\ local'[p].id = local[p].id
                  /\ os'[p] = os[p] /\ birth'[p] = birth[p]

SameRecord == UNCHANGED <<dir, made, trash, record, serial>>

LEMMA MovesOthers ==
  ASSUME LeaseTyped, NEW p \in Processes, CallStep(p) \/ ProcessStep(p)
  PROVE  Others(p)
<1>0. /\ call \in [Processes -> Call] /\ DOMAIN local = Processes
      /\ DOMAIN os = Processes /\ DOMAIN birth = Processes
  BY DEF LeaseTyped, LeaseTypeOK
<1>1. CASE CallStep(p)
  BY <1>0, <1>1 DEF Others, CallStep, OpenGuard, GuardFails, LockGuard, Publish,
    PublishFails, Occupied, ReadOwner, ProbeAlive, ProbeDead, CompareOwner, Unlink,
    UnlinkFails, Removed, Again, Return, Goto, files, system
<1>2. CASE ProcessStep(p)
  BY <1>0, <1>2 DEF Others, ProcessStep, Reenter, Acquire, Release, Save,
    Die, Collect, Spawn, Return, files, system
<1>3. QED
  BY <1>1, <1>2

(* The call of p ends.  CallEnds covers every failure of a call, SessionAlready-
   ActiveError, the end of a release and the death of its process *)
LEMMA CallEnds ==
  ASSUME LeaseTyped, LeaseInv, NEW p \in Processes, Others(p), Shrinks(p), SameRecord,
         call'[p] = Idle
  PROVE  LeaseInv'
<1>0. /\ call'[p].pc = "idle" /\ call'[p].op = "none" /\ call'[p].id = 0
      /\ \A q \in Processes \ {p} : call'[q] = call[q] /\ os'[q] = os[q]
      /\ \A q \in Processes : Attached(q)' =>
           /\ Attached(q) /\ local'[q].id = local[q].id
           /\ os'[q] = os[q] /\ birth'[q] = birth[q]
  BY DEF Idle, Others, Shrinks, Attached
<1>1. OneDirectory'
  BY <1>0 DEF LeaseInv, OneDirectory, SameRecord, Guarded
<1>2. AttachedOnRecord'
  BY <1>0 DEF LeaseInv, AttachedOnRecord, SameRecord
<1>3. GuardExclusive'
  BY <1>0 DEF LeaseInv, GuardExclusive, Guarded
<1>4. FreshIds'
  <2>1. 0 <= serial
    BY LeaseAssumption DEF LeaseTyped, LeaseTypeOK
  <2>2. QED
    BY <1>0, <2>1 DEF LeaseInv, FreshIds, SameRecord
<1>5. CallShape'
  BY <1>0 DEF LeaseInv, CallShape
<1>6. Informed'
  BY <1>0 DEF LeaseInv, Informed, SameRecord, Guarded, Target
<1>7. QED
  BY <1>1, <1>2, <1>3, <1>4, <1>5, <1>6 DEF LeaseInv

(* The steps of a call that touch neither the record nor _PROCESS_LEASES *)
LEMMA RecordUntouched ==
  ASSUME LeaseInv, NEW p \in Processes, CallStep(p),
         ~ OpenGuard(p), ~ Publish(p), ~ Unlink(p)
  PROVE  UNCHANGED <<dir, made, trash, record, serial, os, birth, local>>
<1>1. CASE PublishFails(p)
  <2>1. dir = 1
    BY <1>1 DEF PublishFails, LeaseInv, OneDirectory, Guarded
  <2>2. QED
    BY <1>1, <2>1 DEF PublishFails, MakeDirectory, system
<1>2. CASE ~ PublishFails(p)
  BY <1>2 DEF CallStep, GuardFails, LockGuard, Occupied, ReadOwner, ProbeAlive,
    ProbeDead, CompareOwner, UnlinkFails, files, system
<1>3. QED
  BY <1>1, <1>2

(* The call of p goes on without a change of the record *)
LEMMA CallGoesOn ==
  ASSUME LeaseTyped, LeaseInv, NEW p \in Processes, CallStep(p),
         ~ OpenGuard(p), ~ Publish(p), ~ Unlink(p), call'[p] # Idle
  PROVE  LeaseInv'
<1>0. /\ call \in [Processes -> Call]
      /\ UNCHANGED <<dir, made, trash, record, serial, os, birth, local>>
  BY RecordUntouched DEF LeaseTyped, LeaseTypeOK
<1>a. ~ Return(p)
  BY <1>0 DEF Return
<1>1. /\ call'[p].op = call[p].op /\ call'[p].id = call[p].id
      /\ call'[p].dir = call[p].dir
      /\ call[p].pc \in Guarded \cup {"lock"} /\ call'[p].pc \in Guarded
      /\ \A q \in Processes \ {p} : call'[q] = call[q]
  <2>1. \A pc : Goto(p, pc) =>
          /\ call'[p].op = call[p].op /\ call'[p].id = call[p].id
          /\ call'[p].dir = call[p].dir /\ call'[p].pc = pc
          /\ \A q \in Processes \ {p} : call'[q] = call[q]
    BY <1>0 DEF Goto, Call
  <2>2. Again(p) =>
          /\ call'[p].op = call[p].op /\ call'[p].id = call[p].id
          /\ call'[p].dir = call[p].dir /\ call'[p].pc = "publish"
          /\ \A q \in Processes \ {p} : call'[q] = call[q]
    BY <1>0, <1>a DEF Again, Call
  <2>3. CASE LockGuard(p)
    <3>1. CASE Goto(p, "compare")
      BY <2>1, <2>3, <3>1 DEF LockGuard, Guarded
    <3>2. CASE call' = [call EXCEPT ![p].pc = "publish", ![p].try = 1]
      BY <1>0, <2>3, <3>2 DEF LockGuard, Guarded, Call
    <3>3. QED
      BY <2>3, <3>1, <3>2 DEF LockGuard
  <2>4. CASE ReadOwner(p)
    <3>1. CASE Again(p)
      BY <2>2, <2>4, <3>1 DEF ReadOwner, Guarded
    <3>2. CASE call' = [call EXCEPT ![p].pc = "probe", ![p].seen = Current]
      BY <1>0, <2>4, <3>2 DEF ReadOwner, Guarded, Call
    <3>3. QED
      BY <2>4, <3>1, <3>2 DEF ReadOwner
  <2>5. CASE Occupied(p) \/ ProbeDead(p)
    BY <2>1, <2>5 DEF Occupied, ProbeDead, Guarded
  <2>6. CASE CompareOwner(p)
    BY <1>a, <2>1, <2>2, <2>6 DEF CompareOwner, Removed, Guarded
  <2>7. QED
    BY <1>a, <2>3, <2>4, <2>5, <2>6 DEF CallStep, GuardFails, PublishFails, ProbeAlive,
      UnlinkFails
<1>2. OneDirectory'
  BY <1>0, <1>1 DEF LeaseInv, OneDirectory
<1>3. AttachedOnRecord'
  BY <1>0 DEF LeaseInv, AttachedOnRecord, Attached
<1>4. GuardExclusive'
  <2>1. \A q \in Processes \ {p} : call[q].pc \notin Guarded
    <3>1. CASE LockGuard(p)
      BY <3>1 DEF LockGuard, LeaseInv, OneDirectory
    <3>2. CASE ~ LockGuard(p)
      <4>1. call[p].pc \in Guarded
        BY <1>a, <3>2 DEF CallStep, GuardFails, PublishFails,
          Occupied, ReadOwner, ProbeAlive, ProbeDead, CompareOwner, UnlinkFails, Guarded
      <4>2. QED
        BY <4>1 DEF LeaseInv, GuardExclusive
    <3>3. QED
      BY <3>1, <3>2
  <2>2. QED
    BY <1>1, <2>1 DEF GuardExclusive
<1>5. FreshIds'
  BY <1>0, <1>1 DEF LeaseInv, FreshIds
<1>6. \A q \in Processes \ {p} : Target(q)' = Target(q)
  BY <1>1 DEF Target
<1>7. Current = record[1] /\ call[p] \in Call
  BY <1>0, CurrentIsFirst DEF LeaseInv
<1>8. /\ call[p].pc = "idle" <=> call[p].op = "none"
      /\ call[p].pc \in {"publish", "read", "probe"} => call[p].op = "acquire"
  BY DEF LeaseInv, CallShape
<1>9. CallShape' /\ Informed'
  <2>1. CASE LockGuard(p)
    <3>1. \/ /\ call[p].op = "acquire" /\ call'[p].pc = "publish" /\ call'[p].try = 1
          \/ /\ call[p].op = "release" /\ call'[p].pc = "compare"
      BY <1>0, <2>1 DEF LockGuard, Goto, Call
    <3>2. CallShape'
      BY <1>0, <1>1, <3>1 DEF LeaseInv, CallShape
    <3>3. Informed'
      BY <1>0, <1>1, <1>6, <3>1 DEF LeaseInv, Informed, Attached, Guarded
    <3>4. QED
      BY <3>2, <3>3
  <2>2. CASE Occupied(p)
    <3>1. /\ call'[p].pc = "read" /\ call'[p].try = call[p].try
          /\ call[p].pc = "publish"
          /\ call[p].op = "acquire" /\ record[1] # NoRecord
      BY <1>0, <1>7, <1>8, <2>2 DEF Occupied, Goto
    <3>2. CallShape'
      BY <1>0, <1>1, <3>1 DEF LeaseInv, CallShape
    <3>3. Informed'
      BY <1>0, <1>1, <1>6, <3>1 DEF LeaseInv, Informed, Attached, Guarded
    <3>4. QED
      BY <3>2, <3>3
  <2>3. CASE ReadOwner(p)
    <3>1. record[1] # NoRecord
      BY <2>3 DEF ReadOwner, LeaseInv, Informed
    <3>2. /\ call'[p].pc = "probe" /\ call'[p].try = call[p].try
          /\ call[p].pc = "read"
          /\ call[p].op = "acquire" /\ call'[p].seen = record[1]
      BY <1>0, <1>7, <1>8, <2>3, <3>1 DEF ReadOwner, Call
    <3>3. CallShape'
      BY <1>0, <1>1, <3>2 DEF LeaseInv, CallShape
    <3>4. Informed'
      BY <1>0, <1>1, <1>6, <3>2 DEF LeaseInv, Informed, Attached, Guarded
    <3>5. QED
      BY <3>3, <3>4
  <2>4. CASE ProbeDead(p)
    <3>1. /\ call'[p].pc = "compare" /\ call'[p].try = call[p].try
          /\ call[p].pc = "probe"
          /\ call[p].op = "acquire" /\ call'[p].seen = call[p].seen
      BY <1>0, <1>8, <2>4 DEF ProbeDead, Goto
    <3>2. record[1] = call[p].seen
      BY <3>1 DEF LeaseInv, Informed
    <3>3. \A q \in Processes : ~ Attached(q)
      <4> SUFFICES ASSUME NEW q \in Processes, Attached(q) PROVE FALSE
        OBVIOUS
      <4>1. /\ os[q] = "up" /\ record[1].pid = q /\ record[1].start \in {0, birth[q]}
        BY DEF LeaseInv, AttachedOnRecord
      <4>2. MayBeDead(record[1])
        BY <2>4, <3>2 DEF ProbeDead
      <4>3. QED
        BY <4>1, <4>2 DEF MayBeDead
    <3>4. CallShape'
      BY <1>0, <1>1, <3>1 DEF LeaseInv, CallShape
    <3>5. Informed'
      BY <1>0, <1>1, <1>6, <3>1, <3>2, <3>3 DEF LeaseInv, Informed, Attached, Guarded
    <3>6. QED
      BY <3>4, <3>5
  <2>5. CASE CompareOwner(p)
    <3>1. call[p].pc = "compare" /\ call[p].op # "none"
      BY <1>8, <2>5 DEF CompareOwner
    <3>2. ~ (Current.id # Target(p) /\ Removed(p))
      <4> SUFFICES ASSUME Current.id # Target(p), Removed(p) PROVE FALSE
        OBVIOUS
      <4>1. call[p].op # "acquire"
        BY <1>7, <3>1 DEF LeaseInv, Informed, Target
      <4>2. Return(p)
        BY <4>1 DEF Removed
      <4>3. QED
        BY <1>0, <4>2 DEF Return
    <3>3. /\ call'[p].pc = "unlink" /\ call'[p].try = call[p].try
          /\ call'[p].seen = call[p].seen /\ record[1].id = Target(p)
      BY <1>0, <1>7, <2>5, <3>2 DEF CompareOwner, Goto, Call
    <3>4. Target(p)' = Target(p)
      BY <1>1, <3>3 DEF Target
    <3>5. CallShape'
      BY <1>0, <1>1, <3>1, <3>3 DEF LeaseInv, CallShape
    <3>6. Informed'
      BY <1>0, <1>1, <1>6, <3>1, <3>3, <3>4 DEF LeaseInv, Informed, Attached, Guarded
    <3>7. QED
      BY <3>5, <3>6
  <2>6. CASE GuardFails(p) \/ PublishFails(p) \/ ProbeAlive(p) \/ UnlinkFails(p)
    BY <1>0, <2>6 DEF GuardFails, PublishFails, ProbeAlive, UnlinkFails, Return
  <2>7. QED
    BY <2>1, <2>2, <2>3, <2>4, <2>5, <2>6 DEF CallStep
<1>10. QED
  BY <1>2, <1>3, <1>4, <1>5, <1>9 DEF LeaseInv

LEMMA OpenKeeps ==
  ASSUME LeaseTyped, LeaseInv, NEW p \in Processes, OpenGuard(p)
  PROVE  LeaseInv'
<1>0. /\ call \in [Processes -> Call] /\ call[p] \in Call
      /\ UNCHANGED <<trash, record, serial, os, birth, local>>
  BY DEF LeaseTyped, LeaseTypeOK, OpenGuard, system
<1>1. dir' = 1 /\ made' = 1 /\ (dir = 0 => record[1] = NoRecord)
  BY DEF OpenGuard, MakeDirectory, LeaseInv, OneDirectory
<1>2. /\ call'[p].pc = "lock" /\ call'[p].dir = 1
      /\ call'[p].op = call[p].op /\ call'[p].id = call[p].id /\ call[p].pc = "open"
      /\ \A q \in Processes \ {p} : call'[q] = call[q]
  BY <1>0, <1>1 DEF OpenGuard, Call
<1>3. OneDirectory'
  BY <1>0, <1>1, <1>2 DEF LeaseInv, OneDirectory
<1>4. AttachedOnRecord'
  BY <1>0 DEF LeaseInv, AttachedOnRecord, Attached
<1>5. GuardExclusive'
  BY <1>2 DEF LeaseInv, GuardExclusive, Guarded
<1>6. FreshIds'
  BY <1>0, <1>2 DEF LeaseInv, FreshIds
<1>7. CallShape'
  BY <1>0, <1>2 DEF LeaseInv, CallShape
<1>8. Informed'
  BY <1>0, <1>2 DEF LeaseInv, Informed, Attached, Guarded, Target
<1>9. QED
  BY <1>3, <1>4, <1>5, <1>6, <1>7, <1>8 DEF LeaseInv

(* What whoever publishes has found: no record, so no process is attached *)
LEMMA PublishKeeps ==
  ASSUME LeaseTyped, LeaseInv, NEW p \in Processes, Publish(p)
  PROVE  LeaseInv'
<1>0. /\ call \in [Processes -> Call] /\ local \in [Processes -> [id : Nat, refs : Nat]]
      /\ DOMAIN record = Dirs /\ 1 \in Dirs /\ call[p].pc = "publish"
      /\ UNCHANGED <<trash, serial, os, birth>>
  BY LeaseAssumption DEF LeaseTyped, LeaseTypeOK, Publish, system, Dirs
<1>1. /\ dir = 1 /\ dir' = 1 /\ made' = 1 /\ record[1] = NoRecord
      /\ \A q \in Processes \ {p} : call[q].pc \notin Guarded
  BY <1>0, CurrentIsFirst
     DEF Publish, MakeDirectory, LeaseInv, OneDirectory, GuardExclusive, Guarded
<1>2. \A q \in Processes : ~ Attached(q)
  BY <1>1 DEF LeaseInv, AttachedOnRecord, NoRecord
<1>3. /\ call[p].op = "acquire" /\ call[p].id > 0 /\ call[p].id <= serial
      /\ \A q \in Processes \ {p} : call[q].id # call[p].id
  BY <1>0 DEF LeaseInv, CallShape, FreshIds
<1>4. /\ call'[p].pc = "idle" /\ call'[p].op = "none" /\ call'[p].id = 0
      /\ \A q \in Processes \ {p} : call'[q] = call[q]
  BY <1>0 DEF Publish, Return, Idle
<1>5. /\ local'[p].id = call[p].id
      /\ \A q \in Processes \ {p} : local'[q] = local[q] /\ ~ Attached(q)'
  BY <1>0, <1>2 DEF Publish, Attached
<1>6. /\ record'[1].id = call[p].id /\ record'[1].pid = p
      /\ record'[1].start \in {0, birth[p]}
  BY <1>0, <1>1 DEF Publish
<1>7. os[p] = "up"
  BY <1>0 DEF LeaseInv, CallShape
<1>8. OneDirectory'
  BY <1>0, <1>1, <1>4 DEF LeaseInv, OneDirectory, Guarded
<1>9. AttachedOnRecord'
  BY <1>0, <1>3, <1>5, <1>6, <1>7 DEF AttachedOnRecord
<1>10. GuardExclusive'
  BY <1>1, <1>4 DEF GuardExclusive, Guarded
<1>11. FreshIds'
  <2>1. 0 <= serial
    BY LeaseAssumption DEF LeaseTyped, LeaseTypeOK
  <2>2. QED
    BY <1>0, <1>3, <1>4, <1>6, <2>1 DEF LeaseInv, FreshIds
<1>12. CallShape'
  BY <1>0, <1>4 DEF LeaseInv, CallShape
<1>13. Informed'
  BY <1>1, <1>3, <1>4, <1>5 DEF LeaseInv, Informed, Guarded
<1>14. QED
  BY <1>8, <1>9, <1>10, <1>11, <1>12, <1>13 DEF LeaseInv

LEMMA UnlinkKeeps ==
  ASSUME LeaseTyped, LeaseInv, NEW p \in Processes, Unlink(p)
  PROVE  LeaseInv'
<1>0. /\ call \in [Processes -> Call] /\ call[p].pc = "unlink"
      /\ 1 \in Dirs
      /\ UNCHANGED <<dir, made, trash, serial, os, birth, local>>
  BY LeaseAssumption DEF LeaseTyped, LeaseTypeOK, Unlink, system, Dirs
<1>1. /\ dir = 1 /\ record'[1] = NoRecord
      /\ \A q \in Processes \ {p} : call[q].pc \notin Guarded
  BY <1>0 DEF Unlink, LeaseInv, OneDirectory, GuardExclusive, Guarded
<1>2. \A q \in Processes : ~ Attached(q)
  <2>1. record[1].id = Target(p) /\ call[p].op # "none"
    BY <1>0 DEF LeaseInv, Informed, CallShape
  <2>2. CASE call[p].op = "acquire"
    BY <1>0, <2>2 DEF LeaseInv, Informed
  <2>3. CASE call[p].op = "release"
    BY <2>1, <2>3 DEF LeaseInv, Informed, AttachedOnRecord, Target
  <2>4. call[p].op \in {"acquire", "release"}
    BY <1>0, <2>1 DEF Call
  <2>5. QED
    BY <2>2, <2>3, <2>4
<1>3. /\ \A q \in Processes \ {p} : call'[q] = call[q]
      /\ \/ call'[p] = Idle
         \/ /\ call'[p].pc = "publish" /\ call'[p].try = 2
            /\ call'[p].op = "acquire" /\ call[p].op = "acquire"
            /\ call'[p].id = call[p].id /\ call'[p].dir = call[p].dir
  <2>1. CASE Return(p)
    BY <1>0, <2>1 DEF Return
  <2>2. CASE call[p].op = "acquire" /\ Again(p)
    <3>1. call[p].try = 1
      BY <1>0, <2>2 DEF LeaseInv, Informed, Guarded
    <3>2. call' = [call EXCEPT ![p].pc = "publish", ![p].try = 2]
      BY <1>0, <2>2, <3>1 DEF Again, Call
    <3>3. QED
      BY <1>0, <2>2, <3>2 DEF Call
  <2>3. QED
    BY <2>1, <2>2 DEF Unlink, Removed
<1>4. OneDirectory'
  BY <1>0, <1>1, <1>3 DEF LeaseInv, OneDirectory, Guarded, Idle
<1>5. AttachedOnRecord'
  BY <1>0, <1>2 DEF AttachedOnRecord, Attached
<1>6. GuardExclusive'
  BY <1>1, <1>3 DEF GuardExclusive, Guarded, Idle
<1>7. FreshIds'
  <2>1. 0 <= serial
    BY LeaseAssumption DEF LeaseTyped, LeaseTypeOK
  <2>2. QED
    BY <1>0, <1>1, <1>3, <2>1 DEF LeaseInv, FreshIds, NoRecord, Idle
<1>8. CallShape'
  BY <1>0, <1>3 DEF LeaseInv, CallShape, Idle
<1>9. Informed'
  BY <1>0, <1>1, <1>2, <1>3 DEF LeaseInv, Informed, Attached, Guarded, Idle
<1>10. QED
  BY <1>4, <1>5, <1>6, <1>7, <1>8, <1>9 DEF LeaseInv

LEMMA AcquireKeeps ==
  ASSUME LeaseTyped, LeaseInv, NEW p \in Processes,
         NEW existing \in BOOLEAN, Acquire(p, existing)
  PROVE  LeaseInv'
<1>0. /\ call \in [Processes -> Call] /\ DOMAIN local = Processes
      /\ serial \in Nat /\ os[p] = "up" /\ call[p].pc = "idle"
      /\ UNCHANGED <<trash, record, os, birth>>
  BY LeaseAssumption DEF LeaseTyped, LeaseTypeOK, Acquire, Free, system
<1>1. dir' = 1 /\ made' = 1
  BY DEF Acquire, MakeDirectory, LeaseInv, OneDirectory
<1>2. /\ call'[p].pc = "open" /\ call'[p].op = "acquire" /\ call'[p].id = serial'
      /\ serial' = serial + 1
      /\ \A q \in Processes \ {p} : call'[q] = call[q]
  BY <1>0 DEF Acquire, Opening, Idle
<1>3. \A q \in Processes :
        Attached(q)' => Attached(q) /\ local'[q] = local[q]
  BY <1>0 DEF Acquire, Attached
<1>4. OneDirectory'
  BY <1>0, <1>1, <1>2 DEF LeaseInv, OneDirectory, Guarded
<1>5. AttachedOnRecord'
  BY <1>0, <1>3 DEF LeaseInv, AttachedOnRecord
<1>6. GuardExclusive'
  BY <1>2 DEF LeaseInv, GuardExclusive, Guarded
<1>7. FreshIds'
  <2>1. /\ record[1].id \in Nat
        /\ \A q \in Processes : call[q].id \in Nat
    BY <1>0, LeaseAssumption DEF LeaseTyped, LeaseTypeOK, OwnerRecord, Call, Dirs
  <2>2. /\ record[1].id <= serial
        /\ \A q \in Processes : call[q].id <= serial
    BY DEF LeaseInv, FreshIds
  <2>3. /\ record[1].id < serial'
        /\ \A q \in Processes : call[q].id < serial'
    BY <1>0, <1>2, <2>1, <2>2
  <2>4. serial' \in Nat
    BY <1>0, <1>2
  <2>5. QED
    BY <1>0, <1>2, <2>1, <2>3, <2>4 DEF LeaseInv, FreshIds
<1>8. CallShape'
  BY <1>0, <1>2 DEF LeaseInv, CallShape
<1>9. Informed'
  BY <1>0, <1>2, <1>3 DEF LeaseInv, Informed, Guarded, Target
<1>10. QED
  BY <1>4, <1>5, <1>6, <1>7, <1>8, <1>9 DEF LeaseInv

LEMMA ReleaseKeeps ==
  ASSUME LeaseTyped, LeaseInv, NEW p \in Processes, NEW i \in Ids, Release(p, i)
  PROVE  LeaseInv'
<1>0. /\ call \in [Processes -> Call] /\ local \in [Processes -> [id : Nat, refs : Nat]]
      /\ os[p] = "up" /\ call[p].pc = "idle" /\ i > 0
      /\ SameRecord /\ UNCHANGED <<os, birth>>
  BY DEF LeaseTyped, LeaseTypeOK, Release, Free, files, system, SameRecord, Ids
<1>1. \A q \in Processes :
        Attached(q)' => Attached(q) /\ local'[q].id = local[q].id
  BY <1>0 DEF Release, Attached, NoLease
<1>2. CASE call' = call
  <2>1. OneDirectory' /\ GuardExclusive' /\ FreshIds' /\ CallShape'
    BY <1>0, <1>2 DEF LeaseInv, OneDirectory, GuardExclusive, FreshIds,
      CallShape, SameRecord
  <2>2. AttachedOnRecord'
    BY <1>0, <1>1 DEF LeaseInv, AttachedOnRecord, SameRecord
  <2>3. Informed'
    BY <1>0, <1>1, <1>2 DEF LeaseInv, Informed, SameRecord, Target
  <2>4. QED
    BY <2>1, <2>2, <2>3 DEF LeaseInv
<1>3. CASE /\ local[p].id = i /\ local' = [local EXCEPT ![p] = NoLease]
           /\ call' = [call EXCEPT ![p] = Opening("release", i)]
  <2>1. /\ call'[p].pc = "open" /\ call'[p].op = "release" /\ call'[p].id = i
        /\ \A q \in Processes \ {p} : call'[q] = call[q]
    BY <1>0, <1>3 DEF Opening, Idle
  <2>2. Attached(p) /\ record[1].id = i /\ record[1].pid = p
    BY <1>0, <1>3 DEF LeaseInv, AttachedOnRecord, Attached, NoLease
  <2>3. \A q \in Processes : ~ Attached(q)'
    BY <1>0, <1>1, <1>3, <2>2 DEF LeaseInv, AttachedOnRecord, Attached
  <2>4. OneDirectory'
    BY <1>0, <2>1 DEF LeaseInv, OneDirectory, Guarded, SameRecord
  <2>5. AttachedOnRecord' /\ GuardExclusive'
    BY <2>1, <2>3 DEF LeaseInv, AttachedOnRecord, GuardExclusive, Guarded
  <2>6. FreshIds'
    BY <1>0, <2>1, <2>2 DEF LeaseInv, FreshIds, SameRecord
  <2>7. CallShape'
    BY <1>0, <2>1 DEF LeaseInv, CallShape
  <2>8. Informed'
    BY <1>0, <2>1, <2>3 DEF LeaseInv, Informed, Guarded, Target, SameRecord
  <2>9. QED
    BY <2>4, <2>5, <2>6, <2>7, <2>8 DEF LeaseInv
<1>4. QED
  BY <1>2, <1>3 DEF Release

LEMMA ReenterKeeps ==
  ASSUME LeaseTyped, LeaseInv, NEW p \in Processes, Reenter(p)
  PROVE  LeaseInv'
<1>1. UNCHANGED <<dir, made, trash, record, serial, os, birth, call>>
  BY DEF Reenter, files, system
<1>2. \A q \in Processes :
        Attached(q)' => Attached(q) /\ local'[q].id = local[q].id
  <2>1. local \in [Processes -> [id : Nat, refs : Nat]] /\ Attached(p)
    BY DEF LeaseTyped, LeaseTypeOK, Reenter
  <2>2. QED
    BY <2>1 DEF Reenter, Attached
<1>3. OneDirectory' /\ GuardExclusive' /\ FreshIds' /\ CallShape'
  BY <1>1 DEF LeaseInv, OneDirectory, GuardExclusive, FreshIds, CallShape
<1>4. AttachedOnRecord'
  BY <1>1, <1>2 DEF LeaseInv, AttachedOnRecord
<1>5. Informed'
  BY <1>1, <1>2 DEF LeaseInv, Informed, Target
<1>6. QED
  BY <1>3, <1>4, <1>5 DEF LeaseInv

(* A process ID in no use has no lease *)
LEMMA SystemKeeps ==
  ASSUME LeaseTyped, LeaseInv, NEW p \in Processes, Collect(p) \/ Spawn(p)
  PROVE  LeaseInv'
<1>1. /\ UNCHANGED <<dir, made, trash, record, serial, local, call>>
      /\ os[p] # "up" /\ DOMAIN os = Processes /\ DOMAIN birth = Processes
  BY DEF Collect, Spawn, files, LeaseTyped, LeaseTypeOK
<1>2. /\ \A q \in Processes \ {p} : os'[q] = os[q] /\ birth'[q] = birth[q]
      /\ ~ Attached(p) /\ call[p].pc = "idle"
  BY <1>1 DEF Collect, Spawn, LeaseInv, AttachedOnRecord, CallShape
<1>3. OneDirectory' /\ GuardExclusive' /\ FreshIds'
  BY <1>1 DEF LeaseInv, OneDirectory, GuardExclusive, FreshIds
<1>4. AttachedOnRecord'
  BY <1>1, <1>2 DEF LeaseInv, AttachedOnRecord, Attached
<1>5. CallShape'
  BY <1>1, <1>2 DEF LeaseInv, CallShape
<1>6. Informed'
  BY <1>1 DEF LeaseInv, Informed, Attached, Target
<1>7. QED
  BY <1>3, <1>4, <1>5, <1>6 DEF LeaseInv

LEMMA LeaseInvInit == ASSUME Init PROVE LeaseInv
<1>1. 1 \in Dirs
  BY LeaseAssumption DEF Dirs
<1>2. /\ dir = 0 /\ made = 0 /\ trash = 0 /\ serial = 0 /\ record[1] = NoRecord
      /\ \A p \in Processes : local[p] = NoLease /\ call[p] = Idle
  BY <1>1 DEF Init
<1>3. QED
  BY <1>2 DEF LeaseInv, OneDirectory, AttachedOnRecord, Attached, GuardExclusive,
    Guarded, FreshIds, CallShape, Informed, Idle, NoRecord

LEMMA LeaseInvKept ==
  ASSUME LeaseTyped, LeaseInv, [Next]_vars, deletes' = 0
  PROVE  LeaseInv'
<1>1. CASE UNCHANGED vars
  <2>1. UNCHANGED <<dir, made, trash, record, serial, os, birth, local, call>>
    BY <1>1 DEF vars, files, system
  <2>2. QED
    BY <2>1 DEF LeaseInv, OneDirectory, AttachedOnRecord, Attached, GuardExclusive,
      FreshIds, CallShape, Informed, Target
<1>2. CASE Delete \/ Restore
  BY <1>2 DEF Delete, Restore, LeaseInv, OneDirectory, LeaseTyped, LeaseTypeOK
<1>3. ASSUME NEW p \in Processes, CallStep(p) PROVE LeaseInv'
  <2>0. Others(p) /\ call \in [Processes -> Call]
    BY <1>3, MovesOthers DEF LeaseTyped, LeaseTypeOK
  <2>1. CASE OpenGuard(p) \/ Publish(p) \/ Unlink(p)
    BY <2>1, OpenKeeps, PublishKeeps, UnlinkKeeps
  <2>2. CASE /\ ~ OpenGuard(p) /\ ~ Publish(p) /\ ~ Unlink(p)
    <3>1. UNCHANGED <<dir, made, trash, record, serial, os, birth, local>>
      BY <1>3, <2>2, RecordUntouched
    <3>2. CASE call'[p] = Idle
      <4>1. SameRecord /\ Shrinks(p)
        BY <3>1 DEF SameRecord, Shrinks, Attached
      <4>2. QED
        BY <2>0, <3>2, <4>1, CallEnds
    <3>3. CASE call'[p] # Idle
      BY <1>3, <2>2, <3>3, CallGoesOn
    <3>4. QED
      BY <3>2, <3>3
  <2>3. QED
    BY <2>1, <2>2
<1>4. ASSUME NEW p \in Processes, ProcessStep(p) PROVE LeaseInv'
  <2>1. CASE Reenter(p)
    BY <2>1, ReenterKeeps
  <2>2. CASE \E existing \in BOOLEAN : Acquire(p, existing)
    BY <2>2, AcquireKeeps
  <2>3. CASE \E i \in Ids : Release(p, i)
    BY <2>3, ReleaseKeeps
  <2>4. CASE Save(p)
    BY <2>4 DEF Save, LeaseInv, OneDirectory, AttachedOnRecord, NoRecord
  <2>5. CASE Die(p)
    <3>1. Others(p)
      BY <1>4, MovesOthers
    <3>2. SameRecord /\ Shrinks(p) /\ call'[p] = Idle
      BY <2>5 DEF Die, SameRecord, Shrinks, Attached, Return, files,
        LeaseTyped, LeaseTypeOK
    <3>3. QED
      BY <3>1, <3>2, CallEnds
  <2>6. CASE Collect(p) \/ Spawn(p)
    BY <2>6, SystemKeeps
  <2>7. QED
    BY <1>4, <2>1, <2>2, <2>3, <2>4, <2>5, <2>6 DEF ProcessStep
<1>5. QED
  BY <1>1, <1>2, <1>3, <1>4 DEF Next, Quiet

LEMMA LeaseInvariant == Spec => [](LeaseTyped /\ (deletes = 0 => LeaseInv))
<1>1. Init => LeaseTyped /\ (deletes = 0 => LeaseInv)
  BY LeaseTypeInit, LeaseInvInit
<1>2. /\ LeaseTyped /\ (deletes = 0 => LeaseInv)
      /\ LeaseTyped' /\ [Next]_vars
      => (deletes = 0 => LeaseInv)'
  <2> SUFFICES ASSUME LeaseTyped, deletes = 0 => LeaseInv, [Next]_vars, deletes' = 0
               PROVE  LeaseInv'
    OBVIOUS
  <2>1. deletes = 0
    <3>1. CASE UNCHANGED vars \/ Restore
      BY <3>1 DEF vars, files, Restore
    <3>2. CASE Delete
      BY <3>2, LeaseAssumption DEF Delete, LeaseTyped, LeaseTypeOK
    <3>3. ASSUME NEW p \in Processes, CallStep(p) PROVE deletes' = deletes
      BY <3>3 DEF CallStep, files, OpenGuard, GuardFails, LockGuard, Publish,
        PublishFails, Occupied, ReadOwner, ProbeAlive, ProbeDead, CompareOwner, Unlink,
        UnlinkFails
    <3>4. ASSUME NEW p \in Processes, ProcessStep(p) PROVE deletes' = deletes
      BY <3>4 DEF ProcessStep, files, Reenter, Acquire, Release, Save,
        Die, Collect, Spawn
    <3>5. QED
      BY <3>1, <3>2, <3>3, <3>4 DEF Next, Quiet
  <2>2. QED
    BY <2>1, LeaseInvKept
<1>3. QED
  BY <1>1, <1>2, LeaseTypeInvariant, PTL DEF Spec

-----------------------------------------------------------------------------
(* At most one live process is attached to a session, until the session is
   first deleted: acquire reclaims a record only when its process is gone or
   is another one, and it publishes only where there is no record. *)
THEOREM SingleOwner == Spec => [](deletes = 0 => OwnerExclusive)
<1>1. LeaseInv => OwnerExclusive
  BY DEF LeaseInv, AttachedOnRecord, OwnerExclusive
<1>2. QED
  BY <1>1, LeaseInvariant, PTL

(* Neither a reclaim nor a late _release removes or replaces the record of an
   attached owner, until the session is first deleted. *)
THEOREM OwnerStaysOnRecord == Spec => [](deletes = 0 => RecordNamesOwner)
<1>1. LeaseInv => RecordNamesOwner
  BY CurrentIsFirst DEF LeaseInv, AttachedOnRecord, RecordNamesOwner
<1>2. QED
  BY <1>1, LeaseInvariant, PTL

(* The second of acquire's three attempts to publish finds no record, until
   the session is first deleted. *)
THEOREM SecondAttemptSuffices == Spec => [](deletes = 0 => RetriesSuffice)
<1>1. LeaseTyped /\ LeaseInv => RetriesSuffice
  BY CurrentIsFirst DEF LeaseInv, Informed, RetriesSuffice
<1>2. QED
  BY <1>1, LeaseInvariant, PTL

-----------------------------------------------------------------------------
(* Refinement of OwnerLease.  Publish takes a lease, Unlink drops the one on
   record, and every other step at most ends an attachment *)

holding == {local[p].id : p \in {q \in Processes : Attached(q)}}

LEMMA HoldingOnRecord ==
  ASSUME LeaseTyped, LeaseInv
  PROVE  /\ holding \subseteq {record[1].id}
         /\ holding # {} => record[1].id \in Ids
<1>1. holding \subseteq {record[1].id}
  BY DEF holding, LeaseInv, AttachedOnRecord
<1>2. record[1].id \in Nat /\ serial \in Nat /\ serial <= MaxAcquires
      /\ record[1].id <= serial
  BY LeaseAssumption DEF LeaseTyped, LeaseTypeOK, OwnerRecord, Dirs, LeaseInv, FreshIds
<1>3. holding # {} => record[1].id > 0
  BY DEF holding, LeaseInv, AttachedOnRecord
<1>4. QED
  BY <1>1, <1>2, <1>3, LeaseAssumption DEF Ids

(* A step that leaves the record alone and attaches nobody *)
LEMMA ShrinkImplements ==
  ASSUME LeaseTyped, LeaseInv, LeaseInv', record'[1] = record[1],
         \A q \in Processes :
           Attached(q)' => Attached(q) /\ local'[q].id = local[q].id
  PROVE  [Ownership!Next]_(Ownership!vars)
<1>1. Current = record[1] /\ Current' = record[1]
  BY CurrentIsFirst DEF LeaseInv, OneDirectory, Current
<1>2. holding' \subseteq holding
  BY DEF holding
<1>3. CASE holding' = holding
  BY <1>1, <1>3 DEF Ownership!vars, holding
<1>4. CASE holding' # holding
  <2>1. holding' = holding \ {record[1].id} /\ record[1].id \in Ids
    BY <1>2, <1>4, HoldingOnRecord
  <2>2. PICK l \in Ids : l = record[1].id
    BY <2>1
  <2>3. Ownership!Detach(l)
    BY <1>1, <2>1, <2>2 DEF Ownership!Detach, holding
  <2>4. QED
    BY <2>3 DEF Ownership!Next
<1>5. QED
  BY <1>3, <1>4

LEMMA PublishImplements ==
  ASSUME LeaseTyped, LeaseInv, LeaseInv', NEW p \in Processes, Publish(p)
  PROVE  Ownership!Next
<1>0. /\ call \in [Processes -> Call] /\ local \in [Processes -> [id : Nat, refs : Nat]]
      /\ DOMAIN record = Dirs /\ 1 \in Dirs /\ serial \in Nat /\ serial <= MaxAcquires
      /\ call[p].pc = "publish" /\ call[p].id \in Nat
  BY LeaseAssumption DEF LeaseTyped, LeaseTypeOK, Publish, Dirs, Call
<1>1. Current = NoRecord /\ record[1] = NoRecord
  BY CurrentIsFirst DEF Publish, LeaseInv
<1>2. Current' = record'[1]
  BY DEF LeaseInv, OneDirectory, Current
<1>3. holding = {}
  BY <1>1 DEF holding, LeaseInv, AttachedOnRecord, NoRecord
<1>4. call[p].id \in Ids
  BY <1>0, LeaseAssumption DEF LeaseInv, CallShape, FreshIds, Ids
<1>5. dir' = 1
  BY <1>0 DEF Publish, MakeDirectory, LeaseInv, OneDirectory
<1>6. record'[1].id = call[p].id
  BY <1>0, <1>5 DEF Publish
<1>7. holding' = {call[p].id}
  <2>1. local'[p].id = call[p].id /\ \A q \in Processes \ {p} : local'[q] = local[q]
    BY <1>0 DEF Publish
  <2>2. \A q \in Processes : Attached(q)' <=> q = p
    <3>1. \A q \in Processes : ~ Attached(q)
      BY <1>3 DEF holding
    <3>2. Attached(p)'
      BY <2>1, <1>4 DEF Attached, NoLease, Ids
    <3>3. QED
      BY <2>1, <3>1, <3>2 DEF Attached
  <2>3. QED
    BY <2>1, <2>2 DEF holding
<1>8. PICK l \in Ids : l = call[p].id
  BY <1>4
<1>9. Ownership!Take(l)
  BY <1>1, <1>2, <1>3, <1>6, <1>7, <1>8 DEF Ownership!Take, holding, NoRecord
<1>10. QED
  BY <1>9 DEF Ownership!Next

LEMMA UnlinkImplements ==
  ASSUME LeaseTyped, LeaseInv, LeaseInv', NEW p \in Processes, Unlink(p)
  PROVE  Ownership!Next
<1>0. 1 \in Dirs /\ dir = 1 /\ UNCHANGED local
  BY LeaseAssumption DEF Unlink, LeaseInv, OneDirectory, Guarded, Dirs
<1>1. record'[1] = NoRecord /\ Current' = record'[1]
  BY <1>0 DEF Unlink, LeaseInv, OneDirectory, Current
<1>2. holding' = {} /\ holding = {}
  BY <1>0, <1>1 DEF holding, LeaseInv, AttachedOnRecord, NoRecord, Attached
<1>3. Ownership!Drop
  <2>1. holding' = holding
    BY <1>2
  <2>2. Current.id \notin holding /\ Current'.id = 0
    BY <1>1, <1>2 DEF NoRecord
  <2>3. QED
    BY <2>1, <2>2 DEF Ownership!Drop, holding
<1>4. QED
  BY <1>3 DEF Ownership!Next

LEMMA StepImplements ==
  ASSUME LeaseTyped, LeaseInv, LeaseInv', deletes' = 0, [Next]_vars
  PROVE  [Ownership!Next]_(Ownership!vars)
<1>0. local \in [Processes -> [id : Nat, refs : Nat]]
  BY DEF LeaseTyped, LeaseTypeOK
<1>1. CASE UNCHANGED vars \/ Delete \/ Restore
  <2>1. record' = record /\ local' = local
    BY <1>1 DEF vars, files, Delete, Restore
  <2>2. QED
    BY <2>1, ShrinkImplements DEF Attached
<1>2. ASSUME NEW p \in Processes, CallStep(p), ~ Publish(p), ~ Unlink(p)
      PROVE  [Ownership!Next]_(Ownership!vars)
  <2>1. record' = record /\ local' = local
    BY <1>2 DEF CallStep, OpenGuard, GuardFails, LockGuard, PublishFails,
      Occupied, ReadOwner, ProbeAlive, ProbeDead, CompareOwner,
      UnlinkFails, files
  <2>2. QED
    BY <2>1, ShrinkImplements DEF Attached
<1>3. ASSUME NEW p \in Processes, ProcessStep(p)
      PROVE  [Ownership!Next]_(Ownership!vars)
  <2>1. record' = record
    BY <1>3 DEF ProcessStep, Reenter, Acquire, Release, Save, Die, Collect, Spawn, files
  <2>2. \A q \in Processes :
          Attached(q)' => Attached(q) /\ local'[q].id = local[q].id
    <3>1. CASE Reenter(p)
      BY <1>0, <3>1 DEF Reenter, Attached
    <3>2. CASE \E i \in Ids : Release(p, i)
      BY <1>0, <3>2 DEF Release, Attached, NoLease, Ids
    <3>3. CASE Die(p) \/ \E existing \in BOOLEAN : Acquire(p, existing)
      BY <1>0, <3>3 DEF Die, Acquire, Attached
    <3>4. CASE Save(p) \/ Collect(p) \/ Spawn(p)
      BY <3>4 DEF Save, Collect, Spawn, Attached
    <3>5. QED
      BY <1>3, <3>1, <3>2, <3>3, <3>4 DEF ProcessStep
  <2>3. QED
    BY <2>1, <2>2, ShrinkImplements
<1>4. QED
  BY <1>1, <1>2, <1>3, PublishImplements, UnlinkImplements DEF Next, Quiet

(* While no session is deleted, the file protocol of .owner and .owner.lock
   implements the lease that is taken, given up and dropped in single steps. *)
THEOREM ImplementsOwnerLease ==
  ASSUME Deletes = 0 PROVE Spec => OwnershipSpec
<1>1. Init => Ownership!Init
  <2> SUFFICES ASSUME Init PROVE Ownership!Init
    OBVIOUS
  <2>1. Current.id = 0
    BY DEF Init, Current, NoRecord
  <2>2. holding = {}
    BY DEF Init, holding, Attached
  <2>3. QED
    BY <2>1, <2>2 DEF Ownership!Init, holding
<1>2. LeaseTyped => deletes = 0
  BY DEF LeaseTyped, LeaseTypeOK
<1>3. /\ LeaseTyped /\ (deletes = 0 => LeaseInv)
      /\ LeaseTyped' /\ (deletes = 0 => LeaseInv)'
      /\ [Next]_vars
      => [Ownership!Next]_(Ownership!vars)
  BY <1>2, StepImplements DEF LeaseTyped, LeaseTypeOK
<1>4. QED
  BY <1>1, <1>3, LeaseInvariant, PTL DEF Spec, OwnershipSpec, Ownership!Spec

-----------------------------------------------------------------------------
(* References.  Every handle of the lease a process has is counted in
   _PROCESS_LEASES, also across deletions *)

Counted ==
  /\ NestedReferences
  /\ \A p \in Processes :
       /\ Attached(p) => local[p].id \in Ids
       /\ call[p].op = "acquire" => call[p].id \in Ids
       /\ call[p].pc \in {"publish", "read", "probe"} => call[p].op = "acquire"

(* What a step of p does to the others *)
LEMMA CountedFrame ==
  ASSUME LeaseTyped, Counted, NEW p \in Processes,
         \A q \in Processes \ {p} :
           call'[q] = call[q] /\ local'[q] = local[q] /\ handles'[q] = handles[q],
         Attached(p)' => local'[p].id \in Ids /\ local'[p].refs > 0
                         /\ handles'[p][local'[p].id] = local'[p].refs,
         call'[p].op = "acquire" => call'[p].id \in Ids,
         call'[p].pc \in {"publish", "read", "probe"} => call'[p].op = "acquire"
  PROVE  Counted'
<1>1. \A q \in Processes \ {p} : Attached(q)' <=> Attached(q)
  BY DEF Attached
<1>2. NestedReferences'
  BY <1>1 DEF Counted, NestedReferences
<1>3. QED
  BY <1>1, <1>2 DEF Counted

LEMMA CallStepCounts ==
  ASSUME LeaseTyped, Counted, NEW p \in Processes, CallStep(p)
  PROVE  Counted'
<1>0. /\ call \in [Processes -> Call] /\ local \in [Processes -> [id : Nat, refs : Nat]]
      /\ handles \in [Processes -> [Ids -> Nat]]
  BY DEF LeaseTyped, LeaseTypeOK
<1>1. \A q \in Processes \ {p} :
        call'[q] = call[q] /\ local'[q] = local[q] /\ handles'[q] = handles[q]
  BY <1>0 DEF CallStep, OpenGuard, GuardFails, LockGuard, Publish,
    PublishFails, Occupied, ReadOwner, ProbeAlive, ProbeDead, CompareOwner, Unlink,
    UnlinkFails, Removed, Again, Return, Goto
<1>2. /\ Attached(p) => local[p].id \in Ids /\ local[p].refs > 0
                        /\ handles[p][local[p].id] = local[p].refs
      /\ call[p].op = "acquire" => call[p].id \in Ids
      /\ call[p].pc \in {"publish", "read", "probe"} => call[p].op = "acquire"
  BY DEF Counted, NestedReferences
<1>3. CASE Publish(p)
  <2>1. call'[p].op = "none" /\ call'[p].pc = "idle" /\ call[p].id \in Ids
    BY <1>0, <1>2, <1>3 DEF Publish, Return, Idle
  <2>2. /\ local'[p].id = call[p].id /\ local'[p].refs = 1
        /\ handles'[p][call[p].id] = 1
    BY <1>0, <1>3, <2>1 DEF Publish
  <2>3. QED
    BY <1>1, <2>1, <2>2, CountedFrame
<1>4. CASE ~ Publish(p)
  <2>1. UNCHANGED <<local, handles>>
    BY <1>4 DEF CallStep, OpenGuard, GuardFails, LockGuard,
      PublishFails, Occupied, ReadOwner, ProbeAlive, ProbeDead, CompareOwner, Unlink,
      UnlinkFails
  <2>2. /\ call'[p].op \in {call[p].op, "none"}
        /\ call'[p].op = "acquire" => call'[p].id = call[p].id
        /\ call'[p].pc \in {"publish", "read", "probe"} => call'[p].op = "acquire"
    <3>1. CASE Return(p)
      BY <1>0, <3>1 DEF Return, Idle
    <3>2. CASE call[p].op = "acquire" /\ Again(p)
      BY <1>0, <3>1, <3>2 DEF Again, Call
    <3>3. CASE Goto(p, "compare") \/ Goto(p, "unlink")
      BY <1>0, <3>3 DEF Goto, Call
    <3>4. CASE OpenGuard(p)
      BY <1>0, <3>4 DEF OpenGuard, Call
    <3>5. CASE LockGuard(p)
      BY <1>0, <3>3, <3>5 DEF LockGuard, Call
    <3>6. CASE Occupied(p)
      BY <1>0, <1>2, <3>6 DEF Occupied, Goto, Call
    <3>7. CASE ReadOwner(p)
      <4>1. call[p].op = "acquire"
        BY <1>2, <3>7 DEF ReadOwner
      <4>2. CASE call' = [call EXCEPT ![p].pc = "probe", ![p].seen = Current]
        BY <1>0, <4>1, <4>2 DEF Call
      <4>3. QED
        BY <3>2, <3>7, <4>1, <4>2 DEF ReadOwner
    <3>8. QED
      BY <1>4, <3>1, <3>2, <3>3, <3>4, <3>5, <3>6, <3>7
         DEF CallStep, GuardFails, PublishFails, ProbeAlive, ProbeDead,
             CompareOwner, Unlink,
             UnlinkFails, Removed
  <2>3. QED
    BY <1>1, <1>2, <2>1, <2>2, CountedFrame DEF Attached
<1>5. QED
  BY <1>3, <1>4

LEMMA ProcessStepCounts ==
  ASSUME LeaseTyped, Counted, NEW p \in Processes, ProcessStep(p)
  PROVE  Counted'
<1>0. /\ call \in [Processes -> Call] /\ local \in [Processes -> [id : Nat, refs : Nat]]
      /\ handles \in [Processes -> [Ids -> Nat]]
      /\ handles[p] \in [Ids -> Nat] /\ local[p] \in [id : Nat, refs : Nat]
  BY DEF LeaseTyped, LeaseTypeOK
<1>1. \A q \in Processes \ {p} :
        call'[q] = call[q] /\ local'[q] = local[q] /\ handles'[q] = handles[q]
  BY <1>0 DEF ProcessStep, Reenter, Acquire, Release, Save, Die, Collect, Spawn, Return
<1>2. /\ Attached(p) => local[p].id \in Ids /\ local[p].refs > 0
                        /\ handles[p][local[p].id] = local[p].refs
      /\ call[p].op = "acquire" => call[p].id \in Ids
      /\ call[p].pc \in {"publish", "read", "probe"} => call[p].op = "acquire"
  BY DEF Counted, NestedReferences
<1>3. CASE Reenter(p)
  <2>1. /\ local'[p].id = local[p].id /\ local'[p].refs = local[p].refs + 1
        /\ handles'[p][local[p].id] = handles[p][local[p].id] + 1
        /\ Attached(p) /\ call' = call
    BY <1>0, <1>2, <1>3 DEF Reenter
  <2>2. QED
    BY <1>0, <1>1, <1>2, <2>1, CountedFrame
<1>4. ASSUME NEW existing \in BOOLEAN, Acquire(p, existing) PROVE Counted'
  <2>1. /\ call'[p].pc = "open" /\ call'[p].id = serial + 1 /\ ~ Attached(p)'
    BY <1>0, <1>4 DEF Acquire, Opening, Idle, Attached
  <2>2. serial + 1 \in Ids
    BY <1>4, LeaseAssumption DEF Acquire, Ids, LeaseTyped, LeaseTypeOK
  <2>3. QED
    BY <1>1, <2>1, <2>2, CountedFrame
<1>5. ASSUME NEW i \in Ids, Release(p, i) PROVE Counted'
  <2>1. handles'[p] = [handles[p] EXCEPT ![i] = @ - 1]
    BY <1>0, <1>5 DEF Release
  <2>2. CASE local[p].id # i /\ UNCHANGED <<local, call>>
    <3>1. Attached(p) => handles'[p][local[p].id] = handles[p][local[p].id]
      BY <1>0, <1>2, <2>1, <2>2
    <3>2. QED
      BY <1>1, <1>2, <2>2, <3>1, CountedFrame DEF Attached
  <2>3. CASE /\ local[p].id = i /\ local[p].refs > 1
             /\ local' = [local EXCEPT ![p].refs = @ - 1] /\ UNCHANGED call
    <3>1. Attached(p)
      BY <2>3 DEF Attached, NoLease
    <3>2. /\ local'[p].id = i /\ local'[p].refs = local[p].refs - 1
          /\ handles'[p][i] = handles[p][i] - 1
      BY <1>0, <2>1, <2>3
    <3>3. QED
      BY <1>0, <1>1, <1>2, <2>3, <3>1, <3>2, CountedFrame
  <2>4. CASE /\ local' = [local EXCEPT ![p] = NoLease]
             /\ call' = [call EXCEPT ![p] = Opening("release", i)]
    <3>1. call'[p].pc = "open" /\ call'[p].op = "release" /\ ~ Attached(p)'
      BY <1>0, <2>4 DEF Opening, Idle, Attached
    <3>2. QED
      BY <1>1, <3>1, CountedFrame
  <2>5. QED
    BY <1>5, <2>2, <2>3, <2>4 DEF Release
<1>6. CASE Die(p)
  <2>1. call'[p].pc = "idle" /\ call'[p].op = "none" /\ ~ Attached(p)'
    BY <1>0, <1>6 DEF Die, Return, Idle, Attached
  <2>2. QED
    BY <1>1, <2>1, CountedFrame
<1>7. CASE Save(p) \/ Collect(p) \/ Spawn(p)
  BY <1>1, <1>2, <1>7, CountedFrame DEF Save, Collect, Spawn, Attached
<1>8. QED
  BY <1>3, <1>4, <1>5, <1>6, <1>7 DEF ProcessStep

(* A process is attached until it has released as many handles as it took,
   whatever is deleted meanwhile. *)
THEOREM ReferencesCounted == Spec => []NestedReferences
<1>1. Init => Counted
  BY DEF Init, Counted, NestedReferences, Attached, Idle
<1>2. LeaseTyped /\ Counted /\ [Next]_vars => Counted'
  <2> SUFFICES ASSUME LeaseTyped, Counted, [Next]_vars PROVE Counted'
    OBVIOUS
  <2>1. CASE UNCHANGED vars \/ Delete \/ Restore
    <3>1. UNCHANGED <<local, handles, call>>
      BY <2>1 DEF vars, Delete, Restore
    <3>2. QED
      BY <3>1 DEF Counted, NestedReferences, Attached
  <2>2. QED
    BY <2>1, CallStepCounts, ProcessStepCounts DEF Next, Quiet
<1>3. Counted => NestedReferences
  BY DEF Counted
<1>4. QED
  BY <1>1, <1>2, <1>3, LeaseTypeInvariant, PTL DEF Spec
=============================================================================
