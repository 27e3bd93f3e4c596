----------------------------- MODULE SessionLease -----------------------------
(***************************************************************************)
(* The owner lease of one durable session, runners/session_lease.py over   *)
(* runners/process_lease.py.  A process owns the session while the file    *)
(* .owner in the session's directory names it; .owner.lock is an advisory  *)
(* lock held only while .owner is published, reclaimed or removed.         *)
(*                                                                         *)
(* Each step is one access to the file system, to /proc or to the table    *)
(* _PROCESS_LEASES.  A process makes one call at a time: the calls are     *)
(* synchronous and made from one thread.  Both files belong to the         *)
(* directory they were opened in, so directories are numbered: deleting    *)
(* the session's background record moves its directory, with an open lock  *)
(* file and the owner record in it, to the trash.                          *)
(*                                                                         *)
(* Left out: the owners of other hosts and users, which are never          *)
(* reclaimed, records the program did not write, and reads of .owner that  *)
(* fail, which count as such a record.                                     *)
(***************************************************************************)
EXTENDS Naturals, FiniteSets

CONSTANTS
  Processes,     \* process IDs, each used by one process at a time
  NoOne,         \* the process ID of no process
  MaxBirths,     \* bound on the processes that get one process ID
  MaxAcquires,   \* bound on the owner IDs generated
  MaxHandles,    \* bound on the handles of one lease
  Deletes        \* bound on the deletions of the session

ASSUME LeaseAssumption ==
  /\ NoOne \notin Processes
  /\ MaxBirths \in Nat /\ MaxAcquires \in Nat /\ MaxHandles \in Nat
  /\ Deletes \in Nat

VARIABLES
  dir,       \* the directory at the session's path, 0 for none
  made,      \* directories made so far
  trash,     \* the directory in the trash, 0 for none
  deletes,   \* deletions so far
  record,    \* the .owner file of each directory
  serial,    \* owner IDs generated so far
  os,        \* whether each process ID is in use: "up", "zombie" or "gone"
  birth,     \* process-start token of the last process with each process ID
  local,     \* each process's entry of _PROCESS_LEASES
  handles,   \* unreleased SessionOwnerLease objects, per process and owner ID
  call       \* the call each process is in

files == <<dir, made, trash, deletes, record>>
system == <<os, birth>>
vars == <<files, serial, system, local, handles, call>>

-----------------------------------------------------------------------------
Ids == 1 .. MaxAcquires
Dirs == 1 .. Deletes + 1

(* start is 0 when the publisher could not learn its own start token *)
OwnerRecord ==
  [id : Nat, pid : Processes \cup {NoOne}, start : Nat]
NoRecord == [id |-> 0, pid |-> NoOne, start |-> 0]
NoLease == [id |-> 0, refs |-> 0]
NoHandles == [i \in Ids |-> 0]

Guarded == {"publish", "read", "probe", "compare", "unlink"}
Call == [pc : {"idle", "open", "lock"} \cup Guarded,
         op : {"none", "acquire", "release"},
         id : Nat, dir : Nat, try : Nat, seen : OwnerRecord]
Idle == [pc |-> "idle", op |-> "none", id |-> 0, dir |-> 0, try |-> 0,
         seen |-> NoRecord]
Opening(op, i) == [Idle EXCEPT !.pc = "open", !.op = op, !.id = i]

(* What read_json_object finds at the session's path *)
Current == IF dir = 0 THEN NoRecord ELSE record[dir]

(* mkdir(parents=True, exist_ok=True) *)
MakeDirectory ==
  \/ dir = 0 /\ dir' = made + 1 /\ made' = made + 1
  \/ dir # 0 /\ UNCHANGED <<dir, made>>

Attached(p) == local[p] # NoLease

(* owner_alive.  A process-identity lookup may fail, and then a process ID
   in use counts as the owner *)
MayBeAlive(r) == os[r.pid] # "gone"
(* Variant: an owner without a start token does not count as live *)
MayBeDeadUnverified(r) ==
  \/ os[r.pid] \in {"gone", "zombie"}
  \/ os[r.pid] = "up" /\ r.start # birth[r.pid]

(* Gone, a zombie, or another process under its ID *)
MayBeDead(r) ==
  \/ os[r.pid] \in {"gone", "zombie"}
  \/ os[r.pid] = "up" /\ r.start # 0 /\ r.start # birth[r.pid]

Goto(p, pc) == call' = [call EXCEPT ![p].pc = pc]
Return(p) == call' = [call EXCEPT ![p] = Idle]

-----------------------------------------------------------------------------
(* The session is created and no process has opened it *)
Init ==
  /\ dir = 0 /\ made = 0 /\ trash = 0 /\ deletes = 0
  /\ record = [d \in Dirs |-> NoRecord]
  /\ serial = 0
  /\ os = [p \in Processes |-> "up"]
  /\ birth = [p \in Processes |-> 1]
  /\ local = [p \in Processes |-> NoLease]
  /\ handles = [p \in Processes |-> NoHandles]
  /\ call = [p \in Processes |-> Idle]

Free(p) == os[p] = "up" /\ call[p].pc = "idle"

(* Variant: the reference is not counted *)
ReenterUncounted(p) ==
  /\ Free(p) /\ Attached(p) /\ Current.id = local[p].id
  /\ handles[p][local[p].id] < MaxHandles
  /\ handles' = [handles EXCEPT ![p][local[p].id] = @ + 1]
  /\ UNCHANGED <<files, serial, system, local, call>>

(* acquire by a process that has the lease: one more reference to it *)
Reenter(p) ==
  LET l == local[p] IN
  /\ Free(p) /\ Attached(p) /\ Current.id = l.id
  /\ handles[p][l.id] < MaxHandles
  /\ local' = [local EXCEPT ![p].refs = @ + 1]
  /\ handles' = [handles EXCEPT ![p][l.id] = @ + 1]
  /\ UNCHANGED <<files, serial, system, call>>

(* acquire up to the owner guard.  A session that is opened by name has to
   exist; the others are new, or have a background record, which they do not
   have while they are in the trash *)
Acquire(p, requireExisting) ==
  /\ Free(p) /\ serial < MaxAcquires
  /\ IF requireExisting THEN dir # 0 ELSE trash = 0
  /\ ~(Attached(p) /\ Current.id = local[p].id)
  /\ MakeDirectory
  /\ local' = [local EXCEPT ![p] = NoLease]
  /\ serial' = serial + 1
  /\ call' = [call EXCEPT ![p] = Opening("acquire", serial')]
  /\ UNCHANGED <<trash, deletes, record, system, handles>>

(* Variant: the entry of _PROCESS_LEASES outlives its last reference *)
ReleaseKeepsEntry(p, i) ==
  /\ Free(p) /\ handles[p][i] = 1 /\ local[p].id = i
  /\ handles' = [handles EXCEPT ![p][i] = 0]
  /\ call' = [call EXCEPT ![p] = Opening("release", i)]
  /\ UNCHANGED <<files, serial, system, local>>

(* release, then _release up to the owner guard *)
Release(p, i) ==
  /\ Free(p) /\ handles[p][i] > 0
  /\ handles' = [handles EXCEPT ![p][i] = @ - 1]
  /\ \/ /\ local[p].id # i
        /\ UNCHANGED <<local, call>>
     \/ /\ local[p].id = i /\ local[p].refs > 1
        /\ local' = [local EXCEPT ![p].refs = @ - 1]
        /\ UNCHANGED call
     \/ /\ local[p].id = i /\ local[p].refs <= 1
        /\ local' = [local EXCEPT ![p] = NoLease]
        /\ call' = [call EXCEPT ![p] = Opening("release", i)]
  /\ UNCHANGED <<files, serial, system>>

-----------------------------------------------------------------------------
(* InterProcessLock.__enter__ makes the directory and opens the lock file *)
OpenGuard(p) ==
  /\ call[p].pc = "open"
  /\ MakeDirectory
  /\ call' = [call EXCEPT ![p].pc = "lock", ![p].dir = dir']
  /\ UNCHANGED <<trash, deletes, record, serial, system, local, handles>>

(* The lock file cannot be opened or locked: acquire raises, _release leaves
   the record for a later reclaim *)
GuardFails(p) ==
  /\ call[p].pc \in {"open", "lock"}
  /\ Return(p)
  /\ UNCHANGED <<files, serial, system, local, handles>>

(* Variant: the owner guard is not exclusive *)
LockGuardShared(p) ==
  /\ call[p].pc = "lock"
  /\ call' = [call EXCEPT ![p].try = 1,
       ![p].pc = IF call[p].op = "acquire" THEN "publish" ELSE "compare"]
  /\ UNCHANGED <<files, serial, system, local, handles>>

(* flock.  The lock is given up with the last access, or by the OS *)
LockGuard(p) ==
  /\ call[p].pc = "lock"
  /\ \A q \in Processes :
       call[q].pc \in Guarded => call[q].dir # call[p].dir
  /\ \/ /\ call[p].op = "acquire"
        /\ call' = [call EXCEPT ![p].pc = "publish", ![p].try = 1]
     \/ /\ call[p].op = "release"
        /\ Goto(p, "compare")
  /\ UNCHANGED <<files, serial, system, local, handles>>

(* atomic_publish links a complete record into place *)
Publish(p) ==
  /\ call[p].pc = "publish" /\ Current = NoRecord
  /\ MakeDirectory
  /\ \E start \in {0, birth[p]} :
       record' = [record EXCEPT ![dir'] =
                    [id |-> call[p].id, pid |-> p, start |-> start]]
  /\ local' = [local EXCEPT ![p] = [id |-> call[p].id, refs |-> 1]]
  /\ handles' = [handles EXCEPT ![p][call[p].id] = 1]
  /\ Return(p)
  /\ UNCHANGED <<trash, deletes, serial, system>>

(* Any OSError but FileExistsError, before or after the directory is made *)
PublishFails(p) ==
  /\ call[p].pc = "publish"
  /\ MakeDirectory \/ UNCHANGED <<dir, made>>
  /\ Return(p)
  /\ UNCHANGED <<trash, deletes, record, serial, system, local, handles>>

(* FileExistsError *)
Occupied(p) ==
  /\ call[p].pc = "publish" /\ Current # NoRecord
  /\ Goto(p, "read")
  /\ UNCHANGED <<files, serial, system, local, handles>>

(* continue: three attempts, then SessionStorageError *)
Again(p) ==
  \/ /\ call[p].try < 3
     /\ call' = [call EXCEPT ![p].pc = "publish", ![p].try = @ + 1]
  \/ /\ call[p].try >= 3
     /\ Return(p)

ReadOwner(p) ==
  /\ call[p].pc = "read"
  /\ \/ Current = NoRecord /\ Again(p)
     \/ /\ Current # NoRecord
        /\ call' = [call EXCEPT ![p].pc = "probe", ![p].seen = Current]
  /\ UNCHANGED <<files, serial, system, local, handles>>

(* Variant: acquire waits for a live owner to leave *)
ProbeAliveWaits(p) ==
  /\ call[p].pc = "probe" /\ MayBeAlive(call[p].seen)
  /\ Goto(p, "read")
  /\ UNCHANGED <<files, serial, system, local, handles>>

(* SessionAlreadyActiveError *)
ProbeAlive(p) ==
  /\ call[p].pc = "probe" /\ MayBeAlive(call[p].seen)
  /\ Return(p)
  /\ UNCHANGED <<files, serial, system, local, handles>>

ProbeDead(p) ==
  /\ call[p].pc = "probe" /\ MayBeDead(call[p].seen)
  /\ Goto(p, "compare")
  /\ UNCHANGED <<files, serial, system, local, handles>>

(* What follows remove_if_owner *)
Removed(p) ==
  \/ call[p].op = "acquire" /\ Again(p)
  \/ call[p].op = "release" /\ Return(p)

(* The owner ID remove_if_owner is called with *)
Target(p) ==
  IF call[p].op = "release" THEN call[p].id ELSE call[p].seen.id

(* remove_if_owner reads the record and compares its owner ID ... *)
CompareOwner(p) ==
  /\ call[p].pc = "compare"
  /\ \/ Current.id = Target(p) /\ Goto(p, "unlink")
     \/ Current.id # Target(p) /\ Removed(p)
  /\ UNCHANGED <<files, serial, system, local, handles>>

(* ... and unlinks whatever is at the path by then *)
Unlink(p) ==
  /\ call[p].pc = "unlink"
  /\ record' = [d \in Dirs |-> IF d = dir THEN NoRecord ELSE record[d]]
  /\ Removed(p)
  /\ UNCHANGED <<dir, made, trash, deletes, serial, system, local, handles>>

(* Any OSError but FileNotFoundError is raised to the caller *)
UnlinkFails(p) ==
  /\ call[p].pc = "unlink"
  /\ Return(p)
  /\ UNCHANGED <<files, serial, system, local, handles>>

-----------------------------------------------------------------------------
(* A process ends or is killed; it is a zombie until its parent collects it *)
Die(p) ==
  /\ os[p] = "up"
  /\ \E end \in {"zombie", "gone"} : os' = [os EXCEPT ![p] = end]
  /\ local' = [local EXCEPT ![p] = NoLease]
  /\ handles' = [handles EXCEPT ![p] = NoHandles]
  /\ Return(p)
  /\ UNCHANGED <<files, serial, birth>>

Collect(p) ==
  /\ os[p] = "zombie"
  /\ os' = [os EXCEPT ![p] = "gone"]
  /\ UNCHANGED <<files, serial, birth, local, handles, call>>

(* The process ID is used again *)
Spawn(p) ==
  /\ os[p] = "gone" /\ birth[p] < MaxBirths
  /\ os' = [os EXCEPT ![p] = "up"]
  /\ birth' = [birth EXCEPT ![p] = @ + 1]
  /\ UNCHANGED <<files, serial, local, handles, call>>

(* BackgroundStore.delete moves the directory of a session to the trash *)
Delete ==
  /\ deletes < Deletes /\ dir # 0 /\ trash = 0
  /\ trash' = dir /\ dir' = 0
  /\ deletes' = deletes + 1
  /\ UNCHANGED <<made, record, serial, system, local, handles, call>>

(* BackgroundStore.restore_deleted, unless the path is taken *)
Restore ==
  /\ trash # 0 /\ dir = 0
  /\ dir' = trash /\ trash' = 0
  /\ UNCHANGED <<made, deletes, record, serial, system, local, handles, call>>

(* An owner saves its loop record or a checkpoint, which makes the session's
   directory if it is missing *)
Save(p) ==
  /\ Free(p) /\ Attached(p) /\ dir = 0
  /\ MakeDirectory
  /\ UNCHANGED <<trash, deletes, record, serial, system, local, handles, call>>

-----------------------------------------------------------------------------
(* The steps of a call that is under way *)
CallStep(p) ==
  \/ OpenGuard(p) \/ GuardFails(p) \/ LockGuard(p)
  \/ Publish(p) \/ PublishFails(p) \/ Occupied(p)
  \/ ReadOwner(p) \/ ProbeAlive(p) \/ ProbeDead(p)
  \/ CompareOwner(p) \/ Unlink(p) \/ UnlinkFails(p)

ProcessStep(p) ==
  \/ Reenter(p)
  \/ \E existing \in BOOLEAN : Acquire(p, existing)
  \/ \E i \in Ids : Release(p, i)
  \/ Save(p)
  \/ Die(p) \/ Collect(p) \/ Spawn(p)

(* Nothing has to happen while no call is under way *)
Quiet ==
  /\ \A p \in Processes : call[p].pc = "idle"
  /\ UNCHANGED vars

Next ==
  \/ \E p \in Processes : CallStep(p) \/ ProcessStep(p)
  \/ Delete \/ Restore
  \/ Quiet

Spec == Init /\ [][Next]_vars

(* A call under way goes on: nothing between its steps waits, except for the
   owner guard, whose holders also go on *)
FairSpec == Spec /\ \A p \in Processes : WF_vars(CallStep(p))

-----------------------------------------------------------------------------
(* PROPERTIES *)

(* Every step of acquire and release leaves the files, the process table and
   the calls well typed *)
LeaseTypeOK ==
  /\ dir \in 0 .. Deletes + 1 /\ made \in 0 .. Deletes + 1
  /\ trash \in 0 .. Deletes + 1 /\ deletes \in 0 .. Deletes
  /\ record \in [Dirs -> OwnerRecord]
  /\ serial \in 0 .. MaxAcquires
  /\ os \in [Processes -> {"up", "zombie", "gone"}]
  /\ birth \in [Processes -> Nat]
  /\ local \in [Processes -> [id : Nat, refs : Nat]]
  /\ handles \in [Processes -> [Ids -> Nat]]
  /\ call \in [Processes -> Call]

(* "At most one live local agenthicc owner may attach to a given durable
   session ID at any time" (prd-171, section 2).  It is acquire and _release
   that have to ensure it, through .owner and its guard *)
OwnerExclusive ==
  \A p, q \in Processes : Attached(p) /\ Attached(q) => p = q

(* The record of an attached owner stays in place: neither a reclaim nor the
   late cleanup of another process removes or replaces it (_owner_guard:
   "late cleanup cannot remove a newer owner's record") *)
RecordNamesOwner ==
  \A p \in Processes :
    Attached(p) => Current.id = local[p].id /\ Current.pid = p

(* A process is attached until it has released as many handles as it took,
   however acquire, re-entry and repeated releases are mixed
   (_LocalLeaseState.references) *)
NestedReferences ==
  \A p \in Processes : \A i \in Ids :
    Attached(p) /\ local[p].id = i =>
      local[p].refs > 0 /\ handles[p][i] = local[p].refs

(* Whoever has the guard needs at most one reclaim: the second of acquire's
   three attempts to publish finds the path free *)
RetriesSuffice ==
  \A p \in Processes :
    call[p].pc = "publish" /\ call[p].try > 1 =>
      call[p].try = 2 /\ Current = NoRecord

(* The file protocol implements the lease that takes single steps *)
Ownership == INSTANCE OwnerLease
  WITH Leases <- Ids, owner <- Current.id,
       attached <- {local[p].id : p \in {q \in Processes : Attached(q)}}
OwnershipSpec == Ownership!Spec

(* An acquire or release that has begun ends, in whatever way, even if the
   session is deleted meanwhile: the retry loop of acquire is bounded and
   owners of the guard do not wait for anything *)
CallsSettle ==
  \A p \in Processes : call[p].pc # "idle" ~> call[p].pc = "idle"
=============================================================================
