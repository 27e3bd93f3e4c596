----------------------------- MODULE RegistryLog -----------------------------
(***************************************************************************)
(* The log of the background-session registry and the index derived from   *)
(* it (background/store.py and index.py).  events.jsonl is the authority:  *)
(* a writer appends one line under registry.lock.  index.sqlite3 holds the *)
(* records as of some position of the log; every process that reads or     *)
(* writes first brings it up to the log, and remembers in memory the       *)
(* fingerprint of the log it last saw applied.  Readers take no lock.      *)
(*                                                                         *)
(* A process may die at any step, in the middle of an append also, which   *)
(* leaves a torn last line.  The whole system may go down; then a line     *)
(* that was not synced, and the latest transactions of the index, which    *)
(* are not synced, may be lost.                                            *)
(*                                                                         *)
(* Sizes are counted in halves of a line, so that a torn line has a size   *)
(* of its own.  The log is about one session, whose record is the updates  *)
(* it has seen and its latest heartbeat.  The log is never rotated, and an  *)
(* index that cannot be read is the absent one.                            *)
(***************************************************************************)
EXTENDS Integers, Sequences, FiniteSets

CONSTANTS
  NoOne,       \* the absent process
  Processes,
  MaxWrites,   \* bound on the lines that are written
  MaxDeaths,   \* bound on the processes that die
  MaxOutages   \* bound on the times the whole system goes down

ASSUME RegistryAssumption ==
  /\ NoOne \notin Processes
  /\ MaxWrites \in Nat /\ MaxDeaths \in Nat /\ MaxOutages \in Nat

VARIABLES
  log,        \* the complete lines of events.jsonl
  torn,       \* an incomplete line follows them
  synced,     \* the complete lines that are on disk
  mtime,      \* modification time of events.jsonl
  index,      \* what index.sqlite3 holds
  durable,    \* the part of its history that is on disk
  lock,       \* the process with registry.lock
  txn,        \* the process with a write transaction on the index
  proc,       \* local state of each process
  written,    \* identity of the latest event
  acked,      \* the events whose append returned
  deaths, outages

file == <<log, torn, synced, mtime>>
vars == <<file, index, durable, lock, txn, proc, written, acked, deaths, outages>>

-----------------------------------------------------------------------------
(* Events and records *)

Ids == 1 .. MaxWrites
Line == [id : 0 .. MaxWrites, seq : Nat, beat : BOOLEAN]

(* A complete line that does not decode *)
Garbage == [id |-> 0, seq |-> 0, beat |-> FALSE]

NoRecord == [updates |-> << >>, active |-> 0]

(* _EventFolder: a heartbeat is put off until the next other event, or the end *)
Finish(folder) ==
  IF folder.beat = 0 THEN folder.record
                     ELSE [folder.record EXCEPT !.active = folder.beat]

Apply(folder, line) ==
  CASE line = Garbage -> folder
    [] line.beat -> [folder EXCEPT !.beat = line.id]
    [] OTHER ->
         [record |-> [Finish(folder) EXCEPT !.updates = Append(@, line.id)],
          beat |-> 0]

(* The folder after each of the lines, and the record it makes of them all *)
Folders(record, lines) ==
  LET f[n \in 0 .. Len(lines)] ==
        IF n = 0 THEN [record |-> record, beat |-> 0] ELSE Apply(f[n - 1], lines[n])
  IN f

Folded(record, lines) == Finish(Folders(record, lines)[Len(lines)])

(* _apply_event: one event, whatever it is *)
After(record, line) ==
  CASE line = Garbage -> record
    [] line.beat -> [record EXCEPT !.active = line.id]
    [] OTHER -> [record EXCEPT !.updates = Append(@, line.id)]

(* The record after each of the lines, every event applied in order *)
Records(lines) ==
  LET f[n \in 0 .. Len(lines)] ==
        IF n = 0 THEN NoRecord ELSE After(f[n - 1], lines[n])
  IN f

RecordOf(lines) == Records(lines)[Len(lines)]

-----------------------------------------------------------------------------
(* The file and the index *)

Size(lines, partial) == 2 * Len(lines) + (IF partial THEN 1 ELSE 0)

Fingerprints == [size : Nat, mtime : Nat]

Fingerprint == [size |-> Size(log, torn), mtime |-> mtime]

(* Nothing applied yet; also what a registry without a file looks like, whose
   first line gives the file an identity *)
NoPrint == [size |-> 0, mtime |-> 0]

NoIndex == [offset |-> 0, mtime |-> 0, seq |-> 0, record |-> NoRecord]

(* IndexState, compared with a fingerprint *)
StateIs(print) == print = [size |-> 2 * index.offset, mtime |-> index.mtime]

(* A tail that is read from an index ahead of the log *)
TailApplicableAlways(print) == index # NoIndex

TailApplicable(print) ==
  /\ index # NoIndex /\ 2 * index.offset <= print.size
  /\ 2 * index.offset = print.size => index.mtime = print.mtime

TailFrom(position) == SubSeq(log, position + 1, Len(log))

(* The end of the last line that decodes, where a rebuild ends *)
LastEvent(lines) ==
  CHOOSE n \in 0 .. Len(lines) :
    /\ n > 0 => lines[n] # Garbage
    /\ \A i \in n + 1 .. Len(lines) : lines[i] = Garbage

LastSeq(lines, seq) ==
  LET n == LastEvent(lines) IN IF n = 0 THEN seq ELSE lines[n].seq

(* The sequence numbers go on from the position of the index *)
Contiguous(lines, seq) ==
  \A i \in DOMAIN lines :
    LET before == LastSeq(SubSeq(lines, 1, i - 1), seq)
    IN lines[i] # Garbage => /\ lines[i].seq > before
                             /\ before > 0 => lines[i].seq = before + 1

-----------------------------------------------------------------------------
(* Processes *)

PC == {"idle", "stat", "state", "begin", "tail", "rebuild", "get",
       "truncate", "truncated", "write", "fsync", "own", "release"}

(* What the index is brought up for: a read, an append, or the line that was
   just appended *)
Purpose == {"read", "before", "after"}

ProcessState ==
  [pc : PC, purpose : Purpose,
   print : Fingerprints,    \* of the log as it was found
   floor : SUBSET Ids,      \* the events a reader has to see
   applied : Fingerprints, seq : Nat, partial : BOOLEAN,   \* _applied
   id : 0 .. MaxWrites]     \* the event that is appended

Fresh ==
  [pc |-> "idle", purpose |-> "read", print |-> NoPrint, floor |-> {},
   applied |-> NoPrint, seq |-> 0, partial |-> FALSE, id |-> 0]

At(p, pc) == proc[p].pc = pc

Goto(p, pc) == proc' = [proc EXCEPT ![p].pc = pc]

(* The events a reader that starts now has to see *)
Complete == {log[i].id : i \in DOMAIN log} \ {0}

(* A writer that does not look for a torn line *)
SyncedUncut(p, partial) ==
  CASE proc[p].purpose = "read" -> "get"
    [] proc[p].purpose = "before" -> "write"
    [] OTHER -> "release"

(* _sync is done *)
Synced(p, partial) ==
  CASE proc[p].purpose = "read" -> "get"
    [] proc[p].purpose = "before" -> IF partial THEN "truncate" ELSE "write"
    [] OTHER -> "release"

(* _remember *)
Remember(p, print, seq, partial) ==
  proc' = [proc EXCEPT ![p].applied = print, ![p].seq = seq,
                       ![p].partial = partial, ![p].print = NoPrint,
                       ![p].pc = Synced(p, partial)]

Init ==
  /\ log = << >> /\ torn = FALSE /\ synced = 0 /\ mtime = 0
  /\ index = NoIndex /\ durable = NoIndex
  /\ lock = NoOne /\ txn = NoOne
  /\ proc = [p \in Processes |-> Fresh]
  /\ written = 0 /\ acked = {} /\ deaths = 0 /\ outages = 0

-----------------------------------------------------------------------------
(* _sync *)

Read(p) ==
  /\ At(p, "idle")
  /\ proc' = [proc EXCEPT ![p].pc = "stat", ![p].purpose = "read",
                          ![p].floor = Complete]
  /\ UNCHANGED <<file, index, durable, lock, txn, written, acked, deaths, outages>>

(* A process that trusts what it once applied *)
StatTrusting(p) ==
  /\ At(p, "stat")
  /\ proc' = [proc EXCEPT
       ![p].print = IF proc[p].applied # NoPrint THEN NoPrint ELSE Fingerprint,
       ![p].pc = IF proc[p].applied # NoPrint
                 THEN Synced(p, proc[p].partial) ELSE "state"]
  /\ UNCHANGED <<file, index, durable, lock, txn, written, acked, deaths, outages>>

Stat(p) ==
  /\ At(p, "stat")
  /\ proc' = [proc EXCEPT
       ![p].print = IF proc[p].applied = Fingerprint THEN NoPrint ELSE Fingerprint,
       ![p].pc = IF proc[p].applied = Fingerprint
                 THEN Synced(p, proc[p].partial) ELSE "state"]
  /\ UNCHANGED <<file, index, durable, lock, txn, written, acked, deaths, outages>>

(* Another process may have brought the index up *)
State(p) ==
  /\ At(p, "state")
  /\ IF index # NoIndex /\ StateIs(proc[p].print)
     THEN Remember(p, proc[p].print, index.seq, FALSE)
     ELSE Goto(p, "begin")
  /\ UNCHANGED <<file, index, durable, lock, txn, written, acked, deaths, outages>>

(* BEGIN IMMEDIATE, and the state again *)
Begin(p) ==
  /\ At(p, "begin") /\ txn = NoOne
  /\ IF index # NoIndex /\ StateIs(proc[p].print)
     THEN Remember(p, proc[p].print, index.seq, FALSE) /\ UNCHANGED txn
     ELSE /\ txn' = p
          /\ Goto(p, IF TailApplicable(proc[p].print) THEN "tail" ELSE "rebuild")
  /\ UNCHANGED <<file, index, durable, lock, written, acked, deaths, outages>>

(* _apply_tail: the lines are those of now, the fingerprint is older *)
ApplyTail(p) ==
  LET lines == TailFrom(index.offset)
      seq == LastSeq(lines, index.seq)
  IN /\ At(p, "tail")
     /\ IF Contiguous(lines, index.seq)
        THEN /\ index' = [offset |-> Len(log), mtime |-> proc[p].print.mtime,
                          seq |-> seq, record |-> Folded(index.record, lines)]
             /\ txn' = NoOne
             /\ Remember(p, proc[p].print, seq, torn)
        ELSE Goto(p, "rebuild") /\ UNCHANGED <<index, txn>>
     /\ UNCHANGED <<file, durable, lock, written, acked, deaths, outages>>

Rebuild(p) ==
  /\ At(p, "rebuild")
  /\ index' = [offset |-> LastEvent(log), mtime |-> proc[p].print.mtime,
               seq |-> LastSeq(log, 0), record |-> Folded(NoRecord, log)]
  /\ txn' = NoOne
  /\ Remember(p, proc[p].print, LastSeq(log, 0),
              2 * LastEvent(log) < proc[p].print.size)
  /\ UNCHANGED <<file, durable, lock, written, acked, deaths, outages>>

(* The index is locked for too long: a read fails, an append fails before it
   has written anything, and one that has written leaves the rest to others *)
IndexBusy(p) ==
  /\ proc[p].pc \in {"begin", "truncate", "own"} /\ txn \notin {NoOne, p}
  /\ IF At(p, "own") \/ proc[p].purpose = "after"
     THEN /\ proc' = [proc EXCEPT ![p].applied = NoPrint, ![p].print = NoPrint,
                                  ![p].pc = "release"]
          /\ UNCHANGED lock
     ELSE /\ proc' = [proc EXCEPT ![p].pc = "idle", ![p].print = NoPrint,
                                  ![p].floor = {}]
          /\ lock' = IF lock = p THEN NoOne ELSE lock
  /\ UNCHANGED <<file, index, durable, txn, written, acked, deaths, outages>>

(* The rows are read after the index was brought up *)
Get(p) ==
  /\ At(p, "get")
  /\ proc' = [proc EXCEPT ![p].pc = "idle", ![p].floor = {}]
  /\ UNCHANGED <<file, index, durable, lock, txn, written, acked, deaths, outages>>

-----------------------------------------------------------------------------
(* _append *)

Lock(p) ==
  /\ At(p, "idle") /\ lock = NoOne /\ written < MaxWrites
  /\ lock' = p
  /\ proc' = [proc EXCEPT ![p].pc = "stat", ![p].purpose = "before"]
  /\ UNCHANGED <<file, index, durable, txn, written, acked, deaths, outages>>

(* _truncate_partial_tail: the file is cut where the index ends.  There is an
   index, since the sync before has just written one *)
Truncate(p) ==
  /\ At(p, "truncate") /\ txn = NoOne
  /\ txn' = p
  /\ log' = SubSeq(log, 1, index.offset) /\ torn' = FALSE
  /\ mtime' = mtime + 1
  /\ Goto(p, "truncated")
  /\ UNCHANGED <<synced, index, durable, lock, written, acked, deaths, outages>>

Truncated(p) ==
  /\ At(p, "truncated")
  /\ synced' = Len(log)
  /\ index' = [index EXCEPT !.mtime = mtime]
  /\ txn' = NoOne
  /\ proc' = [proc EXCEPT ![p].applied = Fingerprint, ![p].seq = index.seq,
                          ![p].partial = FALSE, ![p].pc = "write"]
  /\ UNCHANGED <<log, torn, mtime, durable, lock, written, acked, deaths, outages>>

(* The line, behind whatever is there; it is seen before it is on disk.  Only
   a session that was created has a heartbeat *)
Write(p) ==
  /\ At(p, "write") /\ written < MaxWrites
  /\ \E beat \in BOOLEAN :
       /\ beat => RecordOf(log) # NoRecord
       /\ log' = Append(log, IF torn THEN Garbage
                             ELSE [id |-> written + 1, seq |-> proc[p].seq + 1,
                                   beat |-> beat])
  /\ torn' = FALSE /\ mtime' = mtime + 1
  /\ written' = written + 1
  /\ proc' = [proc EXCEPT ![p].pc = "fsync", ![p].id = written + 1]
  /\ UNCHANGED <<synced, index, durable, lock, txn, acked, deaths, outages>>

(* The writer dies halfway *)
WriteTorn(p) ==
  /\ At(p, "write") /\ deaths < MaxDeaths /\ ~torn
  /\ torn' = TRUE /\ mtime' = mtime + 1 /\ deaths' = deaths + 1
  /\ proc' = [proc EXCEPT ![p] = Fresh] /\ lock' = NoOne
  /\ UNCHANGED <<log, synced, index, durable, txn, written, acked, outages>>

Fsync(p) ==
  /\ At(p, "fsync")
  /\ synced' = Len(log)
  /\ Goto(p, "own")
  /\ UNCHANGED <<log, torn, mtime, index, durable, lock, txn, written, acked,
                 deaths, outages>>

(* A writer that does not remember the sequence number it took *)
OwnAppendForgetful(p) ==
  /\ At(p, "own") /\ txn = NoOne
  /\ index' = [offset |-> Len(log), mtime |-> mtime, seq |-> log[Len(log)].seq,
                record |-> Folded(index.record, <<log[Len(log)]>>)]
  /\ proc' = [proc EXCEPT ![p].applied = Fingerprint, ![p].partial = FALSE,
                          ![p].pc = "release"]
  /\ UNCHANGED <<file, durable, lock, txn, written, acked, deaths, outages>>

(* _index_own_append: the log has grown by this line from where the index is,
   else the index is brought up as ever *)
OwnAppend(p) ==
  LET line == log[Len(log)]
      grown == Fingerprint.size = proc[p].applied.size + 2
  IN /\ At(p, "own") /\ txn = NoOne
     /\ IF proc[p].applied # NoPrint /\ grown /\ index # NoIndex
           /\ StateIs(proc[p].applied)
        THEN /\ index' = [offset |-> Len(log), mtime |-> mtime, seq |-> line.seq,
                          record |-> Folded(index.record, <<line>>)]
             /\ proc' = [proc EXCEPT ![p].applied = Fingerprint,
                                     ![p].seq = line.seq, ![p].partial = FALSE,
                                     ![p].pc = "release"]
        ELSE /\ proc' = [proc EXCEPT ![p].pc = "stat", ![p].purpose = "after"]
             /\ UNCHANGED index
     /\ UNCHANGED <<file, durable, lock, txn, written, acked, deaths, outages>>

Release(p) ==
  /\ At(p, "release")
  /\ lock' = NoOne
  /\ acked' = acked \cup {proc[p].id}
  /\ proc' = [proc EXCEPT ![p].pc = "idle", ![p].id = 0, ![p].purpose = "read"]
  /\ UNCHANGED <<file, index, durable, txn, written, deaths, outages>>

-----------------------------------------------------------------------------
(* Failures *)

(* A process dies: its locks are free and its transaction is rolled back *)
Die(p) ==
  /\ ~At(p, "idle") /\ deaths < MaxDeaths
  /\ deaths' = deaths + 1
  /\ proc' = [proc EXCEPT ![p] = Fresh]
  /\ lock' = IF lock = p THEN NoOne ELSE lock
  /\ txn' = IF txn = p THEN NoOne ELSE txn
  /\ UNCHANGED <<file, index, durable, written, acked, outages>>

(* SQLite writes its transactions to disk some time later *)
Checkpoint ==
  /\ durable' = index
  /\ UNCHANGED <<file, index, lock, txn, proc, written, acked, deaths, outages>>

(* The system goes down: the file keeps what was synced, and what was not may
   be there, be lost or be torn; the index falls back, or its file is lost *)
SystemDown ==
  /\ outages < MaxOutages
  /\ outages' = outages + 1
  /\ \E kept \in synced .. Len(log) :
       /\ log' = SubSeq(log, 1, kept)
       /\ torn' \in {torn, kept < Len(log)}
       /\ synced' = kept
  /\ index' \in {index, durable, NoIndex}
  /\ durable' = index'
  /\ proc' = [p \in Processes |-> Fresh]
  /\ lock' = NoOne /\ txn' = NoOne
  /\ UNCHANGED <<mtime, written, acked, deaths>>

-----------------------------------------------------------------------------

Sync(p) == Stat(p) \/ State(p) \/ Begin(p) \/ ApplyTail(p) \/ Rebuild(p)

AppendStep(p) ==
  \/ Truncate(p) \/ Truncated(p) \/ Write(p) \/ Fsync(p) \/ OwnAppend(p)
  \/ Release(p)

Next ==
  \/ \E p \in Processes :
       \/ Read(p) \/ Lock(p) \/ Get(p) \/ Sync(p) \/ AppendStep(p)
       \/ IndexBusy(p) \/ WriteTorn(p) \/ Die(p)
  \/ Checkpoint
  \/ SystemDown

Spec == Init /\ [][Next]_vars
-----------------------------------------------------------------------------
(* Properties *)

(* Types, and who holds what: registry.lock is held from before the sync of
   an append to its end, the index is written in transactions *)
RegistryTypeOK ==
  /\ log \in Seq(Line) /\ torn \in BOOLEAN
  /\ synced \in 0 .. Len(log) /\ mtime \in Nat
  /\ written \in 0 .. MaxWrites /\ acked \subseteq Ids
  /\ deaths \in 0 .. MaxDeaths /\ outages \in 0 .. MaxOutages
  /\ lock \in Processes \cup {NoOne} /\ txn \in Processes \cup {NoOne}
  /\ proc \in [Processes -> ProcessState]
  /\ \A p \in Processes :
       /\ proc[p].pc \in {"tail", "rebuild", "truncated"} => txn = p
       /\ proc[p].pc # "idle" /\ (proc[p].purpose # "read") => lock = p

(* "events.jsonl remains the authority" (index.py): wherever the index ends
   in the log, it holds the record that the lines up to there make, whether
   it was rebuilt, caught up by a reader or by a writer, in any order *)
IndexFollowsLog ==
  index.offset <= Len(log) =>
    index.record = RecordOf(SubSeq(log, 1, index.offset))

(* An event whose append returned is in the log for good, torn lines cut and
   systems gone down meanwhile (_append_locked) *)
AcknowledgedKept == acked \subseteq Complete

(* The sequence numbers count the events: a writer takes the next one from
   what it remembers of the index (_append_locked) *)
SequenceUnbroken == \A i \in DOMAIN log : log[i] # Garbage => log[i].seq = i

(* A reader sees every event that was complete when it began, by whatever
   process it was written and whoever brought the index up (_sync) *)
ReadsFresh ==
  \A p \in Processes :
    proc[p].pc = "get" =>
      \A id \in proc[p].floor \cap Complete :
        \E i \in 1 .. index.offset : i <= Len(log) /\ log[i].id = id
=============================================================================
