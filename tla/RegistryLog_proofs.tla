-------------------------- MODULE RegistryLog_proofs --------------------------
(***************************************************************************)
(* The registry's log for any number of processes, deaths and outages: an  *)
(* event whose append returned stays, the sequence numbers count the       *)
(* events, and a reader sees what was there when it began.  And for any    *)
(* number of processes and deaths, until the system goes down a second     *)
(* time, the index holds the record that the log makes up to its position. *)
(***************************************************************************)
EXTENDS RegistryLog, SequenceTheorems, WellFoundedInduction, TLAPS

(* Every line is an event, in the order of the sequence numbers *)
Unbroken ==
  /\ \A i \in 1 .. Len(log) : log[i].id \in 1 .. written /\ log[i].seq = i
  /\ Len(log) <= written /\ written <= mtime
  /\ torn => mtime > 0

(* An index that was written at some time *)
IndexOK(x) ==
  /\ x = [offset |-> x.offset, mtime |-> x.mtime, seq |-> x.seq, record |-> x.record]
  /\ x.offset \in 0 .. written /\ x.seq = x.offset /\ x.mtime \in 0 .. mtime

Kept == {log[i].id : i \in 1 .. synced}

(* What a process knows of the file and of the index *)
Syncing == {"state", "begin", "tail", "rebuild"}

Knows(p) ==
  LET me == proc[p]
  IN /\ me.print.mtime <= mtime /\ me.applied.mtime <= mtime
     /\ me.print.size <= 2 * Len(log) + 1
     /\ me.seq <= written /\ (me.partial \/ me.print.size > 0 => mtime > 0)
     /\ me.applied = Fingerprint =>
          index.offset = Len(log) /\ me.seq = Len(log) /\ me.partial = torn
     /\ me.pc = "tail" => 2 * index.offset <= me.print.size

Appends(p) ==
  LET me == proc[p]
  IN /\ me.pc = "idle" => me.purpose # "after"
     /\ me.pc = "get" => me.purpose = "read"
     /\ me.pc \in {"truncate", "truncated", "write", "fsync", "own"} => me.purpose = "before"
     /\ me.pc = "release" => me.purpose # "read"
     /\ me.pc \in Syncing /\ me.purpose # "read" => me.print = Fingerprint
     /\ me.pc \in {"truncate", "truncated", "write"} => index.offset = Len(log)
     /\ me.pc = "truncated" => ~torn
     /\ me.pc = "write" => ~torn /\ me.seq = Len(log)
     /\ me.pc \in {"fsync", "own"} => ~torn
     /\ me.pc = "fsync" => me.id \in Complete
     /\ me.pc \in {"own", "release"} \/ me.purpose = "after" => me.id \in Kept

(* What a reader has to see is there, in what it brings the index up to *)
Reads(p) ==
  LET me == proc[p]
  IN /\ me.floor \subseteq Complete
     /\ me.purpose = "read" /\ me.pc \in {"state", "begin"} =>
          \A id \in me.floor : \E i \in 1 .. Len(log) : log[i].id = id /\ 2 * i <= me.print.size
     /\ me.pc = "get" =>
          \A id \in me.floor : \E i \in 1 .. Len(log) : log[i].id = id /\ i <= index.offset

LogInv ==
  /\ RegistryTypeOK /\ Unbroken /\ IndexOK(index) /\ IndexOK(durable)
  /\ acked \subseteq Kept
  /\ \A p \in Processes : Knows(p) /\ Appends(p) /\ Reads(p)

-----------------------------------------------------------------------------
(* The log *)

(* The facts about the numbers that every step needs *)
LEMMA Numbers ==
  ASSUME LogInv
  PROVE  /\ Len(log) \in Nat /\ mtime \in Nat /\ written \in Nat /\ synced \in 0 .. Len(log)
         /\ MaxWrites \in Nat /\ written <= MaxWrites
         /\ log \in Seq(Line) /\ DOMAIN log = 1 .. Len(log) /\ torn \in BOOLEAN
         /\ \A i \in 1 .. Len(log) : log[i] \in Line
         /\ index.offset \in Nat /\ index.seq = index.offset /\ index.mtime \in Nat
         /\ index.mtime <= mtime /\ index.offset <= written
<1> /\ log \in Seq(Line) /\ mtime \in Nat /\ written \in 0 .. MaxWrites
    /\ synced \in 0 .. Len(log) /\ torn \in BOOLEAN /\ MaxWrites \in Nat /\ IndexOK(index)
  BY RegistryAssumption DEF LogInv, RegistryTypeOK
<1>1. Len(log) \in Nat /\ DOMAIN log = 1 .. Len(log) /\ \A i \in 1 .. Len(log) : log[i] \in Line
  BY LenProperties, ElementOfSeq
<1>2. written \in Nat /\ written <= MaxWrites
  OBVIOUS
<1>3. /\ index.offset \in Nat /\ index.seq = index.offset /\ index.mtime \in Nat
      /\ index.mtime <= mtime /\ index.offset <= written
  BY <1>2 DEF IndexOK
<1> QED
  BY <1>1, <1>2, <1>3

LEMMA CompleteIs ==
  ASSUME LogInv
  PROVE  /\ Complete = {log[i].id : i \in 1 .. Len(log)} /\ Complete \subseteq Ids
         /\ Kept \subseteq Complete
         /\ \A i \in 1 .. Len(log) : log[i] # Garbage
<1>1. \A i \in 1 .. Len(log) : log[i].id \in 1 .. written
  BY DEF LogInv, Unbroken
<1>2. \A i \in 1 .. Len(log) : log[i].id \in Ids /\ log[i].id # 0 /\ log[i] # Garbage
  BY <1>1, Numbers DEF Ids, Garbage
<1>3. Complete = {log[i].id : i \in 1 .. Len(log)}
  BY <1>2, Numbers DEF Complete
<1> QED
  BY <1>2, <1>3, Numbers DEF Kept

(* Without garbage, the last line is the last event *)
LEMMA LastIsLast ==
  ASSUME NEW lines \in Seq(Line), \A i \in 1 .. Len(lines) : lines[i] # Garbage
  PROVE  LastEvent(lines) = Len(lines)
<1> DEFINE P(n) == /\ n > 0 => lines[n] # Garbage
                   /\ \A i \in n + 1 .. Len(lines) : lines[i] = Garbage
<1>1. Len(lines) \in Nat
  BY LenProperties
<1>2. Len(lines) \in 0 .. Len(lines) /\ P(Len(lines))
  BY <1>1
<1>3. ASSUME NEW n \in 0 .. Len(lines), P(n) PROVE n = Len(lines)
  <2>1. CASE n < Len(lines)
    BY <1>1, <1>3, <2>1
  <2> QED
    BY <1>1, <2>1
<1> QED
  BY <1>2, <1>3 DEF LastEvent

(* A tail of the log has its lines from there on *)
LEMMA TailIs ==
  ASSUME LogInv, NEW n \in 0 .. Len(log)
  PROVE  /\ TailFrom(n) \in Seq(Line) /\ Len(TailFrom(n)) = Len(log) - n
         /\ n + Len(TailFrom(n)) = Len(log)
         /\ \A i \in 1 .. Len(log) - n : TailFrom(n)[i] = log[n + i]
<1> DEFINE tail == TailFrom(n)
<1> Len(log) \in Nat
  BY Numbers
<1>1. \A i \in n + 1 .. Len(log) : log[i] \in Line
  BY Numbers
<1>2. /\ tail \in Seq(Line)
      /\ Len(tail) = IF n + 1 <= Len(log) THEN Len(log) - (n + 1) + 1 ELSE 0
      /\ \A i \in 1 .. Len(log) - (n + 1) + 1 : tail[i] = log[(n + 1) + i - 1]
  BY <1>1, SubSeqProperties DEF TailFrom
<1> HIDE DEF tail
<1>3. Len(tail) = Len(log) - n
  BY <1>2
<1>4. tail \in Seq(Line) /\ \A i \in 1 .. Len(log) - n : tail[i] = log[n + i]
  BY <1>2
<1> QED
  BY <1>3, <1>4 DEF tail

(* The last sequence number of the log, or of a tail of it, is its length *)
LEMMA LastSeqIs ==
  ASSUME LogInv
  PROVE  /\ LastEvent(log) = Len(log) /\ LastSeq(log, 0) = Len(log)
         /\ \A n \in 0 .. Len(log) : LastSeq(TailFrom(n), n) = Len(log)
<1> /\ log \in Seq(Line) /\ Len(log) \in Nat
    /\ \A i \in 1 .. Len(log) : log[i] # Garbage /\ log[i] \in Line /\ log[i].seq = i
  BY Numbers, CompleteIs DEF LogInv, Unbroken
<1>1. LastEvent(log) = Len(log)
  BY LastIsLast
<1>2. LastSeq(log, 0) = Len(log)
  BY <1>1 DEF LastSeq
<1>3. ASSUME NEW n \in 0 .. Len(log)
      PROVE  LastSeq(TailFrom(n), n) = Len(log)
  <2> DEFINE tail == TailFrom(n)
  <2>1. /\ tail \in Seq(Line) /\ Len(tail) = Len(log) - n
        /\ \A i \in 1 .. Len(log) - n : tail[i] = log[n + i]
    BY TailIs
  <2> HIDE DEF tail
  <2>2. ASSUME NEW i \in 1 .. Len(tail)
        PROVE  tail[i] # Garbage
    <3>1. n + i \in 1 .. Len(log) /\ tail[i] = log[n + i]
      BY <2>1
    <3> QED
      BY <3>1
  <2>3. LastEvent(tail) = Len(log) - n
    BY <2>1, <2>2, LastIsLast
  <2>4. LastSeq(tail, n) = Len(log)
    BY <2>1, <2>3 DEF LastSeq
  <2> QED
    BY <2>4 DEF tail
<1> QED
  BY <1>1, <1>2, <1>3

-----------------------------------------------------------------------------
(* What a step of one process leaves to the others *)

StepOf(p) ==
  /\ \A q \in Processes \ {p} : proc'[q] = proc[q]
  /\ \/ UNCHANGED <<log, torn, mtime, written>>
     \/ /\ lock = p /\ mtime' = mtime + 1 /\ written' \in {written, written + 1}
        /\ log' = log \/ \E line \in Line : log' = Append(log, line)
        /\ UNCHANGED index
  /\ synced' \in {synced, Len(log)}
  /\ index'.offset \in {index.offset, Len(log)}
  /\ index'.offset # index.offset => txn \in {p, NoOne}
  /\ \/ lock' = lock
     \/ lock \in {p, NoOne} /\ lock' \in {p, NoOne}
  /\ \/ txn' = txn
     \/ txn \in {p, NoOne} /\ txn' \in {p, NoOne}

LEMMA LogGrows ==
  ASSUME LogInv, NEW p \in Processes, StepOf(p)
  PROVE  /\ log' \in Seq(Line) /\ Len(log') \in Nat /\ Len(log) <= Len(log')
         /\ \A i \in 1 .. Len(log) : log'[i] = log[i]
         /\ synced' \in synced .. Len(log)
         /\ Complete \subseteq Complete' /\ Kept \subseteq Kept'
<1> /\ log \in Seq(Line) /\ Len(log) \in Nat /\ synced \in 0 .. Len(log) /\ DOMAIN log = 1 .. Len(log)
  BY Numbers
<1>2. ASSUME NEW line \in Line, log' = Append(log, line)
      PROVE  /\ log' \in Seq(Line) /\ Len(log') = Len(log) + 1
             /\ \A i \in 1 .. Len(log) : log'[i] = log[i]
  BY <1>2, AppendProperties
<1>3. /\ log' \in Seq(Line) /\ Len(log') \in Nat /\ Len(log) <= Len(log')
      /\ \A i \in 1 .. Len(log) : log'[i] = log[i]
  BY <1>2 DEF StepOf
<1>4. synced' \in synced .. Len(log)
  BY DEF StepOf
<1>5. Complete \subseteq Complete'
  <2>1. DOMAIN log' = 1 .. Len(log')
    BY <1>3, LenProperties
  <2> QED
    BY <1>3, <2>1 DEF Complete
<1>6. Kept \subseteq Kept'
  BY <1>3, <1>4 DEF Kept
<1> QED
  BY <1>3, <1>4, <1>5, <1>6

LEMMA OthersKnow ==
  ASSUME LogInv, NEW p \in Processes, StepOf(p), NEW q \in Processes \ {p}
  PROVE  Knows(q)'
<1> DEFINE me == proc[q]
<1> /\ proc'[q] = me /\ me \in ProcessState /\ Knows(q)
    /\ Len(log) \in Nat /\ Len(log') \in Nat /\ Len(log) <= Len(log')
    /\ mtime \in Nat /\ written \in Nat /\ index.offset \in Nat
  BY Numbers, LogGrows DEF StepOf, LogInv, RegistryTypeOK
<1>1. /\ me.print.mtime \in Nat /\ me.print.size \in Nat /\ me.applied.mtime \in Nat
      /\ me.seq \in Nat
  BY DEF ProcessState, Fingerprints
<1>2. /\ mtime' \in Nat /\ mtime <= mtime' /\ written' \in Nat /\ written <= written'
  BY DEF StepOf
<1>3. /\ me.print.mtime <= mtime' /\ me.applied.mtime <= mtime'
      /\ me.print.size <= 2 * Len(log') + 1
      /\ me.seq <= written' /\ (me.partial \/ me.print.size > 0 => mtime' > 0)
  <2>1. /\ me.print.mtime <= mtime /\ me.applied.mtime <= mtime
        /\ me.print.size <= 2 * Len(log) + 1
        /\ me.seq <= written /\ (me.partial \/ me.print.size > 0 => mtime > 0)
    BY DEF Knows
  <2> HIDE DEF me
  <2>2. me.print.size <= 2 * Len(log') + 1
    BY <1>1, <2>1
  <2>3. me.print.mtime <= mtime' /\ me.applied.mtime <= mtime'
    BY <1>1, <1>2, <2>1
  <2>4. me.seq <= written'
    BY <1>1, <1>2, <2>1
  <2>5. mtime > 0 => mtime' > 0
    BY <1>2
  <2> QED
    BY <2>1, <2>2, <2>3, <2>4, <2>5
<1>4. me.applied = Fingerprint' =>
        index'.offset = Len(log') /\ me.seq = Len(log') /\ me.partial = torn'
  <2>1. CASE UNCHANGED <<log, torn, mtime>>
    <3>1. Fingerprint' = Fingerprint
      BY <2>1 DEF Fingerprint, Size
    <3> QED
      BY <2>1, <3>1 DEF Knows, StepOf
  <2>2. CASE mtime' = mtime + 1
    <3>1. me.applied.mtime # mtime'
      BY <1>1, <2>2 DEF Knows
    <3> QED
      BY <3>1 DEF Fingerprint
  <2> QED
    BY <2>1, <2>2 DEF StepOf
<1>5. me.pc = "tail" => 2 * index'.offset <= me.print.size
  <2>1. me.pc = "tail" => txn = q /\ q # NoOne
    BY RegistryAssumption DEF LogInv, RegistryTypeOK
  <2> QED
    BY <2>1 DEF Knows, StepOf
<1> HIDE DEF me
<1> QED
  BY <1>3, <1>4, <1>5 DEF Knows

LEMMA OthersAppend ==
  ASSUME LogInv, NEW p \in Processes, StepOf(p), NEW q \in Processes \ {p}
  PROVE  Appends(q)'
<1> DEFINE me == proc[q]
<1> /\ proc'[q] = me /\ Appends(q) /\ Kept \subseteq Kept' /\ Complete \subseteq Complete'
  BY LogGrows DEF StepOf, LogInv
<1>1. me.pc # "idle" /\ me.purpose # "read" => lock = q
  BY DEF LogInv, RegistryTypeOK
<1>2. lock = q => /\ UNCHANGED <<log, torn, mtime>>
                  /\ Fingerprint' = Fingerprint
                  /\ index.offset = Len(log) => index'.offset = Len(log')
  BY DEF StepOf, Fingerprint, Size
<1> HIDE DEF me
<1>3. /\ me.pc = "idle" => me.purpose # "after"
      /\ me.pc = "get" => me.purpose = "read"
      /\ me.pc \in {"truncate", "truncated", "write", "fsync", "own"} => me.purpose = "before"
      /\ me.pc = "release" => me.purpose # "read"
      /\ me.pc \in Syncing /\ me.purpose # "read" => me.print = Fingerprint
      /\ me.pc \in {"truncate", "truncated", "write"} => index.offset = Len(log)
      /\ me.pc = "truncated" => ~torn
      /\ me.pc = "write" => ~torn /\ me.seq = Len(log)
      /\ me.pc \in {"fsync", "own"} => ~torn
      /\ me.pc = "fsync" => me.id \in Complete
      /\ me.pc \in {"own", "release"} \/ me.purpose = "after" => me.id \in Kept
  BY DEF Appends, me
<1>4. me.pc \in {"truncate", "truncated", "write", "fsync", "own"} => lock = q
  BY <1>1, <1>3
<1>5. me.pc \in Syncing /\ me.purpose # "read" => me.print = Fingerprint'
  BY <1>1, <1>2, <1>3 DEF Syncing
<1>6. /\ me.pc \in {"truncate", "truncated", "write"} => index'.offset = Len(log')
      /\ me.pc = "truncated" => ~torn'
      /\ me.pc = "write" => ~torn' /\ me.seq = Len(log')
      /\ me.pc \in {"fsync", "own"} => ~torn'
  BY <1>2, <1>3, <1>4
<1>7. /\ me.pc = "fsync" => me.id \in Complete'
      /\ me.pc \in {"own", "release"} \/ me.purpose = "after" => me.id \in Kept'
  BY <1>3
<1> QED
  BY <1>3, <1>5, <1>6, <1>7 DEF Appends

LEMMA OthersRead ==
  ASSUME LogInv, NEW p \in Processes, StepOf(p), NEW q \in Processes \ {p}
  PROVE  Reads(q)'
<1> DEFINE me == proc[q]
<1> /\ proc'[q] = me /\ Reads(q) /\ Complete \subseteq Complete'
    /\ Len(log) \in Nat /\ Len(log') \in Nat /\ Len(log) <= Len(log')
    /\ \A i \in 1 .. Len(log) : log'[i] = log[i]
    /\ index'.offset \in {index.offset, Len(log)} /\ index.offset \in Nat
  BY LogGrows, Numbers DEF StepOf, LogInv
<1> HIDE DEF me
<1>1. me.floor \subseteq Complete'
  BY DEF Reads, me
<1>2. ASSUME me.purpose = "read" /\ me.pc \in {"state", "begin"}, NEW id \in me.floor
      PROVE  \E i \in 1 .. Len(log') : log'[i].id = id /\ 2 * i <= me.print.size
  <2>1. PICK i \in 1 .. Len(log) : log[i].id = id /\ 2 * i <= me.print.size
    BY <1>2 DEF Reads, me
  <2> QED
    BY <2>1
<1>3. ASSUME me.pc = "get", NEW id \in me.floor
      PROVE  \E i \in 1 .. Len(log') : log'[i].id = id /\ i <= index'.offset
  <2>1. PICK i \in 1 .. Len(log) : log[i].id = id /\ i <= index.offset
    BY <1>3 DEF Reads, me
  <2> QED
    BY <2>1
<1> QED
  BY <1>1, <1>2, <1>3 DEF Reads

-----------------------------------------------------------------------------
(* From what one process does to the whole state *)

(* What a step makes of the process that takes it *)
Itself(p) ==
  /\ proc' \in [Processes -> ProcessState]
  /\ Knows(p)' /\ Appends(p)' /\ Reads(p)'
  /\ proc'[p].pc \in {"tail", "rebuild", "truncated"} => txn' = p
  /\ proc'[p].pc # "idle" /\ proc'[p].purpose # "read" => lock' = p

LEMMA LocksTyped ==
  ASSUME LogInv, NEW p \in Processes, StepOf(p), Itself(p)
  PROVE  /\ lock' \in Processes \cup {NoOne} /\ txn' \in Processes \cup {NoOne}
         /\ \A q \in Processes :
              /\ proc'[q].pc \in {"tail", "rebuild", "truncated"} => txn' = q
              /\ proc'[q].pc # "idle" /\ (proc'[q].purpose # "read") => lock' = q
<1> NoOne \notin Processes /\ lock \in Processes \cup {NoOne} /\ txn \in Processes \cup {NoOne}
  BY RegistryAssumption DEF LogInv, RegistryTypeOK
<1>1. lock' \in Processes \cup {NoOne} /\ txn' \in Processes \cup {NoOne}
  BY DEF StepOf
<1>2. ASSUME NEW q \in Processes \ {p}
      PROVE  /\ proc'[q].pc \in {"tail", "rebuild", "truncated"} => txn' = q
             /\ proc'[q].pc # "idle" /\ (proc'[q].purpose # "read") => lock' = q
  <2>1. /\ proc[q].pc \in {"tail", "rebuild", "truncated"} => txn = q
        /\ proc[q].pc # "idle" /\ (proc[q].purpose # "read") => lock = q
    BY DEF LogInv, RegistryTypeOK
  <2>2. proc'[q] = proc[q] /\ (txn = q => txn' = q) /\ (lock = q => lock' = q)
    BY DEF StepOf
  <2> QED
    BY <2>1, <2>2
<1> QED
  BY <1>1, <1>2 DEF Itself

LEMMA Together ==
  ASSUME LogInv, NEW p \in Processes, StepOf(p), Itself(p),
         torn' \in BOOLEAN, written' <= MaxWrites,
         acked' \subseteq Kept', acked' \subseteq Ids,
         deaths' \in 0 .. MaxDeaths, outages' \in 0 .. MaxOutages,
         Unbroken', IndexOK(index)', IndexOK(durable)'
  PROVE  LogInv'
<1> /\ Len(log) \in Nat /\ mtime \in Nat /\ written \in Nat /\ synced \in 0 .. Len(log)
    /\ MaxWrites \in Nat
  BY Numbers
<1>1. /\ log' \in Seq(Line) /\ synced' \in 0 .. Len(log') /\ mtime' \in Nat
      /\ written' \in 0 .. MaxWrites
  <2>1. /\ log' \in Seq(Line) /\ Len(log') \in Nat /\ Len(log) <= Len(log')
        /\ synced' \in synced .. Len(log)
    BY LogGrows
  <2>2. mtime' \in Nat /\ written' \in Nat
    BY DEF StepOf
  <2> QED
    BY <2>1, <2>2
<1>2. RegistryTypeOK'
  BY <1>1, LocksTyped DEF RegistryTypeOK, Itself
<1>3. \A q \in Processes : Knows(q)' /\ Appends(q)' /\ Reads(q)'
  BY OthersKnow, OthersAppend, OthersRead DEF Itself
<1> QED
  BY <1>2, <1>3 DEF LogInv

(* A step that leaves the file as it is *)
LEMMA TogetherQuiet ==
  ASSUME LogInv, NEW p \in Processes, StepOf(p), Itself(p),
         UNCHANGED <<log, torn, mtime, written, durable, outages>>,
         acked' \subseteq acked \cup Kept, deaths' \in 0 .. MaxDeaths,
         IndexOK(index)'
  PROVE  LogInv'
<1>1. torn' \in BOOLEAN /\ written' <= MaxWrites /\ outages' \in 0 .. MaxOutages
  BY Numbers DEF LogInv, RegistryTypeOK
<1>2. acked' \subseteq Kept' /\ acked' \subseteq Ids
  <2>1. acked \subseteq Kept /\ Kept \subseteq Kept' /\ Kept \subseteq Ids
    BY LogGrows, CompleteIs DEF LogInv
  <2> QED
    BY <2>1
<1>3. Unbroken' /\ IndexOK(durable)'
  BY DEF LogInv, Unbroken, IndexOK
<1> QED
  BY <1>1, <1>2, <1>3, Together

LEMMA Moves ==
  ASSUME LogInv, NEW p \in Processes, NEW r \in ProcessState, proc' = [proc EXCEPT ![p] = r]
  PROVE  /\ proc' \in [Processes -> ProcessState] /\ proc'[p] = r
         /\ \A q \in Processes \ {p} : proc'[q] = proc[q]
BY DEF LogInv, RegistryTypeOK

(* A step of p that changes its own state, acked, deaths and the locks at most *)
LEMMA QuietStep ==
  ASSUME LogInv, NEW p \in Processes, \A q \in Processes \ {p} : proc'[q] = proc[q],
         UNCHANGED <<log, torn, mtime, written, synced, index>>,
         \/ lock' = lock
         \/ lock \in {p, NoOne} /\ lock' \in {p, NoOne},
         \/ txn' = txn
         \/ txn \in {p, NoOne} /\ txn' \in {p, NoOne}
  PROVE  StepOf(p) /\ Fingerprint' = Fingerprint /\ Complete' = Complete /\ Kept' = Kept
         /\ IndexOK(index)'
BY DEF StepOf, Fingerprint, Size, Complete, Kept, LogInv, IndexOK

LEMMA PrintTyped ==
  ASSUME LogInv
  PROVE  /\ Fingerprint \in Fingerprints /\ NoPrint \in Fingerprints
         /\ Fingerprint.mtime = mtime /\ Fingerprint.size = 2 * Len(log) + (IF torn THEN 1 ELSE 0)
         /\ NoPrint.mtime = 0 /\ NoPrint.size = 0
         /\ Fingerprint.size > 0 => mtime > 0
         /\ Fingerprint = NoPrint =>
              Len(log) = 0 /\ ~torn /\ mtime = 0 /\ written = 0 /\ index.offset = 0
<1> Len(log) \in Nat /\ mtime \in Nat /\ torn \in BOOLEAN /\ written \in Nat
    /\ index.offset \in Nat /\ index.offset <= written
  BY Numbers
<1>1. /\ Fingerprint.mtime = mtime /\ Fingerprint.size = 2 * Len(log) + (IF torn THEN 1 ELSE 0)
      /\ NoPrint.mtime = 0 /\ NoPrint.size = 0 /\ NoPrint \in Fingerprints
  BY DEF Fingerprint, Size, NoPrint, Fingerprints
<1>2. Fingerprint \in Fingerprints
  BY DEF Fingerprint, Size, Fingerprints
<1>4. Fingerprint.size > 0 => mtime > 0
  <2>1. Fingerprint.size > 0 => Len(log) > 0 \/ torn
    BY <1>1
  <2> QED
    BY <2>1 DEF LogInv, Unbroken
<1>3. ASSUME Fingerprint = NoPrint
      PROVE  Len(log) = 0 /\ ~torn /\ mtime = 0 /\ written = 0 /\ index.offset = 0
  <2>1. mtime = 0 /\ 2 * Len(log) + (IF torn THEN 1 ELSE 0) = 0
    BY <1>1, <1>3
  <2>2. Len(log) = 0 /\ ~torn
    BY <2>1
  <2>3. written = 0
    BY <2>1 DEF LogInv, Unbroken
  <2> QED
    BY <2>1, <2>2, <2>3
<1> QED
  BY <1>1, <1>2, <1>3, <1>4

-----------------------------------------------------------------------------
(* _sync *)

(* A process whose sync is done: it has the position of the log as it found it *)
LEMMA SyncedItself ==
  ASSUME LogInv, NEW p \in Processes, NEW r \in ProcessState, proc' = [proc EXCEPT ![p] = r],
         proc[p].pc \in Syncing \cup {"stat"},
         UNCHANGED <<log, torn, mtime, written, synced, lock>>,
         r.purpose = proc[p].purpose, r.floor = proc[p].floor, r.id = proc[p].id,
         r.print = NoPrint, r.pc = Synced(p, r.partial),
         r.applied.mtime <= mtime, r.seq <= written, r.partial => mtime > 0,
         r.applied = Fingerprint =>
           index'.offset = Len(log) /\ r.seq = Len(log) /\ r.partial = torn,
         r.purpose # "read" => r.applied = Fingerprint,
         r.purpose = "read" =>
           \A id \in r.floor : \E i \in 1 .. Len(log) : log[i].id = id /\ i <= index'.offset
  PROVE  Itself(p)
<1> DEFINE me == proc[p]
<1> /\ proc' \in [Processes -> ProcessState] /\ proc'[p] = r
    /\ Len(log) \in Nat /\ mtime \in Nat
    /\ Fingerprint' = Fingerprint /\ Complete' = Complete /\ Kept' = Kept
    /\ me.purpose \in Purpose /\ r.partial \in BOOLEAN
    /\ Appends(p) /\ Reads(p)
  BY Moves, Numbers
     DEF Fingerprint, Size, Complete, Kept, LogInv, RegistryTypeOK, ProcessState
<1>1. /\ r.purpose = "read" => r.pc = "get"
      /\ r.purpose = "before" => r.pc = IF r.partial THEN "truncate" ELSE "write"
      /\ r.purpose = "after" => r.pc = "release"
      /\ r.pc \in {"get", "truncate", "write", "release"}
      /\ r.purpose \in {"read", "before", "after"}
  BY DEF Synced, Purpose
<1>2. Knows(p)'
  BY <1>1, PrintTyped DEF Knows
<1>3. Appends(p)'
  <2>1. r.purpose = "after" => r.id \in Kept
    BY DEF Appends
  <2>2. r.pc = "truncate" => index'.offset = Len(log) /\ r.purpose = "before"
    BY <1>1
  <2>3. r.pc = "write" => ~torn /\ r.seq = Len(log) /\ r.purpose = "before"
    BY <1>1
  <2> QED
    BY <1>1, <2>1, <2>2, <2>3 DEF Appends, Syncing
<1>4. Reads(p)'
  BY <1>1 DEF Reads
<1>5. r.purpose # "read" => lock' = p
  BY DEF LogInv, RegistryTypeOK, Syncing
<1> QED
  BY <1>1, <1>2, <1>3, <1>4, <1>5 DEF Itself

LEMMA RememberItself ==
  ASSUME LogInv, NEW p \in Processes, NEW seq \in Nat, NEW partial \in BOOLEAN,
         Remember(p, proc[p].print, seq, partial), proc[p].pc \in Syncing,
         UNCHANGED <<log, torn, mtime, written, synced, lock>>,
         seq <= written, partial => mtime > 0,
         proc[p].print = Fingerprint =>
           index'.offset = Len(log) /\ seq = Len(log) /\ partial = torn,
         proc[p].purpose = "read" =>
           \A id \in proc[p].floor :
             \E i \in 1 .. Len(log) : log[i].id = id /\ i <= index'.offset
  PROVE  /\ Itself(p)
         /\ \A q \in Processes \ {p} : proc'[q] = proc[q]
<1> DEFINE me == proc[p]
           r == [me EXCEPT !.applied = me.print, !.seq = seq, !.partial = partial,
                           !.print = NoPrint, !.pc = Synced(p, partial)]
<1> me \in ProcessState /\ proc \in [Processes -> ProcessState] /\ Knows(p) /\ Appends(p)
  BY DEF LogInv, RegistryTypeOK
<1>1. proc' = [proc EXCEPT ![p] = r]
  BY DEF Remember
<1>2. Synced(p, partial) \in PC
  BY DEF Synced, PC
<1>3. /\ r \in ProcessState /\ r.purpose = me.purpose /\ r.floor = me.floor /\ r.id = me.id
      /\ r.print = NoPrint /\ r.partial = partial /\ r.pc = Synced(p, partial)
      /\ r.applied = me.print /\ r.seq = seq
  BY <1>2, PrintTyped DEF ProcessState
<1>4. r.applied.mtime <= mtime /\ (r.purpose # "read" => r.applied = Fingerprint)
  BY <1>3 DEF Knows, Appends
<1> HIDE DEF r
<1>5. Itself(p)
  BY <1>1, <1>3, <1>4, SyncedItself
<1> QED
  BY <1>1, <1>3, <1>5, Moves

LEMMA ReadOK ==
  ASSUME LogInv, NEW p \in Processes, Read(p)
  PROVE  LogInv'
<1> DEFINE me == proc[p]
           r == [me EXCEPT !.pc = "stat", !.purpose = "read", !.floor = Complete]
<1> /\ me \in ProcessState /\ proc \in [Processes -> ProcessState] /\ Knows(p)
    /\ UNCHANGED <<log, torn, mtime, written, synced, index, lock, txn, acked, deaths, outages,
                   durable>>
  BY DEF LogInv, RegistryTypeOK, Read, file
<1>1. proc' = [proc EXCEPT ![p] = r]
  BY DEF Read
<1>2. /\ r \in ProcessState /\ r.pc = "stat" /\ r.purpose = "read" /\ r.floor = Complete
      /\ r.print = me.print /\ r.applied = me.applied /\ r.seq = me.seq /\ r.partial = me.partial
  BY CompleteIs DEF ProcessState, PC, Purpose
<1> HIDE DEF r
<1>3. /\ proc' \in [Processes -> ProcessState] /\ proc'[p] = r
      /\ \A q \in Processes \ {p} : proc'[q] = proc[q]
  BY <1>1, <1>2, Moves
<1>4. StepOf(p) /\ Fingerprint' = Fingerprint /\ Complete' = Complete /\ IndexOK(index)'
  BY <1>3, QuietStep
<1>5. Knows(p)'
  BY <1>2, <1>3, <1>4 DEF Knows
<1>6. Appends(p)' /\ Reads(p)'
  BY <1>2, <1>3, <1>4 DEF Appends, Reads, Syncing
<1>7. Itself(p)
  BY <1>2, <1>3, <1>5, <1>6 DEF Itself
<1> QED
  BY <1>4, <1>7, TogetherQuiet DEF LogInv, RegistryTypeOK

LEMMA LockOK ==
  ASSUME LogInv, NEW p \in Processes, Lock(p)
  PROVE  LogInv'
<1> DEFINE me == proc[p]
           r == [me EXCEPT !.pc = "stat", !.purpose = "before"]
<1> /\ me \in ProcessState /\ proc \in [Processes -> ProcessState] /\ Knows(p) /\ Reads(p)
    /\ lock = NoOne /\ lock' = p
    /\ UNCHANGED <<log, torn, mtime, written, synced, index, txn, acked, deaths, outages,
                   durable>>
  BY DEF LogInv, RegistryTypeOK, Lock, file
<1>1. proc' = [proc EXCEPT ![p] = r]
  BY DEF Lock
<1>2. /\ r \in ProcessState /\ r.pc = "stat" /\ r.purpose = "before" /\ r.floor = me.floor
      /\ r.print = me.print /\ r.applied = me.applied /\ r.seq = me.seq /\ r.partial = me.partial
  BY DEF ProcessState, PC, Purpose
<1> HIDE DEF r
<1>3. /\ proc' \in [Processes -> ProcessState] /\ proc'[p] = r
      /\ \A q \in Processes \ {p} : proc'[q] = proc[q]
  BY <1>1, <1>2, Moves
<1>4. StepOf(p) /\ Fingerprint' = Fingerprint /\ Complete' = Complete /\ IndexOK(index)'
  BY <1>3, QuietStep
<1>5. Knows(p)'
  BY <1>2, <1>3, <1>4 DEF Knows
<1>6. Appends(p)' /\ Reads(p)'
  BY <1>2, <1>3, <1>4 DEF Appends, Reads, Syncing
<1>7. Itself(p)
  BY <1>2, <1>3, <1>5, <1>6 DEF Itself
<1> QED
  BY <1>4, <1>7, TogetherQuiet DEF LogInv, RegistryTypeOK

LEMMA StatOK ==
  ASSUME LogInv, NEW p \in Processes, Stat(p)
  PROVE  LogInv'
<1> DEFINE me == proc[p]
<1> /\ me \in ProcessState /\ proc \in [Processes -> ProcessState]
    /\ Knows(p) /\ Reads(p) /\ Appends(p) /\ me.pc = "stat"
    /\ UNCHANGED <<log, torn, mtime, written, synced, index, lock, txn, acked, deaths, outages,
                   durable>>
    /\ Len(log) \in Nat /\ mtime \in Nat /\ index.offset \in Nat
  BY Numbers DEF LogInv, RegistryTypeOK, Stat, file, At
<1>1. CASE me.applied = Fingerprint
  <2> DEFINE r == [me EXCEPT !.print = NoPrint, !.pc = Synced(p, me.partial)]
  <2>1. proc' = [proc EXCEPT ![p] = r]
    BY <1>1 DEF Stat
  <2>2. Synced(p, me.partial) \in PC
    BY DEF Synced, PC
  <2>3. /\ r \in ProcessState /\ r.purpose = me.purpose /\ r.floor = me.floor /\ r.id = me.id
        /\ r.print = NoPrint /\ r.partial = me.partial /\ r.pc = Synced(p, me.partial)
        /\ r.applied = me.applied /\ r.seq = me.seq
    BY <2>2, PrintTyped DEF ProcessState
  <2> HIDE DEF r
  <2>4. /\ index'.offset = Len(log) /\ r.seq = Len(log) /\ r.partial = torn
        /\ r.applied.mtime <= mtime /\ r.seq <= written /\ (r.partial => mtime > 0)
    BY <1>1, <2>3 DEF Knows
  <2>5. \A id \in r.floor : \E i \in 1 .. Len(log) : log[i].id = id /\ i <= index'.offset
    BY <2>3, <2>4, CompleteIs DEF Reads
  <2>6. Itself(p)
    BY <1>1, <2>1, <2>3, <2>4, <2>5, SyncedItself
  <2>7. \A q \in Processes \ {p} : proc'[q] = proc[q]
    BY <2>1, <2>3, Moves
  <2>8. StepOf(p) /\ IndexOK(index)'
    BY <2>7, QuietStep
  <2> QED
    BY <2>6, <2>8, TogetherQuiet DEF LogInv, RegistryTypeOK
<1>2. CASE me.applied # Fingerprint
  <2> DEFINE r == [me EXCEPT !.print = Fingerprint, !.pc = "state"]
  <2>1. proc' = [proc EXCEPT ![p] = r]
    BY <1>2 DEF Stat
  <2>2. /\ r \in ProcessState /\ r.purpose = me.purpose /\ r.floor = me.floor /\ r.id = me.id
        /\ r.print = Fingerprint /\ r.partial = me.partial /\ r.pc = "state"
        /\ r.applied = me.applied /\ r.seq = me.seq
    BY PrintTyped DEF ProcessState, PC
  <2> HIDE DEF r
  <2>3. /\ proc' \in [Processes -> ProcessState] /\ proc'[p] = r
        /\ \A q \in Processes \ {p} : proc'[q] = proc[q]
    BY <2>1, <2>2, Moves
  <2>4. /\ StepOf(p) /\ Fingerprint' = Fingerprint /\ Complete' = Complete /\ Kept' = Kept
        /\ IndexOK(index)'
    BY <2>3, QuietStep
  <2>5. /\ Fingerprint.mtime = mtime /\ Fingerprint.size \in {2 * Len(log), 2 * Len(log) + 1}
        /\ Fingerprint.size > 0 => mtime > 0
    BY PrintTyped
  <2>6. Knows(p)'
    BY <2>2, <2>3, <2>4, <2>5 DEF Knows
  <2>7. Appends(p)'
    BY <2>2, <2>3, <2>4 DEF Appends
  <2>8. \A i \in 1 .. Len(log) : 2 * i <= Fingerprint.size
    BY <2>5
  <2>9. Reads(p)'
    BY <2>2, <2>3, <2>4, <2>8, CompleteIs DEF Reads
  <2>10. Itself(p)
    BY <2>2, <2>3, <2>6, <2>7, <2>9 DEF Itself, LogInv, RegistryTypeOK
  <2> QED
    BY <2>4, <2>10, TogetherQuiet DEF LogInv, RegistryTypeOK
<1> QED
  BY <1>1, <1>2

(* A process that finds the index where it has to be *)
LEMMA FoundItself ==
  ASSUME LogInv, NEW p \in Processes, proc[p].pc \in {"state", "begin"},
         UNCHANGED <<log, torn, mtime, written, synced, lock, index>>,
         StateIs(proc[p].print), Remember(p, proc[p].print, index.seq, FALSE)
  PROVE  /\ Itself(p)
         /\ \A q \in Processes \ {p} : proc'[q] = proc[q]
<1> DEFINE me == proc[p]
<1> /\ index.offset \in Nat /\ index.seq = index.offset /\ index.offset <= written
    /\ Len(log) \in Nat /\ written \in Nat /\ torn \in BOOLEAN /\ Reads(p)
  BY Numbers DEF LogInv
<1>1. me.print.size = 2 * index.offset
  BY DEF StateIs
<1>2. me.print = Fingerprint => index.offset = Len(log) /\ ~torn
  BY <1>1, PrintTyped
<1>3. me.purpose = "read" =>
        \A id \in me.floor : \E i \in 1 .. Len(log) : log[i].id = id /\ i <= index.offset
  <2> SUFFICES ASSUME me.purpose = "read", NEW id \in me.floor
               PROVE  \E i \in 1 .. Len(log) : log[i].id = id /\ i <= index.offset
    OBVIOUS
  <2>1. PICK i \in 1 .. Len(log) : log[i].id = id /\ 2 * i <= me.print.size
    BY DEF Reads
  <2>2. i <= index.offset
    BY <1>1, <2>1
  <2> QED
    BY <2>1, <2>2
<1> QED
  BY <1>2, <1>3, RememberItself DEF Syncing

LEMMA StateOK ==
  ASSUME LogInv, NEW p \in Processes, State(p)
  PROVE  LogInv'
<1> DEFINE me == proc[p]
<1> /\ me \in ProcessState /\ proc \in [Processes -> ProcessState]
    /\ Knows(p) /\ Reads(p) /\ Appends(p) /\ me.pc = "state"
    /\ UNCHANGED <<log, torn, mtime, written, synced, index, lock, txn, acked, deaths, outages,
                   durable>>
  BY DEF LogInv, RegistryTypeOK, State, file, At
<1>1. CASE StateIs(me.print) /\ Remember(p, me.print, index.seq, FALSE)
  <2>1. Itself(p) /\ \A q \in Processes \ {p} : proc'[q] = proc[q]
    BY <1>1, FoundItself
  <2>2. StepOf(p) /\ IndexOK(index)'
    BY <2>1, QuietStep
  <2> QED
    BY <2>1, <2>2, TogetherQuiet DEF LogInv, RegistryTypeOK
<1>2. CASE Goto(p, "begin")
  <2> DEFINE r == [me EXCEPT !.pc = "begin"]
  <2>1. proc' = [proc EXCEPT ![p] = r]
    BY <1>2 DEF Goto
  <2>2. /\ r \in ProcessState /\ r.purpose = me.purpose /\ r.floor = me.floor /\ r.id = me.id
        /\ r.print = me.print /\ r.partial = me.partial /\ r.pc = "begin"
        /\ r.applied = me.applied /\ r.seq = me.seq
    BY DEF ProcessState, PC
  <2> HIDE DEF r
  <2>3. /\ proc' \in [Processes -> ProcessState] /\ proc'[p] = r
        /\ \A q \in Processes \ {p} : proc'[q] = proc[q]
    BY <2>1, <2>2, Moves
  <2>4. /\ StepOf(p) /\ Fingerprint' = Fingerprint /\ Complete' = Complete /\ Kept' = Kept
        /\ IndexOK(index)'
    BY <2>3, QuietStep
  <2>5. Knows(p)' /\ Appends(p)'
    BY <2>2, <2>3, <2>4 DEF Knows, Appends, Syncing
  <2>6. Reads(p)'
    BY <2>2, <2>3, <2>4 DEF Reads
  <2>7. Itself(p)
    BY <2>2, <2>3, <2>5, <2>6 DEF Itself, LogInv, RegistryTypeOK
  <2> QED
    BY <2>4, <2>7, TogetherQuiet DEF LogInv, RegistryTypeOK
<1> QED
  BY <1>1, <1>2 DEF State

LEMMA BeginOK ==
  ASSUME LogInv, NEW p \in Processes, Begin(p)
  PROVE  LogInv'
<1> DEFINE me == proc[p]
<1> /\ me \in ProcessState /\ proc \in [Processes -> ProcessState]
    /\ Knows(p) /\ Reads(p) /\ Appends(p) /\ me.pc = "begin" /\ txn = NoOne
    /\ UNCHANGED <<log, torn, mtime, written, synced, index, lock, acked, deaths, outages,
                   durable>>
  BY DEF LogInv, RegistryTypeOK, Begin, file, At
<1>1. CASE StateIs(me.print) /\ Remember(p, me.print, index.seq, FALSE) /\ UNCHANGED txn
  <2>1. Itself(p) /\ \A q \in Processes \ {p} : proc'[q] = proc[q]
    BY <1>1, FoundItself
  <2>2. StepOf(p) /\ IndexOK(index)'
    BY <1>1, <2>1, QuietStep
  <2> QED
    BY <2>1, <2>2, TogetherQuiet DEF LogInv, RegistryTypeOK
<1>2. ASSUME txn' = p, NEW pc \in {"tail", "rebuild"}, Goto(p, pc),
             pc = "tail" => TailApplicable(me.print)
      PROVE  LogInv'
  <2> DEFINE r == [me EXCEPT !.pc = pc]
  <2>1. proc' = [proc EXCEPT ![p] = r]
    BY <1>2 DEF Goto
  <2>2. /\ r \in ProcessState /\ r.purpose = me.purpose /\ r.floor = me.floor /\ r.id = me.id
        /\ r.print = me.print /\ r.partial = me.partial /\ r.pc = pc
        /\ r.applied = me.applied /\ r.seq = me.seq
    BY DEF ProcessState, PC
  <2> HIDE DEF r
  <2>3. /\ proc' \in [Processes -> ProcessState] /\ proc'[p] = r
        /\ \A q \in Processes \ {p} : proc'[q] = proc[q]
    BY <2>1, <2>2, Moves
  <2>4. /\ StepOf(p) /\ Fingerprint' = Fingerprint /\ Complete' = Complete /\ Kept' = Kept
        /\ IndexOK(index)'
    BY <1>2, <2>3, QuietStep
  <2>5. r.pc = "tail" => 2 * index.offset <= r.print.size
    BY <1>2, <2>2 DEF TailApplicable
  <2>6. Knows(p)'
    BY <2>2, <2>3, <2>4, <2>5 DEF Knows
  <2>7. Appends(p)' /\ Reads(p)'
    BY <2>2, <2>3, <2>4 DEF Appends, Reads, Syncing
  <2>8. Itself(p)
    BY <1>2, <2>2, <2>3, <2>6, <2>7 DEF Itself, LogInv, RegistryTypeOK
  <2> QED
    BY <2>4, <2>8, TogetherQuiet DEF LogInv, RegistryTypeOK
<1> QED
  BY <1>1, <1>2 DEF Begin

(* The index as a sync that has read the whole log leaves it *)
LEMMA IndexWritten ==
  ASSUME LogInv, NEW p \in Processes, NEW record,
         UNCHANGED <<mtime, written>>,
         index' = [offset |-> Len(log), mtime |-> proc[p].print.mtime, seq |-> Len(log),
                   record |-> record]
  PROVE  IndexOK(index)' /\ index'.offset = Len(log)
<1> /\ Len(log) \in Nat /\ written \in Nat /\ mtime \in Nat /\ Len(log) <= written
    /\ proc[p].print.mtime \in Nat /\ proc[p].print.mtime <= mtime
  BY Numbers DEF LogInv, Unbroken, Knows, RegistryTypeOK, ProcessState, Fingerprints
<1> QED
  BY DEF IndexOK

LEMMA ApplyTailOK ==
  ASSUME LogInv, NEW p \in Processes, ApplyTail(p)
  PROVE  LogInv'
<1> DEFINE me == proc[p]
<1> /\ me \in ProcessState /\ proc \in [Processes -> ProcessState]
    /\ Knows(p) /\ Reads(p) /\ Appends(p) /\ me.pc = "tail" /\ txn = p
    /\ UNCHANGED <<log, torn, mtime, written, synced, lock, acked, deaths, outages, durable>>
    /\ Len(log) \in Nat /\ written \in Nat /\ torn \in BOOLEAN
    /\ index.offset \in Nat /\ index.seq = index.offset
    /\ Len(log) <= written /\ (torn => mtime > 0)
  BY Numbers DEF LogInv, RegistryTypeOK, ApplyTail, file, At, Unbroken
<1>1. LastSeq(TailFrom(index.offset), index.seq) = Len(log)
  <2>1. me.print.size \in Nat
    BY DEF ProcessState, Fingerprints
  <2>2. 2 * index.offset <= me.print.size /\ me.print.size <= 2 * Len(log) + 1
    BY DEF Knows
  <2>3. index.offset \in 0 .. Len(log)
    BY <2>1, <2>2
  <2> QED
    BY <2>3, LastSeqIs
<1>2. CASE /\ index' = [offset |-> Len(log), mtime |-> me.print.mtime, seq |-> Len(log),
                        record |-> Folded(index.record, TailFrom(index.offset))]
           /\ txn' = NoOne /\ Remember(p, me.print, Len(log), torn)
  <2>1. IndexOK(index)' /\ index'.offset = Len(log)
    BY <1>2, IndexWritten
  <2>2. \A id \in me.floor : \E i \in 1 .. Len(log) : log[i].id = id /\ i <= index'.offset
    BY <2>1, CompleteIs DEF Reads
  <2>3. Itself(p) /\ \A q \in Processes \ {p} : proc'[q] = proc[q]
    BY <1>2, <2>1, <2>2, RememberItself DEF Syncing
  <2>4. StepOf(p)
    BY <1>2, <2>1, <2>3 DEF StepOf
  <2> QED
    BY <2>1, <2>3, <2>4, TogetherQuiet DEF LogInv, RegistryTypeOK
<1>3. CASE Goto(p, "rebuild") /\ UNCHANGED <<index, txn>>
  <2> DEFINE r == [me EXCEPT !.pc = "rebuild"]
  <2>1. proc' = [proc EXCEPT ![p] = r]
    BY <1>3 DEF Goto
  <2>2. /\ r \in ProcessState /\ r.purpose = me.purpose /\ r.floor = me.floor /\ r.id = me.id
        /\ r.print = me.print /\ r.partial = me.partial /\ r.pc = "rebuild"
        /\ r.applied = me.applied /\ r.seq = me.seq
    BY DEF ProcessState, PC
  <2> HIDE DEF r
  <2>3. /\ proc' \in [Processes -> ProcessState] /\ proc'[p] = r
        /\ \A q \in Processes \ {p} : proc'[q] = proc[q]
    BY <2>1, <2>2, Moves
  <2>4. /\ StepOf(p) /\ Fingerprint' = Fingerprint /\ Complete' = Complete /\ Kept' = Kept
        /\ IndexOK(index)'
    BY <1>3, <2>3, QuietStep
  <2>5. Knows(p)'
    BY <1>3, <2>2, <2>3, <2>4 DEF Knows
  <2>6. Appends(p)' /\ Reads(p)'
    BY <2>2, <2>3, <2>4 DEF Appends, Reads, Syncing
  <2>7. Itself(p)
    BY <1>3, <2>2, <2>3, <2>5, <2>6 DEF Itself, LogInv, RegistryTypeOK
  <2> QED
    BY <1>3, <2>4, <2>7, TogetherQuiet DEF LogInv, RegistryTypeOK
<1> QED
  BY <1>1, <1>2, <1>3 DEF ApplyTail

LEMMA RebuildOK ==
  ASSUME LogInv, NEW p \in Processes, Rebuild(p)
  PROVE  LogInv'
<1> DEFINE me == proc[p]
           partial == 2 * Len(log) < me.print.size
<1> /\ me \in ProcessState /\ proc \in [Processes -> ProcessState]
    /\ Knows(p) /\ Reads(p) /\ me.pc = "rebuild" /\ txn = p /\ txn' = NoOne
    /\ UNCHANGED <<log, torn, mtime, written, synced, lock, acked, deaths, outages, durable>>
    /\ Len(log) \in Nat /\ written \in Nat /\ torn \in BOOLEAN /\ Len(log) <= written
    /\ LastEvent(log) = Len(log) /\ LastSeq(log, 0) = Len(log)
  BY Numbers, LastSeqIs DEF LogInv, RegistryTypeOK, Rebuild, file, At, Unbroken
<1>1. /\ index' = [offset |-> Len(log), mtime |-> me.print.mtime, seq |-> Len(log),
                   record |-> Folded(NoRecord, log)]
      /\ Remember(p, me.print, Len(log), partial)
  BY DEF Rebuild
<1>2. IndexOK(index)' /\ index'.offset = Len(log)
  BY <1>1, IndexWritten
<1>3. \A id \in me.floor : \E i \in 1 .. Len(log) : log[i].id = id /\ i <= index'.offset
  BY <1>2, CompleteIs DEF Reads
<1>4. /\ partial \in BOOLEAN /\ (partial => mtime > 0)
      /\ me.print = Fingerprint => partial = torn
  <2>1. me.print.size \in Nat
    BY DEF ProcessState, Fingerprints
  <2>2. partial => mtime > 0
    BY <2>1 DEF Knows
  <2>3. me.print = Fingerprint => partial = torn
    BY PrintTyped
  <2> QED
    BY <2>2, <2>3
<1> HIDE DEF partial
<1>5. Itself(p) /\ \A q \in Processes \ {p} : proc'[q] = proc[q]
  BY <1>1, <1>2, <1>3, <1>4, RememberItself DEF Syncing
<1>6. StepOf(p)
  BY <1>2, <1>5 DEF StepOf
<1> QED
  BY <1>2, <1>5, <1>6, TogetherQuiet DEF LogInv, RegistryTypeOK

-----------------------------------------------------------------------------
(* The other steps that leave the file as it is *)

LEMMA GetOK ==
  ASSUME LogInv, NEW p \in Processes, Get(p)
  PROVE  LogInv'
<1> DEFINE me == proc[p]
           r == [me EXCEPT !.pc = "idle", !.floor = {}]
<1> /\ me \in ProcessState /\ proc \in [Processes -> ProcessState] /\ Knows(p) /\ Appends(p)
    /\ me.pc = "get"
    /\ UNCHANGED <<log, torn, mtime, written, synced, index, lock, txn, acked, deaths, outages,
                   durable>>
  BY DEF LogInv, RegistryTypeOK, Get, file, At
<1>1. proc' = [proc EXCEPT ![p] = r]
  BY DEF Get
<1>2. /\ r \in ProcessState /\ r.pc = "idle" /\ r.purpose = me.purpose /\ r.floor = {}
      /\ r.print = me.print /\ r.applied = me.applied /\ r.seq = me.seq /\ r.partial = me.partial
  BY DEF ProcessState, PC
<1> HIDE DEF r
<1>3. /\ proc' \in [Processes -> ProcessState] /\ proc'[p] = r
      /\ \A q \in Processes \ {p} : proc'[q] = proc[q]
  BY <1>1, <1>2, Moves
<1>4. StepOf(p) /\ Fingerprint' = Fingerprint /\ Complete' = Complete /\ IndexOK(index)'
  BY <1>3, QuietStep
<1>5. Knows(p)'
  BY <1>2, <1>3, <1>4 DEF Knows
<1>6. Appends(p)' /\ Reads(p)'
  BY <1>2, <1>3, <1>4 DEF Appends, Reads, Syncing
<1>7. Itself(p)
  BY <1>2, <1>3, <1>5, <1>6 DEF Itself
<1> QED
  BY <1>4, <1>7, TogetherQuiet DEF LogInv, RegistryTypeOK

LEMMA ReleaseOK ==
  ASSUME LogInv, NEW p \in Processes, Release(p)
  PROVE  LogInv'
<1> DEFINE me == proc[p]
           r == [me EXCEPT !.pc = "idle", !.id = 0, !.purpose = "read"]
<1> /\ me \in ProcessState /\ proc \in [Processes -> ProcessState] /\ Knows(p) /\ Appends(p)
    /\ Reads(p) /\ me.pc = "release" /\ lock = p /\ lock' = NoOne
    /\ UNCHANGED <<log, torn, mtime, written, synced, index, txn, deaths, outages, durable>>
  BY DEF LogInv, RegistryTypeOK, Release, file, At, Appends
<1>1. proc' = [proc EXCEPT ![p] = r] /\ acked' = acked \cup {me.id} /\ me.id \in Kept
  BY DEF Release, Appends
<1>2. /\ r \in ProcessState /\ r.pc = "idle" /\ r.purpose = "read" /\ r.floor = me.floor
      /\ r.print = me.print /\ r.applied = me.applied /\ r.seq = me.seq /\ r.partial = me.partial
  <2>1. 0 \in 0 .. MaxWrites /\ "idle" \in PC /\ "read" \in Purpose
    BY RegistryAssumption DEF PC, Purpose
  <2> QED
    BY <2>1 DEF ProcessState
<1> HIDE DEF r
<1>3. /\ proc' \in [Processes -> ProcessState] /\ proc'[p] = r
      /\ \A q \in Processes \ {p} : proc'[q] = proc[q]
  BY <1>1, <1>2, Moves
<1>4. StepOf(p) /\ Fingerprint' = Fingerprint /\ Complete' = Complete /\ IndexOK(index)'
  BY <1>3, QuietStep
<1>5. Knows(p)'
  BY <1>2, <1>3, <1>4 DEF Knows
<1>6. Appends(p)' /\ Reads(p)'
  BY <1>2, <1>3, <1>4 DEF Appends, Reads, Syncing
<1>7. Itself(p)
  BY <1>2, <1>3, <1>5, <1>6 DEF Itself
<1>8. acked' \subseteq acked \cup Kept
  BY <1>1
<1> QED
  BY <1>4, <1>7, <1>8, TogetherQuiet DEF LogInv, RegistryTypeOK

LEMMA IndexBusyOK ==
  ASSUME LogInv, NEW p \in Processes, IndexBusy(p)
  PROVE  LogInv'
<1> DEFINE me == proc[p]
<1> /\ me \in ProcessState /\ proc \in [Processes -> ProcessState] /\ Knows(p) /\ Appends(p)
    /\ Reads(p) /\ me.pc \in {"begin", "truncate", "own"} /\ lock \in Processes \cup {NoOne}
    /\ UNCHANGED <<log, torn, mtime, written, synced, index, txn, acked, deaths, outages, durable>>
    /\ Len(log) \in Nat /\ mtime \in Nat /\ me.seq \in Nat
  BY Numbers DEF LogInv, RegistryTypeOK, IndexBusy, file, ProcessState
<1>1. CASE /\ me.pc = "own" \/ me.purpose = "after"
           /\ proc' = [proc EXCEPT ![p].applied = NoPrint, ![p].print = NoPrint,
                                   ![p].pc = "release"]
           /\ UNCHANGED lock
  <2> DEFINE r == [me EXCEPT !.applied = NoPrint, !.print = NoPrint, !.pc = "release"]
  <2>1. proc' = [proc EXCEPT ![p] = r]
    BY <1>1
  <2>2. /\ r \in ProcessState /\ r.pc = "release" /\ r.purpose = me.purpose
        /\ r.floor = me.floor /\ r.print = NoPrint /\ r.applied = NoPrint
        /\ r.seq = me.seq /\ r.partial = me.partial /\ r.id = me.id
    BY PrintTyped DEF ProcessState, PC
  <2> HIDE DEF r
  <2>3. /\ proc' \in [Processes -> ProcessState] /\ proc'[p] = r
        /\ \A q \in Processes \ {p} : proc'[q] = proc[q]
    BY <2>1, <2>2, Moves
  <2>4. /\ StepOf(p) /\ Fingerprint' = Fingerprint /\ Complete' = Complete /\ Kept' = Kept
        /\ IndexOK(index)'
    BY <1>1, <2>3, QuietStep
  <2>5. NoPrint = Fingerprint =>
          index.offset = Len(log) /\ me.seq = Len(log) /\ me.partial = torn
    <3> SUFFICES ASSUME NoPrint = Fingerprint
                 PROVE  index.offset = Len(log) /\ me.seq = Len(log) /\ me.partial = torn
      OBVIOUS
    <3>1. Len(log) = 0 /\ torn = FALSE /\ mtime = 0 /\ written = 0 /\ index.offset = 0
      BY PrintTyped, Numbers
    <3>2. me.seq = 0 /\ me.partial = FALSE
      BY <3>1 DEF Knows, ProcessState
    <3> QED
      BY <3>1, <3>2
  <2>6. Knows(p)'
    BY <2>2, <2>3, <2>4, <2>5, PrintTyped DEF Knows
  <2>7. Appends(p)'
    BY <1>1, <2>2, <2>3, <2>4 DEF Appends, Syncing
  <2>10. Reads(p)'
    BY <2>2, <2>3, <2>4 DEF Reads
  <2>8. r.purpose # "read" => lock' = p
    BY <1>1, <2>2 DEF LogInv, RegistryTypeOK
  <2>9. Itself(p)
    BY <2>2, <2>3, <2>6, <2>7, <2>8, <2>10 DEF Itself
  <2> QED
    BY <2>4, <2>9, TogetherQuiet DEF LogInv, RegistryTypeOK
<1>2. CASE /\ ~(me.pc = "own" \/ me.purpose = "after")
           /\ proc' = [proc EXCEPT ![p].pc = "idle", ![p].print = NoPrint, ![p].floor = {}]
           /\ lock' = IF lock = p THEN NoOne ELSE lock
  <2> DEFINE r == [me EXCEPT !.pc = "idle", !.print = NoPrint, !.floor = {}]
  <2>1. proc' = [proc EXCEPT ![p] = r]
    BY <1>2
  <2>2. /\ r \in ProcessState /\ r.pc = "idle" /\ r.purpose = me.purpose
        /\ r.floor = {} /\ r.print = NoPrint /\ r.applied = me.applied
        /\ r.seq = me.seq /\ r.partial = me.partial /\ r.id = me.id
    BY PrintTyped DEF ProcessState, PC
  <2> HIDE DEF r
  <2>3. /\ proc' \in [Processes -> ProcessState] /\ proc'[p] = r
        /\ \A q \in Processes \ {p} : proc'[q] = proc[q]
    BY <2>1, <2>2, Moves
  <2>4. /\ StepOf(p) /\ Fingerprint' = Fingerprint /\ Complete' = Complete /\ Kept' = Kept
        /\ IndexOK(index)'
    BY <1>2, <2>3, QuietStep
  <2>5. Knows(p)'
    BY <2>2, <2>3, <2>4, PrintTyped DEF Knows
  <2>6. Appends(p)' /\ Reads(p)'
    BY <1>2, <2>2, <2>3, <2>4 DEF Appends, Reads, Syncing
  <2>7. Itself(p)
    BY <2>2, <2>3, <2>5, <2>6 DEF Itself
  <2> QED
    BY <2>4, <2>7, TogetherQuiet DEF LogInv, RegistryTypeOK
<1> QED
  BY <1>1, <1>2 DEF IndexBusy, At

LEMMA FreshTyped ==
  /\ Fresh \in ProcessState /\ Fresh.pc = "idle" /\ Fresh.purpose = "read" /\ Fresh.floor = {}
  /\ Fresh.print = NoPrint /\ Fresh.applied = NoPrint /\ Fresh.seq = 0 /\ Fresh.partial = FALSE
  /\ NoPrint.size = 0 /\ NoPrint.mtime = 0
<1>1. NoPrint \in Fingerprints /\ "idle" \in PC /\ "read" \in Purpose /\ 0 \in 0 .. MaxWrites
  BY RegistryAssumption DEF NoPrint, Fingerprints, PC, Purpose
<1> QED
  BY <1>1 DEF Fresh, ProcessState, NoPrint

(* A process that has just started knows nothing *)
LEMMA FreshItself ==
  ASSUME NEW p \in Processes, proc'[p] = Fresh,
         Len(log') \in Nat, mtime' \in Nat, written' \in Nat,
         NoPrint = Fingerprint' => index'.offset = 0 /\ Len(log') = 0 /\ torn' = FALSE
  PROVE  Knows(p)' /\ Appends(p)' /\ Reads(p)'
<1>1. Knows(p)'
  <2>1. 0 <= mtime' /\ 0 <= 2 * Len(log') + 1 /\ 0 <= written'
    OBVIOUS
  <2>2. /\ proc'[p].print.mtime = 0 /\ proc'[p].applied.mtime = 0 /\ proc'[p].print.size = 0
        /\ proc'[p].seq = 0 /\ ~proc'[p].partial /\ ~(0 > 0)
        /\ proc'[p].applied = NoPrint /\ proc'[p].pc = "idle"
    BY FreshTyped
  <2>3. NoPrint = Fingerprint' => index'.offset = Len(log') /\ 0 = Len(log') /\ FALSE = torn'
    OBVIOUS
  <2> QED
    BY <2>1, <2>2, <2>3, FreshTyped DEF Knows
<1>2. Appends(p)' /\ Reads(p)'
  BY FreshTyped DEF Appends, Reads, Syncing
<1> QED
  BY <1>1, <1>2

LEMMA DieOK ==
  ASSUME LogInv, NEW p \in Processes, Die(p)
  PROVE  LogInv'
<1> /\ proc \in [Processes -> ProcessState]
    /\ UNCHANGED <<log, torn, mtime, written, synced, index, acked, outages, durable>>
    /\ proc' = [proc EXCEPT ![p] = Fresh]
    /\ lock' = IF lock = p THEN NoOne ELSE lock
    /\ txn' = IF txn = p THEN NoOne ELSE txn
    /\ Len(log) \in Nat /\ mtime \in Nat /\ written \in Nat /\ torn \in BOOLEAN
  BY Numbers DEF LogInv, RegistryTypeOK, Die, file
<1>1. deaths' \in 0 .. MaxDeaths
  BY RegistryAssumption DEF Die, LogInv, RegistryTypeOK
<1>2. /\ proc' \in [Processes -> ProcessState] /\ proc'[p] = Fresh
      /\ \A q \in Processes \ {p} : proc'[q] = proc[q]
  BY FreshTyped, Moves
<1>3. StepOf(p) /\ Fingerprint' = Fingerprint /\ IndexOK(index)'
  BY <1>2, QuietStep
<1>4. NoPrint = Fingerprint' => index'.offset = 0 /\ Len(log') = 0 /\ torn' = FALSE
  BY <1>3, PrintTyped
<1>5. Knows(p)' /\ Appends(p)' /\ Reads(p)'
  BY <1>2, <1>4, FreshItself
<1>6. Itself(p)
  BY <1>2, <1>5, FreshTyped DEF Itself
<1> QED
  BY <1>1, <1>3, <1>6, TogetherQuiet DEF LogInv, RegistryTypeOK

-----------------------------------------------------------------------------
(* The steps that change the file *)

(* No process knows the file as a step that gives it a new time leaves it *)
LEMMA FileChanges ==
  ASSUME LogInv, NEW p \in Processes, mtime' = mtime + 1,
         written' \in {written, written + 1}, UNCHANGED <<index, durable>>
  PROVE  /\ IndexOK(index)' /\ IndexOK(durable)'
         /\ mtime' \in Nat /\ mtime' > 0 /\ written' \in Nat /\ written <= written'
         /\ proc[p].print.mtime <= mtime' /\ proc[p].applied.mtime < mtime'
         /\ proc[p].applied # Fingerprint' /\ NoPrint # Fingerprint'
<1> /\ mtime \in Nat /\ written \in Nat /\ proc[p].print.mtime \in Nat
    /\ proc[p].applied.mtime \in Nat /\ proc[p].print.mtime <= mtime
    /\ proc[p].applied.mtime <= mtime /\ NoPrint.mtime = 0
  BY Numbers, PrintTyped
     DEF LogInv, RegistryTypeOK, ProcessState, Fingerprints, Knows
<1>1. /\ mtime' \in Nat /\ mtime' > 0 /\ written' \in Nat /\ written <= written'
      /\ proc[p].print.mtime <= mtime' /\ proc[p].applied.mtime < mtime'
  OBVIOUS
<1>2. Fingerprint'.mtime = mtime'
  BY DEF Fingerprint
<1>3. IndexOK(index)' /\ IndexOK(durable)'
  <2>1. IndexOK(index) /\ IndexOK(durable)
    BY DEF LogInv
  <2> QED
    BY <1>1, <2>1 DEF IndexOK
<1> QED
  BY <1>1, <1>2, <1>3

LEMMA TruncateOK ==
  ASSUME LogInv, NEW p \in Processes, Truncate(p)
  PROVE  LogInv'
<1> DEFINE me == proc[p]
           r == [me EXCEPT !.pc = "truncated"]
<1> /\ me \in ProcessState /\ Knows(p) /\ Appends(p) /\ Reads(p) /\ me.pc = "truncate"
    /\ txn = NoOne /\ txn' = p /\ torn' = FALSE /\ mtime' = mtime + 1
    /\ UNCHANGED <<synced, index, durable, lock, written, acked, deaths, outages>>
    /\ log \in Seq(Line) /\ Len(log) \in Nat /\ mtime \in Nat /\ written \in Nat
    /\ synced \in 0 .. Len(log) /\ written <= MaxWrites
  BY Numbers DEF LogInv, RegistryTypeOK, Truncate, At
<1>1. index.offset = Len(log) /\ me.purpose = "before" /\ lock = p /\ lock' = p
  BY DEF Appends, LogInv, RegistryTypeOK
<1>2. log' = log
  BY <1>1, SubSeqFull DEF Truncate
<1>3. /\ r \in ProcessState /\ r.pc = "truncated" /\ r.purpose = "before" /\ r.floor = me.floor
      /\ r.print = me.print /\ r.applied = me.applied /\ r.seq = me.seq /\ r.partial = me.partial
  BY <1>1 DEF ProcessState, PC
<1>4. proc' = [proc EXCEPT ![p] = r]
  BY DEF Truncate, Goto
<1> HIDE DEF r
<1>5. /\ proc' \in [Processes -> ProcessState] /\ proc'[p] = r
      /\ \A q \in Processes \ {p} : proc'[q] = proc[q]
  BY <1>3, <1>4, Moves
<1>6. StepOf(p)
  BY <1>1, <1>2, <1>5 DEF StepOf
<1>7. /\ IndexOK(index)' /\ IndexOK(durable)' /\ mtime' \in Nat /\ mtime' > 0
      /\ me.print.mtime <= mtime' /\ me.applied.mtime <= mtime' /\ me.applied # Fingerprint'
  <2>1. mtime' \in Nat /\ me.applied.mtime < mtime' => me.applied.mtime <= mtime'
    BY DEF ProcessState, Fingerprints
  <2> QED
    BY <2>1, FileChanges
<1>8. Knows(p)'
  BY <1>2, <1>3, <1>5, <1>7 DEF Knows
<1>9. Appends(p)'
  BY <1>1, <1>2, <1>3, <1>5 DEF Appends, Syncing
<1>10. Reads(p)'
  BY <1>3, <1>5, <1>6, LogGrows DEF Reads
<1>11. Itself(p)
  BY <1>1, <1>3, <1>5, <1>8, <1>9, <1>10 DEF Itself
<1>12. Unbroken'
  BY <1>2 DEF Unbroken, LogInv
<1>13. acked' \subseteq Kept' /\ acked' \subseteq Ids
  BY <1>6, LogGrows DEF LogInv, RegistryTypeOK
<1>14. deaths' \in 0 .. MaxDeaths /\ outages' \in 0 .. MaxOutages
  BY DEF LogInv, RegistryTypeOK
<1> QED
  BY <1>6, <1>7, <1>11, <1>12, <1>13, <1>14, Together

LEMMA TruncatedOK ==
  ASSUME LogInv, NEW p \in Processes, Truncated(p)
  PROVE  LogInv'
<1> DEFINE me == proc[p]
           r == [me EXCEPT !.applied = Fingerprint, !.seq = index.seq, !.partial = FALSE,
                           !.pc = "write"]
<1> /\ me \in ProcessState /\ Knows(p) /\ Appends(p) /\ Reads(p) /\ me.pc = "truncated"
    /\ UNCHANGED <<log, torn, mtime, durable, lock, written, acked, deaths, outages>>
    /\ synced' = Len(log) /\ index' = [index EXCEPT !.mtime = mtime] /\ txn' = NoOne
    /\ Len(log) \in Nat /\ mtime \in Nat /\ written \in Nat /\ torn \in BOOLEAN
    /\ index.seq = index.offset /\ index.offset \in Nat /\ index.offset <= written
  BY Numbers DEF LogInv, RegistryTypeOK, Truncated, At
<1>1. /\ index.offset = Len(log) /\ me.purpose = "before" /\ lock = p /\ lock' = p
      /\ txn = p /\ torn = FALSE
  BY DEF Appends, LogInv, RegistryTypeOK
<1>2. index' = [offset |-> index.offset, mtime |-> mtime, seq |-> index.seq,
                record |-> index.record]
  BY DEF LogInv, IndexOK
<1>3. IndexOK(index)' /\ index'.offset = Len(log)
  <2>1. /\ index'.offset = index.offset /\ index'.mtime = mtime /\ index'.seq = index.seq
        /\ index'.record = index.record
    BY <1>2
  <2>2. index' = [offset |-> index'.offset, mtime |-> index'.mtime, seq |-> index'.seq,
                  record |-> index'.record]
    BY <1>2, <2>1
  <2>3. index.offset \in 0 .. written /\ mtime \in 0 .. mtime
    OBVIOUS
  <2> QED
    BY <1>1, <2>1, <2>2, <2>3 DEF IndexOK
<1>4. /\ r \in ProcessState /\ r.pc = "write" /\ r.purpose = "before" /\ r.floor = me.floor
      /\ r.print = me.print /\ r.applied = Fingerprint /\ r.seq = index.seq
      /\ r.partial = FALSE
  BY <1>1, PrintTyped DEF ProcessState, PC
<1>5. proc' = [proc EXCEPT ![p] = r]
  BY DEF Truncated
<1> HIDE DEF r
<1>6. /\ proc' \in [Processes -> ProcessState] /\ proc'[p] = r
      /\ \A q \in Processes \ {p} : proc'[q] = proc[q]
  BY <1>4, <1>5, Moves
<1>7. StepOf(p)
  BY <1>1, <1>3, <1>6 DEF StepOf
<1>8. Fingerprint' = Fingerprint /\ Fingerprint.mtime <= mtime
  BY PrintTyped DEF Fingerprint
<1>9. Knows(p)'
  BY <1>1, <1>3, <1>4, <1>6, <1>8 DEF Knows
<1>10. Appends(p)'
  BY <1>1, <1>3, <1>4, <1>6 DEF Appends, Syncing
<1>11. Reads(p)'
  BY <1>4, <1>6, <1>7, LogGrows DEF Reads
<1>12. Itself(p)
  BY <1>1, <1>4, <1>6, <1>9, <1>10, <1>11 DEF Itself
<1> QED
  BY <1>3, <1>7, <1>12, TogetherQuiet DEF LogInv, RegistryTypeOK

LEMMA WriteOK ==
  ASSUME LogInv, NEW p \in Processes, Write(p)
  PROVE  LogInv'
<1> DEFINE me == proc[p]
           r == [me EXCEPT !.pc = "fsync", !.id = written + 1]
<1> /\ me \in ProcessState /\ Knows(p) /\ Appends(p) /\ Reads(p) /\ me.pc = "write"
    /\ torn' = FALSE /\ mtime' = mtime + 1 /\ written' = written + 1 /\ written < MaxWrites
    /\ UNCHANGED <<synced, index, durable, lock, txn, acked, deaths, outages>>
    /\ log \in Seq(Line) /\ Len(log) \in Nat /\ mtime \in Nat /\ written \in Nat
    /\ MaxWrites \in Nat /\ Len(log) <= written /\ written <= mtime
  BY Numbers DEF LogInv, RegistryTypeOK, Write, At, Unbroken
<1>1. ~torn /\ me.seq = Len(log) /\ me.purpose = "before" /\ lock = p /\ lock' = p
  BY DEF Appends, LogInv, RegistryTypeOK
<1>2. PICK beat \in BOOLEAN :
        log' = Append(log, [id |-> written + 1, seq |-> me.seq + 1, beat |-> beat])
  BY <1>1 DEF Write
<1> DEFINE line == [id |-> written + 1, seq |-> me.seq + 1, beat |-> beat]
<1>3. line \in Line /\ line.id = written + 1 /\ line.seq = Len(log) + 1
  BY <1>1 DEF Line
<1> HIDE DEF line
<1>4. /\ log' = Append(log, line) /\ Len(log') = Len(log) + 1
      /\ log'[Len(log) + 1] = line /\ \A i \in 1 .. Len(log) : log'[i] = log[i]
  BY <1>2, <1>3, AppendProperties DEF line
<1>5. /\ r \in ProcessState /\ r.pc = "fsync" /\ r.purpose = "before" /\ r.floor = me.floor
      /\ r.print = me.print /\ r.applied = me.applied /\ r.seq = me.seq
      /\ r.partial = me.partial /\ r.id = written + 1
  <2>1. written + 1 \in 0 .. MaxWrites /\ "fsync" \in PC
    BY DEF PC
  <2> QED
    BY <1>1, <2>1 DEF ProcessState
<1>6. proc' = [proc EXCEPT ![p] = r]
  BY DEF Write
<1> HIDE DEF r
<1>7. /\ proc' \in [Processes -> ProcessState] /\ proc'[p] = r
      /\ \A q \in Processes \ {p} : proc'[q] = proc[q]
  BY <1>5, <1>6, Moves
<1>8. StepOf(p)
  BY <1>1, <1>3, <1>4, <1>7 DEF StepOf
<1>9. /\ IndexOK(index)' /\ IndexOK(durable)' /\ mtime' \in Nat /\ mtime' > 0
      /\ me.print.mtime <= mtime' /\ me.applied.mtime <= mtime' /\ me.applied # Fingerprint'
  <2>1. mtime' \in Nat /\ me.applied.mtime < mtime' => me.applied.mtime <= mtime'
    BY DEF ProcessState, Fingerprints
  <2> QED
    BY <2>1, FileChanges
<1>10. Unbroken'
  <2>1. ASSUME NEW i \in 1 .. Len(log')
        PROVE  log'[i].id \in 1 .. written' /\ log'[i].seq = i
    <3>1. CASE i = Len(log) + 1
      BY <1>3, <1>4, <3>1
    <3>2. CASE i \in 1 .. Len(log)
      <4>1. log[i].id \in 1 .. written /\ log[i].seq = i
        BY <3>2 DEF LogInv, Unbroken
      <4> QED
        BY <1>4, <3>2, <4>1
    <3> QED
      BY <1>4, <3>1, <3>2
  <2>2. Len(log') <= written' /\ written' <= mtime'
    BY <1>4
  <2> QED
    BY <2>1, <2>2 DEF Unbroken
<1>11. r.id \in Complete'
  <2>1. Len(log') \in DOMAIN log' /\ log'[Len(log')].id = r.id
    <3>1. log' \in Seq(Line) /\ Len(log') \in 1 .. Len(log')
      BY <1>4, <1>8, LogGrows
    <3> QED
      BY <1>3, <1>4, <1>5, <3>1, LenProperties
  <2>2. r.id # 0
    BY <1>5
  <2> QED
    BY <2>1, <2>2 DEF Complete
<1>12. Knows(p)'
  <2>1. me.print.size <= 2 * Len(log') + 1 /\ me.seq <= written'
    <3>1. me.print.size \in Nat /\ me.print.size <= 2 * Len(log) + 1
      BY DEF Knows, ProcessState, Fingerprints
    <3> HIDE DEF me
    <3>2. me.print.size <= 2 * Len(log') + 1
      BY <1>4, <3>1
    <3> QED
      BY <1>1, <3>2
  <2> QED
    BY <1>5, <1>7, <1>9, <2>1 DEF Knows
<1>13. Appends(p)'
  BY <1>5, <1>7, <1>11 DEF Appends, Syncing
<1>14. Reads(p)'
  BY <1>5, <1>7, <1>8, LogGrows DEF Reads
<1>15. Itself(p)
  BY <1>1, <1>5, <1>7, <1>12, <1>13, <1>14 DEF Itself
<1>16. acked' \subseteq Kept' /\ acked' \subseteq Ids
  BY <1>8, LogGrows DEF LogInv, RegistryTypeOK
<1>17. deaths' \in 0 .. MaxDeaths /\ outages' \in 0 .. MaxOutages /\ written' <= MaxWrites
  BY DEF LogInv, RegistryTypeOK
<1> QED
  BY <1>8, <1>9, <1>10, <1>15, <1>16, <1>17, Together

LEMMA WriteTornOK ==
  ASSUME LogInv, NEW p \in Processes, WriteTorn(p)
  PROVE  LogInv'
<1> /\ Appends(p) /\ proc[p].pc = "write" /\ proc' = [proc EXCEPT ![p] = Fresh]
    /\ torn' = TRUE /\ mtime' = mtime + 1 /\ lock' = NoOne
    /\ UNCHANGED <<log, synced, index, durable, txn, written, acked, outages>>
    /\ Len(log) \in Nat /\ mtime \in Nat /\ written \in Nat /\ written <= MaxWrites
  BY Numbers DEF LogInv, RegistryTypeOK, WriteTorn, At
<1>1. lock = p
  BY DEF Appends, LogInv, RegistryTypeOK
<1>2. /\ proc' \in [Processes -> ProcessState] /\ proc'[p] = Fresh
      /\ \A q \in Processes \ {p} : proc'[q] = proc[q]
  BY FreshTyped, Moves
<1>3. StepOf(p)
  BY <1>1, <1>2 DEF StepOf
<1>4. /\ IndexOK(index)' /\ IndexOK(durable)' /\ mtime' \in Nat /\ mtime' > 0
      /\ NoPrint # Fingerprint'
  BY FileChanges
<1>5. Knows(p)' /\ Appends(p)' /\ Reads(p)'
  BY <1>2, <1>4, FreshItself
<1>6. Itself(p)
  BY <1>2, <1>5, FreshTyped DEF Itself
<1>7. Unbroken'
  BY <1>4 DEF Unbroken, LogInv
<1>8. acked' \subseteq Kept' /\ acked' \subseteq Ids
  BY <1>3, LogGrows DEF LogInv, RegistryTypeOK
<1>9. deaths' \in 0 .. MaxDeaths /\ outages' \in 0 .. MaxOutages
  BY RegistryAssumption DEF WriteTorn, LogInv, RegistryTypeOK
<1> QED
  BY <1>3, <1>4, <1>6, <1>7, <1>8, <1>9, Together

LEMMA FsyncOK ==
  ASSUME LogInv, NEW p \in Processes, Fsync(p)
  PROVE  LogInv'
<1> DEFINE me == proc[p]
           r == [me EXCEPT !.pc = "own"]
<1> /\ me \in ProcessState /\ Knows(p) /\ Appends(p) /\ Reads(p) /\ me.pc = "fsync"
    /\ UNCHANGED <<log, torn, mtime, index, durable, lock, txn, written, acked, deaths, outages>>
    /\ synced' = Len(log) /\ Len(log) \in Nat /\ synced \in 0 .. Len(log)
  BY Numbers DEF LogInv, RegistryTypeOK, Fsync, At
<1>1. ~torn /\ me.id \in Complete /\ me.purpose = "before" /\ lock' = p
  BY DEF Appends, LogInv, RegistryTypeOK
<1>2. proc' = [proc EXCEPT ![p] = r]
  BY DEF Fsync, Goto
<1>3. /\ r \in ProcessState /\ r.pc = "own" /\ r.purpose = "before" /\ r.floor = me.floor
      /\ r.print = me.print /\ r.applied = me.applied /\ r.seq = me.seq
      /\ r.partial = me.partial /\ r.id = me.id
  BY <1>1 DEF ProcessState, PC
<1> HIDE DEF r
<1>4. /\ proc' \in [Processes -> ProcessState] /\ proc'[p] = r
      /\ \A q \in Processes \ {p} : proc'[q] = proc[q]
  BY <1>2, <1>3, Moves
<1>5. StepOf(p) /\ Fingerprint' = Fingerprint /\ Complete' = Complete /\ IndexOK(index)'
  BY <1>4 DEF StepOf, Fingerprint, Size, Complete, LogInv, IndexOK
<1>6. Complete = Kept'
  BY CompleteIs DEF Kept
<1>7. Knows(p)'
  BY <1>3, <1>4, <1>5 DEF Knows
<1>8. Appends(p)' /\ Reads(p)'
  BY <1>1, <1>3, <1>4, <1>5, <1>6 DEF Appends, Reads, Syncing
<1>9. Itself(p)
  BY <1>1, <1>3, <1>4, <1>7, <1>8 DEF Itself
<1> QED
  BY <1>5, <1>9, TogetherQuiet DEF LogInv, RegistryTypeOK

LEMMA OwnAppendOK ==
  ASSUME LogInv, NEW p \in Processes, OwnAppend(p)
  PROVE  LogInv'
<1> DEFINE me == proc[p]
<1> /\ me \in ProcessState /\ Knows(p) /\ Appends(p) /\ Reads(p) /\ me.pc = "own"
    /\ UNCHANGED <<log, torn, mtime, synced, durable, lock, txn, written, acked, deaths, outages>>
    /\ txn = NoOne /\ Len(log) \in Nat /\ synced \in 0 .. Len(log) /\ mtime \in Nat
    /\ written \in Nat /\ Len(log) <= written
  BY Numbers DEF LogInv, RegistryTypeOK, OwnAppend, At, file, Unbroken
<1>1. torn = FALSE /\ me.id \in Kept /\ me.purpose = "before" /\ lock' = p
  BY Numbers DEF Appends, LogInv, RegistryTypeOK
<1>2. Fingerprint' = Fingerprint /\ Complete' = Complete /\ Kept' = Kept
  BY DEF Fingerprint, Size, Complete, Kept
<1>3. Len(log) > 0 /\ log[Len(log)].seq = Len(log)
  <2>1. Len(log) > 0
    BY <1>1 DEF Kept
  <2> QED
    BY <2>1 DEF LogInv, Unbroken
<1>4. ASSUME NEW record,
             index' = [offset |-> Len(log), mtime |-> mtime, seq |-> Len(log),
                       record |-> record],
             proc' = [proc EXCEPT ![p].applied = Fingerprint, ![p].seq = Len(log),
                                  ![p].partial = FALSE, ![p].pc = "release"]
      PROVE  LogInv'
  <2> DEFINE r == [me EXCEPT !.applied = Fingerprint, !.seq = Len(log), !.partial = FALSE,
                             !.pc = "release"]
  <2>1. proc' = [proc EXCEPT ![p] = r]
    BY <1>4
  <2>2. /\ r \in ProcessState /\ r.pc = "release" /\ r.purpose = "before"
        /\ r.floor = me.floor /\ r.print = me.print /\ r.applied = Fingerprint
        /\ r.seq = Len(log) /\ r.partial = FALSE /\ r.id = me.id
    BY <1>1, PrintTyped DEF ProcessState, PC
  <2> HIDE DEF r
  <2>3. /\ proc' \in [Processes -> ProcessState] /\ proc'[p] = r
        /\ \A q \in Processes \ {p} : proc'[q] = proc[q]
    BY <2>1, <2>2, Moves
  <2>4. IndexOK(index)' /\ index'.offset = Len(log)
    BY <1>4 DEF IndexOK
  <2>5. StepOf(p)
    BY <2>3, <2>4 DEF StepOf
  <2>6. Fingerprint.mtime <= mtime
    BY PrintTyped
  <2>7. Knows(p)'
    BY <1>1, <1>2, <2>2, <2>3, <2>4, <2>6 DEF Knows
  <2>8. Appends(p)' /\ Reads(p)'
    BY <1>1, <1>2, <2>2, <2>3 DEF Appends, Reads, Syncing
  <2>9. Itself(p)
    BY <1>1, <2>2, <2>3, <2>7, <2>8 DEF Itself
  <2> QED
    BY <2>4, <2>5, <2>9, TogetherQuiet DEF LogInv, RegistryTypeOK
<1>5. CASE /\ proc' = [proc EXCEPT ![p].pc = "stat", ![p].purpose = "after"]
           /\ UNCHANGED index
  <2> DEFINE r == [me EXCEPT !.pc = "stat", !.purpose = "after"]
  <2>1. proc' = [proc EXCEPT ![p] = r]
    BY <1>5
  <2>2. /\ r \in ProcessState /\ r.pc = "stat" /\ r.purpose = "after"
        /\ r.floor = me.floor /\ r.print = me.print /\ r.applied = me.applied
        /\ r.seq = me.seq /\ r.partial = me.partial /\ r.id = me.id
    BY DEF ProcessState, PC, Purpose
  <2> HIDE DEF r
  <2>3. /\ proc' \in [Processes -> ProcessState] /\ proc'[p] = r
        /\ \A q \in Processes \ {p} : proc'[q] = proc[q]
    BY <2>1, <2>2, Moves
  <2>4. StepOf(p) /\ IndexOK(index)'
    BY <1>5, <2>3, QuietStep
  <2>5. Knows(p)'
    BY <1>2, <1>5, <2>2, <2>3 DEF Knows
  <2>6. Appends(p)' /\ Reads(p)'
    BY <1>1, <1>2, <1>5, <2>2, <2>3 DEF Appends, Reads, Syncing
  <2>7. Itself(p)
    BY <1>1, <2>2, <2>3, <2>5, <2>6 DEF Itself
  <2> QED
    BY <2>4, <2>7, TogetherQuiet DEF LogInv, RegistryTypeOK
<1> QED
  BY <1>3, <1>4, <1>5 DEF OwnAppend

-----------------------------------------------------------------------------
(* The index file, and outages *)

LEMMA CheckpointOK ==
  ASSUME LogInv, Checkpoint
  PROVE  LogInv'
<1> UNCHANGED <<log, torn, synced, mtime, index, lock, txn, proc, written, acked, deaths, outages>>
  BY DEF Checkpoint, file
<1>1. RegistryTypeOK' /\ Unbroken' /\ IndexOK(index)' /\ acked' \subseteq Kept'
  BY DEF LogInv, RegistryTypeOK, Unbroken, IndexOK, Kept
<1>2. IndexOK(durable)'
  BY DEF Checkpoint, LogInv, IndexOK
<1>3. ASSUME NEW q \in Processes
      PROVE  Knows(q)' /\ Appends(q)' /\ Reads(q)'
  <2>1. Fingerprint' = Fingerprint /\ Complete' = Complete /\ Kept' = Kept
    BY DEF Fingerprint, Size, Complete, Kept
  <2>2. Knows(q)'
    BY <2>1 DEF LogInv, Knows
  <2>3. Appends(q)'
    BY <2>1 DEF LogInv, Appends, Syncing
  <2>4. Reads(q)'
    BY <2>1 DEF LogInv, Reads
  <2> QED
    BY <2>2, <2>3, <2>4
<1> QED
  BY <1>1, <1>2, <1>3 DEF LogInv

LEMMA SystemDownOK ==
  ASSUME LogInv, SystemDown
  PROVE  LogInv'
<1> /\ log \in Seq(Line) /\ Len(log) \in Nat /\ synced \in 0 .. Len(log) /\ mtime \in Nat
    /\ written \in Nat /\ torn \in BOOLEAN /\ MaxOutages \in Nat
    /\ \A i \in 1 .. Len(log) : log[i] \in Line
    /\ outages \in 0 .. MaxOutages /\ outages < MaxOutages /\ outages' = outages + 1
    /\ index' \in {index, durable, NoIndex} /\ durable' = index'
    /\ proc' = [p \in Processes |-> Fresh] /\ lock' = NoOne /\ txn' = NoOne
    /\ UNCHANGED <<mtime, written, acked, deaths>>
  BY Numbers, RegistryAssumption DEF SystemDown, LogInv, RegistryTypeOK
<1>1. PICK kept \in synced .. Len(log) :
        /\ log' = SubSeq(log, 1, kept)
        /\ torn' \in {torn, kept < Len(log)}
        /\ synced' = kept
  BY DEF SystemDown
<1> kept \in Nat /\ kept <= Len(log) /\ synced <= kept
  OBVIOUS
<1>9. torn' \in BOOLEAN
  <2> DEFINE lost == kept < Len(log)
  <2>1. lost \in BOOLEAN
    OBVIOUS
  <2>2. torn' = torn \/ torn' = lost
    BY <1>1
  <2> HIDE DEF lost
  <2> QED
    BY <2>1, <2>2
<1>2. /\ log' \in Seq(Line) /\ Len(log') = kept /\ \A i \in 1 .. kept : log'[i] = log[i]
  <2>1. \A i \in 1 .. kept : log[i] \in Line
    OBVIOUS
  <2>2. /\ log' \in Seq(Line) /\ Len(log') = IF 1 <= kept THEN kept - 1 + 1 ELSE 0
        /\ \A i \in 1 .. kept - 1 + 1 : log'[i] = log[1 + i - 1]
    BY <1>1, <2>1, SubSeqProperties
  <2> QED
    BY <2>2
<1>3. Unbroken'
  <2>1. /\ \A i \in 1 .. Len(log) : log[i].id \in 1 .. written /\ log[i].seq = i
        /\ Len(log) <= written /\ written <= mtime /\ (torn => mtime > 0)
    BY DEF LogInv, Unbroken
  <2>2. \A i \in 1 .. Len(log') : log'[i].id \in 1 .. written' /\ log'[i].seq = i
    BY <1>2, <2>1
  <2>3. Len(log') <= written' /\ written' <= mtime'
    BY <1>2, <2>1
  <2>4. torn' => mtime' > 0
    <3>1. kept < Len(log) => mtime > 0
      BY <2>1
    <3> QED
      BY <1>1, <2>1, <3>1
  <2> QED
    BY <2>2, <2>3, <2>4 DEF Unbroken
<1>4. IndexOK(index)' /\ IndexOK(durable)'
  <2>1. IndexOK(NoIndex)
    BY DEF IndexOK, NoIndex
  <2>2. PICK x \in {index, durable, NoIndex} : x = index'
    OBVIOUS
  <2>3. IndexOK(x)
    BY <2>1 DEF LogInv
  <2>4. IndexOK(index)'
    BY <2>2, <2>3 DEF IndexOK
  <2> QED
    BY <2>4 DEF IndexOK
<1>5. acked' \subseteq Kept'
  <2>1. Kept \subseteq Kept'
    BY <1>1, <1>2 DEF Kept
  <2> QED
    BY <2>1 DEF LogInv
<1>6. RegistryTypeOK'
  <2>1. proc' \in [Processes -> ProcessState]
    BY FreshTyped
  <2>2. torn' \in BOOLEAN
    BY <1>9
  <2>5. synced' \in 0 .. Len(log')
    BY <1>1, <1>2
  <2>6. outages' \in 0 .. MaxOutages
    OBVIOUS
  <2>3. /\ mtime' \in Nat /\ written' \in 0 .. MaxWrites /\ acked' \subseteq Ids
        /\ deaths' \in 0 .. MaxDeaths
    BY DEF LogInv, RegistryTypeOK
  <2>4. \A p \in Processes : proc'[p].pc = "idle"
    BY FreshTyped
  <2> QED
    BY <1>2, <2>1, <2>2, <2>3, <2>4, <2>5, <2>6 DEF RegistryTypeOK
<1>7. NoPrint = Fingerprint' => index'.offset = 0 /\ Len(log') = 0 /\ torn' = FALSE
  <2> SUFFICES ASSUME NoPrint = Fingerprint'
               PROVE  index'.offset = 0 /\ Len(log') = 0 /\ torn' = FALSE
    OBVIOUS
  <2>1. mtime' = 0 /\ 2 * Len(log') + (IF torn' THEN 1 ELSE 0) = 0
    BY DEF NoPrint, Fingerprint, Size
  <2>2. written' = 0
    BY <1>3, <2>1 DEF Unbroken
  <2>3. torn' \in BOOLEAN /\ Len(log') \in Nat
    BY <1>2, <1>9
  <2>4. index'.offset \in 0 .. 0
    BY <1>4, <2>2 DEF IndexOK
  <2> QED
    BY <2>1, <2>3, <2>4
<1>8. ASSUME NEW p \in Processes
      PROVE  Knows(p)' /\ Appends(p)' /\ Reads(p)'
  <2>1. proc'[p] = Fresh /\ Len(log') \in Nat /\ mtime' \in Nat /\ written' \in Nat
    BY <1>2
  <2> QED
    BY <1>7, <2>1, FreshItself
<1> QED
  BY <1>3, <1>4, <1>5, <1>6, <1>8 DEF LogInv

-----------------------------------------------------------------------------
(* The specification *)

LEMMA Unchanged ==
  ASSUME LogInv, UNCHANGED vars
  PROVE  LogInv'
<1> UNCHANGED <<log, torn, synced, mtime, index, durable, lock, txn, proc, written, acked,
                deaths, outages>>
  BY DEF vars, file
<1>1. Fingerprint' = Fingerprint /\ Complete' = Complete /\ Kept' = Kept
  BY DEF Fingerprint, Size, Complete, Kept
<1>2. RegistryTypeOK' /\ Unbroken' /\ IndexOK(index)' /\ IndexOK(durable)' /\ acked' \subseteq Kept'
  BY <1>1 DEF LogInv, RegistryTypeOK, Unbroken, IndexOK
<1>3. ASSUME NEW q \in Processes
      PROVE  Knows(q)' /\ Appends(q)' /\ Reads(q)'
  BY <1>1 DEF LogInv, Knows, Appends, Reads, Syncing
<1> QED
  BY <1>2, <1>3 DEF LogInv

LEMMA InitOK == Init => LogInv
<1> SUFFICES ASSUME Init PROVE LogInv
  OBVIOUS
<1> /\ log = << >> /\ torn = FALSE /\ synced = 0 /\ mtime = 0 /\ written = 0 /\ acked = {}
    /\ index = NoIndex /\ durable = NoIndex /\ lock = NoOne /\ txn = NoOne
    /\ proc = [p \in Processes |-> Fresh] /\ deaths = 0 /\ outages = 0
  BY DEF Init
<1>1. log \in Seq(Line) /\ Len(log) = 0
  BY EmptySeq
<1>2. RegistryTypeOK
  <2>1. proc \in [Processes -> ProcessState] /\ \A p \in Processes : proc[p].pc = "idle"
    BY FreshTyped
  <2>2. /\ synced \in 0 .. Len(log) /\ written \in 0 .. MaxWrites
        /\ deaths \in 0 .. MaxDeaths /\ outages \in 0 .. MaxOutages
    BY <1>1, RegistryAssumption
  <2> QED
    BY <1>1, <2>1, <2>2 DEF RegistryTypeOK
<1>3. Unbroken /\ acked \subseteq Kept
  BY <1>1 DEF Unbroken
<1>4. IndexOK(index) /\ IndexOK(durable)
  BY DEF IndexOK, NoIndex
<1>5. ASSUME NEW p \in Processes
      PROVE  Knows(p) /\ Appends(p) /\ Reads(p)
  <2>1. proc[p] = Fresh /\ index.offset = 0
    BY DEF NoIndex
  <2>4. 0 <= 2 * Len(log) + 1 /\ ~(0 > 0) /\ mtime = 0
    BY <1>1 DEF Init
  <2>2. Knows(p)
    <3>1. /\ proc[p].print.mtime = 0 /\ proc[p].applied.mtime = 0 /\ proc[p].print.size = 0
          /\ proc[p].seq = 0 /\ proc[p].partial = FALSE /\ proc[p].pc = "idle"
      BY <2>1, FreshTyped
    <3>2. index.offset = Len(log) /\ 0 = Len(log) /\ FALSE = torn /\ 0 <= mtime /\ 0 <= written
      BY <1>1, <2>1, <2>4
    <3> QED
      BY <2>4, <3>1, <3>2 DEF Knows
  <2>3. Appends(p) /\ Reads(p)
    BY <2>1, FreshTyped DEF Appends, Reads, Syncing
  <2> QED
    BY <2>2, <2>3
<1> QED
  BY <1>2, <1>3, <1>4, <1>5 DEF LogInv

LEMMA StepOK == LogInv /\ [Next]_vars => LogInv'
<1> SUFFICES ASSUME LogInv, [Next]_vars PROVE LogInv'
  OBVIOUS
<1>1. ASSUME NEW p \in Processes,
             \/ Read(p) \/ Lock(p) \/ Get(p) \/ Sync(p) \/ AppendStep(p)
             \/ IndexBusy(p) \/ WriteTorn(p) \/ Die(p)
      PROVE  LogInv'
  <2>1. CASE Read(p) \/ Lock(p) \/ Get(p)
    BY <2>1, ReadOK, LockOK, GetOK
  <2>2. CASE Sync(p)
    BY <2>2, StatOK, StateOK, BeginOK, ApplyTailOK, RebuildOK DEF Sync
  <2>3. CASE AppendStep(p)
    BY <2>3, TruncateOK, TruncatedOK, WriteOK, FsyncOK, OwnAppendOK, ReleaseOK DEF AppendStep
  <2>4. CASE IndexBusy(p) \/ WriteTorn(p) \/ Die(p)
    BY <2>4, IndexBusyOK, WriteTornOK, DieOK
  <2> QED
    BY <1>1, <2>1, <2>2, <2>3, <2>4
<1>2. CASE Checkpoint
  BY <1>2, CheckpointOK
<1>3. CASE SystemDown
  BY <1>3, SystemDownOK
<1>4. CASE UNCHANGED vars
  BY <1>4, Unchanged
<1> QED
  BY <1>1, <1>2, <1>3, <1>4 DEF Next

(* The invariant of the specification: the numbers of the log, and what every
   process knows of the file and the index at each step of _sync and _append *)
THEOREM LogInvariant == Spec => []LogInv
BY InitOK, StepOK, PTL DEF Spec

(* The types, and who holds registry.lock and the transaction on the index *)
THEOREM RegistryTyped == Spec => []RegistryTypeOK
<1>1. LogInv => RegistryTypeOK
  BY DEF LogInv
<1> QED
  BY <1>1, LogInvariant, PTL

(* An event whose append returned stays in the log, whatever torn lines were
   cut and however often the system went down (_append_locked) *)
THEOREM AcknowledgedStay == Spec => []AcknowledgedKept
<1>1. LogInv => AcknowledgedKept
  BY CompleteIs DEF LogInv, AcknowledgedKept
<1> QED
  BY <1>1, LogInvariant, PTL

(* The sequence numbers of the log count its events (_append_locked) *)
THEOREM SequenceCounts == Spec => []SequenceUnbroken
<1>1. LogInv => SequenceUnbroken
  BY Numbers DEF LogInv, Unbroken, SequenceUnbroken
<1> QED
  BY <1>1, LogInvariant, PTL

(* A read sees every event that was complete when it began (_sync) *)
THEOREM ReadersSee == Spec => []ReadsFresh
<1>1. LogInv => ReadsFresh
  <2> SUFFICES ASSUME LogInv, NEW p \in Processes, proc[p].pc = "get",
                      NEW id \in proc[p].floor \cap Complete
               PROVE  \E i \in 1 .. index.offset : i <= Len(log) /\ log[i].id = id
    BY DEF ReadsFresh
  <2>1. PICK i \in 1 .. Len(log) : log[i].id = id /\ i <= index.offset
    BY DEF LogInv, Reads
  <2> QED
    BY <2>1, Numbers
<1> QED
  BY <1>1, LogInvariant, PTL

-----------------------------------------------------------------------------
(* Recursive functions over the positions of a sequence *)

(* Every nonempty set of numbers has a least one *)
LEMMA Least ==
  ASSUME NEW T \in SUBSET Nat, T # {}
  PROVE  \E t \in T : \A u \in T : t <= u
<1>1. PICK t \in T : \A u \in T : ~(<<u, t>> \in OpToRel(<, Nat))
  <2> DEFINE R == OpToRel(<, Nat)
  <2>1. IsWellFoundedOn(R, Nat)
    BY NatLessThanWellFounded
  <2> HIDE DEF R
  <2>2. \E t \in T : \A u \in T : ~(<<u, t>> \in R)
    BY <2>1, WFMin, Zenon
  <2> QED
    BY <2>2 DEF R
<1>2. \A u \in T : t <= u
  <2> TAKE u \in T
  <2>1. <<u, t>> \notin {pair \in Nat \X Nat : pair[1] < pair[2]}
    BY <1>1 DEF OpToRel
  <2> QED
    BY <2>1
<1> QED
  BY <1>2

(* Induction up to n: the least number outside of S would follow one in S *)
LEMMA UpTo ==
  ASSUME NEW n \in Nat, NEW S, 0 \in S, \A k \in 0 .. n - 1 : k \in S => k + 1 \in S
  PROVE  0 .. n \subseteq S
<1> DEFINE T == {k \in 0 .. n : k \notin S}
<1>1. SUFFICES ASSUME T # {} PROVE FALSE
  OBVIOUS
<1>2. PICK t \in T : \A u \in T : t <= u
  <2>1. T \in SUBSET Nat
    OBVIOUS
  <2> HIDE DEF T
  <2> QED
    BY <1>1, <2>1, Least
<1>3. t # 0 /\ t - 1 \in 0 .. n - 1 /\ t - 1 \notin T
  BY <1>2
<1> QED
  BY <1>2, <1>3

(* The function that Folders chooses has the values its definition gives it *)
LEMMA FoldersDef ==
  ASSUME NEW record, NEW lines \in Seq(Line)
  PROVE  Folders(record, lines) =
           [n \in 0 .. Len(lines) |->
              IF n = 0 THEN [record |-> record, beat |-> 0]
                       ELSE Apply(Folders(record, lines)[n - 1], lines[n])]
<1> DEFINE base == [record |-> record, beat |-> 0]
           P(f, k) == f = [n \in 0 .. k |-> IF n = 0 THEN base ELSE Apply(f[n - 1], lines[n])]
           S == {k \in Nat : \E f : P(f, k)}
<1> Len(lines) \in Nat
  OBVIOUS
<1>1. 0 \in S
  <2>1. P([n \in 0 .. 0 |-> base], 0)
    OBVIOUS
  <2> QED
    BY <2>1
<1>2. ASSUME NEW k \in Nat, k \in S
      PROVE  k + 1 \in S
  <2>1. PICK f : P(f, k)
    BY <1>2
  <2> DEFINE g == [n \in 0 .. k + 1 |-> IF n = k + 1 THEN Apply(f[k], lines[n]) ELSE f[n]]
  <2>2. P(g, k + 1)
    <3>1. \A n \in 0 .. k : g[n] = f[n]
      OBVIOUS
    <3>2. ASSUME NEW n \in 0 .. k + 1
          PROVE  g[n] = IF n = 0 THEN base ELSE Apply(g[n - 1], lines[n])
      <4>1. CASE n = k + 1
        BY <4>1
      <4>2. CASE n # k + 1
        <5>1. n \in 0 .. k /\ (n # 0 => n - 1 \in 0 .. k)
          BY <4>2
        <5> HIDE DEF g
        <5>2. f[n] = IF n = 0 THEN base ELSE Apply(f[n - 1], lines[n])
          BY <2>1, <5>1
        <5> QED
          BY <3>1, <5>1, <5>2
      <4> QED
        BY <4>1, <4>2
    <3> QED
      BY <3>2
  <2> HIDE DEF P, g
  <2> QED
    BY <2>2
<1>3. \E f : P(f, Len(lines))
  <2>1. \A k \in 0 .. Len(lines) - 1 : k \in S => k + 1 \in S
    <3> HIDE DEF S
    <3> QED
      BY <1>2
  <2>2. 0 .. Len(lines) \subseteq S
    <3> HIDE DEF S
    <3> QED
      BY <1>1, <2>1, UpTo
  <2> QED
    BY <2>2
<1> QED
  BY <1>3, Zenon DEF Folders

LEMMA RecordsDef ==
  ASSUME NEW lines \in Seq(Line)
  PROVE  Records(lines) =
           [n \in 0 .. Len(lines) |->
              IF n = 0 THEN NoRecord ELSE After(Records(lines)[n - 1], lines[n])]
<1> DEFINE P(f, k) == f = [n \in 0 .. k |-> IF n = 0 THEN NoRecord
                                                     ELSE After(f[n - 1], lines[n])]
           S == {k \in Nat : \E f : P(f, k)}
<1> Len(lines) \in Nat
  OBVIOUS
<1>1. 0 \in S
  <2>1. P([n \in 0 .. 0 |-> NoRecord], 0)
    OBVIOUS
  <2> QED
    BY <2>1
<1>2. ASSUME NEW k \in Nat, k \in S
      PROVE  k + 1 \in S
  <2>1. PICK f : P(f, k)
    BY <1>2
  <2> DEFINE g == [n \in 0 .. k + 1 |-> IF n = k + 1 THEN After(f[k], lines[n]) ELSE f[n]]
  <2>2. P(g, k + 1)
    <3>1. \A n \in 0 .. k : g[n] = f[n]
      OBVIOUS
    <3>2. ASSUME NEW n \in 0 .. k + 1
          PROVE  g[n] = IF n = 0 THEN NoRecord ELSE After(g[n - 1], lines[n])
      <4>1. CASE n = k + 1
        BY <4>1
      <4>2. CASE n # k + 1
        <5>1. n \in 0 .. k /\ (n # 0 => n - 1 \in 0 .. k)
          BY <4>2
        <5> HIDE DEF g
        <5>2. f[n] = IF n = 0 THEN NoRecord ELSE After(f[n - 1], lines[n])
          BY <2>1, <5>1
        <5> QED
          BY <3>1, <5>1, <5>2
      <4> QED
        BY <4>1, <4>2
    <3> QED
      BY <3>2
  <2> HIDE DEF P, g
  <2> QED
    BY <2>2
<1>3. \E f : P(f, Len(lines))
  <2>1. \A k \in 0 .. Len(lines) - 1 : k \in S => k + 1 \in S
    <3> HIDE DEF S
    <3> QED
      BY <1>2
  <2>2. 0 .. Len(lines) \subseteq S
    <3> HIDE DEF S
    <3> QED
      BY <1>1, <2>1, UpTo
  <2> QED
    BY <2>2
<1> QED
  BY <1>3, Zenon DEF Records

-----------------------------------------------------------------------------
(* Putting heartbeats off makes the record that every event in order makes *)

IsRecord(x) == x = [updates |-> x.updates, active |-> x.active]

IsFolder(x) == x = [record |-> x.record, beat |-> x.beat] /\ IsRecord(x.record)

(* What a line has to be: an event that has an identity *)
Events(lines) ==
  \A i \in 1 .. Len(lines) : lines[i] \in Line /\ lines[i] # Garbage /\ lines[i].id # 0

LEMMA ApplyIsAfter ==
  ASSUME NEW folder, IsFolder(folder), NEW line \in Line, line # Garbage, line.id # 0
  PROVE  /\ IsFolder(Apply(folder, line)) /\ IsRecord(After(Finish(folder), line))
         /\ Finish(Apply(folder, line)) = After(Finish(folder), line)
<1>1. IsRecord(Finish(folder))
  BY DEF IsFolder, IsRecord, Finish
<1>2. CASE line.beat
  <2>1. Apply(folder, line) = [folder EXCEPT !.beat = line.id]
    BY <1>2 DEF Apply
  <2>2. Apply(folder, line) = [record |-> folder.record, beat |-> line.id]
    BY <2>1 DEF IsFolder
  <2>3. Finish(Apply(folder, line)) = [updates |-> folder.record.updates, active |-> line.id]
    BY <2>2 DEF Finish, IsFolder, IsRecord
  <2>4. After(Finish(folder), line) = [Finish(folder) EXCEPT !.active = line.id]
    BY <1>2 DEF After
  <2>5. After(Finish(folder), line) = [updates |-> folder.record.updates, active |-> line.id]
    BY <2>4 DEF Finish, IsFolder, IsRecord
  <2> QED
    BY <2>2, <2>3, <2>5 DEF IsFolder, IsRecord
<1>3. CASE ~line.beat
  <2>1. Apply(folder, line) =
          [record |-> [Finish(folder) EXCEPT !.updates = Append(@, line.id)], beat |-> 0]
    BY <1>3 DEF Apply
  <2>2. After(Finish(folder), line) = [Finish(folder) EXCEPT !.updates = Append(@, line.id)]
    BY <1>3 DEF After
  <2> DEFINE before == Finish(folder)
             updates == Append(before.updates, line.id)
             record == [before EXCEPT !.updates = updates]
  <2>3. record = [updates |-> updates, active |-> before.active]
    <3>1. before = [updates |-> before.updates, active |-> before.active]
      BY <1>1 DEF IsRecord
    <3> HIDE DEF before, updates
    <3> QED
      BY <3>1
  <2>4. IsRecord(record)
    BY <2>3 DEF IsRecord
  <2> HIDE DEF record
  <2>5. Finish([record |-> record, beat |-> 0]) = record
    BY DEF Finish
  <2>6. IsFolder([record |-> record, beat |-> 0])
    BY <2>4 DEF IsFolder
  <2> QED
    BY <2>1, <2>2, <2>4, <2>5, <2>6 DEF record
<1> QED
  BY <1>2, <1>3 DEF Line

LEMMA RecordsAt ==
  ASSUME NEW lines \in Seq(Line)
  PROVE  /\ Records(lines)[0] = NoRecord
         /\ \A n \in 0 .. Len(lines) - 1 :
              Records(lines)[n + 1] = After(Records(lines)[n], lines[n + 1])
<1> DEFINE R == Records(lines)
<1>1. R = [n \in 0 .. Len(lines) |-> IF n = 0 THEN NoRecord ELSE After(R[n - 1], lines[n])]
  BY RecordsDef
<1> HIDE DEF R
<1> Len(lines) \in Nat
  OBVIOUS
<1>2. R[0] = NoRecord
  BY <1>1
<1>3. ASSUME NEW n \in 0 .. Len(lines) - 1
      PROVE  R[n + 1] = After(R[n], lines[n + 1])
  <2>1. n + 1 \in 0 .. Len(lines) /\ n + 1 # 0 /\ (n + 1) - 1 = n
    OBVIOUS
  <2> QED
    BY <1>1, <2>1
<1> QED
  BY <1>2, <1>3 DEF R

LEMMA FoldersAt ==
  ASSUME NEW record, NEW lines \in Seq(Line)
  PROVE  /\ Folders(record, lines)[0] = [record |-> record, beat |-> 0]
         /\ \A n \in 0 .. Len(lines) - 1 :
              Folders(record, lines)[n + 1] = Apply(Folders(record, lines)[n], lines[n + 1])
<1> DEFINE F == Folders(record, lines)
<1>1. F = [n \in 0 .. Len(lines) |-> IF n = 0 THEN [record |-> record, beat |-> 0]
                                              ELSE Apply(F[n - 1], lines[n])]
  BY FoldersDef
<1> HIDE DEF F
<1> Len(lines) \in Nat
  OBVIOUS
<1>2. F[0] = [record |-> record, beat |-> 0]
  BY <1>1
<1>3. ASSUME NEW n \in 0 .. Len(lines) - 1
      PROVE  F[n + 1] = Apply(F[n], lines[n + 1])
  <2>1. n + 1 \in 0 .. Len(lines) /\ n + 1 # 0 /\ (n + 1) - 1 = n
    OBVIOUS
  <2> QED
    BY <1>1, <2>1
<1> QED
  BY <1>2, <1>3 DEF F

(* Folding the lines from some position of a log on, from the record of that
   position, makes the record of the position where they end *)
LEMMA FoldedIs ==
  ASSUME NEW lines \in Seq(Line), Events(lines), NEW tail \in Seq(Line),
         NEW o \in Nat, o + Len(tail) = Len(lines), IsRecord(Records(lines)[o]),
         \A i \in 1 .. Len(tail) : tail[i] = lines[o + i]
  PROVE  /\ Folded(Records(lines)[o], tail) = Records(lines)[Len(lines)]
         /\ IsRecord(Records(lines)[Len(lines)])
<1> DEFINE R == Records(lines)
           F == Folders(R[o], tail)
           S == {n \in 0 .. Len(tail) :
                   IsFolder(F[n]) /\ IsRecord(R[o + n]) /\ Finish(F[n]) = R[o + n]}
<1> Len(tail) \in Nat /\ Len(lines) \in Nat
  OBVIOUS
<1>f. /\ F[0] = [record |-> R[o], beat |-> 0]
      /\ \A n \in 0 .. Len(tail) - 1 : F[n + 1] = Apply(F[n], tail[n + 1])
  BY FoldersAt
<1>r. \A n \in 0 .. Len(lines) - 1 : R[n + 1] = After(R[n], lines[n + 1])
  BY RecordsAt
<1> IsRecord(R[o])
  OBVIOUS
<1> HIDE DEF R, F
<1>1. 0 \in S
  BY <1>f DEF IsFolder, Finish
<1>2. ASSUME NEW n \in 0 .. Len(tail) - 1, n \in S
      PROVE  n + 1 \in S
  <2>1. F[n + 1] = Apply(F[n], tail[n + 1])
    BY <1>f
  <2>2. R[(o + n) + 1] = After(R[o + n], lines[(o + n) + 1])
    <3>1. o + n \in 0 .. Len(lines) - 1
      OBVIOUS
    <3> QED
      BY <1>r, <3>1
  <2>3. /\ tail[n + 1] = lines[(o + n) + 1] /\ tail[n + 1] \in Line
        /\ tail[n + 1] # Garbage /\ tail[n + 1].id # 0
    <3>1. n + 1 \in 1 .. Len(tail) /\ (o + n) + 1 \in 1 .. Len(lines) /\ o + (n + 1) = (o + n) + 1
      OBVIOUS
    <3> QED
      BY <3>1 DEF Events
  <2>4. IsFolder(F[n]) /\ Finish(F[n]) = R[o + n]
    BY <1>2
  <2>5. /\ IsFolder(F[n + 1]) /\ IsRecord(R[(o + n) + 1])
        /\ Finish(F[n + 1]) = R[(o + n) + 1]
    BY <2>1, <2>2, <2>3, <2>4, ApplyIsAfter
  <2>6. o + (n + 1) = (o + n) + 1 /\ n + 1 \in 0 .. Len(tail)
    OBVIOUS
  <2> QED
    BY <2>5, <2>6
<1>3. Len(tail) \in S
  <2> HIDE DEF S
  <2>1. 0 .. Len(tail) \subseteq S
    BY <1>1, <1>2, UpTo
  <2> QED
    BY <2>1
<1> QED
  BY <1>3 DEF Folded, R, F

LEMMA RecordsTyped ==
  ASSUME NEW lines \in Seq(Line), Events(lines), NEW m \in 0 .. Len(lines)
  PROVE  IsRecord(Records(lines)[m])
<1> DEFINE R == Records(lines)
           S == {n \in 0 .. Len(lines) : IsRecord(R[n])}
<1> Len(lines) \in Nat
  OBVIOUS
<1>r. R[0] = NoRecord /\ \A n \in 0 .. Len(lines) - 1 : R[n + 1] = After(R[n], lines[n + 1])
  BY RecordsAt
<1> HIDE DEF R
<1>1. 0 \in S
  BY <1>r DEF IsRecord, NoRecord
<1>2. ASSUME NEW n \in 0 .. Len(lines) - 1, n \in S
      PROVE  n + 1 \in S
  <2> DEFINE folder == [record |-> R[n], beat |-> 0]
  <2>1. n + 1 \in 1 .. Len(lines)
    OBVIOUS
  <2>2. IsFolder(folder) /\ Finish(folder) = R[n]
    BY <1>2 DEF IsFolder, Finish
  <2> HIDE DEF folder
  <2>3. lines[n + 1] \in Line /\ lines[n + 1] # Garbage /\ lines[n + 1].id # 0
    BY <2>1 DEF Events
  <2>4. IsRecord(After(R[n], lines[n + 1]))
    BY <2>2, <2>3, ApplyIsAfter
  <2> QED
    BY <1>r, <2>1, <2>4
<1>3. m \in S
  <2> HIDE DEF S
  <2> QED
    BY <1>1, <1>2, UpTo
<1> QED
  BY <1>3 DEF R

(* Logs that agree up to a position agree on the record there *)
LEMMA RecordsAgree ==
  ASSUME NEW a \in Seq(Line), NEW b \in Seq(Line), NEW m \in Nat,
         m <= Len(a), m <= Len(b), \A i \in 1 .. m : a[i] = b[i]
  PROVE  Records(a)[m] = Records(b)[m]
<1> DEFINE A == Records(a)
           B == Records(b)
           S == {n \in 0 .. m : A[n] = B[n]}
<1> Len(a) \in Nat /\ Len(b) \in Nat
  OBVIOUS
<1>1. /\ A[0] = NoRecord /\ \A n \in 0 .. Len(a) - 1 : A[n + 1] = After(A[n], a[n + 1])
      /\ B[0] = NoRecord /\ \A n \in 0 .. Len(b) - 1 : B[n + 1] = After(B[n], b[n + 1])
  BY RecordsAt
<1> HIDE DEF A, B
<1>2. 0 \in S
  BY <1>1
<1>3. ASSUME NEW n \in 0 .. m - 1, n \in S
      PROVE  n + 1 \in S
  <2>1. n \in 0 .. Len(a) - 1 /\ n \in 0 .. Len(b) - 1 /\ n + 1 \in 1 .. m
    OBVIOUS
  <2>2. a[n + 1] = b[n + 1] /\ A[n] = B[n]
    BY <1>3, <2>1
  <2> QED
    BY <1>1, <2>1, <2>2
<1>4. m \in S
  <2> HIDE DEF S
  <2>1. 0 .. m \subseteq S
    BY <1>2, <1>3, UpTo
  <2> QED
    BY <2>1
<1> QED
  BY <1>4 DEF A, B

LEMMA RecordOfPrefix ==
  ASSUME NEW lines \in Seq(Line), NEW m \in 0 .. Len(lines)
  PROVE  RecordOf(SubSeq(lines, 1, m)) = Records(lines)[m]
<1> Len(lines) \in Nat
  OBVIOUS
<1>1. /\ SubSeq(lines, 1, m) \in Seq(Line) /\ Len(SubSeq(lines, 1, m)) = m
      /\ \A i \in 1 .. m : SubSeq(lines, 1, m)[i] = lines[i]
  <2>1. \A i \in 1 .. m : lines[i] \in Line
    BY ElementOfSeq
  <2>2. /\ SubSeq(lines, 1, m) \in Seq(Line)
        /\ Len(SubSeq(lines, 1, m)) = IF 1 <= m THEN m - 1 + 1 ELSE 0
        /\ \A i \in 1 .. m - 1 + 1 : SubSeq(lines, 1, m)[i] = lines[1 + i - 1]
    BY <2>1, SubSeqProperties
  <2> QED
    BY <2>2
<1> DEFINE prefix == SubSeq(lines, 1, m)
<1> HIDE DEF prefix
<1>2. /\ prefix \in Seq(Line) /\ Len(prefix) = m /\ m <= Len(prefix) /\ m <= Len(lines)
      /\ \A i \in 1 .. m : prefix[i] = lines[i]
  BY <1>1 DEF prefix
<1>3. Records(prefix)[m] = Records(lines)[m]
  BY <1>2, RecordsAgree
<1> QED
  BY <1>2, <1>3 DEF RecordOf, prefix

-----------------------------------------------------------------------------
(* The record in the index *)

(* An index holds the record of its position, as long as the log has that
   position.  Before the first outage both indexes end within the log.  After it
   the one on disk may be of lines that are lost; who reads next repairs the
   index, but a second outage may bring the old one back when other lines have
   taken their place, so nothing is claimed of the index then *)
Follows(x) == x.offset <= Len(log) => x.record = Records(log)[x.offset]

Followed ==
  /\ outages <= 1 => Follows(index)
  /\ outages = 0 => /\ index.offset <= Len(log) /\ durable.offset <= Len(log)
                    /\ Follows(durable)

LEMMA LogEvents ==
  ASSUME LogInv
  PROVE  log \in Seq(Line) /\ Len(log) \in Nat /\ Events(log)
<1>1. \A i \in 1 .. Len(log) : log[i].id \in 1 .. written
  BY DEF LogInv, Unbroken
<1> QED
  BY <1>1, Numbers, CompleteIs DEF Events

LEMMA OffsetsTyped ==
  ASSUME LogInv
  PROVE  index.offset \in Nat /\ durable.offset \in Nat /\ outages \in Nat
<1>1. outages \in Nat
  BY RegistryAssumption DEF LogInv, RegistryTypeOK
<1>2. written \in Nat
  BY Numbers
<1> QED
  BY <1>1, <1>2 DEF LogInv, IndexOK

(* The indexes are as they were, in a log that is there still *)
LEMMA FollowedKept ==
  ASSUME LogInv, Followed, UNCHANGED <<index, durable, outages>>,
         log' \in Seq(Line), Len(log) <= Len(log'), \A i \in 1 .. Len(log) : log'[i] = log[i],
         log' # log => index.offset <= Len(log)
  PROVE  Followed'
<1> /\ log \in Seq(Line) /\ Len(log) \in Nat /\ Len(log') \in Nat
    /\ index.offset \in Nat /\ durable.offset \in Nat /\ outages \in Nat
  BY LogEvents, OffsetsTyped, LenProperties
<1>1. ASSUME NEW x, x.offset \in Nat, x.offset <= Len(log), x.record = Records(log)[x.offset]
      PROVE  x.record = Records(log')[x.offset]
  <2> DEFINE now == log'
             m == x.offset
  <2>1. /\ now \in Seq(Line) /\ m \in Nat /\ m <= Len(log) /\ m <= Len(now)
        /\ \A i \in 1 .. m : now[i] = log[i]
    BY <1>1
  <2> HIDE DEF now, m
  <2>2. Records(now)[m] = Records(log)[m]
    BY <2>1, RecordsAgree
  <2> QED
    BY <1>1, <2>2 DEF now, m
<1>2. outages <= 1 => Follows(index)'
  <2> SUFFICES ASSUME outages <= 1, index.offset <= Len(log')
               PROVE  index.record = Records(log')[index.offset]
    BY DEF Follows
  <2>1. Follows(index)
    BY DEF Followed
  <2>2. CASE log' = log
    BY <2>1, <2>2 DEF Follows
  <2>3. CASE log' # log
    BY <1>1, <2>1, <2>3 DEF Follows
  <2> QED
    BY <2>2, <2>3
<1>3. outages = 0 => /\ index.offset <= Len(log') /\ durable.offset <= Len(log')
                     /\ Follows(durable)'
  <2> SUFFICES ASSUME outages = 0
               PROVE  /\ index.offset <= Len(log') /\ durable.offset <= Len(log')
                      /\ Follows(durable)'
    OBVIOUS
  <2>1. /\ index.offset <= Len(log) /\ durable.offset <= Len(log)
        /\ durable.record = Records(log)[durable.offset]
    BY DEF Followed, Follows
  <2>2. durable.record = Records(log')[durable.offset]
    BY <1>1, <2>1
  <2> QED
    BY <2>1, <2>2 DEF Follows
<1> QED
  BY <1>2, <1>3 DEF Followed

(* The index was brought up to the end of the log *)
LEMMA FollowedAnew ==
  ASSUME LogInv, Followed, UNCHANGED <<log, durable, outages>>,
         index'.offset = Len(log), outages <= 1 => index'.record = Records(log)[Len(log)]
  PROVE  Followed'
<1>1. Len(log) \in Nat
  BY LogEvents
<1> QED
  BY <1>1 DEF Followed, Follows

LEMMA ApplyTailFollows ==
  ASSUME LogInv, Followed, NEW p \in Processes, ApplyTail(p)
  PROVE  Followed'
<1> DEFINE tail == TailFrom(index.offset)
<1> /\ UNCHANGED <<log, durable, outages>> /\ log \in Seq(Line) /\ Len(log) \in Nat
    /\ Events(log) /\ index.offset \in Nat /\ proc[p].pc = "tail"
  BY LogEvents, OffsetsTyped DEF ApplyTail, file, At
<1>1. index.offset <= Len(log)
  <2>1. proc[p].print.size \in Nat
    BY DEF LogInv, RegistryTypeOK, ProcessState, Fingerprints
  <2>2. 2 * index.offset <= proc[p].print.size /\ proc[p].print.size <= 2 * Len(log) + 1
    BY DEF LogInv, Knows
  <2> QED
    BY <2>1, <2>2
<1>2. CASE UNCHANGED index
  BY <1>2, LenProperties, FollowedKept
<1>3. CASE index' = [offset |-> Len(log), mtime |-> proc[p].print.mtime,
                     seq |-> LastSeq(tail, index.seq), record |-> Folded(index.record, tail)]
  <2>1. outages <= 1 => Folded(index.record, tail) = Records(log)[Len(log)]
    <3> SUFFICES ASSUME outages <= 1
                 PROVE  Folded(index.record, tail) = Records(log)[Len(log)]
      OBVIOUS
    <3>1. index.record = Records(log)[index.offset] /\ IsRecord(Records(log)[index.offset])
      BY <1>1, RecordsTyped DEF Followed, Follows
    <3>2. /\ tail \in Seq(Line) /\ index.offset + Len(tail) = Len(log)
          /\ \A i \in 1 .. Len(tail) : tail[i] = log[index.offset + i]
      <4>1. index.offset \in 0 .. Len(log)
        BY <1>1
      <4>2. /\ tail \in Seq(Line) /\ Len(tail) = Len(log) - index.offset
            /\ index.offset + Len(tail) = Len(log)
            /\ \A i \in 1 .. Len(log) - index.offset : tail[i] = log[index.offset + i]
        BY <4>1, TailIs
      <4> HIDE DEF tail
      <4> QED
        BY <4>2
    <3> HIDE DEF tail
    <3> QED
      BY <3>1, <3>2, FoldedIs
  <2>2. index'.offset = Len(log) /\ index'.record = Folded(index.record, tail)
    BY <1>3
  <2> HIDE DEF tail
  <2> QED
    BY <2>1, <2>2, FollowedAnew
<1> QED
  BY <1>2, <1>3 DEF ApplyTail

LEMMA RebuildFollows ==
  ASSUME LogInv, Followed, NEW p \in Processes, Rebuild(p)
  PROVE  Followed'
<1> /\ UNCHANGED <<log, durable, outages>> /\ log \in Seq(Line) /\ Len(log) \in Nat
    /\ Events(log)
  BY LogEvents DEF Rebuild, file
<1>1. index'.offset = Len(log) /\ index'.record = Folded(NoRecord, log)
  BY LastSeqIs DEF Rebuild
<1>2. Records(log)[0] = NoRecord /\ IsRecord(Records(log)[0])
  BY RecordsAt, RecordsTyped
<1>3. Folded(NoRecord, log) = Records(log)[Len(log)]
  <2>1. 0 + Len(log) = Len(log) /\ \A i \in 1 .. Len(log) : log[i] = log[0 + i]
    OBVIOUS
  <2>2. Folded(Records(log)[0], log) = Records(log)[Len(log)]
    BY <1>2, <2>1, FoldedIs
  <2> QED
    BY <1>2, <2>2
<1> QED
  BY <1>1, <1>3, FollowedAnew

(* An append whose index is one line behind applies that line *)
LEMMA OwnAppendFollows ==
  ASSUME LogInv, Followed, NEW p \in Processes, OwnAppend(p)
  PROVE  Followed'
<1> DEFINE own == <<log[Len(log)]>>
           me == proc[p]
<1> /\ UNCHANGED <<log, durable, outages>> /\ log \in Seq(Line) /\ Len(log) \in Nat
    /\ Events(log) /\ index.offset \in Nat /\ me.pc = "own"
  BY LogEvents, OffsetsTyped DEF OwnAppend, file, At
<1>1. CASE UNCHANGED index
  BY <1>1, LenProperties, FollowedKept
<1>2. CASE /\ Fingerprint.size = me.applied.size + 2 /\ StateIs(me.applied)
           /\ index' = [offset |-> Len(log), mtime |-> mtime, seq |-> log[Len(log)].seq,
                        record |-> Folded(index.record, own)]
  <2>1. Len(log) = index.offset + 1
    <3>1. ~torn
      BY DEF LogInv, Appends
    <3>2. Fingerprint.size = 2 * Len(log)
      BY <3>1, PrintTyped
    <3>3. me.applied.size = 2 * index.offset
      BY <1>2 DEF StateIs
    <3> QED
      BY <1>2, <3>2, <3>3
  <2>2. outages <= 1 => Folded(index.record, own) = Records(log)[Len(log)]
    <3> SUFFICES ASSUME outages <= 1
                 PROVE  Folded(index.record, own) = Records(log)[Len(log)]
      OBVIOUS
    <3>1. index.record = Records(log)[index.offset] /\ IsRecord(Records(log)[index.offset])
      BY <2>1, RecordsTyped DEF Followed, Follows
    <3>2. log[Len(log)] \in Line
      BY <2>1 DEF Events
    <3>3. /\ own \in Seq(Line) /\ index.offset + Len(own) = Len(log)
          /\ \A i \in 1 .. Len(own) : own[i] = log[index.offset + i]
      BY <2>1, <3>2
    <3> HIDE DEF own
    <3> QED
      BY <3>1, <3>3, FoldedIs
  <2>3. index'.offset = Len(log) /\ index'.record = Folded(index.record, own)
    BY <1>2
  <2> HIDE DEF own
  <2> QED
    BY <2>2, <2>3, FollowedAnew
<1> QED
  BY <1>1, <1>2 DEF OwnAppend

LEMMA TruncateFollows ==
  ASSUME LogInv, Followed, NEW p \in Processes, Truncate(p)
  PROVE  Followed'
<1>1. index.offset = Len(log) /\ log \in Seq(Line)
  BY LogEvents DEF LogInv, Appends, Truncate, At
<1>2. log' = log
  BY <1>1, SubSeqFull DEF Truncate
<1> QED
  BY <1>1, <1>2, LenProperties, FollowedKept DEF Truncate

LEMMA TruncatedFollows ==
  ASSUME LogInv, Followed, NEW p \in Processes, Truncated(p)
  PROVE  Followed'
<1> UNCHANGED <<log, durable, outages>> /\ index' = [index EXCEPT !.mtime = mtime]
  BY DEF Truncated
<1>1. index'.offset = index.offset /\ index'.record = index.record
  BY DEF LogInv, IndexOK
<1>2. index.offset = Len(log) /\ Len(log) \in Nat
  BY LogEvents DEF LogInv, Appends, Truncated, At
<1>3. outages <= 1 => index.record = Records(log)[Len(log)]
  BY <1>2 DEF Followed, Follows
<1> QED
  BY <1>1, <1>2, <1>3, FollowedAnew

LEMMA WriteFollows ==
  ASSUME LogInv, Followed, NEW p \in Processes, Write(p), log' \in Seq(Line)
  PROVE  Followed'
<1>1. PICK line : log' = Append(log, line)
  BY DEF Write
<1>2. UNCHANGED <<index, durable, outages>> /\ index.offset = Len(log)
  BY DEF Write, LogInv, Appends, At
<1>3. log \in Seq(Line) /\ Len(log) \in Nat
  BY LogEvents
<1>4. Len(log') = Len(log) + 1 /\ \A i \in 1 .. Len(log) : log'[i] = log[i]
  BY <1>1, <1>3, AppendProperties
<1> QED
  BY <1>2, <1>3, <1>4, FollowedKept

LEMMA CheckpointFollows ==
  ASSUME LogInv, Followed, Checkpoint
  PROVE  Followed'
<1>1. UNCHANGED <<log, index, outages>> /\ durable' = index
  BY DEF Checkpoint, file
<1>2. outages \in Nat
  BY OffsetsTyped
<1> QED
  BY <1>1, <1>2 DEF Followed, Follows

(* What is left of the log is the beginning of what it was, and what is left of
   the index was right *)
LEMMA SystemDownFollows ==
  ASSUME LogInv, Followed, SystemDown
  PROVE  Followed'
<1> /\ log \in Seq(Line) /\ Len(log) \in Nat /\ synced \in 0 .. Len(log)
    /\ outages \in Nat /\ outages' = outages + 1 /\ index' \in {index, durable, NoIndex}
  BY Numbers, OffsetsTyped DEF SystemDown
<1>1. CASE outages # 0
  BY <1>1 DEF Followed
<1>2. CASE outages = 0
  <2>1. PICK kept \in synced .. Len(log) : log' = SubSeq(log, 1, kept)
    BY DEF SystemDown
  <2>2. ASSUME NEW x \in {index, durable, NoIndex}
        PROVE  /\ x.offset \in Nat /\ x.offset <= Len(log)
               /\ x.record = Records(log)[x.offset]
    <3>1. CASE x = NoIndex
      BY <3>1, RecordsAt DEF NoIndex
    <3>2. CASE x \in {index, durable}
      BY <1>2, <3>2, OffsetsTyped DEF Followed, Follows
    <3> QED
      BY <3>1, <3>2
  <2>3. index'.offset \in Nat /\ index'.record = Records(log)[index'.offset]
    BY <2>2
  <2>4. ASSUME index'.offset <= Len(log')
        PROVE  index'.record = Records(log')[index'.offset]
    <3> DEFINE now == log'
               m == index'.offset
    <3>1. /\ now \in Seq(Line) /\ Len(now) = kept
          /\ \A i \in 1 .. kept : now[i] = log[i]
      <4>1. \A i \in 1 .. kept : log[i] \in Line
        BY ElementOfSeq
      <4>2. /\ now \in Seq(Line) /\ Len(now) = IF 1 <= kept THEN kept - 1 + 1 ELSE 0
            /\ \A i \in 1 .. kept - 1 + 1 : now[i] = log[1 + i - 1]
        BY <2>1, <4>1, SubSeqProperties
      <4> QED
        BY <4>2
    <3>2. m \in Nat /\ m <= Len(now) /\ m <= Len(log) /\ \A i \in 1 .. m : now[i] = log[i]
      BY <2>3, <2>4, <3>1
    <3> HIDE DEF now, m
    <3>3. Records(now)[m] = Records(log)[m]
      BY <3>1, <3>2, RecordsAgree
    <3> QED
      BY <2>3, <3>3 DEF now, m
  <2> QED
    BY <1>2, <2>4 DEF Followed, Follows
<1> QED
  BY <1>1, <1>2

LEMMA FollowsStep == LogInv /\ LogInv' /\ Followed /\ [Next]_vars => Followed'
<1> SUFFICES ASSUME LogInv, LogInv', Followed, [Next]_vars
             PROVE  Followed'
  OBVIOUS
<1> log' \in Seq(Line) /\ log \in Seq(Line) /\ Len(log) \in Nat
  BY LogEvents DEF LogInv, RegistryTypeOK
<1>1. CASE UNCHANGED <<log, index, durable, outages>>
  BY <1>1, FollowedKept
<1>2. ASSUME NEW p \in Processes, Sync(p)
      PROVE  Followed'
  <2>1. CASE Stat(p) \/ State(p) \/ Begin(p)
    BY <1>1, <2>1 DEF Stat, State, Begin, file
  <2> QED
    BY <1>2, <2>1, ApplyTailFollows, RebuildFollows DEF Sync
<1>3. ASSUME NEW p \in Processes, AppendStep(p)
      PROVE  Followed'
  <2>1. CASE Fsync(p) \/ Release(p)
    BY <1>1, <2>1 DEF Fsync, Release, file
  <2> QED
    BY <1>3, <2>1, TruncateFollows, TruncatedFollows, WriteFollows, OwnAppendFollows
       DEF AppendStep
<1>4. ASSUME NEW p \in Processes,
             Read(p) \/ Lock(p) \/ Get(p) \/ IndexBusy(p) \/ WriteTorn(p) \/ Die(p)
      PROVE  Followed'
  BY <1>1, <1>4 DEF Read, Lock, Get, IndexBusy, WriteTorn, Die, file
<1>5. CASE UNCHANGED vars
  BY <1>1, <1>5 DEF vars, file
<1> QED
  BY <1>2, <1>3, <1>4, <1>5, CheckpointFollows, SystemDownFollows DEF Next

(* "events.jsonl remains the authority" (index.py:281): wherever the index ends
   in the log, it holds the record that the events up to there make one after
   the other, heartbeats put off and lines applied by any process, until the
   system goes down a second time *)
THEOREM IndexIsFold == Spec => [](outages <= 1 => IndexFollowsLog)
<1>1. Init => Followed
  <2> SUFFICES ASSUME Init PROVE Followed
    OBVIOUS
  <2>1. /\ log \in Seq(Line) /\ Len(log) = 0 /\ index.offset = 0 /\ durable.offset = 0
        /\ index.record = NoRecord /\ durable.record = NoRecord
    BY EmptySeq DEF Init, NoIndex
  <2>2. Records(log)[0] = NoRecord
    BY <2>1, RecordsAt
  <2> QED
    BY <2>1, <2>2 DEF Followed, Follows
<1>2. LogInv /\ Followed => (outages <= 1 => IndexFollowsLog)
  <2> SUFFICES ASSUME LogInv, Followed, outages <= 1, index.offset <= Len(log)
               PROVE  index.record = RecordOf(SubSeq(log, 1, index.offset))
    BY DEF IndexFollowsLog
  <2>1. log \in Seq(Line) /\ index.offset \in 0 .. Len(log)
    BY LogEvents, OffsetsTyped
  <2>2. index.record = Records(log)[index.offset]
    BY DEF Followed, Follows
  <2> QED
    BY <2>1, <2>2, RecordOfPrefix
<1> QED
  BY <1>1, <1>2, FollowsStep, LogInvariant, PTL DEF Spec
=============================================================================
