----------------------- MODULE InteractionInbox_proofs -----------------------
(***************************************************************************)
(* The questions of a session for any number of requests, workers,         *)
(* operators and answers: one answer wins, none reaches a session that has *)
(* moved on, and no session waits for a task that has ended.               *)
(***************************************************************************)
EXTENDS InteractionInbox, TLAPS

(* A task between its session's move to waiting and its own return *)
Waits == {"activate", "poll", "sleep", "answer", "status", "resume", "latest",
          "fallback"}

(* What an item says of its task, and a task of its worker *)
RegisteredAt(r) ==
  /\ task[r].pc \in {"none", "insert"} => item[r] = NoItem /\ task[r].got = NoOne
  /\ task[r].pc \in Waits \cup {"publish", "deliver"} => ~Is(r, "none")
  /\ task[r].pc # "none" => task[r].by \in Workers
  /\ \A w \in Workers : task[r].by = w => worker[w] \in {"working", "over"}

Registered == \A r \in Requests : RegisteredAt(r)

(* An item has one response, and its receipts and its task agree with it *)
ExpiredFor(r) == item[r].response = NoOne /\ item[r].status \in {"expired", "delivered"}

AnsweredAt(r) ==
  /\ item[r].response # NoOne => item[r].status \in {"accepted", "delivered", "stale"}
  /\ Is(r, "none") => \A k \in Keys : used[r][k] = NoOne
  /\ \A k \in Keys :
       /\ used[r][k] \in Answers => item[r].response = used[r][k]
       /\ used[r][k] = "expire" => ExpiredFor(r)
  /\ task[r].got # NoOne => task[r].got = item[r].response
  /\ task[r].outcome = "expired" => ExpiredFor(r)

Answered == \A r \in Requests : AnsweredAt(r)

(* What an operator was told agrees with the item; a call names an item *)
Called(c) ==
  LET me == client[c]
  IN /\ me.pc # "idle" => me.item \in Requests
     /\ (me.told # "none" \/ me.pc = "send") =>
          /\ me.item \in Requests /\ ~Is(me.item, "none") /\ me.key \in Keys
          /\ \/ me.op = "answer" /\ me.what \in Answers
             \/ me.op = "expire" /\ me.what = "expire"
     /\ me.told = "none" /\ me.pc = "idle" => me.item = NoOne
     /\ me.told = "accepted" => me.what \in Answers /\ item[me.item].response = me.what
     /\ me.told = "expired" => ExpiredFor(me.item)

(* The attempt in which a task asked, and the session since *)
Stands(s, r, lease) ==
  \/ s.status \in {"cancelled", "deleted"}
  \/ s.status = "waiting" /\ s.item = r /\ s.lease = lease

Fenced(r) ==
  /\ task[r].attempt <= session.attempt
  /\ task[r].pc \in Waits \cup {"publish"} => item[r].attempt <= task[r].attempt
  /\ (task[r].pc \in Waits /\ session.attempt = task[r].attempt) =>
       Stands(session, r, task[r].lease)
  /\ task[r].pc = "resume" =>
       item[r].attempt = task[r].attempt /\ item[r].owner = task[r].lease

(* Whom a waiting session waits for *)
Awaited ==
  session.status = "waiting" =>
    /\ session.item \in Requests
    /\ task[session.item].pc \in Waits \cup {"done", "gone"}
    /\ task[session.item].pc \in Waits =>
         /\ task[session.item].attempt = session.attempt
         /\ task[session.item].lease = session.lease

(* The tasks of the worker that has the session ask in its attempt *)
OwnAttempt(r) ==
  (task[r].by = session.lease /\ task[r].by # NoOne) =>
    /\ ~Is(r, "none") => item[r].attempt = session.attempt
    /\ task[r].pc = "insert" => task[r].attempt = session.attempt

InboxInv ==
  /\ InteractionTypeOK /\ Registered
  /\ Answered /\ \A c \in Clients : Called(c)
  /\ \A r \in Requests : Fenced(r) /\ OwnAttempt(r)
  /\ Awaited /\ WaitedFor

-----------------------------------------------------------------------------
(* Types *)

LEMMA InitTyped == Init => InteractionTypeOK
BY InboxAssumption
  DEF Init, InteractionTypeOK, Session, SessionStatus, Item, NoItem, Task, NewTask,
      TaskPC, Asleep, Outcome, Open, Closed, Call, NewCall

USE DEF inbox, Is

ItemStatus == {"none"} \cup Open \cup Closed

LEMMA ItemTyped ==
  ASSUME item \in [Requests -> Item], NEW r \in Requests, NEW s \in ItemStatus,
         Become(r, s)
  PROVE  item' \in [Requests -> Item]
<1>1. [item[r] EXCEPT !.status = s] \in Item
  BY DEF Item, ItemStatus
<1> QED
  BY <1>1 DEF Become

LEMMA TerminalTyped ==
  ASSUME item \in [Requests -> Item], NEW r \in Requests, NEW s \in ItemStatus,
         SetTerminal(r, s)
  PROVE  item' \in [Requests -> Item]
<1>1. CASE Become(r, s)
  BY <1>1, ItemTyped
<1>2. CASE UNCHANGED item
  BY <1>2
<1> QED
  BY <1>1, <1>2 DEF SetTerminal

LEMMA AcceptedTyped ==
  ASSUME NEW i \in Item, NEW a \in Answers
  PROVE  [i EXCEPT !.status = "accepted", !.response = a] \in Item
BY DEF Item, Open

LEMMA GotoTyped ==
  ASSUME task \in [Requests -> Task], NEW r \in Requests, NEW pc \in TaskPC,
         Goto(r, pc)
  PROVE  task' \in [Requests -> Task]
<1>1. [task[r] EXCEPT !.pc = pc] \in Task
  BY DEF Task
<1> QED
  BY <1>1 DEF Goto

LEMMA ReturnTyped ==
  ASSUME task \in [Requests -> Task], NEW r \in Requests, NEW outcome \in Outcome,
         Return(r, outcome)
  PROVE  task' \in [Requests -> Task]
<1>1. task[r] \in Task
  OBVIOUS
<1>2. [NewTask EXCEPT !.pc = "done", !.by = task[r].by, !.got = task[r].got,
                      !.outcome = outcome] \in Task
  BY <1>1 DEF Task, NewTask, TaskPC, Asleep
<1> QED
  BY <1>2 DEF Return

LEMMA ContinueTyped ==
  ASSUME session \in Session, Continue
  PROVE  session' \in Session
BY DEF Continue, Session, SessionStatus

LEMMA TasksTyped ==
  ASSUME InteractionTypeOK, NEW r \in Requests, TaskStep(r)
  PROVE  InteractionTypeOK'
<1> USE DEF InteractionTypeOK
<1>0. /\ item[r] \in Item /\ task[r] \in Task /\ item[r].status \in ItemStatus
      /\ {"publishing", "pending", "stale", "expired", "delivered"} \subseteq ItemStatus
      /\ ItemStatus \subseteq Outcome
      /\ {"refused", "answered", "cancelled"} \subseteq Outcome
  BY DEF Item, ItemStatus, Open, Closed, Outcome
<1>1. CASE Insert(r)
  <2>1. [NoItem EXCEPT !.status = "publishing", !.attempt = task[r].attempt,
                       !.owner = task[r].lease] \in Item
    BY <1>0 DEF Item, NoItem, Task, Open
  <2>2. task' \in [Requests -> Task]
    BY <1>1, GotoTyped DEF Insert, TaskPC
  <2> QED
    BY <1>1, <2>1, <2>2 DEF Insert
<1>2. CASE Publish(r)
  <2>1. CASE session.status = "running"
    <3>1. [session EXCEPT !.status = "waiting", !.item = r] \in Session
      BY DEF Session, SessionStatus
    <3>2. [task[r] EXCEPT !.pc = "activate", !.attempt = session.attempt,
                          !.lease = session.lease] \in Task
      BY <1>0 DEF Task, TaskPC, Session
    <3>3. task' = [task EXCEPT ![r] =
             [@ EXCEPT !.pc = "activate", !.attempt = session.attempt,
                       !.lease = session.lease]]
      BY <1>2, <2>1 DEF Publish
    <3>4. task' \in [Requests -> Task]
      BY <3>2, <3>3
    <3> QED
      BY <1>2, <2>1, <3>1, <3>4 DEF Publish
  <2>2. CASE session.status # "running"
    BY <1>0, <1>2, <2>2, ReturnTyped DEF Publish
  <2> QED
    BY <2>1, <2>2
<1>3. CASE Activate(r)
  BY <1>0, <1>3, ItemTyped, GotoTyped DEF Activate, TaskPC, Asleep
<1>4. CASE Poll(r)
  BY <1>0, <1>4, TerminalTyped, GotoTyped DEF Poll, TaskPC
<1>5. CASE AcceptedAnswer(r)
  <2>1. [task[r] EXCEPT !.pc = "resume", !.got = item[r].response] \in Task
    BY <1>0 DEF Task, TaskPC, Item
  <2> QED
    BY <1>0, <1>5, <2>1, TerminalTyped, GotoTyped DEF AcceptedAnswer, TaskPC
<1>6. CASE LookAgain(r)
  BY <1>0, <1>6, TerminalTyped, GotoTyped DEF LookAgain, TaskPC, Asleep
<1>7. CASE Resume(r)
  BY <1>0, <1>7, ContinueTyped, TerminalTyped, GotoTyped, ReturnTyped
    DEF Resume, TaskPC, Outcome, Closed
<1>8. CASE Deliver(r)
  BY <1>0, <1>8, ItemTyped, ReturnTyped DEF Deliver, Outcome
<1>9. CASE Latest(r)
  <2>1. [task[r] EXCEPT !.pc = "fallback", !.outcome = item[r].status,
                        !.lease = session.lease] \in Task
    BY <1>0 DEF Task, TaskPC, Session
  <2>2. CASE task' = [task EXCEPT ![r].pc = "fallback",
                        ![r].outcome = item[r].status, ![r].lease = session.lease]
    <3>1. task' = [task EXCEPT ![r] = [@ EXCEPT !.pc = "fallback",
                     !.outcome = item[r].status, !.lease = session.lease]]
      BY <2>2
    <3>2. task' \in [Requests -> Task]
      BY <2>1, <3>1
    <3> QED
      BY <1>0, <1>9, <3>2, TerminalTyped DEF Latest
  <2>3. CASE Return(r, "cancelled") \/ Return(r, item[r].status)
    BY <1>0, <1>9, <2>3, TerminalTyped, ReturnTyped DEF Latest
  <2> QED
    BY <1>9, <2>2, <2>3 DEF Latest
<1>10. CASE FallBack(r)
  <2>1. task[r].outcome \in Outcome
    BY <1>0 DEF Task
  <2> QED
    BY <1>10, <2>1, ContinueTyped, ReturnTyped DEF FallBack
<1> QED
  BY <1>1, <1>2, <1>3, <1>4, <1>5, <1>6, <1>7, <1>8, <1>9, <1>10 DEF TaskStep


(* Operators and the session *)

CallPC == {"idle", "send", "stale", "expired", "pending"}

LEMMA ReplyTyped ==
  ASSUME client \in [Clients -> Call], NEW c \in Clients,
         NEW told \in {"accepted", "expired", "conflict"}, Reply(c, told)
  PROVE  client' \in [Clients -> Call]
<1>1. NewCall \in Call
  BY DEF NewCall, Call
<1>2. told # "conflict" => [client[c] EXCEPT !.pc = "idle", !.told = told] \in Call
  BY DEF Call
<1> QED
  BY <1>1, <1>2 DEF Reply

(* What a call of respond or expire may do *)
Repeated(c) ==
  LET me == client[c] IN
  /\ \/ Reply(c, "conflict")
     \/ used[me.item][me.key] = me.what /\ Reply(c, Told(me.op))
  /\ UNCHANGED inbox

Refused(c) ==
  LET r == client[c].item IN
  /\ Is(r, "pending") /\ Reply(c, "conflict") /\ UNCHANGED used
  /\ \E s \in {"expired", "stale"} : Become(r, s)

Won(c) ==
  LET me == client[c]
      r == me.item
  IN /\ Is(r, "pending") /\ used' = [used EXCEPT ![r][me.key] = me.what]
     /\ \/ /\ me.op = "answer" /\ Reply(c, "accepted")
           /\ item' = [item EXCEPT ![r].status = "accepted", ![r].response = me.what]
        \/ /\ me.op = "expire" /\ Reply(c, "expired") /\ Become(r, "expired")

LEMMA SameResponse ==
  ASSUME item \in [Requests -> Item], NEW r \in Requests, NEW s,
         item' = [item EXCEPT ![r].status = s, ![r].response = item[r].response]
  PROVE  Become(r, s)
<1>1. [item[r] EXCEPT !.status = s, !.response = item[r].response] = [item[r] EXCEPT !.status = s]
  BY DEF Item
<1> QED
  BY <1>1 DEF Become

LEMMA SendCases ==
  ASSUME InteractionTypeOK, NEW c \in Clients, Called(c), Send(c)
  PROVE  Repeated(c) \/ Refused(c) \/ Won(c)
<1> DEFINE me == client[c]
           r == me.item
<1>0. /\ r \in Requests /\ me.key \in Keys /\ me.what # NoOne /\ item[r] \in Item
      /\ me.op = "answer" \/ me.op = "expire"
  BY InboxAssumption DEF Called, Send, InteractionTypeOK
<1>1. CASE used[r][me.key] # NoOne \/ ~Is(r, "pending")
  <2>1. UNCHANGED inbox
    BY <1>1 DEF Send
  <2>2. CASE used[r][me.key] = me.what
    BY <1>1, <2>1, <2>2 DEF Send, Repeated
  <2>3. CASE used[r][me.key] # me.what
    BY <1>1, <2>1, <2>3 DEF Send, Repeated
  <2> QED
    BY <2>2, <2>3
<1>2. CASE used[r][me.key] = NoOne /\ Is(r, "pending") /\ ~Granted(me.op, r)
  <2>1. /\ Reply(c, "conflict") /\ UNCHANGED used
        /\ item' = [item EXCEPT ![r].status = Verdict(me.op, r), ![r].response = item[r].response]
    BY <1>2 DEF Send
  <2>2. PICK s \in {"expired", "stale"} : s = Verdict(me.op, r)
    BY <1>0, <1>2 DEF Granted, Verdict, Told
  <2>3. item' = [item EXCEPT ![r].status = s, ![r].response = item[r].response]
    BY <2>1, <2>2
  <2>4. Become(r, s)
    BY <1>0, <2>3, SameResponse DEF InteractionTypeOK
  <2> QED
    BY <1>2, <2>1, <2>4 DEF Refused
<1>3. CASE used[r][me.key] = NoOne /\ Is(r, "pending") /\ Granted(me.op, r)
  <2>1. used' = [used EXCEPT ![r][me.key] = me.what] /\ Reply(c, Told(me.op))
    BY <1>3 DEF Send
  <2>2. CASE me.op = "answer"
    <3>1. Verdict(me.op, r) = "accepted"
      BY <1>3, <2>2 DEF Granted, Verdict, Told
    <3>2. item' = [item EXCEPT ![r].status = "accepted", ![r].response = me.what]
      BY <1>3, <2>2, <3>1 DEF Send
    <3> QED
      BY <1>3, <2>1, <2>2, <3>2 DEF Won, Told
  <2>3. CASE me.op = "expire"
    <3>1. Verdict(me.op, r) = "expired"
      BY <1>3, <2>3 DEF Granted, Verdict, Told
    <3>2. item' = [item EXCEPT ![r].status = "expired", ![r].response = item[r].response]
      BY <1>3, <2>3, <3>1 DEF Send
    <3>3. Become(r, "expired")
      BY <1>0, <3>2, SameResponse DEF InteractionTypeOK
    <3> QED
      BY <1>3, <2>1, <2>3, <3>3 DEF Won, Told
  <2> QED
    BY <1>0, <2>2, <2>3
<1> QED
  BY <1>1, <1>2, <1>3

LEMMA OperatorsTyped ==
  ASSUME InteractionTypeOK, NEW c \in Clients, Called(c), Operator(c)
  PROVE  InteractionTypeOK'
<1> USE DEF InteractionTypeOK
<1>0. /\ client[c] \in Call
      /\ \A r \in Requests : item[r] \in Item /\ used[r] \in [Keys -> Answers \cup {NoOne, "expire"}]
      /\ {"publishing", "pending", "stale", "expired", "accepted"} \subseteq ItemStatus
      /\ calls \in Nat /\ (calls < MaxCalls => calls + 1 \in 0 .. MaxCalls)
  BY InboxAssumption DEF ItemStatus, Open, Closed
<1>1. CASE Choose(c)
  <2>1. PICK r \in Requests, key \in Keys, what \in Answers \cup {"expire"} :
          /\ Is(r, "pending")
          /\ client' = [client EXCEPT ![c] =
            [pc |-> "send", op |-> IF what = "expire" THEN "expire" ELSE "answer",
             item |-> r, what |-> what, key |-> key, told |-> "none"]]
    BY <1>1 DEF Choose
  <2>2. [pc |-> "send", op |-> IF what = "expire" THEN "expire" ELSE "answer",
         item |-> r, what |-> what, key |-> key, told |-> "none"] \in Call
    BY DEF Call
  <2>3. client' \in [Clients -> Call]
    BY <2>1, <2>2
  <2> QED
    BY <1>0, <1>1, <2>3 DEF Choose
<1>2. CASE Retry(c)
  <2>1. [client[c] EXCEPT !.pc = "send"] \in Call
    BY <1>0 DEF Call
  <2> QED
    BY <1>0, <1>2, <2>1 DEF Retry
<1>3. CASE Send(c)
  <2>1. /\ client[c].item \in Requests /\ client[c].key \in Keys
        /\ client[c].what \in Answers \cup {"expire"}
        /\ client[c].op = "answer" => client[c].what \in Answers
    BY <1>3 DEF Send, Called
  <2>2. client' \in [Clients -> Call]
    BY <1>3, SendCases, ReplyTyped DEF Repeated, Refused, Won, Told
  <2>3. CASE Repeated(c)
    BY <1>3, <2>2, <2>3 DEF Send, Repeated
  <2>4. CASE Refused(c)
    <3>1. item' \in [Requests -> Item]
      BY <1>0, <2>1, <2>4, ItemTyped DEF Refused
    <3> QED
      BY <1>3, <2>2, <2>4, <3>1 DEF Send, Refused
  <2>5. CASE Won(c)
    <3>1. used' \in [Requests -> [Keys -> Answers \cup {NoOne, "expire"}]]
      BY <2>1, <2>5 DEF Won
    <3>2. item' \in [Requests -> Item]
      <4>1. CASE client[c].op = "expire"
        BY <1>0, <2>1, <2>5, <4>1, ItemTyped DEF Won
      <4>2. CASE client[c].op = "answer"
        <5>0. item[client[c].item] \in Item /\ client[c].what \in Answers
          BY <1>0, <2>1, <4>2
        <5>1. [item[client[c].item] EXCEPT !.status = "accepted",
                 !.response = client[c].what] \in Item
          BY <5>0, AcceptedTyped
        <5> QED
          BY <1>0, <2>1, <2>5, <4>2, <5>1 DEF Won
      <4> QED
        BY <1>3, <4>1, <4>2 DEF Send, Called
    <3> QED
      BY <1>3, <2>2, <3>1, <3>2 DEF Send
  <2> QED
    BY <1>3, <2>3, <2>4, <2>5, SendCases
<1>4. CASE Reconcile(c)
  <2>1. PICK r \in Requests :
          /\ item[r].status \in Open /\ Plan(r) # "none"
          /\ client' = [client EXCEPT ![c] =
               [NewCall EXCEPT !.pc = Plan(r), !.item = r]]
    BY <1>4 DEF Reconcile
  <2>2. Plan(r) \in {"stale", "expired", "pending"}
    BY <2>1 DEF Plan
  <2>3. [NewCall EXCEPT !.pc = Plan(r), !.item = r] \in Call
    BY <2>2 DEF NewCall, Call
  <2> QED
    BY <1>0, <1>4, <2>1, <2>3 DEF Reconcile
<1>5. CASE Repair(c)
  <2>1. NewCall \in Call /\ client[c].item \in Requests /\ client[c].pc \in ItemStatus
    BY <1>0, <1>5 DEF Repair, NewCall, Call, Called
  <2>2. item' \in [Requests -> Item]
    BY <1>0, <1>5, <2>1, TerminalTyped, ItemTyped DEF Repair
  <2> QED
    BY <1>5, <2>1, <2>2 DEF Repair
<1> QED
  BY <1>1, <1>2, <1>3, <1>4, <1>5 DEF Operator

LEMMA OthersTyped ==
  ASSUME InteractionTypeOK, Next,
         ~ \E r \in Requests : TaskStep(r), ~ \E c \in Clients : Operator(c)
  PROVE  InteractionTypeOK'
<1> USE DEF InteractionTypeOK
<1>1. ASSUME NEW r \in Requests, CloseExpired(r) \/ ListItems(r) \/ DeadlinePasses(r)
      PROVE  InteractionTypeOK'
  <2>1. {"stale", "delivered"} \subseteq ItemStatus
    BY DEF ItemStatus, Closed
  <2> QED
    BY <1>1, <2>1, ItemTyped DEF CloseExpired, ListItems, DeadlinePasses
<1>2. ASSUME NEW w \in Workers, Claim(w) \/ Begin(w)
      PROVE  InteractionTypeOK'
  BY <1>2 DEF Claim, Begin, Ended, Session, SessionStatus
<1>3. ASSUME NEW w \in Workers, End(w) \/ Die(w)
      PROVE  InteractionTypeOK'
  <2>1. Gone(w) \in [Requests -> Task]
    BY DEF Gone, Task, NewTask, TaskPC, Asleep, Outcome
  <2>2. Ended(w) \in Session
    BY DEF Ended, Session, SessionStatus
  <2> QED
    BY <1>3, <2>1, <2>2 DEF End, Die
<1>4. ASSUME NEW w \in Workers, NEW r \in Requests, Ask(w, r)
      PROVE  InteractionTypeOK'
  BY <1>4 DEF Ask, Task, NewTask, TaskPC, Asleep, Outcome, Session
<1>5. CASE Orphan \/ Cancel \/ Delete
  BY <1>5 DEF Orphan, Cancel, Delete, Session, SessionStatus
<1> QED
  BY <1>1, <1>2, <1>3, <1>4, <1>5 DEF Next

LEMMA TypeStep ==
  ASSUME InteractionTypeOK, \A c \in Clients : Called(c), [Next]_vars
  PROVE  InteractionTypeOK'
<1>1. CASE UNCHANGED vars
  BY <1>1 DEF vars, inbox, InteractionTypeOK
<1> QED
  BY <1>1, TasksTyped, OperatorsTyped, OthersTyped

-----------------------------------------------------------------------------
(* How an item changes *)

Allowed(old, new) ==
  \/ new = old
  \/ old \in {"publishing", "pending"} /\ new \in {"pending", "expired", "stale"}
  \/ old = "accepted" /\ new \in {"stale", "delivered"}
  \/ old = "expired" /\ new = "delivered"

Turns(q) ==
  /\ item'[q] = [item[q] EXCEPT !.status = item'[q].status]
  /\ Allowed(item[q].status, item'[q].status)

(* Only the status of items changes, and as it may *)
Turned == used' = used /\ \A q \in Requests : Turns(q)

LEMMA BecomeTurns ==
  ASSUME InteractionTypeOK, NEW r \in Requests, NEW s \in ItemStatus,
         Become(r, s), Allowed(item[r].status, s)
  PROVE  \A q \in Requests : Turns(q)
<1>1. \A q \in Requests : item[q] \in Item
  BY DEF InteractionTypeOK
<1>2. item'[r] = [item[r] EXCEPT !.status = s]
  BY DEF Become, InteractionTypeOK
<1>3. Turns(r)
  BY <1>1, <1>2 DEF Turns, Item
<1>4. \A q \in Requests \ {r} : Turns(q)
  BY <1>1 DEF Become, Turns, Item, Allowed, InteractionTypeOK
<1> QED
  BY <1>3, <1>4

LEMMA SameTurns ==
  ASSUME InteractionTypeOK, UNCHANGED item
  PROVE  \A q \in Requests : Turns(q)
BY DEF Turns, Item, Allowed, InteractionTypeOK

LEMMA TerminalTurns ==
  ASSUME InteractionTypeOK, NEW r \in Requests, NEW s \in {"expired", "stale"},
         SetTerminal(r, s)
  PROVE  \A q \in Requests : Turns(q)
<1>1. CASE UNCHANGED item
  BY <1>1, SameTurns
<1>2. CASE /\ Become(r, s)
           /\ \/ item[r].status \in {"pending", "publishing"}
              \/ s = "stale" /\ item[r].status = "accepted"
  <2>1. s \in ItemStatus /\ Allowed(item[r].status, s)
    BY <1>2 DEF ItemStatus, Closed, Allowed
  <2> QED
    BY <1>2, <2>1, BecomeTurns
<1> QED
  BY <1>1, <1>2 DEF SetTerminal

LEMMA ItemStep ==
  ASSUME InteractionTypeOK, \A c \in Clients : Called(c), [Next]_vars
  PROVE  \/ Turned
         \/ \E r \in Requests : Insert(r)
         \/ \E c \in Clients : Send(c) /\ Won(c)
<1>0. {"pending", "stale", "expired", "delivered"} \subseteq ItemStatus
  BY DEF ItemStatus, Open, Closed
<1>1. UNCHANGED inbox => Turned
  BY SameTurns DEF Turned
<1>2. ASSUME NEW r \in Requests, TaskStep(r), ~Insert(r)
      PROVE  Turned
  <2>1. CASE Activate(r)
    <3>1. CASE Is(r, "publishing")
      BY <1>0, <2>1, <3>1, BecomeTurns DEF Activate, Turned, Allowed
    <3>2. CASE ~Is(r, "publishing")
      BY <2>1, <3>2, SameTurns DEF Activate, Turned
    <3> QED
      BY <3>1, <3>2
  <2>2. CASE Deliver(r)
    <3>1. CASE Is(r, "accepted")
      BY <1>0, <2>2, <3>1, BecomeTurns DEF Deliver, Turned, Allowed
    <3>2. CASE ~Is(r, "accepted")
      BY <2>2, <3>2, SameTurns DEF Deliver, Turned
    <3> QED
      BY <3>1, <3>2
  <2>3. CASE Publish(r) \/ FallBack(r)
    BY <2>3, <1>1 DEF Publish, FallBack
  <2>4. CASE Poll(r)
    BY <2>4, SameTurns, TerminalTurns DEF Poll, Turned
  <2>5. CASE AcceptedAnswer(r)
    BY <2>5, SameTurns, TerminalTurns DEF AcceptedAnswer, Turned
  <2>6. CASE LookAgain(r)
    BY <2>6, SameTurns, TerminalTurns DEF LookAgain, Turned
  <2>7. CASE Resume(r)
    BY <2>7, SameTurns, TerminalTurns DEF Resume, Turned
  <2>8. CASE Latest(r)
    BY <2>8, SameTurns, TerminalTurns DEF Latest, Turned
  <2> QED
    BY <1>2, <2>1, <2>2, <2>3, <2>4, <2>5, <2>6, <2>7, <2>8 DEF TaskStep
<1>3. ASSUME NEW c \in Clients, Operator(c), ~(Send(c) /\ Won(c))
      PROVE  Turned
  <2>1. CASE Choose(c) \/ Retry(c) \/ Reconcile(c)
    BY <2>1, <1>1 DEF Choose, Retry, Reconcile
  <2>2. CASE Send(c)
    <3>1. client[c].item \in Requests
      BY <2>2 DEF Send, Called
    <3>2. CASE Repeated(c)
      BY <1>1, <3>2 DEF Repeated
    <3>3. CASE Refused(c)
      BY <1>0, <3>1, <3>3, BecomeTurns DEF Refused, Turned, Allowed
    <3> QED
      BY <1>3, <2>2, <3>2, <3>3, SendCases
  <2>3. CASE Repair(c)
    <3>1. client[c].item \in Requests
      BY <2>3 DEF Repair, Called
    <3>2. CASE SetTerminal(client[c].item, client[c].pc)
                 /\ client[c].pc \in {"stale", "expired"}
      BY <2>3, <3>1, <3>2, TerminalTurns DEF Repair, Turned
    <3>3. CASE Is(client[c].item, "publishing") /\ Become(client[c].item, "pending")
      BY <1>0, <2>3, <3>1, <3>3, BecomeTurns DEF Repair, Turned, Allowed
    <3>4. CASE UNCHANGED item
      BY <2>3, <3>4, SameTurns DEF Repair, Turned
    <3> QED
      BY <2>3, <3>2, <3>3, <3>4 DEF Repair
  <2> QED
    BY <1>3, <2>1, <2>2, <2>3 DEF Operator
<1>4. ASSUME NEW r \in Requests, CloseExpired(r)
      PROVE  Turned
  BY <1>0, <1>4, BecomeTurns DEF CloseExpired, Turned, Allowed
<1>5. ASSUME NEW r \in Requests, ListItems(r)
      PROVE  Turned
  BY <1>0, <1>5, BecomeTurns DEF ListItems, Turned, Allowed
<1>6. ASSUME NEW r \in Requests, DeadlinePasses(r)
      PROVE  UNCHANGED inbox
  BY <1>6 DEF DeadlinePasses
<1>7. ASSUME NEW w \in Workers,
             Claim(w) \/ Begin(w) \/ End(w) \/ Die(w) \/ \E r \in Requests : Ask(w, r)
      PROVE  UNCHANGED inbox
  BY <1>7 DEF Claim, Begin, End, Die, Ask
<1>8. CASE Orphan \/ Cancel \/ Delete \/ UNCHANGED vars
  BY <1>1, <1>8 DEF Orphan, Cancel, Delete, vars
<1> QED
  BY <1>1, <1>2, <1>3, <1>4, <1>5, <1>6, <1>7, <1>8 DEF Next

-----------------------------------------------------------------------------
(* The answer of an item *)

(* What a step may give a task as its answer, or as its end *)
Result(q) ==
  /\ task'[q].got \in {task[q].got, NoOne, item[q].response}
  /\ \/ task'[q].outcome = task[q].outcome
     \/ task'[q].outcome # "expired"
     \/ Is(q, "expired")

LEMMA Results ==
  ASSUME InteractionTypeOK, [Next]_vars
  PROVE  \A q \in Requests : Result(q)
<1> USE DEF InteractionTypeOK
<1>0. \A q \in Requests : task[q] \in Task
  OBVIOUS
<1>1. CASE UNCHANGED task
  BY <1>1 DEF Result
<1>2. ASSUME NEW r \in Requests, NEW pc, Goto(r, pc)
      PROVE  \A q \in Requests : Result(q)
  BY <1>0, <1>2 DEF Goto, Result, Task
<1>3. ASSUME NEW r \in Requests, NEW outcome, Return(r, outcome),
             outcome # "expired" \/ outcome = task[r].outcome \/ Is(r, "expired")
      PROVE  \A q \in Requests : Result(q)
  BY <1>0, <1>3 DEF Return, Result, NewTask
<1>4. ASSUME NEW r \in Requests, TaskStep(r)
      PROVE  \A q \in Requests : Result(q)
  <2>1. CASE Insert(r)
    BY <1>2, <2>1 DEF Insert
  <2>2. CASE Publish(r)
    <3>1. CASE Return(r, "refused")
      BY <1>3, <3>1
    <3>2. CASE task' = [task EXCEPT ![r].pc = "activate",
                 ![r].attempt = session.attempt, ![r].lease = session.lease]
      BY <1>0, <3>2 DEF Result, Task
    <3> QED
      BY <2>2, <3>1, <3>2 DEF Publish
  <2>3. CASE Activate(r)
    BY <1>2, <2>3 DEF Activate
  <2>4. CASE Poll(r)
    BY <1>2, <2>4 DEF Poll
  <2>5. CASE AcceptedAnswer(r)
    <3>1. CASE Goto(r, "status")
      BY <1>2, <3>1
    <3>2. CASE task' = [task EXCEPT ![r].pc = "resume", ![r].got = item[r].response]
      BY <1>0, <3>2 DEF Result, Task
    <3> QED
      BY <2>5, <3>1, <3>2 DEF AcceptedAnswer
  <2>6. CASE LookAgain(r)
    BY <1>2, <2>6 DEF LookAgain
  <2>7. CASE Resume(r)
    BY <1>2, <1>3, <2>7 DEF Resume
  <2>8. CASE Deliver(r)
    BY <1>3, <2>8 DEF Deliver
  <2>9. CASE Latest(r)
    <3>1. CASE Return(r, "cancelled")
      BY <1>3, <3>1
    <3>2. CASE Return(r, item[r].status)
      BY <1>3, <3>2
    <3>3. CASE task' = [task EXCEPT ![r].pc = "fallback",
                 ![r].outcome = item[r].status, ![r].lease = session.lease]
      BY <1>0, <3>3 DEF Result, Task
    <3> QED
      BY <2>9, <3>1, <3>2, <3>3 DEF Latest
  <2>10. CASE FallBack(r)
    BY <1>3, <2>10 DEF FallBack
  <2> QED
    BY <1>4, <2>1, <2>2, <2>3, <2>4, <2>5, <2>6, <2>7, <2>8, <2>9, <2>10 DEF TaskStep
<1>5. ASSUME NEW w \in Workers, NEW r \in Requests, Ask(w, r)
      PROVE  \A q \in Requests : Result(q)
  BY <1>0, <1>5 DEF Ask, Result, NewTask, Task
<1>6. ASSUME NEW w \in Workers, End(w) \/ Die(w)
      PROVE  \A q \in Requests : Result(q)
  <2> SUFFICES ASSUME NEW q \in Requests
               PROVE  Result(q)
    OBVIOUS
  <2>1. task' = Gone(w)
    BY <1>6 DEF End, Die
  <2>2. CASE task'[q] = task[q]
    BY <2>2 DEF Result
  <2>3. CASE task'[q] = [NewTask EXCEPT !.pc = "gone", !.by = w, !.got = task[q].got]
    BY <2>3 DEF Result, NewTask
  <2> QED
    BY <2>1, <2>2, <2>3 DEF Gone
<1>7. ASSUME NEW w \in Workers, Claim(w) \/ Begin(w)
      PROVE  UNCHANGED task
  BY <1>7 DEF Claim, Begin
<1>8. ASSUME NEW r \in Requests, CloseExpired(r) \/ ListItems(r) \/ DeadlinePasses(r)
      PROVE  UNCHANGED task
  BY <1>8 DEF CloseExpired, ListItems, DeadlinePasses
<1>9. ASSUME NEW c \in Clients, Operator(c)
      PROVE  UNCHANGED task
  BY <1>9 DEF Operator, Choose, Retry, Send, Reconcile, Repair
<1>10. CASE Orphan \/ Cancel \/ Delete \/ UNCHANGED vars
  BY <1>1, <1>10 DEF Orphan, Cancel, Delete, vars
<1> QED
  BY <1>1, <1>4, <1>5, <1>6, <1>7, <1>8, <1>9, <1>10 DEF Next

LEMMA WonItem ==
  ASSUME InteractionTypeOK, NEW c \in Clients, Called(c), Send(c), Won(c)
  PROVE  LET me == client[c]
             r == me.item
         IN /\ r \in Requests /\ me.key \in Keys
            /\ \A q \in Requests \ {r} : item'[q] = item[q] /\ used'[q] = used[q]
            /\ used'[r] = [used[r] EXCEPT ![me.key] = me.what]
            /\ \/ /\ me.what \in Answers /\ Reply(c, "accepted")
                  /\ item'[r] = [item[r] EXCEPT !.status = "accepted",
                                                !.response = me.what]
               \/ /\ me.what = "expire" /\ Reply(c, "expired")
                  /\ item'[r] = [item[r] EXCEPT !.status = "expired"]
<1> DEFINE me == client[c]
           r == me.item
<1>1. /\ r \in Requests /\ me.key \in Keys
      /\ \/ me.op = "answer" /\ me.what \in Answers
         \/ me.op = "expire" /\ me.what = "expire"
  BY DEF Send, Called
<1>2. /\ \A q \in Requests \ {r} : item'[q] = item[q] /\ used'[q] = used[q]
      /\ used'[r] = [used[r] EXCEPT ![me.key] = me.what]
  BY <1>1 DEF Won, Become, InteractionTypeOK
<1>3. \/ /\ me.what \in Answers /\ Reply(c, "accepted")
         /\ item'[r] = [item[r] EXCEPT !.status = "accepted", !.response = me.what]
      \/ /\ me.what = "expire" /\ Reply(c, "expired")
         /\ item'[r] = [item[r] EXCEPT !.status = "expired"]
  BY <1>1 DEF Won, Become, InteractionTypeOK
<1> QED
  BY <1>1, <1>2, <1>3

LEMMA AnsweredStep ==
  ASSUME InteractionTypeOK, \A c \in Clients : Called(c), Registered, Answered,
         [Next]_vars
  PROVE  Answered'
<1>0. \A q \in Requests :
        /\ item[q] \in Item /\ used[q] \in [Keys -> Answers \cup {NoOne, "expire"}]
        /\ Result(q)
  BY Results DEF InteractionTypeOK
<1>1. CASE Turned
  <2> SUFFICES ASSUME NEW q \in Requests
               PROVE  AnsweredAt(q)'
    BY DEF Answered
  <2> USE DEF AnsweredAt
  <2>1. /\ item'[q].response = item[q].response /\ Allowed(item[q].status, item'[q].status)
        /\ used' = used
    BY <1>0, <1>1 DEF Turned, Turns, Item
  <2>2. AnsweredAt(q)
    BY DEF Answered
  <2>3. (ExpiredFor(q) \/ Is(q, "expired")) => ExpiredFor(q)'
    BY <2>1, <2>2 DEF ExpiredFor, Allowed
  <2>4. item'[q].response # NoOne => item'[q].status \in {"accepted", "delivered", "stale"}
    BY <2>1, <2>2 DEF Allowed
  <2>5. item'[q].status = "none" => Is(q, "none")
    BY <2>1 DEF Allowed
  <2> QED
    BY <1>0, <2>1, <2>2, <2>3, <2>4, <2>5 DEF Result
<1>2. ASSUME NEW r \in Requests, Insert(r)
      PROVE  Answered'
  <2>1. item[r] = NoItem /\ task[r].got = NoOne /\ task[r].pc = "insert"
    BY <1>2 DEF Insert, At, Registered, RegisteredAt
  <2>2. /\ item'[r].response = NoOne /\ item'[r].status = "publishing"
        /\ \A q \in Requests \ {r} : item'[q] = item[q]
    BY <1>2 DEF Insert, NoItem, InteractionTypeOK
  <2>3. \A q \in Requests :
          task'[q].got = task[q].got /\ task'[q].outcome = task[q].outcome
    BY <1>2 DEF Insert, Goto, InteractionTypeOK, Task
  <2>4. ~ExpiredFor(r) /\ \A k \in Keys : used[r][k] = NoOne
    BY <2>1 DEF Answered, AnsweredAt, ExpiredFor, NoItem
  <2>5. used' = used
    BY <1>2 DEF Insert
  <2> QED
    BY InboxAssumption, <2>1, <2>2, <2>3, <2>4, <2>5
      DEF Answered, AnsweredAt, ExpiredFor
<1>3. ASSUME NEW c \in Clients, Send(c), Won(c)
      PROVE  Answered'
  <2>0. PICK r \in Requests, k0 \in Keys, what \in Answers \cup {"expire"} : <<r, k0, what>> =
                 <<client[c].item, client[c].key, client[c].what>>
    BY <1>3, WonItem
  <2>1. /\ r \in Requests /\ k0 \in Keys /\ Is(r, "pending")
        /\ \A q \in Requests \ {r} : item'[q] = item[q] /\ used'[q] = used[q]
        /\ used'[r] = [used[r] EXCEPT ![k0] = what]
        /\ \/ /\ what \in Answers
              /\ item'[r] = [item[r] EXCEPT !.status = "accepted", !.response = what]
           \/ /\ what = "expire"
              /\ item'[r] = [item[r] EXCEPT !.status = "expired"]
    BY <1>3, <2>0, WonItem DEF Won
  <2>2. task' = task
    BY <1>3 DEF Send
  <2>3. /\ item[r].response = NoOne /\ ~ExpiredFor(r)
        /\ \A k \in Keys : used[r][k] = NoOne
        /\ task[r].got = NoOne /\ task[r].outcome # "expired"
    BY <1>0, <2>1 DEF Answered, AnsweredAt, ExpiredFor
  <2>4. \A k \in Keys \ {k0} : used'[r][k] = NoOne
    BY <1>0, <2>1, <2>3
  <2>5. used'[r][k0] = what
    BY <1>0, <2>1
  <2>6. \A q \in Requests \ {r} : AnsweredAt(q)'
    BY <2>1, <2>2 DEF Answered, AnsweredAt, ExpiredFor
  <2>7. CASE what \in Answers
    <3>1. item'[r].status = "accepted" /\ item'[r].response = what
      BY <1>0, <2>1, <2>7, InboxAssumption DEF Item
    <3>2. \A k \in Keys : used'[r][k] \in {NoOne, what}
      BY <2>4, <2>5
    <3>3. AnsweredAt(r)'
      BY InboxAssumption, <2>2, <2>3, <2>7, <3>1, <3>2 DEF AnsweredAt
    <3> QED
      BY <2>6, <3>3 DEF Answered
  <2>8. CASE what = "expire"
    <3>1. item'[r].status = "expired" /\ item'[r].response = NoOne
      BY <1>0, <2>1, <2>3, <2>8, InboxAssumption DEF Item
    <3>2. \A k \in Keys : used'[r][k] \in {NoOne, "expire"}
      BY <2>4, <2>5, <2>8
    <3>3. AnsweredAt(r)'
      BY InboxAssumption, <2>2, <2>3, <3>1, <3>2 DEF AnsweredAt, ExpiredFor
    <3> QED
      BY <2>6, <3>3 DEF Answered
  <2> QED
    BY <2>1, <2>7, <2>8
<1> QED
  BY <1>1, <1>2, <1>3, ItemStep

LEMMA CallKept ==
  ASSUME InteractionTypeOK, \A d \in Clients : Called(d), Registered, Answered,
         [Next]_vars, NEW c \in Clients, client'[c] = client[c]
  PROVE  Called(c)'
<1> DEFINE me == client[c]
<1>0. \A q \in Requests : item[q] \in Item
  BY DEF InteractionTypeOK
<1>1. Called(c)
  OBVIOUS
<1>2. SUFFICES ASSUME me.told # "none" \/ me.pc = "send"
               PROVE  /\ item'[me.item].status # "none"
                      /\ me.told = "accepted" => item'[me.item].response = me.what
                      /\ me.told = "expired" =>
                           /\ item'[me.item].response = NoOne
                           /\ item'[me.item].status \in {"expired", "delivered"}
  BY <1>1 DEF Called, ExpiredFor
<1>3. /\ me.item \in Requests /\ ~Is(me.item, "none")
      /\ me.told = "accepted" => me.what \in Answers /\ item[me.item].response = me.what
      /\ me.told = "expired" => ExpiredFor(me.item)
  BY <1>1, <1>2 DEF Called
<1>4. CASE Turned
  <2>1. Turns(me.item)
    BY <1>3, <1>4 DEF Turned
  <2>2. /\ item'[me.item].response = item[me.item].response
        /\ Allowed(item[me.item].status, item'[me.item].status)
    BY <1>0, <1>3, <2>1 DEF Turns, Item
  <2> QED
    BY <1>3, <2>2 DEF Allowed, ExpiredFor
<1>5. ASSUME NEW r \in Requests, Insert(r)
      PROVE  item'[me.item] = item[me.item]
  <2>1. Is(r, "none")
    BY <1>5 DEF Insert, At, Registered, RegisteredAt, NoItem
  <2> QED
    BY <1>3, <1>5, <2>1 DEF Insert, InteractionTypeOK
<1>6. ASSUME NEW d \in Clients, Send(d), Won(d)
      PROVE  /\ item'[me.item].status # "none"
             /\ me.told = "none" \/ item'[me.item] = item[me.item]
  <2>0. PICK r \in Requests : r = client[d].item
    BY <1>6, WonItem
  <2>1. /\ Is(r, "pending")
        /\ \A q \in Requests \ {r} : item'[q] = item[q]
        /\ item'[r].status \in {"accepted", "expired"}
    <3>1. Is(r, "pending") /\ \A q \in Requests \ {r} : item'[q] = item[q]
      BY <1>6, <2>0, WonItem DEF Won
    <3>2. PICK what :
            \/ item'[r] = [item[r] EXCEPT !.status = "accepted", !.response = what]
            \/ item'[r] = [item[r] EXCEPT !.status = "expired"]
      BY <1>6, <2>0, WonItem
    <3>3. item'[r].status \in {"accepted", "expired"}
      BY <1>0, <3>2 DEF Item
    <3> QED
      BY <3>1, <3>3
  <2>2. item[r].response = NoOne /\ ~ExpiredFor(r)
    BY <1>0, <2>1 DEF Answered, AnsweredAt, ExpiredFor
  <2>3. CASE me.item = r
    <3>1. me.told \notin {"accepted", "expired"}
      BY <1>3, <2>2, <2>3, InboxAssumption
    <3>2. me.told \in {"none", "accepted", "expired"}
      BY DEF InteractionTypeOK, Call
    <3> QED
      BY <2>1, <2>3, <3>1, <3>2
  <2>4. CASE me.item # r
    BY <1>3, <2>1, <2>4
  <2> QED
    BY <2>3, <2>4
<1> QED
  BY <1>3, <1>4, <1>5, <1>6, ItemStep DEF ExpiredFor

(* The call of an operator that was told it won, now or before *)
LEMMA CalledNow ==
  ASSUME client \in [Clients -> Call], NEW c \in Clients, NEW r \in Requests,
         NEW key \in Keys, NEW what, NEW told,
         <<r, what, key>> = <<client[c].item, client[c].what, client[c].key>>,
         Reply(c, told), item'[r].status # "none",
         \/ /\ client[c].op = "answer" /\ what \in Answers
            /\ told = "accepted" /\ item'[r].response = what
         \/ /\ client[c].op = "expire" /\ what = "expire"
            /\ told = "expired" /\ ExpiredFor(r)'
  PROVE  Called(c)' /\ client' = [client EXCEPT ![c] = client'[c]]
<1>1. client[c] \in Call
  OBVIOUS
<1>2. client'[c] = [client[c] EXCEPT !.pc = "idle", !.told = told]
      /\ client' = [client EXCEPT ![c] = client'[c]]
  BY DEF Reply
<1>3. /\ client'[c].pc = "idle" /\ client'[c].told = told
      /\ client'[c].item = r /\ client'[c].what = what /\ client'[c].key = key
      /\ client'[c].op = client[c].op
  BY <1>1, <1>2 DEF Call
<1> QED
  BY <1>2, <1>3 DEF Called

LEMMA CalledStep ==
  ASSUME InteractionTypeOK, \A d \in Clients : Called(d), Registered, Answered,
         [Next]_vars
  PROVE  \A c \in Clients : Called(c)'
<1>0. /\ \A q \in Requests : item[q] \in Item
      /\ client \in [Clients -> Call]
  BY DEF InteractionTypeOK
<1>1. CASE UNCHANGED client
  BY <1>1, CallKept
<1>2. ASSUME NEW c \in Clients, client' = [client EXCEPT ![c] = client'[c]]
      PROVE  \A d \in Clients \ {c} : Called(d)'
  BY <1>0, <1>2, CallKept
<1>3. ASSUME NEW c \in Clients, client' = [client EXCEPT ![c] = NewCall]
      PROVE  \A d \in Clients : Called(d)'
  <2>1. client'[c] = NewCall /\ client' = [client EXCEPT ![c] = client'[c]]
    BY <1>0, <1>3
  <2>2. Called(c)'
    BY <2>1 DEF Called, NewCall
  <2> QED
    BY <1>2, <2>1, <2>2
<1>4. ASSUME NEW c \in Clients, Choose(c)
      PROVE  \A d \in Clients : Called(d)'
  <2>1. PICK r \in Requests, key \in Keys, what \in Answers \cup {"expire"} :
          /\ Is(r, "pending")
          /\ client' = [client EXCEPT ![c] =
            [pc |-> "send", op |-> IF what = "expire" THEN "expire" ELSE "answer",
             item |-> r, what |-> what, key |-> key, told |-> "none"]]
    BY <1>4 DEF Choose
  <2>2. /\ client'[c] = [pc |-> "send", item |-> r, what |-> what, key |-> key,
                         op |-> IF what = "expire" THEN "expire" ELSE "answer",
                         told |-> "none"]
        /\ client' = [client EXCEPT ![c] = client'[c]] /\ item' = item
    BY <1>0, <1>4, <2>1 DEF Choose
  <2>3. Called(c)'
    BY <2>1, <2>2, InboxAssumption DEF Called
  <2> QED
    BY <1>2, <2>2, <2>3
<1>5. ASSUME NEW c \in Clients, Retry(c)
      PROVE  \A d \in Clients : Called(d)'
  <2>1. /\ client'[c] = [client[c] EXCEPT !.pc = "send"]
        /\ client' = [client EXCEPT ![c] = client'[c]] /\ item' = item
    BY <1>0, <1>5 DEF Retry
  <2>2. client[c].told # "none" /\ client[c] \in Call /\ Called(c)
    BY <1>0, <1>5 DEF Retry, Called
  <2>3. Called(c)'
    BY <2>1, <2>2 DEF Called, Call, ExpiredFor
  <2> QED
    BY <1>2, <2>1, <2>3
<1>6. ASSUME NEW c \in Clients, Reconcile(c)
      PROVE  \A d \in Clients : Called(d)'
  <2>1. PICK r \in Requests :
          /\ item[r].status \in Open /\ Plan(r) # "none"
          /\ client' = [client EXCEPT ![c] =
               [NewCall EXCEPT !.pc = Plan(r), !.item = r]]
    BY <1>6 DEF Reconcile
  <2>2. PICK plan \in {"stale", "expired", "pending"} : plan = Plan(r)
    BY <2>1 DEF Plan
  <2>3. /\ client'[c].pc = plan /\ client'[c].item = r /\ client'[c].told = "none"
        /\ client' = [client EXCEPT ![c] = client'[c]]
    BY <1>0, <2>1, <2>2 DEF NewCall
  <2>4. Called(c)'
    BY <2>1, <2>2, <2>3 DEF Called
  <2> QED
    BY <1>2, <2>3, <2>4
<1>7. ASSUME NEW c \in Clients, Repair(c)
      PROVE  \A d \in Clients : Called(d)'
  BY <1>3, <1>7 DEF Repair
<1>8. ASSUME NEW c \in Clients, Send(c)
      PROVE  \A d \in Clients : Called(d)'
  <2>0. PICK r \in Requests, key \in Keys, what \in Answers \cup {"expire"} :
          /\ <<r, what, key>> = <<client[c].item, client[c].what, client[c].key>>
          /\ \/ client[c].op = "answer" /\ what \in Answers
             \/ client[c].op = "expire" /\ what = "expire"
    BY <1>8 DEF Send, Called
  <2>1. CASE Reply(c, "conflict")
    BY <1>3, <2>1 DEF Reply
  <2>3. CASE used[r][key] = what /\ Reply(c, Told(client[c].op)) /\ UNCHANGED inbox
    <3>1. AnsweredAt(r) /\ item'[r].status # "none"
      BY <1>8, <2>0, <2>3 DEF Send, Called, Answered
    <3>2. CASE client[c].op = "answer"
      <4>1. what \in Answers /\ item'[r].response = what /\ Reply(c, "accepted")
        BY <2>0, <2>3, <3>1, <3>2 DEF AnsweredAt, Told
      <4> QED
        BY <1>0, <1>2, <2>0, <3>1, <3>2, <4>1, CalledNow
    <3>3. CASE client[c].op = "expire"
      <4>1. what = "expire" /\ ExpiredFor(r)' /\ Reply(c, "expired")
        BY <2>0, <2>3, <3>1, <3>3 DEF AnsweredAt, Told, ExpiredFor
      <4> QED
        BY <1>0, <1>2, <2>0, <3>1, <3>3, <4>1, CalledNow
    <3> QED
      BY <2>0, <3>2, <3>3
  <2>4. CASE Won(c)
    <3>0. /\ Is(r, "pending")
          /\ \/ /\ client[c].op = "answer" /\ Reply(c, "accepted")
                /\ item' = [item EXCEPT ![r].status = "accepted", ![r].response = what]
             \/ /\ client[c].op = "expire" /\ Reply(c, "expired") /\ Become(r, "expired")
      BY <2>0, <2>4 DEF Won
    <3>1. item[r].response = NoOne
      BY <3>0 DEF Answered, AnsweredAt
    <3>2. CASE client[c].op = "answer"
      <4>1. item' = [item EXCEPT ![r].status = "accepted", ![r].response = what]
            /\ Reply(c, "accepted") /\ what \in Answers
        BY <2>0, <3>0, <3>2
      <4>2. item'[r].response = what /\ item'[r].status = "accepted"
        BY <1>0, <4>1 DEF Item, InteractionTypeOK
      <4>3. Called(c)' /\ client' = [client EXCEPT ![c] = client'[c]]
        BY <1>0, <2>0, <3>2, <4>1, <4>2, CalledNow
      <4> QED
        BY <1>2, <4>3
    <3>3. CASE client[c].op = "expire"
      <4>1. Become(r, "expired") /\ Reply(c, "expired") /\ what = "expire"
        BY <2>0, <3>0, <3>3, InboxAssumption
      <4>2. item'[r].response = NoOne /\ item'[r].status = "expired"
        BY <1>0, <3>1, <4>1 DEF Item, Become, InteractionTypeOK
      <4> QED
        BY <1>0, <1>2, <2>0, <3>3, <4>1, <4>2, CalledNow DEF ExpiredFor
    <3> QED
      BY <2>0, <3>2, <3>3
  <2> QED
    BY <1>8, <2>0, <2>1, <2>3, <2>4, SendCases DEF Repeated, Refused
<1>9. ASSUME NEW r \in Requests,
             TaskStep(r) \/ CloseExpired(r) \/ ListItems(r) \/ DeadlinePasses(r)
      PROVE  UNCHANGED client
  BY <1>9 DEF TaskStep, Insert, Publish, Activate, Poll, AcceptedAnswer, LookAgain,
              Resume, Deliver, Latest, FallBack, CloseExpired, ListItems, DeadlinePasses
<1>10. ASSUME NEW w \in Workers,
              Claim(w) \/ Begin(w) \/ End(w) \/ Die(w) \/ \E r \in Requests : Ask(w, r)
       PROVE  UNCHANGED client
  BY <1>10 DEF Claim, Begin, End, Die, Ask
<1>11. CASE Orphan \/ Cancel \/ Delete \/ UNCHANGED vars
  BY <1>1, <1>11 DEF Orphan, Cancel, Delete, vars
<1> QED
  BY <1>1, <1>4, <1>5, <1>6, <1>7, <1>8, <1>9, <1>10, <1>11 DEF Next, Operator

-----------------------------------------------------------------------------
(* How a task moves *)

LEMMA ItemKept ==
  ASSUME InteractionTypeOK, \A c \in Clients : Called(c), [Next]_vars,
         NEW q \in Requests, ~Insert(q)
  PROVE  /\ Is(q, "none") => item'[q] = item[q]
         /\ ~Is(q, "none") => item'[q].status # "none"
         /\ item'[q].attempt = item[q].attempt /\ item'[q].owner = item[q].owner
<1>0. item[q] \in Item
  BY DEF InteractionTypeOK
<1>1. CASE Turned
  <2>1. item'[q] = [item[q] EXCEPT !.status = item'[q].status]
        /\ Allowed(item[q].status, item'[q].status)
    BY <1>1 DEF Turned, Turns
  <2>2. item'[q].attempt = item[q].attempt /\ item'[q].owner = item[q].owner
    BY <1>0, <2>1 DEF Item
  <2>3. item'[q].status = item[q].status => item'[q] = item[q]
    BY <1>0, <2>1 DEF Item
  <2>4. /\ Is(q, "none") => item'[q].status = "none"
        /\ ~Is(q, "none") => item'[q].status # "none"
    BY <2>1 DEF Allowed
  <2> QED
    BY <2>2, <2>3, <2>4
<1>2. ASSUME NEW r \in Requests, Insert(r)
      PROVE  item'[q] = item[q]
  BY <1>2 DEF Insert, InteractionTypeOK
<1>3. ASSUME NEW c \in Clients, Send(c), Won(c)
      PROVE  /\ item'[q] = item[q] \/ (~Is(q, "none") /\ item'[q].status # "none")
             /\ item'[q].attempt = item[q].attempt /\ item'[q].owner = item[q].owner
  <2>0. PICK r \in Requests, what \in Answers \cup {"expire"} :
               r = client[c].item /\ what = client[c].what
    BY <1>3, WonItem
  <2>1. Is(r, "pending") /\ (q # r => item'[q] = item[q])
    BY <1>3, <2>0, WonItem DEF Won
  <2>2. \/ item'[r] = [item[r] EXCEPT !.status = "accepted", !.response = what]
        \/ item'[r] = [item[r] EXCEPT !.status = "expired"]
    BY <1>3, <2>0, WonItem
  <2>3. CASE q = r
    BY <1>0, <2>1, <2>2, <2>3 DEF Item
  <2> QED
    BY <2>1, <2>3
<1> QED
  BY <1>1, <1>2, <1>3, ItemStep

(* A session that waits for the task still, as its item, its attempt and its
   lease say *)
Held(r) ==
  /\ session.status = "waiting" /\ session.attempt = item[r].attempt
  /\ session.attempt = task[r].attempt /\ session.lease = task[r].lease

Publishes(r) ==
  /\ task[r].pc = "publish" /\ session.status = "running"
  /\ session' = [session EXCEPT !.status = "waiting", !.item = r]
  /\ task'[r] = [task[r] EXCEPT !.pc = "activate", !.attempt = session.attempt,
                                !.lease = session.lease]

Keeps(r) ==
  /\ task[r].pc \in Waits /\ session' = session
  /\ task'[r].pc \in Waits /\ (task'[r].pc = "resume" => Current(r))
  /\ task'[r].attempt = task[r].attempt
  /\ \/ task'[r].lease = task[r].lease
     \/ /\ task'[r].lease = session.lease
        /\ session.status = "waiting" /\ session.attempt = item[r].attempt

Takes(r) ==
  /\ task[r].pc = "resume" /\ session.status = "waiting"
  /\ session.attempt = task[r].attempt /\ session.lease = task[r].lease
  /\ Continue /\ task'[r] = [task[r] EXCEPT !.pc = "deliver"]

Ends(r) ==
  /\ task[r].pc \in Waits \cup {"publish", "deliver"}
  /\ task'[r].pc = "done" /\ task'[r].attempt = 0
  /\ \/ session' = session /\ (task[r].pc \in Waits => ~Held(r))
     \/ /\ Continue /\ task[r].pc \in Waits
        /\ session.status = "waiting" /\ session.attempt = item[r].attempt

LEMMA TaskMoves ==
  ASSUME InteractionTypeOK, NEW r \in Requests, TaskStep(r)
  PROVE  /\ \A q \in Requests \ {r} : task'[q] = task[q]
         /\ task'[r].by = task[r].by /\ worker' = worker
         /\ Insert(r) \/ Publishes(r) \/ Keeps(r) \/ Takes(r) \/ Ends(r)
<1>0. task \in [Requests -> Task] /\ task[r] \in Task
  BY DEF InteractionTypeOK
<1>1. ASSUME NEW pc, Goto(r, pc)
      PROVE  /\ \A q \in Requests \ {r} : task'[q] = task[q]
             /\ task'[r] = [task[r] EXCEPT !.pc = pc]
             /\ task'[r].pc = pc /\ task'[r].by = task[r].by
             /\ task'[r].attempt = task[r].attempt /\ task'[r].lease = task[r].lease
  BY <1>0, <1>1 DEF Goto, Task
<1>2. ASSUME NEW outcome, Return(r, outcome)
      PROVE  /\ \A q \in Requests \ {r} : task'[q] = task[q]
             /\ task'[r].pc = "done" /\ task'[r].by = task[r].by
             /\ task'[r].attempt = 0
  BY <1>0, <1>2 DEF Return, NewTask
<1> DEFINE Alone == /\ \A q \in Requests \ {r} : task'[q] = task[q]
                    /\ task'[r].by = task[r].by
<1>a. ASSUME NEW pc \in Waits \ {"resume"}, Goto(r, pc), task[r].pc \in Waits,
             session' = session
      PROVE  Alone /\ Keeps(r)
  <2>1. /\ Alone /\ task'[r].pc = pc
        /\ task'[r].attempt = task[r].attempt /\ task'[r].lease = task[r].lease
    BY <1>1, <1>a
  <2>2. pc \in Waits /\ pc # "resume"
    OBVIOUS
  <2>3. Keeps(r)
    BY <1>a, <2>1, <2>2 DEF Keeps
  <2> QED
    BY <2>1, <2>3
<1>3. CASE Insert(r)
  BY <1>1, <1>3 DEF Insert
<1>4. CASE Publish(r)
  <2>1. CASE session.status = "running"
    <3>1. task' = [task EXCEPT ![r].pc = "activate",
               ![r].attempt = session.attempt, ![r].lease = session.lease]
      BY <1>4, <2>1 DEF Publish
    <3>2. /\ \A q \in Requests \ {r} : task'[q] = task[q]
          /\ task'[r] = [task[r] EXCEPT !.pc = "activate",
               !.attempt = session.attempt, !.lease = session.lease]
      BY <1>0, <3>1
    <3>3. task'[r].by = task[r].by
      BY <1>0, <3>2 DEF Task
    <3> QED
      BY <1>4, <2>1, <3>2, <3>3 DEF Publish, At, Publishes
  <2>2. CASE session.status # "running"
    BY <1>2, <1>4, <2>2 DEF Publish, At, Ends, Waits
  <2> QED
    BY <2>1, <2>2
<1>5. CASE Activate(r)
  <2>1. Goto(r, "poll") /\ task[r].pc = "activate" /\ session' = session /\ worker' = worker
    BY <1>5 DEF Activate, At
  <2> QED
    BY <1>a, <2>1 DEF Waits
<1>6. CASE Poll(r)
  <2>1. /\ Goto(r, "answer") \/ Goto(r, "latest")
        /\ task[r].pc \in {"poll", "sleep"} /\ session' = session /\ worker' = worker
    BY <1>6 DEF Poll, At
  <2> QED
    BY <1>a, <2>1 DEF Waits
<1>7. CASE AcceptedAnswer(r)
  <2>1. CASE Goto(r, "status")
    <3>1. task[r].pc = "answer" /\ session' = session /\ worker' = worker
      BY <1>7 DEF AcceptedAnswer, At
    <3> QED
      BY <1>a, <2>1, <3>1 DEF Waits
  <2>2. CASE /\ task' = [task EXCEPT ![r].pc = "resume", ![r].got = item[r].response]
             /\ Current(r)
    <3>1. /\ \A q \in Requests \ {r} : task'[q] = task[q]
          /\ task'[r] = [task[r] EXCEPT !.pc = "resume", !.got = item[r].response]
      BY <1>0, <2>2
    <3>2. /\ task'[r].pc = "resume" /\ task'[r].by = task[r].by
          /\ task'[r].attempt = task[r].attempt /\ task'[r].lease = task[r].lease
      BY <1>0, <3>1 DEF Task
    <3> QED
      BY <1>7, <2>2, <3>1, <3>2 DEF AcceptedAnswer, At, Keeps, Waits
  <2> QED
    BY <1>7, <2>1, <2>2 DEF AcceptedAnswer
<1>8. CASE LookAgain(r)
  <2>1. /\ Goto(r, "latest") \/ Goto(r, "sleep")
        /\ task[r].pc = "status" /\ session' = session /\ worker' = worker
    BY <1>8 DEF LookAgain, At
  <2> QED
    BY <1>a, <2>1 DEF Waits
<1>9. CASE Resume(r)
  BY <1>1, <1>2, <1>9 DEF Resume, At, Takes, Ends, Held, Waits
<1>10. CASE Deliver(r)
  BY <1>2, <1>10 DEF Deliver, At, Ends, Waits
<1>11. CASE Latest(r)
  <2>1. CASE Return(r, "cancelled") /\ session.status \in {"cancelled", "deleted"}
    BY <1>2, <1>11, <2>1 DEF Latest, At, Ends, Held, Waits
  <2>2. CASE /\ Return(r, item[r].status)
             /\ ~(session.status = "waiting" /\ session.attempt = item[r].attempt)
    BY <1>2, <1>11, <2>2 DEF Latest, At, Ends, Held, Waits
  <2>3. CASE /\ task' = [task EXCEPT ![r].pc = "fallback",
                  ![r].outcome = item[r].status, ![r].lease = session.lease]
             /\ session.status = "waiting" /\ session.attempt = item[r].attempt
    <3>1. /\ \A q \in Requests \ {r} : task'[q] = task[q]
          /\ task'[r] = [task[r] EXCEPT !.pc = "fallback",
                           !.outcome = item[r].status, !.lease = session.lease]
      BY <1>0, <2>3
    <3>2. /\ task'[r].pc = "fallback" /\ task'[r].by = task[r].by
          /\ task'[r].attempt = task[r].attempt /\ task'[r].lease = session.lease
      BY <1>0, <3>1 DEF Task
    <3> QED
      BY <1>11, <2>3, <3>1, <3>2 DEF Latest, At, Keeps, Waits
  <2> QED
    BY <1>11, <2>1, <2>2, <2>3 DEF Latest
<1>12. CASE FallBack(r)
  BY <1>2, <1>12 DEF FallBack, At, Ends, Held, Waits
<1> QED
  BY <1>3, <1>4, <1>5, <1>6, <1>7, <1>8, <1>9, <1>10, <1>11, <1>12 DEF TaskStep

(* What the other steps do *)
LEMMA OtherMoves ==
  ASSUME [Next]_vars, ~ \E r \in Requests : TaskStep(r),
         ~ \E w \in Workers, r \in Requests : Ask(w, r),
         ~ \E w \in Workers : End(w) \/ Die(w)
  PROVE  /\ task' = task
         /\ \/ \E w \in Workers : Claim(w) \/ Begin(w)
            \/ worker' = worker /\ (session' = session \/ Orphan \/ Cancel \/ Delete)
<1>1. ASSUME NEW r \in Requests, CloseExpired(r) \/ ListItems(r) \/ DeadlinePasses(r)
      PROVE  task' = task /\ worker' = worker /\ session' = session
  BY <1>1 DEF CloseExpired, ListItems, DeadlinePasses
<1>2. ASSUME NEW c \in Clients, Operator(c)
      PROVE  task' = task /\ worker' = worker /\ session' = session
  BY <1>2 DEF Operator, Choose, Retry, Send, Reconcile, Repair
<1>3. ASSUME NEW w \in Workers, Claim(w) \/ Begin(w)
      PROVE  task' = task
  BY <1>3 DEF Claim, Begin
<1>4. CASE Orphan \/ Cancel \/ Delete
  BY <1>4 DEF Orphan, Cancel, Delete
<1>5. CASE UNCHANGED vars
  BY <1>5 DEF vars
<1> QED
  BY <1>1, <1>2, <1>3, <1>4, <1>5 DEF Next

LEMMA InsertMoves ==
  ASSUME InteractionTypeOK, NEW r \in Requests, Insert(r)
  PROVE  /\ task[r].pc = "insert" /\ task'[r].pc = "publish"
         /\ task'[r].attempt = task[r].attempt /\ task'[r].got = task[r].got
         /\ item'[r].status = "publishing" /\ item'[r].attempt = task[r].attempt
         /\ session' = session
<1>1. task \in [Requests -> Task] /\ task[r] \in Task /\ item \in [Requests -> Item]
  BY DEF InteractionTypeOK
<1>2. task'[r] = [task[r] EXCEPT !.pc = "publish"]
  BY <1>1 DEF Insert, Goto
<1>3. item'[r] = [NoItem EXCEPT !.status = "publishing", !.attempt = task[r].attempt,
                                !.owner = task[r].lease]
  BY <1>1 DEF Insert
<1> QED
  BY <1>1, <1>2, <1>3 DEF Insert, At, Task, NoItem

LEMMA AskMoves ==
  ASSUME InteractionTypeOK, NEW w \in Workers, NEW r \in Requests, Ask(w, r)
  PROVE  /\ task[r].pc = "none" /\ worker[w] = "working"
         /\ \A q \in Requests \ {r} : task'[q] = task[q]
         /\ task'[r].by = w /\ task'[r].attempt = session.attempt
         /\ task'[r].got = NoOne /\ task'[r].pc \in {"insert", "done"}
         /\ session' = session /\ worker' = worker /\ item' = item
<1>1. /\ task'[r] =
           [NewTask EXCEPT !.by = w, !.attempt = session.attempt,
              !.lease = session.lease,
              !.pc = IF session.status = "running" THEN "insert" ELSE "done",
              !.outcome = IF session.status = "running" THEN "none" ELSE "refused"]
      /\ \A q \in Requests \ {r} : task'[q] = task[q]
  BY DEF Ask, InteractionTypeOK
<1>2. /\ task'[r].by = w /\ task'[r].attempt = session.attempt
      /\ task'[r].got = NoOne /\ task'[r].pc \in {"insert", "done"}
  BY <1>1 DEF NewTask
<1>3. /\ task[r].pc = "none" /\ worker[w] = "working"
      /\ session' = session /\ worker' = worker /\ item' = item
  BY DEF Ask
<1> QED
  BY <1>1, <1>2, <1>3

LEMMA GoneMoves ==
  ASSUME InteractionTypeOK, NEW w \in Workers, End(w) \/ Die(w), NEW q \in Requests
  PROVE  /\ worker[w] \in {"claimed", "working"}
         /\ worker' = [worker EXCEPT ![w] = "over"]
         /\ session' \in {session, [session EXCEPT !.status = "ended"]}
         /\ session' # session => session.status = "running"
         /\ \/ task'[q] = task[q] /\ (task[q].by # w \/ task[q].pc = "done")
            \/ task'[q].pc = "gone" /\ task'[q].by = w /\ task[q].by = w
                 /\ task'[q].attempt = 0
<1>1. task' = Gone(w) /\ worker' = [worker EXCEPT ![w] = "over"]
  BY DEF End, Die
<1>2. task'[q] = IF task[q].by = w /\ task[q].pc # "done"
                 THEN [NewTask EXCEPT !.pc = "gone", !.by = w, !.got = task[q].got]
                 ELSE task[q]
  BY <1>1 DEF Gone
<1>3. session' = session \/ session' = Ended(w)
  BY DEF End, Die
<1> QED
  BY <1>1, <1>2, <1>3 DEF End, Die, Ended, NewTask

LEMMA RegisteredStep ==
  ASSUME InteractionTypeOK, \A c \in Clients : Called(c), Registered, [Next]_vars
  PROVE  Registered'
<1> SUFFICES ASSUME NEW q \in Requests
             PROVE  RegisteredAt(q)'
  BY DEF Registered
<1> USE DEF RegisteredAt
<1>0. /\ task[q] \in Task /\ RegisteredAt(q) /\ NoItem.status = "none"
      /\ worker \in [Workers -> {"new", "claimed", "working", "over"}]
  BY DEF InteractionTypeOK, Registered, NoItem
<1>1. ASSUME task'[q] = task[q],
             \A w \in Workers : worker[w] \in {"working", "over"}
                                   => worker'[w] \in {"working", "over"}
      PROVE  RegisteredAt(q)'
  <2>1. ~Insert(q)
    BY <1>1, InsertMoves
  <2> QED
    BY <1>0, <1>1, <2>1, ItemKept
<1>2. ASSUME NEW r \in Requests, TaskStep(r)
      PROVE  RegisteredAt(q)'
  <2>1. worker' = worker /\ (r # q => task'[q] = task[q])
    BY <1>2, TaskMoves
  <2>2. CASE r = q /\ Insert(q)
    <3>1. task'[q].by = task[q].by
      BY <1>2, <2>2, TaskMoves
    <3> QED
      BY <1>0, <2>1, <2>2, <3>1, InsertMoves DEF Waits
  <2>3. CASE r = q /\ ~Insert(q)
    <3>1. /\ task[q].pc \in Waits \cup {"publish", "deliver"}
          /\ task'[q].pc \in Waits \cup {"deliver", "done"} /\ task'[q].by = task[q].by
      BY <1>0, <1>2, <2>3, TaskMoves DEF Publishes, Keeps, Takes, Ends, Waits, Task
    <3>2. item'[q].status # "none"
      BY <1>0, <2>3, <3>1, ItemKept
    <3> QED
      BY <1>0, <2>1, <3>1, <3>2 DEF Waits
  <2> QED
    BY <1>1, <2>1, <2>2, <2>3
<1>3. ASSUME NEW w \in Workers, NEW r \in Requests, Ask(w, r)
      PROVE  RegisteredAt(q)'
  <2>1. CASE r = q
    BY <1>0, <1>3, <2>1, AskMoves DEF Waits
  <2>2. CASE r # q
    BY <1>1, <1>3, <2>2, AskMoves
  <2> QED
    BY <2>1, <2>2
<1>4. ASSUME NEW w \in Workers, End(w) \/ Die(w)
      PROVE  RegisteredAt(q)'
  <2>1. CASE task'[q] = task[q]
    BY <1>0, <1>1, <1>4, <2>1, GoneMoves
  <2>2. CASE task'[q].pc = "gone" /\ task'[q].by = w
    BY <1>0, <1>4, <2>2, GoneMoves DEF Waits
  <2> QED
    BY <1>4, <2>1, <2>2, GoneMoves
<1>5. ASSUME NEW w \in Workers, Claim(w) \/ Begin(w), task' = task
      PROVE  RegisteredAt(q)'
  BY <1>0, <1>1, <1>5 DEF Claim, Begin
<1> QED
  BY <1>1, <1>2, <1>3, <1>4, <1>5, OtherMoves

-----------------------------------------------------------------------------
(* The attempt of a task *)

LEMMA FencedStep ==
  ASSUME InteractionTypeOK, InteractionTypeOK', \A c \in Clients : Called(c),
         Registered, \A r \in Requests : Fenced(r), [Next]_vars, NEW q \in Requests
  PROVE  Fenced(q)'
<1>0. /\ \A r \in Requests : /\ task[r] \in Task /\ item[r].attempt \in Nat
                              /\ task[r].attempt \in Nat
      /\ session \in Session /\ session' \in Session
      /\ session.attempt \in Nat /\ session'.attempt \in Nat
      /\ Fenced(q) /\ RegisteredAt(q)
  BY DEF InteractionTypeOK, Session, Item, Task, Registered
<1> USE DEF Fenced
<1>1. ASSUME task'[q] = task[q], session'.attempt >= session.attempt,
             (session'.attempt = session.attempt /\ Stands(session, q, task[q].lease))
               => Stands(session', q, task[q].lease)
      PROVE  Fenced(q)'
  <2>1. item'[q].attempt = item[q].attempt /\ item'[q].owner = item[q].owner
    BY <1>1, InsertMoves, ItemKept
  <2> QED
    BY <1>0, <1>1, <2>1
<1>2. ASSUME task'[q].pc \notin Waits \cup {"publish"}, task'[q].attempt <= session'.attempt
      PROVE  Fenced(q)'
  BY <1>2 DEF Waits
<1>3. ASSUME NEW r \in Requests, TaskStep(r), r # q
      PROVE  Fenced(q)'
  <2>1. task'[q] = task[q]
    BY <1>3, TaskMoves
  <2>2. CASE session' = session
    BY <1>0, <1>1, <2>1, <2>2
  <2>3. CASE Publishes(r)
    BY <1>0, <1>1, <2>1, <2>3 DEF Publishes, Stands, Session
  <2>4. CASE /\ Continue /\ session.status = "waiting" /\ session.item = r
    BY <1>0, <1>1, <1>3, <2>1, <2>4 DEF Continue, Stands, Session
  <2>5. (Takes(r) \/ Ends(r)) /\ session' # session
           => Continue /\ session.status = "waiting" /\ session.item = r
    <3>1. Fenced(r) /\ task[r].attempt \in Nat /\ item[r].attempt \in Nat
      BY <1>0
    <3> QED
      BY <1>0, <3>1 DEF Takes, Ends, Stands, Waits
  <2> QED
    BY <1>3, <2>2, <2>3, <2>4, <2>5, TaskMoves, InsertMoves DEF Keeps
<1>4. ASSUME TaskStep(q)
      PROVE  Fenced(q)'
  <2>1. CASE Insert(q)
    BY <1>0, <2>1, InsertMoves DEF Waits
  <2>2. ASSUME ~Insert(q)
        PROVE  item'[q].attempt = item[q].attempt /\ item'[q].owner = item[q].owner
    BY <2>2, ItemKept
  <2>3. CASE Publishes(q) /\ ~Insert(q)
    <3>1. /\ task'[q].pc = "activate" /\ task'[q].attempt = session.attempt
          /\ task'[q].lease = session.lease
          /\ session'.attempt = session.attempt /\ session'.lease = session.lease
          /\ session'.status = "waiting" /\ session'.item = q
      BY <1>0, <2>3 DEF Publishes, Task, Session
    <3> QED
      BY <1>0, <2>2, <2>3, <3>1 DEF Stands, Publishes, Waits
  <2>4. CASE Keeps(q) /\ ~Insert(q)
    <3>1. session.status = "waiting" /\ session.attempt = item[q].attempt
            => session.attempt = task[q].attempt /\ session.lease = task[q].lease
      BY <1>0, <2>4 DEF Keeps, Stands
    <3>2. task'[q].lease = task[q].lease
      BY <2>4, <3>1 DEF Keeps
    <3> QED
      BY <1>0, <2>2, <2>4, <3>1, <3>2 DEF Keeps, Current
  <2>5. CASE Takes(q)
    BY <1>0, <1>2, <2>5 DEF Takes, Continue, Waits, Session, Task
  <2>6. CASE Ends(q)
    BY <1>0, <1>2, <2>6 DEF Ends, Waits
  <2> QED
    BY <1>4, <2>1, <2>3, <2>4, <2>5, <2>6, TaskMoves
<1>5. ASSUME NEW w \in Workers, NEW r \in Requests, Ask(w, r)
      PROVE  Fenced(q)'
  <2>1. CASE r = q
    BY <1>0, <1>2, <1>5, <2>1, AskMoves DEF Waits
  <2>2. CASE r # q
    BY <1>0, <1>1, <1>5, <2>2, AskMoves
  <2> QED
    BY <2>1, <2>2
<1>6. ASSUME NEW w \in Workers, End(w) \/ Die(w)
      PROVE  Fenced(q)'
  <2>1. \/ session' = session
        \/ session.status = "running" /\ session'.attempt = session.attempt
    BY <1>0, <1>6, GoneMoves DEF Session
  <2>2. CASE task'[q] = task[q]
    BY <1>0, <1>1, <2>1, <2>2 DEF Stands
  <2>3. CASE task'[q].pc = "gone" /\ task'[q].attempt = 0
    BY <1>0, <1>2, <2>3 DEF Waits
  <2> QED
    BY <1>6, <2>2, <2>3, GoneMoves
<1>7. ASSUME NEW w \in Workers, Claim(w) \/ Begin(w), task' = task
      PROVE  Fenced(q)'
  BY <1>0, <1>1, <1>7 DEF Claim, Begin, Ended, Stands, Session
<1>8. ASSUME Orphan \/ Cancel \/ Delete, task' = task
      PROVE  Fenced(q)'
  BY <1>0, <1>1, <1>8 DEF Orphan, Cancel, Delete, Stands, Session
<1>9. ASSUME session' = session, task' = task
      PROVE  Fenced(q)'
  BY <1>0, <1>1, <1>9
<1> QED
  BY <1>3, <1>4, <1>5, <1>6, <1>7, <1>8, <1>9, OtherMoves

-----------------------------------------------------------------------------
(* Whom the session waits for *)

LEMMA AwaitedStep ==
  ASSUME InteractionTypeOK, \A r \in Requests : Fenced(r), Awaited, [Next]_vars
  PROVE  Awaited'
<1>0. /\ \A r \in Requests : /\ task[r] \in Task /\ item[r].attempt \in Nat
                              /\ task[r].attempt \in Nat /\ Fenced(r)
      /\ session \in Session /\ session.attempt \in Nat
  BY DEF InteractionTypeOK, Session, Item, Task
<1> USE DEF Awaited
<1>1. ASSUME session.status = "waiting" => task'[session.item] = task[session.item],
             session' = session \/ session'.status # "waiting"
      PROVE  Awaited'
  BY <1>1
<1>2. ASSUME NEW r \in Requests, TaskStep(r)
      PROVE  Awaited'
  <2>1. CASE session.status = "waiting" => session.item # r
    <3>1. session.status = "waiting" => task'[session.item] = task[session.item]
      BY <1>2, <2>1, TaskMoves
    <3>2. CASE Publishes(r)
      BY <1>0, <3>2 DEF Publishes, Session, Task, Waits
    <3>3. CASE session' = session \/ Continue
      BY <1>0, <1>1, <3>1, <3>3 DEF Continue, Session
    <3> QED
      BY <1>2, <3>2, <3>3, TaskMoves, InsertMoves DEF Keeps, Takes, Ends
  <2>2. CASE session.status = "waiting" /\ session.item = r
    <3>1. task[r].pc \in Waits
      BY <1>2, <2>2, TaskMoves, InsertMoves DEF Publishes, Keeps, Takes, Ends, Waits
    <3>2. task[r].attempt = session.attempt /\ task[r].lease = session.lease
      BY <2>2, <3>1
    <3>3. CASE Keeps(r)
      BY <2>2, <3>2, <3>3 DEF Keeps
    <3>4. CASE Continue
      BY <1>0, <3>4 DEF Continue, Session
    <3>5. CASE Ends(r) /\ session' = session
      BY <2>2, <3>5 DEF Ends, Waits
    <3> QED
      BY <1>2, <2>2, <3>1, <3>3, <3>4, <3>5, TaskMoves, InsertMoves
        DEF Publishes, Takes, Ends, Waits
  <2> QED
    BY <2>1, <2>2
<1>3. ASSUME NEW w \in Workers, NEW r \in Requests, Ask(w, r)
      PROVE  Awaited'
  <2>1. session.status = "waiting" => session.item # r
    BY <1>3, AskMoves DEF Waits
  <2> QED
    BY <1>1, <1>3, <2>1, AskMoves
<1>4. ASSUME NEW w \in Workers, End(w) \/ Die(w)
      PROVE  Awaited'
  <2>1. CASE session' = session
    <3>1. session.status = "waiting" =>
            \/ task'[session.item] = task[session.item]
            \/ task'[session.item].pc = "gone"
      BY <1>4, GoneMoves
    <3> QED
      BY <2>1, <3>1 DEF Waits
  <2>2. CASE session' = [session EXCEPT !.status = "ended"]
    BY <1>0, <2>2 DEF Session
  <2>3. session' \in {session, [session EXCEPT !.status = "ended"]}
    BY <1>4 DEF End, Die, Ended
  <2> QED
    BY <2>1, <2>2, <2>3
<1>5. ASSUME NEW w \in Workers, Claim(w) \/ Begin(w), task' = task
      PROVE  Awaited'
  BY <1>0, <1>1, <1>5 DEF Claim, Begin, Ended, Session
<1>6. ASSUME Orphan \/ Cancel \/ Delete \/ session' = session, task' = task
      PROVE  Awaited'
  BY <1>0, <1>1, <1>6 DEF Orphan, Cancel, Delete, Session
<1> QED
  BY <1>2, <1>3, <1>4, <1>5, <1>6, OtherMoves

LEMMA OwnAttemptStep ==
  ASSUME InteractionTypeOK, InteractionTypeOK', \A c \in Clients : Called(c), Registered,
         [Next]_vars, NEW q \in Requests, OwnAttempt(q)
  PROVE  OwnAttempt(q)'
<1>0. /\ task[q] \in Task /\ session \in Session /\ RegisteredAt(q)
      /\ NoItem.status = "none"
  BY DEF InteractionTypeOK, Registered, NoItem
<1> USE DEF OwnAttempt
<1>1. ASSUME task'[q] = task[q],
             \/ session'.lease = session.lease /\ session'.attempt = session.attempt
             \/ session'.lease # task[q].by
      PROVE  OwnAttempt(q)'
  <2>1. ~Insert(q)
    BY <1>1, InsertMoves
  <2> QED
    BY <1>0, <1>1, <2>1, ItemKept
<1>2. ASSUME NEW r \in Requests, TaskStep(r)
      PROVE  OwnAttempt(q)'
  <2>1. session'.lease = session.lease /\ session'.attempt = session.attempt
    BY <1>0, <1>2, TaskMoves, InsertMoves
      DEF Publishes, Keeps, Takes, Ends, Continue, Session
  <2>2. CASE r # q
    BY <1>1, <1>2, <2>1, <2>2, TaskMoves
  <2>3. CASE Insert(q)
    <3>1. task'[q].by = task[q].by
      BY <2>3, TaskMoves DEF TaskStep
    <3> QED
      BY <2>1, <2>3, <3>1, InsertMoves
  <2>4. CASE r = q /\ ~Insert(q)
    <3>1. task[q].pc \in Waits \cup {"publish", "deliver"}
      BY <1>2, <2>4, TaskMoves DEF Publishes, Keeps, Takes, Ends, Waits
    <3>2. task'[q].by = task[q].by /\ task'[q].pc # "insert"
      BY <1>0, <1>2, <2>4, TaskMoves DEF Publishes, Keeps, Takes, Ends, Waits, Task
    <3> QED
      BY <1>0, <2>1, <2>4, <3>1, <3>2, ItemKept
  <2> QED
    BY <2>2, <2>3, <2>4
<1>3. ASSUME NEW w \in Workers, NEW r \in Requests, Ask(w, r)
      PROVE  OwnAttempt(q)'
  <2>1. CASE r = q
    <3>1. item'[q].status = "none"
      BY <1>0, <1>3, <2>1, AskMoves DEF RegisteredAt
    <3> QED
      BY <1>3, <2>1, <3>1, AskMoves
  <2>2. CASE r # q
    BY <1>1, <1>3, <2>2, AskMoves
  <2> QED
    BY <2>1, <2>2
<1>4. ASSUME NEW w \in Workers, End(w) \/ Die(w)
      PROVE  OwnAttempt(q)'
  <2>1. session'.lease = session.lease /\ session'.attempt = session.attempt
    BY <1>0, <1>4, GoneMoves DEF Session
  <2>2. CASE task'[q] = task[q]
    BY <1>1, <2>1, <2>2
  <2>3. CASE task'[q].pc = "gone" /\ task'[q].by = task[q].by
    <3>1. ~Insert(q)
      BY <2>3, InsertMoves
    <3> QED
      BY <1>0, <2>1, <2>3, <3>1, ItemKept
  <2> QED
    BY <1>4, <2>2, <2>3, GoneMoves
<1>5. ASSUME NEW w \in Workers, Claim(w), task' = task
      PROVE  OwnAttempt(q)'
  <2>1. session'.lease = w /\ worker[w] = "new"
    BY <1>5 DEF Claim
  <2> QED
    BY <1>0, <1>1, <1>5, <2>1 DEF RegisteredAt
<1>6. ASSUME NEW w \in Workers, Begin(w), task' = task
      PROVE  OwnAttempt(q)'
  BY <1>0, <1>1, <1>6 DEF Begin, Ended, Session
<1>7. ASSUME Orphan \/ Cancel \/ Delete \/ session' = session, task' = task
      PROVE  OwnAttempt(q)'
  BY <1>0, <1>1, <1>7 DEF Orphan, Cancel, Delete, Session
<1> QED
  BY <1>2, <1>3, <1>4, <1>5, <1>6, <1>7, OtherMoves

LEMMA WaitedForStep ==
  ASSUME InteractionTypeOK, Registered, \A r \in Requests : Fenced(r) /\ OwnAttempt(r),
         Awaited, WaitedFor, [Next]_vars
  PROVE  WaitedFor'
<1>0. /\ \A r \in Requests : task[r] \in Task /\ RegisteredAt(r) /\ OwnAttempt(r)
      /\ session \in Session
      /\ worker \in [Workers -> {"new", "claimed", "working", "over"}]
  BY DEF InteractionTypeOK, Registered
<1> USE DEF WaitedFor, Working
<1>1. ASSUME session.status = "waiting" => task'[session.item] = task[session.item],
             session' = session \/ session'.status # "waiting", worker' = worker
      PROVE  WaitedFor'
  BY <1>1
<1>2. ASSUME NEW r \in Requests, TaskStep(r)
      PROVE  WaitedFor'
  <2>1. worker' = worker
    BY <1>2, TaskMoves
  <2>2. CASE Publishes(r)
    <3>1. session'.item = r /\ task'[r].pc = "activate"
      BY <1>0, <2>2 DEF Publishes, Session, Task
    <3> QED
      BY <3>1
  <2>3. CASE Continue
    BY <1>0, <2>3 DEF Continue, Session
  <2>4. CASE session' = session /\ (session.status = "waiting" => session.item # r)
    BY <1>1, <1>2, <2>1, <2>4, TaskMoves DEF Awaited
  <2>5. CASE session' = session /\ session.status = "waiting" /\ session.item = r
    <3>1. task[r].pc \in Waits
      BY <1>2, <2>5, TaskMoves, InsertMoves
        DEF Awaited, Publishes, Keeps, Takes, Ends, Waits
    <3>2. CASE Ends(r)
      <4>1. ~Held(r)
        BY <1>0, <2>3, <2>5, <3>1, <3>2 DEF Ends, Continue, Session
      <4>2. task[r].attempt = session.attempt /\ task[r].lease = session.lease
        BY <2>5, <3>1 DEF Awaited
      <4>3. ~Is(r, "none") /\ task[r].by \in Workers
        BY <1>0, <3>1 DEF RegisteredAt, Waits
      <4>4. task[r].by # session.lease
        BY InboxAssumption, <1>0, <2>5, <4>1, <4>2, <4>3 DEF Held, OwnAttempt
      <4>5. task'[r].by = task[r].by
        BY <1>2, TaskMoves
      <4> QED
        BY <2>5, <4>4, <4>5
    <3>3. CASE Keeps(r)
      BY <2>5, <3>3 DEF Keeps, Waits
    <3> QED
      BY <1>2, <2>3, <3>1, <3>2, <3>3, TaskMoves, InsertMoves DEF Publishes, Takes, Waits
  <2> QED
    BY <1>2, <2>2, <2>3, <2>4, <2>5, TaskMoves, InsertMoves DEF Keeps, Takes, Ends
<1>3. ASSUME NEW w \in Workers, NEW r \in Requests, Ask(w, r)
      PROVE  WaitedFor'
  <2>1. session.status = "waiting" => session.item # r
    BY <1>3, AskMoves DEF Awaited, Waits
  <2> QED
    BY <1>1, <1>3, <2>1, AskMoves DEF Awaited
<1>4. ASSUME NEW w \in Workers, End(w) \/ Die(w)
      PROVE  WaitedFor'
  <2>1. CASE session' = session
    <3>1. CASE session.status = "waiting" /\ session.lease # w
      <4>1. \/ task'[session.item] = task[session.item]
            \/ task'[session.item].by = w
        BY <1>4, <3>1, GoneMoves DEF Awaited
      <4>2. session.lease \in Working' => session.lease \in Working
        BY <1>0, <1>4, <3>1 DEF End, Die
      <4> QED
        BY <2>1, <3>1, <4>1, <4>2
    <3>2. CASE session.lease = w
      BY <1>0, <1>4, <2>1, <3>2 DEF End, Die
    <3> QED
      BY <2>1, <3>1, <3>2
  <2>2. CASE session' = [session EXCEPT !.status = "ended"]
    BY <1>0, <2>2 DEF Session
  <2>3. session' \in {session, [session EXCEPT !.status = "ended"]}
    BY <1>4 DEF End, Die, Ended
  <2> QED
    BY <2>1, <2>2, <2>3
<1>5. ASSUME NEW w \in Workers, Claim(w), task' = task
      PROVE  WaitedFor'
  BY <1>0, <1>5 DEF Claim
<1>6. ASSUME NEW w \in Workers, Begin(w), task' = task
      PROVE  WaitedFor'
  <2>1. CASE session' = session /\ session.status = "waiting"
    <3>1. \A r \in Requests : task[r].by # w
      BY <1>0, <1>6 DEF Begin, RegisteredAt
    <3>2. \A v \in Workers \ {w} : worker'[v] = worker[v]
      BY <1>0, <1>6 DEF Begin
    <3> QED
      BY <1>6, <2>1, <3>1, <3>2 DEF Awaited
  <2>2. CASE session'.status # "waiting"
    BY <2>2
  <2> QED
    BY <1>0, <1>6, <2>1, <2>2 DEF Begin, Ended, Session
<1>7. ASSUME Orphan \/ Cancel \/ Delete \/ session' = session, task' = task, worker' = worker
      PROVE  WaitedFor'
  BY <1>0, <1>1, <1>7 DEF Orphan, Cancel, Delete, Session
<1> QED
  BY <1>2, <1>3, <1>4, <1>5, <1>6, <1>7, OtherMoves

-----------------------------------------------------------------------------
(* The theorems *)

LEMMA InitInv == Init => InboxInv
<1> SUFFICES ASSUME Init
             PROVE  InboxInv
  OBVIOUS
<1>1. InteractionTypeOK
  BY InitTyped
<1>2. /\ \A r \in Requests : task[r] = NewTask /\ item[r] = NoItem
      /\ \A r \in Requests, k \in Keys : used[r][k] = NoOne
      /\ \A c \in Clients : client[c] = NewCall
      /\ session.status = "ended" /\ session.attempt = 0 /\ session.lease = NoOne
  BY DEF Init
<1>3. Registered
  BY InboxAssumption, <1>2 DEF Registered, RegisteredAt, NewTask, NoItem, Waits
<1>4. Answered
  BY InboxAssumption, <1>2 DEF Answered, AnsweredAt, NewTask, NoItem
<1>5. \A c \in Clients : Called(c)
  BY <1>2 DEF Called, NewCall
<1>6. \A r \in Requests : Fenced(r) /\ OwnAttempt(r)
  BY <1>2 DEF Fenced, OwnAttempt, NewTask, NoItem, Waits
<1>7. Awaited /\ WaitedFor
  BY <1>2 DEF Awaited, WaitedFor
<1> QED
  BY <1>1, <1>3, <1>4, <1>5, <1>6, <1>7 DEF InboxInv

LEMMA NextInv == InboxInv /\ [Next]_vars => InboxInv'
<1> SUFFICES ASSUME InboxInv, [Next]_vars
             PROVE  InboxInv'
  OBVIOUS
<1>1. /\ InteractionTypeOK /\ Registered /\ Answered /\ Awaited /\ WaitedFor
      /\ \A c \in Clients : Called(c)
      /\ \A r \in Requests : Fenced(r) /\ OwnAttempt(r)
  BY DEF InboxInv
<1>2. InteractionTypeOK'
  BY <1>1, TypeStep
<1>3. Registered' /\ Answered' /\ \A c \in Clients : Called(c)'
  BY <1>1, RegisteredStep, AnsweredStep, CalledStep
<1>4. \A r \in Requests : Fenced(r)'
  BY <1>1, <1>2, FencedStep
<1>5. \A r \in Requests : OwnAttempt(r)'
  BY <1>1, <1>2, OwnAttemptStep
<1>6. Awaited' /\ WaitedFor'
  BY <1>1, AwaitedStep, WaitedForStep
<1> QED
  BY <1>2, <1>3, <1>4, <1>5, <1>6 DEF InboxInv

LEMMA Invariance == Spec => []InboxInv
BY InitInv, NextInv, PTL DEF Spec

(* The record, the items, the receipts, the tasks and the calls have their
   types: also a refused, expired or repeated call of respond or expire, and a
   task that a dying worker leaves behind, yield a row the inbox knows *)
THEOREM InteractionTyped == Spec => []InteractionTypeOK
<1>1. InboxInv => InteractionTypeOK
  BY DEF InboxInv
<1> QED
  BY <1>1, Invariance, PTL

(* One answer wins, for any number of operators, retries, workers and
   attempts: whom respond and expire told that they won agrees with the item
   and with the task that wait_for_answer serves *)
THEOREM OneAnswerWins == Spec => []OneAnswer
<1>1. InboxInv => OneAnswer
  BY DEF InboxInv, OneAnswer, Called, Answered, AnsweredAt, ExpiredFor
<1> QED
  BY <1>1, Invariance, PTL

(* Whenever _wait_for_inbox_item takes the session on with an answer, the
   session waits for that item, in the attempt and under the lease it was
   registered for *)
THEOREM AnswersAreFenced == Spec => AnswerFenced
<1>1. ASSUME InboxInv, [Next]_vars
      PROVE  [\A r \in Requests :
                task[r].pc = "resume" /\ task'[r].pc = "deliver" => Current(r)]_vars
  <2> SUFFICES ASSUME NEW r \in Requests,
                      task[r].pc = "resume", task'[r].pc = "deliver"
               PROVE  Current(r)
    OBVIOUS
  <2>0. InteractionTypeOK /\ Fenced(r)
    BY <1>1 DEF InboxInv
  <2>1. \A q \in Requests : TaskStep(q) => q = r
    BY <2>0, TaskMoves
  <2>2. ~ \E w \in Workers : End(w) \/ Die(w)
    BY <2>0, GoneMoves
  <2>3. ~ \E w \in Workers, q \in Requests : Ask(w, q)
    BY <2>0, AskMoves
  <2>4. TaskStep(r)
    BY <1>1, <2>1, <2>2, <2>3, OtherMoves
  <2>5. Takes(r)
    BY <2>0, <2>4, TaskMoves, InsertMoves DEF Publishes, Keeps, Ends, Waits
  <2> QED
    BY <2>0, <2>5 DEF Takes, Fenced, Stands, Current, Waits
<1> QED
  BY <1>1, Invariance, PTL DEF Spec, AnswerFenced

(* A session whose worker works never waits for a request of that worker that
   has ended: whatever way a task leaves _wait_for_inbox_item, it leaves its
   session running, cancelled or in another attempt *)
THEOREM WaitsForSomeone == Spec => []WaitedFor
<1>1. InboxInv => WaitedFor
  BY DEF InboxInv
<1> QED
  BY <1>1, Invariance, PTL

=============================================================================
