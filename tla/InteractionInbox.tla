--------------------------- MODULE InteractionInbox ---------------------------
(***************************************************************************)
(* The approvals and questions of one background session                   *)
(* (background/inbox.py): the tasks of a worker that ask and wait for an   *)
(* answer (worker.py, _wait_for_inbox_item), the operators who answer,     *)
(* expire, list and reconcile, and the session between them.               *)
(*                                                                         *)
(* Tasks of one worker share an event loop: one that is not asleep is      *)
(* interrupted by other processes, but not by its siblings.  A read of the *)
(* session's record, a commit to it and a transaction on the inbox are     *)
(* steps; respond and expire hold the registry lock, so they are one step. *)
(* The item's version is left out: an item that is pending has always the  *)
(* same one.  Approvals, questions and inputs differ only in the deadline  *)
(* that some have.                                                         *)
(*                                                                         *)
(* The other commits of the session's life are single steps here, as       *)
(* BackgroundSession has their interleavings; a worker claims at most one  *)
(* attempt, and works on it when no other worker does.                     *)
(***************************************************************************)
EXTENDS Integers, FiniteSets

CONSTANTS
  NoOne,      \* no worker, no request, no answer
  Requests,   \* what tasks ask for
  Deadlined,  \* the questions with a deadline
  Workers,
  Clients,    \* operators: TUI, CLI and session service
  Answers,
  Keys,       \* idempotency keys
  MaxCalls    \* bound on the calls of operators, retries included

ASSUME InboxAssumption ==
  /\ NoOne \notin Requests \cup Workers \cup Answers
  /\ Deadlined \subseteq Requests
  /\ "expire" \notin Answers /\ NoOne # "expire"
  /\ MaxCalls \in Nat

VARIABLES
  session,  \* the registry record, as far as questions depend on it
  item,     \* the rows of inbox_items
  used,     \* inbox_idempotency: what each key was used for
  late,     \* the requests whose deadline has passed
  worker,
  task,     \* local state of each asking task
  client,   \* the call of each operator
  calls

inbox == <<item, used>>
vars == <<session, item, used, late, worker, task, client, calls>>

-----------------------------------------------------------------------------
(* The record and the items *)

(* "waiting" is WAITING_APPROVAL or WAITING_INPUT, as the item says; cancelled
   is also CANCELLING, ended is every other status without a worker *)
SessionStatus == {"running", "waiting", "cancelled", "ended", "deleted"}
Session == [status : SessionStatus, attempt : Nat, lease : Workers \cup {NoOne},
            item : Requests \cup {NoOne}]

(* "delivered" is also what mark_delivered and close_expired call rejected *)
Closed == {"delivered", "expired", "stale"}
Open == {"publishing", "pending", "accepted"}
Item == [status : {"none"} \cup Open \cup Closed, attempt : Nat,
         owner : Workers \cup {NoOne}, response : Answers \cup {NoOne}]

NoItem == [status |-> "none", attempt |-> 0, owner |-> NoOne, response |-> NoOne]

Is(r, status) == item[r].status = status
Become(r, status) == item' = [item EXCEPT ![r].status = status]

(* _assert_current *)
Current(r) ==
  /\ session.status = "waiting" /\ session.item = r
  /\ session.attempt = item[r].attempt /\ session.lease = item[r].owner

(* set_terminal *)
SetTerminal(r, status) ==
  IF item[r].status \in {"pending", "publishing"}
                          \cup (IF status = "stale" THEN {"accepted"} ELSE {})
  THEN Become(r, status) ELSE UNCHANGED item

(* Back to RUNNING *)
Continue == session' = [session EXCEPT !.status = "running", !.item = NoOne]

-----------------------------------------------------------------------------
(* Tasks *)

Asleep == {"none", "sleep", "done", "gone"}
TaskPC == Asleep \cup {"insert", "publish", "activate", "poll", "answer",
                       "status", "resume", "deliver", "latest", "fallback"}

Outcome == {"none", "refused", "answered", "cancelled"} \cup Open \cup Closed

Task == [pc : TaskPC, by : Workers \cup {NoOne}, attempt : Nat,
         lease : Workers \cup {NoOne},   \* of the record as last read
         got : Answers \cup {NoOne}, outcome : Outcome]

NewTask == [pc |-> "none", by |-> NoOne, attempt |-> 0, lease |-> NoOne,
            got |-> NoOne, outcome |-> "none"]

(* The call of an operator: answer, expire, or one step of reconcile *)
Call == [pc : {"idle", "send", "stale", "expired", "pending"},
         op : {"answer", "expire"}, item : Requests \cup {NoOne},
         what : Answers \cup {"expire", NoOne}, key : Keys \cup {NoOne},
         told : {"none", "accepted", "expired"}]

NewCall == [pc |-> "idle", op |-> "answer", item |-> NoOne, what |-> NoOne,
            key |-> NoOne, told |-> "none"]

Init ==
  /\ session = [status |-> "ended", attempt |-> 0, lease |-> NoOne, item |-> NoOne]
  /\ item = [r \in Requests |-> NoItem]
  /\ used = [r \in Requests |-> [k \in Keys |-> NoOne]]
  /\ late = {}
  /\ worker = [w \in Workers |-> "new"]
  /\ task = [r \in Requests |-> NewTask]
  /\ client = [c \in Clients |-> NewCall]
  /\ calls = 0

(* The event loop of the task's worker is with it, or free *)
HasLoop(r, w) ==
  \A q \in Requests \ {r} : task[q].by = w => task[q].pc \in Asleep

At(r, pc) == task[r].pc = pc /\ HasLoop(r, task[r].by)

Goto(r, pc) == task' = [task EXCEPT ![r].pc = pc]

(* How the task ended, and the answer it has, stay on record *)
Return(r, outcome) ==
  task' = [task EXCEPT ![r] =
    [NewTask EXCEPT !.pc = "done", !.by = task[r].by, !.got = task[r].got,
                    !.outcome = outcome]]

(* register: the record as it is, whosever attempt that is; a request is asked
   once *)
Ask(w, r) ==
  /\ worker[w] = "working" /\ task[r].pc = "none" /\ HasLoop(r, w)
  /\ task' = [task EXCEPT ![r] =
       [NewTask EXCEPT !.by = w, !.attempt = session.attempt,
          !.lease = session.lease,
          !.pc = IF session.status = "running" THEN "insert" ELSE "done",
          !.outcome = IF session.status = "running" THEN "none" ELSE "refused"]]
  /\ UNCHANGED <<session, inbox, late, worker, client, calls>>

Insert(r) ==
  /\ At(r, "insert")
  /\ item' = [item EXCEPT ![r] =
       [NoItem EXCEPT !.status = "publishing", !.attempt = task[r].attempt,
                      !.owner = task[r].lease]]
  /\ Goto(r, "publish")
  /\ UNCHANGED <<session, used, late, worker, client, calls>>

(* The transition to the waiting status expects RUNNING, and of no attempt *)
Publish(r) ==
  /\ At(r, "publish")
  /\ IF session.status = "running"
     THEN /\ session' = [session EXCEPT !.status = "waiting", !.item = r]
          /\ task' = [task EXCEPT ![r].pc = "activate",
               ![r].attempt = session.attempt, ![r].lease = session.lease]
     ELSE Return(r, "refused") /\ UNCHANGED session
  /\ UNCHANGED <<inbox, late, worker, client, calls>>

Activate(r) ==
  /\ At(r, "activate")
  /\ IF Is(r, "publishing") THEN Become(r, "pending") ELSE UNCHANGED item
  /\ Goto(r, "poll")
  /\ UNCHANGED <<session, used, late, worker, client, calls>>

(* wait_for_answer: whether the session waits for this item still *)
Poll(r) ==
  /\ At(r, "poll") \/ At(r, "sleep")
  /\ IF /\ session.status = "waiting" /\ session.item = r
        /\ session.attempt = item[r].attempt
     THEN Goto(r, "answer") /\ UNCHANGED item
     ELSE Goto(r, "latest") /\ SetTerminal(r, "stale")
  /\ UNCHANGED <<session, used, late, worker, client, calls>>

(* accepted_answer *)
AcceptedAnswer(r) ==
  /\ At(r, "answer")
  /\ IF Is(r, "accepted") /\ Current(r)
     THEN /\ task' = [task EXCEPT ![r].pc = "resume", ![r].got = item[r].response]
          /\ UNCHANGED item
     ELSE /\ Goto(r, "status")
          /\ IF Is(r, "accepted") THEN SetTerminal(r, "stale") ELSE UNCHANGED item
  /\ UNCHANGED <<session, used, late, worker, client, calls>>

(* The item is closed, or its deadline passes, or the task sleeps *)
LookAgain(r) ==
  /\ At(r, "status")
  /\ IF item[r].status \in Closed THEN Goto(r, "latest") /\ UNCHANGED item
     ELSE IF r \in late THEN Goto(r, "latest") /\ SetTerminal(r, "expired")
     ELSE Goto(r, "sleep") /\ UNCHANGED item
  /\ UNCHANGED <<session, used, late, worker, client, calls>>

(* A task that does not compare the record with the one it left *)
ResumeUnfenced(r) ==
  /\ At(r, "resume")
  /\ Continue /\ Goto(r, "deliver")
  /\ UNCHANGED <<inbox, late, worker, client, calls>>

(* The task goes on with its answer, if the session is as it was when it began
   to wait *)
Resume(r) ==
  /\ At(r, "resume")
  /\ IF /\ session.status = "waiting"
        /\ session.attempt = task[r].attempt /\ session.lease = task[r].lease
     THEN Continue /\ Goto(r, "deliver") /\ UNCHANGED item
     ELSE Return(r, "stale") /\ SetTerminal(r, "stale") /\ UNCHANGED session
  /\ UNCHANGED <<used, late, worker, client, calls>>

(* mark_delivered *)
Deliver(r) ==
  /\ At(r, "deliver")
  /\ IF Is(r, "accepted") THEN Become(r, "delivered") ELSE UNCHANGED item
  /\ Return(r, "answered")
  /\ UNCHANGED <<session, used, late, worker, client, calls>>

(* A task that ends the waiting of its session only when it timed out *)
LatestExpiredOnly(r) ==
  /\ At(r, "latest")
  /\ IF session.status \in {"cancelled", "deleted"}
     THEN Return(r, "cancelled") /\ SetTerminal(r, "stale")
     ELSE /\ UNCHANGED item
          /\ IF /\ session.status = "waiting" /\ session.attempt = item[r].attempt
                /\ Is(r, "expired")
             THEN task' = [task EXCEPT ![r].pc = "fallback",
                    ![r].outcome = item[r].status, ![r].lease = session.lease]
             ELSE Return(r, item[r].status)
  /\ UNCHANGED <<session, used, late, worker, client, calls>>

(* No answer: how the item and the session are now *)
Latest(r) ==
  /\ At(r, "latest")
  /\ IF session.status \in {"cancelled", "deleted"}
     THEN Return(r, "cancelled") /\ SetTerminal(r, "stale")
     ELSE /\ UNCHANGED item
          /\ IF session.status = "waiting" /\ session.attempt = item[r].attempt
             THEN task' = [task EXCEPT ![r].pc = "fallback",
                    ![r].outcome = item[r].status, ![r].lease = session.lease]
             ELSE Return(r, item[r].status)
  /\ UNCHANGED <<session, used, late, worker, client, calls>>

(* The session stops waiting, unless it has changed since *)
FallBack(r) ==
  /\ At(r, "fallback")
  /\ IF /\ session.status = "waiting"
        /\ session.attempt = item[r].attempt /\ session.lease = task[r].lease
     THEN Continue ELSE UNCHANGED session
  /\ Return(r, task[r].outcome)
  /\ UNCHANGED <<inbox, late, worker, client, calls>>

TaskStep(r) ==
  \/ Insert(r) \/ Publish(r) \/ Activate(r) \/ Poll(r) \/ AcceptedAnswer(r)
  \/ LookAgain(r) \/ Resume(r) \/ Deliver(r) \/ Latest(r) \/ FallBack(r)

-----------------------------------------------------------------------------
(* Operators *)

(* An operator picks an item that is listed as pending *)
Choose(c) ==
  /\ client[c].pc = "idle" /\ calls < MaxCalls
  /\ calls' = calls + 1
  /\ \E r \in Requests, key \in Keys, what \in Answers \cup {"expire"} :
       /\ Is(r, "pending")
       /\ client' = [client EXCEPT ![c] =
            [pc |-> "send", op |-> IF what = "expire" THEN "expire" ELSE "answer",
             item |-> r, what |-> what, key |-> key, told |-> "none"]]
  /\ UNCHANGED <<session, inbox, late, worker, task>>

(* The reply was lost, or the operator sends the same again *)
Retry(c) ==
  /\ client[c].pc = "idle" /\ client[c].item # NoOne /\ calls < MaxCalls
  /\ calls' = calls + 1
  /\ client' = [client EXCEPT ![c].pc = "send"]
  /\ UNCHANGED <<session, inbox, late, worker, task>>

(* A conflict stays one, whatever is sent again *)
Reply(c, told) ==
  client' = [client EXCEPT ![c] =
    IF told = "conflict" THEN NewCall
    ELSE [client[c] EXCEPT !.pc = "idle", !.told = told]]

Told(op) == IF op = "answer" THEN "accepted" ELSE "expired"

(* What a pending item becomes under the call, and whether the call wins *)
Verdict(op, r) ==
  IF op = "answer" /\ r \in late THEN "expired"
  ELSE IF Current(r) THEN Told(op) ELSE "stale"

Granted(op, r) ==
  Is(r, "pending") /\ Current(r) /\ (op = "answer" => r \notin late)

(* An answer to an item that another operator has answered *)
SendAgain(c) ==
  LET me == client[c]
      r == me.item
      prior == used[r][me.key]
  IN /\ me.pc = "send"
     /\ IF prior # NoOne \/ item[r].status \notin {"pending", "accepted"}
        THEN Reply(c, IF prior = me.what THEN Told(me.op) ELSE "conflict")
             /\ UNCHANGED inbox
        ELSE /\ Reply(c, IF Current(r) THEN Told(me.op) ELSE "conflict")
             /\ item' = [item EXCEPT
                  ![r].status = Verdict(me.op, r),
                  ![r].response = IF Current(r) /\ me.op = "answer"
                                  THEN me.what ELSE item[r].response]
             /\ used' = IF Current(r)
                        THEN [used EXCEPT ![r][me.key] = me.what] ELSE used
     /\ UNCHANGED <<session, late, worker, task, calls>>

(* respond and expire, under the registry lock: a key that was used repeats
   its receipt or conflicts, an item that is not pending conflicts *)
Send(c) ==
  LET me == client[c]
      r == me.item
      prior == used[r][me.key]
  IN /\ me.pc = "send"
     /\ IF prior # NoOne \/ ~Is(r, "pending")
        THEN Reply(c, IF prior = me.what THEN Told(me.op) ELSE "conflict")
             /\ UNCHANGED inbox
        ELSE /\ Reply(c, IF Granted(me.op, r) THEN Told(me.op) ELSE "conflict")
             /\ item' = [item EXCEPT
                  ![r].status = Verdict(me.op, r),
                  ![r].response = IF Granted(me.op, r) /\ me.op = "answer"
                                  THEN me.what ELSE item[r].response]
             /\ used' = IF Granted(me.op, r)
                        THEN [used EXCEPT ![r][me.key] = me.what] ELSE used
     /\ UNCHANGED <<session, late, worker, task, calls>>

(* close_expired: answered late as a message, or dismissed *)
CloseExpired(r) ==
  /\ Is(r, "expired") /\ Become(r, "delivered")
  /\ UNCHANGED <<session, used, late, worker, task, client, calls>>

(* list_items: a pending item that is not current is stale; it is never current
   again, so that judging and writing may be one step *)
ListItems(r) ==
  /\ Is(r, "pending") /\ ~Current(r)
  /\ Become(r, "stale")
  /\ UNCHANGED <<session, used, late, worker, task, client, calls>>

(* reconcile of one item: what to do is decided ... *)
Plan(r) ==
  CASE ~Current(r) -> "stale"
    [] Current(r) /\ r \in late /\ Is(r, "pending") -> "expired"
    [] Current(r) /\ Is(r, "publishing") -> "pending"
    [] OTHER -> "none"

Reconcile(c) ==
  /\ client[c].pc = "idle" /\ calls < MaxCalls
  /\ calls' = calls + 1
  /\ \E r \in Requests :
       /\ item[r].status \in Open /\ Plan(r) # "none"
       /\ client' = [client EXCEPT ![c] =
            [NewCall EXCEPT !.pc = Plan(r), !.item = r]]
  /\ UNCHANGED <<session, inbox, late, worker, task>>

(* ... from what the item and the session were before *)
Repair(c) ==
  LET r == client[c].item
  IN /\ client[c].pc \in {"stale", "expired", "pending"}
     /\ IF client[c].pc = "pending"
        THEN IF Is(r, "publishing") THEN Become(r, "pending") ELSE UNCHANGED item
        ELSE SetTerminal(r, client[c].pc)
     /\ client' = [client EXCEPT ![c] = NewCall]
     /\ UNCHANGED <<session, used, late, worker, task, calls>>

-----------------------------------------------------------------------------
(* The session *)

Working == {w \in Workers : worker[w] = "working"}

(* A worker claims the next attempt, also while the last one's still lives *)
Claim(w) ==
  /\ worker[w] = "new" /\ session.status \in {"ended", "cancelled"}
  /\ session' = [status |-> "running", attempt |-> session.attempt + 1,
                 lease |-> w, item |-> NoOne]
  /\ worker' = [worker EXCEPT ![w] = "claimed"]
  /\ UNCHANGED <<inbox, late, task, client, calls>>

Ended(w) ==
  IF session.status = "running" /\ session.lease = w
  THEN [session EXCEPT !.status = "ended"] ELSE session

(* The owner lease is free, or another process has it *)
Begin(w) ==
  /\ worker[w] = "claimed"
  /\ IF Working = {}
     THEN worker' = [worker EXCEPT ![w] = "working"] /\ UNCHANGED session
     ELSE worker' = [worker EXCEPT ![w] = "over"] /\ session' = Ended(w)
  /\ UNCHANGED <<inbox, late, task, client, calls>>

(* The tasks that are left end with their worker *)
Gone(w) ==
  [r \in Requests |->
     IF task[r].by = w /\ task[r].pc # "done"
     THEN [NewTask EXCEPT !.pc = "gone", !.by = w, !.got = task[r].got]
     ELSE task[r]]

(* The worker finalises; no outcome is legal for a session that waits *)
End(w) ==
  /\ worker[w] = "working" /\ HasLoop(NoOne, w)
  /\ worker' = [worker EXCEPT ![w] = "over"]
  /\ session' = Ended(w)
  /\ task' = Gone(w)
  /\ UNCHANGED <<inbox, late, client, calls>>

Die(w) ==
  /\ worker[w] \in {"claimed", "working"}
  /\ worker' = [worker EXCEPT ![w] = "over"]
  /\ task' = Gone(w)
  /\ UNCHANGED <<session, inbox, late, client, calls>>

(* Maintenance finds the worker dead *)
Orphan ==
  /\ session.status = "running" /\ worker[session.lease] = "over"
  /\ session' = [session EXCEPT !.status = "ended"]
  /\ UNCHANGED <<inbox, late, worker, task, client, calls>>

Cancel ==
  /\ session.status \in {"running", "waiting"}
  /\ session' = [session EXCEPT !.status = "cancelled"]
  /\ UNCHANGED <<inbox, late, worker, task, client, calls>>

Delete ==
  /\ session.status \in {"cancelled", "ended"}
  /\ session' = [session EXCEPT !.status = "deleted"]
  /\ UNCHANGED <<inbox, late, worker, task, client, calls>>

DeadlinePasses(r) ==
  /\ r \in Deadlined \ late /\ item[r].status \in Open
  /\ late' = late \cup {r}
  /\ UNCHANGED <<session, inbox, worker, task, client, calls>>

-----------------------------------------------------------------------------

Operator(c) == Choose(c) \/ Retry(c) \/ Send(c) \/ Reconcile(c) \/ Repair(c)

Next ==
  \/ \E r \in Requests :
       TaskStep(r) \/ CloseExpired(r) \/ ListItems(r) \/ DeadlinePasses(r)
  \/ \E c \in Clients : Operator(c)
  \/ \E w \in Workers :
       Claim(w) \/ Begin(w) \/ End(w) \/ Die(w) \/ \E r \in Requests : Ask(w, r)
  \/ Orphan \/ Cancel \/ Delete

Spec == Init /\ [][Next]_vars

-----------------------------------------------------------------------------
(* Properties *)

(* Types *)
InteractionTypeOK ==
  /\ session \in Session
  /\ item \in [Requests -> Item]
  /\ used \in [Requests -> [Keys -> Answers \cup {NoOne, "expire"}]]
  /\ late \subseteq Deadlined
  /\ worker \in [Workers -> {"new", "claimed", "working", "over"}]
  /\ task \in [Requests -> Task]
  /\ client \in [Clients -> Call]
  /\ calls \in 0 .. MaxCalls

(* "Concurrent answers produce one winner" (PRD-227): an operator told that an
   answer was accepted finds that answer with the task, if any; one told that
   the request expired finds none, and a task that goes on without an answer
   because its request expired has missed none.  Retries with a key repeat the
   receipt (respond, expire, wait_for_answer) *)
OneAnswer ==
  /\ \A c \in Clients :
       /\ client[c].told = "accepted" => item[client[c].item].response = client[c].what
       /\ client[c].told = "expired" => item[client[c].item].response = NoOne
  /\ \A r \in Requests :
       /\ task[r].got # NoOne => task[r].got = item[r].response
       /\ task[r].outcome = "expired" => item[r].response = NoOne

(* "Deleted sessions and stale attempts never receive late responses"
   (PRD-227): a task goes on with an answer only from a session that waits for
   its item in the attempt it was registered for, cancellations, deadlines and
   later attempts notwithstanding (_wait_for_inbox_item) *)
AnswerFenced ==
  [][\A r \in Requests :
       task[r].pc = "resume" /\ task'[r].pc = "deliver" => Current(r)]_vars

(* A session does not wait for a request whose task has ended, however it
   ended, as long as its worker works *)
WaitedFor ==
  (/\ session.status = "waiting" /\ session.lease \in Working
   /\ task[session.item].by = session.lease)
    => task[session.item].pc \notin {"done", "gone"}
=============================================================================
