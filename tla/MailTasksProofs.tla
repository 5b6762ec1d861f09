-------------------------- MODULE MailTasksProofs --------------------------
(***************************************************************************)
(* Theorems about MailTasks, for any sets of mails and calls, any number of *)
(* retries, workers and crashes, with keys that expire.  AtMostOnce is not  *)
(* inductive: how often a mail has been sent says nothing of the calls that *)
(* are about to send it.  KeyInv adds that a mail without its key has not   *)
(* been sent since its last key expired, that at most one call is past the  *)
(* key, and that this one has not sent yet.                                 *)
(***************************************************************************)
EXTENDS MailTasks, TLAPS

USE MailAssumption

\* The calls for m between the claim and the SMTP server, unfolded.
Past(t, m) == task[t].mail = m /\ task[t].pc \in {"claimed", "rendered"}

KeyInv ==
    \A m \in Locked :
        /\ m \notin keys => sent[m] = before[m] /\ \A t \in Tasks : ~Past(t, m)
        /\ \A t \in Tasks : Past(t, m) => sent[m] = before[m]
        /\ \A t, u \in Tasks : Past(t, m) /\ Past(u, m) => t = u
        /\ sent[m] <= before[m] + 1

\* A call that is put somewhere else keeps its mail and its retries.
LEMMA MoveType ==
    ASSUME TypeOK, NEW t \in Tasks, task[t].pc # "unused",
           NEW pc \in Pending \cup Running \cup Finished
    PROVE  LET r == [task[t] EXCEPT !.pc = pc]
           IN  r \in Task /\ r.pc = pc /\ r.mail = task[t].mail /\ r.mail \in Mails
BY DEF TypeOK, Task

\* The type of `task` survives the update of one call.
LEMMA UpdateType ==
    ASSUME TypeOK, NEW t \in Tasks, NEW r \in Task, r.mail \in Mails,
           task' = [task EXCEPT ![t] = r]
    PROVE  /\ task' \in [Tasks -> Task]
           /\ \A u \in Tasks : task'[u].pc # "unused" => task'[u].mail \in Mails
BY DEF TypeOK

\* The two together, for a call that is moved.
LEMMA MovedType ==
    ASSUME TypeOK, NEW t \in Tasks, task[t].pc # "unused",
           NEW pc \in Pending \cup Running \cup Finished,
           task' = [task EXCEPT ![t] = [task[t] EXCEPT !.pc = pc]]
    PROVE  /\ task' \in [Tasks -> Task]
           /\ \A u \in Tasks : task'[u].pc # "unused" => task'[u].mail \in Mails
BY MoveType, UpdateType

\* One more mail sent is still a number.
LEMMA DeliverType ==
    ASSUME TypeOK, NEW m \in Mails, Deliver(m)
    PROVE  /\ sent' \in [Mails -> Nat]
           /\ \A n \in Mails : sent'[n] = IF n = m THEN sent[n] + 1 ELSE sent[n]
BY DEF TypeOK, Deliver

\* A call that raised is a call still, scheduled again or failed.
LEMMA ExceptionType ==
    ASSUME TypeOK, NEW t \in Tasks, task[t].pc # "unused"
    PROVE  /\ AfterException(t) \in Task
           /\ AfterException(t).mail = task[t].mail
           /\ AfterException(t).pc \in {"scheduled", "failed"}
<1>1. task[t].retries \in 0 .. Retries
  BY DEF TypeOK, Task
<1>2. CASE task[t].retries > 0
  <2>1. AfterException(t) = [task[t] EXCEPT !.pc = "scheduled", !.retries = @ - 1]
    BY <1>2 DEF AfterException
  <2>2. task[t].retries - 1 \in 0 .. Retries
    BY <1>1, <1>2
  <2>3. QED
    BY <2>1, <2>2 DEF TypeOK, Task, Pending
<1>3. CASE ~(task[t].retries > 0)
  BY <1>3, MoveType DEF AfterException, Finished
<1>4. QED
  BY <1>2, <1>3

\* A call moves within the type of calls, and only from a call in use.
LEMMA TypeStep == TypeOK /\ [Next]_vars => TypeOK'
<1> SUFFICES ASSUME TypeOK, [Next]_vars PROVE TypeOK'
  OBVIOUS
<1>1. ASSUME NEW t \in Tasks, NEW m \in Mails, Enqueue(t, m) PROVE TypeOK'
  <2>1. [pc |-> "queued", mail |-> m, retries |-> Retries] \in Task
    BY DEF Task, Pending
  <2>2. QED
    BY <1>1, <2>1, UpdateType DEF Enqueue, TypeOK
<1>2. ASSUME NEW t \in Tasks, Start(t) PROVE TypeOK'
  <2>1. task' = [task EXCEPT ![t] = [task[t] EXCEPT !.pc = "started"]]
    BY <1>2 DEF Start, Move
  <2>2. QED
    BY <1>2, <2>1, MovedType DEF Start, Move, TypeOK, Running
<1>3. ASSUME NEW t \in Tasks, Reschedule(t) PROVE TypeOK'
  <2>1. task' = [task EXCEPT ![t] = [task[t] EXCEPT !.pc = "queued"]]
    BY <1>3 DEF Reschedule, Move
  <2>2. QED
    BY <1>3, <2>1, MovedType DEF Reschedule, Move, TypeOK, Pending
<1>4. ASSUME NEW t \in Tasks, Claim(t) PROVE TypeOK'
  <2>1. PICK pc \in {"duplicate", "claimed"} :
           task' = [task EXCEPT ![t] = [task[t] EXCEPT !.pc = pc]]
    BY <1>4 DEF Claim
  <2>2. QED
    BY <1>4, <2>1, MovedType DEF Claim, TypeOK, Running, Finished
<1>5. ASSUME NEW t \in Tasks, Load(t) PROVE TypeOK'
  <2>1. PICK pc \in {"skipped", "rendered"} :
           task' = [task EXCEPT ![t] = [task[t] EXCEPT !.pc = pc]]
    BY <1>5 DEF Load, Move
  <2>2. QED
    BY <1>5, <2>1, MovedType DEF Load, Move, TypeOK, Running, Finished
<1>6. ASSUME NEW t \in Tasks, Send(t) PROVE TypeOK'
  <2>1. task' = [task EXCEPT ![t] = [task[t] EXCEPT !.pc = "sent"]]
    BY <1>6 DEF Send, Move
  <2>2. task[t].mail \in Mails /\ sent' \in [Mails -> Nat]
    BY <1>6, DeliverType DEF Send, Move, TypeOK
  <2>3. QED
    BY <1>6, <2>1, <2>2, MovedType DEF Send, Move, TypeOK, Finished
<1>7. ASSUME NEW t \in Tasks, Fail(t) PROVE TypeOK'
  <2>1. task[t].pc # "unused" /\ task[t].mail \in Mails
    BY <1>7 DEF Fail, TypeOK
  <2>2. sent' \in [Mails -> Nat]
    BY <1>7, <2>1, DeliverType DEF Fail, TypeOK
  <2>3. QED
    BY <1>7, <2>1, <2>2, ExceptionType, UpdateType DEF Fail, TypeOK
<1>8. ASSUME NEW m \in Mails, Withdraw(m) \/ Lapse(m) PROVE TypeOK'
  BY <1>8 DEF Withdraw, Lapse, TypeOK
<1>9. CASE Crash
  <2>1. \A t \in Tasks : task'[t] = IF t \in Busy THEN [task[t] EXCEPT !.pc = "lost"]
                                    ELSE task[t]
    BY <1>9 DEF Crash
  <2>2. \A t \in Busy : t \in Tasks /\ task[t].pc # "unused"
    BY DEF Busy, Running
  <2>3. \A t \in Tasks : /\ task'[t] \in Task
                         /\ task'[t].pc # "unused" => task'[t].mail \in Mails
    <3> TAKE t \in Tasks
    <3>1. CASE t \in Busy
      <4>1. task[t].pc # "unused" /\ "lost" \in Pending \cup Running \cup Finished
        BY <3>1, <2>2 DEF Finished
      <4>2. task'[t] = [task[t] EXCEPT !.pc = "lost"]
        BY <3>1, <2>1
      <4>3. QED
        BY <4>1, <4>2, MoveType
    <3>2. CASE t \notin Busy
      BY <3>2, <2>1 DEF TypeOK
    <3>3. QED
      BY <3>1, <3>2
  <2>4. task' \in [Tasks -> Task]
    BY <1>9, <2>3 DEF Crash
  <2>5. crashes' \in 0 .. MaxCrashes
    BY <1>9 DEF Crash, TypeOK
  <2>6. QED
    BY <1>9, <2>3, <2>4, <2>5 DEF Crash, TypeOK
<1>10. CASE UNCHANGED vars
  BY <1>10 DEF vars, TypeOK
<1>11. QED
  BY <1>1, <1>2, <1>3, <1>4, <1>5, <1>6, <1>7, <1>8, <1>9, <1>10 DEF Next, Step

\* The state is well-formed: calls carry mails of the system, only mails whose task
\* claims one have a key, and counters stay counters.
THEOREM TypeCorrect == Spec => []TypeOK
<1>1. Init => TypeOK
  <2>1. [pc |-> "unused", mail |-> NoMail, retries |-> 0] \in Task
    BY DEF Task
  <2>2. QED
    BY <2>1 DEF Init, TypeOK
<1>2. TypeOK /\ [Next]_vars => TypeOK'
  BY TypeStep
<1>3. QED
  BY <1>1, <1>2, PTL DEF Spec

\* A step that moves no call past the key, adds no key and sends nothing keeps KeyInv.
LEMMA KeyFrame ==
    ASSUME TypeOK, KeyInv, UNCHANGED <<keys, sent, before>>,
           \A t \in Tasks, m \in Locked : Past(t, m)' => Past(t, m)
    PROVE  KeyInv'
BY DEF KeyInv, TypeOK

\* Every step keeps KeyInv.
LEMMA KeyStep == TypeOK /\ KeyInv /\ [Next]_vars => KeyInv'
<1> SUFFICES ASSUME TypeOK, KeyInv, [Next]_vars PROVE KeyInv'
  OBVIOUS
<1>1. ASSUME NEW t \in Tasks, NEW m \in Mails, Enqueue(t, m) PROVE KeyInv'
  BY <1>1, KeyFrame DEF Enqueue, Past, TypeOK
<1>2. ASSUME NEW t \in Tasks, Start(t) PROVE KeyInv'
  BY <1>2, KeyFrame DEF Start, Move, Past, TypeOK
<1>3. ASSUME NEW t \in Tasks, Reschedule(t) PROVE KeyInv'
  BY <1>3, KeyFrame DEF Reschedule, Move, Past, TypeOK
<1>4. ASSUME NEW t \in Tasks, Claim(t) PROVE KeyInv'
  <2>1. \A u \in Tasks, m \in Locked :
           Past(u, m)' <=> Past(u, m) \/ (u = t /\ task[t].mail = m /\ m \notin keys)
    BY <1>4 DEF Claim, Past, TypeOK
  <2>2. \A m \in Locked : m \notin keys' => m \notin keys /\ task[t].mail # m
    BY <1>4 DEF Claim
  <2>3. sent' = sent /\ before' = before
    BY <1>4 DEF Claim
  <2>4. QED
    BY <2>1, <2>2, <2>3 DEF KeyInv
<1>5. ASSUME NEW t \in Tasks, Load(t) PROVE KeyInv'
  BY <1>5, KeyFrame DEF Load, Move, Past, TypeOK
<1>6. ASSUME NEW t \in Tasks, Send(t) \/ Fail(t) PROVE KeyInv'
  <2>1. \A m \in Locked : ~Past(t, m)'
    <3>1. CASE Send(t)
      BY <3>1 DEF Send, Move, Past, TypeOK, Task
    <3>2. CASE Fail(t)
      BY <3>2, ExceptionType DEF Fail, Past, TypeOK
    <3>3. QED
      BY <1>6, <3>1, <3>2
  <2>2. \A u \in Tasks, m \in Locked : u # t => (Past(u, m)' <=> Past(u, m))
    BY <1>6 DEF Send, Fail, Move, Past, TypeOK
  <2>3. \A m \in Locked : sent'[m] = sent[m] \/ (Past(t, m) /\ sent'[m] = sent[m] + 1)
    BY <1>6 DEF Send, Fail, Move, Deliver, Past, TypeOK
  <2>4. /\ keys' = keys /\ before' = before
        /\ \A m \in Locked : sent[m] \in Nat /\ before[m] \in Nat
    BY <1>6 DEF Send, Fail, TypeOK
  <2>5. QED
    BY <2>1, <2>2, <2>3, <2>4 DEF KeyInv
<1>7. ASSUME NEW m \in Mails, Withdraw(m) PROVE KeyInv'
  BY <1>7, KeyFrame DEF Withdraw, Past
<1>8. CASE Crash
  BY <1>8, KeyFrame DEF Crash, Past, Busy, Running, TypeOK
<1>9. ASSUME NEW m \in Mails, Lapse(m) PROVE KeyInv'
  <2>1. \A t \in Tasks, n \in Locked : Past(t, n)' <=> Past(t, n)
    BY <1>9 DEF Lapse, Past
  <2>2. m \in Locked => \A t \in Tasks : ~Past(t, m)
    BY <1>9 DEF Lapse, Of, Beyond, Past
  <2>3. /\ sent' = sent /\ keys' = keys \ {m}
        /\ before' = [before EXCEPT ![m] = sent[m]]
    BY <1>9 DEF Lapse
  <2>4. \A n \in Locked : /\ before'[n] = IF n = m THEN sent[n] ELSE before[n]
                          /\ sent[n] \in Nat
    BY <2>3 DEF TypeOK
  <2>5. \A n \in Locked : /\ n \notin keys' => n = m \/ n \notin keys
                          /\ n = m => sent'[n] = before'[n]
                          /\ n # m => sent'[n] = sent[n] /\ before'[n] = before[n]
    BY <2>3, <2>4
  <2>6. \A n \in Locked : sent'[n] <= before'[n] + 1
    BY <2>3, <2>4 DEF KeyInv
  <2>7. QED
    BY <2>1, <2>2, <2>5, <2>6 DEF KeyInv
<1>10. CASE UNCHANGED vars
  BY <1>10, KeyFrame DEF vars, Past
<1>11. QED
  BY <1>1, <1>2, <1>3, <1>4, <1>5, <1>6, <1>7, <1>8, <1>9, <1>10 DEF Next, Step

\* A mail that has a key reaches the SMTP server at most once in the lifetime of the
\* key, whatever is enqueued twice, retried, lost or answered with an error.
THEOREM AtMostOnceHolds == Spec => []AtMostOnce
<1>1. Init => KeyInv
  BY DEF Init, KeyInv, Past
<1>2. TypeOK /\ KeyInv /\ [Next]_vars => KeyInv'
  BY KeyStep
<1>3. KeyInv => AtMostOnce
  BY DEF KeyInv, AtMostOnce
<1>4. QED
  BY <1>1, <1>2, <1>3, TypeCorrect, PTL DEF Spec

\* Without a key nothing stands between a retry and the mail: a call that ended sent
\* it, gave up after its last attempt, died with the consumer or was not wanted.
THEOREM RetriesDeliverHolds == Spec => []RetriesDeliver
<1>1. Init => RetriesDeliver
  BY DEF Init, RetriesDeliver, Finished
<1>2. TypeOK /\ RetriesDeliver /\ [Next]_vars => RetriesDeliver'
  <2> SUFFICES ASSUME TypeOK, RetriesDeliver, [Next]_vars PROVE RetriesDeliver'
    OBVIOUS
  <2> USE DEF TypeOK, RetriesDeliver, Finished
  <2>1. ASSUME NEW t \in Tasks, NEW m \in Mails, Enqueue(t, m) PROVE RetriesDeliver'
    BY <2>1 DEF Enqueue
  <2>2. ASSUME NEW t \in Tasks, Start(t) \/ Reschedule(t) PROVE RetriesDeliver'
    BY <2>2 DEF Start, Reschedule, Move, Task
  <2>3. ASSUME NEW t \in Tasks, Claim(t) PROVE RetriesDeliver'
    BY <2>3 DEF Claim
  <2>4. ASSUME NEW t \in Tasks, Load(t) PROVE RetriesDeliver'
    BY <2>4 DEF Load, Move
  <2>5. ASSUME NEW t \in Tasks, Send(t) PROVE RetriesDeliver'
    BY <2>5 DEF Send, Move, Deliver
  <2>6. ASSUME NEW t \in Tasks, Fail(t) PROVE RetriesDeliver'
    <3>1. \A m \in Mails : sent'[m] >= sent[m] /\ sent[m] \in Nat /\ sent'[m] \in Nat
      BY <2>6 DEF Fail, Deliver
    <3>2. task'[t].pc \in {"scheduled", "failed"}
      BY <2>6, ExceptionType DEF Fail
    <3>3. \A u \in Tasks : u # t => task'[u] = task[u]
      BY <2>6 DEF Fail
    <3>4. unwanted' = unwanted
      BY <2>6 DEF Fail
    <3>5. QED
      BY <3>1, <3>2, <3>3, <3>4
  <2>7. ASSUME NEW m \in Mails, Withdraw(m) \/ Lapse(m) PROVE RetriesDeliver'
    BY <2>7 DEF Withdraw, Lapse
  <2>8. CASE Crash
    BY <2>8 DEF Crash, Busy
  <2>9. CASE UNCHANGED vars
    BY <2>9 DEF vars
  <2>10. QED
    BY <2>1, <2>2, <2>3, <2>4, <2>5, <2>6, <2>7, <2>8, <2>9 DEF Next, Step
<1>3. QED
  BY <1>1, <1>2, TypeCorrect, PTL DEF Spec

-----------------------------------------------------------------------------
(* The refinement. *)

Owed(t) == [mail |-> task[t].mail,
            left |-> IF task[t].pc \in Pending \cup Running THEN task[t].retries + 1 ELSE 0]
AllOwed == [t \in Tasks |-> Owed(t)]

\* A call that was not made has no mail, so the promise does not know it either.
UnusedInv == \A t \in Tasks : task[t].pc = "unused" => task[t].mail = NoMail

\* Every step of a call but an exception moves it from one place to another.
LEMMA StepMoves ==
    ASSUME TypeOK, NEW t \in Tasks, Step(t)
    PROVE  /\ task[t].pc \in Pending \cup Running
           /\ \E pc \in Pending \cup Running \cup Finished : task' = [task EXCEPT ![t].pc = pc]
<1>1. CASE Start(t)
  BY <1>1 DEF Start, Move, Pending, Running
<1>2. CASE Reschedule(t)
  BY <1>2 DEF Reschedule, Move, Pending
<1>3. CASE Claim(t)
  BY <1>3 DEF Claim, Running, Finished
<1>4. CASE Load(t)
  BY <1>4 DEF Load, Move, Running, Finished
<1>5. CASE Send(t)
  BY <1>5 DEF Send, Move, Running, Finished
<1>6. QED
  BY <1>1, <1>2, <1>3, <1>4, <1>5 DEF Step

\* Every step keeps UnusedInv.
LEMMA UnusedStep == TypeOK /\ UnusedInv /\ [Next]_vars => UnusedInv'
<1> SUFFICES ASSUME TypeOK, UnusedInv, [Next]_vars PROVE UnusedInv'
  OBVIOUS
<1> USE DEF TypeOK, UnusedInv
<1>1. ASSUME NEW t \in Tasks, NEW m \in Mails, Enqueue(t, m) PROVE UnusedInv'
  BY <1>1 DEF Enqueue
<1>2. ASSUME NEW t \in Tasks, Step(t) PROVE UnusedInv'
  <2>1. PICK pc \in Pending \cup Running \cup Finished : task' = [task EXCEPT ![t].pc = pc]
    BY <1>2, StepMoves
  <2>2. QED
    BY <2>1 DEF Pending, Running, Finished
<1>3. ASSUME NEW t \in Tasks, Fail(t) PROVE UnusedInv'
  BY <1>3, ExceptionType DEF Fail
<1>4. CASE Crash
  BY <1>4 DEF Crash, Busy, Running
<1>5. CASE (\E m \in Mails : Withdraw(m) \/ Lapse(m)) \/ UNCHANGED vars
  BY <1>5 DEF Withdraw, Lapse, vars
<1>6. QED
  BY <1>1, <1>2, <1>3, <1>4, <1>5 DEF Next

\* What is owed changes with the attempts of the one call that moves.
LEMMA OwedUpdate ==
    ASSUME NEW t \in Tasks, NEW left,
           \A u \in Tasks : Owed(u)' = IF u = t THEN [mail |-> task[t].mail, left |-> left]
                                      ELSE Owed(u)
    PROVE  AllOwed' = [AllOwed EXCEPT ![t].left = left]
<1>1. Owed(t).mail = task[t].mail
  BY DEF Owed
<1>2. [Owed(t) EXCEPT !.left = left] = [mail |-> task[t].mail, left |-> left]
  BY DEF Owed
<1>3. QED
  BY <1>2 DEF AllOwed

LEMMA OwedAtMove ==
    ASSUME TypeOK, NEW t \in Tasks, task[t].pc \in Pending \cup Running,
           NEW pc, task' = [task EXCEPT ![t].pc = pc]
    PROVE  /\ AllOwed[t] = [mail |-> task[t].mail, left |-> task[t].retries + 1]
           /\ AllOwed[t].left > 0
           /\ AllOwed[t].mail = task[t].mail
           /\ Owed(t)' = [mail |-> task[t].mail,
                          left |-> IF pc \in Pending \cup Running THEN task[t].retries + 1 ELSE 0]
           /\ \A u \in Tasks : u # t => Owed(u)' = Owed(u)
<1>1. task[t].retries \in Nat
  BY DEF TypeOK, Task
<1>2. AllOwed[t] = [mail |-> task[t].mail, left |-> task[t].retries + 1]
  BY DEF AllOwed, Owed
<1>3. \A u \in Tasks : task'[u] = IF u = t THEN [task[t] EXCEPT !.pc = pc] ELSE task[u]
  BY DEF TypeOK
<1>4. /\ task'[t].mail = task[t].mail
      /\ task'[t].retries = task[t].retries
      /\ task'[t].pc = pc
  BY <1>3 DEF TypeOK, Task
<1>5. \A u \in Tasks : u # t => Owed(u)' = Owed(u)
  BY <1>3 DEF Owed
<1>6. Owed(t)' = [mail |-> task[t].mail,
                 left |-> IF pc \in Pending \cup Running THEN task[t].retries + 1 ELSE 0]
  BY <1>4 DEF Owed
<1>7. QED
  BY <1>1, <1>2, <1>5, <1>6

\* A call that goes on keeps its attempts, one that ends has none left.
LEMMA OwedStays ==
    ASSUME TypeOK, NEW t \in Tasks, task[t].pc \in Pending \cup Running,
           NEW pc \in Pending \cup Running, task' = [task EXCEPT ![t].pc = pc]
    PROVE  AllOwed' = AllOwed
<1>1. Owed(t)' = Owed(t)
  BY OwedAtMove DEF Owed
<1>2. \A u \in Tasks : u # t => Owed(u)' = Owed(u)
  BY OwedAtMove
<1>3. QED
  BY <1>1, <1>2 DEF AllOwed

LEMMA OwedEnds ==
    ASSUME TypeOK, NEW t \in Tasks, task[t].pc \in Pending \cup Running,
           NEW pc \in Finished, task' = [task EXCEPT ![t].pc = pc]
    PROVE  /\ AllOwed' = [AllOwed EXCEPT ![t].left = 0]
           /\ AllOwed[t].left > 0
           /\ AllOwed[t].mail = task[t].mail
<1>1. pc \notin Pending \cup Running
  BY DEF Pending, Running, Finished
<1>2. Owed(t)' = [mail |-> task[t].mail, left |-> 0]
  BY <1>1, OwedAtMove
<1>3. AllOwed' = [AllOwed EXCEPT ![t].left = 0]
  BY <1>2, OwedAtMove, OwedUpdate
<1>4. QED
  BY <1>3, OwedAtMove

\* A mail with a key that is delivered has not been delivered since its last key.
LEMMA DeliverOnce ==
    ASSUME KeyInv, NEW t \in Tasks, task[t].pc = "rendered", Deliver(task[t].mail)
    PROVE  Promise!Deliver(task[t].mail)
BY DEF KeyInv, Past, Deliver, Promise!Deliver

\* Every step of the tasks is a step of the promise, or invisible to it.
LEMMA PromiseStep ==
    ASSUME TypeOK, KeyInv, UnusedInv, [Next]_vars
    PROVE  [Promise!Next]_(Promise!vars)
<1>1. ASSUME NEW t \in Tasks, NEW m \in Mails, Enqueue(t, m) PROVE Promise!Ask(t, m)
  <2>1. Owed(t) = Promise!NoCall
    BY <1>1 DEF Enqueue, UnusedInv, Promise!NoCall, NoMail, Pending, Running, Owed
  <2>2. task'[t] = [pc |-> "queued", mail |-> m, retries |-> Retries]
    BY <1>1 DEF Enqueue, TypeOK
  <2>3. Owed(t)' = [mail |-> m, left |-> Retries + 1]
    BY <2>2 DEF Owed, Pending
  <2>4. \A u \in Tasks : u # t => Owed(u)' = Owed(u)
    BY <1>1 DEF Enqueue, TypeOK, Owed
  <2>5. AllOwed' = [AllOwed EXCEPT ![t] = [mail |-> m, left |-> Retries + 1]]
    BY <2>3, <2>4 DEF AllOwed
  <2>6. QED
    BY <1>1, <2>1, <2>5 DEF Enqueue, Promise!Ask, AllOwed, Owed
<1>2. ASSUME NEW t \in Tasks, Start(t) \/ Reschedule(t) PROVE UNCHANGED Promise!vars
  <2>1. PICK pc \in Pending \cup Running : task' = [task EXCEPT ![t].pc = pc]
    BY <1>2 DEF Start, Reschedule, Move, Pending, Running
  <2>2. AllOwed' = AllOwed
    BY <1>2, <2>1, StepMoves, OwedStays DEF Step
  <2>3. QED
    BY <1>2, <2>2 DEF Start, Reschedule, Promise!vars, AllOwed, Owed
<1>3. ASSUME NEW t \in Tasks, Claim(t) PROVE Promise!GiveUp(t) \/ UNCHANGED Promise!vars
  <2>1. task[t].pc \in Pending \cup Running
    BY <1>3 DEF Claim, Running
  <2>2. CASE task[t].mail \in keys
    <3>1. task' = [task EXCEPT ![t].pc = "duplicate"] /\ "duplicate" \in Finished
      BY <1>3, <2>2 DEF Claim, Finished
    <3>2. /\ AllOwed' = [AllOwed EXCEPT ![t].left = 0] /\ AllOwed[t].left > 0
          /\ AllOwed[t].mail = task[t].mail
      BY <2>1, <3>1, OwedEnds
    <3>3. AllOwed[t].mail \in Locked
      BY <2>2, <3>2 DEF TypeOK
    <3>4. QED
      BY <1>3, <3>2, <3>3 DEF Claim, Promise!GiveUp, AllOwed, Owed
  <2>3. CASE task[t].mail \notin keys
    <3>1. task' = [task EXCEPT ![t].pc = "claimed"] /\ "claimed" \in Pending \cup Running
      BY <1>3, <2>3 DEF Claim, Running
    <3>2. AllOwed' = AllOwed
      BY <2>1, <3>1, OwedStays
    <3>3. QED
      BY <1>3, <3>2 DEF Claim, Promise!vars, AllOwed, Owed
  <2>4. QED
    BY <2>2, <2>3
<1>4. ASSUME NEW t \in Tasks, Load(t) PROVE Promise!GiveUp(t) \/ UNCHANGED Promise!vars
  <2>1. task[t].pc \in Pending \cup Running
    BY <1>4 DEF Load, Move, Running
  <2>2. CASE task[t].mail \in unwanted
    <3>1. task' = [task EXCEPT ![t].pc = "skipped"] /\ "skipped" \in Finished
      BY <1>4, <2>2 DEF Load, Move, Finished
    <3>2. /\ AllOwed' = [AllOwed EXCEPT ![t].left = 0] /\ AllOwed[t].left > 0
          /\ AllOwed[t].mail = task[t].mail
      BY <2>1, <3>1, OwedEnds
    <3>3. AllOwed[t].mail \in unwanted
      BY <2>2, <3>2
    <3>4. QED
      BY <1>4, <3>2, <3>3 DEF Load, Promise!GiveUp, AllOwed, Owed
  <2>3. CASE task[t].mail \notin unwanted
    <3>1. task' = [task EXCEPT ![t].pc = "rendered"] /\ "rendered" \in Pending \cup Running
      BY <1>4, <2>3 DEF Load, Move, Running
    <3>2. AllOwed' = AllOwed
      BY <2>1, <3>1, OwedStays
    <3>3. QED
      BY <1>4, <3>2 DEF Load, Promise!vars, AllOwed, Owed
  <2>4. QED
    BY <2>2, <2>3
<1>5. ASSUME NEW t \in Tasks, Send(t) PROVE Promise!Try(t)
  <2>1. /\ task[t].pc \in Pending \cup Running /\ "sent" \in Finished
        /\ task' = [task EXCEPT ![t].pc = "sent"]
    BY <1>5 DEF Send, Move, Running, Finished
  <2>2. /\ AllOwed' = [AllOwed EXCEPT ![t].left = 0] /\ AllOwed[t].left > 0
        /\ AllOwed[t].mail = task[t].mail
    BY <2>1, OwedEnds
  <2>3. Promise!Deliver(task[t].mail)
    BY <1>5, DeliverOnce DEF Send, Move
  <2>4. QED
    BY <1>5, <2>2, <2>3 DEF Send, Promise!Try, AllOwed, Owed
<1>6. ASSUME NEW t \in Tasks, Fail(t) PROVE Promise!Try(t)
  <2>1. task[t].retries \in Nat /\ task[t].pc \in {"claimed", "rendered"}
    BY <1>6 DEF Fail, TypeOK, Task
  <2>2. Owed(t) = [mail |-> task[t].mail, left |-> task[t].retries + 1]
    BY <2>1 DEF Running, Owed
  <2>3. Owed(t)' = [mail |-> task[t].mail, left |-> task[t].retries]
    <3>1. task'[t] = AfterException(t)
      BY <1>6 DEF Fail, TypeOK
    <3>2. CASE task[t].retries > 0
      <4>1. AfterException(t) = [task[t] EXCEPT !.pc = "scheduled", !.retries = @ - 1]
        BY <3>2 DEF AfterException
      <4>2. /\ task'[t].pc = "scheduled" /\ task'[t].mail = task[t].mail
            /\ task'[t].retries = task[t].retries - 1
        BY <3>1, <4>1 DEF TypeOK, Task
      <4>3. task[t].retries - 1 + 1 = task[t].retries
        BY <2>1
      <4>4. QED
        BY <4>2, <4>3 DEF Owed, Pending
    <3>3. CASE ~(task[t].retries > 0)
      <4>1. task[t].retries = 0
        BY <2>1, <3>3
      <4>2. task'[t].pc = "failed" /\ task'[t].mail = task[t].mail
        BY <3>1, <3>3 DEF AfterException, TypeOK, Task
      <4>3. QED
        BY <4>1, <4>2 DEF Owed, Pending, Running
    <3>4. QED
      BY <3>2, <3>3
  <2>4. \A u \in Tasks : u # t => Owed(u)' = Owed(u)
    BY <1>6 DEF Fail, TypeOK, Owed
  <2>5. AllOwed' = [AllOwed EXCEPT ![t].left = task[t].retries]
    BY <2>3, <2>4, OwedUpdate
  <2>6. /\ AllOwed[t].left > 0 /\ AllOwed[t].left - 1 = task[t].retries
        /\ AllOwed[t].mail = task[t].mail
    BY <2>1, <2>2 DEF AllOwed
  <2>7. AllOwed' = [AllOwed EXCEPT ![t].left = @ - 1]
    BY <2>5, <2>6
  <2>8. UNCHANGED sent \/ Promise!Deliver(task[t].mail)
    BY <1>6, DeliverOnce DEF Fail
  <2>9. QED
    BY <1>6, <2>6, <2>7, <2>8 DEF Fail, Promise!Try, AllOwed, Owed
<1>7. ASSUME NEW m \in Mails, Withdraw(m) PROVE Promise!Withdraw(m)
  BY <1>7 DEF Withdraw, Promise!Withdraw
<1>8. CASE Crash
  <2>1. \A t \in Tasks : task'[t] = IF t \in Busy THEN [task[t] EXCEPT !.pc = "lost"]
                                    ELSE task[t]
    BY <1>8 DEF Crash
  <2>2. \A t \in Busy : /\ task'[t].pc = "lost" /\ task'[t].mail = task[t].mail
                        /\ t \in Tasks
    BY <2>1 DEF Busy, TypeOK, Task
  <2>3. \A t \in Busy : Owed(t)' = [Owed(t) EXCEPT !.left = 0]
    BY <2>2 DEF Owed, Pending, Running
  <2>4. \A t \in Tasks \ Busy : Owed(t)' = Owed(t)
    BY <2>1 DEF Owed
  <2>5. AllOwed' = [t \in Tasks |-> IF t \in Busy THEN [AllOwed[t] EXCEPT !.left = 0]
                                    ELSE AllOwed[t]]
    BY <2>3, <2>4 DEF AllOwed
  <2>6. Promise!Die(Busy) /\ Busy \in SUBSET Tasks
    BY <1>8, <2>5 DEF Crash, Promise!Die, Busy, AllOwed, Owed
  <2>7. \E calls \in SUBSET Tasks : Promise!Die(calls)
    BY <2>6 DEF Promise!Die
  <2>8. QED
    BY <2>7 DEF Promise!Next
<1>9. ASSUME NEW m \in Mails, Lapse(m) PROVE Promise!Lapse(m)
  <2>1. m \in Locked
    BY <1>9 DEF Lapse, TypeOK
  <2>2. QED
    BY <1>9, <2>1 DEF Lapse, Promise!Lapse
<1>10. CASE UNCHANGED vars
  BY <1>10 DEF vars, Promise!vars
<1>11. QED
  BY <1>1, <1>2, <1>3, <1>4, <1>5, <1>6, <1>7, <1>8, <1>9, <1>10 DEF Next, Step, Promise!Next

\* The tasks keep what MailPromise promises: a call gives up before its last attempt
\* for no other reason, and a mail with a key is not delivered twice in its lifetime.
THEOREM ImplementsMailPromiseHolds == Spec => ImplementsMailPromise
<1>1. Init => Promise!Init
  <2> SUFFICES ASSUME Init PROVE Promise!Init
    OBVIOUS
  <2>1. \A t \in Tasks : Owed(t) = Promise!NoCall
    BY DEF Init, Owed, Promise!NoCall, NoMail, Pending, Running
  <2>2. AllOwed = [t \in Tasks |-> Promise!NoCall]
    BY <2>1 DEF AllOwed
  <2>3. QED
    BY <2>2 DEF Init, Promise!Init, AllOwed, Owed
<1>2. Init => KeyInv /\ UnusedInv
  BY DEF Init, KeyInv, Past, UnusedInv
<1>3. TypeOK /\ KeyInv /\ UnusedInv /\ [Next]_vars => KeyInv' /\ UnusedInv'
  BY KeyStep, UnusedStep
<1>4. TypeOK /\ KeyInv /\ UnusedInv /\ [Next]_vars => [Promise!Next]_(Promise!vars)
  BY PromiseStep
<1>5. QED
  BY <1>1, <1>2, <1>3, <1>4, TypeCorrect, PTL DEF Spec, ImplementsMailPromise, Promise!Spec
=============================================================================
