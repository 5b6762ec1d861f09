----------------------------- MODULE MailTasks -----------------------------
(***************************************************************************)
(* The tasks that send one mail each, from the moment they are enqueued to  *)
(* the moment Huey gives up on them: send_invitation, send_non_responder_   *)
(* report, send_poll_closed_owner, send_poll_closed_audience, send_response_*)
(* notification and send_mandatory_reminder.  All are declared with         *)
(* retries=3.  The first two send whenever they run; the other four first   *)
(* claim a key in Redis (SET NX EX), named after the mail.  The key expires *)
(* after 30 days, that of a reminder after one to four days.                *)
(*                                                                         *)
(* A mail here is what such a key names: a kind, a poll or a response, and  *)
(* a recipient.  Huey itself (a list, a schedule, worker threads) and the   *)
(* SMTP server are external: a worker takes a task off the list before it   *)
(* runs it, an exception puts the task into the schedule as long as retries *)
(* are left, and an SMTP error may come after the server took the mail.     *)
(***************************************************************************)
EXTENDS Integers, FiniteSets

CONSTANTS
    Mails,        \* what there is to send
    Locked,       \* those whose task claims a key before it sends
    Tasks,        \* bound: the calls of task functions, by id
    Retries,      \* @huey.task(retries=...)
    Workers,      \* HUEY_WORKERS, the threads of the consumer
    MaxCrashes    \* bound: how often the consumer may die

ASSUME MailAssumption ==
    /\ Locked \subseteq Mails
    /\ Retries \in Nat
    /\ Workers \in Nat \ {0}
    /\ MaxCrashes \in Nat

VARIABLES
    task,         \* per call: where it is, its mail, the retries it has left
    keys,         \* the mails whose key is in Redis
    unwanted,     \* mails whose poll, response or recipient is gone by now
    sent,         \* history: how often the SMTP server took each mail
    before,       \* history: sent as it was when the mail's key last expired
    crashes       \* history: how often the consumer died

vars == <<task, keys, unwanted, sent, before, crashes>>

NoMail == "no mail"

Pending  == {"queued", "scheduled"}                 \* in Redis
Running  == {"started", "claimed", "rendered"}      \* in a worker
Finished == {"sent", "skipped", "duplicate", "failed", "lost"}

Task == [pc : {"unused"} \cup Pending \cup Running \cup Finished,
         mail : Mails \cup {NoMail}, retries : 0 .. Retries]

Of(m)  == {t \in Tasks : task[t].mail = m}
Busy   == {t \in Tasks : task[t].pc \in Running}
Beyond == {t \in Tasks : task[t].pc \in {"claimed", "rendered"}}

Init ==
    /\ task = [t \in Tasks |-> [pc |-> "unused", mail |-> NoMail, retries |-> 0]]
    /\ keys = {}
    /\ unwanted = {}
    /\ sent = [m \in Mails |-> 0]
    /\ before = [m \in Mails |-> 0]
    /\ crashes = 0

Move(t, from, to) == task[t].pc = from /\ task' = [task EXCEPT ![t].pc = to]

-----------------------------------------------------------------------------
(* Huey. *)

\* Calling a task function; two callers may ask for the same mail.
Enqueue(t, m) ==
    /\ task[t].pc = "unused"
    /\ task' = [task EXCEPT ![t] = [pc |-> "queued", mail |-> m, retries |-> Retries]]
    /\ UNCHANGED <<keys, unwanted, sent, before, crashes>>

\* A worker thread pops the task; from here on no queue holds it.
Start(t) ==
    /\ Cardinality(Busy) < Workers
    /\ Move(t, "queued", "started")
    /\ UNCHANGED <<keys, unwanted, sent, before, crashes>>

\* retry_delay is over.
Reschedule(t) ==
    /\ Move(t, "scheduled", "queued")
    /\ UNCHANGED <<keys, unwanted, sent, before, crashes>>

\* Mutant: retries do not count down.
AfterExceptionForever(t) == [task[t] EXCEPT !.pc = "scheduled"]

\* Mutant: one retry too many.
AfterExceptionOnceMore(t) ==
    IF task[t].retries >= 0
    THEN [task[t] EXCEPT !.pc = "scheduled", !.retries = @ - 1]
    ELSE [task[t] EXCEPT !.pc = "failed"]

\* What an exception makes of a task.
AfterException(t) ==
    IF task[t].retries > 0
    THEN [task[t] EXCEPT !.pc = "scheduled", !.retries = @ - 1]
    ELSE [task[t] EXCEPT !.pc = "failed"]

-----------------------------------------------------------------------------
(* The body of a task. *)

\* Mutant: GET, and SET when the mail is sent.
ClaimLate(t) ==
    /\ task[t].pc = "started"
    /\ task' = [task EXCEPT ![t].pc = IF /\ task[t].mail \in Locked
                                         /\ sent[task[t].mail] > before[task[t].mail]
                                      THEN "duplicate" ELSE "claimed"]
    /\ UNCHANGED <<keys, unwanted, sent, before, crashes>>

\* try_claim_send_lock, or the same done inline by the reminder; the invitation and
\* the report have no key.
Claim(t) ==
    LET m == task[t].mail
    IN  /\ task[t].pc = "started"
        /\ task' = [task EXCEPT ![t].pc = IF m \in keys THEN "duplicate" ELSE "claimed"]
        /\ keys' = IF m \in Locked THEN keys \cup {m} ELSE keys
        /\ UNCHANGED <<unwanted, sent, before, crashes>>

\* Load the rows, return if the mail is not called for any more, render it.
Load(t) ==
    /\ Move(t, "claimed", IF task[t].mail \in unwanted THEN "skipped" ELSE "rendered")
    /\ UNCHANGED <<keys, unwanted, sent, before, crashes>>

Deliver(m) == sent' = [sent EXCEPT ![m] = @ + 1]

Send(t) ==
    /\ Move(t, "rendered", "sent")
    /\ Deliver(task[t].mail)
    /\ UNCHANGED <<keys, unwanted, before, crashes>>

\* The database or the SMTP server fails; the connection may break after the
\* server took the mail.
Fail(t) ==
    /\ task[t].pc \in {"claimed", "rendered"}
    /\ task' = [task EXCEPT ![t] = AfterException(t)]
    /\ \/ UNCHANGED sent
       \/ task[t].pc = "rendered" /\ Deliver(task[t].mail)
    /\ UNCHANGED <<keys, unwanted, before, crashes>>

-----------------------------------------------------------------------------
(* The environment. *)

\* The poll or the response is deleted, the recipient deactivated or no longer
\* invited, the reminder overtaken by a new deadline.
Withdraw(m) ==
    /\ m \notin unwanted
    /\ unwanted' = unwanted \cup {m}
    /\ UNCHANGED <<task, keys, sent, before, crashes>>

\* A key expires.  The body that claimed it is over by then: it takes seconds, or
\* mail_timeout_seconds, and no key lives less than a day.
Lapse(m) ==
    /\ m \in keys
    /\ Of(m) \cap Beyond = {}
    /\ keys' = keys \ {m}
    /\ before' = [before EXCEPT ![m] = sent[m]]
    /\ UNCHANGED <<task, unwanted, sent, crashes>>

\* The consumer dies with what its threads were doing; Redis stays.
Crash ==
    /\ Busy # {} /\ crashes < MaxCrashes
    /\ task' = [t \in Tasks |-> IF t \in Busy THEN [task[t] EXCEPT !.pc = "lost"]
                                ELSE task[t]]
    /\ crashes' = crashes + 1
    /\ UNCHANGED <<keys, unwanted, sent, before>>

Step(t) == Start(t) \/ Reschedule(t) \/ Claim(t) \/ Load(t) \/ Send(t)

Next ==
    \/ \E t \in Tasks : \/ \E m \in Mails : Enqueue(t, m)
                        \/ Step(t) \/ Fail(t)
    \/ \E m \in Mails : Withdraw(m) \/ Lapse(m)
    \/ Crash

Spec == Init /\ [][Next]_vars

\* The consumer serves its queue in turn, the scheduler its schedule, and a task
\* body does not stand still (mail_timeout_seconds bounds the SMTP session).
FairSpec ==
    /\ Spec
    /\ \A t \in Tasks : /\ SF_vars(Start(t))
                        /\ WF_vars(Reschedule(t)) /\ WF_vars(Claim(t)) /\ WF_vars(Load(t))
                        /\ WF_vars(Send(t) \/ Fail(t))

-----------------------------------------------------------------------------
(* Properties. *)

TypeOK ==
    /\ task \in [Tasks -> Task]
    /\ \A t \in Tasks : task[t].pc # "unused" => task[t].mail \in Mails
    /\ keys \subseteq Locked
    /\ unwanted \subseteq Mails
    /\ sent \in [Mails -> Nat]
    /\ before \in [Mails -> Nat]
    /\ crashes \in 0 .. MaxCrashes

\* Within the lifetime of its key a mail is sent at most once, however often its task
\* is enqueued and retried, whatever fails or dies in between.
AtMostOnce == \A m \in Locked : sent[m] <= before[m] + 1

\* The promise the retries make, kept without a key: a call that ends is a mail
\* sent, unless the consumer died, all attempts failed or nobody wants the mail.
RetriesDeliver ==
    \A t \in Tasks : task[t].mail \in Mails \ Locked /\ task[t].pc \in Finished
        => \/ sent[task[t].mail] > 0
           \/ task[t].pc \in {"lost", "failed"}
           \/ task[t].mail \in unwanted

\* Both, and that no call makes more attempts than it has retries, as a specification:
\* what the tasks promise, whatever Huey, Redis and SMTP do to them.
Promise == INSTANCE MailPromise WITH
    Calls <- Tasks, Attempts <- Retries + 1, deaths <- crashes,
    owed <- [t \in Tasks |->
                [mail |-> task[t].mail,
                 left |-> IF task[t].pc \in Pending \cup Running THEN task[t].retries + 1 ELSE 0]]

ImplementsMailPromise == Promise!Spec

\* Every call comes to an end: a time comes from when on none is pending or running.
EveryCallEnds == <>[](\A t \in Tasks : task[t].pc \in Finished \cup {"unused"})

\* mail.py on the key: "covers Huey retries after partial SMTP failures".  A call
\* that ends at the key leaves a mail that was sent, is being sent or is not wanted,
\* unless the consumer died.
DuplicateMeansSent ==
    \A t \in Tasks : task[t].pc = "duplicate" /\ crashes = 0
        => \/ sent[task[t].mail] > 0
           \/ task[t].mail \in unwanted
           \/ Of(task[t].mail) \cap Beyond # {}
=============================================================================
