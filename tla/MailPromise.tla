---------------------------- MODULE MailPromise ----------------------------
(***************************************************************************)
(* What the mail tasks promise those who call them (the retries of the      *)
(* task decorators and the docstring of try_claim_send_lock): a call has a  *)
(* number of attempts and gives up early only if the mail has a key, which  *)
(* another call may hold, if nobody wants the mail any more, or if the      *)
(* consumer died.  An attempt that raises may have delivered all the same,  *)
(* but a mail with a key is not delivered again before the key has expired. *)
(***************************************************************************)
EXTENDS Integers

CONSTANTS
    Mails, Locked, Calls,
    Attempts      \* per call: the first one and the retries

VARIABLES
    owed,         \* per call: its mail and the attempts it has left
    sent,         \* per mail: how often it was delivered
    before,       \* per mail: how often when its key last expired
    unwanted,     \* mails nobody wants any more
    deaths        \* of the consumer

vars == <<owed, sent, before, unwanted, deaths>>

NoCall == [mail |-> "no mail", left |-> 0]

Init ==
    /\ owed = [c \in Calls |-> NoCall]
    /\ sent = [m \in Mails |-> 0]
    /\ before = [m \in Mails |-> 0]
    /\ unwanted = {}
    /\ deaths = 0

Ask(c, m) ==
    /\ owed[c] = NoCall
    /\ owed' = [owed EXCEPT ![c] = [mail |-> m, left |-> Attempts]]
    /\ UNCHANGED <<sent, before, unwanted, deaths>>

Deliver(m) ==
    /\ m \in Locked => sent[m] = before[m]
    /\ sent' = [sent EXCEPT ![m] = @ + 1]

\* An attempt, successful or not.
Try(c) ==
    /\ owed[c].left > 0
    /\ \/ owed' = [owed EXCEPT ![c].left = 0] /\ Deliver(owed[c].mail)
       \/ owed' = [owed EXCEPT ![c].left = @ - 1] /\ (UNCHANGED sent \/ Deliver(owed[c].mail))
    /\ UNCHANGED <<before, unwanted, deaths>>

GiveUp(c) ==
    /\ owed[c].left > 0
    /\ owed[c].mail \in Locked \cup unwanted
    /\ owed' = [owed EXCEPT ![c].left = 0]
    /\ UNCHANGED <<sent, before, unwanted, deaths>>

\* The key of a mail expires: it may be delivered once more.
Lapse(m) ==
    /\ m \in Locked
    /\ before' = [before EXCEPT ![m] = sent[m]]
    /\ UNCHANGED <<owed, sent, unwanted, deaths>>

Withdraw(m) ==
    /\ unwanted' = unwanted \cup {m}
    /\ UNCHANGED <<owed, sent, before, deaths>>

\* The consumer takes the calls it was working on with it.
Die(calls) ==
    /\ owed' = [c \in Calls |-> IF c \in calls THEN [owed[c] EXCEPT !.left = 0] ELSE owed[c]]
    /\ deaths' = deaths + 1
    /\ UNCHANGED <<sent, before, unwanted>>

Next ==
    \/ \E c \in Calls : (\E m \in Mails : Ask(c, m)) \/ Try(c) \/ GiveUp(c)
    \/ \E m \in Mails : Withdraw(m) \/ Lapse(m)
    \/ \E calls \in SUBSET Calls : Die(calls)

Spec == Init /\ [][Next]_vars
=============================================================================
