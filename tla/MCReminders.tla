---------------------------- MODULE MCReminders ----------------------------
(* Reminders for TLC.  Poll(s, e) is an open mandatory poll with these times. *)
EXTENDS Reminders

CONSTANTS MaxWait

Poll(s, e) == [status |-> "ACTIVE", is_mandatory |-> TRUE, starts_at |-> s, ends_at |-> e]

\* Deadlines on and between the ticks of the dispatching task, one late enough for the
\* keys of the others to be gone, a later start, a draft, and what ends the reminders.
SomeRows ==
    {Poll(None, 5), Poll(None, 8), Poll(2, 8), Poll(None, 13)}
    \cup {[Poll(None, 8) EXCEPT !.status = "DRAFT"], [Poll(None, 8) EXCEPT !.status = "CLOSED"],
          [Poll(None, 8) EXCEPT !.is_mandatory = FALSE], Poll(None, None)}

\* One run waits while another is executed, two calls at a time, and a call is executed
\* at most MaxWait after its run was due.
Small ==
    /\ Cardinality(due) <= 1 /\ Cardinality(tasks) <= 2
    /\ \A c \in tasks : now - c.run <= MaxWait
=============================================================================
