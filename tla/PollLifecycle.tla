--------------------------- MODULE PollLifecycle ---------------------------
(***************************************************************************)
(* The life of one row of the table polls: its owner creates it, edits it   *)
(* and deletes it, the periodic task close_due_polls closes it at ends_at,  *)
(* and the periodic task purge_expired_polls deletes it at auto_delete_at.  *)
(*                                                                         *)
(* Requests run in several gunicorn processes and tasks in several Huey     *)
(* threads, over PostgreSQL at READ COMMITTED.  A request is therefore      *)
(* several steps: it loads the row, later commits the columns it changed    *)
(* RELATIVE TO THE ROW IT LOADED (the unit of work of SQLAlchemy writes a   *)
(* column only when its value differs from the loaded one), and later still *)
(* reloads the row to decide which mails to enqueue.                        *)
(*                                                                         *)
(* Options, audience, invitations and votes have modules of their own; what *)
(* their checks can do to an edit is to reject it (EditReject).             *)
(***************************************************************************)
EXTENDS Integers

CONSTANTS
    Editors,      \* requests of the owner that may be in flight at once
    Closers,      \* threads that may run close_due_polls at once
    Retention,    \* settings.poll_retention_days
    Deadlines,    \* bound: the values of ends_at a form may carry
    MaxTime,      \* bound: the clock stops here
    MaxCrashes    \* bound: how often a process may die in mid-handler

NoTime == -1                            \* SQL NULL in a timestamp column
NoOne  == "no one"

ASSUME LifecycleAssumption ==
    /\ Editors \cap Closers = {}
    /\ NoOne \notin Closers
    /\ Retention \in Nat \ {0}
    /\ MaxTime \in Nat
    /\ Deadlines \subseteq 0 .. MaxTime
    /\ MaxCrashes \in Nat

VARIABLES
    poll,         \* the row: status, endsAt, autoDelete, deleteAt
    now,          \* the wall clock, in days
    lock,         \* the closer that holds the row lock, or NoOne
    edit,         \* per editor: where its request is and the row it loaded
    closer,       \* per closer: where its run is and which closing it made
    purger,       \* "selected" between the SELECT and the DELETE of a purge
    crashes,      \* history: processes that died so far
    closings,     \* history: how often status went from ACTIVE to CLOSED
    firstClosed,  \* history: when that happened first
    announced,    \* history: <<process, closing>> of each round of close mails
    lost          \* history: some request or task did not reach its end

vars == <<poll, now, lock, edit, closer, purger,
          crashes, closings, firstClosed, announced, lost>>

Time   == 0 .. MaxTime

Live     == {"DRAFT", "ACTIVE", "CLOSED"}
Statuses == Live \cup {"TEMPLATE"}         \* PollStatus: what a form may ask for
Gone   == "deleted"
Absent == "not created"

Row == [status     : Live \cup {Gone, Absent},
        endsAt     : Deadlines \cup {NoTime},
        autoDelete : BOOLEAN,               \* attributes["auto_delete"]
        deleteAt   : Nat \cup {NoTime}]     \* auto_delete_at

\* The statuses a poll may be moved to.
AllowedTransitions ==
    [DRAFT  |-> {"DRAFT", "ACTIVE"},
     ACTIVE |-> {"ACTIVE", "CLOSED"},
     CLOSED |-> {"CLOSED"}]

Stored == poll.status \in Live

\* Mutants: the status forgotten; every column of the form written.
AutoDeleteAtAnyStatus(status, enabled) == IF enabled THEN now + Retention ELSE NoTime
WriteBackAll(current, loaded, mine) == mine

\* _apply_auto_delete_at: the new auto_delete_at of a poll with this status.
AutoDeleteAt(status, enabled) ==
    IF enabled /\ status = "CLOSED" THEN now + Retention ELSE NoTime

\* A column after the UPDATE of a request that loaded `loaded`, holds `mine`,
\* and finds `current` in the row.
WriteBack(current, loaded, mine) == IF mine = loaded THEN current ELSE mine

NoRow == [status |-> Absent, endsAt |-> NoTime,
          autoDelete |-> FALSE, deleteAt |-> NoTime]

Init ==
    /\ poll = NoRow
    /\ now = 0
    /\ lock = NoOne
    /\ edit = [e \in Editors |-> [pc |-> "idle", loaded |-> NoRow]]
    /\ closer = [c \in Closers |-> [pc |-> "idle", closing |-> 0]]
    /\ purger = "idle"
    /\ crashes = 0
    /\ closings = 0
    /\ firstClosed = NoTime
    /\ announced = {}
    /\ lost = FALSE

\* The history of a step that leaves the row with status `status`.
RecordClosing(status) ==
    IF poll.status = "ACTIVE" /\ status = "CLOSED"
    THEN /\ closings' = closings + 1
         /\ firstClosed' = IF firstClosed = NoTime THEN now ELSE firstClosed
    ELSE UNCHANGED <<closings, firstClosed>>

-----------------------------------------------------------------------------
(* The owner's requests. *)

\* Mutant: the status of the form is not checked.
CreatePollUnchecked(status, endsAt, autoDelete) ==
    /\ poll.status = Absent
    /\ poll' = [status |-> status, endsAt |-> endsAt, autoDelete |-> autoDelete,
                deleteAt |-> AutoDeleteAt(status, autoDelete)]
    /\ UNCHANGED <<now, lock, edit, closer, purger,
                   crashes, closings, firstClosed, announced, lost>>

CreatePoll(status, endsAt, autoDelete) ==
    /\ poll.status = Absent
    /\ status \in {"DRAFT", "ACTIVE"}
    /\ poll' = [status |-> status, endsAt |-> endsAt, autoDelete |-> autoDelete,
                deleteAt |-> AutoDeleteAt(status, autoDelete)]
    /\ UNCHANGED <<now, lock, edit, closer, purger,
                   crashes, closings, firstClosed, announced, lost>>

\* POST /polls/<id>/edit: get_poll loads the row.
EditLoad(e) ==
    /\ edit[e].pc = "idle"
    /\ Stored
    /\ edit' = [edit EXCEPT ![e] = [pc |-> "loaded", loaded |-> poll]]
    /\ UNCHANGED <<poll, now, lock, closer, purger,
                   crashes, closings, firstClosed, announced, lost>>

\* update_poll up to its commit.  The transition is judged on the loaded row;
\* the UPDATE waits for the row lock; attributes is one JSON column, so a change
\* of any of its other keys (`rewrite`) writes auto_delete with the rest.
EditCommit(e, status, endsAt, autoDelete, rewrite) ==
    LET loaded == edit[e].loaded
        mine   == AutoDeleteAt(status, autoDelete)
        new    == [status     |-> WriteBack(poll.status, loaded.status, status),
                   endsAt     |-> WriteBack(poll.endsAt, loaded.endsAt, endsAt),
                   autoDelete |-> IF rewrite THEN autoDelete
                                  ELSE WriteBack(poll.autoDelete,
                                                 loaded.autoDelete, autoDelete),
                   deleteAt   |-> IF mine # NoTime THEN mine    \* a moment later than any loaded
                                  ELSE WriteBack(poll.deleteAt, loaded.deleteAt, mine)]
    IN  /\ edit[e].pc = "loaded"
        /\ status \in AllowedTransitions[loaded.status]
        /\ lock = NoOne
        /\ Stored
        /\ poll' = new
        /\ edit' = [edit EXCEPT ![e] =     \* old_status outlives the commit
                       [pc |-> "committed",
                        loaded |-> [NoRow EXCEPT !.status = loaded.status]]]
        /\ RecordClosing(new.status)
        /\ UNCHANGED <<now, lock, closer, purger, crashes, announced, lost>>

\* An error path before the commit: an invalid form, a transition or an audience
\* the rules refuse, an unconfirmed removal of options, or a row that is gone.
EditReject(e) ==
    /\ edit[e].pc = "loaded"
    /\ edit' = [edit EXCEPT ![e] = [pc |-> "idle", loaded |-> NoRow]]
    /\ UNCHANGED <<poll, now, lock, closer, purger,
                   crashes, closings, firstClosed, announced, lost>>

\* Mutant: old_status is read after the refresh, so nothing ever seems to change.
EditFinishLateOldStatus(e) ==
    /\ edit[e].pc = "committed"
    /\ edit' = [edit EXCEPT ![e] = [pc |-> "idle", loaded |-> NoRow]]
    /\ UNCHANGED <<poll, now, lock, closer, purger,
                   crashes, closings, firstClosed, announced, lost>>

\* The rest of update_poll: refresh the row (an exception when it is gone) and
\* enqueue the close mails if this request did not load it CLOSED but finds it so.
EditFinish(e) ==
    /\ edit[e].pc = "committed"
    /\ announced' = IF edit[e].loaded.status # "CLOSED" /\ poll.status = "CLOSED"
                    THEN announced \cup {<<e, closings>>}
                    ELSE announced
    /\ edit' = [edit EXCEPT ![e] = [pc |-> "idle", loaded |-> NoRow]]
    /\ UNCHANGED <<poll, now, lock, closer, purger,
                   crashes, closings, firstClosed, lost>>

\* update_poll writes the audience in a second transaction, between its commit and the
\* mails: set_poll_audience may find the row changed and refuse an empty audience, the
\* INSERT may meet that of another request, or somebody just deleted.  An error page,
\* although the row is committed, and no mails.
EditFail(e) ==
    /\ edit[e].pc = "committed"
    /\ edit' = [edit EXCEPT ![e] = [pc |-> "idle", loaded |-> NoRow]]
    /\ lost' = TRUE
    /\ UNCHANGED <<poll, now, lock, closer, purger,
                   crashes, closings, firstClosed, announced>>

\* delete_poll, by the owner or by an administrator.
DeletePoll ==
    /\ Stored
    /\ lock = NoOne
    /\ poll' = [poll EXCEPT !.status = Gone]
    /\ UNCHANGED <<now, lock, edit, closer, purger,
                   crashes, closings, firstClosed, announced, lost>>

-----------------------------------------------------------------------------
(* The periodic tasks. *)

Due == poll.status = "ACTIVE" /\ poll.endsAt # NoTime /\ poll.endsAt <= now

\* Mutant: a plain SELECT.
CloseSelectNoLock(c) ==
    /\ closer[c].pc = "idle"
    /\ Due
    /\ lock' = c
    /\ closer' = [closer EXCEPT ![c].pc = "locked"]
    /\ UNCHANGED <<poll, now, edit, purger,
                   crashes, closings, firstClosed, announced, lost>>

\* SELECT ... FOR UPDATE SKIP LOCKED: a locked row is not selected.
CloseSelect(c) ==
    /\ closer[c].pc = "idle"
    /\ Due
    /\ lock = NoOne
    /\ lock' = c
    /\ closer' = [closer EXCEPT ![c].pc = "locked"]
    /\ UNCHANGED <<poll, now, edit, purger,
                   crashes, closings, firstClosed, announced, lost>>

\* Mutant: the commit is forgotten.
CloseCommitForgotten(c) ==
    /\ closer[c].pc = "locked"
    /\ lock' = NoOne
    /\ closer' = [closer EXCEPT ![c] = [pc |-> "idle", closing |-> 0]]
    /\ UNCHANGED <<poll, now, edit, purger,
                   crashes, closings, firstClosed, announced, lost>>

\* The rows are CLOSED and their time to delete set, under the lock.
CloseCommit(c) ==
    /\ closer[c].pc = "locked"
    /\ poll' = [poll EXCEPT !.status = "CLOSED",
                            !.deleteAt = AutoDeleteAt("CLOSED", poll.autoDelete)]
    /\ RecordClosing("CLOSED")
    /\ lock' = NoOne
    /\ closer' = [closer EXCEPT ![c] = [pc |-> "committed", closing |-> closings']]
    /\ UNCHANGED <<now, edit, purger, crashes, announced, lost>>

\* _dispatch_close_notifications, after the commit; reading the expired row again
\* raises when it was deleted meanwhile.
CloseDispatch(c) ==
    /\ closer[c].pc = "committed"
    /\ announced' = IF Stored THEN announced \cup {<<c, closer[c].closing>>}
                    ELSE announced
    /\ closer' = [closer EXCEPT ![c] = [pc |-> "idle", closing |-> 0]]
    /\ UNCHANGED <<poll, now, lock, edit, purger,
                   crashes, closings, firstClosed, lost>>

Expired == Stored /\ poll.deleteAt # NoTime /\ poll.deleteAt <= now

\* purge_expired_polls: a plain SELECT, then a DELETE by primary key.
PurgeSelect ==
    /\ purger = "idle"
    /\ Expired
    /\ purger' = "selected"
    /\ UNCHANGED <<poll, now, lock, edit, closer,
                   crashes, closings, firstClosed, announced, lost>>

PurgeDelete ==
    /\ purger = "selected"
    /\ lock = NoOne
    /\ poll' = [poll EXCEPT !.status = Gone]
    /\ purger' = "idle"
    /\ UNCHANGED <<now, lock, edit, closer,
                   crashes, closings, firstClosed, announced, lost>>

-----------------------------------------------------------------------------
(* The environment. *)

\* A process dies: its transaction rolls back, its later steps never happen.
CrashEditor(e) ==
    /\ edit[e].pc # "idle"
    /\ edit' = [edit EXCEPT ![e] = [pc |-> "idle", loaded |-> NoRow]]
    /\ UNCHANGED <<lock, closer, purger>>

CrashCloser(c) ==
    /\ closer[c].pc # "idle"
    /\ closer' = [closer EXCEPT ![c] = [pc |-> "idle", closing |-> 0]]
    /\ lock' = IF lock = c THEN NoOne ELSE lock
    /\ UNCHANGED <<edit, purger>>

CrashPurger ==
    /\ purger = "selected"
    /\ purger' = "idle"
    /\ UNCHANGED <<lock, edit, closer>>

Crash ==
    /\ crashes < MaxCrashes
    /\ crashes' = crashes + 1
    /\ \/ \E e \in Editors : CrashEditor(e)
       \/ \E c \in Closers : CrashCloser(c)
       \/ CrashPurger
    /\ lost' = TRUE
    /\ UNCHANGED <<poll, now, closings, firstClosed, announced>>

Tick ==
    /\ now < MaxTime
    /\ now' = now + 1
    /\ UNCHANGED <<poll, lock, edit, closer, purger,
                   crashes, closings, firstClosed, announced, lost>>

OwnerStep ==
    \/ \E status \in Statuses, endsAt \in Deadlines \cup {NoTime}, autoDelete \in BOOLEAN :
          \/ CreatePoll(status, endsAt, autoDelete)
          \/ \E e \in Editors, rewrite \in BOOLEAN :
                EditCommit(e, status, endsAt, autoDelete, rewrite)
    \/ \E e \in Editors : EditLoad(e) \/ EditReject(e) \/ EditFinish(e) \/ EditFail(e)
    \/ DeletePoll

CloserStep(c) == CloseSelect(c) \/ CloseCommit(c) \/ CloseDispatch(c)

PurgerStep == PurgeSelect \/ PurgeDelete

Next ==
    \/ OwnerStep
    \/ \E c \in Closers : CloserStep(c)
    \/ PurgerStep
    \/ Crash
    \/ Tick

Spec == Init /\ [][Next]_vars

\* Huey runs the periodic tasks again and again (crontab in tasks/poll), and a
\* run that has started goes on until it ends or its process dies.
FairSpec ==
    /\ Spec
    /\ \A c \in Closers : WF_vars(CloserStep(c))
    /\ WF_vars(PurgerStep)

-----------------------------------------------------------------------------
(* Properties. *)

TypeOK ==
    /\ poll \in Row
    /\ now \in Time
    /\ lock \in Closers \cup {NoOne}
    /\ edit \in [Editors -> [pc : {"idle", "loaded", "committed"}, loaded : Row]]
    /\ \A e \in Editors : edit[e].pc = "loaded" => edit[e].loaded.status \in Live
    /\ closer \in [Closers -> [pc : {"idle", "locked", "committed"}, closing : Nat]]
    /\ purger \in {"idle", "selected"}
    /\ crashes \in 0 .. MaxCrashes
    /\ closings \in Nat
    /\ firstClosed \in Time \cup {NoTime}
    /\ announced \subseteq (Editors \cup Closers) \X Nat
    /\ lost \in BOOLEAN

\* Two runs of close_due_polls never both own the same closing, so its mails are
\* not enqueued twice by them: what FOR UPDATE SKIP LOCKED is there for.
OneCloserPerClosing ==
    /\ \A c, d \in Closers :
          (c # d /\ closer[c].pc = "committed" /\ closer[d].pc = "committed")
             => closer[c].closing # closer[d].closing
    /\ \A c, d \in Closers, n \in 1 .. closings :
          (<<c, n>> \in announced /\ <<d, n>> \in announced) => c = d

\* The mails of the closing a CLOSED poll is in have been enqueued, or a request
\* or task that will enqueue them is on its way, unless one did not reach its end.
ClosedIsAnnounced ==
    (poll.status = "CLOSED" /\ ~lost) =>
        \/ \E p \in Editors \cup Closers : <<p, closings>> \in announced
        \/ \E e \in Editors : edit[e].pc = "committed" /\ edit[e].loaded.status # "CLOSED"
        \/ \E c \in Closers : closer[c].pc = "committed" /\ closer[c].closing = closings

\* Whatever stale rows concurrent requests hold, a poll that has left DRAFT is
\* never a DRAFT again and a deleted poll never comes back.
NeverBack ==
    [][ /\ poll'.status = "DRAFT" => poll.status \in {Absent, "DRAFT"}
        /\ poll.status = Gone => poll'.status = Gone ]_vars

\* A closed poll is reopened only by the commit of a request that loaded it while
\* it was still a DRAFT; no other interleaving of requests and tasks does it.
ReopenedOnlyByStaleDraft ==
    [][ (poll.status = "CLOSED" /\ poll'.status \notin {"CLOSED", Gone}) =>
        \E e \in Editors : /\ edit[e].pc = "loaded"
                           /\ edit[e].loaded.status = "DRAFT"
                           /\ edit'[e].pc = "committed" ]_vars

\* The two together: how far the status of a poll can go back.
StatusMoves == NeverBack /\ ReopenedOnlyByStaleDraft

\* The purge never deletes a poll that has not been closed, nor one whose first
\* closing is less than the retention time ago, although it neither locks the
\* row nor looks at its status.
NeverPurgedEarly ==
    [][ (poll.status # Gone /\ poll'.status = Gone /\ purger' # purger) =>
        firstClosed # NoTime /\ firstClosed + Retention <= now ]_vars

\* An ACTIVE poll whose end has come is closed, deleted or prolonged.
DueIsClosed == Due ~> ~Due

\* A poll whose auto_delete_at has come is deleted, unless an edit postpones it.
ExpiredIsPurged == Expired ~> ~Expired

\* The two together: what the periodic tasks owe, though runs are skipped or die.
TasksCatchUp == DueIsClosed /\ ExpiredIsPurged

\* The lifecycle the docstring of InvalidStatusTransitionError promises: a step
\* moves the status along AllowedTransitions or deletes the poll.
ForwardOnly ==
    [][ (poll.status \in Live /\ poll'.status # Gone) =>
        poll'.status \in AllowedTransitions[poll.status] ]_vars

\* The same promise as a specification: with one request of the owner in flight
\* at a time, whatever the periodic tasks do meanwhile, the row implements it.
Promise == INSTANCE PollPromise WITH status <- poll.status,
                                     armed  <- poll.deleteAt # NoTime

ImplementsPromise == Promise!Spec
=============================================================================
