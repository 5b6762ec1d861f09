---------------------------- MODULE Invitations ----------------------------
(***************************************************************************)
(* Who is invited to a poll, and when.  Three paths enqueue invitations:    *)
(* set_poll_audience for the people an edit adds to an open poll,           *)
(* _dispatch_activation_invitations when an edit moves a DRAFT to ACTIVE,   *)
(* and the task dispatch_pending_invitations (every five minutes) when      *)
(* starts_at of an ACTIVE poll is reached.  The last two take a lock in     *)
(* Redis first; create_poll takes it after set_poll_audience has invited    *)
(* the people of the new poll.                                              *)
(*                                                                         *)
(* create_poll and update_poll commit the row first and the audience in a   *)
(* second transaction; everything after that is done step by step, while    *)
(* other requests and the task run.  Groups are expanded: the audience is   *)
(* the set of the people in it, and the membership of groups stays fixed.   *)
(***************************************************************************)
EXTENDS Integers

CONSTANTS
    Requests,     \* requests of the owner that may be in flight at once
    Users,        \* ids a form may carry as audience
    Registered,   \* those that are rows of the table users
    Starts,       \* bound: the values of starts_at a form may carry
    Restrictions, \* bound: the values of `restricted` a form may carry
    Window,       \* _BACKLOG_WINDOW; the worker is never down for longer
    LockTTL,      \* _INVITATION_LOCK_TTL_SECONDS
    MaxTime,      \* bound: the clock stops here
    MaxCrashes    \* bound: how often a process may die in mid-handler

ASSUME InvitationsAssumption ==
    /\ Registered \subseteq Users
    /\ Starts \subseteq Nat /\ Restrictions \subseteq BOOLEAN
    /\ Window \in Nat \ {0}
    /\ LockTTL \in Nat /\ LockTTL > Window + 1
    /\ MaxTime \in Nat
    /\ MaxCrashes \in Nat

VARIABLES
    poll,         \* the row: status, startsAt, restricted
    audience,     \* poll_users: who is in the audience
    now,          \* the wall clock, in runs of the periodic task
    lock,         \* when the key mail:invitation_dispatched:<id> expires
    req,          \* per request: where it is and what it holds
    task,         \* where the run of dispatch_pending_invitations is
    lastScan,     \* when that task last queried the polls
    invited,      \* history: <<path, user>> of the invitations enqueued
    initials,     \* history: dispatches to the whole audience
    excuses,      \* history: what may explain a missing invitation
    crashes       \* history: processes that died so far

vars == <<poll, audience, now, lock, req, task, lastScan,
          invited, initials, excuses, crashes>>

NoTime == -1
Live   == {"DRAFT", "ACTIVE", "CLOSED"}
Gone   == "deleted"
Absent == "not created"

\* restricted: is_mandatory, or visibility PRIVATE; either one needs an audience.
Row == [status : Live \cup {Gone, Absent}, startsAt : Starts \cup {NoTime},
        restricted : BOOLEAN]
NoRow == [status |-> Absent, startsAt |-> NoTime, restricted |-> FALSE]

Idle == [pc |-> "idle", loaded |-> NoRow, users |-> {}, old |-> {}, removed |-> {},
         creates |-> FALSE, activates |-> FALSE, since |-> 0]

Steps == {"idle", "loaded", "committed", "audience", "invite", "claim",
          "activate", "enqueue"}

Request == [pc : Steps, loaded : Row, users : SUBSET Users, old : SUBSET Users,
            removed : SUBSET Users, creates : BOOLEAN, activates : BOOLEAN,
            since : 0 .. MaxTime]

AllowedTransitions ==
    [DRAFT  |-> {"DRAFT", "ACTIVE"},
     ACTIVE |-> {"ACTIVE", "CLOSED"},
     CLOSED |-> {"CLOSED"}]

Stored   == poll.status \in Live
Ahead    == poll.startsAt # NoTime /\ poll.startsAt > now
LockHeld == lock > now

WriteBack(current, loaded, mine) == IF mine = loaded THEN current ELSE mine

\* What create_poll, update_poll and set_poll_audience all insist on.
AudienceRule(status, restricted, users) ==
    restricted /\ status = "ACTIVE" => users # {}

Init ==
    /\ poll = NoRow
    /\ audience = {}
    /\ now = 0
    /\ lock = 0
    /\ req = [r \in Requests |-> Idle]
    /\ task = "idle"
    /\ lastScan = 0
    /\ invited = {}
    /\ initials = 0
    /\ excuses = {}
    /\ crashes = 0

\* try_claim_invitation_lock: SET NX EX.
ClaimLock == ~LockHeld /\ lock' = now + LockTTL

Enqueue(path, users) == invited' = invited \cup ({path} \X users)

Done(r) == req' = [req EXCEPT ![r] = Idle]

-----------------------------------------------------------------------------
(* create_poll and update_poll up to the commit of the row. *)

Create(r, status, startsAt, restricted, users) ==
    /\ poll.status = Absent
    /\ status \in {"DRAFT", "ACTIVE"}
    /\ AudienceRule(status, restricted, users)
    /\ poll' = [status |-> status, startsAt |-> startsAt, restricted |-> restricted]
    /\ req' = IF users = {} THEN req
              ELSE [req EXCEPT ![r] = [Idle EXCEPT !.pc = "committed", !.users = users,
                                                   !.creates = TRUE, !.since = now]]
    /\ UNCHANGED <<audience, now, lock, task, lastScan,
                   invited, initials, excuses, crashes>>

EditLoad(r) ==
    /\ req[r].pc = "idle"
    /\ Stored
    /\ req' = [req EXCEPT ![r] = [Idle EXCEPT !.pc = "loaded", !.loaded = poll,
                                              !.since = now]]
    /\ UNCHANGED <<poll, audience, now, lock, task, lastScan,
                   invited, initials, excuses, crashes>>

EditCommit(r, status, startsAt, restricted, users) ==
    LET loaded == req[r].loaded
        start  == WriteBack(poll.startsAt, loaded.startsAt, startsAt)
    IN  /\ req[r].pc = "loaded"
        /\ Stored
        /\ status \in AllowedTransitions[loaded.status]
        /\ AudienceRule(status, restricted, users)
        /\ poll' = [status     |-> WriteBack(poll.status, loaded.status, status),
                    startsAt   |-> start,
                    restricted |-> WriteBack(poll.restricted, loaded.restricted,
                                             restricted)]
        /\ req' = [req EXCEPT ![r].pc = "committed", ![r].users = users,
                              ![r].loaded = [NoRow EXCEPT !.status = loaded.status]]
        /\ excuses' = excuses
              \cup (IF poll.status # "DRAFT" /\ start # poll.startsAt
                    THEN {"rescheduled"} ELSE {})
              \cup (IF \E s \in Requests : req[s].pc \notin {"idle", "loaded"}
                    THEN {"overlap"} ELSE {})
              \cup (IF loaded.status = "DRAFT" /\ poll.status # "DRAFT"
                    THEN {"stale draft"} ELSE {})
        /\ UNCHANGED <<audience, now, lock, task, lastScan, invited, initials, crashes>>

\* An error path before the commit, or a row that is gone.
EditReject(r) ==
    /\ req[r].pc = "loaded"
    /\ Done(r)
    /\ UNCHANGED <<poll, audience, now, lock, task, lastScan,
                   invited, initials, excuses, crashes>>

-----------------------------------------------------------------------------
(* set_poll_audience. *)

\* Refresh the row, note whether this request activates it, check the rule again
\* against the row, read who is in the audience and delete them.
AudienceBegin(r) ==
    /\ req[r].pc = "committed"
    /\ Stored /\ AudienceRule(poll.status, poll.restricted, req[r].users)
    /\ req' = [req EXCEPT
                 ![r].pc = "audience", ![r].old = audience, ![r].removed = audience,
                 ![r].loaded = NoRow,
                 ![r].activates = /\ ~req[r].creates
                                  /\ req[r].loaded.status = "DRAFT"
                                  /\ poll.status = "ACTIVE"]
    /\ UNCHANGED <<poll, audience, now, lock, task, lastScan,
                   invited, initials, excuses, crashes>>

\* Mutant: ids of nobody are inserted too.
InsertedUnchecked(r) == req[r].users

\* Insert the ids that exist and commit.  Rows inserted since the DELETE survive it,
\* and inserting one of them again violates the primary key.
Survivors(r) == audience \ req[r].removed
Inserted(r) == req[r].users \cap Registered

AudienceCommit(r) ==
    /\ req[r].pc = "audience"
    /\ Stored /\ Survivors(r) \cap Inserted(r) = {}
    /\ audience' = Survivors(r) \cup Inserted(r)
    /\ req' = [s \in Requests |->
                 IF s = r
                 THEN [req[r] EXCEPT !.pc = IF req[r].activates THEN "activate"
                                            ELSE "invite",
                                     !.users = {}, !.removed = {}]
                 ELSE [req[s] EXCEPT !.removed = {}]]
    /\ UNCHANGED <<poll, now, lock, task, lastScan, invited, initials, excuses, crashes>>

\* The row is committed, but set_poll_audience refuses or its transaction fails: the
\* request ends with an error and nothing after it happens.
AudienceFail(r) ==
    /\ \/ /\ req[r].pc = "committed"
          /\ ~(Stored /\ AudienceRule(poll.status, poll.restricted, req[r].users))
       \/ /\ req[r].pc = "audience"
          /\ ~(Stored /\ Survivors(r) \cap Inserted(r) = {})
    /\ Done(r)
    /\ excuses' = excuses \cup {"failed"}
    /\ UNCHANGED <<poll, audience, now, lock, task, lastScan,
                   invited, initials, crashes>>

\* Mutant: create_poll leaves the lock alone.
AfterInvitingUnclaimed(r) == Idle

\* create_poll goes on with the status its refresh of the row returned.
AfterInviting(r) ==
    IF req[r].creates /\ poll.status = "ACTIVE" THEN [req[r] EXCEPT !.pc = "claim"] ELSE Idle

\* Mutant: the old ids are those of the audience just committed.
InviteAddedToNobody(r) ==
    /\ req[r].pc = "invite"
    /\ req' = [req EXCEPT ![r] = AfterInviting(r)]
    /\ UNCHANGED <<poll, audience, now, lock, task, lastScan,
                   invited, initials, excuses, crashes>>

\* Mutant: the status of the poll is not looked at.
InviteAddedToDraft(r) ==
    /\ req[r].pc = "invite"
    /\ Enqueue("added", audience \ req[r].old)
    /\ req' = [req EXCEPT ![r] = AfterInviting(r)]
    /\ UNCHANGED <<poll, audience, now, lock, task, lastScan, initials, excuses, crashes>>

\* The people this request added are invited if the poll is ACTIVE and has started;
\* for create_poll that is the whole audience.
InviteAdded(r) ==
    LET added == IF poll.status = "ACTIVE" /\ ~Ahead THEN audience \ req[r].old ELSE {}
    IN  /\ req[r].pc = "invite"
        /\ Enqueue(IF req[r].creates THEN "created" ELSE "added", added)
        /\ initials' = IF req[r].creates /\ added # {} THEN initials + 1 ELSE initials
        /\ req' = [req EXCEPT ![r] = AfterInviting(r)]
        /\ excuses' = IF req[r].creates /\ poll.status = "ACTIVE" /\ Ahead
                      THEN excuses \cup {"created ahead"} ELSE excuses
        /\ UNCHANGED <<poll, audience, now, lock, task, lastScan, crashes>>

\* create_poll is under way: it has committed the row, and the lock is not claimed yet.
Creating(r) == req[r].creates /\ req[r].pc # "idle"

\* Somebody else claims the lock for a dispatch of his own meanwhile.
ClaimsFirst == IF \E r \in Requests : Creating(r) THEN {"unclaimed"} ELSE {}

\* The end of create_poll: the lock is claimed for an ACTIVE poll, started or not.
ClaimAfterCreate(r) ==
    /\ req[r].pc = "claim"
    /\ IF LockHeld THEN UNCHANGED lock ELSE ClaimLock
    /\ Done(r)
    /\ UNCHANGED <<poll, audience, now, task, lastScan,
                   invited, initials, excuses, crashes>>

-----------------------------------------------------------------------------
(* _dispatch_activation_invitations. *)

ActivateClaim(r) ==
    /\ req[r].pc = "activate"
    /\ Stored /\ ~Ahead /\ audience # {}
    /\ ClaimLock
    /\ excuses' = excuses \cup ClaimsFirst
    /\ req' = [req EXCEPT ![r].pc = "enqueue", ![r].old = audience]
    /\ UNCHANGED <<poll, audience, now, task, lastScan, invited, initials, crashes>>

\* Not started yet, nobody to invite, or the lock is taken.
ActivateSkip(r) ==
    /\ req[r].pc = "activate"
    /\ ~Stored \/ Ahead \/ audience = {} \/ LockHeld
    /\ Done(r)
    /\ UNCHANGED <<poll, audience, now, lock, task, lastScan,
                   invited, initials, excuses, crashes>>

ActivateEnqueue(r) ==
    /\ req[r].pc = "enqueue"
    /\ Enqueue("activation", req[r].old)
    /\ initials' = initials + 1
    /\ Done(r)
    /\ UNCHANGED <<poll, audience, now, lock, task, lastScan, excuses, crashes>>

-----------------------------------------------------------------------------
(* dispatch_pending_invitations. *)

JustStarted ==
    /\ poll.status = "ACTIVE"
    /\ poll.startsAt # NoTime
    /\ poll.startsAt <= now /\ poll.startsAt >= now - Window

Scan ==
    /\ task = "idle"
    /\ lastScan # now \/ JustStarted
    /\ lastScan' = now
    /\ task' = IF JustStarted THEN "selected" ELSE "idle"
    /\ UNCHANGED <<poll, audience, now, lock, req, invited, initials, excuses, crashes>>

TaskClaim ==
    /\ task = "selected"
    /\ IF LockHeld THEN task' = "idle" /\ UNCHANGED <<lock, excuses>>
       ELSE task' = "claimed" /\ ClaimLock /\ excuses' = excuses \cup ClaimsFirst
    /\ UNCHANGED <<poll, audience, now, req, lastScan, invited, initials, crashes>>

\* An empty audience leaves the lock claimed and invites nobody; so does, for the new
\* people, an audience that a request has yet to write.
TaskEnqueue ==
    /\ task = "claimed"
    /\ Enqueue("started", audience)
    /\ initials' = IF audience = {} THEN initials ELSE initials + 1
    /\ task' = "idle"
    /\ excuses' = IF \E r \in Requests : req[r].pc \in {"committed", "audience"}
                  THEN excuses \cup {"half written"} ELSE excuses
    /\ UNCHANGED <<poll, audience, now, lock, req, lastScan, crashes>>

-----------------------------------------------------------------------------
(* The rest of the system. *)

\* close_due_polls.
ClosePoll ==
    /\ poll.status = "ACTIVE"
    /\ poll' = [poll EXCEPT !.status = "CLOSED"]
    /\ UNCHANGED <<audience, now, lock, req, task, lastScan,
                   invited, initials, excuses, crashes>>

\* delete_poll; the rows of the audience go with it.
DeletePoll ==
    /\ Stored
    /\ poll' = [poll EXCEPT !.status = Gone]
    /\ audience' = {}
    /\ UNCHANGED <<now, lock, req, task, lastScan, invited, initials, excuses, crashes>>

\* A create_poll that dies before its last step leaves the lock unclaimed.
Crash ==
    /\ crashes < MaxCrashes
    /\ crashes' = crashes + 1
    /\ \/ \E r \in Requests :
              /\ req[r].pc # "idle" /\ Done(r) /\ UNCHANGED task
              /\ excuses' = excuses \cup {"crash"}
                    \cup (IF req[r].pc = "claim" THEN {"unclaimed"} ELSE {})
       \/ /\ task # "idle" /\ task' = "idle" /\ UNCHANGED req
          /\ excuses' = excuses \cup {"crash"}
    /\ UNCHANGED <<poll, audience, now, lock, lastScan, invited, initials>>

\* A request or a run of the task takes less than the time between two runs, and
\* the worker is never down for longer than the window it looks back.
Tick ==
    /\ now < MaxTime
    /\ now + 1 - lastScan <= Window
    /\ task # "idle" => lastScan = now
    /\ \A r \in Requests : req[r].pc # "idle" => req[r].since = now
    /\ now' = now + 1
    /\ UNCHANGED <<poll, audience, lock, req, task, lastScan,
                   invited, initials, excuses, crashes>>

RequestStep(r) ==
    \/ \E status \in Live, startsAt \in Starts \cup {NoTime},
          restricted \in Restrictions, users \in SUBSET Users :
          \/ Create(r, status, startsAt, restricted, users)
          \/ EditCommit(r, status, startsAt, restricted, users)
    \/ EditLoad(r) \/ EditReject(r)
    \/ AudienceBegin(r) \/ AudienceCommit(r) \/ AudienceFail(r)
    \/ InviteAdded(r) \/ ClaimAfterCreate(r)
    \/ ActivateClaim(r) \/ ActivateSkip(r) \/ ActivateEnqueue(r)

Next ==
    \/ \E r \in Requests : RequestStep(r)
    \/ Scan \/ TaskClaim \/ TaskEnqueue
    \/ ClosePoll \/ DeletePoll \/ Crash \/ Tick

Spec == Init /\ [][Next]_vars

-----------------------------------------------------------------------------
(* Properties. *)

TypeOK ==
    /\ poll \in Row
    /\ audience \subseteq Registered
    /\ now \in 0 .. MaxTime
    /\ lock \in Nat
    /\ req \in [Requests -> Request]
    /\ task \in {"idle", "selected", "claimed"}
    /\ lastScan \in 0 .. MaxTime
    /\ invited \subseteq {"created", "added", "activation", "started"} \X Users
    /\ initials \in Nat
    /\ excuses \subseteq {"crash", "failed", "rescheduled", "created ahead", "unclaimed",
                   "overlap", "stale draft", "half written"}
    /\ crashes \in 0 .. MaxCrashes

Quiet == task = "idle" /\ \A r \in Requests : req[r].pc = "idle"

Invited(u) == \E path \in {"created", "added", "activation", "started"} : <<path, u>> \in invited

\* The poll is open, its start is out of the task's reach and nobody is on the way
\* to invite u, who is in the audience and has never been invited.
Forgotten(u) ==
    /\ poll.status = "ACTIVE" /\ Quiet
    /\ poll.startsAt = NoTime \/ poll.startsAt + Window < now
    /\ u \in audience /\ ~Invited(u)

\* Everybody in the audience of an open poll is invited, over all interleavings of
\* the three paths, unless a process died, an audience write failed after the row
\* was committed, the start of a poll past DRAFT was moved, the poll was created ACTIVE ahead
\* of its start, an edit was committed before the request that committed the previous
\* one had ended (each may then count on the other to invite, and the late claim of
\* create_poll takes the lock from an edit that activates), an edit was committed that
\* had loaded the poll as a DRAFT although it no longer is one, or the task dispatched
\* between the commit of the row and that of the audience.
NobodyForgotten == excuses \subseteq {"unclaimed"} => \A u \in Users : ~Forgotten(u)

\* The dispatches to the whole audience, by create_poll, by the edit that activates and by
\* the task, exclude each other (mail.py: "make the immediate-activation path and the
\* deferred path mutually exclusive"; services/poll.py: create_poll claims the lock so that
\* the task "does not re-fire"), unless the start was moved after activation, or the lock
\* was not claimed in time: create_poll claims it only after it has invited everybody, so
\* the task or an edit that comes before that invites them once more.
InitialDispatchOnce ==
    excuses \cap {"rescheduled", "unclaimed"} = {} => initials <= 1

\* Nobody is invited to a poll that is still a DRAFT.
DraftIsSilent == poll.status = "DRAFT" => invited = {}

\* mail.py: the lock marks a poll as "initial invitations dispatched".
LockMeansDispatched ==
    (LockHeld /\ Quiet /\ poll.status = "ACTIVE" /\ excuses \cap {"crash", "failed"} = {}
        /\ audience # {}) => \E u \in audience : Invited(u)
=============================================================================
