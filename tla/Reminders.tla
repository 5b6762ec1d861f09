----------------------------- MODULE Reminders -----------------------------
(***************************************************************************)
(* Reminders of a mandatory poll: dispatch_mandatory_reminders_task runs    *)
(* every Window, looks for polls whose deadline is one of the lead times    *)
(* away and enqueues one task per member of the audience who has not voted; *)
(* send_mandatory_reminder_task claims a key for (poll, user, tier), loads  *)
(* the rows and sends the mail.                                            *)
(*                                                                         *)
(* One poll.  A tier is its lead time.  Groups in the audience are expanded *)
(* to their members.  The owner's edits are one step each: how they race    *)
(* with each other is PollLifecycle's subject, here they race with the      *)
(* tasks.  The clock counts fractions of Window, and a run scheduled at a   *)
(* multiple of Window may execute any time later.                          *)
(***************************************************************************)
EXTENDS Integers, FiniteSets, FiniteSetsExt

CONSTANTS
    Users,
    Tiers,        \* _TIERS: the lead times
    Window,       \* _DISPATCH_WINDOW, and the period of the dispatching task
    Slack,        \* the hour a reminder may be early
    Day,          \* what the key outlives the lead time by
    Rows,         \* what the owner may make of the poll
    Retries,      \* @huey.task(retries=...)
    MaxTime,      \* bound on the clock
    MaxEvents     \* bound: edits, moves of people, failed attempts and crashes

None == -1
Statuses == {"DRAFT", "ACTIVE", "CLOSED"}

ASSUME ReminderAssumption ==
    /\ Tiers \subseteq Nat \ {0} /\ Tiers # {} /\ IsFiniteSet(Tiers)
    /\ Window \in Nat \ {0} /\ Slack \in Nat /\ Day \in Nat
    /\ \A a, b \in Tiers : a < b => a + Window < b     \* 2 h, 24 h, 72 h
    /\ Window <= Slack /\ Slack < Day
    /\ Rows \subseteq [status : Statuses, is_mandatory : BOOLEAN,
                       starts_at : Nat \cup {None}, ends_at : Nat \cup {None}]
    /\ \A r \in Rows : r.starts_at # None /\ r.ends_at # None => r.starts_at < r.ends_at
    /\ {Retries, MaxTime, MaxEvents} \subseteq Nat

VARIABLES
    now,
    poll,         \* the row
    audience,     \* users invited, directly or by a group
    active,       \* users with is_active
    responded,    \* users with a row in poll_responses
    due,          \* runs of the dispatching task that wait for a worker, by time
    run,          \* the run a worker executes: what it has read
    tasks,        \* calls of the sending task, in the queue or in a worker
    key,          \* per user and tier: when the key in Redis expires (0: none)
    mails,        \* history: per user, tier and deadline, the mails sent
    calm,         \* history: the last time anything but the tasks interfered
    events        \* history: how often it did

world == <<poll, audience, active, responded>>
work  == <<due, run, tasks, key>>
past  == <<mails, calm, events>>
vars  == <<now, world, work, past>>

Idle == [pc |-> "idle", at |-> None, tier |-> None]
Deadlines == {r.ends_at : r \in Rows}

Init ==
    /\ now = 0
    /\ poll \in {r \in Rows : r.status # "CLOSED"}
    /\ audience \in SUBSET Users /\ active = Users /\ responded = {}
    /\ due = {0} /\ run = Idle /\ tasks = {}
    /\ key = [p \in Users \X Tiers |-> 0]
    /\ mails = [p \in Users \X Tiers \X Deadlines |-> 0]
    /\ calm = 0
    /\ events = 0

Interfere == events < MaxEvents /\ events' = events + 1 /\ calm' = now

Open(r, at) ==
    /\ r.status = "ACTIVE" /\ r.is_mandatory
    /\ r.ends_at # None /\ r.ends_at > at
    /\ r.starts_at = None \/ r.starts_at <= at
-----------------------------------------------------------------------------
(* The dispatching task. *)

\* Mutant: the window is open at both ends.
SelectTierOpen(remaining) ==
    {t \in Tiers : t - Window < remaining /\ remaining < t}

\* Mutant: the remaining time is passed on for the tier.
SelectTierRemaining(remaining) ==
    IF \E t \in Tiers : t - Window <= remaining /\ remaining <= t THEN {remaining} ELSE {}

\* At most one, by ReminderAssumption.
SelectTier(remaining) ==
    {t \in Tiers : t - Window <= remaining /\ remaining <= t}

\* A worker takes the oldest run, reads the clock and then the polls.
DispatchSelect ==
    /\ run.pc = "idle" /\ due # {}
    /\ due' = due \ {Min(due)}
    /\ run' = LET tiers == SelectTier(poll.ends_at - now)
              IN  IF Open(poll, now) /\ poll.ends_at <= now + Max(Tiers) + Window /\ tiers # {}
                  THEN [pc |-> "selected", at |-> Min(due), tier |-> CHOOSE t \in tiers : TRUE]
                  ELSE Idle
    /\ UNCHANGED <<now, world, tasks, key, past>>

NonResponders == (audience \cap active) \ responded

Calls(users) == {[user |-> u, tier |-> run.tier, run |-> run.at,
                  pc |-> "queued", retries |-> Retries] : u \in users}

\* Audience and responses are read now; the calls are pushed one by one.
DispatchEnqueue ==
    /\ run.pc = "selected"
    /\ tasks' = tasks \cup Calls(NonResponders)
    /\ run' = Idle
    /\ UNCHANGED <<now, world, due, key, past>>

\* The consumer dies before it has pushed them all.
DispatchCrash ==
    /\ run.pc = "selected"
    /\ \E done \in SUBSET NonResponders : tasks' = tasks \cup Calls(done)
    /\ run' = Idle
    /\ Interfere
    /\ UNCHANGED <<now, world, due, key, mails>>
-----------------------------------------------------------------------------
(* The sending task. *)

Become(c, pc) == tasks' = (tasks \ {c}) \cup {[c EXCEPT !.pc = pc]}
Finish(c) == tasks' = tasks \ {c}

Ttl(tier) == tier + Day

\* SET NX with a time to live, before anything is read.
Claim(c) ==
    /\ c.pc = "queued"
    /\ IF key[<<c.user, c.tier>>] > now
       THEN Finish(c) /\ UNCHANGED key
       ELSE /\ key' = [key EXCEPT ![<<c.user, c.tier>>] = now + Ttl(c.tier)]
            /\ Become(c, "claimed")
    /\ UNCHANGED <<now, world, due, run, past>>

\* Mutant: a deadline that moved out does not stop the reminder.
WantedAnyway(c) == c.user \in active /\ Open(poll, now)

\* The guards, on the rows as they are now.  Whether the user has voted or been
\* uninvited since is not among them; that there is an address is, and always holds: the
\* column is NOT NULL, and login and SCIM refuse an empty one.
Wanted(c) ==
    /\ c.user \in active
    /\ Open(poll, now)
    /\ poll.ends_at - now <= c.tier + Slack

\* Load the rows and, if all guards pass, render the mail.
Load(c) ==
    /\ c.pc = "claimed"
    /\ IF Wanted(c)
       THEN tasks' = (tasks \ {c}) \cup
                     {[user |-> c.user, tier |-> c.tier, run |-> c.run, pc |-> "rendered",
                       retries |-> c.retries, says |-> poll.ends_at]}
       ELSE Finish(c)
    /\ UNCHANGED <<now, world, due, run, key, past>>

Deliver(c) == mails' = [mails EXCEPT ![<<c.user, c.tier, c.says>>] = @ + 1]

Send(c) ==
    /\ c.pc = "rendered"
    /\ Deliver(c) /\ Finish(c)
    /\ UNCHANGED <<now, world, due, run, key, calm, events>>

\* Redis, the database or the SMTP server fails, the last maybe after it took the
\* mail; Huey calls the task again while retries are left.
Fail(c) ==
    /\ tasks' = (tasks \ {c}) \cup
                {[user |-> d.user, tier |-> d.tier, run |-> d.run, pc |-> "queued",
                  retries |-> d.retries - 1] : d \in {d \in {c} : d.retries > 0}}
    /\ \/ UNCHANGED mails
       \/ c.pc = "rendered" /\ Deliver(c)
    /\ Interfere
    /\ UNCHANGED <<now, world, due, run, key>>
-----------------------------------------------------------------------------
(* The others. *)

AllowedTransitions ==
    {<<s, s>> : s \in Statuses} \cup {<<"DRAFT", "ACTIVE">>, <<"ACTIVE", "CLOSED">>}

\* update_poll moves the deadline, the start, the flag or the status.
Edit(r) ==
    /\ r # poll /\ <<poll.status, r.status>> \in AllowedTransitions
    /\ poll' = r
    /\ Interfere
    /\ UNCHANGED <<now, audience, active, responded, work, mails>>

\* set_poll_audience, deactivation and reactivation, submit and withdraw.
Move(u) ==
    /\ \/ /\ audience' = SymDiff(audience, {u})
          /\ UNCHANGED <<active, responded>>
       \/ /\ active' = SymDiff(active, {u})
          /\ UNCHANGED <<audience, responded>>
       \/ /\ responded' = SymDiff(responded, {u})
          /\ Open(poll, now) /\ u \in active
          /\ UNCHANGED <<audience, active>>
    /\ Interfere
    /\ UNCHANGED <<now, poll, work, mails>>

\* Time passes.  At a multiple of Window Huey schedules a run; a run that is not
\* through by the end of its unit of time is late.  A task may wait in the queue for
\* as long as it likes, but once begun it is over within its unit: the SMTP session
\* has a timeout of seconds.
Tick ==
    /\ now < MaxTime
    /\ \A c \in tasks : c.pc = "queued"
    /\ now' = now + 1
    /\ due' = IF now' % Window = 0 THEN due \cup {now'} ELSE due
    /\ calm' = IF due # {} \/ run # Idle THEN now' ELSE calm
    /\ UNCHANGED <<world, run, tasks, key, mails, events>>

Next ==
    \/ DispatchSelect \/ DispatchEnqueue \/ DispatchCrash
    \/ \E c \in tasks : Claim(c) \/ Load(c) \/ Send(c) \/ Fail(c)
    \/ \E r \in Rows : Edit(r)
    \/ \E u \in Users : Move(u)
    \/ Tick

Spec == Init /\ [][Next]_vars
-----------------------------------------------------------------------------
(* Properties. *)

Call == [user : Users, tier : Tiers, run : 0 .. MaxTime, pc : {"queued", "claimed"},
         retries : 0 .. Retries]
Rendered == [user : Users, tier : Tiers, run : 0 .. MaxTime, pc : {"rendered"},
             retries : 0 .. Retries, says : Deadlines \ {None}]

TypeOK ==
    /\ now \in 0 .. MaxTime /\ calm \in 0 .. now /\ events \in 0 .. MaxEvents
    /\ poll \in Rows
    /\ audience \subseteq Users /\ active \subseteq Users /\ responded \subseteq Users
    /\ due \subseteq 0 .. now
    /\ run \in {Idle} \cup [pc : {"selected"}, at : 0 .. now, tier : Tiers]
    /\ tasks \subseteq Call \cup Rendered
    /\ \A u \in Users, t \in Tiers : key[<<u, t>>] \in 0 .. (now + Ttl(t))

\* Two runs may enqueue the same reminder, tasks are retried and keys expire, yet
\* nobody is told of the same deadline twice by the same tier.
OncePerDeadline ==
    \A u \in Users, t \in Tiers, e \in Deadlines : mails[<<u, t, e>>] <= 1

\* The window of tier t is over, and nothing has interfered since before it opened.
Passed(t) ==
    /\ Open(poll, now)
    /\ calm < poll.ends_at - t
    /\ poll.starts_at <= poll.ends_at - t
    /\ poll.ends_at - t + Window <= now
    /\ run = Idle /\ due = {}

\* "With the periodic task running every 15 min, we fire when `remaining` is within
\* [lead - 15min, lead]": no deadline falls between two runs.  While the poll is open,
\* whoever is asked to vote has the reminder or a task on its way, unless the key of
\* the tier was claimed before the window opened (for an earlier deadline, whether its
\* reminder was sent or, the deadline having moved out, dropped) and is still there.
NobodyUnreminded ==
    \A t \in Tiers : Passed(t) => \A u \in NonResponders :
        \/ mails[<<u, t, poll.ends_at>>] > 0
        \/ \E c \in tasks : c.user = u /\ c.tier = t
        \/ key[<<u, t>>] > poll.ends_at - t /\ key[<<u, t>>] - Ttl(t) < poll.ends_at - t
=============================================================================
