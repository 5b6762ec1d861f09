# Struudel in TLA+

Struudel is a poll service in the manner of Doodle: an owner writes a poll with options, invites
an audience, people vote until the poll closes, and closed polls are deleted after a retention
period. This directory holds TLA+ models of the parts of it whose correctness depends on order,
overlap and failure, TLC runs that check them on small instances, and TLAPS proofs of the
properties that matter most.

Paths below are relative to `src/` of the project's workspace, short names (`services/poll.py`)
to `src/src/struudel/`.

## The system

| part | where | state | operations |
|---|---|---|---|
| Poll lifecycle | `services/poll.py`, `blueprints/polls/routes.py`, `tasks/poll/` | one row of `polls`: status, `ends_at`, `auto_delete_at` | create, edit, delete (owner, administrator); `close_due_polls`, `purge_expired_polls` (periodic) |
| Invitations and audience | `services/poll.py`, `mail.py`, `tasks/mail/dispatch_pending_invitations.py` | `poll_users`, `poll_groups`, a lock per poll in Redis, the mail queue | replace the audience, dispatch on activation, dispatch at `starts_at` |
| Mail tasks | `tasks/mail/send_*.py`, `mail.py` | the Huey queue, one dedup key per mail in Redis | enqueue, run, retry |
| Ballots and voting | `services/poll.py`, `blueprints/polls/routes.py` | `poll_responses`, `poll_response_options` | submit, withdraw, add an option, clear all |
| Vote form | `static/js/polls-vote.js`, `templates/polls/vote.html` | the browser's copy of a ballot | click, type, clamp, send |
| Option editing | `services/poll.py`, `static/js/polls-edit.js`, `templates/polls/edit.html` | `poll_options`, `poll_option_groups`, the page in each tab | add, remove, rename, drag, group, save |
| Settings form | `static/js/polls-edit.js`, `templates/polls/edit.html`, `blueprints/polls/routes.py`, `services/poll.py` | the page in each tab, the request, row and audience of one poll | open, change, save, come back |
| Reminders | `tasks/mail/dispatch_mandatory_reminders.py`, `send_mandatory_reminder.py` | a dedup key per person and tier in Redis | enqueue for those who have not responded, send |
| Accounts | `services/user.py`, `blueprints/auth`, `blueprints/admin`, `cli.py` | `users` (active, superuser), sessions | login, activate, deactivate, promote, demote, delete |
| SCIM | `services/scim.py`, `services/group.py`, `blueprints/scim` | `users`, `groups`, memberships | provision, patch, replace, delete, derive the superuser flag |
| Group table | `static/js/admin-groups.js`, `templates/admin/groups.html`, `blueprints/admin/routes.py`, `services/group.py` | alias and mark "hidden" per group, the table in each tab | filter, fill in, save all lines |
| Lists, results, avatars, mail layout | see PROJECT.json | none that order matters to | |

**Runtime.** gunicorn runs several worker processes, which it may kill (timeout 60 s,
`docker-entrypoint.sh`); `huey_consumer` runs several threads and the periodic tasks. They share
PostgreSQL at READ COMMITTED and Redis, and nothing else: there is no version column and, but
for `close_due_polls`, no row lock. A request loads rows when it starts, decides on them, and
commits later; SQLAlchemy writes only the columns that differ from the loaded values; several
handlers commit more than once.

**What is hard.** (1) Decisions made on a row that changed since it was loaded. (2) Handlers
that commit the row, then the audience, then enqueue mails, with a crash, a failure or another
request in between. (3) Mutual exclusion by keys in Redis that are claimed before the work they
stand for. (4) Retries of tasks that have partly worked. (5) A form that is sent back whole and
matched by value against rows other people depend on. (6) Limits enforced twice, in the browser
and on the server. (7) A superuser flag with four writers, one of which derives it from a table
that changes meanwhile. (8) Reminders due in windows, with deadlines that move. (9) Pages that
repeat the rules of the server for a row that moves on under them. PROJECT.json lists each such
place under "hazards".

**What makes each part correct.** A poll moves forward only, is closed once and announced, and
is never deleted while somebody may still need it. Everybody in the audience of an open poll is
invited, the audience as a whole once (as long as whoever has invited it gets to claim the lock
before another path does), and nobody to a draft. A mail with a key is sent at most once in the
lifetime of the key, one without at least once. A ballot obeys the rules it was accepted under,
is changed by its voter only, and is not destroyed without the owner being warned. What the
owner saves is what the page showed; the server does not refuse what the page lets through, and
a page that comes back shows what was sent (but for two boxes and an hour that does not exist,
see the findings). Whoever has to respond is reminded once per tier and deadline. Somebody stays
in charge of the service, the superuser flag follows the group where one is configured, and a
deactivated account stays so until somebody activates it.

## Modules

| module | models | extends or uses |
|---|---|---|
| `PollLifecycle` | one poll row under requests, tasks and crashes | |
| `PollPromise` | the lifecycle the documentation states, as a specification | instanced by `PollLifecycle` |
| `PollLifecycleProofs` | its theorems | `PollLifecycle`, TLAPS |
| `Invitations` | audience, lock and the three paths to an invitation | |
| `InvitationsProofs` | its theorems | `Invitations`, TLAPS |
| `MailTasks` | one Huey task per call, retries, dedup keys | |
| `MailPromise` | what retries and keys promise a caller, as a specification | instanced by `MailTasks` |
| `MailTasksProofs` | its theorems | `MailTasks`, TLAPS |
| `Ballots` | what the server accepts as a ballot, as operators | |
| `VoteEditor` | the vote form in the browser | `Ballots` |
| `EditForm` | the settings form in the browser, and the requests behind it | |
| `GroupSettings` | the administrators' table of groups | |
| `FormsProofs` | theorems about the three forms and their composition | `MCForms`, TLAPS |
| `Voting` | the requests on ballots, options and settings of one poll | `Ballots` (instanced) |
| `VotingProofs` | its theorems | `Voting`, TLAPS |
| `OptionSync` | the list of options between the page and the rows | |
| `OptionSyncProofs` | its theorems | `OptionSync`, TLAPS |
| `Reminders` | the tiers before a deadline, their runs, calls and keys | |
| `RemindersProofs` | its theorems | `Reminders`, TLAPS |
| `Identity` | accounts and the superuser group under overlapping requests | |
| `IdentityProofs` | its theorems | `Identity`, TLAPS |
| `MC...` | constants and symmetry for TLC | the module they are named after; `MCForms`: `VoteEditor`, `EditForm`, `GroupSettings` |

Every definition that models code is listed in PROJECT.json, "map", with the lines it stands
for. Definitions called mutants in a comment are not part of any model: they are plausible
mistakes, and PROJECT.json says which property notices which.

### PollLifecycle

A request of the owner is `EditLoad` (the route reads the row), `EditCommit` (`update_poll` up
to its commit, with the status check against the *loaded* row and `WriteBack` for columns that
changed) or `EditReject`, then `EditFinish` (reload, mails) or `EditFail` (the second
transaction, that of the audience, refuses or raises, at any time after the first is committed).
A request that writes CLOSED computes `auto_delete_at` anew, so that column then always differs
from the one loaded and is written. `CreatePoll` and `DeletePoll` are one step each.
`close_due_polls` is `CloseSelect` (SELECT ... FOR UPDATE SKIP LOCKED; the row lock is `lock`),
`CloseCommit` and `CloseDispatch`; `purge_expired_polls` is `PurgeSelect`, without a lock, and
`PurgeDelete`. `Crash` ends any of them anywhere. History variables (`closings`, `firstClosed`,
`announced`, `lost`) record what the properties speak about.

### Invitations

A request goes through `EditLoad`, `EditCommit`, `AudienceBegin` and `AudienceCommit`
(`set_poll_audience` reads the old audience, deletes, inserts the ids that exist; `Survivors`
are rows another request inserted in between), `InviteAdded`, and for an activation
`ActivateClaim` and `ActivateEnqueue`; `Create` is followed by the same steps, by which it
invites the whole audience of a poll that has started, and by `ClaimAfterCreate`. The periodic
task is `Scan`, `TaskClaim`, `TaskEnqueue`. The clock counts runs of the task, which is assumed
to run at least once per `Window` (a worker that is down for more than the hour of
`_BACKLOG_WINDOW` is outside the model: the code accepts that loss).

`excuses` collects the events after which the code gives no guarantee:

- a process died, or the audience write failed after the row was committed;
- the start of a poll past DRAFT was moved or cleared ("rescheduled"): people added before the
  start were left to the task, which may already have claimed the lock;
- the poll was created ACTIVE ahead of its start (see the finding `invite_lock`);
- an edit was committed before the previous one had ended: each may leave it to the other to
  invite;
- an edit committed that had loaded the poll as a DRAFT although it no longer was;
- the task dispatched between the commit of the row and that of the audience.

`NobodyForgotten` says that without any of these nobody is forgotten. Each is an interleaving or
input the code really admits; TLC found each one when it was not yet excused, and the list is
what a maintainer would have to repair to drop the hypothesis.

`initials` counts the dispatches to the whole audience: that of a creation (`InviteAdded` of a
request that creates), of an activation and of the task. `InitialDispatchOnce` says that there
is one at most, and has two exceptions. A start that is moved after activation lets the task
dispatch again once the lock has expired. And creation claims the lock last ("unclaimed"): the
task, or an edit that loads the new poll and activates it, may claim the lock and dispatch while
`create_poll` is still on its way to it, and after a `create_poll` that died just before,
anybody may. The people an edit adds between the start and the next run of the task are invited
by both, whatever the lock says; that is not a dispatch to the whole audience and not counted.

### MailTasks

A call is `Enqueue`d, `Start`ed by a worker, then `Claim`s its key (mails in `Locked`: closing
mails, response notifications, reminders), `Load`s what it needs, and `Send`s or `Fail`s; SMTP
may fail before or after the server took the mail. `Lapse` is the expiry of a key (30 days, of a
reminder one to four), at any time at which no body is past it, since a body takes seconds and
no key lives less than a day; `before` remembers how often the mail had been sent by then.
`AfterException` schedules a retry while there are any left. `Crash` loses what the workers
hold, since Huey takes a task off its list before running it. Huey and SMTP are external: they
are modelled from how the code declares its tasks (`retries=3`) and calls `send_mail`.

`MailPromise` says what a caller may rely on: per call a number of attempts that is used up
before the call is given up, unless the mail has a key, nobody wants it any more or the consumer
died; per mail with a key one delivery at most between two expiries of it. A call of `MailTasks`
is mapped to the attempts it has left (`Owed`), and `ImplementsMailPromise` is the refinement.
It implies that a mail without a key is sent at most `1 + Retries` times per call, and that
nobody goes without one while an attempt is left.

### Ballots, VoteEditor

`Accepts` is the conjunction of `_validate_votes_against_mode` and `_validate_group_limits`.
`VoteEditor` is the state of the Alpine component, with one action per thing the template lets
the voter do; its initial ballot is anything stored under whatever rules were in force then,
with votes the server would now refuse and guests beyond a limit that has been lowered or for a
poll that no longer has guests. So `StaysAcceptable` is a step property: an acceptable ballot
stays acceptable. `GuestsAsShown` excludes two kinds of numbers. Those in `typing` have been
typed and not left, so the browser has not clamped them. Those in `stale` were stored before the
owner tightened the rules and have not been touched: the page shows them as stored, and the
server cuts them without a word (see the findings).

### EditForm

`page` is what each tab shows, `request` where its POST is. The page is `Rendered` from the
defaults (`OpenNew`), the row (`OpenEdit`, `Answer`) or the form that was refused (`Return`,
`RefuseAudience`); `Touch` is any change, followed by the `x-effect` that clears the checkbox of
a public poll (`Settle`). `Form` is what the browser sends, and what it leaves out:
`SaveBlocked` is the state of the button, and of a chosen status that is disabled nothing is
sent (`SentStatus`); nor is a box that is not checked, which `PollForm` takes for checked
(`Parsed`). The boxes are `allow_edit_responses` and `auto_delete`; they are treated alike in
page, form and server, and the first is the one that is modelled. On the server `Submit` loads
the row, `Objections` are the checks of `PollForm` and `update_poll` before anything changes,
`Commit` and `WriteAudience` the two transactions, with the reload in between (`Refresh`), since
`set_poll_audience` checks again (`Refused`).

A date is entered in the time zone of the service (`app_timezone`, Europe/Berlin by default,
`config.py` 43), stored in UTC and rendered back. Instants are named here by what `to_local`
makes of them, so the conversion back is the identity by definition and `ToUtc` is where the
information is lost: an hour that the clocks skip in spring (`Skipped`) becomes the next one.
The hour they repeat in autumn is always taken as the first of the two, so it comes back as
entered.

`excuses` collects what may leave an open poll without options or audience: two saves
overlapped, a request died between its commits, an account or a group that was invited is gone.
The next save that nothing interferes with clears them. The first is a real weakness: of two
tabs one may make the poll private while the other removes everybody from it.

The disabled status of a page is the case worth knowing. A form is refused because the row has
moved on, say from DRAFT to CLOSED, and comes back with a menu made for the new row, in which
the owner's choice is disabled. Sent again it has no status, and `PollForm` takes ACTIVE. From
CLOSED that is refused, from ACTIVE it changes nothing, and no row ever returns to DRAFT, so
nothing is opened unseen (`NotOpenedUnseen`); a page that let the menu show a disabled status
over a draft would break it, as its mutant does.

### GroupSettings

`table` is the form in each tab, with the filter of `groupsFilter` (`RowMatches`), which hides
lines without taking them out. `Post` loads the rows and parses the form against them, `Check`
reads them again and refuses if one is gone, `Commit` writes all lines back (a row that goes
between the two is missed only if there is something to write to it), `Create` and `Delete` are
SCIM. `touched` and `overtaken` are history: the lines the administrator changed, and the tabs
that another tab's save has overtaken, of which nothing is promised, as the form is sent whole
and the later one wins. A group that SCIM has created since the table was opened has no fields
in the form and is refused for want of a name, rather than saved with an empty one; that refusal
is what `OnlyTouchedAreSaved` rests on. An error on a line the filter hides is not seen until
the filter is reset.

### Voting

A request is a load (`VoteLoad`, `WithdrawLoad`, `AddLoad`, `EditLoad`, `ClearLoad`: permission
decided on the row as loaded) and a commit; a vote has a step in between, `VoteCheck`, since
`submit_response` reads options and groups anew but takes mode and `max_yes_choices` from the
loaded row. Deleting an option deletes its votes (`KeepVotes`, ON DELETE CASCADE); a vote for an
option that is gone breaks its foreign key and fails the request. `version` counts the owner's
saves and stamps each ballot with the settings it was let in under. A poll with
`allow_edit_responses` off is among the settings although the owner's page cannot switch it off
(see the findings): the column has that default, the service's callers may ask for it, and so
may a form that sends `false`, as no page does.

### OptionSync

`Rendered` is the page the server produces (`Load`, in a new tab or an open one), `page` what
each open tab shows, and the browser's actions (`Edit`) change only that. `Save` is one step:
the form is validated, groups are matched by client key (`ApplyGroups`), options by value
(`ApplyOptions`), and the browser is sent back to the page. Two rows with one value are matched
in either order (`Candidates`), since the query that reads them has no ORDER BY. An id that the
server gave to a group is not given again, so a tab that is older than a deletion sends an id of
no row.

### Reminders

A run of the periodic task is `DispatchSelect` (the poll and its tier, if one is due:
`SelectTier`) and `DispatchEnqueue` (one call per person of the audience who has not responded),
or `DispatchCrash` in between. A call is `Claim` (the key of person and tier, with its expiry
`Ttl`), `Load` (the guards), and `Send` or `Fail`; a failure is retried. The guard against an
account without an address is left out, since it never fails: the column is NOT NULL
(`models/user.py` 26), and login and SCIM refuse an empty one. `Edit` saves the poll and `Move`
changes a person: in and out of the audience, responded, deactivated. Time is in units of which
a `Window`, the quarter of an hour between runs, has two, so that a deadline can lie between
runs or on one; an hour of slack (`Slack`) and the day that outlives a key (`Day`) are scaled
down with their order kept. A task body that has begun is over before the unit is.

`NobodyUnreminded` says who must have a mail when the window of a tier has passed: everybody for
whom nothing interfered in it (`calm`: no edit, no move, no failure, no run that was late). One
exception remains. The key is claimed before the guards and does not name the deadline: one
claimed before the window opened, by a mail for an earlier deadline or by a call that was
dropped because the deadline had moved out, suppresses the reminder for the new deadline until
it expires.

### Identity

A request holds what it loaded: administrator and command line `AdminCheck`, `AdminLoad`,
`Commit` or `AdminDelete`; SCIM on users `Load` and `Commit`, `ScimMiss` and `ScimInsert`; a
login `LoginRead`, `LoginUpsert`, `ClaimLoad`, `ClaimCommit`; SCIM on groups `GroupOpen`,
`GroupReplace`, `GroupCommit`, `GroupCreate`, `GroupDelete`, and after each the derivation of
the flag, `SyncFind`, `SyncGrant`, `SyncRevoke`, `SyncCommit`. `WriteBack` writes the columns
that changed; a statement waits for rows another transaction has written and then sees what that
one committed. `Collapse` is `group_patch_to_actions`, and `Meaning` the reference it is
compared with, the operations one after the other. `Abort` ends a request anywhere.

`excuses` again collects what the code gives no guarantee after. With a superuser group
(`FlagFollowsGroup`): an administrator or the command line set the flag ("by hand"), a login's
claim differed from the group ("claim"), a request died between its change of the group and the
end of the derivation ("no sync"), or two derivations overlapped ("two syncs"). A later
derivation that nothing disturbs clears them. Without one (`SomeoneLeft`): the command line or
SCIM demoted or deactivated somebody, or two administrators each other ("crossed"). For
`DeactivationHolds` there are none: whoever reactivates an account has seen it inactive.

"two syncs" is a real defect, although no run is dedicated to it. A derivation finds no group;
another request creates the group and grants the flag to its members; then the first goes on and
revokes it from everybody. The docstring at `services/group.py` 212-213 and `.env.example`
promise that the flag is derived from the group, and after this it is not, until the next change
of a group. Taking "two syncs" off the excuses lets TLC produce the trace.

## Runs

| run | question | answer |
|---|---|---|
| `lifecycle` | two overlapping edits, two closers, the purge and a crash | `OneCloserPerClosing`, `ClosedIsAnnounced`, `StatusMoves`, `NeverPurgedEarly` hold |
| `lifecycle_live` | one edit at a time, fair periodic tasks | the row implements `PollPromise` (`ImplementsPromise`); due polls close, expired polls go (`TasksCatchUp`) |
| `lifecycle_reopened` | is the lifecycle forward-only? | no: a finding |
| `invitations` | creation, two overlapping requests and the task | `NobodyForgotten`, `InitialDispatchOnce`, `DraftIsSilent` hold |
| `invite_lock` | does the lock mean that invitations went out? | no: a finding |
| `mail` | three calls, two mails, two workers, keys that expire, a crash | the tasks implement `MailPromise`; `EveryCallEnds` holds |
| `mail_retry` | is a mail that is dropped as a duplicate one that was sent? | no: a finding |
| `forms` | the vote form: three options, one group, every mode and limit up to 2, any stored ballot and guests | `StaysAcceptable`, `GuestsAsShown` hold |
| | the settings form: two tabs, saves that overlap, die or are refused, a row that closes, people who go, a day with a skipped hour | `GateSuffices`, `NotOpenedUnseen`, `RoundTrip`, `OpenPollsAreSound` hold |
| | the group table: two tabs, two groups that come and go | `OnlyTouchedAreSaved` holds |
| `voting` | two requests of a voter and the owner, options added and removed; two forms, one plain, one with groups, caps and modes | `FirstBallotStands`, `SeenVotesAreWarned`, `CustomKept`, `BallotWithinLimits` hold |
| `options` | two tabs, two groups, caps, repeated values, options of voters | `SaveIsFaithful`, `ListedIsKept`, `DestructiveIsExact` hold |
| `reminders` | two tiers, deadlines moved, late runs, expiring keys | `OncePerDeadline`, `NobodyUnreminded` hold |
| `identity` | three overlapping requests of every kind, two persons | `FlagFollowsGroup`, `SomeoneLeft`, `DeactivationHolds`, `MembersAsAsked` hold |

**Bounds.** Two of each actor are enough for every pairwise race; the code has no protocol in
which a third party takes part other than the periodic tasks, which are modelled beside the two.
Clocks run to the last moment anything can become due (`Deadlines`/`Starts` plus retention or
window), the retention and the window are 1 so that both sides of each boundary occur, and one
crash suffices as nothing recovers from the first. `mail` gives each call one retry where the
code gives three, since `MailPromise` is stated in the number of attempts and the theorems hold
for all of them; three calls on two workers leave one waiting. `invitations` has one registered
and one unknown user, because every step treats users one by one, and stops at behaviours that
`excuses` has taken out of both claims, where the write of an audience has failed, or where two
excuses have met. `voting` has one voter: no handler of the module relates two voters' ballots,
while two requests of one voter race for the same row; three options may be created, one of them
by the voter, so a value can be removed, added again, and added by the voter beside the owner's.
`MaxEdits` is 1 since a ballot let in before an edit is already the stalest kind. `options`
hands out three ids so that a renamed option gets a new row beside two others, or creates a
second group beside two options, not both at once (`Small`); the second tab, which may be
arbitrarily stale, is opened while there are at most two rows. `forms` has one form open in a
behaviour, as the three share no state. One person to invite is enough for an audience that is
empty or not, and the rest of an audience is written as a set; the one date is a day on which
the clocks change, and of its hours there are four: the one a date without an hour gets, the one
the page suggests, the one that is skipped and the one it becomes, so a date that comes back
without its hour or with another is noticed. A page is changed twice and saved three times, a
second tab alone or beside it (`Small`): while both are open there is one change and two saves,
which is what an overlap needs, and pages with dates or with the box cleared are saved once less
(`Plain`). The group table is saved twice and changed twice, once while both tabs are open.
`reminders` has one person, as calls and keys are per person; `MaxTime` lets both tiers of the
latest deadline pass, the clock outlives a key, and of edits, moves and failures two may happen
(three were run once and hold as well, at five times the length). A call waits at most `MaxWait`
after its run. `identity` has one group, since only the one that has the configured name
matters, and three requests of two families: with a superuser group, logins, SCIM on groups,
deletions and the command line; without one, everything but SCIM on groups. Its `Patches` are
every PATCH of up to two operations on one person or name, and five longer ones. Deadlock is not
checked: all polls end deleted, closed or out of bounds, and all models may stop there.
`StatusMoves` and `TasksCatchUp` are conjunctions of the two properties of the lifecycle that
one run checks together. The `mail` run uses no symmetry as it checks liveness; `lifecycle_live`
neither.

**Fairness.** `PollLifecycle!FairSpec` asks that a run of a closing or purging task that can
take a step eventually does: crontab starts them again every five minutes and every day. The
owner and crashes are not fair. `MailTasks!FairSpec` asks that a worker serves every task in the
queue eventually (the queue is first in, first out, hence strong fairness of `Start`), that the
scheduler moves a due retry, and that a task body goes on: the SMTP session has a timeout.
Sending successfully is not assumed: `EveryCallEnds` says that a call ends, not that it
succeeds.

**Findings.** All three violations are short traces through ordinary operation.
`lifecycle_reopened`: an edit page saved against a poll that another request activated and the
task closed makes it ACTIVE again, since the transition is checked against the loaded row.
`invite_lock`: a poll created ACTIVE with its start in the future has its lock claimed for seven
days, and the task that should invite skips it. `mail_retry`: after a failed SMTP session the
retry finds the key of its own first attempt, and the mail is never sent.

Four more places where the code differs from what the repository says of it have no run of their
own: the property that would show each of them states the difference as its exception.

- `services/poll.py` 411-415: `create_poll` claims the lock "so the deferred
  dispatch_pending_invitations_task [...] does not re-fire and produce duplicate invitations".
  It claims it after `set_poll_audience` has dispatched; the task between the two, or after a
  death between the two, invites everybody a second time ("unclaimed" of `InitialDispatchOnce`).
- `templates/polls/edit.html` 636: "You receive an email every time someone submits or updates a
  response." An update keeps the id of the response (`services/poll.py` 1136-1144) and the key
  of the mail is made of that id (`send_response_notification.py` 17), so within 30 days the
  mail about an update is dropped as a duplicate. In `MailTasks` that is the second call for one
  mail, which `MailPromise` lets go (`GiveUp`).
- `templates/polls/edit.html` 491 and 666 offer the boxes `allow_edit_responses` and
  `auto_delete`; cleared they send nothing, and `PollForm` (`forms.py` 102-103) takes True. So
  neither can be switched off on this page, and the page of a refused new poll comes back with
  both checked (lines 55, 57). `RoundTrip` claims of a box only that one that is checked stays
  so. An hour skipped by the clocks comes back as the next, in the same property.
- `routes.py` 733-736 and `polls-vote.js` 25 take stored guests into the vote form as they are,
  although `submit_response` will cut them to the limit in force (`stale` of `GuestsAsShown`).

**Hazards that are excused, not excluded.** A property with `excuses`, or with a hypothesis on
what has been seen, covers the undisturbed course and, where said so, the recovery after a
disturbance. It does not say that the disturbance does no harm; it does. Of the hazards in
PROJECT.json these are covered in that way only:

| where | what is excused |
|---|---|
| `services/poll.py` 596 | closing mails after a death, a failure or a raise between commit and dispatch (`lost`) |
| 410, 314, 406, 909, 932 | invitations after a creation ahead of the start, a lock claimed late, a dispatch between two transactions, overlapping edits, a start that is moved |
| 603 | the purge deletes what it has selected: an edit that postpones a deletion after that is not heeded, and no property forbids it |
| `routes.py` 426, 464 | two first ballots of one voter; a commit after a close or a change of rules |
| `services/poll.py` 1129 | a ballot that is stored under settings saved since it was judged |
| `routes.py` 274 | votes cast between the warning's check and the deletion |
| `services/poll.py` 626 | two options of the same value |
| 437 | an open poll without an audience after overlap, death or cascade, until it is saved again |
| `routes.py` 782, `polls-vote.js` 71 | cleared boxes, skipped hours; stale guests |
| `send_mandatory_reminder.py` 25 | a key claimed for an earlier deadline |
| `services/group.py` 219, `scim/routes.py` 353, `services/user.py` 250 | the flag after overlapping syncs, a death before the sync, a login's old claim, until the next sync |
| `admin/routes.py` 60 | two administrators who demote each other |
| `services/scim.py` 224, `services/group.py` 238 | a PATCH that replaces the list after other operations, or adds whom it has removed (`Tangled`); two overlapping PUTs |

Some statements about neighbouring behaviour are narrower than the documentation, and
deliberately so. `SeenVotesAreWarned` covers the votes that were there when the form was
checked, since a vote cast between the check and the commit is lost without a warning.
`FirstBallotStands` lets a request that saw no ballot replace one, since two first submits of a
voter overlap. `DestructiveIsExact` assumes that no two options have the same value, since the
deletion of one of two equal options gives no warning. `NobodyUnreminded` and `FlagFollowsGroup`
have the exceptions given with their modules. `Allowed` differs from `docs/ARCHITECTURE.md` 269,
which would let everybody who can vote also update: the route refuses that when
`allow_edit_responses` is off, and `FirstBallotStands` fails with the documented rule (its
mutant).

## Proofs

TLAPS checks these for every value of the constants that the ASSUMEs of the modules admit:
finite or infinite sets of requests, tasks, persons and tabs; any retention, retries, windows,
limits. Every invariant and every action property that a passing run checks is stated by a
theorem, with one restriction (`ImplementsPromise`, below).

An invariant of a run is seldom kept by a step on its own account: it speaks of what is stored,
and what will be stored is in the hands of requests. Each module therefore has a stronger
invariant that also says what those under way hold, and how stale that may be.

- `PollLifecycleProofs`. Type correctness comes first, and the other invariants build on it.
  `NeverBackHolds` and `ReopenedOnlyByStaleDraftHolds`, together `StatusMovesHolds`, rest on the
  relation between what a request loaded and what the row can have become since: statuses only
  move forward except by the stale draft, so a request that loaded a poll past DRAFT can never
  write DRAFT. `OneCloserPerClosingHolds` needs that a closer past its SELECT holds the row lock
  and that closings are numbered beyond all those announced. `NeverPurgedEarlyHolds` relates
  `auto_delete_at`, in the row and in every loaded copy, to `firstClosed`: a timestamp can only
  have been computed for a CLOSED poll. `ClosedIsAnnouncedHolds` follows the obligation to
  announce from the commit to the dispatch. `SerialImplementsPromise` maps every step of
  `PollLifecycle` to a step or stutter of `PollPromise`, under the hypothesis that there is one
  request at a time, which is that of the run `lifecycle_live`; without it the refinement does
  not hold (`lifecycle_reopened`).
- `MailTasksProofs`. `AtMostOnceHolds` needs as an invariant (`KeyInv`) that at most one call is
  beyond the key of a locked mail and has not sent yet, and that a mail that was sent since its
  last key expired has its key taken; an expiry finds nobody beyond the key.
  `RetriesDeliverHolds` needs that a mail that a call finished sending was taken by the server.
  `ImplementsMailPromiseHolds` is the refinement, in full: each action of a task is a step of
  `MailPromise` under the mapping `Owed`, or none; besides `AtMostOnce`'s invariant it needs
  that a call nobody has made has all its retries (`UnusedInv`).
- `InvitationsProofs`. `BegunInv`: nobody is invited, or about to be, while the poll is a DRAFT;
  from it `DraftsAreSilent`. `TimeInv` bounds the age of a request and of a run of the task by
  the time between two runs. `OnceInv` says why a second dispatch cannot come through. While a
  creation is under way nobody has claimed the lock or is about to dispatch, and it dispatches
  itself at most once, for a poll that has started (`Creation`). As soon as none is (`Settled`)
  and there was a dispatch, or one is about to be, the lock outlasts the window of the task and
  every edit that still believes the poll to be a DRAFT (`LockLasts`); the step that gets there
  is the claim at the end of a creation (`CreationStep`, `LockStep`), and this is where `LockTTL
  > Window + 1` is used. `DispatchedOnce` follows. `CoverInv` is the one behind
  `NobodyForgottenHolds`: as long as nothing is to be excused, everyone in the audience is
  invited or somebody is on the way (`Coming`: a dispatch that will find the lock free, or a
  request that holds the old audience and will invite who is new), one request at a time is past
  its commit, and what it holds is what the tables say.
- `VotingProofs`. `IInv` adds to the rows what every request has loaded: a vote's mode and limit
  are those of the poll as long as no form was saved since (`VoteInv`), the owner's form finds
  the row as loaded but for a close, and unless it was confirmed it lists every option with a
  vote it has seen (`EditInv`). From it follow `FirstBallotStandsHolds` and
  `SeenVotesAreWarnedHolds`. `StoredInv` says of a ballot that it keeps the rules it was let in
  by as long as no form was saved since, from which `BallotWithinLimitsHolds`. Both need that a
  new option has an id nobody has voted for: the ids of a label are numbered without gaps
  (`Numbered`), `NextCopy` counts them, and an option that comes back does so under the next
  one. `CustomKeptHolds` goes over what a save keeps.
- `RemindersProofs`. `OnceInv` says what a key stands for while it lasts: the call that claimed
  it, alone, has not sent a mail for a deadline that is still ahead, and a mail that was sent
  leaves the key until its deadline is over. `OncePerDeadlineHolds` is then the arithmetic of
  leads, slack and lifetimes. `RemindInv` says what a run leaves behind in a window that nothing
  has interfered with: each run that is through has reminded everyone there is to remind, and a
  key claimed in the window belongs to a mail about this deadline; `NobodyUnremindedHolds`
  applies it to the run that the window must contain.
- `IdentityProofs`. `TypeInv` and `LockInv` (nobody deletes a row that another transaction has
  written) come first. `DeactivationStands` goes over the writers of `is_active`, with what each
  has seen. `SomeoneIsLeft` needs `ChargeInv`: an administrator about to demote another is in
  charge himself and remains so, unless the two are crossed. `FlagFollows` needs `SyncInv`: a
  derivation nobody interfered with has granted and revoked what the group still says
  (`Consistent`), and without anything to excuse there is one at most, or none and the flags are
  right. `PatchesAreFaithful` needs `ClearedInv`, that a change of the group that is still alone
  has deleted the memberships there are now, and `UntangledMeaning`, which relates one
  replacement, addition and removal to any number of operations one after the other. The latter
  would be an induction over the operations; it is proved by a least counterexample instead
  (`MinExists`), and so is that the recursive function in `Meaning` exists (`RunExists`).
- `OptionSyncProofs`. `SyncInv` gives rows distinct orders, voters' options no group, and every
  page groups its options can refer to. The other theorems are about one `Save`.
  `SaveIsFaithfulHolds` is the longest argument: the server numbers the options by place, the
  page is rendered by the rank of these numbers, and the n-th of a finite set of ranks exists
  and is unique because a smaller set has a smaller cardinality (`Fewer`, `Ranks`, `NthIs`); so
  the page shows the rows in the order, with the values and groups, in which they were sent.
  `ListedIsKeptHolds` and `DestructiveIsExactHolds` use that with distinct values a row has one
  candidate on the page.
- `FormsProofs`, the three forms of the run `forms`. *Vote form*: `StaysAcceptableHolds` rests
  on lemmas about cardinalities: a click changes the set of YES votes, in total and in one
  group, by at most one element, and only into a group and a total with room.
  `GuestsAsShownHolds` needs `GuestInv`, that an option without a YES has no number a later
  click could bring back, and that a number neither stale nor being typed is within the limits.
  *Settings form*: `EditInv` has three parts besides the types. `PageInv`: no page shows a
  public poll with the checkbox on, which `Settle` restores after every change; a row that was
  past DRAFT when a page was made is so still; one page at most is of a new poll. `RequestInv`:
  while a form is under way its tab stands still, so the form is that of the page (`Carries`),
  and what was past DRAFT on the page is so in the row loaded, and what was there is so in the
  database. `SyncInv`: unless disturbed, the row of a request that has committed is what its
  form says, parsed (`AsSent`), and once the audience is written so is the audience (`Finds`).
  `GateSufficesHolds` follows from the first two, `NotOpenedUnseenHolds` from the second with
  the lemma that a row which was loaded past DRAFT stays past it, `RoundTripHolds` from the
  last: the page is made again from settings that say what the page said, up to its two
  exceptions (`Says`, `ShownAgain`), be they the form's or those `Parsed` has made of it.
  `OpenPollsAreSoundHolds` has an invariant of its own, `SoundInv`: while there is nothing to
  excuse, the row is as the one request past its commit has written it, but for a close, and
  whoever has only loaded it still holds it. *Group table*: `GroupInv`, that a line nobody
  touched agrees with the row it was loaded from, unless the tab was overtaken. `FormsAreParts`
  shows that the composed specification implements each of the three, and `TypesCorrect` and
  `TablesSaveTouched` state the run's properties of the composition.

Assumptions on constants that are not bounds of the model: the two writers of accounts that are
no persons, `"cli"` and `"scim"`, are none (`IdentityAssumption`); the lock on an invitation
outlives window and run (seven days against an hour in the code, `InvitationsAssumption`);
windows, leads and slack are ordered as in `dispatch_mandatory_reminders.py`
(`ReminderAssumption`). `MaxOptions <= MaxIds` (`SyncAssumption`) and `Copies`
(`VotingAssumption`) only say that the bounds leave room for the initial states.

Not proved: liveness under fairness (`TasksCatchUp`, `EveryCallEnds`), which this prover does
not reach and TLC checks; and `ImplementsPromise` for overlapping requests, which is false. What
`SeqOf` and the symmetry sets of the MC modules enumerate is TLC's only.

## Plan

1. An abstract ballot box that `Voting` implements: one ballot per voter, let in under the
   settings it is stamped with, of which only options disappear.
2. Several polls in one run of the closing task, one of which disappears.
3. The safety half of `PollPromise` for overlapping requests: which of its steps remain once the
   stale draft is among them, as a weaker specification that both refine.

## Not modelled

Lists, search, dashboards and results are queries: they change nothing. Templates, mail layout
and formatting are not about order or state; of time zones the hour that is skipped is modelled
(`EditForm`), since it does not come back as it was entered. Avatars are fetched and stored, the
last writer wins. Of the JavaScript, `struudel.js` sets the CSRF header, starts Alpine on
swapped parts of a page and asks before a form is sent, `auth-login.js` shows a spinner, and the
help texts of the forms (`saveBlockedReason`, the summary of the groups in `voteEditor`) only
say what the modelled state implies; none of them keeps state that anything else reads.
`src/css/daisyui.mjs` and `daisyui-theme.mjs` are the vendored bundle of a CSS framework: most
of the repository's JavaScript by lines, and none of the program's logic, so the share of the
JavaScript that the modules stand for stays small although the forms' own scripts are covered. A
new poll that is submitted twice makes two polls, and a poll may be deleted while its page is
open; `EditForm` follows one poll that stays. CSRF, configuration and health checks are wiring.
Of accounts, the attributes that only describe a person are left out, and with them the
conflicts of unique columns; sessions end with the row they name. Migrations run while the
service is down. Whether a voter may see a poll is a query as well; all voters of `Voting` may.
Elsewhere dates as such are left to the tests: clocks count days or runs of a task. Comments on
a ballot are replaced with it and nothing depends on them.
