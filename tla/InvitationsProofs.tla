-------------------------- MODULE InvitationsProofs --------------------------
(***************************************************************************)
(* Theorems about Invitations, for any number of requests and users, any    *)
(* times to start at, window and lifetime of the lock.  OnceInv says why a  *)
(* second dispatch comes too early for the lock or too late for the task;   *)
(* CoverInv who is on the way to invite those who are not invited yet.      *)
(***************************************************************************)
EXTENDS Invitations, TLAPS

-----------------------------------------------------------------------------
(* The invariant. *)

\* The poll is, or has been, more than a draft; it stays so.
Begun == poll.status \notin {"DRAFT", Absent}

\* A request whose row is committed.
UnderWay(r) == req[r].pc \notin {"idle", "loaded"}

\* An edit that has moved a draft to ACTIVE, before it asks for the lock.
Activates(r) ==
    \/ req[r].pc = "committed" /\ ~req[r].creates /\ req[r].loaded.status = "DRAFT"
    \/ req[r].pc \in {"audience", "activate"} /\ req[r].activates

\* A request that is to invite the whole audience is under way for a poll that has begun.
RequestBegun(r) ==
    /\ req[r].pc = "loaded" => /\ ~req[r].creates /\ req[r].loaded.status \in Live
                               /\ req[r].loaded.status # "DRAFT" => Begun
    /\ req[r].pc = "audience" /\ req[r].activates => Begun
    /\ req[r].pc \in {"activate", "enqueue", "claim"} => Begun
    /\ req[r].pc = "activate" => req[r].activates
    /\ req[r].pc = "claim" => req[r].creates

\* Nobody is invited, or about to be, before.
BegunInv ==
    /\ poll.status = Absent => audience = {} /\ \A r \in Requests : req[r].pc = "idle"
    /\ lock > 0 \/ task # "idle" \/ invited # {} \/ initials > 0 => Begun
    /\ \A r \in Requests : RequestBegun(r)

\* A request and a run take less than the time between two runs; the worker comes back
\* within the window.
TimeInv ==
    /\ lastScan <= now /\ now <= lastScan + Window
    /\ task # "idle" => now - 1 <= lastScan
    /\ \A r \in Requests : req[r].pc # "idle" => req[r].since <= now /\ now - 1 <= req[r].since

\* An edit that has activated the poll, or still may.
MayActivate(r) ==
    \/ Activates(r)
    \/ req[r].pc = "loaded" /\ req[r].loaded.status = "DRAFT"

Enqueuing(r) == req[r].pc = "enqueue"

Dispatched == initials > 0 \/ task = "claimed" \/ \E r \in Requests : Enqueuing(r)

\* A run of the task is about a start that it can look back to.
Scanned ==
    task # "idle" => /\ poll.startsAt # NoTime /\ poll.startsAt <= lastScan
                     /\ lastScan <= poll.startsAt + Window

\* No create_poll is under way.
Settled == \A r \in Requests : ~Creating(r)

\* While one is, nobody else dispatches, and it does so itself just before it claims the lock.
Creation ==
    \A r \in Requests : Creating(r) =>
        /\ req[r].pc \in {"committed", "audience", "invite", "claim"}
        /\ req[r].pc = "audience" => ~req[r].activates
        /\ lock = 0 /\ task # "claimed" /\ \A q \in Requests : ~Enqueuing(q)
        /\ req[r].pc # "claim" => initials = 0
        /\ initials > 0 /\ poll.startsAt # NoTime => poll.startsAt <= now
        /\ \A q \in Requests : Creating(q) => q = r

\* Once there is a dispatch to everyone, or one is about to be, the lock outlasts the
\* window of the task and every edit that loaded the poll as a draft.
LockLasts ==
    Dispatched /\ Settled =>
        /\ poll.startsAt # NoTime => poll.startsAt + Window + 1 < lock
        /\ \A r \in Requests : MayActivate(r) => req[r].since + 1 < lock

\* What has been dispatched and what is about to be is one dispatch.
AtMostOne ==
    /\ initials <= 1
    /\ initials = 1 => task # "claimed" /\ \A r \in Requests : ~Enqueuing(r)
    /\ task = "claimed" => \A r \in Requests : ~Enqueuing(r)
    /\ \A r, s \in Requests : Enqueuing(r) /\ Enqueuing(s) => r = s

OnceInv ==
    /\ "rescheduled" \notin excuses => Scanned
    /\ excuses \cap {"rescheduled", "unclaimed"} = {} => LockLasts /\ AtMostOne /\ Creation

\* Who is on the way to invite u.  Whoever has to claim the lock will find it free.
Coming(u) ==
    \/ task = "claimed"
    \/ lock = 0 /\ (task = "selected" \/ poll.startsAt > lastScan)
    \/ \E r \in Requests : \/ lock = 0 /\ Activates(r)
                           \/ Enqueuing(r) /\ u \in req[r].old
                           \/ req[r].pc = "invite" /\ u \notin req[r].old

\* There is nothing to excuse a missing invitation.
Clean == excuses \subseteq {"unclaimed"}

\* The poll is open, too.
Calm == Clean /\ poll.status = "ACTIVE"

\* Then one request at a time has committed its row.
OneUnderWay == \A r, s \in Requests : UnderWay(r) /\ UnderWay(s) => r = s

\* What it holds is what it has read, and the people are of a poll that it is to invite to.
Holding(r) ==
    /\ req[r].pc = "audience" => req[r].old = audience /\ req[r].removed = audience
    /\ req[r].creates /\ req[r].pc = "committed" => audience = {}
    /\ req[r].creates /\ req[r].pc \in {"audience", "invite"} => req[r].old = {}
    /\ req[r].pc = "claim" => ~Ahead /\ \A u \in audience : Invited(u)
    /\ req[r].pc \in {"committed", "audience"} /\ Activates(r) /\ lock > 0 => task = "claimed"

\* Everyone in the audience is invited, or about to be.
Covered == \A u \in audience : Invited(u) \/ Coming(u)

\* The lock is for a poll that has started.
LockIsLate == lock > 0 => ~Ahead

CoverInv == Calm => OneUnderWay /\ LockIsLate /\ Covered /\ \A r \in Requests : Holding(r)

-----------------------------------------------------------------------------
(* Types. *)

LEMMA RowsAre ==
    /\ NoRow \in Row /\ Idle \in Request
    /\ Live \subseteq {"DRAFT", "ACTIVE", "CLOSED"} /\ Gone \notin Live /\ Absent \notin Live
<1>1. 0 \in 0 .. MaxTime
  BY InvitationsAssumption DEF InvitationsAssumption
<1>2. NoRow \in Row
  BY DEF NoRow, Row
<1>3. Idle \in Request
  BY <1>1, <1>2 DEF Idle, Request, Steps
<1>4. QED
  BY <1>2, <1>3 DEF Live, Gone, Absent

LEMMA InitType == Init => TypeOK
BY RowsAre, InvitationsAssumption DEF Init, TypeOK, InvitationsAssumption

\* A request that goes on and touches nothing that is shared.
LEMMA ReadType ==
    ASSUME TypeOK, NEW r \in Requests, NEW x \in Request, req' = [req EXCEPT ![r] = x],
           UNCHANGED <<poll, audience, now, task, lastScan, crashes>>,
           lock' \in Nat, initials' \in Nat,
           invited' \subseteq {"created", "added", "activation", "started"} \X Users,
           excuses' \subseteq excuses \cup {"failed", "created ahead", "unclaimed"}
    PROVE  TypeOK'
BY DEF TypeOK

LEMMA EditType ==
    ASSUME TypeOK, NEW r \in Requests, NEW status \in Live, NEW startsAt \in Starts \cup {NoTime},
           NEW restricted \in Restrictions, NEW users \in SUBSET Users
    PROVE  /\ Create(r, status, startsAt, restricted, users) => TypeOK'
           /\ EditCommit(r, status, startsAt, restricted, users) => TypeOK'
<1>a. restricted \in BOOLEAN /\ req \in [Requests -> Request] /\ now \in 0 .. MaxTime /\ poll \in Row
  BY InvitationsAssumption DEF InvitationsAssumption, TypeOK
<1>1. ASSUME Create(r, status, startsAt, restricted, users) PROVE TypeOK'
  <2>1. poll' \in Row
    BY <1>1, <1>a DEF Create, Row
  <2> DEFINE x == [Idle EXCEPT !.pc = "committed", !.users = users,
                               !.creates = TRUE, !.since = now]
  <2>2. x \in Request
    BY <1>a, RowsAre DEF Request, Steps
  <2>3. req' = req \/ req' = [req EXCEPT ![r] = x]
    BY <1>1 DEF Create
  <2> HIDE DEF x
  <2>4. req' \in [Requests -> Request]
    BY <1>a, <2>2, <2>3
  <2>5. QED
    BY <1>1, <2>1, <2>4 DEF Create, TypeOK
<1>2. ASSUME EditCommit(r, status, startsAt, restricted, users) PROVE TypeOK'
  <2>1. req[r] \in Request
    BY <1>a
  <2>2. poll' \in Row
    BY <1>2, <1>a, <2>1 DEF EditCommit, WriteBack, Row
  <2> DEFINE x == [req[r] EXCEPT !.pc = "committed", !.users = users,
                                 !.loaded = [NoRow EXCEPT !.status = req[r].loaded.status]]
  <2>3. [NoRow EXCEPT !.status = req[r].loaded.status] \in Row
    BY <2>1, RowsAre DEF Row, Request
  <2>4. x \in Request
    BY <2>1, <2>3 DEF Request, Steps
  <2>5. req' = [req EXCEPT ![r] = x]
    BY <1>2, <1>a DEF EditCommit
  <2> HIDE DEF x
  <2>6. req' \in [Requests -> Request]
    BY <1>a, <2>4, <2>5
  <2>7. QED
    BY <1>2, <2>2, <2>6 DEF EditCommit, TypeOK
<1>3. QED
  BY <1>1, <1>2

LEMMA RequestStepType ==
    ASSUME TypeOK, NEW r \in Requests
    PROVE  /\ EditLoad(r) \/ EditReject(r) => TypeOK'
           /\ AudienceBegin(r) \/ AudienceCommit(r) \/ AudienceFail(r) => TypeOK'
           /\ InviteAdded(r) \/ ClaimAfterCreate(r) => TypeOK'
           /\ ActivateClaim(r) \/ ActivateSkip(r) \/ ActivateEnqueue(r) => TypeOK'
<1>a. /\ req \in [Requests -> Request] /\ now \in 0 .. MaxTime /\ poll \in Row /\ lock \in Nat
      /\ audience \subseteq Registered /\ audience \subseteq Users /\ initials \in Nat /\ req[r] \in Request
      /\ invited \subseteq {"created", "added", "activation", "started"} \X Users
  BY InvitationsAssumption DEF InvitationsAssumption, TypeOK
<1>b. LockTTL \in Nat /\ now + LockTTL \in Nat
  BY <1>a, InvitationsAssumption DEF InvitationsAssumption
<1>1. CASE EditLoad(r)
  <2> DEFINE x == [Idle EXCEPT !.pc = "loaded", !.loaded = poll, !.since = now]
  <2>1. x \in Request
    BY <1>a, RowsAre DEF Request, Steps
  <2>2. req' = [req EXCEPT ![r] = x]
    BY <1>1 DEF EditLoad
  <2> HIDE DEF x
  <2>3. QED
    BY <1>1, <1>a, <2>1, <2>2, ReadType DEF EditLoad
<1>2. CASE EditReject(r) \/ AudienceFail(r) \/ ActivateSkip(r)
  BY <1>2, <1>a, RowsAre, ReadType DEF EditReject, AudienceFail, ActivateSkip, Done
<1>3. CASE AudienceBegin(r)
  <2> DEFINE x == [req[r] EXCEPT !.pc = "audience", !.old = audience, !.removed = audience,
                      !.loaded = NoRow,
                      !.activates = /\ ~req[r].creates
                                    /\ req[r].loaded.status = "DRAFT"
                                    /\ poll.status = "ACTIVE"]
  <2>1. x \in Request
    BY <1>a, RowsAre DEF Request, Steps
  <2>2. req' = [req EXCEPT ![r] = x]
    BY <1>3, <1>a DEF AudienceBegin
  <2> HIDE DEF x
  <2>3. QED
    BY <1>3, <1>a, <2>1, <2>2, ReadType DEF AudienceBegin
<1>4. CASE AudienceCommit(r)
  <2> DEFINE x == [req[r] EXCEPT !.pc = IF req[r].activates THEN "activate" ELSE "invite",
                                 !.users = {}, !.removed = {}]
  <2>1. x \in Request
    <3>1. (IF req[r].activates THEN "activate" ELSE "invite") \in Steps
      BY DEF Steps
    <3>2. QED
      BY <1>a, <3>1 DEF Request
  <2>2. \A s \in Requests : [req[s] EXCEPT !.removed = {}] \in Request
    BY <1>a DEF Request
  <2>3. req' = [s \in Requests |-> IF s = r THEN x ELSE [req[s] EXCEPT !.removed = {}]]
    BY <1>4 DEF AudienceCommit
  <2> HIDE DEF x
  <2>4. req' \in [Requests -> Request]
    BY <2>1, <2>2, <2>3
  <2>5. audience' \subseteq Registered
    BY <1>4, <1>a DEF AudienceCommit, Survivors, Inserted
  <2>6. QED
    BY <1>4, <2>4, <2>5 DEF AudienceCommit, TypeOK
<1>5. CASE InviteAdded(r)
  <2>1. AfterInviting(r) \in Request
    BY <1>a, RowsAre DEF AfterInviting, Request, Steps
  <2>2. invited' \subseteq {"created", "added", "activation", "started"} \X Users
    BY <1>5, <1>a DEF InviteAdded, Enqueue
  <2>3. initials' \in Nat
    <3>1. initials' = initials \/ initials' = initials + 1
      BY <1>5 DEF InviteAdded
    <3>2. QED
      BY <1>a, <3>1
  <2>4. QED
    BY <1>5, <1>a, <2>1, <2>2, <2>3, ReadType DEF InviteAdded
<1>6. CASE ClaimAfterCreate(r)
  <2>1. lock' \in Nat
    BY <1>6, <1>a, <1>b DEF ClaimAfterCreate, ClaimLock
  <2>2. QED
    BY <1>6, <1>a, <2>1, RowsAre, ReadType DEF ClaimAfterCreate, Done
<1>7. CASE ActivateClaim(r)
  <2> DEFINE x == [req[r] EXCEPT !.pc = "enqueue", !.old = audience]
  <2>1. x \in Request
    BY <1>a DEF Request, Steps
  <2>2. req' = [req EXCEPT ![r] = x] /\ lock' \in Nat
    BY <1>7, <1>a, <1>b DEF ActivateClaim, ClaimLock
  <2> HIDE DEF x
  <2>3. excuses' \subseteq excuses \cup {"unclaimed"}
    BY <1>7 DEF ActivateClaim, ClaimsFirst
  <2>4. QED
    BY <1>7, <1>a, <2>1, <2>2, <2>3, ReadType DEF ActivateClaim
<1>8. CASE ActivateEnqueue(r)
  <2>1. req[r].old \subseteq Users
    BY <1>a DEF Request
  <2>2. invited' \subseteq {"created", "added", "activation", "started"} \X Users
    BY <1>8, <1>a, <2>1 DEF ActivateEnqueue, Enqueue
  <2>3. initials' \in Nat
    BY <1>8, <1>a DEF ActivateEnqueue
  <2>4. QED
    BY <1>8, <1>a, <2>2, <2>3, RowsAre, ReadType DEF ActivateEnqueue, Done
<1>9. QED
  BY <1>1, <1>2, <1>3, <1>4, <1>5, <1>6, <1>7, <1>8

LEMMA TypeStep ==
    ASSUME TypeOK, [Next]_vars
    PROVE  TypeOK'
<1>a. /\ now \in 0 .. MaxTime /\ lock \in Nat /\ initials \in Nat /\ poll \in Row
      /\ LockTTL \in Nat /\ MaxTime \in Nat /\ MaxCrashes \in Nat /\ crashes \in 0 .. MaxCrashes
      /\ invited \subseteq {"created", "added", "activation", "started"} \X Users
      /\ audience \subseteq Users /\ req \in [Requests -> Request]
  BY InvitationsAssumption DEF InvitationsAssumption, TypeOK
<1>1. CASE UNCHANGED vars
  BY <1>1 DEF vars, TypeOK
<1>2. ASSUME NEW r \in Requests, RequestStep(r) PROVE TypeOK'
  BY <1>2, EditType, RequestStepType DEF RequestStep
<1>3. CASE Scan
  BY <1>3 DEF Scan, TypeOK
<1>4. CASE TaskClaim
  <2>1. now + LockTTL \in Nat
    BY <1>a
  <2>2. excuses' = excuses \/ excuses' \subseteq excuses \cup {"unclaimed"}
    BY <1>4 DEF TaskClaim, ClaimsFirst
  <2>3. QED
    BY <1>4, <2>1, <2>2 DEF TaskClaim, ClaimLock, TypeOK
<1>5. CASE TaskEnqueue
  <2>1. invited' \subseteq {"created", "added", "activation", "started"} \X Users
    BY <1>5, <1>a DEF TaskEnqueue, Enqueue
  <2>2. initials' \in Nat
    <3>1. initials' = initials \/ initials' = initials + 1
      BY <1>5 DEF TaskEnqueue
    <3>2. QED
      BY <1>a, <3>1
  <2>3. QED
    BY <1>5, <2>1, <2>2 DEF TaskEnqueue, TypeOK
<1>6. CASE ClosePoll \/ DeletePoll
  <2>1. poll' \in Row
    BY <1>6, <1>a DEF ClosePoll, DeletePoll, Row, Live
  <2>2. QED
    BY <1>6, <2>1 DEF ClosePoll, DeletePoll, TypeOK
<1>7. CASE Crash
  <2>1. crashes' \in 0 .. MaxCrashes
    BY <1>7, <1>a DEF Crash
  <2>2. req' \in [Requests -> Request] /\ task' \in {"idle", "selected", "claimed"}
    BY <1>7, <1>a, RowsAre DEF Crash, Done, TypeOK
  <2>3. QED
    BY <1>7, <2>1, <2>2 DEF Crash, TypeOK
<1>8. CASE Tick
  <2>1. now' \in 0 .. MaxTime
    BY <1>8, <1>a DEF Tick
  <2>2. QED
    BY <1>8, <2>1 DEF Tick, TypeOK
<1>9. QED
  BY <1>1, <1>2, <1>3, <1>4, <1>5, <1>6, <1>7, <1>8 DEF Next

\* The row, the audience, the lock, every request and every invitation are of their
\* types.
THEOREM TypeCorrect == Spec => []TypeOK
BY InitType, TypeStep, PTL DEF Spec

-----------------------------------------------------------------------------
(* What a step of one request does to it and to the others. *)

\* The others keep what they hold.
Same(q) ==
    /\ req'[q].pc = req[q].pc /\ req'[q].loaded = req[q].loaded /\ req'[q].old = req[q].old
    /\ req'[q].creates = req[q].creates /\ req'[q].activates = req[q].activates
    /\ req'[q].since = req[q].since

Others(r) == \A q \in Requests \ {r} : Same(q)

\* And what was removed, unless an audience has been committed.
OthersRemoved(r) == \A q \in Requests \ {r} : req'[q].removed = req[q].removed

\* The request of an edit, and of what follows the commit of its row.
LEMMA EditIs ==
    ASSUME TypeOK, NEW r \in Requests
    PROVE  /\ \A status, startsAt, restricted, users :
                 Create(r, status, startsAt, restricted, users) =>
                    /\ Others(r) /\ OthersRemoved(r)
                    /\ \/ req' = req
                       \/ req'[r].pc = "committed" /\ req'[r].creates /\ req'[r].since = now
           /\ EditLoad(r) => /\ Others(r) /\ OthersRemoved(r)
                             /\ req'[r].pc = "loaded" /\ req'[r].loaded = poll
                             /\ ~req'[r].creates /\ req'[r].since = now
           /\ \A status, startsAt, restricted, users :
                 EditCommit(r, status, startsAt, restricted, users) =>
                    /\ Others(r) /\ OthersRemoved(r)
                    /\ req'[r].pc = "committed" /\ req'[r].loaded.status = req[r].loaded.status
                    /\ req'[r].creates = req[r].creates /\ req'[r].since = req[r].since
<1>a. req \in [Requests -> Request] /\ req[r] \in Request
  BY DEF TypeOK
<1>1. ASSUME NEW status, NEW startsAt, NEW restricted, NEW users,
             Create(r, status, startsAt, restricted, users)
      PROVE  /\ Others(r) /\ OthersRemoved(r)
             /\ \/ req' = req
                \/ req'[r].pc = "committed" /\ req'[r].creates /\ req'[r].since = now
  <2> DEFINE x == [Idle EXCEPT !.pc = "committed", !.users = users,
                               !.creates = TRUE, !.since = now]
  <2>1. req' = req \/ req' = [req EXCEPT ![r] = x]
    BY <1>1 DEF Create
  <2>2. x.pc = "committed" /\ x.creates /\ x.since = now
    BY DEF Idle
  <2> HIDE DEF x
  <2>3. QED
    BY <1>a, <2>1, <2>2 DEF Others, OthersRemoved, Same
<1>2. ASSUME EditLoad(r)
      PROVE  /\ Others(r) /\ OthersRemoved(r)
             /\ req'[r].pc = "loaded" /\ req'[r].loaded = poll
             /\ ~req'[r].creates /\ req'[r].since = now
  <2> DEFINE x == [Idle EXCEPT !.pc = "loaded", !.loaded = poll, !.since = now]
  <2>1. req' = [req EXCEPT ![r] = x]
    BY <1>2 DEF EditLoad
  <2>2. x.pc = "loaded" /\ x.loaded = poll /\ ~x.creates /\ x.since = now
    BY DEF Idle
  <2> HIDE DEF x
  <2>3. QED
    BY <1>a, <2>1, <2>2 DEF Others, OthersRemoved, Same
<1>3. ASSUME NEW status, NEW startsAt, NEW restricted, NEW users,
             EditCommit(r, status, startsAt, restricted, users)
      PROVE  /\ Others(r) /\ OthersRemoved(r)
             /\ req'[r].pc = "committed" /\ req'[r].loaded.status = req[r].loaded.status
             /\ req'[r].creates = req[r].creates /\ req'[r].since = req[r].since
  <2> DEFINE l == [NoRow EXCEPT !.status = req[r].loaded.status]
             x == [req[r] EXCEPT !.pc = "committed", !.users = users, !.loaded = l]
  <2>1. req' = [req EXCEPT ![r] = x]
    BY <1>3, <1>a DEF EditCommit
  <2>2. l.status = req[r].loaded.status
    BY DEF NoRow
  <2> HIDE DEF l
  <2>3. x.pc = "committed" /\ x.loaded = l /\ x.creates = req[r].creates /\ x.since = req[r].since
    BY <1>a DEF Request
  <2> HIDE DEF x
  <2>4. QED
    BY <1>a, <2>1, <2>2, <2>3 DEF Others, OthersRemoved, Same
<1>4. QED
  BY <1>1, <1>2, <1>3

LEMMA AudienceIs ==
    ASSUME TypeOK, NEW r \in Requests
    PROVE  /\ AudienceBegin(r) =>
                 /\ Others(r) /\ OthersRemoved(r)
                 /\ req'[r].pc = "audience" /\ req'[r].old = audience /\ req'[r].removed = audience
                 /\ req'[r].creates = req[r].creates /\ req'[r].since = req[r].since
                 /\ req'[r].activates <=> /\ ~req[r].creates /\ req[r].loaded.status = "DRAFT"
                                          /\ poll.status = "ACTIVE"
           /\ AudienceCommit(r) =>
                 /\ Others(r)
                 /\ req'[r].pc = IF req[r].activates THEN "activate" ELSE "invite"
                 /\ req'[r].old = req[r].old /\ req'[r].creates = req[r].creates
                 /\ req'[r].activates = req[r].activates /\ req'[r].since = req[r].since
<1>a. req \in [Requests -> Request] /\ req[r] \in Request
  BY DEF TypeOK
<1>1. ASSUME AudienceBegin(r)
      PROVE  /\ Others(r) /\ OthersRemoved(r)
             /\ req'[r].pc = "audience" /\ req'[r].old = audience /\ req'[r].removed = audience
             /\ req'[r].creates = req[r].creates /\ req'[r].since = req[r].since
             /\ req'[r].activates <=> /\ ~req[r].creates /\ req[r].loaded.status = "DRAFT"
                                      /\ poll.status = "ACTIVE"
  <2> DEFINE b == ~req[r].creates /\ req[r].loaded.status = "DRAFT" /\ poll.status = "ACTIVE"
             x == [req[r] EXCEPT !.pc = "audience", !.old = audience, !.removed = audience,
                                 !.loaded = NoRow, !.activates = b]
  <2>1. req' = [req EXCEPT ![r] = x]
    BY <1>1, <1>a DEF AudienceBegin
  <2> HIDE DEF b
  <2>2. /\ x.pc = "audience" /\ x.old = audience /\ x.removed = audience /\ x.activates = b
        /\ x.creates = req[r].creates /\ x.since = req[r].since
    BY <1>a DEF Request
  <2> HIDE DEF x
  <2>3. /\ Others(r) /\ OthersRemoved(r)
        /\ req'[r].pc = "audience" /\ req'[r].old = audience /\ req'[r].removed = audience
        /\ req'[r].creates = req[r].creates /\ req'[r].since = req[r].since
        /\ req'[r].activates = b
    BY <1>a, <2>1, <2>2 DEF Others, OthersRemoved, Same
  <2>4. QED
    BY <2>3 DEF b
<1>2. ASSUME AudienceCommit(r)
      PROVE  /\ Others(r)
             /\ req'[r].pc = IF req[r].activates THEN "activate" ELSE "invite"
             /\ req'[r].old = req[r].old /\ req'[r].creates = req[r].creates
             /\ req'[r].activates = req[r].activates /\ req'[r].since = req[r].since
  <2>1. /\ req'[r] = [req[r] EXCEPT !.pc = IF req[r].activates THEN "activate" ELSE "invite",
                                    !.users = {}, !.removed = {}]
        /\ \A s \in Requests \ {r} : req'[s] = [req[s] EXCEPT !.removed = {}]
    BY <1>2 DEF AudienceCommit
  <2>2. ASSUME NEW s \in Requests \ {r} PROVE Same(s)
    <3>1. req[s] \in Request /\ req'[s] = [req[s] EXCEPT !.removed = {}]
      BY <1>a, <2>1
    <3>2. QED
      BY <3>1 DEF Same, Request
  <2>3. QED
    BY <1>a, <2>1, <2>2 DEF Others, Request
<1>3. QED
  BY <1>1, <1>2

LEMMA InviteIs ==
    ASSUME TypeOK, NEW r \in Requests
    PROVE  /\ EditReject(r) \/ AudienceFail(r) \/ ClaimAfterCreate(r) \/ ActivateSkip(r)
                 \/ ActivateEnqueue(r) =>
                 Others(r) /\ OthersRemoved(r) /\ req'[r] = Idle
           /\ InviteAdded(r) =>
                 /\ Others(r) /\ OthersRemoved(r)
                 /\ \/ req'[r] = Idle
                    \/ /\ req[r].creates /\ poll.status = "ACTIVE" /\ req'[r].pc = "claim"
                       /\ req'[r].since = req[r].since /\ req'[r].creates
           /\ ActivateClaim(r) =>
                 /\ Others(r) /\ OthersRemoved(r)
                 /\ req'[r].pc = "enqueue" /\ req'[r].old = audience
                 /\ req'[r].since = req[r].since /\ req'[r].creates = req[r].creates
<1>a. req \in [Requests -> Request] /\ req[r] \in Request
  BY DEF TypeOK
<1>1. CASE EditReject(r) \/ AudienceFail(r) \/ ClaimAfterCreate(r) \/ ActivateSkip(r)
           \/ ActivateEnqueue(r)
  <2>1. req' = [req EXCEPT ![r] = Idle]
    BY <1>1 DEF EditReject, AudienceFail, ClaimAfterCreate, ActivateSkip, ActivateEnqueue, Done
  <2>2. Others(r) /\ OthersRemoved(r) /\ req'[r] = Idle
    BY <1>a, <2>1 DEF Others, OthersRemoved, Same
  <2>3. req'[r].pc = "idle"
    BY <2>2 DEF Idle
  <2>4. QED
    BY <1>1, <2>2 DEF EditReject, AudienceFail, ClaimAfterCreate, ActivateSkip, ActivateEnqueue,
       InviteAdded, ActivateClaim, ClaimLock
<1>2. CASE InviteAdded(r)
  <2>1. req' = [req EXCEPT ![r] = AfterInviting(r)] /\ req[r].pc = "invite"
    BY <1>2 DEF InviteAdded
  <2>2. \/ AfterInviting(r) = Idle
        \/ /\ req[r].creates /\ poll.status = "ACTIVE" /\ AfterInviting(r).pc = "claim"
           /\ AfterInviting(r).since = req[r].since /\ AfterInviting(r).creates
    BY <1>a DEF AfterInviting, Request
  <2>3. Others(r) /\ OthersRemoved(r) /\ req'[r] = AfterInviting(r)
    BY <1>a, <2>1 DEF Others, OthersRemoved, Same
  <2>4. QED
    BY <2>1, <2>2, <2>3 DEF EditReject, AudienceFail, ClaimAfterCreate, ActivateSkip,
       ActivateEnqueue, ActivateClaim
<1>3. CASE ActivateClaim(r)
  <2> DEFINE x == [req[r] EXCEPT !.pc = "enqueue", !.old = audience]
  <2>1. req' = [req EXCEPT ![r] = x]
    BY <1>3, <1>a DEF ActivateClaim
  <2>2. /\ x.pc = "enqueue" /\ x.old = audience /\ x.since = req[r].since
        /\ x.creates = req[r].creates
    BY <1>a DEF Request
  <2> HIDE DEF x
  <2>3. /\ Others(r) /\ OthersRemoved(r)
        /\ req'[r].pc = "enqueue" /\ req'[r].old = audience /\ req'[r].since = req[r].since
        /\ req'[r].creates = req[r].creates
    BY <1>a, <2>1, <2>2 DEF Others, OthersRemoved, Same
  <2>4. req'[r] # Idle
    BY <2>3 DEF Idle
  <2>5. QED
    BY <1>3, <2>3 DEF EditReject, AudienceFail, ClaimAfterCreate, ActivateSkip, ActivateEnqueue,
       ActivateClaim, ClaimLock, InviteAdded
<1>4. QED
  BY <1>1, <1>2, <1>3

-----------------------------------------------------------------------------
(* Begun. *)

\* Nothing makes a poll a draft again.
LEMMA BegunStays ==
    ASSUME TypeOK, BegunInv, Next, Begun
    PROVE  Begun'
<1>1. ASSUME NEW r \in Requests, NEW status \in Live, NEW startsAt, NEW restricted, NEW users,
             EditCommit(r, status, startsAt, restricted, users)
      PROVE  Begun'
  <2>1. req[r].loaded.status \in Live /\ status \in AllowedTransitions[req[r].loaded.status]
    BY <1>1 DEF EditCommit, BegunInv, RequestBegun
  <2>2. poll'.status = WriteBack(poll.status, req[r].loaded.status, status)
    BY <1>1 DEF EditCommit
  <2>3. poll'.status = poll.status \/ poll'.status \in {"ACTIVE", "CLOSED"}
    BY <2>1, <2>2 DEF WriteBack, AllowedTransitions, Live
  <2>4. QED
    BY <2>3 DEF Begun, Absent
<1>2. CASE ClosePoll \/ DeletePoll
  <2>1. poll'.status \in {"CLOSED", Gone}
    BY <1>2 DEF ClosePoll, DeletePoll, TypeOK, Row
  <2>2. QED
    BY <2>1 DEF Begun, Gone, Absent
<1>3. ASSUME NEW r \in Requests, RequestStep(r) PROVE Begun'
  <2>1. CASE poll' = poll
    BY <2>1 DEF Begun
  <2>2. CASE poll' # poll
    BY <1>1, <1>3, <2>2 DEF RequestStep, Create, EditLoad, EditReject, AudienceBegin, AudienceCommit,
       AudienceFail, InviteAdded, ClaimAfterCreate, ActivateClaim, ActivateSkip, ActivateEnqueue,
       Begun
  <2>3. QED
    BY <2>1, <2>2
<1>4. CASE UNCHANGED poll
  BY <1>4 DEF Begun
<1>5. QED
  BY <1>2, <1>3, <1>4 DEF Next, Scan, TaskClaim, TaskEnqueue, Crash, Tick

LEMMA SameBegun ==
    ASSUME TypeOK, BegunInv, Next, NEW q \in Requests, Same(q)
    PROVE  RequestBegun(q)'
<1>1. RequestBegun(q) /\ (Begun => Begun')
  BY BegunStays DEF BegunInv
<1>2. QED
  BY <1>1 DEF RequestBegun, Same

\* What a request has to do with the poll having begun when it takes a step.
LEMMA OwnBegun ==
    ASSUME TypeOK, BegunInv, Next, NEW r \in Requests, RequestStep(r)
    PROVE  RequestBegun(r)' /\ Others(r) /\ poll'.status # Absent
<1>a. Begun => Begun'
  BY BegunStays
<1>b. RequestBegun(r) /\ poll \in Row /\ (poll.status = Absent => \A q \in Requests : req[q].pc = "idle")
  BY DEF BegunInv, TypeOK
<1>1. ASSUME NEW status \in Live, NEW startsAt, NEW restricted, NEW users,
             Create(r, status, startsAt, restricted, users)
      PROVE  RequestBegun(r)' /\ Others(r) /\ poll'.status # Absent
  <2>1. Others(r) /\ (req' = req \/ req'[r].pc = "committed")
    BY <1>1, EditIs
  <2>2. req[r].pc = "idle" /\ poll'.status # Absent
    BY <1>1, <1>b DEF Create, Absent
  <2>3. req'[r].pc \in {"idle", "committed"}
    BY <2>1, <2>2
  <2>4. QED
    BY <2>1, <2>2, <2>3 DEF RequestBegun
<1>2. CASE EditLoad(r)
  <2>1. Others(r) /\ req'[r].pc = "loaded" /\ req'[r].loaded = poll /\ ~req'[r].creates
    BY <1>2, EditIs
  <2>2. Stored /\ poll' = poll
    BY <1>2 DEF EditLoad
  <2>3. QED
    BY <2>1, <2>2, RowsAre DEF RequestBegun, Begun, Stored
<1>3. ASSUME NEW status \in Live, NEW startsAt, NEW restricted, NEW users,
             EditCommit(r, status, startsAt, restricted, users)
      PROVE  RequestBegun(r)' /\ Others(r) /\ poll'.status # Absent
  <2>1. Others(r) /\ req'[r].pc = "committed"
    BY <1>3, EditIs
  <2>2. poll'.status # Absent
    BY <1>3, RowsAre DEF EditCommit, WriteBack, Stored
  <2>3. QED
    BY <2>1, <2>2 DEF RequestBegun
<1>4. CASE AudienceBegin(r)
  <2>1. /\ Others(r) /\ req'[r].pc = "audience"
        /\ req'[r].activates => poll.status = "ACTIVE"
    BY <1>4, AudienceIs
  <2>2. Stored /\ poll' = poll
    BY <1>4 DEF AudienceBegin
  <2>3. QED
    BY <2>1, <2>2, RowsAre DEF RequestBegun, Begun, Stored, Absent
<1>5. CASE AudienceCommit(r)
  <2>1. /\ Others(r) /\ req'[r].pc = IF req[r].activates THEN "activate" ELSE "invite"
        /\ req'[r].activates = req[r].activates
    BY <1>5, AudienceIs
  <2>2. Stored /\ poll' = poll /\ req[r].pc = "audience"
    BY <1>5 DEF AudienceCommit
  <2>3. QED
    BY <1>b, <2>1, <2>2, RowsAre DEF RequestBegun, Begun, Stored
<1>6. CASE EditReject(r) \/ AudienceFail(r) \/ ClaimAfterCreate(r) \/ ActivateSkip(r)
           \/ ActivateEnqueue(r)
  <2>1. Others(r) /\ req'[r].pc = "idle"
    BY <1>6, InviteIs DEF Idle
  <2>2. poll' = poll /\ req[r].pc # "idle"
    BY <1>6 DEF EditReject, AudienceFail, ClaimAfterCreate, ActivateSkip, ActivateEnqueue
  <2>3. QED
    BY <1>b, <2>1, <2>2 DEF RequestBegun
<1>7. CASE InviteAdded(r)
  <2>1. /\ Others(r)
        /\ \/ req'[r].pc = "idle"
           \/ req'[r].pc = "claim" /\ poll.status = "ACTIVE" /\ req'[r].creates
    BY <1>7, InviteIs DEF Idle
  <2>2. poll' = poll /\ req[r].pc # "idle"
    BY <1>7 DEF InviteAdded
  <2>3. QED
    BY <1>b, <2>1, <2>2 DEF RequestBegun, Begun, Absent
<1>8. CASE ActivateClaim(r)
  <2>1. Others(r) /\ req'[r].pc = "enqueue"
    BY <1>8, InviteIs
  <2>2. poll' = poll /\ req[r].pc = "activate"
    BY <1>8 DEF ActivateClaim
  <2>3. QED
    BY <1>a, <1>b, <2>1, <2>2 DEF RequestBegun
<1>9. QED
  BY <1>1, <1>2, <1>3, <1>4, <1>5, <1>6, <1>7, <1>8 DEF RequestStep

LEMMA BegunStep ==
    ASSUME TypeOK, BegunInv, Next
    PROVE  BegunInv'
<1>a. Begun => Begun'
  BY BegunStays
<1>b. /\ poll.status = Absent => audience = {} /\ \A r \in Requests : req[r].pc = "idle"
      /\ lock > 0 \/ task # "idle" \/ invited # {} \/ initials > 0 => Begun
      /\ \A r \in Requests : RequestBegun(r)
      /\ req \in [Requests -> Request] /\ poll \in Row
  BY DEF BegunInv, TypeOK
<1>1. ASSUME NEW r \in Requests, RequestStep(r) PROVE BegunInv'
  <2>1. RequestBegun(r)' /\ Others(r) /\ poll'.status # Absent
    BY <1>1, OwnBegun
  <2>2. \A q \in Requests : RequestBegun(q)'
    BY <2>1, SameBegun DEF Others
  <2>3. lock' > 0 \/ task' # "idle" \/ invited' # {} \/ initials' > 0 => Begun'
    <3>1. CASE UNCHANGED <<lock, task, invited, initials>>
      BY <1>a, <1>b, <3>1
    <3>2. CASE InviteAdded(r)
      <4>1. invited' = invited \/ Begun
        BY <3>2 DEF InviteAdded, Enqueue, Begun, Absent
      <4>2. UNCHANGED <<lock, task>> /\ (initials' = initials \/ Begun)
        BY <3>2 DEF InviteAdded, Begun, Absent
      <4>3. QED
        BY <1>a, <1>b, <4>1, <4>2
    <3>3. CASE ClaimAfterCreate(r) \/ ActivateClaim(r) \/ ActivateEnqueue(r)
      BY <1>a, <1>b, <3>3 DEF ClaimAfterCreate, ActivateClaim, ActivateEnqueue, RequestBegun
    <3>4. QED
      BY <1>1, <3>1, <3>2, <3>3 DEF RequestStep, Create, EditCommit, EditLoad, EditReject, AudienceBegin,
         AudienceCommit, AudienceFail, ActivateSkip
  <2>4. QED
    BY <2>1, <2>2, <2>3 DEF BegunInv
<1>2. ASSUME UNCHANGED req, Begun' \/ UNCHANGED <<lock, task, invited, initials>>,
             poll' = poll \/ (poll.status # Absent /\ poll'.status # Absent),
             audience' = audience \/ poll.status # Absent
      PROVE  BegunInv'
  <2>1. \A r \in Requests : RequestBegun(r)'
    BY <1>a, <1>b, <1>2 DEF RequestBegun
  <2>2. QED
    BY <1>a, <1>b, <1>2, <2>1 DEF BegunInv
<1>3. CASE Scan
  <2>1. (task' = "idle" /\ task = "idle") \/ Begun
    BY <1>3 DEF Scan, JustStarted, Begun, Absent
  <2>2. QED
    BY <1>a, <1>2, <1>3, <2>1 DEF Scan
<1>4. CASE TaskClaim \/ TaskEnqueue
  BY <1>a, <1>b, <1>2, <1>4 DEF TaskClaim, TaskEnqueue
<1>5. CASE ClosePoll \/ DeletePoll
  <2>1. poll'.status \in {"CLOSED", Gone} /\ poll.status # Absent
    BY <1>5, <1>b, RowsAre DEF ClosePoll, DeletePoll, Stored, Row, Absent
  <2>2. QED
    BY <1>2, <1>5, <2>1 DEF ClosePoll, DeletePoll, Gone, Absent
<1>6. CASE Tick
  BY <1>2, <1>6 DEF Tick
<1>7. CASE Crash
  <2>1. poll' = poll /\ audience' = audience /\ lock' = lock /\ invited' = invited
        /\ initials' = initials /\ (task' = task \/ task' = "idle")
    BY <1>7 DEF Crash
  <2>2. \A r \in Requests : req'[r] = req[r] \/ req'[r] = Idle
    BY <1>7, <1>b DEF Crash, Done
  <2>3. \A r \in Requests : RequestBegun(r)' /\ (req[r].pc = "idle" => req'[r].pc = "idle")
    <3>1. SUFFICES ASSUME NEW r \in Requests
                   PROVE  RequestBegun(r)' /\ (req[r].pc = "idle" => req'[r].pc = "idle")
      OBVIOUS
    <3>2. CASE req'[r] = req[r]
      BY <1>b, <2>1, <3>2 DEF RequestBegun, Begun
    <3>3. CASE req'[r] = Idle
      BY <3>3 DEF RequestBegun, Idle
    <3>4. QED
      BY <2>2, <3>2, <3>3
  <2>4. QED
    BY <1>a, <1>b, <2>1, <2>3 DEF BegunInv
<1>8. QED
  BY <1>1, <1>3, <1>4, <1>5, <1>6, <1>7 DEF Next

LEMMA InitBegun == Init => BegunInv
BY DEF Init, NoRow, Idle, BegunInv, RequestBegun

\* Nobody is invited to a poll that is still a DRAFT: every path to an invitation goes
\* through an open poll, and no edit makes it a draft again.
THEOREM DraftsAreSilent == Spec => []DraftIsSilent
<1>1. TypeOK /\ BegunInv /\ [Next]_vars => BegunInv'
  <2>1. SUFFICES ASSUME TypeOK, BegunInv, [Next]_vars PROVE BegunInv'
    OBVIOUS
  <2>2. CASE UNCHANGED vars
    BY <2>1, <2>2 DEF vars, BegunInv, RequestBegun, Begun
  <2>3. QED
    BY <2>1, <2>2, BegunStep
<1>2. BegunInv => DraftIsSilent
  BY DEF BegunInv, DraftIsSilent, Begun
<1>3. QED
  BY <1>1, <1>2, InitBegun, TypeCorrect, PTL DEF Spec

-----------------------------------------------------------------------------
(* Numbers. *)

LEMMA Numbers ==
    ASSUME TypeOK
    PROVE  /\ now \in Nat /\ lastScan \in Nat /\ lock \in Nat /\ initials \in Nat
           /\ Window \in Nat /\ LockTTL \in Nat /\ LockTTL > Window + 1
           /\ poll.startsAt \in Nat \cup {NoTime} /\ NoTime \notin Nat
           /\ \A q \in Requests : req[q].since \in Nat
           /\ req \in [Requests -> Request]
<1>1. /\ Window \in Nat /\ LockTTL \in Nat /\ LockTTL > Window + 1 /\ Starts \subseteq Nat
      /\ MaxTime \in Nat
  BY InvitationsAssumption DEF InvitationsAssumption
<1>2. \A n \in 0 .. MaxTime : n \in Nat
  BY <1>1
<1>3. now \in 0 .. MaxTime /\ lastScan \in 0 .. MaxTime /\ lock \in Nat /\ initials \in Nat
      /\ req \in [Requests -> Request] /\ poll \in Row
  BY DEF TypeOK
<1>4. \A q \in Requests : req[q].since \in 0 .. MaxTime
  BY <1>3 DEF Request
<1>5. poll.startsAt \in Nat \cup {NoTime} /\ NoTime \notin Nat
  <2>1. poll.startsAt \in Starts \cup {NoTime}
    BY <1>3 DEF Row
  <2>2. NoTime \notin Nat
    BY DEF NoTime
  <2>3. QED
    BY <1>1, <2>1, <2>2
<1>6. QED
  BY <1>1, <1>2, <1>3, <1>4, <1>5

-----------------------------------------------------------------------------
(* Time. *)

\* A request begins at its own time and stays there.
LEMMA OwnTime ==
    ASSUME TypeOK, NEW r \in Requests, RequestStep(r)
    PROVE  /\ Others(r) /\ now' = now /\ lastScan' = lastScan /\ task' = task
           /\ \/ req'[r].pc = "idle" \/ req'[r].since = now
              \/ req[r].pc # "idle" /\ req'[r].since = req[r].since
<1>1. ASSUME NEW status, NEW startsAt, NEW restricted, NEW users,
             Create(r, status, startsAt, restricted, users)
      PROVE  Others(r) /\ (req'[r].pc = "idle" \/ req'[r].since = now
                           \/ (req[r].pc # "idle" /\ req'[r].since = req[r].since))
  BY <1>1, EditIs
<1>2. ASSUME NEW status, NEW startsAt, NEW restricted, NEW users,
             EditCommit(r, status, startsAt, restricted, users)
      PROVE  Others(r) /\ req[r].pc # "idle" /\ req'[r].since = req[r].since
  <2>1. req[r].pc = "loaded"
    BY <1>2 DEF EditCommit
  <2>2. QED
    BY <1>2, <2>1, EditIs
<1>3. CASE EditLoad(r)
  BY <1>3, EditIs DEF EditLoad
<1>4. CASE AudienceBegin(r) \/ AudienceCommit(r)
  <2>1. req[r].pc # "idle" /\ now' = now /\ lastScan' = lastScan /\ task' = task
    BY <1>4 DEF AudienceBegin, AudienceCommit
  <2>2. Others(r) /\ req'[r].since = req[r].since
    BY <1>4, AudienceIs
  <2>3. QED
    BY <2>1, <2>2
<1>5. CASE EditReject(r) \/ AudienceFail(r) \/ ClaimAfterCreate(r) \/ ActivateSkip(r)
           \/ ActivateEnqueue(r)
  <2>1. Others(r) /\ req'[r].pc = "idle"
    BY <1>5, InviteIs DEF Idle
  <2>2. QED
    BY <1>5, <2>1 DEF EditReject, AudienceFail, ClaimAfterCreate, ActivateSkip, ActivateEnqueue
<1>6. CASE InviteAdded(r)
  <2>1. Others(r) /\ (req'[r].pc = "idle" \/ req'[r].since = req[r].since)
    BY <1>6, InviteIs DEF Idle
  <2>2. QED
    BY <1>6, <2>1 DEF InviteAdded
<1>7. CASE ActivateClaim(r)
  <2>1. Others(r) /\ req'[r].since = req[r].since
    BY <1>7, InviteIs
  <2>2. QED
    BY <1>7, <2>1 DEF ActivateClaim
<1>8. CASE \E status \in Live, startsAt \in Starts \cup {NoTime},
                restricted \in Restrictions, users \in SUBSET Users :
                \/ Create(r, status, startsAt, restricted, users)
                \/ EditCommit(r, status, startsAt, restricted, users)
  <2>1. now' = now /\ lastScan' = lastScan /\ task' = task
    BY <1>8 DEF Create, EditCommit
  <2>2. QED
    BY <1>1, <1>2, <1>8, <2>1
<1>9. QED
  BY <1>3, <1>4, <1>5, <1>6, <1>7, <1>8 DEF RequestStep

LEMMA TimeStep ==
    ASSUME TypeOK, TimeInv, Next
    PROVE  TimeInv'
<1>a. /\ now \in Nat /\ lastScan \in Nat /\ Window \in Nat /\ req \in [Requests -> Request]
      /\ lastScan <= now /\ now <= lastScan + Window /\ (task # "idle" => now - 1 <= lastScan)
      /\ \A q \in Requests : req[q].pc # "idle" => req[q].since <= now /\ now - 1 <= req[q].since
      /\ \A q \in Requests : req[q].since \in Nat
  BY Numbers DEF TimeInv
<1>1. ASSUME NEW r \in Requests, RequestStep(r) PROVE TimeInv'
  <2>1. /\ Others(r) /\ now' = now /\ lastScan' = lastScan /\ task' = task
        /\ \/ req'[r].pc = "idle" \/ req'[r].since = now
           \/ req[r].pc # "idle" /\ req'[r].since = req[r].since
    BY <1>1, OwnTime
  <2>2. \A q \in Requests : req'[q].pc # "idle" => req'[q].since <= now /\ now - 1 <= req'[q].since
    BY <1>a, <2>1 DEF Others, Same
  <2>3. QED
    BY <1>a, <2>1, <2>2 DEF TimeInv
<1>2. CASE Scan
  BY <1>a, <1>2 DEF Scan, TimeInv
<1>3. CASE TaskClaim \/ TaskEnqueue
  BY <1>a, <1>3 DEF TaskClaim, TaskEnqueue, TimeInv
<1>4. CASE ClosePoll \/ DeletePoll
  BY <1>a, <1>4 DEF ClosePoll, DeletePoll, TimeInv
<1>5. CASE Tick
  <2>1. \A q \in Requests : req'[q].pc # "idle" => req'[q].since <= now' /\ now' - 1 <= req'[q].since
    BY <1>a, <1>5 DEF Tick
  <2>2. QED
    BY <1>a, <1>5, <2>1 DEF Tick, TimeInv
<1>6. CASE Crash
  <2>1. now' = now /\ lastScan' = lastScan /\ (task' = task \/ task' = "idle")
    BY <1>6 DEF Crash
  <2>2. \A q \in Requests : req'[q] = req[q] \/ req'[q] = Idle
    BY <1>a, <1>6 DEF Crash, Done
  <2>3. \A q \in Requests : req'[q].pc # "idle" => req'[q].since <= now /\ now - 1 <= req'[q].since
    BY <1>a, <2>2 DEF Idle
  <2>4. QED
    BY <1>a, <2>1, <2>3 DEF TimeInv
<1>7. QED
  BY <1>1, <1>2, <1>3, <1>4, <1>5, <1>6 DEF Next

LEMMA InitTime == Init => TimeInv
BY InvitationsAssumption DEF Init, Idle, TimeInv, InvitationsAssumption

-----------------------------------------------------------------------------
(* One dispatch. *)

\* Excuses are never taken back, and the lock never expires earlier than it did.
LEMMA ExcusesGrow ==
    ASSUME TypeOK, Next
    PROVE  excuses \subseteq excuses' /\ lock <= lock' /\ (lock' = lock \/ lock' = now + LockTTL)
<1>a. now \in Nat /\ lock \in Nat /\ LockTTL \in Nat
  BY Numbers
<1>1. ASSUME NEW r \in Requests, RequestStep(r)
      PROVE  excuses \subseteq excuses' /\ lock <= lock' /\ (lock' = lock \/ lock' = now + LockTTL)
  <2>1. excuses \subseteq excuses'
    BY <1>1 DEF RequestStep, Create, EditCommit, EditLoad, EditReject, AudienceBegin, AudienceCommit,
       AudienceFail, InviteAdded, ClaimAfterCreate, ActivateClaim, ActivateSkip, ActivateEnqueue
  <2>2. lock' = lock \/ (~LockHeld /\ lock' = now + LockTTL)
    BY <1>1 DEF RequestStep, Create, EditCommit, EditLoad, EditReject, AudienceBegin, AudienceCommit,
       AudienceFail, InviteAdded, ClaimAfterCreate, ActivateClaim, ActivateSkip, ActivateEnqueue,
       ClaimLock
  <2>3. QED
    BY <1>a, <2>1, <2>2 DEF LockHeld
<1>2. CASE TaskClaim
  BY <1>a, <1>2 DEF TaskClaim, ClaimLock, LockHeld
<1>3. CASE Scan \/ TaskEnqueue \/ ClosePoll \/ DeletePoll \/ Crash \/ Tick
  <2>1. lock' = lock
    BY <1>3 DEF Scan, TaskEnqueue, ClosePoll, DeletePoll, Crash, Tick
  <2>2. excuses \subseteq excuses'
    BY <1>3 DEF Scan, TaskEnqueue, ClosePoll, DeletePoll, Crash, Tick
  <2>3. QED
    BY <1>a, <2>1, <2>2
<1>4. QED
  BY <1>1, <1>2, <1>3 DEF Next

\* The start of a poll that has begun stays.
LEMMA StartStays ==
    ASSUME TypeOK, Next, Begun, "rescheduled" \notin excuses'
    PROVE  poll'.startsAt = poll.startsAt
<1>1. ASSUME NEW r \in Requests, NEW status \in Live, NEW startsAt, NEW restricted, NEW users,
             EditCommit(r, status, startsAt, restricted, users)
      PROVE  poll'.startsAt = poll.startsAt
  <2>1. poll'.startsAt = WriteBack(poll.startsAt, req[r].loaded.startsAt, startsAt)
    BY <1>1 DEF EditCommit
  <2>2. poll.status = "DRAFT"
        \/ WriteBack(poll.startsAt, req[r].loaded.startsAt, startsAt) = poll.startsAt
    BY <1>1 DEF EditCommit
  <2>3. QED
    BY <2>1, <2>2 DEF Begun
<1>2. CASE ClosePoll \/ DeletePoll
  BY <1>2 DEF ClosePoll, DeletePoll, TypeOK, Row
<1>3. ASSUME NEW r \in Requests, RequestStep(r) PROVE poll'.startsAt = poll.startsAt
  BY <1>1, <1>3 DEF RequestStep, Create, EditLoad, EditReject, AudienceBegin, AudienceCommit,
     AudienceFail, InviteAdded, ClaimAfterCreate, ActivateClaim, ActivateSkip, ActivateEnqueue, Begun
<1>4. CASE UNCHANGED poll
  BY <1>4
<1>5. QED
  BY <1>2, <1>3, <1>4 DEF Next, Scan, TaskClaim, TaskEnqueue, Crash, Tick

\* No edit gets to activate a poll that has begun, but for those that are about to.
LEMMA NoMoreActivate ==
    ASSUME TypeOK, BegunInv, Next, NEW q \in Requests
    PROVE  /\ Begun /\ MayActivate(q)' => MayActivate(q) /\ req'[q].since = req[q].since
           /\ Enqueuing(q)' => Enqueuing(q) \/ ActivateClaim(q)
<1> DEFINE P == /\ Begun /\ MayActivate(q)' => MayActivate(q) /\ req'[q].since = req[q].since
                /\ Enqueuing(q)' => Enqueuing(q) \/ ActivateClaim(q)
<1>a. req \in [Requests -> Request]
  BY DEF TypeOK
<1>1. CASE Same(q)
  BY <1>1 DEF Same, MayActivate, Activates, Enqueuing
<1>2. ASSUME NEW status, NEW startsAt, NEW restricted, NEW users,
             Create(q, status, startsAt, restricted, users)
      PROVE  P
  <2>1. req' = req \/ (req'[q].pc = "committed" /\ req'[q].creates)
    BY <1>2, EditIs
  <2>2. QED
    BY <1>2, <2>1 DEF Create, Begun, Enqueuing
<1>3. CASE EditLoad(q)
  <2>1. req'[q].pc = "loaded" /\ req'[q].loaded = poll
    BY <1>3, EditIs
  <2>2. QED
    BY <2>1 DEF MayActivate, Activates, Enqueuing, Begun
<1>4. ASSUME NEW status, NEW startsAt, NEW restricted, NEW users,
             EditCommit(q, status, startsAt, restricted, users)
      PROVE  P
  <2>1. /\ req'[q].pc = "committed" /\ req'[q].loaded.status = req[q].loaded.status
        /\ req'[q].since = req[q].since
    BY <1>4, EditIs
  <2>2. req[q].pc = "loaded"
    BY <1>4 DEF EditCommit
  <2>3. QED
    BY <2>1, <2>2 DEF MayActivate, Activates, Enqueuing
<1>5. CASE AudienceBegin(q)
  <2>1. /\ req'[q].pc = "audience" /\ req'[q].since = req[q].since
        /\ req'[q].activates => ~req[q].creates /\ req[q].loaded.status = "DRAFT"
    BY <1>5, AudienceIs
  <2>2. req[q].pc = "committed"
    BY <1>5 DEF AudienceBegin
  <2>3. QED
    BY <2>1, <2>2 DEF MayActivate, Activates, Enqueuing
<1>6. CASE AudienceCommit(q)
  <2>1. /\ req'[q].pc = IF req[q].activates THEN "activate" ELSE "invite"
        /\ req'[q].activates = req[q].activates /\ req'[q].since = req[q].since
    BY <1>6, AudienceIs
  <2>2. req[q].pc = "audience"
    BY <1>6 DEF AudienceCommit
  <2>3. QED
    BY <2>1, <2>2 DEF MayActivate, Activates, Enqueuing
<1>7. CASE req'[q].pc \in {"idle", "claim"}
  BY <1>7 DEF MayActivate, Activates, Enqueuing
<1>8. CASE ActivateClaim(q)
  <2>1. req'[q].pc = "enqueue"
    BY <1>8, InviteIs
  <2>2. QED
    BY <1>8, <2>1 DEF MayActivate, Activates, Enqueuing
<1>9. ASSUME NEW r \in Requests, RequestStep(r) PROVE P
  <2>1. CASE r # q
    BY <1>1, <1>9, <2>1, OwnTime DEF Others
  <2>2. CASE r = q
    <3>1. CASE EditReject(q) \/ AudienceFail(q) \/ ClaimAfterCreate(q) \/ ActivateSkip(q)
               \/ ActivateEnqueue(q) \/ InviteAdded(q)
      BY <1>7, <3>1, InviteIs DEF Idle
    <3>2. QED
      BY <1>2, <1>3, <1>4, <1>5, <1>6, <1>8, <1>9, <2>2, <3>1 DEF RequestStep
  <2>3. QED
    BY <2>1, <2>2
<1>10. CASE Crash
  <2>1. req'[q] = req[q] \/ req'[q] = Idle
    BY <1>a, <1>10 DEF Crash, Done
  <2>2. QED
    BY <1>1, <1>7, <2>1 DEF Same, Idle
<1>11. CASE UNCHANGED req
  BY <1>1, <1>11 DEF Same
<1>12. QED
  BY <1>9, <1>10, <1>11 DEF Next, Scan, TaskClaim, TaskEnqueue, ClosePoll, DeletePoll, Tick

\* The poll has begun once there is anything to dispatch.
LEMMA DispatchedBegun ==
    ASSUME TypeOK, BegunInv, Dispatched
    PROVE  Begun
<1>1. initials \in Nat
  BY DEF TypeOK
<1>2. initials > 0 \/ task # "idle" \/ \E r \in Requests : req[r].pc = "enqueue"
  BY DEF Dispatched, Enqueuing
<1>3. QED
  BY <1>2 DEF BegunInv, RequestBegun

\* A step that neither claims nor dispatches.
LEMMA QuietOnce ==
    ASSUME TypeOK, BegunInv, Next, LockLasts, AtMostOne, "rescheduled" \notin excuses',
           initials' = initials, task' = "claimed" => task = "claimed",
           Settled' /\ Dispatched => Settled,
           \A r \in Requests : Enqueuing(r)' => Enqueuing(r)
    PROVE  LockLasts' /\ AtMostOne'
<1>1. AtMostOne'
  BY DEF AtMostOne
<1>3. LockLasts'
  <2>1. SUFFICES ASSUME Dispatched', Settled' PROVE LockLasts'
    BY DEF LockLasts
  <2>2. Dispatched /\ Settled
    BY <2>1 DEF Dispatched
  <2>3. Begun
    BY <2>2, DispatchedBegun
  <2>4. poll'.startsAt = poll.startsAt
    BY <2>3, StartStays
  <2>5. \A r \in Requests : MayActivate(r)' => MayActivate(r) /\ req'[r].since = req[r].since
    BY <2>3, NoMoreActivate
  <2>6. /\ lock <= lock' /\ lock \in Nat /\ lock' \in Nat /\ Window \in Nat
        /\ poll.startsAt \in Nat \cup {NoTime} /\ \A q \in Requests : req[q].since \in Nat
    BY Numbers, ExcusesGrow, TypeStep DEF TypeOK
  <2>7. poll.startsAt # NoTime => poll.startsAt + Window + 1 < lock'
    BY <2>2, <2>6 DEF LockLasts
  <2>8. \A r \in Requests : MayActivate(r) => req[r].since + 1 < lock'
    BY <2>2, <2>6 DEF LockLasts
  <2>9. QED
    BY <2>4, <2>5, <2>7, <2>8 DEF LockLasts
<1>4. QED
  BY <1>1, <1>3

\* Nothing moves the start of a poll that a run of the task has selected.
LEMMA ScannedStep ==
    ASSUME TypeOK, BegunInv, TimeInv, Next, Scanned, "rescheduled" \notin excuses'
    PROVE  Scanned'
<1>1. CASE task' # "idle" /\ task # "idle" /\ lastScan' = lastScan
  BY <1>1, StartStays DEF BegunInv, Scanned
<1>2. CASE task' = "idle"
  BY <1>2 DEF Scanned
<1>3. CASE Scan
  BY <1>3, Numbers DEF Scan, JustStarted, Scanned
<1>4. ASSUME NEW r \in Requests, RequestStep(r) PROVE Scanned'
  BY <1>1, <1>2, <1>4, OwnTime
<1>5. CASE Crash
  BY <1>1, <1>2, <1>5 DEF Crash
<1>6. CASE TaskClaim \/ TaskEnqueue \/ ClosePoll \/ DeletePoll \/ Tick
  BY <1>1, <1>2, <1>6 DEF TaskClaim, TaskEnqueue, ClosePoll, DeletePoll, Tick
<1>7. QED
  BY <1>3, <1>4, <1>5, <1>6 DEF Next

\* The lock that is claimed now is long enough.
LEMMA FreshLock ==
    ASSUME TypeOK, TimeInv, Next, now' = now, lock' = now + LockTTL,
           poll'.startsAt = poll.startsAt, poll.startsAt # NoTime => poll.startsAt <= now
    PROVE  LockLasts'
<1>1. /\ now \in Nat /\ LockTTL \in Nat /\ Window \in Nat /\ LockTTL > Window + 1
      /\ poll.startsAt \in Nat \cup {NoTime}
  BY Numbers
<1>2. TypeOK' /\ TimeInv'
  BY TypeStep, TimeStep
<1>3. \A q \in Requests : req'[q].since \in Nat
  <2>1. \A q \in Requests : req'[q].since \in 0 .. MaxTime
    BY <1>2 DEF TypeOK, Request
  <2>2. MaxTime \in Nat
    BY InvitationsAssumption DEF InvitationsAssumption
  <2>3. QED
    BY <2>1, <2>2
<1>4. \A q \in Requests : MayActivate(q)' => req'[q].since + 1 < lock'
  <2>1. SUFFICES ASSUME NEW q \in Requests, MayActivate(q)' PROVE req'[q].since + 1 < lock'
    OBVIOUS
  <2>2. req'[q].pc # "idle"
    BY <2>1 DEF MayActivate, Activates
  <2>3. req'[q].since <= now
    BY <1>2, <2>2 DEF TimeInv
  <2>4. QED
    BY <1>1, <1>3, <2>3
<1>5. poll.startsAt # NoTime => poll.startsAt + Window + 1 < lock'
  BY <1>1
<1>6. QED
  BY <1>4, <1>5 DEF LockLasts

\* The task finds the lock free only if nothing has been dispatched.
LEMMA TaskIsFirst ==
    ASSUME TypeOK, TimeInv, Scanned, LockLasts, Settled, task # "idle", ~LockHeld
    PROVE  ~Dispatched
<1>1. /\ now \in Nat /\ lastScan \in Nat /\ Window \in Nat /\ lock \in Nat
      /\ poll.startsAt \in Nat \cup {NoTime}
  BY Numbers
<1>2. poll.startsAt # NoTime /\ lastScan <= poll.startsAt + Window /\ now - 1 <= lastScan
  BY DEF Scanned, TimeInv
<1>3. Dispatched => poll.startsAt + Window + 1 < lock
  BY <1>2 DEF LockLasts
<1>4. QED
  BY <1>1, <1>2, <1>3 DEF LockHeld

\* So does an edit that activates.
LEMMA EditIsFirst ==
    ASSUME TypeOK, BegunInv, TimeInv, LockLasts, Settled,
           NEW r \in Requests, req[r].pc = "activate", ~LockHeld
    PROVE  ~Dispatched
<1>1. now \in Nat /\ lock \in Nat /\ req[r].since \in Nat
  BY Numbers
<1>2. MayActivate(r) /\ now - 1 <= req[r].since
  BY DEF BegunInv, RequestBegun, TimeInv, MayActivate, Activates
<1>3. Dispatched => req[r].since + 1 < lock
  BY <1>2 DEF LockLasts
<1>4. QED
  BY <1>1, <1>2, <1>3 DEF LockHeld

\* How a request comes to be creating the poll after a step.
LEMMA CreatingStep ==
    ASSUME TypeOK, BegunInv, Next, NEW q \in Requests, Creating(q)'
    PROVE  \/ poll.status = Absent /\ UNCHANGED <<lock, task, initials>>
              /\ (Creating(q) \/ req'[q].pc = "committed") /\ Others(q)
           \/ Creating(q) /\ Same(q)
           \/ Creating(q) /\ AudienceBegin(q) /\ req'[q].pc = "audience" /\ ~req'[q].activates
           \/ /\ Creating(q) /\ AudienceCommit(q) /\ req[q].pc = "audience"
              /\ req'[q].pc = IF req[q].activates THEN "activate" ELSE "invite"
           \/ Creating(q) /\ InviteAdded(q) /\ req[q].pc = "invite" /\ req'[q].pc = "claim"
           \/ Creating(q) /\ ActivateClaim(q)
<1> DEFINE P == \/ poll.status = Absent /\ UNCHANGED <<lock, task, initials>>
                   /\ (Creating(q) \/ req'[q].pc = "committed") /\ Others(q)
                \/ Creating(q) /\ Same(q)
                \/ Creating(q) /\ AudienceBegin(q) /\ req'[q].pc = "audience" /\ ~req'[q].activates
                \/ /\ Creating(q) /\ AudienceCommit(q) /\ req[q].pc = "audience"
                   /\ req'[q].pc = IF req[q].activates THEN "activate" ELSE "invite"
                \/ Creating(q) /\ InviteAdded(q) /\ req[q].pc = "invite" /\ req'[q].pc = "claim"
                \/ Creating(q) /\ ActivateClaim(q)
<1>a. req \in [Requests -> Request] /\ req'[q].creates /\ req'[q].pc # "idle"
  BY DEF TypeOK, Creating
<1>1. CASE Same(q)
  BY <1>1 DEF Same, Creating
<1>2. ASSUME NEW status, NEW startsAt, NEW restricted, NEW users,
             Create(q, status, startsAt, restricted, users)
      PROVE  P
  <2>1. Others(q) /\ (req' = req \/ req'[q].pc = "committed")
    BY <1>2, EditIs
  <2>2. poll.status = Absent /\ UNCHANGED <<lock, task, initials>>
    BY <1>2 DEF Create
  <2>3. QED
    BY <1>a, <2>1, <2>2 DEF Creating
<1>3. CASE EditLoad(q)
  BY <1>3, <1>a, EditIs
<1>4. ASSUME NEW status, NEW startsAt, NEW restricted, NEW users,
             EditCommit(q, status, startsAt, restricted, users)
      PROVE  P
  <2>1. req'[q].creates = req[q].creates /\ req[q].pc = "loaded"
    BY <1>4, EditIs DEF EditCommit
  <2>2. ~req[q].creates
    BY <2>1 DEF BegunInv, RequestBegun
  <2>3. QED
    BY <1>a, <2>1, <2>2
<1>5. CASE AudienceBegin(q)
  <2>1. req[q].pc # "idle"
    BY <1>5 DEF AudienceBegin
  <2>2. QED
    BY <1>5, <1>a, <2>1, AudienceIs DEF Creating
<1>6. CASE AudienceCommit(q)
  <2>1. req[q].pc = "audience"
    BY <1>6 DEF AudienceCommit
  <2>2. QED
    BY <1>6, <1>a, <2>1, AudienceIs DEF Creating
<1>7. CASE InviteAdded(q)
  <2>1. req[q].pc = "invite" /\ req'[q] # Idle
    <3>1. Idle.pc = "idle"
      BY DEF Idle
    <3>2. req[q].pc = "invite"
      BY <1>7 DEF InviteAdded
    <3>3. QED
      BY <1>a, <3>1, <3>2
  <2>2. req[q].creates /\ req'[q].pc = "claim"
    BY <1>7, <2>1, InviteIs
  <2>3. QED
    BY <1>7, <2>1, <2>2 DEF Creating
<1>8. CASE ActivateClaim(q)
  <2>1. req[q].pc # "idle" /\ req[q].creates
    BY <1>8, <1>a, InviteIs DEF ActivateClaim
  <2>2. QED
    BY <1>8, <2>1 DEF Creating
<1>9. CASE req'[q] = Idle
  BY <1>9, <1>a DEF Idle
<1>10. ASSUME NEW r \in Requests, RequestStep(r) PROVE P
  <2>1. CASE r # q
    BY <1>1, <1>10, <2>1, OwnTime DEF Others
  <2>2. CASE r = q
    <3>1. CASE EditReject(q) \/ AudienceFail(q) \/ ClaimAfterCreate(q) \/ ActivateSkip(q)
               \/ ActivateEnqueue(q)
      BY <1>9, <3>1, InviteIs
    <3>2. QED
      BY <1>2, <1>3, <1>4, <1>5, <1>6, <1>7, <1>8, <1>10, <2>2, <3>1 DEF RequestStep
  <2>3. QED
    BY <2>1, <2>2
<1>11. CASE Crash
  <2>1. req'[q] = req[q] \/ req'[q] = Idle
    BY <1>a, <1>11 DEF Crash, Done
  <2>2. QED
    BY <1>1, <1>9, <2>1 DEF Same
<1>12. CASE UNCHANGED req
  BY <1>1, <1>12 DEF Same
<1>13. QED
  BY <1>10, <1>11, <1>12 DEF Next, Scan, TaskClaim, TaskEnqueue, ClosePoll, DeletePoll, Tick

\* Who claims the lock.
LEMMA WhoClaims ==
    ASSUME TypeOK, BegunInv, Next, lock' # lock \/ (task' = "claimed" /\ task # "claimed")
    PROVE  \/ TaskClaim /\ ~LockHeld
           \/ \E r \in Requests : ActivateClaim(r)
           \/ \E r \in Requests : ClaimAfterCreate(r) /\ Creating(r) /\ ~Creating(r)'
<1>1. ASSUME NEW r \in Requests, RequestStep(r), ~ActivateClaim(r)
      PROVE  ClaimAfterCreate(r) /\ Creating(r) /\ ~Creating(r)'
  <2>1. task' = task
    BY <1>1, OwnTime
  <2>2. ClaimAfterCreate(r)
    BY <1>1, <2>1 DEF RequestStep, Create, EditCommit, EditLoad, EditReject, AudienceBegin,
       AudienceCommit, AudienceFail, InviteAdded, ActivateSkip, ActivateEnqueue
  <2>3. req'[r].pc = "idle" /\ req[r].pc = "claim"
    BY <2>2, InviteIs DEF ClaimAfterCreate, Idle
  <2>4. req[r].creates
    BY <2>3 DEF BegunInv, RequestBegun
  <2>5. QED
    BY <2>2, <2>3, <2>4 DEF Creating
<1>2. CASE TaskClaim
  BY <1>2 DEF TaskClaim
<1>3. CASE Crash
  BY <1>3 DEF Crash
<1>4. CASE Scan \/ TaskEnqueue \/ ClosePoll \/ DeletePoll \/ Tick
  BY <1>4 DEF Scan, TaskEnqueue, ClosePoll, DeletePoll, Tick
<1>5. QED
  BY <1>1, <1>2, <1>3, <1>4 DEF Next

\* Who dispatches to the whole audience.
LEMMA WhoDispatches ==
    ASSUME Next, initials' # initials
    PROVE  \/ TaskEnqueue /\ task = "claimed"
           \/ \E r \in Requests : Enqueuing(r)
           \/ \E r \in Requests :
                 /\ InviteAdded(r) /\ Creating(r) /\ req[r].pc = "invite" /\ ~Ahead
                 /\ poll.status = "ACTIVE" /\ initials' = initials + 1
                 /\ UNCHANGED <<poll, now, lock, task>>
<1>1. ASSUME NEW r \in Requests, RequestStep(r), ~Enqueuing(r)
      PROVE  /\ InviteAdded(r) /\ Creating(r) /\ req[r].pc = "invite" /\ ~Ahead
             /\ poll.status = "ACTIVE" /\ initials' = initials + 1
             /\ UNCHANGED <<poll, now, lock, task>>
  <2>1. ~ActivateEnqueue(r)
    BY <1>1 DEF ActivateEnqueue, Enqueuing
  <2>2. InviteAdded(r)
    BY <1>1, <2>1 DEF RequestStep, Create, EditCommit, EditLoad, EditReject, AudienceBegin,
       AudienceCommit, AudienceFail, ClaimAfterCreate, ActivateClaim, ActivateSkip
  <2>3. QED
    BY <2>2 DEF InviteAdded, Creating
<1>2. CASE TaskEnqueue
  BY <1>2 DEF TaskEnqueue
<1>3. CASE Crash
  BY <1>3 DEF Crash
<1>4. CASE Scan \/ TaskClaim \/ ClosePoll \/ DeletePoll \/ Tick
  BY <1>4 DEF Scan, TaskClaim, ClosePoll, DeletePoll, Tick
<1>5. QED
  BY <1>1, <1>2, <1>3, <1>4 DEF Next

\* Nobody claims the lock while a create_poll is under way, unless it is recorded.
LEMMA ClaimIsSettled ==
    ASSUME "unclaimed" \notin excuses',
           (TaskClaim /\ ~LockHeld) \/ \E r \in Requests : ActivateClaim(r)
    PROVE  Settled
BY DEF TaskClaim, ActivateClaim, ClaimsFirst, Settled

\* While a create_poll is under way it is the only one that dispatches.
LEMMA CreationStep ==
    ASSUME TypeOK, BegunInv, TimeInv, Next, Creation,
           "rescheduled" \notin excuses', "unclaimed" \notin excuses'
    PROVE  Creation'
<1> SUFFICES ASSUME NEW c \in Requests, Creating(c)'
             PROVE  /\ req'[c].pc \in {"committed", "audience", "invite", "claim"}
                    /\ req'[c].pc = "audience" => ~req'[c].activates
                    /\ lock' = 0 /\ task' # "claimed" /\ \A q \in Requests : ~Enqueuing(q)'
                    /\ req'[c].pc # "claim" => initials' = 0
                    /\ initials' > 0 /\ poll'.startsAt # NoTime => poll'.startsAt <= now'
                    /\ \A q \in Requests : Creating(q)' => q = c
  BY DEF Creation
<1>a. /\ now \in Nat /\ initials \in Nat /\ poll.startsAt \in Nat \cup {NoTime} /\ lock \in Nat
      /\ now' \in Nat /\ now <= now'
  <2>1. now' = now \/ now' = now + 1
    BY OwnTime DEF Next, Scan, TaskClaim, TaskEnqueue, ClosePoll, DeletePoll, Crash, Tick
  <2>2. QED
    BY <2>1, Numbers
<1>1. CASE poll.status = Absent
  <2>1. /\ \A q \in Requests : req[q].pc = "idle"
        /\ lock = 0 /\ task = "idle" /\ initials = 0
    BY <1>1, <1>a DEF BegunInv, Begun
  <2>2. ~Creating(c)
    BY <2>1 DEF Creating
  <2>3. UNCHANGED <<lock, task, initials>> /\ req'[c].pc = "committed" /\ Others(c)
    BY <2>2, CreatingStep
  <2>4. \A q \in Requests \ {c} : req'[q].pc = "idle"
    BY <2>1, <2>3 DEF Others, Same
  <2>5. \A q \in Requests : ~Enqueuing(q)' /\ (Creating(q)' => q = c)
    BY <2>3, <2>4 DEF Enqueuing, Creating
  <2>6. QED
    BY <2>1, <2>3, <2>5
<1>2. CASE poll.status # Absent
  <2>1. \A q \in Requests : Creating(q)' => Creating(q)
    BY <1>2, CreatingStep
  <2>2. /\ req[c].pc \in {"committed", "audience", "invite", "claim"}
        /\ req[c].pc = "audience" => ~req[c].activates
        /\ lock = 0 /\ task # "claimed" /\ \A q \in Requests : ~Enqueuing(q)
        /\ req[c].pc # "claim" => initials = 0
        /\ initials > 0 /\ poll.startsAt # NoTime => poll.startsAt <= now
        /\ \A q \in Requests : Creating(q) => q = c
    BY <2>1 DEF Creation
  <2>3. ~Settled
    BY <2>1 DEF Settled
  <2>4. lock' = lock /\ task' # "claimed"
    BY <2>1, <2>2, <2>3, WhoClaims, ClaimIsSettled
  <2>5. \A q \in Requests : ~Enqueuing(q)'
    BY <2>2, <2>3, NoMoreActivate, ClaimIsSettled
  <2>6. \/ Same(c)
        \/ req'[c].pc = "audience" /\ ~req'[c].activates /\ AudienceBegin(c)
        \/ req'[c].pc = "invite" /\ AudienceCommit(c)
        \/ req'[c].pc = "claim"
    BY <1>2, <2>2, <2>3, CreatingStep, ClaimIsSettled
  <2>7. /\ req'[c].pc \in {"committed", "audience", "invite", "claim"}
        /\ req'[c].pc = "audience" => ~req'[c].activates
        /\ req'[c].pc # "claim" => req[c].pc # "claim" /\ ~InviteAdded(c)
    <3>1. InviteAdded(c) => req'[c].pc = "claim"
      <4>1. req'[c].pc # "idle"
        BY DEF Creating
      <4>2. req'[c] # Idle
        BY <4>1 DEF Idle
      <4>3. QED
        BY <4>2, InviteIs
    <3>2. QED
      BY <2>2, <2>6, <3>1 DEF Same, AudienceBegin, AudienceCommit
  <2>8. initials' # initials => /\ InviteAdded(c) /\ ~Ahead /\ poll.status = "ACTIVE"
                                /\ UNCHANGED <<poll, now>>
    BY <2>2, WhoDispatches
  <2>9. req'[c].pc # "claim" => initials' = 0
    BY <2>2, <2>7, <2>8
  <2>10. ASSUME initials' > 0, poll'.startsAt # NoTime PROVE poll'.startsAt <= now'
    <3>1. CASE initials' = initials
      <4>1. Begun
        BY <2>10, <3>1 DEF BegunInv
      <4>2. poll'.startsAt = poll.startsAt
        BY <4>1, StartStays
      <4>3. QED
        BY <1>a, <2>2, <2>10, <3>1, <4>2
    <3>2. CASE initials' # initials
      BY <1>a, <2>8, <2>10, <3>2 DEF Ahead
    <3>3. QED
      BY <3>1, <3>2
  <2>11. QED
    BY <2>1, <2>2, <2>4, <2>5, <2>7, <2>9, <2>10
<1>3. QED
  BY <1>1, <1>2

\* A create_poll that has dispatched is about to claim the lock.
LEMMA CreatingDispatched ==
    ASSUME TypeOK, Creation, NEW c \in Requests, Creating(c), Dispatched
    PROVE  req[c].pc = "claim"
BY DEF Creation, Dispatched

\* What has been dispatched, and is about to be, is one dispatch, and its lock lasts.
LEMMA LockStep ==
    ASSUME TypeOK, BegunInv, TimeInv, Scanned, LockLasts, AtMostOne, Creation, Next,
           "rescheduled" \notin excuses', "unclaimed" \notin excuses'
    PROVE  LockLasts' /\ AtMostOne'
<1>b. /\ now \in Nat /\ lastScan \in Nat /\ lock \in Nat /\ initials \in Nat /\ Window \in Nat
      /\ poll.startsAt \in Nat \cup {NoTime} /\ req \in [Requests -> Request]
      /\ lastScan <= now
  BY Numbers DEF TimeInv
<1>1. ASSUME NEW r \in Requests, ActivateClaim(r) PROVE LockLasts' /\ AtMostOne'
  <2>1. /\ req[r].pc = "activate" /\ ~Ahead /\ ~LockHeld /\ lock' = now + LockTTL
        /\ UNCHANGED <<poll, now, task, lastScan, initials>>
    BY <1>1 DEF ActivateClaim, ClaimLock
  <2>2. ~Dispatched
    BY <1>1, <2>1, EditIsFirst, ClaimIsSettled
  <2>3. LockLasts'
    BY <1>b, <2>1, FreshLock DEF Ahead
  <2>4. \A q \in Requests : Enqueuing(q)' => q = r
    BY <1>1, <2>2, InviteIs DEF Others, Same, Enqueuing, Dispatched
  <2>5. initials = 0 /\ task # "claimed"
    BY <1>b, <2>2 DEF Dispatched
  <2>6. AtMostOne'
    BY <2>1, <2>4, <2>5 DEF AtMostOne
  <2>7. QED
    BY <2>3, <2>6
<1>2. ASSUME NEW r \in Requests, ActivateEnqueue(r) PROVE LockLasts' /\ AtMostOne'
  <2>1. Enqueuing(r) /\ UNCHANGED <<poll, lock, task, lastScan>> /\ initials' = initials + 1
    BY <1>2 DEF ActivateEnqueue, Enqueuing
  <2>2. Others(r) /\ ~Enqueuing(r)'
    BY <1>2, InviteIs DEF Enqueuing, Idle
  <2>3. \A q \in Requests : ~Enqueuing(q)'
    BY <2>1, <2>2 DEF Others, Same, Enqueuing, AtMostOne
  <2>4. initials = 0 /\ task # "claimed"
    BY <1>b, <2>1 DEF AtMostOne
  <2>5. AtMostOne'
    BY <2>1, <2>3, <2>4 DEF AtMostOne
  <2>6. Dispatched /\ Begun /\ Settled
    BY <2>1, DispatchedBegun DEF Dispatched, Settled, Creation
  <2>7. \A q \in Requests : MayActivate(q)' => MayActivate(q) /\ req'[q].since = req[q].since
    BY <2>6, NoMoreActivate
  <2>8. LockLasts'
    BY <2>1, <2>6, <2>7 DEF LockLasts
  <2>9. QED
    BY <2>5, <2>8
<1>3. ASSUME NEW r \in Requests, InviteAdded(r), initials' # initials PROVE LockLasts' /\ AtMostOne'
  <2>1. /\ req[r].creates /\ req[r].pc = "invite" /\ poll.status = "ACTIVE"
        /\ UNCHANGED <<lock, task>> /\ initials' = initials + 1 /\ AfterInviting(r).pc = "claim"
    <3>1. req[r].creates /\ req[r].pc = "invite" /\ poll.status = "ACTIVE"
          /\ UNCHANGED <<lock, task>> /\ initials' = initials + 1
      BY <1>3 DEF InviteAdded
    <3>2. req[r] \in Request
      BY <1>b
    <3>3. QED
      BY <3>1, <3>2 DEF AfterInviting, Request
  <2>2. req'[r].pc = "claim" /\ req'[r].creates
    <3>1. req'[r] = AfterInviting(r)
      BY <1>3, <1>b DEF InviteAdded
    <3>2. req'[r] # Idle
      BY <2>1, <3>1 DEF Idle
    <3>3. QED
      BY <1>3, <3>2, InviteIs
  <2>3. Creating(r)' /\ Creating(r)
    BY <2>1, <2>2 DEF Creating
  <2>4. initials = 0 /\ task # "claimed" /\ \A q \in Requests : ~Enqueuing(q)
    BY <2>1, <2>3 DEF Creation
  <2>5. \A q \in Requests : ~Enqueuing(q)'
    BY <1>3, <2>2, <2>4, InviteIs DEF Others, Same, Enqueuing
  <2>6. AtMostOne'
    BY <2>1, <2>4, <2>5 DEF AtMostOne
  <2>7. LockLasts'
    BY <2>3 DEF LockLasts, Settled
  <2>8. QED
    BY <2>6, <2>7
<1>4. ASSUME NEW r \in Requests, ClaimAfterCreate(r) PROVE LockLasts' /\ AtMostOne'
  <2>1. req[r].pc = "claim" /\ UNCHANGED <<poll, now, task, lastScan, initials>>
    BY <1>4 DEF ClaimAfterCreate
  <2>2. Creating(r)
    BY <2>1 DEF BegunInv, RequestBegun, Creating
  <2>3. lock = 0 /\ (initials > 0 /\ poll.startsAt # NoTime => poll.startsAt <= now)
        /\ task # "claimed" /\ \A q \in Requests : ~Enqueuing(q)
    BY <2>2 DEF Creation
  <2>4. lock' = now + LockTTL
    BY <1>4, <1>b, <2>3 DEF ClaimAfterCreate, LockHeld, ClaimLock
  <2>5. \A q \in Requests : ~Enqueuing(q)'
    BY <1>4, <2>3, InviteIs DEF Others, Same, Enqueuing, Idle
  <2>6. AtMostOne'
    BY <2>1, <2>3, <2>5 DEF AtMostOne
  <2>7. CASE initials > 0
    BY <1>b, <2>1, <2>3, <2>4, <2>6, <2>7, FreshLock
  <2>8. CASE ~(initials > 0)
    BY <2>1, <2>3, <2>5, <2>6, <2>8 DEF LockLasts, Dispatched
  <2>9. QED
    BY <2>7, <2>8
<1>5. ASSUME NEW r \in Requests, RequestStep(r), ~ActivateClaim(r), ~ActivateEnqueue(r),
             ~ClaimAfterCreate(r), initials' = initials
      PROVE  LockLasts' /\ AtMostOne'
  <2>1. Others(r) /\ lastScan' = lastScan /\ task' = task
    BY <1>5, OwnTime
  <2>2. \A q \in Requests : Enqueuing(q)' => Enqueuing(q)
    BY <1>5, <2>1, NoMoreActivate DEF Others, Same, Enqueuing
  <2>3. ASSUME Settled', Dispatched, ~Settled PROVE FALSE
    <3>1. PICK c \in Requests : Creating(c)
      BY <2>3 DEF Settled
    <3>2. ~Creating(c)'
      BY <2>3 DEF Settled
    <3>3. c = r
      BY <2>1, <3>1, <3>2 DEF Others, Same, Creating
    <3>4. req[r].pc = "claim" /\ poll.status # Absent
      BY <2>3, <3>1, <3>3, CreatingDispatched DEF BegunInv
    <3>5. QED
      BY <1>5, <3>4 DEF RequestStep, Create, EditCommit, EditLoad, EditReject, AudienceBegin,
         AudienceCommit, AudienceFail, InviteAdded, ActivateSkip
  <2>4. QED
    BY <2>1, <2>2, <2>3, <1>5, QuietOnce
<1>6. CASE Scan \/ (TaskClaim /\ LockHeld)
  <2>1. UNCHANGED <<req, initials>> /\ (task' = "claimed" => task = "claimed")
    BY <1>6 DEF Scan, TaskClaim
  <2>2. QED
    BY <2>1, QuietOnce DEF Enqueuing, Settled, Creating
<1>7. CASE TaskClaim /\ ~LockHeld
  <2>1. UNCHANGED <<poll, now, req, lastScan, initials>> /\ task = "selected"
        /\ task' = "claimed" /\ lock' = now + LockTTL
    BY <1>7 DEF TaskClaim, ClaimLock
  <2>2. ~Dispatched /\ poll.startsAt <= lastScan /\ poll.startsAt # NoTime
    BY <1>7, <2>1, TaskIsFirst, ClaimIsSettled DEF Scanned
  <2>3. LockLasts'
    BY <1>b, <2>1, <2>2, FreshLock
  <2>4. initials = 0 /\ \A q \in Requests : ~Enqueuing(q)
    BY <1>b, <2>2 DEF Dispatched
  <2>5. AtMostOne'
    BY <2>1, <2>4 DEF AtMostOne, Enqueuing
  <2>6. QED
    BY <2>3, <2>5
<1>8. CASE TaskEnqueue
  <2>1. /\ UNCHANGED <<poll, lock, req>> /\ task = "claimed" /\ task' = "idle"
        /\ initials' = initials \/ initials' = initials + 1
    BY <1>8 DEF TaskEnqueue
  <2>2. Dispatched /\ Settled /\ initials = 0 /\ \A q \in Requests : ~Enqueuing(q)
    BY <1>b, <2>1 DEF Dispatched, AtMostOne, Settled, Creation
  <2>3. AtMostOne'
    BY <2>1, <2>2 DEF AtMostOne, Enqueuing
  <2>4. LockLasts'
    BY <2>1, <2>2 DEF LockLasts, MayActivate, Activates
  <2>5. QED
    BY <2>3, <2>4
<1>9. CASE ClosePoll \/ DeletePoll \/ Tick
  <2>1. UNCHANGED <<req, initials, task>>
    BY <1>9 DEF ClosePoll, DeletePoll, Tick
  <2>2. QED
    BY <2>1, QuietOnce DEF Enqueuing, Settled, Creating
<1>10. CASE Crash
  <2>1. /\ UNCHANGED <<lastScan, initials>> /\ (task' = task \/ task' = "idle")
        /\ \A q \in Requests : \/ req'[q] = req[q]
                               \/ req'[q] = Idle /\ req[q].pc # "claim"
    BY <1>10, <1>b DEF Crash, Done
  <2>2. \A q \in Requests : Enqueuing(q)' => Enqueuing(q)
    BY <2>1 DEF Enqueuing, Idle
  <2>3. Settled' /\ Dispatched => Settled
    BY <2>1, CreatingDispatched DEF Settled, Creating
  <2>4. QED
    BY <2>1, <2>2, <2>3, QuietOnce
<1>11. ASSUME NEW r \in Requests, RequestStep(r), initials' # initials, ~ActivateEnqueue(r)
       PROVE  InviteAdded(r)
  BY <1>11 DEF RequestStep, Create, EditCommit, EditLoad, EditReject, AudienceBegin,
     AudienceCommit, AudienceFail, ClaimAfterCreate, ActivateClaim, ActivateSkip
<1>12. ASSUME NEW r \in Requests, RequestStep(r) PROVE LockLasts' /\ AtMostOne'
  BY <1>1, <1>2, <1>3, <1>4, <1>5, <1>11, <1>12
<1>13. QED
  BY <1>1, <1>2, <1>3, <1>4, <1>6, <1>7, <1>8, <1>9, <1>10, <1>12 DEF Next

LEMMA OnceStep ==
    ASSUME TypeOK, BegunInv, TimeInv, OnceInv, Next
    PROVE  OnceInv'
<1>1. "rescheduled" \notin excuses' => Scanned'
  BY ExcusesGrow, ScannedStep DEF OnceInv
<1>2. ASSUME "rescheduled" \notin excuses', "unclaimed" \notin excuses'
      PROVE  LockLasts' /\ AtMostOne' /\ Creation'
  <2>1. Scanned /\ LockLasts /\ AtMostOne /\ Creation
    BY <1>2, ExcusesGrow DEF OnceInv
  <2>2. QED
    BY <1>2, <2>1, LockStep, CreationStep
<1>3. QED
  BY <1>1, <1>2 DEF OnceInv

LEMMA InitOnce == Init => OnceInv
BY DEF Init, Idle, NoRow, OnceInv, Scanned, LockLasts, AtMostOne, Dispatched, Enqueuing, Settled,
   Creation, Creating

\* The dispatches to the whole audience exclude each other, as long as the start is not moved
\* after activation and nobody claims the lock before a create_poll that is under way: whoever
\* comes second finds the lock held, for it expires only when the window of the task is over
\* and every edit that could still activate the poll has ended.
THEOREM DispatchedOnce == Spec => []InitialDispatchOnce
<1>1. TypeOK /\ BegunInv /\ TimeInv /\ OnceInv /\ [Next]_vars => BegunInv' /\ TimeInv' /\ OnceInv'
  <2>1. SUFFICES ASSUME TypeOK, BegunInv, TimeInv, OnceInv, [Next]_vars
                 PROVE  BegunInv' /\ TimeInv' /\ OnceInv'
    OBVIOUS
  <2>2. CASE UNCHANGED vars
    BY <2>1, <2>2 DEF vars, BegunInv, RequestBegun, Begun, TimeInv, OnceInv, Scanned, LockLasts,
       AtMostOne, Dispatched, Enqueuing, MayActivate, Activates, Settled, Creation, Creating
  <2>3. QED
    BY <2>1, <2>2, BegunStep, TimeStep, OnceStep
<1>2. OnceInv => InitialDispatchOnce
  BY DEF OnceInv, AtMostOne, InitialDispatchOnce
<1>3. QED
  BY <1>1, <1>2, InitBegun, InitTime, InitOnce, TypeCorrect, PTL DEF Spec

-----------------------------------------------------------------------------
(* Nobody is forgotten. *)

\* What is true of a poll that is not open yet.
LEMMA NotBegun ==
    ASSUME TypeOK, BegunInv, ~Begun
    PROVE  lock = 0 /\ task = "idle"
<1>1. lock \in Nat
  BY DEF TypeOK
<1>2. ~(lock > 0) /\ task = "idle"
  BY DEF BegunInv
<1>3. QED
  BY <1>1, <1>2

\* One request is under way before and after the step: the others have no part in it.
LEMMA Alone ==
    ASSUME TypeOK, NEW r \in Requests, Others(r),
           \A q \in Requests \ {r} : ~UnderWay(q), Holding(r)'
    PROVE  OneUnderWay' /\ \A q \in Requests : Holding(q)'
<1>1. \A q \in Requests \ {r} : ~UnderWay(q)'
  BY DEF Others, Same, UnderWay
<1>2. \A q \in Requests \ {r} : Holding(q)'
  BY <1>1 DEF UnderWay, Holding
<1>3. QED
  BY <1>1, <1>2 DEF OneUnderWay

\* Whom only the requests under way could invite.
LEMMA ComingFrom ==
    ASSUME NEW u, NEW r \in Requests, \A q \in Requests \ {r} : ~UnderWay(q), Coming(u)
    PROVE  \/ task = "claimed"
           \/ lock = 0 /\ (task = "selected" \/ poll.startsAt > lastScan)
           \/ lock = 0 /\ Activates(r)
           \/ Enqueuing(r) /\ u \in req[r].old
           \/ req[r].pc = "invite" /\ u \notin req[r].old
BY DEF Coming, UnderWay, Activates, Enqueuing

\* The first request of all.
LEMMA CreateCovers ==
    ASSUME TypeOK, BegunInv, NEW r \in Requests, NEW status, NEW startsAt, NEW restricted, NEW users,
           Create(r, status, startsAt, restricted, users)
    PROVE  CoverInv'
<1>1. /\ poll.status = Absent /\ UNCHANGED <<audience, lock, task>>
  BY DEF Create
<1>2. audience = {} /\ (\A q \in Requests : req[q].pc = "idle") /\ lock = 0
  BY <1>1, NotBegun DEF BegunInv, Begun
<1>3. /\ Others(r)
      /\ req'[r].pc = "idle" \/ (req'[r].pc = "committed" /\ req'[r].creates)
  BY <1>2, EditIs
<1>4. Holding(r)'
  BY <1>1, <1>2, <1>3 DEF Holding, Activates
<1>5. OneUnderWay' /\ \A q \in Requests : Holding(q)'
  BY <1>2, <1>3, <1>4, Alone DEF UnderWay
<1>6. LockIsLate' /\ Covered'
  BY <1>1, <1>2 DEF LockIsLate, Covered
<1>7. QED
  BY <1>5, <1>6 DEF CoverInv

\* A request that has committed nothing begins or ends.
LEMMA IdleCovers ==
    ASSUME TypeOK, CoverInv, Calm, NEW r \in Requests, ~UnderWay(r), ~UnderWay(r)',
           Others(r), \A q \in Requests \ {r} : req'[q] = req[q],
           UNCHANGED <<poll, audience, now, lock, task, lastScan, invited>>
    PROVE  CoverInv'
<1>1. OneUnderWay /\ LockIsLate /\ Covered /\ \A q \in Requests : Holding(q)
  BY DEF CoverInv
<1>2. \A q \in Requests : UnderWay(q)' => q # r /\ UnderWay(q) /\ Same(q)
  BY DEF Others, Same, UnderWay
<1>3. OneUnderWay'
  BY <1>1, <1>2 DEF OneUnderWay
<1>4. LockIsLate'
  BY <1>1 DEF LockIsLate, Ahead
<1>5. \A u : Invited(u)' <=> Invited(u)
  BY DEF Invited
<1>6. ASSUME NEW u, Coming(u) PROVE Coming(u)'
  <2>1. CASE task = "claimed" \/ (lock = 0 /\ (task = "selected" \/ poll.startsAt > lastScan))
    BY <2>1 DEF Coming
  <2>2. ASSUME NEW q \in Requests,
               \/ lock = 0 /\ Activates(q)
               \/ Enqueuing(q) /\ u \in req[q].old
               \/ req[q].pc = "invite" /\ u \notin req[q].old
        PROVE  Coming(u)'
    <3>1. UnderWay(q)
      BY <2>2 DEF UnderWay, Activates, Enqueuing
    <3>2. Same(q)
      BY <3>1 DEF Others
    <3>3. QED
      BY <2>2, <3>2 DEF Coming, Same, Activates, Enqueuing
  <2>3. QED
    BY <1>6, <2>1, <2>2 DEF Coming
<1>7. Covered'
  BY <1>1, <1>5, <1>6 DEF Covered
<1>8. \A q \in Requests : Holding(q)'
  <2>1. SUFFICES ASSUME NEW q \in Requests, UnderWay(q)' PROVE Holding(q)'
    BY DEF Holding, UnderWay
  <2>2. req'[q] = req[q]
    BY <1>2, <2>1
  <2>3. QED
    BY <1>1, <1>5, <2>2 DEF Holding, Activates, Ahead
<1>9. QED
  BY <1>3, <1>4, <1>7, <1>8 DEF CoverInv

\* The commit of an edit: it opens a draft that nobody else is at work on, or it leaves an
\* open poll as far as it was.
LEMMA CommitCovers ==
    ASSUME TypeOK, BegunInv, CoverInv, Clean', Clean, poll'.status = "ACTIVE",
           NEW r \in Requests, NEW status \in Live, NEW startsAt, NEW restricted, NEW users,
           EditCommit(r, status, startsAt, restricted, users)
    PROVE  CoverInv'
<1> DEFINE start == WriteBack(poll.startsAt, req[r].loaded.startsAt, startsAt)
<1>1. /\ req[r].pc = "loaded" /\ Stored /\ status \in AllowedTransitions[req[r].loaded.status]
      /\ UNCHANGED <<audience, now, lock, task, lastScan, invited>>
  BY DEF EditCommit
<1>2. /\ poll'.status = WriteBack(poll.status, req[r].loaded.status, status)
      /\ poll'.startsAt = start
  BY DEF EditCommit
<1>3. excuses' = excuses
              \cup (IF poll.status # "DRAFT" /\ start # poll.startsAt
                    THEN {"rescheduled"} ELSE {})
              \cup (IF \E s \in Requests : req[s].pc \notin {"idle", "loaded"}
                    THEN {"overlap"} ELSE {})
              \cup (IF req[r].loaded.status = "DRAFT" /\ poll.status # "DRAFT"
                    THEN {"stale draft"} ELSE {})
  BY DEF EditCommit
<1> HIDE DEF start
<1>4. /\ poll.status # "DRAFT" => start = poll.startsAt
      /\ \A q \in Requests : ~UnderWay(q)
      /\ req[r].loaded.status = "DRAFT" => poll.status = "DRAFT"
  BY <1>3 DEF UnderWay, Clean
<1>5. /\ Others(r) /\ req'[r].pc = "committed" /\ req'[r].loaded.status = req[r].loaded.status
      /\ req'[r].creates = req[r].creates
  BY EditIs
<1>6. ~req'[r].creates /\ req[r].loaded.status \in Live
  BY <1>1, <1>5 DEF BegunInv, RequestBegun
<1>7. Activates(r)' <=> req[r].loaded.status = "DRAFT"
  BY <1>5, <1>6 DEF Activates
<1>8. CASE poll.status = "ACTIVE"
  <2>1. OneUnderWay /\ LockIsLate /\ Covered /\ \A q \in Requests : Holding(q)
    BY <1>8 DEF CoverInv, Calm
  <2>2. ~Activates(r)' /\ poll'.startsAt = poll.startsAt
    BY <1>2, <1>4, <1>7, <1>8
  <2>3. Holding(r)'
    BY <1>5, <1>6, <2>2 DEF Holding
  <2>4. OneUnderWay' /\ \A q \in Requests : Holding(q)'
    BY <1>4, <1>5, <2>3, Alone
  <2>5. LockIsLate'
    BY <1>1, <2>1, <2>2 DEF LockIsLate, Ahead
  <2>6. Covered'
    <3>1. \A u \in audience : \/ Invited(u) \/ task = "claimed"
                              \/ lock = 0 /\ (task = "selected" \/ poll.startsAt > lastScan)
      BY <1>4, <2>1 DEF Covered, Coming, UnderWay, Activates, Enqueuing
    <3>2. QED
      BY <1>1, <2>2, <3>1 DEF Covered, Coming, Invited
  <2>7. QED
    BY <2>4, <2>5, <2>6 DEF CoverInv
<1>9. CASE poll.status # "ACTIVE"
  <2>1. status = "ACTIVE" /\ req[r].loaded.status # "ACTIVE"
    BY <1>2, <1>9 DEF WriteBack
  <2>2. req[r].loaded.status = "DRAFT"
    BY <1>1, <1>6, <2>1 DEF AllowedTransitions, Live
  <2>3. lock = 0 /\ task = "idle"
    BY <1>4, <2>2, NotBegun DEF Begun
  <2>4. Holding(r)'
    BY <1>1, <1>5, <1>6, <2>3 DEF Holding
  <2>5. OneUnderWay' /\ \A q \in Requests : Holding(q)'
    BY <1>4, <1>5, <2>4, Alone
  <2>6. LockIsLate' /\ Covered'
    BY <1>1, <1>7, <2>2, <2>3 DEF LockIsLate, Covered, Coming
  <2>7. QED
    BY <2>5, <2>6 DEF CoverInv
<1>10. QED
  BY <1>8, <1>9

\* The audience is read and deleted, then written.
LEMMA AudienceCovers ==
    ASSUME TypeOK, BegunInv, CoverInv, Calm, NEW r \in Requests, AudienceBegin(r) \/ AudienceCommit(r)
    PROVE  CoverInv'
<1>1. OneUnderWay /\ LockIsLate /\ Covered /\ Holding(r) /\ \A q \in Requests : Holding(q)
  BY DEF CoverInv
<1>2. req[r].pc \in {"committed", "audience"} /\ UnderWay(r)
  BY DEF AudienceBegin, AudienceCommit, UnderWay
<1>3. \A q \in Requests \ {r} : ~UnderWay(q)
  BY <1>1, <1>2 DEF OneUnderWay
<1>4. UNCHANGED <<poll, now, lock, task, lastScan, invited>>
  BY DEF AudienceBegin, AudienceCommit
<1>5. \A u : Invited(u)' <=> Invited(u)
  BY <1>4 DEF Invited
<1>6. LockIsLate'
  BY <1>1, <1>4 DEF LockIsLate, Ahead
<1>7. \A u \in audience : \/ Invited(u) \/ task = "claimed"
                          \/ lock = 0 /\ (task = "selected" \/ poll.startsAt > lastScan)
                          \/ lock = 0 /\ Activates(r)
  BY <1>1, <1>2, <1>3, ComingFrom DEF Covered, Enqueuing
<1>8. CASE AudienceBegin(r)
  <2>1. /\ Others(r)
        /\ req'[r].pc = "audience" /\ req'[r].old = audience /\ req'[r].removed = audience
        /\ req'[r].creates = req[r].creates
        /\ req'[r].activates <=> /\ ~req[r].creates /\ req[r].loaded.status = "DRAFT"
                                 /\ poll.status = "ACTIVE"
    BY <1>8, AudienceIs
  <2>2. req[r].pc = "committed" /\ audience' = audience
    BY <1>8 DEF AudienceBegin
  <2>3. Activates(r)' <=> Activates(r)
    BY <2>1, <2>2 DEF Activates, Calm
  <2>4. Holding(r)'
    BY <1>1, <1>4, <2>1, <2>2, <2>3 DEF Holding
  <2>5. OneUnderWay' /\ \A q \in Requests : Holding(q)'
    BY <1>3, <2>1, <2>4, Alone
  <2>6. Covered'
    BY <1>4, <1>5, <1>7, <2>2, <2>3 DEF Covered, Coming
  <2>7. QED
    BY <1>6, <2>5, <2>6 DEF CoverInv
<1>9. CASE AudienceCommit(r)
  <2>1. /\ Others(r)
        /\ req'[r].pc = IF req[r].activates THEN "activate" ELSE "invite"
        /\ req'[r].old = req[r].old /\ req'[r].creates = req[r].creates
        /\ req'[r].activates = req[r].activates
    BY <1>9, AudienceIs
  <2>2. req[r].pc = "audience"
    BY <1>9 DEF AudienceCommit
  <2>3. req[r].old = audience /\ (req[r].creates => req[r].old = {})
    BY <1>1, <2>2 DEF Holding
  <2>4. Holding(r)'
    BY <2>1, <2>3 DEF Holding
  <2>5. OneUnderWay' /\ \A q \in Requests : Holding(q)'
    BY <1>3, <2>1, <2>4, Alone
  <2>6. Activates(r) <=> req[r].activates
    BY <2>2 DEF Activates
  <2>7. CASE req[r].activates
    <3>1. Activates(r)'
      BY <2>1, <2>7 DEF Activates
    <3>2. lock = 0 \/ task = "claimed"
      <4>1. lock \in Nat
        BY DEF TypeOK
      <4>2. lock > 0 => task = "claimed"
        BY <1>1, <2>2, <2>6, <2>7 DEF Holding
      <4>3. QED
        BY <4>1, <4>2
    <3>3. QED
      BY <1>4, <1>6, <2>5, <3>1, <3>2 DEF CoverInv, Covered, Coming
  <2>8. CASE ~req[r].activates
    <3>1. req'[r].pc = "invite" /\ ~Activates(r)
      BY <2>1, <2>6, <2>8
    <3>2. ASSUME NEW u \in audience' PROVE Invited(u)' \/ Coming(u)'
      <4>1. CASE u \notin audience
        BY <2>1, <2>3, <3>1, <4>1 DEF Coming
      <4>2. CASE u \in audience
        BY <1>4, <1>5, <1>7, <3>1, <4>2 DEF Coming
      <4>3. QED
        BY <4>1, <4>2
    <3>3. QED
      BY <1>6, <2>5, <3>2 DEF CoverInv, Covered
  <2>9. QED
    BY <2>7, <2>8
<1>10. QED
  BY <1>8, <1>9

\* The people a request added are invited, unless the task has yet to come to the poll.
LEMMA InviteCovers ==
    ASSUME TypeOK, TimeInv, CoverInv, Calm, Clean', NEW r \in Requests, InviteAdded(r)
    PROVE  CoverInv'
<1>1. OneUnderWay /\ LockIsLate /\ Covered /\ Holding(r)
  BY DEF CoverInv
<1>2. req[r].pc = "invite" /\ UNCHANGED <<poll, audience, now, lock, task, lastScan>>
  BY DEF InviteAdded
<1>3. \A q \in Requests \ {r} : ~UnderWay(q)
  BY <1>1, <1>2 DEF OneUnderWay, UnderWay
<1>4. Others(r) /\ (req'[r] = Idle \/ (req[r].creates /\ req'[r].pc = "claim"))
  BY InviteIs
<1>5. /\ \A u : Invited(u) => Invited(u)'
      /\ ~Ahead => \A u \in audience \ req[r].old : Invited(u)'
  <2>1. /\ invited \subseteq invited'
        /\ \/ ~Ahead => {"created"} \X (audience \ req[r].old) \subseteq invited'
           \/ ~Ahead => {"added"} \X (audience \ req[r].old) \subseteq invited'
    BY DEF InviteAdded, Enqueue, Calm
  <2>2. QED
    BY <2>1 DEF Invited
<1>6. req[r].creates => ~Ahead /\ req[r].old = {}
  BY <1>1, <1>2 DEF InviteAdded, Calm, Clean, Holding
<1>7. Holding(r)'
  <2>1. CASE req'[r] = Idle
    BY <2>1 DEF Holding, Idle, Activates
  <2>2. CASE req[r].creates /\ req'[r].pc = "claim"
    BY <1>2, <1>5, <1>6, <2>2 DEF Holding, Ahead
  <2>3. QED
    BY <1>4, <2>1, <2>2
<1>8. OneUnderWay' /\ \A q \in Requests : Holding(q)'
  BY <1>3, <1>4, <1>7, Alone
<1>9. LockIsLate'
  BY <1>1, <1>2 DEF LockIsLate, Ahead
<1>10. ASSUME NEW u \in audience PROVE Invited(u)' \/ Coming(u)'
  <2>1. \/ Invited(u) \/ task = "claimed"
        \/ lock = 0 /\ (task = "selected" \/ poll.startsAt > lastScan)
        \/ u \notin req[r].old
    BY <1>1, <1>2, <1>3, ComingFrom DEF Covered, Activates, Enqueuing
  <2>2. CASE u \notin req[r].old /\ Ahead
    <3>1. lock \in Nat /\ now \in Nat /\ lastScan \in Nat /\ lastScan <= now
          /\ poll.startsAt \in Nat \cup {NoTime}
      BY Numbers DEF TimeInv
    <3>2. lock = 0 /\ poll.startsAt > lastScan
      BY <1>1, <2>2, <3>1 DEF LockIsLate, Ahead
    <3>3. QED
      BY <1>2, <3>2 DEF Coming
  <2>3. CASE u \notin req[r].old /\ ~Ahead
    BY <1>5, <2>3
  <2>4. QED
    BY <1>2, <1>5, <2>1, <2>2, <2>3 DEF Coming
<1>11. QED
  BY <1>2, <1>8, <1>9, <1>10 DEF CoverInv, Covered

\* The end of create_poll, and of the request that activates the poll.
LEMMA EndCovers ==
    ASSUME TypeOK, BegunInv, TimeInv, CoverInv, Calm, NEW r \in Requests,
           \/ ClaimAfterCreate(r) \/ ActivateClaim(r) \/ ActivateSkip(r) \/ ActivateEnqueue(r)
    PROVE  CoverInv'
<1>1. OneUnderWay /\ LockIsLate /\ Covered /\ Holding(r) /\ RequestBegun(r)
  BY DEF CoverInv, BegunInv
<1>2. /\ req[r].pc \in {"claim", "activate", "enqueue"}
      /\ UNCHANGED <<poll, audience, now, task, lastScan>>
  BY DEF ClaimAfterCreate, ActivateClaim, ActivateSkip, ActivateEnqueue
<1>3. \A q \in Requests \ {r} : ~UnderWay(q)
  BY <1>1, <1>2 DEF OneUnderWay, UnderWay
<1>4. \A u : Invited(u) => Invited(u)'
  <2>1. invited \subseteq invited'
    BY DEF ClaimAfterCreate, ActivateClaim, ActivateSkip, ActivateEnqueue, Enqueue
  <2>2. QED
    BY <2>1 DEF Invited
<1>5. Others(r) /\ (req'[r] = Idle \/ (req'[r].pc = "enqueue" /\ req'[r].old = audience))
  BY InviteIs
<1>6. Holding(r)'
  BY <1>5 DEF Holding, Idle, Activates
<1>7. OneUnderWay' /\ \A q \in Requests : Holding(q)'
  BY <1>3, <1>5, <1>6, Alone
<1>8. \A u \in audience :
         \/ Invited(u) \/ task = "claimed"
         \/ lock = 0 /\ (task = "selected" \/ poll.startsAt > lastScan)
         \/ lock = 0 /\ Activates(r)
         \/ Enqueuing(r) /\ u \in req[r].old
  BY <1>1, <1>2, <1>3, ComingFrom DEF Covered
<1>9. CASE ClaimAfterCreate(r)
  <2>1. ~Ahead /\ \A u \in audience : Invited(u)
    BY <1>1, <1>9 DEF ClaimAfterCreate, Holding
  <2>2. QED
    BY <1>2, <1>4, <1>7, <2>1 DEF CoverInv, Covered, LockIsLate, Ahead
<1>10. CASE ActivateClaim(r)
  <2>1. ~Ahead /\ req'[r].pc = "enqueue" /\ req'[r].old = audience
    BY <1>10, InviteIs DEF ActivateClaim
  <2>2. Covered'
    BY <1>2, <2>1 DEF Covered, Coming, Enqueuing
  <2>3. QED
    BY <1>2, <1>7, <2>1, <2>2 DEF CoverInv, LockIsLate, Ahead
<1>11. CASE ActivateSkip(r)
  <2>1. lock' = lock /\ req[r].pc = "activate" /\ (Ahead \/ audience = {} \/ LockHeld)
    BY <1>11 DEF ActivateSkip, Stored, Calm, Live
  <2>2. LockIsLate'
    BY <1>1, <1>2, <2>1 DEF LockIsLate, Ahead
  <2>3. ASSUME NEW u \in audience PROVE Invited(u)' \/ Coming(u)'
    <3>1. CASE lock = 0 /\ Activates(r)
      <4>1. now \in Nat /\ lastScan \in Nat /\ lastScan <= now /\ poll.startsAt \in Nat \cup {NoTime}
        BY Numbers DEF TimeInv
      <4>2. ~LockHeld
        BY <3>1, <4>1 DEF LockHeld
      <4>3. poll.startsAt > now /\ poll.startsAt # NoTime
        BY <2>1, <2>3, <4>2 DEF Ahead
      <4>4. poll.startsAt > lastScan
        BY <4>1, <4>3
      <4>5. QED
        BY <1>2, <2>1, <3>1, <4>4 DEF Coming
    <3>2. CASE ~(lock = 0 /\ Activates(r))
      BY <1>2, <1>4, <1>8, <2>1, <3>2 DEF Coming, Enqueuing
    <3>3. QED
      BY <3>1, <3>2
  <2>4. QED
    BY <1>2, <1>7, <2>2, <2>3 DEF CoverInv, Covered
<1>12. CASE ActivateEnqueue(r)
  <2>1. lock' = lock /\ req[r].pc = "enqueue" /\ \A u \in req[r].old : Invited(u)'
    BY <1>12 DEF ActivateEnqueue, Enqueue, Invited
  <2>2. LockIsLate'
    BY <1>1, <1>2, <2>1 DEF LockIsLate, Ahead
  <2>3. ~Activates(r)
    BY <2>1 DEF Activates
  <2>4. \A u \in audience : Invited(u)' \/ Coming(u)'
    BY <1>2, <1>4, <1>8, <2>1, <2>3 DEF Coming
  <2>5. QED
    BY <1>2, <1>7, <2>2, <2>4 DEF CoverInv, Covered
<1>13. QED
  BY <1>9, <1>10, <1>11, <1>12

\* The task: what it selects, claims and enqueues.
LEMMA TaskCovers ==
    ASSUME TypeOK, TimeInv, OnceInv, CoverInv, Calm, Clean', Scan \/ TaskClaim \/ TaskEnqueue
    PROVE  CoverInv'
<1>1. OneUnderWay /\ LockIsLate /\ Covered /\ \A q \in Requests : Holding(q)
  BY DEF CoverInv
<1>2. UNCHANGED <<poll, audience, now, req>>
  BY DEF Scan, TaskClaim, TaskEnqueue
<1>3. \A u : Invited(u) => Invited(u)'
  <2>1. invited \subseteq invited'
    BY DEF Scan, TaskClaim, TaskEnqueue, Enqueue
  <2>2. QED
    BY <2>1 DEF Invited
<1>4. OneUnderWay'
  BY <1>1, <1>2 DEF OneUnderWay, UnderWay
<1>5. ASSUME lock' = 0 \/ task' = "claimed"
             \/ (\A q \in Requests : req[q].pc \notin {"committed", "audience"})
             \/ (lock' = lock /\ task # "claimed")
      PROVE  \A q \in Requests : Holding(q)'
  <2>1. lock' = 0 => ~(lock' > 0)
    OBVIOUS
  <2>2. QED
    BY <1>1, <1>2, <1>3, <1>5, <2>1 DEF Holding, Ahead, Activates
<1>6. CASE Scan
  <2>1. lock' = lock /\ task = "idle" /\ lastScan' = now /\ task' = IF JustStarted THEN "selected" ELSE "idle"
    BY <1>6 DEF Scan
  <2>2. /\ now \in Nat /\ lastScan \in Nat /\ now <= lastScan + Window /\ Window \in Nat
        /\ poll.startsAt \in Nat \cup {NoTime}
    BY Numbers DEF TimeInv
  <2>3. \A q \in Requests : Holding(q)'
    BY <1>5, <2>1
  <2>4. ASSUME lock = 0, poll.startsAt > lastScan
        PROVE  task' = "selected" \/ poll.startsAt > lastScan'
    <3>1. SUFFICES ASSUME ~(poll.startsAt > now) PROVE JustStarted
      BY <2>1
    <3>2. poll.startsAt # NoTime
      BY <2>2, <2>4 DEF NoTime
    <3>3. poll.startsAt <= now /\ poll.startsAt >= now - Window
      BY <2>2, <2>4, <3>1, <3>2
    <3>4. QED
      BY <3>2, <3>3 DEF JustStarted, Calm
  <2>5. \A u : Coming(u) => Coming(u)'
    BY <1>2, <2>1, <2>4 DEF Coming, Activates, Enqueuing
  <2>6. Covered'
    BY <1>1, <1>2, <1>3, <2>5 DEF Covered
  <2>7. QED
    BY <1>1, <1>2, <1>4, <2>1, <2>3, <2>6 DEF CoverInv, LockIsLate, Ahead
<1>7. CASE TaskClaim
  <2>1. CASE LockHeld
    <3>1. lock' = lock /\ task = "selected" /\ lock # 0
      BY <1>7, <2>1, Numbers DEF TaskClaim, LockHeld
    <3>2. \A q \in Requests : Holding(q)'
      BY <1>5, <3>1
    <3>3. \A u : Coming(u) => Coming(u)'
      BY <1>2, <3>1 DEF Coming, Activates, Enqueuing
    <3>4. Covered'
      BY <1>1, <1>2, <1>3, <3>3 DEF Covered
    <3>5. QED
      BY <1>1, <1>2, <1>4, <3>1, <3>2, <3>4 DEF CoverInv, LockIsLate, Ahead
  <2>2. CASE ~LockHeld
    <3>1. task' = "claimed" /\ task # "idle"
      BY <1>7, <2>2 DEF TaskClaim
    <3>2. now \in Nat /\ lastScan \in Nat /\ lastScan <= now /\ poll.startsAt \in Nat \cup {NoTime}
      BY Numbers DEF TimeInv
    <3>3. poll.startsAt # NoTime /\ poll.startsAt <= lastScan
      BY <3>1 DEF OnceInv, Scanned, Calm, Clean
    <3>4. ~Ahead
      BY <3>2, <3>3 DEF Ahead
    <3>5. \A q \in Requests : Holding(q)'
      BY <1>5, <3>1
    <3>6. Covered'
      BY <3>1 DEF Covered, Coming
    <3>7. QED
      BY <1>2, <1>4, <3>4, <3>5, <3>6 DEF CoverInv, LockIsLate, Ahead
  <2>3. QED
    BY <2>1, <2>2
<1>8. CASE TaskEnqueue
  <2>1. lock' = lock /\ \A u \in audience : Invited(u)'
    BY <1>8 DEF TaskEnqueue, Enqueue, Invited
  <2>2. \A q \in Requests : req[q].pc \notin {"committed", "audience"}
    BY <1>8 DEF TaskEnqueue, Clean
  <2>3. \A q \in Requests : Holding(q)'
    BY <1>5, <2>2
  <2>4. QED
    BY <1>1, <1>2, <1>4, <2>1, <2>3 DEF CoverInv, LockIsLate, Ahead, Covered
<1>9. QED
  BY <1>6, <1>7, <1>8

LEMMA TickCovers ==
    ASSUME TypeOK, CoverInv, Calm, Tick
    PROVE  CoverInv'
<1>1. OneUnderWay /\ LockIsLate /\ Covered /\ \A q \in Requests : Holding(q)
  BY DEF CoverInv
<1>2. UNCHANGED <<poll, audience, lock, req, task, lastScan, invited>> /\ now' = now + 1
  BY DEF Tick
<1>3. ~Ahead => ~Ahead'
  BY <1>2, Numbers DEF Ahead
<1>4. OneUnderWay' /\ LockIsLate'
  BY <1>1, <1>2, <1>3 DEF OneUnderWay, UnderWay, LockIsLate
<1>5. \A q \in Requests : Holding(q)'
  BY <1>1, <1>2, <1>3 DEF Holding, Activates, Invited
<1>6. Covered'
  BY <1>1, <1>2 DEF Covered, Coming, Invited, Activates, Enqueuing
<1>7. QED
  BY <1>4, <1>5, <1>6 DEF CoverInv

LEMMA CoverStep ==
    ASSUME TypeOK, BegunInv, TimeInv, OnceInv, CoverInv, Next
    PROVE  CoverInv'
<1> SUFFICES ASSUME Clean', poll'.status = "ACTIVE" PROVE CoverInv'
  BY DEF CoverInv, Calm
<1>a. Clean
  BY ExcusesGrow DEF Clean
<1>1. ASSUME NEW r \in Requests, NEW status \in Live, NEW startsAt, NEW restricted, NEW users,
             \/ Create(r, status, startsAt, restricted, users)
             \/ EditCommit(r, status, startsAt, restricted, users)
      PROVE  CoverInv'
  BY <1>a, <1>1, CreateCovers, CommitCovers
<1>2. ASSUME NEW r \in Requests, EditLoad(r) \/ EditReject(r), Calm PROVE CoverInv'
  <2>1. Others(r) /\ ~UnderWay(r) /\ ~UnderWay(r)'
    BY <1>2, EditIs, InviteIs DEF EditLoad, EditReject, UnderWay, Idle
  <2>2. \A q \in Requests \ {r} : req'[q] = req[q]
    BY <1>2 DEF EditLoad, EditReject, Done, TypeOK
  <2>3. QED
    BY <1>2, <2>1, <2>2, IdleCovers DEF EditLoad, EditReject
<1>3. ASSUME NEW r \in Requests, RequestStep(r) PROVE CoverInv'
  <2>1. CASE \E status \in Live, startsAt \in Starts \cup {NoTime},
                restricted \in Restrictions, users \in SUBSET Users :
                \/ Create(r, status, startsAt, restricted, users)
                \/ EditCommit(r, status, startsAt, restricted, users)
    BY <1>1, <2>1
  <2>2. CASE AudienceFail(r)
    BY <2>2 DEF AudienceFail, Clean
  <2>3. CASE EditLoad(r) \/ EditReject(r) \/ AudienceBegin(r) \/ AudienceCommit(r) \/ InviteAdded(r)
             \/ ClaimAfterCreate(r) \/ ActivateClaim(r) \/ ActivateSkip(r) \/ ActivateEnqueue(r)
    <3>1. Calm
      BY <1>a, <2>3 DEF Calm, EditLoad, EditReject, AudienceBegin, AudienceCommit, InviteAdded,
         ClaimAfterCreate, ActivateClaim, ActivateSkip, ActivateEnqueue
    <3>2. QED
      BY <1>2, <2>3, <3>1, AudienceCovers, InviteCovers, EndCovers
  <2>4. QED
    BY <1>3, <2>1, <2>2, <2>3 DEF RequestStep
<1>4. CASE Scan \/ TaskClaim \/ TaskEnqueue
  <2>1. Calm
    BY <1>a, <1>4 DEF Calm, Scan, TaskClaim, TaskEnqueue
  <2>2. QED
    BY <1>4, <2>1, TaskCovers
<1>5. CASE ClosePoll \/ DeletePoll
  BY <1>5 DEF ClosePoll, DeletePoll, TypeOK, Row, Gone
<1>6. CASE Crash
  BY <1>6 DEF Crash, Clean
<1>7. CASE Tick
  BY <1>a, <1>7, TickCovers DEF Tick, Calm
<1>8. QED
  BY <1>3, <1>4, <1>5, <1>6, <1>7 DEF Next

LEMMA InitCover == Init => CoverInv
<1>1. Init => poll.status = Absent
  BY DEF Init, NoRow
<1>2. Absent # "ACTIVE"
  BY DEF Absent
<1>3. QED
  BY <1>1, <1>2 DEF CoverInv, Calm

\* Without a request or a run under way, only the start of the poll could still bring an
\* invitation, and it is out of reach.
LEMMA CoverIsEnough ==
    ASSUME TypeOK, TimeInv, CoverInv
    PROVE  NobodyForgotten
<1>1. SUFFICES ASSUME Clean, NEW u \in Users, Forgotten(u) PROVE FALSE
  BY DEF NobodyForgotten, Clean
<1>2. /\ poll.status = "ACTIVE" /\ task = "idle" /\ \A r \in Requests : req[r].pc = "idle"
      /\ poll.startsAt = NoTime \/ poll.startsAt + Window < now
      /\ u \in audience /\ ~Invited(u)
  BY <1>1 DEF Forgotten, Quiet
<1>3. Coming(u)
  BY <1>1, <1>2 DEF CoverInv, Calm, Covered
<1>4. poll.startsAt > lastScan
  BY <1>2, <1>3 DEF Coming, Activates, Enqueuing
<1>5. /\ now \in Nat /\ lastScan \in Nat /\ Window \in Nat /\ now <= lastScan + Window
      /\ poll.startsAt \in Nat \cup {NoTime}
  BY Numbers DEF TimeInv
<1>6. poll.startsAt # NoTime
  BY <1>4, <1>5 DEF NoTime
<1>7. QED
  BY <1>2, <1>4, <1>5, <1>6

\* Everybody in the audience of an open poll is invited, however the requests, the task and
\* the clock interleave, unless something happened that NobodyForgotten lists: somebody is
\* always on the way to those who are not invited yet, and finds the lock free.
THEOREM NobodyForgottenHolds == Spec => []NobodyForgotten
<1>1. TypeOK /\ BegunInv /\ TimeInv /\ OnceInv /\ CoverInv /\ [Next]_vars
        => BegunInv' /\ TimeInv' /\ OnceInv' /\ CoverInv'
  <2>1. SUFFICES ASSUME TypeOK, BegunInv, TimeInv, OnceInv, CoverInv, [Next]_vars
                 PROVE  BegunInv' /\ TimeInv' /\ OnceInv' /\ CoverInv'
    OBVIOUS
  <2>2. CASE Next
    BY <2>1, <2>2, BegunStep, TimeStep, OnceStep, CoverStep
  <2>3. CASE UNCHANGED vars
    <3>1. BegunInv' /\ TimeInv' /\ OnceInv'
      BY <2>1, <2>3 DEF vars, BegunInv, RequestBegun, Begun, TimeInv, OnceInv, Scanned, LockLasts,
         AtMostOne, Dispatched, Enqueuing, MayActivate, Activates, Settled, Creation, Creating
    <3>2. CoverInv'
      BY <2>1, <2>3 DEF vars, CoverInv, Calm, Clean, OneUnderWay, UnderWay, LockIsLate, Ahead, Covered,
         Coming, Invited, Holding, Activates, Enqueuing
    <3>3. QED
      BY <3>1, <3>2
  <2>4. QED
    BY <2>1, <2>2, <2>3
<1>2. TypeOK /\ TimeInv /\ CoverInv => NobodyForgotten
  BY CoverIsEnough
<1>3. QED
  BY <1>1, <1>2, InitBegun, InitTime, InitOnce, InitCover, TypeCorrect, PTL DEF Spec
=============================================================================
