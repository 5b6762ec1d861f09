------------------------------ MODULE Identity ------------------------------
(***************************************************************************)
(* Accounts and who is a superuser.  users.is_active and users.is_superuser *)
(* are written by administrators, the command line, the SCIM client, every  *)
(* login and, when SUPERUSER_GROUP is set, every change of a SCIM group.    *)
(*                                                                         *)
(* A request is a thread with a database session: it loads rows in one step *)
(* and writes in a later one.  The session writes only the columns that     *)
(* differ from what it loaded.  PostgreSQL runs READ COMMITTED: a statement *)
(* sees what is committed when it begins and its own transaction's writes,  *)
(* and waits for rows another transaction has written.                     *)
(*                                                                         *)
(* A person stands for an id: a deleted one does not come back.  One group, *)
(* which may be renamed, deleted and created anew under a new id.  The      *)
(* attributes that only describe a person or a group are left out.         *)
(***************************************************************************)
EXTENDS Integers, FiniteSets, Sequences, SequencesExt

CONSTANTS
    Persons,
    Requests,     \* bound: one id per request
    Changes       \* what the SCIM client asks of the group: sequences of operations

Columns == {"is_active", "is_superuser"}
Names == {"target", "other"}              \* "target" is SUPERUSER_GROUP
Operation == [op : {"rename"}, name : Names]
        \cup [op : {"replace", "add", "remove"}, users : SUBSET Persons]

ASSUME IdentityAssumption ==
    /\ Changes \subseteq Seq(Operation)
    /\ {"cli", "scim"} \cap Persons = {}     \* these write too, on nobody's behalf

VARIABLES
    configured,   \* SUPERUSER_GROUP is set
    rows,         \* ids in users
    gone,         \* ids that were deleted
    cols,         \* per id: the columns that are true
    group,        \* the group's id and canonical_name
    members,      \* user_groups
    req,          \* per request: where it is and what it holds
    excuses       \* history: what may keep the flag from following the group,
                  \* or leave nobody in charge

users == <<rows, gone, cols>>
groups == <<group, members>>
vars == <<configured, users, groups, req, excuses>>

Active == {p \in rows : "is_active" \in cols[p]}
Supers == {p \in rows : "is_superuser" \in cols[p]}
InCharge == Active \cap Supers

Target == IF group.name = "target" THEN members ELSE {}

Unused == [pc |-> "unused"]
Done == [pc |-> "done"]

At(r, pcs) == req[r].pc \in pcs
End(r) == req' = [req EXCEPT ![r] = Done]

Syncing == {"found", "granted", "revoked"}
Writing == {"opened", "replaced"}

\* Nobody is deactivated, the superusers are the group's members or, without
\* SUPERUSER_GROUP, whoever was granted it, at least one.
Init ==
    /\ configured \in BOOLEAN
    /\ rows \in SUBSET Persons \ {{}} /\ gone = {}
    /\ group \in [id : {0}, name : IF configured THEN Names ELSE {"absent"}]
    /\ members \in SUBSET rows /\ (~configured => members = {})
    /\ \E s \in SUBSET rows :
        /\ IF configured THEN s = Target ELSE s # {}
        /\ cols = [p \in Persons |-> {c \in Columns : p \in rows /\ (c = "is_superuser" => p \in s)}]
    /\ req = [r \in Requests |-> Unused]
    /\ excuses = {}

\* Rows of users that a transaction has written and not committed.
LockedBy(r) == IF At(r, {"granted", "revoked"}) THEN req[r].grant \cup req[r].revoke ELSE {}
Free(r, p) == \A q \in Requests \ {r} : p \notin LockedBy(q)

\* Whoever is in a group transaction or a sync was not alone.
Disturb(f, r) ==
    [q \in Requests |-> IF q # r /\ At(q, Writing \cup Syncing)
                        THEN [f[q] EXCEPT !.alone = FALSE] ELSE f[q]]
-----------------------------------------------------------------------------
(* One user's row: administrators, the command line, SCIM. *)

Want(on, off) == [on |-> on, off |-> off]
Delete == Want({}, Columns)
Demotion(w) == w.off # {}

AdminWants == {Want({c}, {}) : c \in Columns} \cup {Want({}, {c}) : c \in Columns}
CliWants == {Want({"is_superuser"}, {}), Want({}, {"is_superuser"})}
ScimWants == {Want({"is_active"}, {}), Want({}, {"is_active"}), Want({}, {})}

\* Mutant: one may demote oneself.
AdminCheckAnyone(r, by, p, w) ==
    /\ At(r, {"unused"})
    /\ by \in InCharge
    /\ req' = [req EXCEPT ![r] = [pc |-> "checked", by |-> by, who |-> p, want |-> w]]
    /\ UNCHANGED <<configured, users, groups, excuses>>

\* load_current_user and require_superuser read the administrator's row in a session
\* of their own; nobody demotes himself.
AdminCheck(r, by, p, w) ==
    /\ At(r, {"unused"})
    /\ by \in InCharge /\ (Demotion(w) => p # by)
    /\ req' = [req EXCEPT ![r] = [pc |-> "checked", by |-> by, who |-> p, want |-> w]]
    /\ UNCHANGED <<configured, users, groups, excuses>>

\* The service loads the row; without one there is nothing to do.
AdminLoad(r) ==
    /\ At(r, {"checked"})
    /\ req[r].who \in rows => req[r].want # Delete
    /\ IF req[r].who \in rows
       THEN req' = [req EXCEPT ![r] = [pc |-> "loaded", by |-> @.by, who |-> @.who,
                                       want |-> @.want, seen |-> cols[@.who]]]
       ELSE End(r)
    /\ UNCHANGED <<configured, users, groups, excuses>>

\* PUT, PATCH, DELETE and the adopting POST of SCIM, superuser grant and revoke of the
\* command line.
Load(r, by, p, w) ==
    /\ At(r, {"unused"}) /\ p \in rows
    /\ req' = [req EXCEPT ![r] = [pc |-> "loaded", by |-> by, who |-> p, want |-> w,
                                  seen |-> cols[p]]]
    /\ UNCHANGED <<configured, users, groups, excuses>>

\* Mutant: every column is written.
WriteBackAll(c, q) == (c \ q.want.off) \cup q.want.on

\* The columns that differ from what the session has loaded.
WriteBack(c, q) == (c \ (q.want.off \cap q.seen)) \cup (q.want.on \ q.seen)

\* An administrator's demotion of one who has a demotion of his own under way.
Crossed(r) ==
    \E q \in Requests \ {r} : /\ At(q, {"checked", "loaded"})
                              /\ req[q].by = req[r].who
                              /\ Demotion(req[q].want)

\* What a write by r may bring about.
Blame(r) ==
    IF configured
    THEN IF "is_superuser" \in req[r].want.on \cup req[r].want.off THEN {"by hand"} ELSE {}
    ELSE IF ~Demotion(req[r].want) THEN {}
    ELSE IF req[r].by \notin Persons THEN {req[r].by}
    ELSE IF Crossed(r) THEN {"crossed"} ELSE {}

Commit(r) ==
    LET q == req[r]
    IN  /\ At(r, {"loaded"})
        /\ q.who \in rows /\ Free(r, q.who)
        /\ cols' = [cols EXCEPT ![q.who] = WriteBack(@, q)]
        /\ req' = Disturb([req EXCEPT ![r] = Done], r)
        /\ excuses' = IF cols' = cols THEN excuses ELSE excuses \cup Blame(r)
        /\ UNCHANGED <<configured, rows, gone, groups>>

\* delete_user_and_artifacts: the memberships go with the row.
AdminDelete(r) ==
    LET p == req[r].who
    IN  /\ At(r, {"checked"}) /\ req[r].want = Delete
        /\ p \in rows /\ Free(r, p)
        /\ \A q \in Requests : At(q, {"replaced"}) => p \notin req[q].cleared
        /\ rows' = rows \ {p} /\ gone' = gone \cup {p}
        /\ cols' = [cols EXCEPT ![p] = {}]
        /\ members' = members \ {p}
        /\ End(r)
        /\ excuses' = IF configured THEN excuses ELSE excuses \cup Blame(r)
        /\ UNCHANGED <<configured, group>>
-----------------------------------------------------------------------------
(* Rows that come into being: POST /Users and the first login. *)

Insert(p, c) == rows' = rows \cup {p} /\ cols' = [cols EXCEPT ![p] = c]

\* POST /Users finds nobody and inserts; the unique external_id may be taken by then.
ScimMiss(r, p, active) ==
    /\ At(r, {"unused"}) /\ p \notin rows \cup gone
    /\ req' = [req EXCEPT ![r] = [pc |-> "missed", who |-> p, active |-> active]]
    /\ UNCHANGED <<configured, users, groups, excuses>>

ScimInsert(r) ==
    LET q == req[r]
    IN  /\ At(r, {"missed"})
        /\ IF q.who \in rows \cup gone THEN UNCHANGED users
           ELSE Insert(q.who, IF q.active THEN {"is_active"} ELSE {}) /\ UNCHANGED gone
        /\ End(r)
        /\ UNCHANGED <<configured, groups, excuses>>

\* The callback turns an inactive user away.
LoginRead(r, p, claim) ==
    /\ At(r, {"unused"}) /\ p \notin gone
    /\ p \in rows => p \in Active
    /\ req' = [req EXCEPT ![r] = [pc |-> "met", who |-> p, claim |-> claim]]
    /\ UNCHANGED <<configured, users, groups, excuses>>

\* INSERT ... ON CONFLICT DO UPDATE, which touches neither flag.
LoginUpsert(r) ==
    LET p == req[r].who
    IN  /\ At(r, {"met"}) /\ p \notin gone /\ Free(r, p)
        /\ IF p \in rows THEN UNCHANGED users ELSE Insert(p, {"is_active"}) /\ UNCHANGED gone
        /\ req' = [req EXCEPT ![r].pc = "upserted"]
        /\ UNCHANGED <<configured, groups, excuses>>

\* sync_superuser_from_oidc_groups, from the groups claim.
ClaimLoad(r) ==
    LET p == req[r].who
    IN  /\ At(r, {"upserted"})
        /\ IF configured /\ p \in rows /\ (p \in Supers) # req[r].claim
           THEN req' = [req EXCEPT ![r].pc = "claiming"]
           ELSE End(r)
        /\ UNCHANGED <<configured, users, groups, excuses>>

ClaimCommit(r) ==
    LET p == req[r].who
    IN  /\ At(r, {"claiming"}) /\ p \in rows /\ Free(r, p)
        /\ cols' = [cols EXCEPT ![p] = IF req[r].claim THEN @ \cup {"is_superuser"}
                                       ELSE @ \ {"is_superuser"}]
        /\ excuses' = IF req[r].claim # (p \in Target) THEN excuses \cup {"claim"} ELSE excuses
        /\ req' = Disturb([req EXCEPT ![r] = Done], r)
        /\ UNCHANGED <<configured, rows, gone, groups>>
-----------------------------------------------------------------------------
(* The group. *)

Of(ops, kind) == {i \in DOMAIN ops : ops[i].op = kind}
Has(ops, kind) == Of(ops, kind) # {}
LastOf(ops, kind) == ops[Max(Of(ops, kind))]
UsersOf(ops, kind) == UNION {ops[i].users : i \in Of(ops, kind)}

\* Mutant: a replace is taken for an add.
CollapseReplaceAdds(ops) ==
    [names |-> {ops[i].name : i \in Of(ops, "rename")},
     replaces |-> FALSE,
     add |-> UsersOf(ops, "add") \cup UsersOf(ops, "replace"),
     remove |-> UsersOf(ops, "remove")]

\* group_patch_to_actions: the last name and the last replacement, then whatever is
\* added, then whatever is removed.  A PUT is a rename and a replace.
Collapse(ops) ==
    [names |-> IF Has(ops, "rename") THEN {LastOf(ops, "rename").name} ELSE {},
     replaces |-> Has(ops, "replace"),
     add |-> UsersOf(ops, "add")
             \cup (IF Has(ops, "replace") THEN LastOf(ops, "replace").users ELSE {}),
     remove |-> UsersOf(ops, "remove")]

Renames(q) == \E n \in Collapse(q.ops).names : n # q.name

\* PUT, PATCH and the adopting POST load the group.
GroupOpen(r, ops) ==
    /\ At(r, {"unused"}) /\ group.name # "absent"
    /\ req' = [req EXCEPT ![r] = [pc |-> "opened", ops |-> ops, id |-> group.id,
                                  name |-> group.name, cleared |-> {}, alone |-> TRUE]]
    /\ UNCHANGED <<configured, users, groups, excuses>>

\* Nobody else has deleted one of these memberships, or written the group.
FreeMembers(r, ps) ==
    \A q \in Requests \ {r} : At(q, {"replaced"}) => req[q].cleared \cap ps = {}
FreeGroup(r) ==
    \A q \in Requests \ {r} : At(q, {"replaced"}) => ~Renames(req[q])

\* The UPDATE of the group, flushed by the first statement, and the DELETE of all its
\* memberships, if the request has one.
GroupReplace(r) ==
    LET q == req[r]
    IN  /\ At(r, {"opened"})
        /\ q.id = group.id /\ group.name # "absent"
        /\ Renames(q) => FreeGroup(r)
        /\ LET cleared == IF Collapse(q.ops).replaces THEN members ELSE {}
           IN  /\ FreeMembers(r, cleared)
               /\ req' = [req EXCEPT ![r].pc = "replaced", ![r].cleared = cleared]
        /\ UNCHANGED <<configured, users, groups, excuses>>

Committed(r) == [req EXCEPT ![r] = [pc |-> "committed"]]

\* Mutant: ids nobody has are added.
ValidUnchecked(ps) == ps

\* _add_members skips unknown ids.
Valid(ps) == ps \cap rows

\* The memberships added, of users there are, those removed, and COMMIT.
GroupCommit(r) ==
    LET q == req[r]
        asked == Collapse(q.ops)
    IN  /\ At(r, {"replaced"})
        /\ q.id = group.id /\ group.name # "absent"
        /\ FreeMembers(r, asked.add \cup asked.remove)
        /\ members' = ((members \ q.cleared) \cup Valid(asked.add)) \ asked.remove
        /\ group' = IF Renames(q) THEN [group EXCEPT !.name = CHOOSE n \in asked.names : TRUE]
                    ELSE group
        /\ req' = Disturb(Committed(r), r)
        /\ UNCHANGED <<configured, users, excuses>>

\* POST /Groups.
GroupCreate(r, name, ps) ==
    /\ At(r, {"unused"}) /\ group.name = "absent"
    /\ group' = [id |-> group.id + 1, name |-> name]
    /\ members' = Valid(ps)
    /\ req' = Disturb(Committed(r), r)
    /\ UNCHANGED <<configured, users, excuses>>

\* DELETE /Groups.
GroupDelete(r) ==
    /\ At(r, {"unused"}) /\ group.name # "absent"
    /\ FreeMembers(r, members) /\ FreeGroup(r)
    /\ group' = [group EXCEPT !.name = "absent"]
    /\ members' = {}
    /\ req' = Disturb(Committed(r), r)
    /\ UNCHANGED <<configured, users, excuses>>
-----------------------------------------------------------------------------
(* sync_superusers_from_group, after every change of the group. *)

OtherSyncs(r) == {q \in Requests \ {r} : At(q, Syncing)}

\* The SELECT of the group's id.
SyncFind(r) ==
    /\ At(r, {"committed"})
    /\ IF configured
       THEN /\ req' = [req EXCEPT ![r] =
                   [pc |-> "found", id |-> IF group.name = "target" THEN group.id ELSE -1,
                    grant |-> {}, revoke |-> {}, alone |-> TRUE]]
            /\ excuses' = IF OtherSyncs(r) # {} THEN excuses \cup {"two syncs"} ELSE excuses
       ELSE End(r) /\ UNCHANGED excuses
    /\ UNCHANGED <<configured, users, groups>>

\* The members of the group whose id was found, as committed now.
MembersOf(q) == IF q.id = group.id THEN members ELSE {}

\* Members get the flag.  Without such a group, this statement is skipped.
SyncGrant(r) ==
    LET grant == (MembersOf(req[r]) \cap rows) \ Supers
    IN  /\ At(r, {"found"})
        /\ \A p \in grant : Free(r, p)
        /\ req' = [req EXCEPT ![r].pc = "granted", ![r].grant = grant]
        /\ UNCHANGED <<configured, users, groups, excuses>>

\* Mutant: only the members of a group that exists are looked at.
RevokedIfFound(q) == IF q.id = -1 THEN {} ELSE (Supers \cup q.grant) \ MembersOf(q)

\* Everyone else loses it.
Revoked(q) == (Supers \cup q.grant) \ MembersOf(q)

SyncRevoke(r) ==
    /\ At(r, {"granted"})
    /\ \A p \in Revoked(req[r]) : Free(r, p)
    /\ req' = [req EXCEPT ![r].pc = "revoked", ![r].revoke = Revoked(req[r])]
    /\ UNCHANGED <<configured, users, groups, excuses>>

\* A sync nobody interfered with makes up for whatever went wrong before.
SyncCommit(r) ==
    LET q == req[r]
    IN  /\ At(r, {"revoked"})
        /\ cols' = [p \in Persons |->
               IF p \in q.revoke THEN cols[p] \ {"is_superuser"}
               ELSE IF p \in q.grant THEN cols[p] \cup {"is_superuser"} ELSE cols[p]]
        /\ req' = Disturb([req EXCEPT ![r] = Done], r)
        /\ excuses' = IF q.alone /\ OtherSyncs(r) = {} THEN {} ELSE excuses
        /\ UNCHANGED <<configured, rows, gone, groups>>

\* An error or the end of the worker: the transaction is rolled back.
Abort(r) ==
    /\ ~At(r, {"unused", "done"})
    /\ excuses' = IF configured /\ At(r, {"committed"} \cup Syncing)
                  THEN excuses \cup {"no sync"} ELSE excuses
    /\ End(r)
    /\ UNCHANGED <<configured, users, groups>>

UserStep(r) ==
    \/ \E p \in Persons : \E by \in Persons :
        \E w \in AdminWants \cup {Delete} : AdminCheck(r, by, p, w)
    \/ AdminLoad(r) \/ AdminDelete(r) \/ Commit(r)
    \/ \E p \in Persons : \/ \E w \in CliWants : Load(r, "cli", p, w)
                          \/ \E w \in ScimWants : Load(r, "scim", p, w)
                          \/ \E b \in BOOLEAN : ScimMiss(r, p, b) \/ LoginRead(r, p, b)
    \/ ScimInsert(r) \/ LoginUpsert(r) \/ ClaimLoad(r) \/ ClaimCommit(r)

GroupStep(r) ==
    \/ \E ops \in Changes : GroupOpen(r, ops)
    \/ GroupReplace(r) \/ GroupCommit(r) \/ GroupDelete(r)
    \/ \E n \in Names, ps \in SUBSET Persons : GroupCreate(r, n, ps)
    \/ SyncFind(r) \/ SyncGrant(r) \/ SyncRevoke(r) \/ SyncCommit(r)

Next == \E r \in Requests : UserStep(r) \/ GroupStep(r) \/ Abort(r)

Spec == Init /\ [][Next]_vars
-----------------------------------------------------------------------------
(* Properties. *)

Quiet == \A r \in Requests : At(r, {"unused", "done"})

\* A membership needs a user and a group, and only an id there is has columns.
TypeOK ==
    /\ configured \in BOOLEAN
    /\ rows \subseteq Persons /\ gone \subseteq Persons \ rows
    /\ cols \in [Persons -> SUBSET Columns]
    /\ \A p \in Persons : cols[p] # {} => p \in rows
    /\ group.id \in Nat /\ group.name \in Names \cup {"absent"}
    /\ members \subseteq rows /\ (group.name = "absent" => members = {})
    /\ excuses \subseteq {"by hand", "cli", "scim", "crossed", "claim", "two syncs", "no sync"}

\* .env.example on SUPERUSER_GROUP: "SCIM group changes also re-derive is_superuser".
\* When nothing is under way the superusers are the group's members, unless a login
\* claimed otherwise, somebody set a flag by hand, two syncs overlapped or one did not
\* come about, and no undisturbed sync has followed.
FlagFollowsGroup == configured /\ Quiet /\ excuses = {} => Supers = Target

\* Without SUPERUSER_GROUP the last one in charge is never lost to administrators,
\* unless one of them was demoted while demoting another.
SomeoneLeft ==
    ~configured /\ InCharge = {} => excuses \cap {"cli", "scim", "crossed"} # {}

\* A deactivated account is reactivated only by a request that found it inactive and
\* is to activate it: not by a login, nor by one that loaded it while it was active.
DeactivationHolds ==
    [][\A p \in rows \ Active : p \in Active' =>
        \E r \in Requests : /\ At(r, {"loaded"}) /\ req'[r] = Done
                            /\ req[r].who = p /\ "is_active" \in req[r].want.on
                            /\ "is_active" \notin req[r].seen]_vars

\* What the operations mean one after the other (RFC 7644, 3.5.2).
Effect(o, ps) ==
    CASE o.op = "replace" -> o.users
      [] o.op = "add" -> ps \cup o.users
      [] o.op = "remove" -> ps \ o.users
      [] OTHER -> ps

Meaning(ops, ps) ==
    LET after[n \in 0 .. Len(ops)] == IF n = 0 THEN ps ELSE Effect(ops[n], after[n - 1])
    IN  after[Len(ops)]

\* A replace after another change, or a user added after being removed.
Tangled(ops) ==
    \E i, j \in DOMAIN ops : i < j /\
        \/ ops[j].op = "replace" /\ ops[i].op \in {"add", "remove"}
        \/ ops[j].op = "add" /\ ops[i].op = "remove" /\ ops[i].users \cap ops[j].users # {}

\* Collecting the operations of a PATCH into one replacement, one addition and one
\* removal does what they say in their order, as long as they are not tangled and no
\* other change of the group comes in between.
MembersAsAsked ==
    [][\A r \in Requests :
        At(r, {"replaced"}) /\ req'[r].pc = "committed" /\ req[r].alone
            /\ ~Tangled(req[r].ops)
        => members' = Meaning(req[r].ops, members) \cap rows]_vars
=============================================================================
