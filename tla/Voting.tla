------------------------------- MODULE Voting -------------------------------
(***************************************************************************)
(* The requests that change the ballots of one poll, and what happens to    *)
(* the ballots when they overlap: submit and withdraw (any voter), add an   *)
(* option of one's own, save the form and clear all responses (the owner),  *)
(* and the task that closes a poll whose time is over.                      *)
(*                                                                         *)
(* A request runs in a process of its own.  It loads the poll row once and  *)
(* decides on that copy; what it changes becomes visible at its commit, one *)
(* action, since the unique constraint on (poll, user) and the foreign keys *)
(* make conflicting commits wait for one another (READ COMMITTED).  All     *)
(* Voters may view the poll.  The form's dates are left as they are here;   *)
(* its status, its audience and the mails are in PollLifecycle and          *)
(* Invitations, the matching of its options in full in OptionSync.          *)
(***************************************************************************)
EXTENDS Integers, FiniteSets

CONSTANTS
    Labels,       \* the values an option can have
    Copies,       \* bound: how often an option with the same label is created
    Groups,       \* the option groups on the form
    NoGroup,      \* group_id IS NULL
    Voters,
    Requests,     \* bound: the requests under way at the same time
    Marks,        \* bound: the statuses voters use
    Form,         \* the forms the owner may send: a row, the options listed, the caps
    MaxEdits      \* bound: how often the form is saved

\* An option id: the n-th option created with a label.
Options == Labels \X (1 .. Copies)
Label(o) == o[1]

INSTANCE Ballots

PollStatuses == {"DRAFT", "ACTIVE", "CLOSED"}

Row == {row \in [status : PollStatuses, mode : Modes, maxYes : Nat,
                 allowEdit : BOOLEAN, allowCustom : BOOLEAN] :
          row.mode # "MULTI_CHOICE" => row.maxYes = Unlimited}

\* Groups of the options listed on a form; no label is listed twice.
Listings == UNION {[listed -> Groups \cup {NoGroup}] : listed \in SUBSET Labels}

ASSUME VotingAssumption ==
    /\ NoGroup \notin Groups
    /\ Marks \subseteq Statuses
    /\ \A form \in Form : /\ form.row \in Row /\ form.listing \in Listings
                          /\ form.cap \in [Groups -> Nat]
                          /\ form.row.status = "ACTIVE" => form.listing # << >>
    /\ Copies \in Nat \ {0} /\ MaxEdits \in Nat

VARIABLES
    poll,         \* the row: status, mode, maxYes, allowEdit, allowCustom
    window,       \* where now is in starts_at .. ends_at
    option,       \* the options there are, with their groups
    custom,       \* those of them that voters added
    spent,        \* the ids handed out so far
    cap,          \* max_selections of each group
    ballots,      \* voters with a response: its votes, and the version it was let in at
    version,      \* how often the form was saved
    req           \* the requests

vars == <<poll, window, option, custom, spent, cap, ballots, version, req>>
settings == <<poll, window, cap, version>>

\* What a voter's page may hold: votes for options there are or were.
Cast == UNION {[shown -> Marks] : shown \in SUBSET spent}

Existing == DOMAIN option
Regular  == Existing \ custom

CurrentRules ==
    [mode |-> poll.mode, maxYes |-> poll.maxYes, cap |-> cap,
     group |-> [o \in Options |-> IF o \in Existing THEN option[o] ELSE NoGroup]]

Idle == [pc |-> "idle"]
Begin(r, record) == req[r] = Idle /\ req' = [req EXCEPT ![r] = record]
At(r, pc) == req[r].pc = pc
End(r) == req' = [req EXCEPT ![r] = Idle]

\* The id of the next option with a label.
NextCopy(l) == <<l, 1 + Cardinality({o \in spent : Label(o) = l})>>

Init ==
    /\ \E form \in {f \in Form : f.row.status # "CLOSED"} :
          /\ poll = form.row /\ cap = form.cap
          /\ spent = {<<l, 1>> : l \in DOMAIN form.listing}
          /\ option = [o \in spent |-> form.listing[Label(o)]]
    /\ window \in {"before", "open"}
    /\ custom = {}
    /\ ballots = << >>
    /\ version = 0
    /\ req = [r \in Requests |-> Idle]

-----------------------------------------------------------------------------
(* Voters. *)

\* user_can_vote_on_poll
Open == poll.status = "ACTIVE" /\ window = "open"
CanVote == Open
CanEdit == Open /\ poll.allowEdit

HasResponse(v) == v \in DOMAIN ballots

\* Mutant: the rule of ARCHITECTURE.md, "Two-stage guard".
AllowedAsDocumented(v) == CanVote \/ (HasResponse(v) /\ CanEdit)

\* Whether POST /polls/<id>/vote gets past 409.
Allowed(v) == (CanVote /\ ~HasResponse(v)) \/ (HasResponse(v) /\ CanEdit)

\* The poll is loaded, the guard evaluated, the voter's response looked up.
VoteLoad(r, v, votes) ==
    /\ Allowed(v)
    /\ Begin(r, [pc |-> "voting", voter |-> v, votes |-> votes, mode |-> poll.mode,
                 maxYes |-> poll.maxYes, version |-> version,
                 first |-> ~HasResponse(v), mayEdit |-> CanEdit])
    /\ UNCHANGED <<settings, option, custom, spent, ballots>>

LoadedRules(r) == [CurrentRules EXCEPT !.mode = req[r].mode, !.maxYes = req[r].maxYes]

\* Mutant: the caps of groups bind only where several choices are counted.
VoteCheckMode(r) ==
    LET votes == Filtered(req[r].votes, Existing)
        rules == LoadedRules(r)
    IN  /\ At(r, "voting") /\ Existing # {}
        /\ ModeAccepts(rules, votes)
        /\ rules.mode = "MULTI_CHOICE" => GroupsAccept(rules, votes)
        /\ req' = [req EXCEPT ![r].pc = "checked", ![r].votes = votes]
        /\ UNCHANGED <<settings, option, custom, spent, ballots>>

\* submit_response reads options and groups afresh; mode and max_yes_choices are
\* those of the row loaded before.
VoteCheck(r) ==
    LET votes == Filtered(req[r].votes, Existing)
    IN  /\ At(r, "voting") /\ Existing # {}
        /\ Accepts(LoadedRules(r), votes)
        /\ req' = [req EXCEPT ![r].pc = "checked", ![r].votes = votes]
        /\ UNCHANGED <<settings, option, custom, spent, ballots>>

\* The upsert, the old votes deleted and the new ones inserted.  A vote for an option
\* that is gone by now breaks a foreign key, and the request fails.
VoteCommit(r) ==
    /\ At(r, "checked")
    /\ DOMAIN req[r].votes \subseteq Existing
    /\ ballots' = [v \in DOMAIN ballots \cup {req[r].voter} |->
                     IF v = req[r].voter
                     THEN [votes |-> req[r].votes, version |-> req[r].version]
                     ELSE ballots[v]]
    /\ End(r)
    /\ UNCHANGED <<settings, option, custom, spent>>

WithdrawLoad(r, v) ==
    /\ HasResponse(v) /\ CanEdit
    /\ Begin(r, [pc |-> "withdrawing", voter |-> v, first |-> FALSE, mayEdit |-> CanEdit])
    /\ UNCHANGED <<settings, option, custom, spent, ballots>>

\* delete_user_response; the response may be gone already.
Without(voters) == [v \in DOMAIN ballots \ voters |-> ballots[v]]

WithdrawCommit(r) ==
    /\ At(r, "withdrawing")
    /\ ballots' = Without({req[r].voter})
    /\ End(r)
    /\ UNCHANGED <<settings, option, custom, spent>>

AddLoad(r, l) ==
    /\ poll.allowCustom /\ CanVote
    /\ Begin(r, [pc |-> "adding", label |-> l])
    /\ UNCHANGED <<settings, option, custom, spent, ballots>>

\* add_custom_option; its value may be that of another option.
AddCommit(r) ==
    LET o == NextCopy(req[r].label)
    IN  /\ At(r, "adding")
        /\ o \in Options
        /\ option' = [p \in Existing \cup {o} |-> IF p = o THEN NoGroup ELSE option[p]]
        /\ custom' = custom \cup {o}
        /\ spent' = spent \cup {o}
        /\ End(r)
        /\ UNCHANGED <<settings, ballots>>

-----------------------------------------------------------------------------
(* The owner. *)

AllowedTransitions ==
    [DRAFT |-> {"DRAFT", "ACTIVE"}, ACTIVE |-> {"ACTIVE", "CLOSED"}, CLOSED |-> {"CLOSED"}]

Votes == {vote \in (DOMAIN ballots) \X Existing : vote[2] \in DOMAIN ballots[vote[1]].votes}

\* Mutant: renamed and removed options are told from moved ones by their number.
DestructiveByCount(form) ==
    /\ DOMAIN ballots # {}
    /\ Cardinality(Regular) > Cardinality(DOMAIN form.listing)

\* count_responses() > 0 and options_have_destructive_changes()
Destructive(form) ==
    /\ DOMAIN ballots # {}
    /\ \E o \in Regular : Label(o) \notin DOMAIN form.listing

\* A form that destroys votes comes back with a warning unless it carries
\* confirm_destructive.  The owner saves one form at a time.
EditLoad(r, form, confirmed) ==
    /\ \A s \in Requests : ~At(s, "editing")
    /\ version < MaxEdits
    /\ Destructive(form) => confirmed
    /\ form.row.status \in AllowedTransitions[poll.status]
    /\ Begin(r, [pc |-> "editing", form |-> form, confirmed |-> confirmed,
                 loaded |-> poll, seen |-> Votes])
    /\ UNCHANGED <<settings, option, custom, spent, ballots>>

\* The columns that differ from the loaded row are written.
WriteBack(loaded, row) ==
    [f \in DOMAIN row |-> IF row[f] # loaded[f] THEN row[f] ELSE poll[f]]

\* Mutant: the votes are left behind.
KeepVotesAll(kept) == ballots

\* Deleting an option deletes its votes.
KeepVotes(kept) ==
    [v \in DOMAIN ballots |-> [ballots[v] EXCEPT !.votes = Filtered(@, kept)]]

\* Mutant: options are matched whoever added them.
EditCommitAll(r) ==
    LET listing == req[r].form.listing
        listed  == DOMAIN listing
        kept    == {o \in Existing : Label(o) \in listed}
        new     == {NextCopy(l) : l \in listed \ {Label(o) : o \in kept}}
    IN  /\ At(r, "editing")
        /\ new \subseteq Options
        /\ poll' = WriteBack(req[r].loaded, req[r].form.row)
        /\ option' = [o \in kept \cup new |-> listing[Label(o)]]
        /\ custom' = custom \cap kept
        /\ spent' = spent \cup new
        /\ cap' = req[r].form.cap
        /\ ballots' = KeepVotes(kept)
        /\ version' = version + 1
        /\ End(r)
        /\ UNCHANGED window

\* update_poll: the row, the groups and the options, matched by label; options that
\* voters added are not on the form and stay.
EditCommit(r) ==
    LET listing == req[r].form.listing
        listed  == DOMAIN listing
        kept    == {o \in Regular : Label(o) \in listed}
        new     == {NextCopy(l) : l \in listed \ {Label(o) : o \in kept}}
    IN  /\ At(r, "editing")
        /\ new \subseteq Options
        /\ poll' = WriteBack(req[r].loaded, req[r].form.row)
        /\ option' = [o \in kept \cup new \cup custom |->
                        IF o \in custom THEN option[o] ELSE listing[Label(o)]]
        /\ spent' = spent \cup new
        /\ cap' = req[r].form.cap
        /\ ballots' = KeepVotes(kept \cup custom)
        /\ version' = version + 1
        /\ End(r)
        /\ UNCHANGED <<window, custom>>

\* clear_responses lists the responses, then deletes those.
ClearLoad(r) ==
    /\ Begin(r, [pc |-> "clearing", voters |-> DOMAIN ballots])
    /\ UNCHANGED <<settings, option, custom, spent, ballots>>

ClearCommit(r) ==
    /\ At(r, "clearing")
    /\ ballots' = Without(req[r].voters)
    /\ End(r)
    /\ UNCHANGED <<settings, option, custom, spent>>

-----------------------------------------------------------------------------
(* Time, the close task, failures. *)

Tick ==
    /\ window' \in {IF window = "before" THEN "open" ELSE "over"} \ {window}
    /\ UNCHANGED <<poll, option, custom, spent, cap, ballots, version, req>>

CloseDue ==
    /\ window = "over" /\ poll.status = "ACTIVE"
    /\ poll' = [poll EXCEPT !.status = "CLOSED"]
    /\ UNCHANGED <<window, option, custom, spent, cap, ballots, version, req>>

\* A rejected ballot, a broken foreign key, a database error, a dead worker.
Abort(r) ==
    /\ req[r] # Idle
    /\ End(r)
    /\ UNCHANGED <<settings, option, custom, spent, ballots>>

Next ==
    \/ \E r \in Requests :
          \/ \E v \in Voters : \/ \E votes \in Cast : VoteLoad(r, v, votes)
                               \/ WithdrawLoad(r, v)
          \/ VoteCheck(r) \/ VoteCommit(r) \/ WithdrawCommit(r)
          \/ \E l \in Labels : AddLoad(r, l)
          \/ AddCommit(r)
          \/ \E form \in Form, confirmed \in BOOLEAN : EditLoad(r, form, confirmed)
          \/ EditCommit(r) \/ ClearLoad(r) \/ ClearCommit(r) \/ Abort(r)
    \/ Tick \/ CloseDue

Spec == Init /\ [][Next]_vars

-----------------------------------------------------------------------------
(* Properties. *)

TypeOK ==
    /\ poll \in Row
    /\ window \in {"before", "open", "over"}
    /\ spent \subseteq Options /\ Existing \subseteq spent /\ custom \subseteq Existing
    /\ \A o \in Existing : option[o] \in Groups \cup {NoGroup}
    /\ \A o, p \in Regular : Label(o) = Label(p) => o = p
    /\ cap \in [Groups -> Nat]
    /\ DOMAIN ballots \subseteq Voters
    /\ \A v \in DOMAIN ballots :
          /\ DOMAIN ballots[v].votes \subseteq Existing
          /\ \A o \in DOMAIN ballots[v].votes : ballots[v].votes[o] \in Marks
          /\ ballots[v].version \in 0 .. version
    /\ version \in 0 .. MaxEdits

\* A ballot let in under the settings as they are now keeps their limits, whatever
\* options came and went.  (An edit may tighten the limits: ballots stored before, and
\* those let in before and stored after, are not looked at again.)
BallotWithinLimits ==
    \A v \in DOMAIN ballots :
        ballots[v].version = version => Accepts(CurrentRules, ballots[v].votes)

Finishes(r, pcs) == req[r].pc \in pcs /\ req'[r] = Idle
Stands(v) == v \in DOMAIN ballots' /\ ballots'[v] = ballots[v]

\* A voter's request changes a ballot that stands, and only the voter's own, if it was
\* let in by allow_edit_responses or saw no ballot when it came.
FirstBallotStands ==
    [][\A r \in Requests, v \in DOMAIN ballots :
          Finishes(r, {"checked", "withdrawing"}) /\ ~Stands(v)
             => req[r].voter = v /\ (req[r].first \/ req[r].mayEdit)]_vars

\* A vote that was there when the owner's form was checked is deleted by it only
\* if the owner confirmed.
SeenVotesAreWarned ==
    [][\A r \in Requests :
          Finishes(r, {"editing"}) /\ ~req[r].confirmed
             => \A vote \in req[r].seen \cap Votes : vote \in Votes']_vars

\* The owner's form neither removes nor regroups an option a voter added, and takes
\* no vote for it.
CustomKept ==
    [][version' # version =>
          /\ \A o \in custom : o \in DOMAIN option' /\ option'[o] = option[o]
          /\ \A v \in DOMAIN ballots : \A o \in custom \cap DOMAIN ballots[v].votes :
                o \in DOMAIN ballots'[v].votes]_vars
=============================================================================
