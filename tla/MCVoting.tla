------------------------------ MODULE MCVoting ------------------------------
(***************************************************************************)
(* Voting for TLC: the requests under way are interchangeable.  There are    *)
(* two kinds of polls.  Simple ones are planned, opened and closed, allow    *)
(* and forbid changing a ballot, and let voters add options, but limit       *)
(* nothing.  Limited ones are open and limit YES votes in total and in a     *)
(* group, and voters add nothing to them.                                    *)
(***************************************************************************)
EXTENDS Voting, TLC

CONSTANTS v1, r1, r2

Row1(status, mode, maxYes, allowEdit, allowCustom) ==
    [status |-> status, mode |-> mode, maxYes |-> maxYes,
     allowEdit |-> allowEdit, allowCustom |-> allowCustom]

SimpleForms ==
    {[row |-> Row1(status, "YES_NO_MAYBE", Unlimited, allowEdit, TRUE),
      listing |-> [l \in listed |-> NoGroup], cap |-> [g \in Groups |-> Unlimited]] :
        status \in PollStatuses, allowEdit \in BOOLEAN, listed \in SUBSET Labels}

LimitedForms ==
    {[row |-> row, listing |-> listing, cap |-> [g \in Groups |-> 1]] :
        row \in {Row1("ACTIVE", "YES_NO_MAYBE", Unlimited, TRUE, FALSE),
                 Row1("ACTIVE", "MULTI_CHOICE", 1, TRUE, FALSE)},
        listing \in Listings}

Forms == {form \in SimpleForms \cup LimitedForms :
            form.row.status = "ACTIVE" => form.listing # << >>}

Simple == poll.allowCustom

\* Bound: a poll stays of its kind; a simple one has YES votes, and its owner's edit and
\* its voter create at most one option each beside the first ones; no option of a limited
\* one is created anew, and its time neither begins nor ends.
Small ==
    /\ Cardinality(spent) <= 3 /\ Cardinality(custom) <= 1
    /\ ~Simple => window = "open" /\ \A o \in spent : o[2] = 1
    /\ \A r \in Requests :
          /\ At(r, "editing") => req[r].form.row.allowCustom = Simple
          /\ At(r, "voting") /\ Simple =>
                \A o \in DOMAIN req[r].votes : req[r].votes[o] = "YES"

Interchangeable == Permutations({r1, r2})
=============================================================================
